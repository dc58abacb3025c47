------------------------- MODULE MCHmacVerification -------------------------
(***************************************************************************)
(* Instances of HmacVerification with policies that keep nonces in the     *)
(* memory cache and in the distributed cache.  Against entries of two      *)
(* units, windows of one leave one for the pause after the date check,     *)
(* "exact" ends with the entries and "long" after them (the chart's 60 s   *)
(* against the caches' 30 s).                                              *)
(***************************************************************************)
EXTENDS HmacVerification, TLC

CONSTANTS m1, m2, m3, r1, r2, q1, q2

MCPolicies == {"memory", "shared", "exact", "long"}
MCCacheType ==
    "memory" :> "Memory" @@ "shared" :> "Distributed" @@ "exact" :> "Distributed"
      @@ "long" :> "Distributed"
MCMaxAge == "memory" :> 1 @@ "shared" :> 1 @@ "exact" :> 2 @@ "long" :> 3

OneExact == m1 :> "exact"
SharedAndLong == m1 :> "shared" @@ m2 :> "long"
OneOfEach == m1 :> "memory" @@ m2 :> "shared" @@ m3 :> "exact"

Symmetric == Permutations({q1, q2}) \cup Permutations({r1, r2})
=============================================================================
