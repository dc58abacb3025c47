--------------------------- MODULE MCAuthentication ---------------------------
(***************************************************************************)
(* One request, two policies and two schemes.  Requests do not touch each  *)
(* other's state, and nothing tells two policies or two schemes apart.     *)
(***************************************************************************)
EXTENDS Authentication, TLC

CONSTANTS q1, p1, p2, s1, s2

\* A header's value, and an event's claim, under a type of their own or the handler's.
MCHeaderClaims == {<<>>} \cup {<<Claim("scheme", s)>> : s \in Schemes}
MCEventClaims ==
    {<<>>} \cup {<<Claim(type, p)>> : type \in {"policy", "other"}, p \in Policies}

Interchangeable == Permutations({p1, p2}) \cup Permutations({s1, s2})
=============================================================================
