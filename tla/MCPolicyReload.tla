--------------------------- MODULE MCPolicyReload ---------------------------
(***************************************************************************)
(* Edit histories for PolicyReload over the policies a, b and c.           *)
(***************************************************************************)
EXTENDS PolicyReload, TLC

CONSTANTS a, b, c, q1, q2

\* b and c trade places, b with other keys; the list is empty in between.
SwapLayout == 0 :> <<b, a, c>> @@ 1 :> <<>> @@ 2 :> <<c, a, b>>
RotateB == [v \in 0..2 |-> [n \in Names |-> IF n = b /\ v > 0 THEN 1 ELSE 0]]

\* One policy, whose keys are rotated.
RotateA == 0 :> <<a>> @@ 1 :> <<a>>
TwoGenerations == [v \in 0..1 |-> [n \in Names |-> v]]
=============================================================================
