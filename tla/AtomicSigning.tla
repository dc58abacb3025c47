--------------------------- MODULE AtomicSigning ---------------------------
(***************************************************************************)
(* What sign promises of a request: each call ends once, and in the same   *)
(* moment the request has that call's headers, or has not.                 *)
(***************************************************************************)
EXTENDS Sequences

CONSTANTS Calls, Requests

VARIABLES
    outcome,    \* of each call: "none", "success" or "failure"
    signers     \* of each request: the calls whose headers it has, in order

vars == <<outcome, signers>>

Init ==
    /\ outcome = [c \in Calls |-> "none"]
    /\ signers = [r \in Requests |-> <<>>]

Succeed(c, r) ==
    /\ outcome[c] = "none"
    /\ outcome' = [outcome EXCEPT ![c] = "success"]
    /\ signers' = [signers EXCEPT ![r] = Append(@, c)]

Fail(c) ==
    /\ outcome[c] = "none"
    /\ outcome' = [outcome EXCEPT ![c] = "failure"]
    /\ UNCHANGED signers

Next == \E c \in Calls : Fail(c) \/ \E r \in Requests : Succeed(c, r)

Spec == Init /\ [][Next]_vars
=============================================================================
