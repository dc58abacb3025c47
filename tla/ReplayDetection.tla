--------------------------- MODULE ReplayDetection ---------------------------
(***************************************************************************)
(* What nonce management promises to the users of one store.  A request is *)
(* admitted to a message, and may be granted it once the message has been  *)
(* closed, which one of the admitted requests does.  A closed message      *)
(* admits nobody any more, and a grant is not taken back: whoever comes    *)
(* after the first record of a nonce is never granted its message.  How    *)
(* many requests are granted one message is left open, for all those that  *)
(* were admitted before it was closed may be.                              *)
(***************************************************************************)
CONSTANTS
    Messages, Requests, Stores,
    Kept            \* the messages for which a store's memory is long enough

VARIABLES
    signed,
    admitted,       \* admitted[s]: pairs of a request under way and its message
    closed,         \* closed[s]: messages that admit nobody any more
    granted         \* granted[s]: pairs of a request and the message it was granted

vars == <<signed, admitted, closed, granted>>

Init ==
    /\ signed = {}
    /\ admitted = [s \in Stores |-> {}]
    /\ closed = [s \in Stores |-> {}]
    /\ granted = [s \in Stores |-> {}]

Sign(m) ==
    /\ m \notin signed
    /\ signed' = signed \cup {m}
    /\ UNCHANGED <<admitted, closed, granted>>

Admit(s, q, m) ==
    /\ m \in signed
    /\ m \in Kept => m \notin closed[s]
    /\ admitted' = [admitted EXCEPT ![s] = @ \cup {<<q, m>>}]
    /\ UNCHANGED <<signed, closed, granted>>

\* The request that closes a message may fail in doing so.
Close(s, q, m) ==
    /\ <<q, m>> \in admitted[s]
    /\ closed' = [closed EXCEPT ![s] = @ \cup {m}]
    /\ \/ UNCHANGED admitted
       \/ admitted' = [admitted EXCEPT ![s] = @ \ {<<q, m>>}]
    /\ UNCHANGED <<signed, granted>>

Grant(s, q, m) ==
    /\ <<q, m>> \in admitted[s]
    /\ m \in closed[s]
    /\ admitted' = [admitted EXCEPT ![s] = @ \ {<<q, m>>}]
    /\ granted' = [granted EXCEPT ![s] = @ \cup {<<q, m>>}]
    /\ UNCHANGED <<signed, closed>>

\* Admitted requests that are refused, fail or are lost.
Leave ==
    /\ admitted' \in [Stores -> SUBSET (Requests \X Messages)]
    /\ \A s \in Stores : admitted'[s] \subseteq admitted[s]
    /\ UNCHANGED <<signed, closed, granted>>

Next ==
    \/ \E m \in Messages : Sign(m)
    \/ \E s \in Stores, q \in Requests, m \in Messages :
         Admit(s, q, m) \/ Close(s, q, m) \/ Grant(s, q, m)
    \/ Leave

Spec == Init /\ [][Next]_vars
=============================================================================
