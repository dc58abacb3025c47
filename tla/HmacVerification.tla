-------------------------- MODULE HmacVerification --------------------------
(***************************************************************************)
(* HmacManager.VerifyAsync on the replicas of one service.  A message is   *)
(* signed once (a nonce, a date, a policy); copies of it arrive as         *)
(* requests any number of times, late, on any replica: a client retries, a *)
(* proxy sends twice, a body is damaged or cut short on the way.  Each     *)
(* request is one call of VerifyAsync, whose steps are the places where    *)
(* another call, the clock or a failure can come in between:               *)
(*                                                                         *)
(*   received --CheckDate--> checked --ReadNonce--> nonceFree              *)
(*     --RecordNonce--> nonceRecorded --CompareSignature--> success        *)
(*                                                                         *)
(* and every step can end the call in failure or, by an exception, in      *)
(* error; "unavailable" is the exception of a store that does not work.    *)
(***************************************************************************)
EXTENDS NonceCache

CONSTANTS
    Requests,       \* calls of VerifyAsync
    Policies, PolicyOf, MaxAge, CacheType,  \* PolicyOf[m], MaxAge[p], CacheType[p]
    ClockSkew,      \* how far a client's clock may be from the servers'
    MaxLag,         \* longest time from the date check to the nonce lookup
    StoreMayFail,   \* TRUE: calls to Redis may throw
    MaxTime         \* the clock stops here

ASSUME VerificationAssumption ==
    /\ PolicyOf \in [Messages -> Policies]
    /\ MaxAge \in [Policies -> Nat \ {0}]
    /\ CacheType \in [Policies -> CacheTypes]
    /\ ClockSkew \in Nat /\ MaxLag \in Nat /\ MaxTime \in Nat
    /\ StoreMayFail \in BOOLEAN

VARIABLES
    sent,           \* messages signed so far
    dateRequested,  \* dateRequested[m], by the client's clock
    pc, msg, host, copy,    \* of each request
    checkedAt,      \* when the request's date was checked
    crashed,        \* replicas that are gone
    \* for the properties only:
    recorded,       \* requests whose SetAsync has taken effect
    prior           \* prior[q]: recorded requests of q's store when q looked there

requestVars == <<pc, msg, host, copy, checkedAt>>
vars == <<now, cache, sent, dateRequested, requestVars, crashed, recorded, prior>>

-----------------------------------------------------------------------------

(***************************************************************************)
(* How a copy differs from what was signed: not at all; its content, which *)
(* the signature covers; a header of its scheme is gone; its body ends     *)
(* early, so that reading it throws.                                       *)
(***************************************************************************)
Copies == {"intact", "altered", "headerMissing", "truncated"}

Active == {"received", "checked", "nonceFree", "nonceRecorded"}
Answered == {"success", "failure", "error", "unavailable"}

StoreOf(q) == StoreFor(CacheType[PolicyOf[msg[q]]], host[q])

Age(q) == now - dateRequested[msg[q]]

ValidAge(age, m) == 0 <= age /\ age < MaxAge[PolicyOf[m]]

\* Mutant: an age of exactly MaxAge passes.
AgeAtMostMaxAge(q) == 0 <= Age(q) /\ Age(q) <= MaxAge[PolicyOf[msg[q]]]

HasValidDateRequested(q) == ValidAge(Age(q), msg[q])

Move(q, to) == pc' = [pc EXCEPT ![q] = to]

-----------------------------------------------------------------------------

(***************************************************************************)
(* A client signs a message: new nonce, the date of the client's clock.    *)
(***************************************************************************)
Sign(m) ==
    /\ m \notin sent
    /\ \E d \in (now - ClockSkew)..(now + ClockSkew) :
         d >= 0 /\ dateRequested' = [dateRequested EXCEPT ![m] = d]
    /\ sent' = sent \cup {m}
    /\ UNCHANGED <<now, cache, requestVars, crashed, recorded, prior>>

\* A copy of a signed message reaches a replica, which calls VerifyAsync.
Receive(q, m, r, c) ==
    /\ pc[q] = "waiting"
    /\ m \in sent /\ r \notin crashed
    /\ msg' = [msg EXCEPT ![q] = m]
    /\ host' = [host EXCEPT ![q] = r]
    /\ copy' = [copy EXCEPT ![q] = c]
    /\ Move(q, "received")
    /\ UNCHANGED <<now, cache, sent, dateRequested, checkedAt, crashed, recorded, prior>>

\* TryParseHmac, then the date half of IsValidAsync.
CheckDate(q) ==
    /\ pc[q] = "received"
    /\ checkedAt' = [checkedAt EXCEPT ![q] = now]
    /\ Move(q, IF copy[q] # "headerMissing" /\ HasValidDateRequested(q)
                 THEN "checked" ELSE "failure")
    /\ UNCHANGED <<now, cache, sent, dateRequested, msg, host, copy, crashed,
                   recorded, prior>>

\* Mutant: the answer of the cache is not looked at.
ReadNonceIgnored(q) ==
    /\ pc[q] = "checked"
    /\ prior' = [prior EXCEPT ![q] = {p \in recorded : StoreOf(p) = StoreOf(q)}]
    /\ Move(q, "nonceFree")
    /\ UNCHANGED <<now, cache, sent, dateRequested, msg, host, copy, checkedAt,
                   crashed, recorded>>

\* Mutant: the nonce is written before it is looked up.
ReadAfterWrite(q) ==
    /\ pc[q] = "checked"
    /\ SetAsync(StoreOf(q), msg[q], dateRequested[msg[q]])
    /\ recorded' = recorded \cup {q}
    /\ prior' = [prior EXCEPT ![q] = {p \in recorded : StoreOf(p) = StoreOf(q)}]
    /\ Move(q, IF cache'[StoreOf(q)][msg[q]] > now THEN "failure" ELSE "nonceFree")
    /\ UNCHANGED <<now, sent, dateRequested, msg, host, copy, checkedAt, crashed>>

\* await cache.ContainsAsync(nonce)
ReadNonce(q) ==
    /\ pc[q] = "checked"
    /\ prior' = [prior EXCEPT ![q] = {p \in recorded : StoreOf(p) = StoreOf(q)}]
    /\ Move(q, IF ContainsAsync(StoreOf(q), msg[q]) THEN "failure" ELSE "nonceFree")
    /\ UNCHANGED <<now, cache, sent, dateRequested, msg, host, copy, checkedAt,
                   crashed, recorded>>

\* await cache.SetAsync(nonce, dateRequested), when the nonce was not found.
RecordNonce(q) ==
    /\ pc[q] = "nonceFree"
    /\ IF RejectsExpiration(StoreOf(q), dateRequested[msg[q]])
         THEN Move(q, "error") /\ UNCHANGED <<cache, recorded>>
         ELSE /\ SetAsync(StoreOf(q), msg[q], dateRequested[msg[q]])
              /\ recorded' = recorded \cup {q}
              /\ Move(q, "nonceRecorded")
    /\ UNCHANGED <<now, sent, dateRequested, msg, host, copy, checkedAt, crashed, prior>>

\* Mutant: a call whose body ends early waits for the rest of it.
CompareWholeBody(q) ==
    /\ pc[q] = "nonceRecorded" /\ copy[q] # "truncated"
    /\ Move(q, IF copy[q] = "intact" THEN "success" ELSE "failure")
    /\ UNCHANGED <<now, cache, sent, dateRequested, msg, host, copy, checkedAt,
                   crashed, recorded, prior>>

\* Mutant: a call that is not accepted gives its nonce back.
CompareAndRelease(q) ==
    /\ pc[q] = "nonceRecorded"
    /\ Move(q, IF copy[q] = "intact" THEN "success" ELSE "failure")
    /\ cache' = IF copy[q] = "intact" THEN cache
                ELSE [cache EXCEPT ![StoreOf(q)][msg[q]] = 0]
    /\ UNCHANGED <<now, sent, dateRequested, msg, host, copy, checkedAt,
                   crashed, recorded, prior>>

\* Factory.CreateAsync on the request as it arrived, then IsVerified.
CompareSignature(q) ==
    /\ pc[q] = "nonceRecorded"
    /\ Move(q, IF copy[q] = "truncated" THEN "error"
               ELSE IF copy[q] = "intact" THEN "success" ELSE "failure")
    /\ UNCHANGED <<now, cache, sent, dateRequested, msg, host, copy, checkedAt,
                   crashed, recorded, prior>>

\* A call to Redis throws; a write may have been applied.
StoreCallFails(q) ==
    /\ StoreMayFail /\ StoreOf(q) = Redis
    /\ pc[q] \in {"checked", "nonceFree"}
    /\ Move(q, "unavailable")
    /\ \/ UNCHANGED <<cache, recorded>>
       \/ /\ pc[q] = "nonceFree"
          /\ ~RejectsExpiration(Redis, dateRequested[msg[q]])
          /\ SetAsync(Redis, msg[q], dateRequested[msg[q]])
          /\ recorded' = recorded \cup {q}
    /\ UNCHANGED <<now, sent, dateRequested, msg, host, copy, checkedAt, crashed, prior>>

\* A process ends with the requests it was serving; the stores in it go with it.
Crash(r) ==
    /\ r \notin crashed
    /\ crashed' = crashed \cup {r}
    /\ pc' = [q \in Requests |->
                IF host[q] = r /\ pc[q] \in Active THEN "lost" ELSE pc[q]]
    /\ UNCHANGED <<now, cache, sent, dateRequested, msg, host, copy, checkedAt,
                   recorded, prior>>

Tick ==
    /\ now < MaxTime
    /\ \A q \in Requests : pc[q] = "checked" => now < checkedAt[q] + MaxLag
    /\ now' = now + 1
    /\ UNCHANGED <<cache, sent, dateRequested, requestVars, crashed, recorded, prior>>

-----------------------------------------------------------------------------

Init ==
    /\ now = 0
    /\ CacheInit
    /\ sent = {}
    /\ dateRequested = [m \in Messages |-> 0]
    /\ pc = [q \in Requests |-> "waiting"]
    \* Receive sets these three; what they hold before is not read.
    /\ \E m \in Messages : msg = [q \in Requests |-> m]
    /\ \E r \in Replicas : host = [q \in Requests |-> r]
    /\ copy = [q \in Requests |-> "intact"]
    /\ checkedAt = [q \in Requests |-> 0]
    /\ crashed = {}
    /\ recorded = {}
    /\ prior = [q \in Requests |-> {}]

VerifyStep(q) ==
    \/ CheckDate(q)
    \/ ReadNonce(q)
    \/ RecordNonce(q)
    \/ CompareSignature(q)
    \/ StoreCallFails(q)

Next ==
    \/ \E m \in Messages : Sign(m)
    \/ \E q \in Requests, m \in Messages, r \in Replicas, c \in Copies :
         Receive(q, m, r, c)
    \/ \E q \in Requests : VerifyStep(q)
    \/ \E r \in Replicas : Crash(r)
    \/ Tick

Spec == Init /\ [][Next]_vars

\* The thread pool resumes every pending call, and store calls return or throw.
FairSpec == Spec /\ \A q \in Requests : WF_vars(VerifyStep(q))

-----------------------------------------------------------------------------

(***************************************************************************)
(* The values of the variables: requests hold a message, a replica and a   *)
(* stage of VerifyAsync, the caches hold expirations.                      *)
(***************************************************************************)
TypeOK ==
    /\ now \in Nat
    /\ CacheTypeOK
    /\ sent \subseteq Messages
    /\ dateRequested \in [Messages -> Nat]
    /\ pc \in [Requests -> {"waiting", "lost"} \cup Active \cup Answered]
    /\ msg \in [Requests -> Messages]
    /\ host \in [Requests -> Replicas]
    /\ copy \in [Requests -> Copies]
    /\ checkedAt \in [Requests -> Nat]
    /\ crashed \subseteq Replicas
    /\ recorded \subseteq Requests
    /\ prior \in [Requests -> SUBSET Requests]

SameNonce(p, q) == msg[p] = msg[q] /\ StoreOf(p) = StoreOf(q)

(***************************************************************************)
(* When a nonce cannot be forgotten while its message may still pass the   *)
(* date check: the entry outlasts the window and the pause after the date  *)
(* check.  A policy whose window is longer than the caches' 30 s does not  *)
(* meet it, and neither store makes up for that.                           *)
(***************************************************************************)
NonceOutlasts(m) == MaxAge[PolicyOf[m]] + MaxLag <= CacheMaxAge

(***************************************************************************)
(* Replay detection.  Whatever the interleaving, a request whose nonce     *)
(* outlasts its window is accepted only if it looked the nonce up before   *)
(* any request with the same nonce had recorded it: two acceptances are    *)
(* two calls that raced between ContainsAsync and SetAsync, never a late   *)
(* copy.                                                                   *)
(***************************************************************************)
LateDuplicateRefused ==
    \A q \in Requests :
      pc[q] = "success" /\ NonceOutlasts(msg[q]) =>
        \A p \in prior[q] : ~SameNonce(p, q)

(***************************************************************************)
(* No spurious refusal.  An intact request is refused only because it was  *)
(* outside its window or because another request with its nonce had        *)
(* recorded it in the same store; losing a race never refuses a request,   *)
(* nor does a nonce of another message, a crash or a store failure.        *)
(***************************************************************************)
RefusalJustified ==
    \A q \in Requests :
      pc[q] = "failure" /\ copy[q] = "intact" =>
        \/ ~ValidAge(checkedAt[q] - dateRequested[msg[q]], msg[q])
        \/ \E p \in prior[q] \ {q} : SameNonce(p, q)

\* No message passes the date check after its nonce's entry is over.
WindowCovered(m) == MaxAge[PolicyOf[m]] <= CacheMaxAge

(***************************************************************************)
(* What Nonce.MaxAgeInSeconds says of the cache: as long as a message can  *)
(* pass the date check, a nonce that was recorded is found, to the last    *)
(* moment when window and entry end together.                              *)
(***************************************************************************)
NonceKeptForWindow ==
    \A q \in recorded :
      /\ WindowCovered(msg[q])
      /\ now - dateRequested[msg[q]] < MaxAge[PolicyOf[msg[q]]]
      => ContainsAsync(StoreOf(q), msg[q])

(***************************************************************************)
(* With a store that works, an intact request is turned into an exception  *)
(* only after its window has closed while it was served.                   *)
(***************************************************************************)
TimelyRequestDecided ==
    \A q \in Requests :
      pc[q] = "error" /\ copy[q] = "intact" /\ WindowCovered(msg[q]) =>
        now - dateRequested[msg[q]] >= MaxAge[PolicyOf[msg[q]]]

(***************************************************************************)
(* Automatic nonce management as the README states it: one message is      *)
(* accepted once by a store's users, however many copies arrive.           *)
(***************************************************************************)
AcceptedOnce ==
    \A p, q \in Requests :
      pc[p] = "success" /\ pc[q] = "success" /\ SameNonce(p, q) => p = q

(***************************************************************************)
(* No step removes or re-dates an entry before it expires: not a refused   *)
(* copy, not a failed comparison, not a second write of the same nonce.    *)
(***************************************************************************)
LiveEntryKept ==
    [][\A s \in Stores, m \in Messages :
         ContainsAsync(s, m) => cache'[s][m] = cache[s][m]]_vars

(***************************************************************************)
(* Every call of VerifyAsync ends, with an answer, an exception or its     *)
(* process: no pause, refusal or store failure leaves one behind.          *)
(***************************************************************************)
RequestAnswered ==
    \A q \in Requests : pc[q] = "received" ~> pc[q] \in Answered \cup {"lost"}

(***************************************************************************)
(* VerifyAsync keeps the promise of ReplayDetection, every await and every *)
(* race included: a message is closed by the first record of its nonce,    *)
(* and only requests that had found the nonce free by then, and are past   *)
(* their own record, are accepted.                                         *)
(***************************************************************************)
Admitted ==
    [s \in Stores |->
      {<<q, msg[q]>> : q \in {p \in Requests : /\ pc[p] \in {"nonceFree", "nonceRecorded"}
                                               /\ StoreOf(p) = s}}]
Closed == [s \in Stores |-> {msg[q] : q \in {p \in recorded : StoreOf(p) = s}}]
Granted ==
    [s \in Stores |->
      {<<q, msg[q]>> : q \in {p \in Requests : pc[p] = "success" /\ StoreOf(p) = s}}]

Promise ==
    INSTANCE ReplayDetection
    WITH Kept <- {m \in Messages : NonceOutlasts(m)},
         signed <- sent, admitted <- Admitted, closed <- Closed, granted <- Granted

DetectsReplays == Promise!Spec
=============================================================================
