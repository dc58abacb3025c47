----------------------- MODULE HmacVerificationProofs -----------------------
(***************************************************************************)
(* Theorems about HmacVerification for any messages, requests, replicas,   *)
(* policies, windows, skews and pauses.                                    *)
(***************************************************************************)
EXTENDS HmacVerification, TLAPS

USE CacheMaxAgeAssumption, DistributedAssumption, VerificationAssumption

-----------------------------------------------------------------------------
(***************************************************************************)
(* The inductive invariant.  A request that has gone past "waiting" keeps  *)
(* its message and the date of that message, so what was true of its       *)
(* expiration stays true; what a recorded nonce leaves in the store is     *)
(* that expiration until it has passed; and who found a nonce free that    *)
(* outlasts its window came before every record of it.                     *)
(***************************************************************************)
Expiration(m) == GetAbsoluteExpiration(dateRequested[m])

RequestsOfSentMessages ==
    /\ \A q \in Requests : pc[q] # "waiting" => msg[q] \in sent
    /\ \A q \in recorded : pc[q] \notin {"waiting", "received", "checked", "nonceFree"}
    /\ \A q \in Requests : prior[q] \subseteq recorded

EntriesOfRecords ==
    \A s \in Stores, m \in Messages :
      cache[s][m] # 0 =>
        /\ m \in sent /\ cache[s][m] = Expiration(m)
        /\ \E p \in recorded : msg[p] = m /\ StoreOf(p) = s

RecordsKept ==
    \A p \in recorded :
      \/ cache[StoreOf(p)][msg[p]] = Expiration(msg[p])
      \/ Expiration(msg[p]) <= now

CheckedInWindow ==
    \A q \in Requests :
      pc[q] = "checked" =>
        /\ ValidAge(checkedAt[q] - dateRequested[msg[q]], msg[q])
        /\ checkedAt[q] <= now /\ now <= checkedAt[q] + MaxLag

PassedWithoutRecord ==
    \A q \in Requests :
      pc[q] \in {"nonceFree", "nonceRecorded", "success"} /\ NonceOutlasts(msg[q]) =>
        \A p \in prior[q] : ~SameNonce(p, q)

IInv ==
    /\ TypeOK
    /\ RequestsOfSentMessages
    /\ EntriesOfRecords
    /\ RecordsKept
    /\ CheckedInWindow
    /\ PassedWithoutRecord
    /\ RefusalJustified

-----------------------------------------------------------------------------
(***************************************************************************)
(* The variables always have their types (TypeOK of every run).            *)
(***************************************************************************)
LEMMA TypeInit == Init => TypeOK
BY DEF Init, TypeOK, CacheInit, CacheTypeOK, Copies, Active, Answered

LEMMA StoreType ==
    ASSUME TypeOK, NEW q \in Requests
    PROVE  StoreOf(q) \in Stores
BY DEF TypeOK, StoreOf, StoreFor, Stores

LEMMA StoredType ==
    ASSUME now \in Nat, NEW d \in Nat
    PROVE  Stored(d) \in Nat /\ GetAbsoluteExpiration(d) \in Nat
BY DEF Stored, GetAbsoluteExpiration

LEMMA SetAsyncType ==
    ASSUME TypeOK, NEW s \in Stores, NEW m \in Messages,
           SetAsync(s, m, dateRequested[m])
    PROVE  CacheTypeOK'
<1>1. Stored(dateRequested[m]) \in Nat
  BY StoredType DEF TypeOK
<1> QED
  BY <1>1 DEF TypeOK, CacheTypeOK, SetAsync

LEMMA TypeNext == TypeOK /\ [Next]_vars => TypeOK'
<1> SUFFICES ASSUME TypeOK, [Next]_vars PROVE TypeOK'
  OBVIOUS
<1> USE DEF TypeOK, Copies, Active, Answered, Move
<1>1. CASE UNCHANGED vars
  BY <1>1 DEF vars, requestVars, CacheTypeOK
<1>2. ASSUME NEW m \in Messages, Sign(m) PROVE TypeOK'
  BY <1>2 DEF Sign, requestVars, CacheTypeOK
<1>3. ASSUME NEW q \in Requests, NEW m \in Messages, NEW r \in Replicas,
             NEW c \in Copies, Receive(q, m, r, c)
      PROVE  TypeOK'
  BY <1>3 DEF Receive, CacheTypeOK
<1>4. ASSUME NEW q \in Requests, CheckDate(q) PROVE TypeOK'
  BY <1>4 DEF CheckDate, CacheTypeOK
<1>5. ASSUME NEW q \in Requests, ReadNonce(q) PROVE TypeOK'
  BY <1>5 DEF ReadNonce, CacheTypeOK
<1>6. ASSUME NEW q \in Requests, RecordNonce(q) PROVE TypeOK'
  <2>1. CacheTypeOK'
    BY <1>6, SetAsyncType, StoreType DEF RecordNonce, CacheTypeOK
  <2> QED
    BY <1>6, <2>1 DEF RecordNonce
<1>7. ASSUME NEW q \in Requests, CompareSignature(q) PROVE TypeOK'
  BY <1>7 DEF CompareSignature, CacheTypeOK
<1>8. ASSUME NEW q \in Requests, StoreCallFails(q) PROVE TypeOK'
  <2>1. CacheTypeOK'
    BY <1>8, SetAsyncType DEF StoreCallFails, CacheTypeOK, Stores
  <2> QED
    BY <1>8, <2>1 DEF StoreCallFails
<1>9. ASSUME NEW r \in Replicas, Crash(r) PROVE TypeOK'
  BY <1>9 DEF Crash, CacheTypeOK
<1>10. CASE Tick
  BY <1>10 DEF Tick, requestVars, CacheTypeOK
<1> QED
  BY <1>1, <1>2, <1>3, <1>4, <1>5, <1>6, <1>7, <1>8, <1>9, <1>10
  DEF Next, VerifyStep

THEOREM TypeCorrect == Spec => []TypeOK
BY TypeInit, TypeNext, PTL DEF Spec

-----------------------------------------------------------------------------
(***************************************************************************)
(* Each action preserves the inductive invariant.                          *)
(***************************************************************************)
LEMMA InvInit == Init => IInv
<1> SUFFICES ASSUME Init PROVE IInv
  OBVIOUS
<1>1. TypeOK
  BY TypeInit
<1>2. EntriesOfRecords
  BY DEF Init, CacheInit, EntriesOfRecords
<1> QED
  BY <1>1, <1>2 DEF Init, IInv, RequestsOfSentMessages, RecordsKept, CheckedInWindow,
       PassedWithoutRecord, RefusalJustified

LEMMA SignInv ==
    ASSUME IInv, NEW m \in Messages, Sign(m)
    PROVE  IInv'
<1> USE DEF IInv, Sign, requestVars
<1>1. TypeOK'
  BY TypeNext DEF Next
<1>2. \A n \in sent : n \in Messages /\ dateRequested'[n] = dateRequested[n]
  BY DEF TypeOK
<1>3. RequestsOfSentMessages'
  BY DEF RequestsOfSentMessages
<1>4. EntriesOfRecords'
  BY <1>2 DEF EntriesOfRecords, Expiration, GetAbsoluteExpiration, StoreOf
<1>5. \A q \in Requests : pc[q] # "waiting" \/ q \in recorded => msg[q] \in sent
  BY DEF RequestsOfSentMessages, TypeOK
<1>6. RecordsKept'
  BY <1>2, <1>5 DEF RecordsKept, Expiration, GetAbsoluteExpiration, StoreOf, TypeOK
<1>7. CheckedInWindow'
  BY <1>2, <1>5 DEF CheckedInWindow, ValidAge
<1>9. PassedWithoutRecord'
  BY DEF PassedWithoutRecord, NonceOutlasts, SameNonce, StoreOf
<1>10. RefusalJustified'
  BY <1>2, <1>5 DEF RefusalJustified, ValidAge, SameNonce, StoreOf
<1> QED
  BY <1>1, <1>3, <1>4, <1>6, <1>7, <1>9, <1>10

LEMMA ReceiveInv ==
    ASSUME IInv, NEW q \in Requests, NEW m \in Messages, NEW r \in Replicas,
           NEW c \in Copies, Receive(q, m, r, c)
    PROVE  IInv'
<1> USE DEF IInv, Receive, Move
<1>1. TypeOK'
  BY TypeNext DEF Next
<1>2. q \notin recorded /\ \A x \in Requests : q \notin prior[x]
  BY DEF RequestsOfSentMessages
<1>3. \A x \in Requests : x # q =>
        /\ msg'[x] = msg[x] /\ host'[x] = host[x] /\ pc'[x] = pc[x]
        /\ StoreOf(x)' = StoreOf(x) /\ copy'[x] = copy[x]
  BY DEF TypeOK, StoreOf
<1>4. pc'[q] = "received"
  BY DEF TypeOK
<1>5. RequestsOfSentMessages'
  BY <1>2 DEF RequestsOfSentMessages, TypeOK
<1>6. EntriesOfRecords'
  BY <1>2, <1>3 DEF EntriesOfRecords, Expiration, TypeOK
<1>7. RecordsKept'
  BY <1>2, <1>3 DEF RecordsKept, Expiration, TypeOK
<1>8. CheckedInWindow'
  BY <1>3, <1>4 DEF CheckedInWindow, ValidAge
<1>9. \A x \in Requests : \A p \in prior[x] : p \in Requests /\ p # q
  BY <1>2 DEF TypeOK
<1>11. PassedWithoutRecord'
  BY <1>3, <1>4, <1>9 DEF PassedWithoutRecord, NonceOutlasts, SameNonce
<1>12. RefusalJustified'
  BY <1>3, <1>4, <1>9 DEF RefusalJustified, ValidAge, SameNonce
<1> QED
  BY <1>1, <1>5, <1>6, <1>7, <1>8, <1>11, <1>12

LEMMA CheckDateInv ==
    ASSUME IInv, NEW q \in Requests, CheckDate(q)
    PROVE  IInv'
<1> USE DEF IInv, CheckDate, Move
<1>1. TypeOK'
  BY TypeNext DEF Next, VerifyStep
<1>2. RequestsOfSentMessages'
  BY DEF RequestsOfSentMessages, TypeOK
<1>3. EntriesOfRecords'
  BY DEF EntriesOfRecords, Expiration, StoreOf
<1>4. RecordsKept'
  BY DEF RecordsKept, Expiration, StoreOf
<1>5. CheckedInWindow'
  BY DEF CheckedInWindow, ValidAge, HasValidDateRequested, Age, TypeOK
<1>7. PassedWithoutRecord'
  BY DEF PassedWithoutRecord, NonceOutlasts, SameNonce, StoreOf, TypeOK
<1>8. RefusalJustified'
  BY DEF RefusalJustified, ValidAge, SameNonce, StoreOf, HasValidDateRequested, Age, TypeOK
<1> QED
  BY <1>1, <1>2, <1>3, <1>4, <1>5, <1>7, <1>8

\* A nonce that a recorded request left in q's store, unexpired, is found.
LEMMA RecordFound ==
    ASSUME IInv, NEW q \in Requests, NEW p \in recorded, SameNonce(p, q),
           Expiration(msg[q]) > now
    PROVE  ContainsAsync(StoreOf(q), msg[q])
<1>1. Expiration(msg[q]) \in Nat /\ now \in Nat
  BY DEF IInv, TypeOK, Expiration, GetAbsoluteExpiration
<1> QED
  BY <1>1 DEF IInv, RecordsKept, SameNonce, ContainsAsync

\* After the date check, a nonce that outlasts its window has not expired.
LEMMA NotYetExpired ==
    ASSUME IInv, NEW q \in Requests, pc[q] = "checked", NonceOutlasts(msg[q])
    PROVE  Expiration(msg[q]) > now
<1>1. MaxAge[PolicyOf[msg[q]]] \in Nat /\ dateRequested[msg[q]] \in Nat
  BY DEF IInv, TypeOK
<1>2. MaxAge[PolicyOf[msg[q]]] + MaxLag <= CacheMaxAge
  BY DEF NonceOutlasts
<1>3. checkedAt[q] - dateRequested[msg[q]] < MaxAge[PolicyOf[msg[q]]]
  BY DEF IInv, CheckedInWindow, ValidAge
<1>4. now <= checkedAt[q] + MaxLag
  BY DEF IInv, CheckedInWindow
<1> QED
  BY <1>1, <1>2, <1>3, <1>4 DEF Expiration, GetAbsoluteExpiration, IInv, TypeOK

LEMMA ReadNonceInv ==
    ASSUME IInv, NEW q \in Requests, ReadNonce(q)
    PROVE  IInv'
<1> USE DEF IInv, ReadNonce, Move
<1>1. TypeOK'
  BY TypeNext DEF Next, VerifyStep
<1>2. RequestsOfSentMessages'
  BY DEF RequestsOfSentMessages, TypeOK
<1>3. EntriesOfRecords'
  BY DEF EntriesOfRecords, Expiration, StoreOf
<1>4. RecordsKept'
  BY DEF RecordsKept, Expiration, StoreOf
<1>5. CheckedInWindow'
  BY DEF CheckedInWindow, ValidAge, TypeOK
<1>7. PassedWithoutRecord'
  <2> SUFFICES ASSUME NEW x \in Requests,
                      pc'[x] \in {"nonceFree", "nonceRecorded", "success"},
                      NonceOutlasts(msg[x]), NEW p \in prior'[x], SameNonce(p, x)
               PROVE  FALSE
    BY DEF PassedWithoutRecord, NonceOutlasts, SameNonce, StoreOf
  <2>1. CASE x # q
    BY <2>1 DEF PassedWithoutRecord, TypeOK
  <2>2. CASE x = q
    <3>1. pc[q] = "checked" /\ ~ContainsAsync(StoreOf(q), msg[q]) /\ p \in recorded
      BY <2>2 DEF TypeOK
    <3> QED
      BY <3>1, <2>2, NotYetExpired, RecordFound
  <2> QED
    BY <2>1, <2>2
<1>8. RefusalJustified'
  <2> SUFFICES ASSUME NEW x \in Requests, pc'[x] = "failure", copy[x] = "intact"
               PROVE  \/ ~ValidAge(checkedAt[x] - dateRequested[msg[x]], msg[x])
                      \/ \E p \in prior'[x] \ {x} : SameNonce(p, x)
    BY DEF RefusalJustified, ValidAge, SameNonce, StoreOf
  <2>1. CASE x # q
    BY <2>1 DEF RefusalJustified, TypeOK
  <2>2. CASE x = q
    <3>1. cache[StoreOf(q)][msg[q]] > now
      BY <2>2 DEF TypeOK, ContainsAsync
    <3>2. cache[StoreOf(q)][msg[q]] # 0 /\ StoreOf(q) \in Stores /\ msg[q] \in Messages
      BY <3>1, StoreType DEF TypeOK
    <3>3. PICK p \in recorded : msg[p] = msg[q] /\ StoreOf(p) = StoreOf(q)
      BY <3>2 DEF EntriesOfRecords
    <3>4. p # q
      BY <3>3 DEF RequestsOfSentMessages
    <3>5. p \in prior'[q]
      BY <3>3 DEF TypeOK
    <3> QED
      BY <2>2, <3>3, <3>4, <3>5 DEF SameNonce
  <2> QED
    BY <2>1, <2>2
<1> QED
  BY <1>1, <1>2, <1>3, <1>4, <1>5, <1>7, <1>8

(***************************************************************************)
(* What a write leaves behind, shared by RecordNonce and by a call of the  *)
(* store that fails after its write.                                       *)
(***************************************************************************)
LEMMA WriteKeepsEntries ==
    ASSUME IInv, NEW q \in Requests, pc[q] = "nonceFree",
           SetAsync(StoreOf(q), msg[q], dateRequested[msg[q]]),
           recorded' = recorded \cup {q},
           UNCHANGED <<now, sent, dateRequested, msg, host>>
    PROVE  EntriesOfRecords' /\ RecordsKept'
<1> DEFINE s == StoreOf(q)
           m == msg[q]
<1>1. s \in Stores /\ m \in Messages /\ m \in sent
  BY StoreType DEF IInv, TypeOK, RequestsOfSentMessages
<1>2. \A t \in Stores, n \in Messages :
        cache'[t][n] = IF t = s /\ n = m THEN Stored(dateRequested[m]) ELSE cache[t][n]
  BY <1>1 DEF SetAsync, IInv, TypeOK, CacheTypeOK
<1>3. Stored(dateRequested[m]) \in {0, Expiration(m)}
  BY DEF Stored, Expiration
<1>4. \A p \in Requests : StoreOf(p)' = StoreOf(p) /\ msg'[p] = msg[p]
                          /\ Expiration(msg[p])' = Expiration(msg[p])
  BY DEF StoreOf, Expiration
<1>5. EntriesOfRecords'
  <2> SUFFICES ASSUME NEW t \in Stores, NEW n \in Messages, cache'[t][n] # 0
               PROVE  /\ n \in sent /\ cache'[t][n] = Expiration(n)
                      /\ \E p \in recorded \cup {q} : msg[p] = n /\ StoreOf(p) = t
    BY DEF EntriesOfRecords, Expiration, StoreOf
  <2>1. CASE t = s /\ n = m
    BY <2>1, <1>1, <1>2, <1>3
  <2>2. CASE ~(t = s /\ n = m)
    BY <2>2, <1>2 DEF IInv, EntriesOfRecords
  <2> QED
    BY <2>1, <2>2
<1>6. RecordsKept'
  <2> SUFFICES ASSUME NEW p \in recorded \cup {q}
               PROVE  \/ cache'[StoreOf(p)][msg[p]] = Expiration(msg[p])
                      \/ Expiration(msg[p]) <= now
    BY DEF RecordsKept, Expiration, StoreOf
  <2>1. p \in Requests /\ StoreOf(p) \in Stores /\ msg[p] \in Messages
    BY StoreType DEF IInv, TypeOK
  <2>2. CASE StoreOf(p) = s /\ msg[p] = m
    <3>1. Expiration(m) \in Int /\ now \in Int
      BY <1>1 DEF Expiration, GetAbsoluteExpiration, IInv, TypeOK
    <3>2. Stored(dateRequested[m]) = Expiration(m) \/ Expiration(m) <= now
      BY <3>1 DEF Stored, Expiration
    <3> QED
      BY <2>1, <2>2, <1>2, <3>2
  <2>3. CASE ~(StoreOf(p) = s /\ msg[p] = m)
    BY <2>1, <2>3, <1>2 DEF IInv, RecordsKept
  <2> QED
    BY <2>2, <2>3
<1> QED
  BY <1>5, <1>6

LEMMA RecordNonceInv ==
    ASSUME IInv, NEW q \in Requests, RecordNonce(q)
    PROVE  IInv'
<1> USE DEF IInv, RecordNonce, Move
<1>1. TypeOK'
  BY TypeNext DEF Next, VerifyStep
<1>2. RequestsOfSentMessages'
  BY DEF RequestsOfSentMessages, TypeOK
<1>3. EntriesOfRecords' /\ RecordsKept'
  <2>1. CASE UNCHANGED <<cache, recorded>>
    BY <2>1 DEF EntriesOfRecords, RecordsKept, Expiration, StoreOf
  <2>2. CASE ~UNCHANGED <<cache, recorded>>
    BY <2>2, WriteKeepsEntries
  <2> QED
    BY <2>1, <2>2
<1>4. CheckedInWindow'
  BY DEF CheckedInWindow, ValidAge, TypeOK
<1>6. PassedWithoutRecord'
  BY DEF PassedWithoutRecord, NonceOutlasts, SameNonce, StoreOf, TypeOK
<1>7. RefusalJustified'
  BY DEF RefusalJustified, ValidAge, SameNonce, StoreOf, TypeOK
<1> QED
  BY <1>1, <1>2, <1>3, <1>4, <1>6, <1>7

LEMMA CompareSignatureInv ==
    ASSUME IInv, NEW q \in Requests, CompareSignature(q)
    PROVE  IInv'
<1> USE DEF IInv, CompareSignature, Move
<1>1. TypeOK'
  BY TypeNext DEF Next, VerifyStep
<1>2. RequestsOfSentMessages'
  BY DEF RequestsOfSentMessages, TypeOK
<1>3. EntriesOfRecords' /\ RecordsKept'
  BY DEF EntriesOfRecords, RecordsKept, Expiration, StoreOf
<1>4. CheckedInWindow'
  BY DEF CheckedInWindow, ValidAge, TypeOK
<1>6. PassedWithoutRecord'
  BY DEF PassedWithoutRecord, NonceOutlasts, SameNonce, StoreOf, TypeOK
<1>7. RefusalJustified'
  BY DEF RefusalJustified, ValidAge, SameNonce, StoreOf, TypeOK
<1> QED
  BY <1>1, <1>2, <1>3, <1>4, <1>6, <1>7

LEMMA StoreCallFailsInv ==
    ASSUME IInv, NEW q \in Requests, StoreCallFails(q)
    PROVE  IInv'
<1> USE DEF IInv, StoreCallFails, Move
<1>1. TypeOK'
  BY TypeNext DEF Next, VerifyStep
<1>2. RequestsOfSentMessages'
  BY DEF RequestsOfSentMessages, TypeOK
<1>3. EntriesOfRecords' /\ RecordsKept'
  <2>1. CASE UNCHANGED <<cache, recorded>>
    BY <2>1 DEF EntriesOfRecords, RecordsKept, Expiration, StoreOf
  <2>2. CASE ~UNCHANGED <<cache, recorded>>
    BY <2>2, WriteKeepsEntries
  <2> QED
    BY <2>1, <2>2
<1>4. CheckedInWindow'
  BY DEF CheckedInWindow, ValidAge, TypeOK
<1>6. PassedWithoutRecord'
  BY DEF PassedWithoutRecord, NonceOutlasts, SameNonce, StoreOf, TypeOK
<1>7. RefusalJustified'
  BY DEF RefusalJustified, ValidAge, SameNonce, StoreOf, TypeOK
<1> QED
  BY <1>1, <1>2, <1>3, <1>4, <1>6, <1>7

LEMMA CrashInv ==
    ASSUME IInv, NEW r \in Replicas, Crash(r)
    PROVE  IInv'
<1> USE DEF IInv, Crash
<1>1. TypeOK'
  BY TypeNext DEF Next
<1>2. \A q \in Requests : pc'[q] = pc[q] \/ (pc[q] \in Active /\ pc'[q] = "lost")
  OBVIOUS
<1>3. RequestsOfSentMessages'
  BY <1>2 DEF RequestsOfSentMessages, Active, TypeOK
<1>4. EntriesOfRecords' /\ RecordsKept'
  BY DEF EntriesOfRecords, RecordsKept, Expiration, StoreOf
<1>5. CheckedInWindow'
  BY <1>2 DEF CheckedInWindow, ValidAge
<1>7. PassedWithoutRecord'
  BY <1>2 DEF PassedWithoutRecord, NonceOutlasts, SameNonce, StoreOf
<1>8. RefusalJustified'
  BY <1>2 DEF RefusalJustified, ValidAge, SameNonce, StoreOf
<1> QED
  BY <1>1, <1>3, <1>4, <1>5, <1>7, <1>8

LEMMA TickInv ==
    ASSUME IInv, Tick
    PROVE  IInv'
<1> USE DEF IInv, Tick, requestVars
<1>1. TypeOK'
  BY TypeNext DEF Next
<1>2. RequestsOfSentMessages' /\ EntriesOfRecords'
  BY DEF RequestsOfSentMessages, EntriesOfRecords, Expiration, StoreOf
<1>3. \A m \in Messages : Expiration(m) \in Nat /\ Expiration(m)' = Expiration(m)
  BY DEF TypeOK, Expiration, GetAbsoluteExpiration
<1>4. RecordsKept'
  BY <1>3 DEF RecordsKept, StoreOf, TypeOK
<1>5. CheckedInWindow'
  BY DEF CheckedInWindow, ValidAge, TypeOK
<1>7. PassedWithoutRecord' /\ RefusalJustified'
  BY DEF PassedWithoutRecord, RefusalJustified, NonceOutlasts, ValidAge, SameNonce, StoreOf
<1> QED
  BY <1>1, <1>2, <1>4, <1>5, <1>7

LEMMA StutterInv ==
    ASSUME IInv, UNCHANGED vars
    PROVE  IInv'
BY TypeNext DEF IInv, vars, requestVars, RequestsOfSentMessages, EntriesOfRecords, RecordsKept,
   CheckedInWindow, PassedWithoutRecord, RefusalJustified,
   Expiration, NonceOutlasts, ValidAge, SameNonce, StoreOf

LEMMA InvNext == IInv /\ [Next]_vars => IInv'
BY SignInv, ReceiveInv, CheckDateInv, ReadNonceInv, RecordNonceInv, CompareSignatureInv,
   StoreCallFailsInv, CrashInv, TickInv, StutterInv
DEF Next, VerifyStep

THEOREM Invariant == Spec => []IInv
BY InvInit, InvNext, PTL DEF Spec

-----------------------------------------------------------------------------
(***************************************************************************)
(* Replay detection holds for every interleaving, any number of copies,    *)
(* replicas and crashes: a late copy of a nonce that outlasts its window   *)
(* is refused.                                                             *)
(***************************************************************************)
THEOREM LateDuplicatesRefused == Spec => []LateDuplicateRefused
<1>1. IInv => LateDuplicateRefused
  BY DEF IInv, PassedWithoutRecord, LateDuplicateRefused
<1> QED
  BY <1>1, Invariant, PTL

(***************************************************************************)
(* An intact request is refused only outside its window or after another   *)
(* request recorded its nonce.                                             *)
(***************************************************************************)
THEOREM RefusalsJustified == Spec => []RefusalJustified
<1>1. IInv => RefusalJustified
  BY DEF IInv
<1> QED
  BY <1>1, Invariant, PTL

(***************************************************************************)
(* Under a policy whose window is not longer than the cache's 30 s, a      *)
(* nonce that was recorded is found for as long as its message passes the  *)
(* date check.                                                             *)
(***************************************************************************)
THEOREM NoncesKept == Spec => []NonceKeptForWindow
<1>1. IInv => NonceKeptForWindow
  <2> SUFFICES ASSUME IInv, NEW q \in recorded, WindowCovered(msg[q]),
                      now - dateRequested[msg[q]] < MaxAge[PolicyOf[msg[q]]]
               PROVE  cache[StoreOf(q)][msg[q]] > now
    BY DEF NonceKeptForWindow, ContainsAsync
  <2>1. /\ q \in Requests /\ msg[q] \in Messages /\ now \in Nat
        /\ dateRequested[msg[q]] \in Nat /\ MaxAge[PolicyOf[msg[q]]] \in Nat
    BY DEF IInv, TypeOK
  <2>2. MaxAge[PolicyOf[msg[q]]] <= CacheMaxAge
    BY <2>1 DEF WindowCovered
  <2>3. Expiration(msg[q]) > now /\ Expiration(msg[q]) \in Nat
    BY <2>1, <2>2 DEF Expiration, GetAbsoluteExpiration
  <2> QED
    BY <2>1, <2>3 DEF IInv, RecordsKept
<1> QED
  BY <1>1, Invariant, PTL

\* Once closed for a request that has arrived, a window stays closed.
LEMMA TimelyStep ==
    ASSUME IInv, TimelyRequestDecided, [Next]_vars
    PROVE  TimelyRequestDecided'
<1> DEFINE WindowClosed(q) == now - dateRequested[msg[q]] >= MaxAge[PolicyOf[msg[q]]]
<1> SUFFICES ASSUME NEW q \in Requests, pc'[q] = "error", copy'[q] = "intact",
                    WindowCovered(msg[q])'
             PROVE  WindowClosed(q)'
  BY DEF TimelyRequestDecided
<1> USE DEF IInv, TypeOK, Move
<1>1. CASE pc[q] = "error"
  <2>1. WindowCovered(msg[q]) => WindowClosed(q) \/ copy[q] # "intact"
    BY <1>1 DEF TimelyRequestDecided
  <2>2. /\ msg'[q] = msg[q] /\ copy'[q] = copy[q]
        /\ now' >= now /\ dateRequested'[msg[q]] = dateRequested[msg[q]]
    <3>1. msg[q] \in sent
      BY <1>1 DEF RequestsOfSentMessages
    <3> QED
      BY <1>1, <3>1 DEF Next, VerifyStep, vars, requestVars, Sign, Receive, CheckDate,
         ReadNonce, RecordNonce, CompareSignature, StoreCallFails, Crash, Tick
  <2>3. /\ now \in Nat /\ now' \in Nat
        /\ dateRequested[msg[q]] \in Nat /\ MaxAge[PolicyOf[msg[q]]] \in Nat
    BY TypeNext
  <2> QED
    BY <2>1, <2>2, <2>3 DEF WindowCovered
<1>2. CASE pc[q] # "error"
  <2>1. RecordNonce(q) \/ CompareSignature(q)
    BY <1>2 DEF Next, VerifyStep, vars, requestVars, Sign, Receive, CheckDate,
       ReadNonce, RecordNonce, CompareSignature, StoreCallFails, Crash, Tick
  <2>2. CASE CompareSignature(q)
    BY <2>2 DEF CompareSignature
  <2>3. CASE RecordNonce(q)
    <3>1. RejectsExpiration(StoreOf(q), dateRequested[msg[q]])
      BY <2>3 DEF RecordNonce
    <3>2. MaxAge[PolicyOf[msg[q]]] <= CacheMaxAge
      BY <2>3 DEF RecordNonce, WindowCovered
    <3>3. UNCHANGED <<now, msg, dateRequested>>
      BY <2>3 DEF RecordNonce
    <3>4. WindowClosed(q)
      BY <3>1, <3>2 DEF RejectsExpiration, GetAbsoluteExpiration
    <3> QED
      BY <3>3, <3>4
  <2> QED
    BY <2>1, <2>2, <2>3
<1> QED
  BY <1>1, <1>2

(***************************************************************************)
(* Under such a policy, an intact request ends in an exception that is not *)
(* the store's failure only after its window has closed.                   *)
(***************************************************************************)
THEOREM TimelyRequestsDecided == Spec => []TimelyRequestDecided
<1>1. Init => TimelyRequestDecided
  BY DEF Init, TimelyRequestDecided
<1>2. IInv /\ TimelyRequestDecided /\ [Next]_vars => TimelyRequestDecided'
  BY TimelyStep
<1> QED
  BY <1>1, <1>2, Invariant, PTL DEF Spec

(***************************************************************************)
(* No step removes or re-dates an entry that has not expired.              *)
(***************************************************************************)
THEOREM LiveEntriesKept == Spec => LiveEntryKept
<1>1. IInv /\ [Next]_vars =>
        [\A s \in Stores, m \in Messages :
           ContainsAsync(s, m) => cache'[s][m] = cache[s][m]]_vars
  <2> SUFFICES ASSUME IInv, Next, NEW s \in Stores, NEW m \in Messages,
                      cache[s][m] > now
               PROVE  cache'[s][m] = cache[s][m]
    BY DEF ContainsAsync
  <2>1. cache[s][m] = Expiration(m)
    BY DEF IInv, EntriesOfRecords, TypeOK
  <2>2. \A t \in Stores, n \in Messages :
          SetAsync(t, n, dateRequested[n]) => cache'[s][m] = cache[s][m]
    BY <2>1 DEF SetAsync, Stored, Expiration, IInv, TypeOK, CacheTypeOK
  <2>3. \A q \in Requests : StoreOf(q) \in Stores /\ msg[q] \in Messages
    BY StoreType DEF IInv, TypeOK
  <2>4. Redis \in Stores
    BY DEF Stores
  <2> QED
    BY <2>2, <2>3, <2>4 DEF Next, VerifyStep, Sign, Receive, CheckDate, ReadNonce, RecordNonce,
       CompareSignature, StoreCallFails, Crash, Tick
<1> QED
  BY <1>1, Invariant, PTL DEF Spec, LiveEntryKept

-----------------------------------------------------------------------------
(***************************************************************************)
(* HmacVerification implements ReplayDetection: each step of a request is  *)
(* one of Admit, Close, Grant and Leave, or changes nothing of it.         *)
(***************************************************************************)

AcceptedAreRecorded ==
    \A q \in Requests : pc[q] \in {"nonceRecorded", "success"} => q \in recorded

\* A request's message and replica stay what they were when it arrived.
LEMMA RequestFixed ==
    ASSUME TypeOK, [Next]_vars, NEW q \in Requests, pc[q] # "waiting"
    PROVE  msg'[q] = msg[q] /\ StoreOf(q)' = StoreOf(q)
<1>1. msg'[q] = msg[q] /\ host'[q] = host[q]
  BY DEF TypeOK, Next, VerifyStep, vars, requestVars, Sign, Receive, CheckDate, ReadNonce,
     RecordNonce, CompareSignature, StoreCallFails, Crash, Tick
<1> QED
  BY <1>1 DEF StoreOf

LEMMA AcceptedAreRecordedStep ==
    ASSUME IInv, AcceptedAreRecorded, [Next]_vars
    PROVE  AcceptedAreRecorded'
<1> SUFFICES ASSUME NEW q \in Requests, pc'[q] \in {"nonceRecorded", "success"}
             PROVE  q \in recorded'
  BY DEF AcceptedAreRecorded
<1> QED
  BY DEF AcceptedAreRecorded, IInv, TypeOK, Next, VerifyStep, vars, requestVars, Sign, Receive,
     CheckDate, ReadNonce, RecordNonce, CompareSignature, StoreCallFails, Crash, Tick, Move, Active

UnderWay == {"nonceFree", "nonceRecorded"}

(***************************************************************************)
(* The mapped variables after a step, request by request: where the        *)
(* members of a set of requests and its image under msg come from.         *)
(***************************************************************************)
LEMMA MappedAfter ==
    ASSUME IInv, [Next]_vars
    PROVE  /\ Admitted' = [s \in Stores |->
                {<<q, msg[q]>> : q \in {p \in Requests : pc'[p] \in UnderWay /\ StoreOf(p) = s}}]
           /\ Granted' = [s \in Stores |->
                {<<q, msg[q]>> : q \in {p \in Requests : pc'[p] = "success" /\ StoreOf(p) = s}}]
           /\ Closed' = [s \in Stores |-> {msg[q] : q \in {p \in recorded' : StoreOf(p) = s}}]
<1> USE DEF IInv, TypeOK, Move
<1>1. \A q \in Requests : pc'[q] \in UnderWay \cup {"success"} => pc[q] # "waiting"
  BY DEF UnderWay, Next, VerifyStep, vars, requestVars, Sign, Receive, CheckDate, ReadNonce,
     RecordNonce, CompareSignature, StoreCallFails, Crash, Tick
<1>2. \A q \in recorded' : q \in Requests /\ pc[q] # "waiting"
  BY DEF RequestsOfSentMessages, Next, VerifyStep, vars, requestVars, Sign, Receive, CheckDate,
     ReadNonce, RecordNonce, CompareSignature, StoreCallFails, Crash, Tick
<1>3. \A q \in Requests : pc[q] # "waiting" => msg'[q] = msg[q] /\ StoreOf(q)' = StoreOf(q)
  BY RequestFixed
<1>4. ASSUME NEW s \in Stores
      PROVE  {<<q, msg'[q]>> : q \in {p \in Requests : pc'[p] \in UnderWay /\ StoreOf(p)' = s}}
             = {<<q, msg[q]>> : q \in {p \in Requests : pc'[p] \in UnderWay /\ StoreOf(p) = s}}
  BY <1>1, <1>3
<1>5. ASSUME NEW s \in Stores
      PROVE  {<<q, msg'[q]>> : q \in {p \in Requests : pc'[p] = "success" /\ StoreOf(p)' = s}}
             = {<<q, msg[q]>> : q \in {p \in Requests : pc'[p] = "success" /\ StoreOf(p) = s}}
  BY <1>1, <1>3
<1>6. ASSUME NEW s \in Stores
      PROVE  {msg'[q] : q \in {p \in recorded' : StoreOf(p)' = s}}
             = {msg[q] : q \in {p \in recorded' : StoreOf(p) = s}}
  BY <1>2, <1>3
<1> QED
  BY <1>4, <1>5, <1>6 DEF Admitted, Granted, Closed, Stores, UnderWay

\* A step that admits, closes and grants nothing.
LEMMA LeaveStep ==
    ASSUME IInv, [Next]_vars, UNCHANGED recorded,
           \A q \in Requests : pc'[q] \in UnderWay => pc[q] \in UnderWay,
           \A q \in Requests : pc'[q] = "success" <=> pc[q] = "success"
    PROVE  /\ Admitted' \in [Stores -> SUBSET (Requests \X Messages)]
           /\ \A s \in Stores : Admitted'[s] \subseteq Admitted[s]
           /\ Closed' = Closed /\ Granted' = Granted
<1>1. Closed' = Closed
  BY MappedAfter DEF Closed
<1>2. ASSUME NEW s \in Stores
      PROVE  {p \in Requests : pc'[p] = "success" /\ StoreOf(p) = s}
             = {p \in Requests : pc[p] = "success" /\ StoreOf(p) = s}
  OBVIOUS
<1>3. Granted' = Granted
  BY <1>2, MappedAfter DEF Granted
<1>4. \A s \in Stores : Admitted'[s] \subseteq Admitted[s]
  BY MappedAfter DEF Admitted, UnderWay
<1>5. Admitted' \in [Stores -> SUBSET (Requests \X Messages)]
  BY MappedAfter DEF IInv, TypeOK
<1> QED
  BY <1>1, <1>3, <1>4, <1>5

\* A nonce that is found free and outlasts its window has not been recorded.
LEMMA AdmitStep ==
    ASSUME IInv, NEW q \in Requests, ReadNonce(q), pc'[q] = "nonceFree"
    PROVE  Promise!Admit(StoreOf(q), q, msg[q])
<1> DEFINE s == StoreOf(q)
<1>1. [Next]_vars
  BY DEF Next, VerifyStep
<1>2. pc[q] = "checked" /\ ~ContainsAsync(s, msg[q]) /\ msg[q] \in sent /\ s \in Stores
  BY StoreType DEF ReadNonce, Move, IInv, TypeOK, RequestsOfSentMessages
<1>3. NonceOutlasts(msg[q]) => msg[q] \notin Closed[s]
  BY <1>2, NotYetExpired, RecordFound DEF Closed, SameNonce
<1>4. \A p \in Requests : pc'[p] = IF p = q THEN "nonceFree" ELSE pc[p]
  BY DEF ReadNonce, Move, IInv, TypeOK
<1>5. Closed' = Closed
  BY <1>1, MappedAfter DEF Closed, ReadNonce
<1>6. Granted' = Granted
  <2>1. ASSUME NEW t \in Stores
        PROVE  {p \in Requests : pc'[p] = "success" /\ StoreOf(p) = t}
               = {p \in Requests : pc[p] = "success" /\ StoreOf(p) = t}
    BY <1>2, <1>4
  <2> QED
    BY <2>1, <1>1, MappedAfter DEF Granted
<1>7. Admitted' = [Admitted EXCEPT ![s] = @ \cup {<<q, msg[q]>>}]
  <2>1. ASSUME NEW t \in Stores
        PROVE  {<<x, msg[x]>> : x \in {p \in Requests : pc'[p] \in UnderWay /\ StoreOf(p) = t}}
               = IF t = s THEN Admitted[t] \cup {<<q, msg[q]>>} ELSE Admitted[t]
    BY <1>2, <1>4 DEF Admitted, UnderWay
  <2> QED
    BY <2>1, <1>1, <1>2, MappedAfter DEF Admitted
<1> QED
  BY <1>2, <1>3, <1>5, <1>6, <1>7 DEF ReadNonce, Promise!Admit

\* The first write of a nonce closes its message, whether or not the call survives it.
LEMMA CloseStep ==
    ASSUME IInv, [Next]_vars, NEW q \in Requests, pc[q] = "nonceFree",
           recorded' = recorded \cup {q}, UNCHANGED sent,
           pc' \in {[pc EXCEPT ![q] = "nonceRecorded"], [pc EXCEPT ![q] = "unavailable"]}
    PROVE  Promise!Close(StoreOf(q), q, msg[q])
<1> DEFINE s == StoreOf(q)
<1>1. s \in Stores /\ msg[q] \in Messages
  BY StoreType DEF IInv, TypeOK
<1>2. \A p \in Requests : p # q => pc'[p] = pc[p]
  BY DEF IInv, TypeOK
<1>3. pc'[q] \in {"nonceRecorded", "unavailable"}
  BY DEF IInv, TypeOK
<1>4. <<q, msg[q]>> \in Admitted[s]
  BY <1>1 DEF Admitted
<1>5. Closed' = [Closed EXCEPT ![s] = @ \cup {msg[q]}]
  <2>1. ASSUME NEW t \in Stores
        PROVE  {msg[x] : x \in {p \in recorded' : StoreOf(p) = t}}
               = IF t = s THEN Closed[t] \cup {msg[q]} ELSE Closed[t]
    BY DEF Closed
  <2> QED
    BY <2>1, <1>1, MappedAfter DEF Closed
<1>6. Granted' = Granted
  <2>1. ASSUME NEW t \in Stores
        PROVE  {p \in Requests : pc'[p] = "success" /\ StoreOf(p) = t}
               = {p \in Requests : pc[p] = "success" /\ StoreOf(p) = t}
    BY <1>2, <1>3
  <2> QED
    BY <2>1, MappedAfter DEF Granted
<1>7. CASE pc'[q] = "nonceRecorded"
  <2>1. ASSUME NEW t \in Stores
        PROVE  {p \in Requests : pc'[p] \in UnderWay /\ StoreOf(p) = t}
               = {p \in Requests : pc[p] \in UnderWay /\ StoreOf(p) = t}
    BY <1>2, <1>7 DEF UnderWay
  <2>2. Admitted' = Admitted
    BY <2>1, MappedAfter DEF Admitted, UnderWay
  <2> QED
    BY <2>2, <1>4, <1>5, <1>6 DEF Promise!Close
<1>8. CASE pc'[q] = "unavailable"
  <2>1. ASSUME NEW t \in Stores
        PROVE  {<<x, msg[x]>> : x \in {p \in Requests : pc'[p] \in UnderWay /\ StoreOf(p) = t}}
               = IF t = s THEN Admitted[t] \ {<<q, msg[q]>>} ELSE Admitted[t]
    BY <1>2, <1>8 DEF Admitted, UnderWay
  <2>2. Admitted' = [Admitted EXCEPT ![s] = @ \ {<<q, msg[q]>>}]
    BY <2>1, <1>1, MappedAfter DEF Admitted
  <2> QED
    BY <2>2, <1>4, <1>5, <1>6 DEF Promise!Close
<1> QED
  BY <1>3, <1>7, <1>8

\* An acceptance is a grant to a request under way, of a message it has closed.
LEMMA GrantStep ==
    ASSUME IInv, AcceptedAreRecorded, NEW q \in Requests, CompareSignature(q), pc'[q] = "success"
    PROVE  Promise!Grant(StoreOf(q), q, msg[q])
<1> DEFINE s == StoreOf(q)
<1>1. [Next]_vars
  BY DEF Next, VerifyStep
<1>2. pc[q] = "nonceRecorded" /\ q \in recorded /\ s \in Stores
  BY StoreType DEF CompareSignature, AcceptedAreRecorded, IInv
<1>3. \A p \in Requests : pc'[p] = IF p = q THEN "success" ELSE pc[p]
  BY DEF CompareSignature, Move, IInv, TypeOK
<1>4. <<q, msg[q]>> \in Admitted[s] /\ msg[q] \in Closed[s]
  BY <1>2 DEF Admitted, Closed
<1>5. Closed' = Closed
  BY <1>1, MappedAfter DEF Closed, CompareSignature
<1>6. Admitted' = [Admitted EXCEPT ![s] = @ \ {<<q, msg[q]>>}]
  <2>1. ASSUME NEW t \in Stores
        PROVE  {<<x, msg[x]>> : x \in {p \in Requests : pc'[p] \in UnderWay /\ StoreOf(p) = t}}
               = IF t = s THEN Admitted[t] \ {<<q, msg[q]>>} ELSE Admitted[t]
    BY <1>3 DEF Admitted, UnderWay
  <2> QED
    BY <2>1, <1>1, <1>2, MappedAfter DEF Admitted
<1>7. Granted' = [Granted EXCEPT ![s] = @ \cup {<<q, msg[q]>>}]
  <2>1. ASSUME NEW t \in Stores
        PROVE  {<<x, msg[x]>> : x \in {p \in Requests : pc'[p] = "success" /\ StoreOf(p) = t}}
               = IF t = s THEN Granted[t] \cup {<<q, msg[q]>>} ELSE Granted[t]
    BY <1>3 DEF Granted
  <2> QED
    BY <2>1, <1>1, <1>2, MappedAfter DEF Granted
<1> QED
  BY <1>4, <1>5, <1>6, <1>7 DEF CompareSignature, Promise!Grant

LEMMA PromiseInit == Init => Promise!Init
<1> SUFFICES ASSUME Init PROVE Promise!Init
  OBVIOUS
<1>1. \A s \in Stores : {p \in Requests : /\ pc[p] \in {"nonceFree", "nonceRecorded"}
                                          /\ StoreOf(p) = s} = {}
  BY DEF Init
<1>2. \A s \in Stores : {p \in Requests : pc[p] = "success" /\ StoreOf(p) = s} = {}
  BY DEF Init
<1>3. \A s \in Stores : {p \in recorded : StoreOf(p) = s} = {}
  BY DEF Init
<1> QED
  BY <1>1, <1>2, <1>3 DEF Init, Promise!Init, Admitted, Closed, Granted

LEMMA PromiseStep ==
    ASSUME IInv, AcceptedAreRecorded, [Next]_vars
    PROVE  [Promise!Next]_(Promise!vars)
<1> USE DEF Move
<1>1. ASSUME UNCHANGED <<sent, recorded>>,
             \A q \in Requests : pc'[q] \in UnderWay => pc[q] \in UnderWay,
             \A q \in Requests : pc'[q] = "success" <=> pc[q] = "success"
      PROVE  Promise!Next
  BY <1>1, LeaveStep DEF Promise!Next, Promise!Leave
<1>2. CASE UNCHANGED vars
  BY <1>1, <1>2 DEF vars, requestVars
<1>3. ASSUME NEW m \in Messages, Sign(m) PROVE Promise!Next
  <2>1. UNCHANGED <<Admitted, Closed, Granted>>
    BY <1>3 DEF Sign, requestVars, Admitted, Closed, Granted, StoreOf
  <2> QED
    BY <2>1, <1>3 DEF Sign, Promise!Next, Promise!Sign
<1>4. ASSUME NEW q \in Requests, NEW m \in Messages, NEW r \in Replicas, NEW c \in Copies,
             Receive(q, m, r, c)
      PROVE  Promise!Next
  BY <1>1, <1>4 DEF Receive, UnderWay, IInv, TypeOK
<1>5. ASSUME NEW q \in Requests, CheckDate(q) PROVE Promise!Next
  BY <1>1, <1>5 DEF CheckDate, UnderWay, IInv, TypeOK
<1>6. ASSUME NEW q \in Requests, ReadNonce(q) PROVE Promise!Next
  <2>1. StoreOf(q) \in Stores /\ msg[q] \in Messages
    BY StoreType DEF IInv, TypeOK
  <2>2. CASE pc'[q] = "nonceFree"
    BY <1>6, <2>1, <2>2, AdmitStep DEF Promise!Next
  <2>3. CASE pc'[q] # "nonceFree"
    BY <1>1, <1>6, <2>3 DEF ReadNonce, UnderWay, IInv, TypeOK
  <2> QED
    BY <2>2, <2>3
<1>7. ASSUME NEW q \in Requests, RecordNonce(q) PROVE Promise!Next
  <2>1. StoreOf(q) \in Stores /\ msg[q] \in Messages
    BY StoreType DEF IInv, TypeOK
  <2>2. CASE RejectsExpiration(StoreOf(q), dateRequested[msg[q]])
    BY <1>1, <1>7, <2>2 DEF RecordNonce, UnderWay, IInv, TypeOK
  <2>3. CASE ~RejectsExpiration(StoreOf(q), dateRequested[msg[q]])
    BY <1>7, <2>1, <2>3, CloseStep DEF RecordNonce, Promise!Next
  <2> QED
    BY <2>2, <2>3
<1>8. ASSUME NEW q \in Requests, CompareSignature(q) PROVE Promise!Next
  <2>1. StoreOf(q) \in Stores /\ msg[q] \in Messages
    BY StoreType DEF IInv, TypeOK
  <2>2. CASE pc'[q] = "success"
    BY <1>8, <2>1, <2>2, GrantStep DEF Promise!Next
  <2>3. CASE pc'[q] # "success"
    BY <1>1, <1>8, <2>3 DEF CompareSignature, UnderWay, IInv, TypeOK
  <2> QED
    BY <2>2, <2>3
<1>9. ASSUME NEW q \in Requests, StoreCallFails(q) PROVE Promise!Next
  <2>1. StoreOf(q) \in Stores /\ msg[q] \in Messages
    BY StoreType DEF IInv, TypeOK
  <2>2. CASE UNCHANGED recorded
    BY <1>1, <1>9, <2>2 DEF StoreCallFails, UnderWay, IInv, TypeOK
  <2>3. CASE ~UNCHANGED recorded
    BY <1>9, <2>1, <2>3, CloseStep DEF StoreCallFails, Promise!Next
  <2> QED
    BY <2>2, <2>3
<1>10. ASSUME NEW r \in Replicas, Crash(r) PROVE Promise!Next
  BY <1>1, <1>10 DEF Crash, UnderWay, Active, IInv, TypeOK
<1>11. CASE Tick
  BY <1>1, <1>11 DEF Tick, requestVars
<1> QED
  BY <1>2, <1>3, <1>4, <1>5, <1>6, <1>7, <1>8, <1>9, <1>10, <1>11 DEF Next, VerifyStep

(***************************************************************************)
(* Every behaviour of VerifyAsync, whatever calls interleave, crash or     *)
(* fail, keeps the promise of ReplayDetection: for the messages whose      *)
(* nonces outlast their windows, once one call has recorded the nonce, no  *)
(* call that looks it up later is accepted.                                *)
(***************************************************************************)
THEOREM Implements == Spec => DetectsReplays
<1>1. Init => AcceptedAreRecorded /\ Promise!Init
  BY PromiseInit DEF Init, AcceptedAreRecorded
<1>2. IInv /\ AcceptedAreRecorded /\ [Next]_vars =>
        AcceptedAreRecorded' /\ [Promise!Next]_(Promise!vars)
  BY AcceptedAreRecordedStep, PromiseStep
<1> QED
  BY <1>1, <1>2, Invariant, PTL DEF Spec, DetectsReplays, Promise!Spec
=============================================================================
