------------------------- MODULE PolicyReloadProofs -------------------------
(***************************************************************************)
(* PolicyReload for every edit history and any number of requests.         *)
(***************************************************************************)
EXTENDS PolicyReload, TLAPS

(***************************************************************************)
(* What the reload and the lookups keep: every policy that a request has   *)
(* been given, or would be given now, is one of those served for its name  *)
(* since it arrived.                                                       *)
(***************************************************************************)
LookupsSeen ==
    \A q \in Requests :
      /\ pc[q] \in InFlight => served[name[q]] \in seen[q]
      /\ pc[q] \in {"managed", "context"} => manager[q] \in seen[q]
      /\ pc[q] \notin InFlight \cup {"waiting"} =>
           \E policy \in seen[q] : pc[q] = AnswerFrom(policy, keys[q])

\* The versions agree on what they list at each place and on every key.
StableEntries ==
    /\ \A v, w \in Versions :
         \A i \in 1..Len(Layout[v]) :
           i \in 1..Len(Layout[w]) => Layout[v][i] = Layout[w][i]
    /\ \A v, w \in Versions, n \in Names : Generation[v][n] = Generation[w][n]

Matching(set) ==
    \A n \in Names :
      set[n] # NoPolicy => set[n].public = set[n].private /\ set[n].public[1] = n

-----------------------------------------------------------------------------

\* A key that a version lists for a policy is a key.
LEMMA KeyOfType ==
    \A v \in Versions, n \in Names : KeyOf(v, n) \in Keys
  BY DEF KeyOf, Keys

\* An entry that can be built is a policy with a name.
LEMMA BuildableType ==
    ASSUME TypeOK, NEW i \in Nat \ {0}, Buildable(i)
    PROVE  /\ Layout[configMap][i] \in Names
           /\ Layout[secret][i] \in Names
           /\ PolicyAt(i) = [public |-> KeyOf(configMap, Layout[configMap][i]),
                             private |-> KeyOf(secret, Layout[secret][i])]
           /\ PolicyAt(i) \in Policy
<1>1. /\ Layout[configMap] \in Seq(Names) /\ Layout[secret] \in Seq(Names)
      /\ configMap \in Versions /\ secret \in Versions
  BY ReloadAssumption DEF TypeOK
<1>2. i \in 1..Len(Layout[configMap]) /\ i \in 1..Len(Layout[secret])
  BY <1>1 DEF Buildable, ValidName, ValidPrivateKey
<1>3. Layout[configMap][i] \in Names /\ Layout[secret][i] \in Names
  BY <1>1, <1>2
<1>4. PolicyAt(i) = [public |-> KeyOf(configMap, Layout[configMap][i]),
                     private |-> KeyOf(secret, Layout[secret][i])]
  BY DEF PolicyAt, KeyAt, Buildable, ValidName, ValidPrivateKey
<1>5. QED
  BY <1>1, <1>3, <1>4, KeyOfType DEF Policy

\* Adding a policy under a name gives a set of policies.
LEMMA AddToType ==
    ASSUME NEW set \in [Names -> Policy \cup {NoPolicy}], NEW n \in Names,
           NEW policy \in Policy
    PROVE  AddTo(set, n, policy) \in [Names -> Policy \cup {NoPolicy}]
  BY DEF AddTo

\* The set a binding starts from.
LEMMA NoPoliciesType == NoPolicies \in [Names -> Policy \cup {NoPolicy}]
  BY DEF NoPolicies

\* The binder finds a whole number of entries.
LEMMA EntriesType == TypeOK => Entries \in Nat
  BY ReloadAssumption DEF TypeOK, Entries, Larger

\* What is published keeps its type, and so does what requests may be told.
LEMMA PublishType ==
    ASSUME TypeOK, NEW set \in [Names -> Policy \cup {NoPolicy}], Publish(set)
    PROVE  /\ served' \in [Names -> Policy \cup {NoPolicy}]
           /\ seen' \in [Requests -> SUBSET (Policy \cup {NoPolicy})]
  BY DEF Publish, TypeOK

\* A policy the application adds itself.
LEMMA RuntimeType ==
    \A n \in RuntimeNames :
      n \in Names /\ [public |-> KeyOf(0, n), private |-> KeyOf(0, n)] \in Policy
<1>1. 0 \in Versions
  BY ReloadAssumption DEF Versions
<1>2. QED
  BY <1>1, KeyOfType, ReloadAssumption DEF Policy

-----------------------------------------------------------------------------

(***************************************************************************)
(* The variables keep their types, whatever the volumes and the            *)
(* application do.                                                         *)
(***************************************************************************)
THEOREM ReloadTypeCorrect == Spec => []TypeOK
<1>1. Init => TypeOK
  <2>1. SUFFICES ASSUME Init PROVE TypeOK
    OBVIOUS
  <2>2. 0 \in Versions
    BY ReloadAssumption DEF Versions
  <2>3. served \in [Names -> Policy \cup {NoPolicy}]
    BY <2>1, NoPoliciesType DEF Init
  <2>4. QED
    <3>1. name \in [Requests -> Names]
      BY <2>1 DEF Init
    <3>2. /\ pc \in [Requests -> {"waiting", "accepted", "refused", "policyNotFound",
                                  "nullReference"} \cup InFlight]
          /\ keys \in [Requests -> Policy \cup {NoPolicy}]
          /\ manager \in [Requests -> Policy \cup {NoPolicy}]
          /\ seen \in [Requests -> SUBSET (Policy \cup {NoPolicy})]
      BY <2>1 DEF Init
    <3>3. building \in [Names -> Policy \cup {NoPolicy}]
      BY <2>1, NoPoliciesType DEF Init
    <3>4. /\ dirty \in BOOLEAN /\ missed \in BOOLEAN /\ reload \in {"idle", "binding"}
          /\ startup \in {"binding", "bound", "subscribed", "failed"}
      BY <2>1 DEF Init
    <3>5. count \in Nat /\ index \in Nat \ {0}
      BY <2>1, <2>2, ReloadAssumption DEF Init, Entries, Larger
    <3>6. desired \in Versions /\ configMap \in Versions /\ secret \in Versions
      BY <2>1, <2>2 DEF Init
    <3>7. QED
      BY <2>3, <3>1, <3>2, <3>3, <3>4, <3>5, <3>6 DEF TypeOK
<1>2. TypeOK /\ [Next]_vars => TypeOK'
  <2> SUFFICES ASSUME TypeOK, [Next]_vars PROVE TypeOK'
    OBVIOUS
  <2>1. CASE EditConfiguration
    BY <2>1, ReloadAssumption DEF EditConfiguration, TypeOK, Versions, reloadVars,
       requestVars, Keep, InFlight
  <2>2. CASE SyncConfigMap
    BY <2>2 DEF SyncConfigMap, FireToken, TypeOK, reloadVars, requestVars, Keep, InFlight
  <2>3. CASE SyncSecret
    BY <2>3 DEF SyncSecret, FireToken, TypeOK, reloadVars, requestVars, Keep, InFlight
  <2>4. CASE StartReload
    <3>1. dirty' \in BOOLEAN /\ reload' \in {"idle", "binding"}
      BY <2>4 DEF StartReload
    <3>2. count' \in Nat /\ index' \in Nat \ {0}
      BY <2>4, EntriesType DEF StartReload
    <3>3. building' \in [Names -> Policy \cup {NoPolicy}]
      BY <2>4, NoPoliciesType DEF StartReload
    <3>4. QED
      BY <2>4, <3>1, <3>2, <3>3
         DEF StartReload, TypeOK, volumeVars, requestVars, Keep, InFlight
  <2>5. CASE BindEntry
    <3>1. ASSUME Buildable(index)
          PROVE  AddTo(building, Layout[configMap][index], PolicyAt(index))
                   \in [Names -> Policy \cup {NoPolicy}]
      BY <3>1, BuildableType, AddToType DEF TypeOK
    <3>2. building' \in [Names -> Policy \cup {NoPolicy}]
      BY <2>5, <3>1 DEF BindEntry, TypeOK
    <3>3. QED
      BY <2>5, <3>2 DEF BindEntry, FirstBind, TypeOK, volumeVars, requestVars, Keep, InFlight
  <2>6. CASE Replace
    <3>1. /\ served' \in [Names -> Policy \cup {NoPolicy}]
          /\ seen' \in [Requests -> SUBSET (Policy \cup {NoPolicy})]
      BY <2>6, PublishType DEF Replace, TypeOK, Keep
    <3>2. QED
      BY <2>6, <3>1 DEF Replace, FirstBind, TypeOK, volumeVars, requestVars, InFlight
  <2>7. ASSUME NEW n \in Names, AddAtRuntime(n) PROVE TypeOK'
    <3>1. AddTo(served, n, [public |-> KeyOf(0, n), private |-> KeyOf(0, n)])
            \in [Names -> Policy \cup {NoPolicy}]
      BY <2>7, RuntimeType, AddToType DEF AddAtRuntime, TypeOK
    <3>2. QED
      BY <2>7, <3>1, PublishType
         DEF AddAtRuntime, TypeOK, volumeVars, reloadVars, requestVars, InFlight
  <2>8. ASSUME NEW n \in Names, RemoveAtRuntime(n) PROVE TypeOK'
    <3>1. [served EXCEPT ![n] = NoPolicy] \in [Names -> Policy \cup {NoPolicy}]
      BY DEF TypeOK
    <3>2. QED
      BY <2>8, <3>1, PublishType
         DEF RemoveAtRuntime, TypeOK, volumeVars, reloadVars, requestVars, InFlight
  <2>9. ASSUME NEW q \in Requests, NEW n \in Names, NEW k \in Keys, Arrive(q, n, k)
        PROVE  TypeOK'
    BY <2>9 DEF Arrive, TypeOK, volumeVars, reloadVars, InFlight, Policy
  <2>10. ASSUME NEW q \in Requests, CreateManager(q) PROVE TypeOK'
    BY <2>10 DEF CreateManager, TypeOK, volumeVars, reloadVars, Keep, InFlight
  <2>11. ASSUME NEW q \in Requests, LookUpPolicy(q) PROVE TypeOK'
    BY <2>11 DEF LookUpPolicy, TypeOK, volumeVars, reloadVars, Keep, InFlight, NotFound
  <2>12. ASSUME NEW q \in Requests, Verify(q) PROVE TypeOK'
    BY <2>12 DEF Verify, TypeOK, volumeVars, reloadVars, Keep, InFlight,
       SignatureVerdict
  <2>13. CASE UNCHANGED vars
    BY <2>13 DEF vars, volumeVars, reloadVars, requestVars, TypeOK, InFlight
  <2>14. CASE Subscribe
    BY <2>14 DEF Subscribe, TypeOK, volumeVars, reloadVars, requestVars, Keep, InFlight
  <2>15. QED
    BY <2>1, <2>2, <2>3, <2>4, <2>5, <2>6, <2>7, <2>8, <2>9, <2>10, <2>11, <2>12,
       <2>13, <2>14 DEF Next, ReloadStep, RequestStep
<1>3. QED
  BY <1>1, <1>2, PTL DEF Spec

-----------------------------------------------------------------------------

\* Publishing a set only adds to what requests may be told, the new set included.
LEMMA PublishSeen ==
    ASSUME TypeOK, NEW set, Publish(set), NEW q \in Requests
    PROVE  /\ served' = set
           /\ seen[q] \subseteq seen'[q]
           /\ pc[q] \in InFlight => set[name[q]] \in seen'[q]
           /\ pc[q] \notin InFlight => seen'[q] = seen[q]
  BY DEF Publish, TypeOK

\* A step that leaves the requests alone and may publish a set.
LEMMA PublishKeepsLookups ==
    ASSUME TypeOK, LookupsSeen, NEW set, Publish(set), UNCHANGED requestVars
    PROVE  LookupsSeen'
<1>1. SUFFICES ASSUME NEW q \in Requests
               PROVE  /\ pc[q] \in InFlight => served'[name[q]] \in seen'[q]
                      /\ pc[q] \in {"managed", "context"} => manager[q] \in seen'[q]
                      /\ pc[q] \notin InFlight \cup {"waiting"} =>
                           \E policy \in seen'[q] : pc[q] = AnswerFrom(policy, keys[q])
  BY DEF LookupsSeen, requestVars, AnswerFrom, NotFound, SignatureVerdict, InFlight
<1>2. QED
  BY PublishSeen DEF LookupsSeen, InFlight

(***************************************************************************)
(* At the ext-authz service a request is answered as by one of the sets    *)
(* served since it arrived, however many reloads fall between its lookups. *)
(***************************************************************************)
THEOREM OneSet ==
    ASSUME Entry = "extAuthz"
    PROVE  Spec => []AnsweredFromOneSet
<1>1. Init => LookupsSeen
  BY DEF Init, LookupsSeen, InFlight
<1>2. TypeOK /\ LookupsSeen /\ [Next]_vars => LookupsSeen'
  <2> SUFFICES ASSUME TypeOK, LookupsSeen, [Next]_vars PROVE LookupsSeen'
    OBVIOUS
  <2>1. ASSUME Keep, UNCHANGED requestVars PROVE LookupsSeen'
    BY <2>1 DEF Keep, requestVars, LookupsSeen, AnswerFrom, NotFound, SignatureVerdict,
       InFlight
  <2>2. CASE EditConfiguration \/ SyncConfigMap \/ SyncSecret
    BY <2>1, <2>2 DEF EditConfiguration, SyncConfigMap, SyncSecret
  <2>3. CASE StartReload \/ BindEntry \/ Subscribe
    BY <2>1, <2>3 DEF StartReload, BindEntry, Subscribe
  <2>4. CASE Replace
    BY <2>1, <2>4, PublishKeepsLookups DEF Replace
  <2>5. ASSUME NEW n \in Names, AddAtRuntime(n) \/ RemoveAtRuntime(n) PROVE LookupsSeen'
    BY <2>5, PublishKeepsLookups DEF AddAtRuntime, RemoveAtRuntime
  <2>6. ASSUME NEW q \in Requests, NEW n \in Names, NEW k \in Keys, Arrive(q, n, k)
        PROVE  LookupsSeen'
    <3>1. \A p \in Requests \ {q} :
            /\ pc'[p] = pc[p] /\ name'[p] = name[p] /\ keys'[p] = keys[p]
            /\ manager'[p] = manager[p] /\ seen'[p] = seen[p]
      BY <2>6 DEF Arrive, TypeOK
    <3>2. pc'[q] = "arrived" /\ seen'[q] = {served'[name'[q]]}
      BY <2>6 DEF Arrive, TypeOK
    <3>3. served' = served
      BY <2>6 DEF Arrive
    <3>4. QED
      BY <3>1, <3>2, <3>3
         DEF LookupsSeen, InFlight, AnswerFrom, NotFound, SignatureVerdict
  <2>7. ASSUME NEW q \in Requests, RequestStep(q) PROVE LookupsSeen'
    <3>1. /\ served' = served /\ seen' = seen /\ name' = name /\ keys' = keys
          /\ \A p \in Requests \ {q} : pc'[p] = pc[p] /\ manager'[p] = manager[p]
      BY <2>7 DEF RequestStep, CreateManager, LookUpPolicy, Verify, Keep, TypeOK
    <3>2. CASE CreateManager(q)
      <4>1. /\ pc[q] = "arrived" /\ pc'[q] = "managed"
            /\ manager'[q] = served[name[q]]
        BY <3>2 DEF CreateManager, TypeOK
      <4>2. QED
        BY <3>1, <4>1 DEF LookupsSeen, InFlight, AnswerFrom, NotFound, SignatureVerdict
    <3>3. CASE LookUpPolicy(q)
      <4>1. /\ pc[q] = "managed" /\ manager' = manager
            /\ pc'[q] = IF served[name[q]] = NoPolicy THEN NotFound ELSE "context"
        BY <3>3 DEF LookUpPolicy, TypeOK
      <4>2. served[name[q]] \in seen[q]
        BY <4>1 DEF LookupsSeen, InFlight
      <4>3. QED
        BY <3>1, <4>1, <4>2
           DEF LookupsSeen, InFlight, AnswerFrom, NotFound, SignatureVerdict
    <3>4. CASE Verify(q)
      <4>1. /\ pc[q] = "context" /\ manager' = manager
            /\ pc'[q] = AnswerFrom(manager[q], keys[q])
        BY <3>4, Entry = "extAuthz" DEF Verify, TypeOK, AnswerFrom, NotFound
      <4>2. manager[q] \in seen[q]
        BY <4>1 DEF LookupsSeen
      <4>3. pc'[q] \notin InFlight
        BY <4>1, Entry = "extAuthz" DEF AnswerFrom, NotFound, SignatureVerdict, InFlight
      <4>4. QED
        BY <3>1, <4>1, <4>2, <4>3
           DEF LookupsSeen, InFlight, AnswerFrom, NotFound, SignatureVerdict
    <3>5. QED
      BY <2>7, <3>2, <3>3, <3>4 DEF RequestStep
  <2>8. CASE UNCHANGED vars
    BY <2>1, <2>8 DEF vars, Keep
  <2>9. QED
    BY <2>2, <2>3, <2>4, <2>5, <2>6, <2>7, <2>8 DEF Next, ReloadStep
<1>3. LookupsSeen => AnsweredFromOneSet
  BY DEF LookupsSeen, AnsweredFromOneSet
<1>4. QED
  BY <1>1, <1>2, <1>3, ReloadTypeCorrect, PTL DEF Spec

-----------------------------------------------------------------------------

\* An added policy whose halves belong to its name leaves a matching set.
LEMMA AddToMatching ==
    ASSUME NEW set \in [Names -> Policy \cup {NoPolicy}], Matching(set),
           NEW n \in Names, NEW policy \in Policy,
           policy.public = policy.private, policy.public[1] = n
    PROVE  Matching(AddTo(set, n, policy))
  BY DEF Matching, AddTo

(***************************************************************************)
(* Where edits only add and remove entries at the end of the list and no   *)
(* key is ever replaced, every served policy has both halves of its own    *)
(* keys, however the syncs of the two volumes fall.                        *)
(***************************************************************************)
THEOREM KeysMatch ==
    ASSUME StableEntries
    PROVE  Spec => []ServedKeysMatch
<1> DEFINE IInv == Matching(served) /\ Matching(building)
<1>1. Init => IInv
  <2>1. Matching(NoPolicies)
    BY DEF Matching, NoPolicies
  <2>2. QED
    BY <2>1 DEF Init
<1>2. TypeOK /\ IInv /\ [Next]_vars => IInv'
  <2> SUFFICES ASSUME TypeOK, IInv, [Next]_vars PROVE IInv'
    OBVIOUS
  <2>1. ASSUME UNCHANGED <<served, building>> PROVE IInv'
    BY <2>1 DEF Matching
  <2>2. CASE EditConfiguration \/ SyncConfigMap \/ SyncSecret
    BY <2>1, <2>2 DEF EditConfiguration, SyncConfigMap, SyncSecret, Keep, reloadVars
  <2>3. CASE StartReload
    <3>1. served' = served /\ building' = NoPolicies
      BY <2>3 DEF StartReload, Keep
    <3>2. QED
      BY <3>1 DEF Matching, NoPolicies
  <2>4. CASE BindEntry
    <3>1. ASSUME Buildable(index)
          PROVE  Matching(AddTo(building, Layout[configMap][index], PolicyAt(index)))
      <4> DEFINE n == Layout[configMap][index]
      <4>1. /\ n \in Names /\ Layout[secret][index] \in Names
            /\ PolicyAt(index) \in Policy
            /\ PolicyAt(index) = [public |-> KeyOf(configMap, n),
                                  private |-> KeyOf(secret, Layout[secret][index])]
        BY <3>1, BuildableType DEF TypeOK
      <4>2. index \in 1..Len(Layout[configMap]) /\ index \in 1..Len(Layout[secret])
        BY <3>1, ReloadAssumption
        DEF Buildable, ValidName, ValidPrivateKey, TypeOK
      <4>3. Layout[secret][index] = n
        BY <4>2, StableEntries DEF StableEntries, TypeOK
      <4>4. KeyOf(secret, n) = KeyOf(configMap, n)
        BY <4>1, StableEntries DEF StableEntries, TypeOK, KeyOf
      <4>5. PolicyAt(index).public = PolicyAt(index).private
        BY <4>1, <4>3, <4>4
      <4>6. PolicyAt(index).public[1] = n
        BY <4>1 DEF KeyOf
      <4>7. QED
        BY <4>1, <4>5, <4>6, AddToMatching DEF TypeOK
    <3>2. QED
      BY <2>4, <3>1 DEF BindEntry, Keep, Matching
  <2>5. CASE Replace
    BY <2>5 DEF Replace, Publish, Keep, Matching
  <2>6. ASSUME NEW n \in Names, AddAtRuntime(n) PROVE IInv'
    <3> DEFINE policy == [public |-> KeyOf(0, n), private |-> KeyOf(0, n)]
    <3>1. Matching(AddTo(served, n, policy))
      <4>1. policy \in Policy /\ policy.public = policy.private /\ policy.public[1] = n
        BY <2>6, RuntimeType DEF AddAtRuntime, KeyOf
      <4>2. QED
        BY <4>1, AddToMatching DEF TypeOK
    <3>2. served' = AddTo(served, n, policy) /\ building' = building
      BY <2>6 DEF AddAtRuntime, Publish, reloadVars
    <3>3. QED
      BY <3>1, <3>2 DEF Matching
  <2>7. ASSUME NEW n \in Names, RemoveAtRuntime(n) PROVE IInv'
    <3>1. served' = [served EXCEPT ![n] = NoPolicy] /\ building' = building
      BY <2>7 DEF RemoveAtRuntime, Publish, reloadVars
    <3>2. QED
      BY <3>1 DEF Matching, TypeOK
  <2>8. ASSUME NEW q \in Requests, NEW n \in Names, NEW k \in Keys, Arrive(q, n, k)
        PROVE  IInv'
    BY <2>1, <2>8 DEF Arrive, reloadVars
  <2>9. ASSUME NEW q \in Requests, RequestStep(q) PROVE IInv'
    BY <2>1, <2>9 DEF RequestStep, CreateManager, LookUpPolicy, Verify, Keep, reloadVars
  <2>10. CASE UNCHANGED vars
    BY <2>1, <2>10 DEF vars, reloadVars
  <2>11. CASE Subscribe
    BY <2>1, <2>11 DEF Subscribe, Keep, reloadVars
  <2>12. QED
    BY <2>2, <2>3, <2>4, <2>5, <2>6, <2>7, <2>8, <2>9, <2>10, <2>11 DEF Next, ReloadStep
<1>3. IInv => ServedKeysMatch
  BY DEF Matching, ServedKeysMatch
<1>4. QED
  BY <1>1, <1>2, <1>3, ReloadTypeCorrect, PTL DEF Spec

-----------------------------------------------------------------------------
(***************************************************************************)
(* What a reload does to an untouched policy n at place i: it is in the    *)
(* new set once the binder is past i, and a set that is published was      *)
(* bound past i, since a version that lists anything lists n there.        *)
(***************************************************************************)
Kept(n, i) ==
    /\ startup \in {"bound", "subscribed"} => served[n] = BindAll(0)[n]
    /\ building[n] \in {NoPolicy, BindAll(0)[n]}
    /\ reload = "binding" => /\ count = 0 \/ count >= i
                             /\ index > i => building[n] = BindAll(0)[n]

UntouchedAt(n, i) ==
    /\ n \notin RuntimeNames /\ i \in 1..Len(Layout[0]) /\ AlwaysAt(n, i)
    /\ \A v \in Versions : Generation[v][n] = Generation[0][n]

AllKept == \A n \in Names : \A i \in 1..Len(Layout[0]) : UntouchedAt(n, i) => Kept(n, i)

\* What version 0 makes of an untouched policy.
LEMMA UntouchedPolicy ==
    ASSUME NEW n \in Names, NEW i \in 1..Len(Layout[0]), UntouchedAt(n, i)
    PROVE  /\ i \in Nat \ {0}
           /\ BindAll(0)[n] = [public |-> KeyOf(0, n), private |-> KeyOf(0, n)]
           /\ BindAll(0)[n] # NoPolicy
<1>1. 0 \in Versions /\ Layout[0] \in Seq(Names) /\ Layout[0] # <<>>
  BY ReloadAssumption DEF Versions
<1>2. i \in Nat \ {0} /\ Layout[0][i] = n
  BY <1>1 DEF UntouchedAt, AlwaysAt
<1>3. n \in ToSet(Layout[0])
  BY <1>2 DEF ToSet
<1>4. BindAll(0)[n] = [public |-> KeyOf(0, n), private |-> KeyOf(0, n)]
  BY <1>3 DEF BindAll
<1>5. KeyOf(0, n) \in Keys
  BY <1>1, KeyOfType
<1> QED
  BY <1>2, <1>4, <1>5, NothingAssumption DEF Policy

\* The binder meets an untouched policy at its place, with its keys, and nowhere else.
LEMMA UntouchedBound ==
    ASSUME TypeOK, NEW n \in Names, NEW i \in 1..Len(Layout[0]), UntouchedAt(n, i),
           Buildable(index)
    PROVE  /\ Layout[configMap][index] = n <=> index = i
           /\ index = i => PolicyAt(index) = BindAll(0)[n]
<1>1. /\ Layout[configMap] \in Seq(Names) /\ Layout[secret] \in Seq(Names)
      /\ configMap \in Versions /\ secret \in Versions /\ index \in Nat \ {0}
  BY ReloadAssumption DEF TypeOK
<1>2. index \in 1..Len(Layout[configMap]) /\ index \in 1..Len(Layout[secret])
  BY <1>1 DEF Buildable, ValidName, ValidPrivateKey
<1>3. Layout[configMap] # <<>> /\ Layout[secret] # <<>>
  BY <1>1, <1>2
<1>4. Layout[configMap][index] = n <=> index = i
  BY <1>1, <1>2, <1>3 DEF UntouchedAt, AlwaysAt
<1>5. index = i => Layout[secret][index] = n
  BY <1>1, <1>2, <1>3 DEF UntouchedAt, AlwaysAt
<1>6. KeyOf(configMap, n) = KeyOf(0, n) /\ KeyOf(secret, n) = KeyOf(0, n)
  BY <1>1 DEF UntouchedAt, KeyOf
<1>7. PolicyAt(index) = [public |-> KeyOf(configMap, Layout[configMap][index]),
                         private |-> KeyOf(secret, Layout[secret][index])]
  BY <1>1, BuildableType
<1> QED
  BY <1>4, <1>5, <1>6, <1>7, UntouchedPolicy

\* A version that lists anything lists at least as many entries as the place is high.
LEMMA EntriesReach ==
    ASSUME TypeOK, NEW n \in Names, NEW i \in 1..Len(Layout[0]), UntouchedAt(n, i)
    PROVE  Entries = 0 \/ Entries >= i
<1>1. /\ Layout[configMap] \in Seq(Names) /\ Layout[secret] \in Seq(Names)
      /\ configMap \in Versions /\ secret \in Versions
  BY ReloadAssumption DEF TypeOK
<1>2. \A s \in {Layout[configMap], Layout[secret]} : Len(s) = 0 \/ Len(s) >= i
  BY <1>1 DEF UntouchedAt, AlwaysAt
<1>3. Len(Layout[configMap]) \in Nat /\ Len(Layout[secret]) \in Nat /\ i \in Nat
  BY <1>1, UntouchedPolicy
<1> QED
  BY <1>2, <1>3 DEF Entries, Larger

(***************************************************************************)
(* For every edit history, a policy that no edit touches is served with    *)
(* its own keys from the first bind on: torn reloads, half-synced volumes, *)
(* failed reloads and empty versions never show in it.                     *)
(***************************************************************************)
THEOREM UntouchedAlwaysServed == Spec => []UntouchedServed
<1>1. TypeOK /\ Init => AllKept
  <2> SUFFICES ASSUME TypeOK, Init,
                      NEW n \in Names, NEW i \in 1..Len(Layout[0]), UntouchedAt(n, i)
               PROVE  Kept(n, i)
    BY DEF AllKept
  <2>1. i \in Nat \ {0} /\ (Entries = 0 \/ Entries >= i)
    BY UntouchedPolicy, EntriesReach
  <2>2. /\ startup = "binding" /\ building[n] = NoPolicy
        /\ count = Entries /\ index = 1
    BY DEF Init, NoPolicies
  <2> QED
    BY <2>1, <2>2 DEF Kept
<1>2. TypeOK /\ AllKept /\ [Next]_vars => AllKept'
  <2> SUFFICES ASSUME TypeOK, AllKept, [Next]_vars,
                      NEW n \in Names, NEW i \in 1..Len(Layout[0]), UntouchedAt(n, i)
               PROVE  Kept(n, i)'
    BY DEF AllKept, UntouchedAt, AlwaysAt
  <2> DEFINE policy == BindAll(0)[n]
  <2>1. Kept(n, i) /\ i \in Nat \ {0} /\ policy # NoPolicy
    BY UntouchedPolicy DEF AllKept
  <2>2. policy' = policy
    BY DEF BindAll, KeyOf
  <2>3. ASSUME UNCHANGED <<startup, served, reload, count, index, building>>
        PROVE  Kept(n, i)'
    BY <2>1, <2>2, <2>3 DEF Kept
  <2>4. CASE EditConfiguration \/ SyncConfigMap \/ SyncSecret
    BY <2>3, <2>4 DEF EditConfiguration, SyncConfigMap, SyncSecret, Keep, reloadVars
  <2>5. CASE StartReload
    <3>1. /\ startup' = startup /\ served' = served
          /\ building' = NoPolicies /\ index' = 1 /\ count' = Entries
      BY <2>5 DEF StartReload, Keep
    <3>2. NoPolicies[n] = NoPolicy
      BY DEF NoPolicies
    <3> QED
      BY <2>1, <2>2, <3>1, <3>2, EntriesReach DEF Kept
  <2>6. CASE BindEntry
    <3>1. CASE ~Buildable(index)
      BY <2>1, <2>2, <2>6, <3>1 DEF BindEntry, FirstBind, Keep, Kept
    <3>2. CASE Buildable(index)
      <4> DEFINE name_i == Layout[configMap][index]
      <4>1. /\ building' = AddTo(building, name_i, PolicyAt(index)) /\ index' = index + 1
            /\ UNCHANGED <<startup, served, reload, count>> /\ reload = "binding"
        BY <2>6, <3>2 DEF BindEntry, Keep
      <4>2. name_i \in Names /\ index \in Nat \ {0} /\ building \in [Names -> Policy \cup {NoPolicy}]
        BY <3>2, BuildableType DEF TypeOK
      <4>3. CASE index = i
        <5>1. building'[n] = policy
          BY <4>1, <4>2, <4>3, <2>1, <3>2, UntouchedBound DEF AddTo, Kept
        <5> QED
          BY <2>1, <2>2, <4>1, <5>1 DEF Kept
      <4>4. CASE index # i
        <5>1. building'[n] = building[n]
          BY <4>1, <4>2, <4>4, <3>2, UntouchedBound DEF AddTo
        <5>2. index' > i => index > i
          BY <4>1, <4>2, <4>4, <2>1
        <5> QED
          BY <2>1, <2>2, <4>1, <5>1, <5>2 DEF Kept
      <4> QED
        BY <4>3, <4>4
    <3> QED
      BY <3>1, <3>2
  <2>7. CASE Replace
    <3>1. count > 0 => building[n] = policy
      BY <2>1, <2>7 DEF Replace, Kept, TypeOK
    <3> QED
      BY <2>1, <2>2, <2>7, <3>1 DEF Replace, FirstBind, Publish, Keep, Kept
  <2>8. ASSUME NEW m \in Names, AddAtRuntime(m) \/ RemoveAtRuntime(m) PROVE Kept(n, i)'
    <3>1. m # n
      BY <2>8 DEF AddAtRuntime, RemoveAtRuntime, UntouchedAt
    <3>2. served'[n] = served[n] /\ UNCHANGED <<startup, reloadVars>>
      BY <2>8, <3>1 DEF AddAtRuntime, RemoveAtRuntime, Publish, AddTo, TypeOK
    <3> QED
      BY <2>1, <2>2, <3>2 DEF Kept, reloadVars
  <2>9. ASSUME NEW q \in Requests, NEW m \in Names, NEW k \in Keys, Arrive(q, m, k)
        PROVE  Kept(n, i)'
    BY <2>3, <2>9 DEF Arrive, reloadVars
  <2>10. ASSUME NEW q \in Requests, RequestStep(q) PROVE Kept(n, i)'
    BY <2>3, <2>10 DEF RequestStep, CreateManager, LookUpPolicy, Verify, Keep, reloadVars
  <2>11. CASE UNCHANGED vars
    BY <2>3, <2>11 DEF vars, reloadVars
  <2>12. CASE Subscribe
    BY <2>1, <2>2, <2>12 DEF Subscribe, Keep, Kept, reloadVars
  <2> QED
    BY <2>4, <2>5, <2>6, <2>7, <2>8, <2>9, <2>10, <2>11, <2>12 DEF Next, ReloadStep
<1>3. AllKept => UntouchedServed
  BY DEF AllKept, Kept, UntouchedServed, Untouched, UntouchedAt
<1> QED
  BY <1>1, <1>2, <1>3, ReloadTypeCorrect, PTL DEF Spec
=============================================================================
