---------------------------- MODULE PolicyReload ----------------------------
(***************************************************************************)
(* Policies that follow the configuration: the public half of every policy *)
(* is mounted from a ConfigMap and the private keys from a Secret, entry i *)
(* of one belonging to entry i of the other.  The two volumes are synced   *)
(* independently; every sync fires the configuration's change token.       *)
(* AddHmacManager binds a first set and then subscribes to the token, on   *)
(* which HmacPolicyCollectionReloader binds a new set and                  *)
(* ReloadableHmacPolicyCollection swaps it in.  Requests meanwhile look    *)
(* their policy up twice: for the manager, then for the context.           *)
(***************************************************************************)
EXTENDS Naturals, Sequences

CONSTANTS
    Names,          \* policy names
    NoPolicy,       \* what a lookup returns for a name that is not there
    NoKey,          \* what the binder leaves where a volume has no key
    MaxVersion,     \* the configuration is edited this many times
    Layout,         \* Layout[v]: the names listed in version v, in order
    Generation,     \* Generation[v][n]: which keys version v gives policy n
    RuntimeNames,   \* names the application adds and removes itself
    Requests,
    Entry           \* who serves requests: "handler" or "extAuthz"

Versions == 0..MaxVersion
ToSet(s) == {s[i] : i \in 1..Len(s)}

ASSUME ReloadAssumption ==
    /\ MaxVersion \in Nat
    /\ Layout \in [Versions -> Seq(Names)]
    /\ Generation \in [Versions -> [Names -> Nat]]
    /\ RuntimeNames \subseteq Names
    /\ Entry \in {"handler", "extAuthz"}

Keys == Names \X {Generation[v][n] : v \in Versions, n \in Names}
Policy == [public : Keys, private : Keys]
ASSUME NothingAssumption == NoPolicy \notin Policy /\ NoKey \notin Keys

VARIABLES
    desired,            \* the version the operator has asked for
    configMap, secret,  \* the versions the two providers have loaded
    startup,            \* how far AddHmacManager has come
    dirty,              \* a change token has fired and no reload has begun
    reload,             \* "idle" or "binding"
    count, index,       \* entries the binder found, and the next one
    building,           \* the set being bound
    served,             \* _current of ReloadableHmacPolicyCollection
    pc, name, keys, manager,    \* of each request
    \* for the properties only:
    seen,               \* what a lookup of the request's name would have
                        \* returned since it arrived
    missed              \* nobody was subscribed when the last token fired

volumeVars == <<desired, configMap, secret, missed>>
reloadVars == <<reload, count, index, building>>
requestVars == <<pc, name, keys, manager>>
vars == <<volumeVars, startup, dirty, reloadVars, served, requestVars, seen>>

-----------------------------------------------------------------------------

NoPolicies == [n \in Names |-> NoPolicy]

KeyOf(v, n) == <<n, Generation[v][n]>>

\* ComponentCollection.Add: the first policy of a name stays.
AddTo(set, n, policy) == IF set[n] = NoPolicy THEN [set EXCEPT ![n] = policy] ELSE set

KeyAt(v, i) == IF i <= Len(Layout[v]) THEN KeyOf(v, Layout[v][i]) ELSE NoKey

\* The policy built from entry i as IConfiguration merges it from the two providers.
PolicyAt(i) == [public |-> KeyAt(configMap, i), private |-> KeyAt(secret, i)]

\* The name and the public key are there together, the private key on its own.
ValidName(i) == i <= Len(Layout[configMap])
ValidPrivateKey(i) == i <= Len(Layout[secret])

\* Mutant: an entry without a private key is built.
BuildableWithoutKey(i) == ValidName(i)

\* The builder's constructor and Add throw on an entry that is not valid.
Buildable(i) == ValidName(i) /\ ValidPrivateKey(i)

Larger(a, b) == IF a > b THEN a ELSE b
Entries == Larger(Len(Layout[configMap]), Len(Layout[secret]))

InFlight == {"arrived", "managed", "context"}

\* Every change of the served set is one more answer requests may get.
Publish(set) ==
    /\ served' = set
    /\ seen' = [q \in Requests |-> IF pc[q] \in InFlight
                                     THEN seen[q] \cup {set[name[q]]} ELSE seen[q]]

Keep == UNCHANGED <<served, seen>>

-----------------------------------------------------------------------------

EditConfiguration ==
    /\ desired < MaxVersion
    /\ desired' = desired + 1
    /\ UNCHANGED <<configMap, secret, missed, startup, dirty, reloadVars, requestVars>> /\ Keep

\* A fired token is handled by whoever has subscribed to it; the next one is a new token.
FireToken ==
    /\ dirty' = (dirty \/ startup = "subscribed")
    /\ missed' = (startup # "subscribed")

SyncConfigMap ==
    /\ configMap # desired
    /\ configMap' = desired /\ FireToken
    /\ UNCHANGED <<desired, secret, startup, reloadVars, requestVars>> /\ Keep

SyncSecret ==
    /\ secret # desired
    /\ secret' = desired /\ FireToken
    /\ UNCHANGED <<desired, configMap, startup, reloadVars, requestVars>> /\ Keep

\* The end of the first GetPolicySection, which nothing catches an exception of.
FirstBind(outcome) == startup' = IF startup = "binding" THEN outcome ELSE startup

\* new HmacPolicyCollectionReloader, once the first set is bound.
Subscribe ==
    /\ startup = "bound"
    /\ startup' = "subscribed"
    /\ UNCHANGED <<volumeVars, dirty, reloadVars, requestVars>> /\ Keep

\* OnChange takes the next token, then calls Reload, which enumerates the section.
StartReload ==
    /\ reload = "idle" /\ dirty
    /\ dirty' = FALSE
    /\ reload' = "binding" /\ count' = Entries /\ index' = 1 /\ building' = NoPolicies
    /\ UNCHANGED <<volumeVars, startup, requestVars>> /\ Keep

\* Mutant: the set is served while it is being bound.
BindEntryInPlace ==
    /\ reload = "binding" /\ index <= count
    /\ IF Buildable(index)
         THEN /\ building' = AddTo(building, Layout[configMap][index], PolicyAt(index))
              /\ Publish(building')
              /\ UNCHANGED <<reload, startup>>
         ELSE reload' = "idle" /\ FirstBind("failed") /\ Keep /\ UNCHANGED building
    /\ index' = index + 1
    /\ UNCHANGED <<count, volumeVars, dirty, requestVars>>

\* One entry of GetPolicySection; an exception ends the reload, the old set stays,
\* or the process, if it is the first bind.
BindEntry ==
    /\ reload = "binding" /\ index <= count
    /\ \/ /\ Buildable(index)
          /\ building' = AddTo(building, Layout[configMap][index], PolicyAt(index))
          /\ index' = index + 1
          /\ UNCHANGED <<reload, startup>>
       \/ /\ ~Buildable(index)
          /\ reload' = "idle" /\ FirstBind("failed")
          /\ UNCHANGED <<building, index>>
    /\ UNCHANGED <<count, volumeVars, dirty, requestVars>> /\ Keep

\* Mutant: changes made while the set was being bound are forgotten.
ReplaceOnce ==
    /\ reload = "binding" /\ index > count
    /\ reload' = "idle" /\ dirty' = FALSE
    /\ IF count > 0 THEN Publish(building) /\ FirstBind("bound")
                    ELSE Keep /\ FirstBind("failed")
    /\ UNCHANGED <<count, index, building, volumeVars, requestVars>>

\* Collection.Replace, or GetPolicySection's exception for an empty section.
Replace ==
    /\ reload = "binding" /\ index > count
    /\ reload' = "idle"
    /\ IF count > 0 THEN Publish(building) /\ FirstBind("bound")
                    ELSE Keep /\ FirstBind("failed")
    /\ UNCHANGED <<count, index, building, volumeVars, dirty, requestVars>>

\* The application calls Add or Remove of IHmacPolicyCollection.
AddAtRuntime(n) ==
    /\ startup = "subscribed" /\ n \in RuntimeNames
    /\ Publish(AddTo(served, n, [public |-> KeyOf(0, n), private |-> KeyOf(0, n)]))
    /\ UNCHANGED <<volumeVars, startup, dirty, reloadVars, requestVars>>

RemoveAtRuntime(n) ==
    /\ startup = "subscribed" /\ n \in RuntimeNames
    /\ Publish([served EXCEPT ![n] = NoPolicy])
    /\ UNCHANGED <<volumeVars, startup, dirty, reloadVars, requestVars>>

-----------------------------------------------------------------------------

\* A request signed with keys of policy n, of any generation.
Arrive(q, n, k) ==
    /\ startup = "subscribed"
    /\ pc[q] = "waiting"
    /\ pc' = [pc EXCEPT ![q] = "arrived"]
    /\ name' = [name EXCEPT ![q] = n]
    /\ keys' = [keys EXCEPT ![q] = [public |-> k, private |-> k]]
    /\ seen' = [seen EXCEPT ![q] = {served[n]}]
    /\ UNCHANGED <<manager, volumeVars, startup, dirty, reloadVars, served>>

\* Factory.Create(policy, scheme): null when the policy is not found.
CreateManager(q) ==
    /\ pc[q] = "arrived"
    /\ manager' = [manager EXCEPT ![q] = served[name[q]]]
    /\ pc' = [pc EXCEPT ![q] = "managed"]
    /\ UNCHANGED <<name, keys, volumeVars, startup, dirty, reloadVars>> /\ Keep

\* The answer of each entry to a policy that is not found.
NotFound == IF Entry = "extAuthz" THEN "refused" ELSE "policyNotFound"

\* Policies.TryGetValue for the context; HmacPolicyNotFoundException otherwise.
LookUpPolicy(q) ==
    /\ pc[q] = "managed"
    /\ pc' = [pc EXCEPT ![q] = IF served[name[q]] = NoPolicy THEN NotFound ELSE "context"]
    /\ UNCHANGED <<name, keys, manager, volumeVars, startup, dirty, reloadVars>> /\ Keep

SignatureVerdict(policy, k) == IF policy = k THEN "accepted" ELSE "refused"

\* Mutant: the null manager of a context is not tested for.
VerifyUnguarded(q) ==
    /\ pc[q] = "context"
    /\ pc' = [pc EXCEPT ![q] = IF manager[q] = NoPolicy THEN "nullReference"
                               ELSE SignatureVerdict(manager[q], keys[q])]
    /\ UNCHANGED <<name, keys, manager, volumeVars, startup, dirty, reloadVars>> /\ Keep

(***************************************************************************)
(* VerifyAsync with the manager of the context.  ExtAuthzHandler refuses   *)
(* a context without a manager; HmacAuthenticationHandler dereferences it. *)
(***************************************************************************)
Verify(q) ==
    /\ pc[q] = "context"
    /\ pc' = [pc EXCEPT ![q] =
                IF manager[q] = NoPolicy
                  THEN IF Entry = "extAuthz" THEN "refused" ELSE "nullReference"
                  ELSE SignatureVerdict(manager[q], keys[q])]
    /\ UNCHANGED <<name, keys, manager, volumeVars, startup, dirty, reloadVars>> /\ Keep

-----------------------------------------------------------------------------

BindAll(v) ==
    [n \in Names |-> IF n \in ToSet(Layout[v])
                       THEN [public |-> KeyOf(v, n), private |-> KeyOf(v, n)]
                       ELSE NoPolicy]

\* AddHmacManager has enumerated the section for its first bind.
Init ==
    /\ desired = 0 /\ configMap = 0 /\ secret = 0
    /\ startup = "binding" /\ dirty = FALSE /\ missed = FALSE
    /\ reload = "binding" /\ count = Entries /\ index = 1 /\ building = NoPolicies
    /\ served = NoPolicies
    /\ pc = [q \in Requests |-> "waiting"]
    \* Arrive sets these; what they hold before is not read.
    /\ \E n \in Names : name = [q \in Requests |-> n]
    /\ keys = [q \in Requests |-> NoPolicy]
    /\ manager = [q \in Requests |-> NoPolicy]
    /\ seen = [q \in Requests |-> {}]

ReloadStep == StartReload \/ BindEntry \/ Replace \/ Subscribe
RequestStep(q) == CreateManager(q) \/ LookUpPolicy(q) \/ Verify(q)

Next ==
    \/ EditConfiguration \/ SyncConfigMap \/ SyncSecret
    \/ ReloadStep
    \/ \E n \in Names : AddAtRuntime(n) \/ RemoveAtRuntime(n)
    \/ \E q \in Requests, n \in Names, k \in Keys : Arrive(q, n, k)
    \/ \E q \in Requests : RequestStep(q)

Spec == Init /\ [][Next]_vars

\* AddHmacManager, and the callback of a fired token on the provider's thread, run
\* to their ends.
FairSpec == Spec /\ WF_vars(ReloadStep)

-----------------------------------------------------------------------------

TypeOK ==
    /\ desired \in Versions /\ configMap \in Versions /\ secret \in Versions
    /\ startup \in {"binding", "bound", "subscribed", "failed"}
    /\ dirty \in BOOLEAN /\ missed \in BOOLEAN
    /\ reload \in {"idle", "binding"}
    /\ count \in Nat /\ index \in Nat \ {0}
    /\ building \in [Names -> Policy \cup {NoPolicy}]
    /\ served \in [Names -> Policy \cup {NoPolicy}]
    /\ pc \in [Requests -> {"waiting", "accepted", "refused", "policyNotFound",
                            "nullReference"} \cup InFlight]
    /\ name \in [Requests -> Names]
    /\ keys \in [Requests -> Policy \cup {NoPolicy}]
    /\ manager \in [Requests -> Policy \cup {NoPolicy}]
    /\ seen \in [Requests -> SUBSET (Policy \cup {NoPolicy})]

\* The answer to a request whose two lookups both return this.
AnswerFrom(policy, k) == IF policy = NoPolicy THEN NotFound ELSE SignatureVerdict(policy, k)

(***************************************************************************)
(* A request is answered as if it had been served by one set, one of those *)
(* served since it arrived: a reload between its two lookups is invisible  *)
(* ("either the old set or the new one").                                  *)
(***************************************************************************)
AnsweredFromOneSet ==
    \A q \in Requests :
      pc[q] \notin InFlight \cup {"waiting"} =>
        \E policy \in seen[q] : pc[q] = AnswerFrom(policy, keys[q])

(***************************************************************************)
(* The two halves of every served key pair belong together, whatever the   *)
(* order in which the volumes sync.                                        *)
(***************************************************************************)
ServedKeysMatch ==
    \A n \in Names :
      served[n] # NoPolicy => served[n].public = served[n].private /\ served[n].public[1] = n

(***************************************************************************)
(* A policy that no edit touches: every version that lists anything lists  *)
(* it once, at the same place, with the same keys.                         *)
(***************************************************************************)
AlwaysAt(n, i) ==
    \A v \in Versions :
      Layout[v] # <<>> =>
        /\ i \in 1..Len(Layout[v])
        /\ \A j \in 1..Len(Layout[v]) : Layout[v][j] = n <=> j = i

Untouched(n) ==
    /\ n \notin RuntimeNames
    /\ \E i \in 1..Len(Layout[0]) : AlwaysAt(n, i)
    /\ \A v \in Versions : Generation[v][n] = Generation[0][n]

(***************************************************************************)
(* Such a policy is served as it is at every moment after the first bind,  *)
(* though the entries around it move while they are being bound, keys of   *)
(* others are seen half rotated, reloads fail and versions list nothing at *)
(* all.                                                                    *)
(***************************************************************************)
UntouchedServed ==
    startup \in {"bound", "subscribed"} =>
      \A n \in Names : Untouched(n) => served[n] = BindAll(0)[n]

(***************************************************************************)
(* Edits take effect without a restart: once both volumes stay at the same *)
(* valid version, that version is served for good, whatever reloads        *)
(* failed, were torn or mixed keys on the way.  The last sync must find    *)
(* the reloader subscribed: one that falls between the first bind and the  *)
(* subscription is not heard of until the next.                            *)
(***************************************************************************)
Synced == configMap = desired /\ secret = desired /\ Layout[desired] # <<>>

ServesDesired ==
    \A n \in Names \ RuntimeNames : served[n] = BindAll(desired)[n]

Converges == <>[](Synced /\ ~missed /\ startup # "failed") => <>[]ServesDesired
=============================================================================
