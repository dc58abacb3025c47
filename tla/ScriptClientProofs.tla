------------------------- MODULE ScriptClientProofs -------------------------
(***************************************************************************)
(* Theorems of ScriptPolicies, for any list of policies, and of            *)
(* ScriptClient, for any factories, numbers of calls, managers and         *)
(* requests.                                                               *)
(***************************************************************************)
EXTENDS ScriptClient, SequenceTheorems, WellFoundedInduction, TLAPS

-----------------------------------------------------------------------------
(* What a lookup of the policies finds *)

(***************************************************************************)
(* A place that is assigned last exists.                                   *)
(***************************************************************************)
LEMMA LastIsLast ==
    ASSUME NEW n \in Nat, NEW places, places \subseteq 1..n, places # {}
    PROVE  Last(places) \in places /\ \A k \in places : k <= Last(places)
<1> DEFINE before == {n - k : k \in places}
<1>0. \A k \in places : k \in Int /\ n - k \in Nat
  <2> TAKE k \in places
  <2>1. k \in 1..n
    OBVIOUS
  <2> QED BY <2>1
<1>1. before \subseteq Nat /\ before # {}
  BY <1>0, Zenon
<1>2. IsWellFoundedOn(OpToRel(<, Nat), Nat)
  BY NatLessThanWellFounded
<1>3. PICK x \in before : \A y \in before : <<y, x>> \notin OpToRel(<, Nat)
  <2> HIDE DEF before
  <2> QED BY <1>1, <1>2, WFMin
<1>4. \A y \in before : ~(y < x)
  BY <1>1, <1>3 DEF OpToRel
<1>5. PICK i \in places : x = n - i
  OBVIOUS
<1>6. \A k \in places : k <= i
  <2> TAKE k \in places
  <2>1. n - k \in before
    OBVIOUS
  <2>2. ~(n - k < n - i)
    BY <1>4, <1>5, <2>1
  <2> QED BY <1>0, <2>2
<1> QED BY <1>5, <1>6 DEF Last

-----------------------------------------------------------------------------
LEMMA PlaceOfScheme ==
    ASSUME NEW list \in Seq(Policy), NEW a
    PROVE  a \in SchemePlaces(list) <=>
             \E i \in 1..Len(list) : \E j \in 1..Len(list[i].schemes) : a = <<i, j>>
BY DEF SchemePlaces

LEMMA SchemeIsScheme ==
    ASSUME NEW list \in Seq(Policy), NEW a \in SchemePlaces(list)
    PROVE  /\ a[1] \in 1..Len(list) /\ a[2] \in 1..Len(list[a[1]].schemes)
           /\ a = <<a[1], a[2]>> /\ a \in Nat \X Nat /\ a # NoScheme
           /\ list[a[1]] \in Policy /\ SchemeAt(list, a) \in Scheme
<1>1. PICK i \in 1..Len(list) : \E j \in 1..Len(list[i].schemes) : a = <<i, j>>
  BY PlaceOfScheme
<1>2. PICK j \in 1..Len(list[i].schemes) : a = <<i, j>>
  BY <1>1
<1>3. list[i] \in Policy
  BY ElementOfSeq
<1>4. list[i].schemes \in Seq(Scheme)
  BY <1>3 DEF Policy
<1>5. list[i].schemes[j] \in Scheme
  BY <1>4, ElementOfSeq
<1> QED BY <1>2, <1>3, <1>5 DEF SchemeAt, NoScheme

(***************************************************************************)
(* get finds a policy of the list, or none.                                *)
(***************************************************************************)
LEMMA PolicyFound ==
    ASSUME NEW list \in Seq(Policy), NEW policy, GetPolicy(list, policy) # NoPolicy
    PROVE  /\ GetPolicy(list, policy) \in 1..Len(list)
           /\ list[GetPolicy(list, policy)].name = policy
<1>1. PolicyPlaces(list, policy) # {} /\ GetPolicy(list, policy) = Last(PolicyPlaces(list, policy))
  BY DEF GetPolicy
<1>2. PolicyPlaces(list, policy) \subseteq 1..Len(list) /\ Len(list) \in Nat
  BY DEF PolicyPlaces
<1>3. GetPolicy(list, policy) \in PolicyPlaces(list, policy)
  BY <1>1, <1>2, LastIsLast
<1> QED BY <1>3 DEF PolicyPlaces

(***************************************************************************)
(* get finds a scheme of the list with the joined key, or none.            *)
(***************************************************************************)
LEMMA SchemeFound ==
    ASSUME NEW list \in Seq(Policy), NEW policy, NEW scheme,
           NEW places,
           places = {a \in SchemePlaces(list) : KeyOf(list, a) = Concat(policy, scheme)}
    PROVE  IF places = {} THEN GetScheme(list, policy, scheme) = NoScheme
                          ELSE GetScheme(list, policy, scheme) \in places
<1> SUFFICES ASSUME places # {} PROVE GetScheme(list, policy, scheme) \in places
  BY DEF GetScheme
<1> DEFINE firsts == {a[1] : a \in places}
           i == Last(firsts)
           seconds == {a[2] : a \in {b \in places : b[1] = i}}
<1>1. firsts \subseteq 1..Len(list) /\ firsts # {} /\ Len(list) \in Nat
  BY SchemeIsScheme
<1>2. i \in firsts
  <2> HIDE DEF firsts
  <2> QED BY <1>1, LastIsLast
<1>3. i \in 1..Len(list)
  BY <1>1, <1>2
<1>4. seconds # {}
  BY <1>2
<1>5. seconds \subseteq 1..Len(list[i].schemes)
  BY SchemeIsScheme
<1>6. Len(list[i].schemes) \in Nat
  BY <1>3, ElementOfSeq DEF Policy
<1>7. Last(seconds) \in seconds
  <2> HIDE DEF seconds, i
  <2> QED BY <1>4, <1>5, <1>6, LastIsLast
<1>8. PICK b \in places : b[1] = i /\ b[2] = Last(seconds)
  <2> HIDE DEF i
  <2> QED BY <1>7
<1>9. b = <<i, Last(seconds)>>
  <2> HIDE DEF i, seconds
  <2> QED BY <1>8, SchemeIsScheme
<1>10. GetScheme(list, policy, scheme) = <<i, Last(seconds)>>
  BY DEF GetScheme
<1> QED BY <1>8, <1>9, <1>10

-----------------------------------------------------------------------------
\* The parts of joined names.
Text == STRING \cup {":", "null"}

LEMMA NamesAreText == \A name \in Names : name \in Seq(Text)
<1> SUFFICES ASSUME NEW name \in Names PROVE name \in Seq(Text)
  OBVIOUS
<1>1. name \in Seq(STRING)
  BY PoliciesAssumption
<1>2. STRING \subseteq Text
  BY DEF Text
<1> HIDE DEF Text
<1> QED BY <1>1, <1>2, SeqMonotonic

LEMMA OneElement ==
    ASSUME NEW S, NEW x \in S, NEW one, one = <<x>>
    PROVE  one \in Seq(S) /\ Len(one) = 1 /\ one[1] = x
OBVIOUS

LEMMA WithColon ==
    ASSUME NEW p \in Seq(Text), NEW joined, joined = p \o <<":">>
    PROVE  /\ joined \in Seq(Text) /\ Len(joined) = Len(p) + 1
           /\ \A i \in 1..Len(p) : joined[i] = p[i]
           /\ joined[Len(p) + 1] = ":"
<1> DEFINE colon == <<":">>
<1>1. colon \in Seq(Text) /\ Len(colon) = 1 /\ colon[1] = ":"
  <2>1. ":" \in Text
    BY DEF Text
  <2> QED BY <2>1, OneElement, Zenon
<1>2. joined = p \o colon
  OBVIOUS
<1> HIDE DEF colon
<1>3. Len(p) \in Nat
  BY LenProperties
<1>4. /\ joined \in Seq(Text) /\ Len(joined) = Len(p) + Len(colon)
      /\ \A i \in 1 .. Len(p) + Len(colon) :
           joined[i] = IF i <= Len(p) THEN p[i] ELSE colon[i - Len(p)]
  BY <1>1, <1>2, ConcatProperties
<1>5. joined[Len(p) + 1] = colon[Len(p) + 1 - Len(p)]
  BY <1>1, <1>3, <1>4
<1>6. \A i \in 1..Len(p) : joined[i] = p[i]
  BY <1>1, <1>3, <1>4
<1> QED BY <1>1, <1>3, <1>4, <1>5, <1>6

(***************************************************************************)
(* Of names without a colon, two joined keys are equal only when their     *)
(* policies and their schemes are: the colon is the first one in both.     *)
(***************************************************************************)
LEMMA JoinedKeys ==
    ASSUME NEW p \in Seq(Text), NEW q \in Seq(Text),
           NEW s \in Seq(Text), NEW t \in Seq(Text),
           Plain(p), Plain(q),
           p \o <<":">> \o s = q \o <<":">> \o t
    PROVE  p = q /\ s = t
<1> DEFINE left == p \o <<":">>
           right == q \o <<":">>
<1>1. /\ left \in Seq(Text) /\ Len(left) = Len(p) + 1
      /\ \A i \in 1..Len(p) : left[i] = p[i]
      /\ left[Len(p) + 1] = ":"
  BY WithColon
<1>2. /\ right \in Seq(Text) /\ Len(right) = Len(q) + 1
      /\ \A i \in 1..Len(q) : right[i] = q[i]
      /\ right[Len(q) + 1] = ":"
  BY WithColon
<1>3. left \o s = right \o t
  OBVIOUS
<1>4. Len(p) \in Nat /\ Len(q) \in Nat /\ Len(s) \in Nat /\ Len(t) \in Nat
  BY LenProperties
<1> HIDE DEF left, right
<1>5. /\ \A i \in 1..(Len(p) + 1) : (left \o s)[i] = left[i]
      /\ \A i \in 1..(Len(q) + 1) : (right \o t)[i] = right[i]
  BY <1>1, <1>2, <1>4, ConcatProperties
<1>6. ~(Len(p) < Len(q))
  <2> SUFFICES ASSUME Len(p) < Len(q) PROVE FALSE
    OBVIOUS
  <2>1. Len(p) + 1 \in 1..Len(q)
    BY <1>4
  <2>2. q[Len(p) + 1] = ":"
    BY <1>1, <1>2, <1>3, <1>4, <1>5, <2>1
  <2> QED BY <2>1, <2>2 DEF Plain
<1>7. ~(Len(q) < Len(p))
  <2> SUFFICES ASSUME Len(q) < Len(p) PROVE FALSE
    OBVIOUS
  <2>1. Len(q) + 1 \in 1..Len(p)
    BY <1>4
  <2>2. p[Len(q) + 1] = ":"
    BY <1>1, <1>2, <1>3, <1>4, <1>5, <2>1
  <2> QED BY <2>1, <2>2 DEF Plain
<1>8. Len(p) = Len(q)
  BY <1>4, <1>6, <1>7
<1>9. \A i \in 1..Len(p) : p[i] = q[i]
  BY <1>1, <1>2, <1>3, <1>4, <1>5, <1>8
<1>10. p = q
  BY <1>8, <1>9, SeqEqual
<1>11. left = right
  BY <1>10 DEF left, right
<1>12. s = t
  BY <1>1, <1>2, <1>3, <1>11, ConcatSimplifications
<1> QED BY <1>10, <1>12

(***************************************************************************)
(* A lookup finds what the names mean: the policy of that name and its own *)
(* scheme of that name, or no scheme if it has none.                       *)
(***************************************************************************)
THEOREM LookupFindsNamed ==
    ASSUME NEW list \in Seq(Policy), NEW policy \in Names, NEW scheme \in MaybeName,
           NamesUnique(list), NamesPlain(list, policy, scheme),
           GetPolicy(list, policy) # NoPolicy
    PROVE  IsNamed(list, policy, scheme,
                   GetPolicy(list, policy), GetScheme(list, policy, scheme))
<1> DEFINE i == GetPolicy(list, policy)
           wanted == IF scheme = Null THEN <<"null">> ELSE scheme
           places == {a \in SchemePlaces(list) : KeyOf(list, a) = Concat(policy, scheme)}
<1>1. i \in 1..Len(list) /\ list[i].name = policy
  BY PolicyFound
<1>2. policy \in Seq(Text) /\ wanted \in Seq(Text) /\ Plain(policy)
  <2>1. "null" \in Text
    BY DEF Text
  <2>2. <<"null">> \in Seq(Text)
    BY <2>1, OneElement, Zenon
  <2>3. policy \in Seq(Text) /\ (scheme # Null => scheme \in Seq(Text))
    BY NamesAreText DEF MaybeName
  <2>4. wanted \in Seq(Text)
    BY <2>2, <2>3, Zenon
  <2> QED BY <2>3, <2>4 DEF NamesPlain
<1>3. ASSUME NEW a \in SchemePlaces(list)
      PROVE  KeyOf(list, a) = Concat(policy, scheme)
               <=> a[1] = i /\ SchemeAt(list, a).name = scheme
  <2>1. /\ a[1] \in 1..Len(list) /\ list[a[1]].name \in Seq(Text)
        /\ SchemeAt(list, a).name \in Seq(Text) /\ SchemeAt(list, a).name \in Names
    BY SchemeIsScheme, NamesAreText DEF Policy, Scheme
  <2>2. Plain(list[a[1]].name) /\ Plain(SchemeAt(list, a).name)
    BY <2>1 DEF NamesPlain
  <2>3. SchemeAt(list, a).name # Null /\ SchemeAt(list, a).name # <<"null">>
    BY <2>1, <2>2, PoliciesAssumption DEF Plain
  <2>4. KeyOf(list, a) = list[a[1]].name \o <<":">> \o SchemeAt(list, a).name
    BY <2>3 DEF KeyOf, Concat
  <2>5. Concat(policy, scheme) = policy \o <<":">> \o wanted
    BY DEF Concat
  <2>6. KeyOf(list, a) = Concat(policy, scheme)
          <=> list[a[1]].name = policy /\ SchemeAt(list, a).name = wanted
    <3> DEFINE own == list[a[1]].name
               named == SchemeAt(list, a).name
    <3>1. own \in Seq(Text) /\ named \in Seq(Text) /\ Plain(own)
      BY <2>1, <2>2
    <3>2. KeyOf(list, a) = own \o <<":">> \o named
      BY <2>4
    <3> HIDE DEF wanted, own, named
    <3>3. ASSUME own \o <<":">> \o named = policy \o <<":">> \o wanted
          PROVE  own = policy /\ named = wanted
      BY <1>2, <3>1, <3>3, JoinedKeys
    <3>4. KeyOf(list, a) = Concat(policy, scheme) <=> own = policy /\ named = wanted
      BY <2>5, <3>2, <3>3
    <3> QED BY <3>4 DEF own, named
  <2>7. SchemeAt(list, a).name = wanted <=> SchemeAt(list, a).name = scheme
    BY <2>3
  <2>8. list[a[1]].name = policy <=> a[1] = i
    BY <1>1, <2>1 DEF NamesUnique
  <2> QED BY <2>6, <2>7, <2>8
<1>4. CASE places = {}
  <2>1. GetScheme(list, policy, scheme) = NoScheme
    BY <1>4, SchemeFound
  <2>2. ASSUME NEW j \in 1..Len(list[i].schemes) PROVE list[i].schemes[j].name # scheme
    <3>1. <<i, j>> \in SchemePlaces(list)
      BY <1>1, PlaceOfScheme
    <3> QED BY <1>3, <1>4, <3>1 DEF SchemeAt
  <2> QED BY <1>1, <2>1, <2>2 DEF IsNamed
<1>5. CASE places # {}
  <2>1. GetScheme(list, policy, scheme) \in places
    BY <1>5, SchemeFound
  <2>2. GetScheme(list, policy, scheme) # NoScheme
    BY <2>1, SchemeIsScheme
  <2> QED BY <1>1, <1>3, <2>1, <2>2 DEF IsNamed
<1> QED BY <1>4, <1>5

(***************************************************************************)
(* Lists that differ in keys alone mean the same by a name.                *)
(***************************************************************************)
SameNames(list, other) ==
    /\ Len(other) = Len(list)
    /\ \A k \in 1..Len(list) : other[k].name = list[k].name /\ other[k].schemes = list[k].schemes

LEMMA SameSchemes ==
    ASSUME NEW list \in Seq(Policy), NEW other \in Seq(Policy), SameNames(list, other)
    PROVE  /\ SchemePlaces(other) = SchemePlaces(list)
           /\ \A a \in SchemePlaces(list) : SchemeAt(other, a) = SchemeAt(list, a)
<1>1. \A a : a \in SchemePlaces(list) <=> a \in SchemePlaces(other)
  BY PlaceOfScheme DEF SameNames
<1>2. \A a \in SchemePlaces(list) : a[1] \in 1..Len(list)
  BY SchemeIsScheme
<1> QED BY <1>1, <1>2 DEF SchemeAt, SameNames

LEMMA SameMeaning ==
    ASSUME NEW list \in Seq(Policy), NEW other \in Seq(Policy), SameNames(list, other),
           NEW policy, NEW scheme, NEW i, NEW a
    PROVE  /\ NamesUnique(other) => NamesUnique(list)
           /\ NamesPlain(other, policy, scheme) => NamesPlain(list, policy, scheme)
           /\ IsNamed(list, policy, scheme, i, a) => IsNamed(other, policy, scheme, i, a)
<1>1. /\ SchemePlaces(other) = SchemePlaces(list)
      /\ \A b \in SchemePlaces(list) : SchemeAt(other, b) = SchemeAt(list, b)
  BY SameSchemes
<1>2. NamesUnique(other) => NamesUnique(list)
  BY <1>1 DEF NamesUnique, SameNames
<1>3. NamesPlain(other, policy, scheme) => NamesPlain(list, policy, scheme)
  BY <1>1 DEF NamesPlain, SameNames
<1>4. IsNamed(list, policy, scheme, i, a) => IsNamed(other, policy, scheme, i, a)
  BY <1>1 DEF IsNamed, SameNames
<1> QED BY <1>2, <1>3, <1>4

-----------------------------------------------------------------------------
(* Calls of the client *)

USE PoliciesAssumption, ClientAssumption

\* vars, with nothing grouped.
LEMMA Unchanged ==
    UNCHANGED vars =>
      UNCHANGED <<policies, consolidated, managers, body, custom, added, sent, pc, by, on,
                  context, content, signature, touched>>
BY DEF vars, requestVars, callVars

-----------------------------------------------------------------------------
(* Type correctness *)

LEMMA NewManagerType ==
    ASSUME policies \in Seq(Policy),
           NEW policy \in Names, NEW scheme \in MaybeName,
           GetPolicy(policies, policy) # NoPolicy
    PROVE  /\ NewManager(policy, scheme) \in Manager
           /\ NewManager(policy, scheme).policy \in 1..Len(policies)
<1> DEFINE i == GetPolicy(policies, policy)
           a == GetScheme(policies, policy, scheme)
<1>1. i \in 1..Len(policies)
  BY PolicyFound
<1>2. policies[i] \in Policy
  BY <1>1, ElementOfSeq
<1>3. a = NoScheme \/ a \in SchemePlaces(policies)
  BY SchemeFound
<1>4. a \in Nat \X Nat /\ (a # NoScheme => SchemeAt(policies, a) \in Scheme)
  BY <1>3, SchemeIsScheme DEF NoScheme
<1>5. (IF a = NoScheme THEN <<>> ELSE SchemeAt(policies, a).headers) \in Seq(Headers)
  BY <1>4, EmptySeq DEF Scheme
<1>6. NewProvider(i, a) \in Provider
  <2> HIDE DEF i, a
  <2> QED BY <1>2, <1>5 DEF NewProvider, Provider, Policy
<1>7. NewManager(policy, scheme) =
        [asked |-> <<policy, scheme>>, policy |-> i, scheme |-> a, provider |-> NewProvider(i, a)]
  BY DEF NewManager
<1>8. i \in Nat
  BY <1>1
<1> HIDE DEF i, a
<1> QED BY <1>1, <1>4, <1>6, <1>7, <1>8 DEF Manager

LEMMA AppendType ==
    ASSUME NEW S, NEW s \in Seq(S), NEW x \in S
    PROVE  /\ Append(s, x) \in Seq(S) /\ Len(Append(s, x)) = Len(s) + 1
           /\ \A i \in 1..Len(s) : Append(s, x)[i] = s[i]
           /\ Append(s, x)[Len(s) + 1] = x
BY AppendProperties

(***************************************************************************)
(* Managers are only added, at the end; the new one is what Create gives.  *)
(***************************************************************************)
LEMMA ManagersGrow ==
    ASSUME TypeOK, NEW policy \in Names, NEW scheme \in MaybeName,
           CreateManager(policy, scheme)
    PROVE  \/ managers' = managers
           \/ /\ GetPolicy(policies, policy) # NoPolicy
              /\ managers' \in Seq(Manager) /\ Len(managers') = Len(managers) + 1
              /\ \A m \in 1..Len(managers) : managers'[m] = managers[m]
              /\ managers'[Len(managers) + 1] = NewManager(policy, scheme)
<1>1. managers \in Seq(Manager) /\ policies \in Seq(Policy)
  BY DEF TypeOK
<1>2. CASE GetPolicy(policies, policy) = NoPolicy
  <2>1. managers' = managers \o <<>>
    BY <1>2 DEF CreateManager, Create
  <2> QED BY <1>1, <2>1, ConcatEmptySeq
<1>3. CASE GetPolicy(policies, policy) # NoPolicy
  <2> DEFINE new == NewManager(policy, scheme)
  <2>1. new \in Manager
    BY <1>1, <1>3, NewManagerType
  <2>2. managers' = managers \o <<new>>
    BY <1>3 DEF CreateManager, Create
  <2> HIDE DEF new
  <2>3. managers' = Append(managers, new)
    BY <1>1, <2>1, <2>2
  <2>4. /\ managers' \in Seq(Manager) /\ Len(managers') = Len(managers) + 1
        /\ \A m \in 1..Len(managers) : managers'[m] = managers[m]
        /\ managers'[Len(managers) + 1] = new
    BY <1>1, <2>1, <2>3, AppendType
  <2> QED BY <1>3, <2>4 DEF new
<1> QED BY <1>2, <1>3

LEMMA AppendAllType ==
    ASSUME NEW headers \in [HmacHeaders -> Seq(Calls)], NEW names, NEW c \in Calls
    PROVE  AppendAll(headers, names, c) \in [HmacHeaders -> Seq(Calls)]
<1>1. ASSUME NEW h \in HmacHeaders
      PROVE  (IF h \in names THEN Append(headers[h], c) ELSE headers[h]) \in Seq(Calls)
  <2>1. headers[h] \in Seq(Calls)
    OBVIOUS
  <2> QED BY <2>1, AppendType
<1> QED BY <1>1 DEF AppendAll

(***************************************************************************)
(* Keys come in pairs, in the policies and in the managers' copies.        *)
(***************************************************************************)
KeyPairs ==
    /\ \A i \in 1..Len(policies) : policies[i].publicKey = policies[i].privateKey
    /\ \A m \in 1..Len(managers) :
         managers[m].provider.publicKey = managers[m].provider.privateKey

\* A manager's scheme is one of the list.
SchemesListed ==
    \A m \in 1..Len(managers) :
      managers[m].scheme # NoScheme => managers[m].scheme \in SchemePlaces(policies)

Domains ==
    /\ DOMAIN context = Calls /\ DOMAIN content = Calls /\ DOMAIN signature = Calls
    /\ DOMAIN sent = Requests

Shape == TypeOK /\ KeyPairs /\ SchemesListed /\ Domains

(***************************************************************************)
(* A rotation leaves of the policies everything but their keys.            *)
(***************************************************************************)
LEMMA RotateKeeps ==
    ASSUME Shape, NEW i \in 1..Len(policies), Rotate(i)
    PROVE  /\ policies' \in Seq(Policy) /\ Len(policies') = Len(policies)
           /\ \A k \in 1..Len(policies) : /\ policies'[k].name = policies[k].name
                                          /\ policies'[k].schemes = policies[k].schemes
                                          /\ policies'[k].publicKey = policies'[k].privateKey
<1>1. policies \in Seq(Policy) /\ policies[i] \in Policy
  BY ElementOfSeq DEF Shape, TypeOK
<1> DEFINE key == policies[i].publicKey + 1
           new == [policies[i] EXCEPT !.publicKey = key, !.privateKey = key]
<1>2. policies' = [policies EXCEPT ![i] = new]
  BY DEF Rotate
<1>3. /\ new \in Policy /\ new.name = policies[i].name /\ new.schemes = policies[i].schemes
      /\ new.publicKey = new.privateKey
  <2>1. key \in Keys
    BY DEF Rotate
  <2> HIDE DEF key
  <2> QED BY <1>1, <2>1 DEF Policy
<1>4. \A k \in 1..Len(policies) : policies[k].publicKey = policies[k].privateKey
  BY DEF Shape, KeyPairs
<1> HIDE DEF new
<1>5. /\ policies' \in Seq(Policy) /\ Len(policies') = Len(policies)
      /\ \A k \in 1..Len(policies) : policies'[k] = IF k = i THEN new ELSE policies[k]
  BY <1>1, <1>2, <1>3, ExceptSeq
<1> QED BY <1>3, <1>4, <1>5

LEMMA ShapeInit == Init => Shape
<1> SUFFICES ASSUME Init PROVE Shape
  OBVIOUS
<1>1. PICK f \in Factories : policies = f.policies /\ consolidated = f.consolidated
  BY DEF Init
<1>2. policies \in Seq(Policy) /\ consolidated \in BOOLEAN
  BY <1>1
<1>3. managers \in Seq(Manager) /\ Len(managers) = 0
  BY EmptySeq DEF Init
<1>4. custom \in [Requests -> [Headers -> Seq(Values)]]
  BY EmptySeq DEF Init
<1>5. added \in [Requests -> [HmacHeaders -> Seq(Calls)]]
  BY EmptySeq DEF Init
<1>6. pc \in [Calls -> Stages] /\ by \in [Calls -> Nat] /\ on \in [Calls -> Requests]
  BY DEF Init, Stages
<1>7. TypeOK
  BY <1>2, <1>3, <1>4, <1>5, <1>6 DEF Init, TypeOK
<1>8. KeyPairs /\ SchemesListed
  BY <1>1, <1>3 DEF KeyPairs, SchemesListed
<1>9. Domains
  BY DEF Domains, Init
<1> QED BY <1>7, <1>8, <1>9 DEF Shape

LEMMA ShapeStep == Shape /\ [Next]_vars => Shape'
<1> SUFFICES ASSUME Shape, [Next]_vars PROVE Shape'
  OBVIOUS
<1> USE DEF Shape
<1>1. CASE UNCHANGED vars
  BY <1>1, Unchanged DEF TypeOK, KeyPairs, SchemesListed, Domains
<1>2. ASSUME NEW policy \in Names, NEW scheme \in MaybeName, CreateManager(policy, scheme)
      PROVE  Shape'
  <2>1. UNCHANGED <<policies, consolidated, body, custom, added, sent, pc, by, on, context,
                    content, signature, touched>>
    BY <1>2 DEF CreateManager, requestVars, callVars
  <2>2. CASE managers' = managers
    BY <2>1, <2>2 DEF TypeOK, KeyPairs, SchemesListed, Domains
  <2>3. CASE /\ GetPolicy(policies, policy) # NoPolicy
             /\ managers' \in Seq(Manager) /\ Len(managers') = Len(managers) + 1
             /\ \A m \in 1..Len(managers) : managers'[m] = managers[m]
             /\ managers'[Len(managers) + 1] = NewManager(policy, scheme)
    <3> DEFINE new == NewManager(policy, scheme)
    <3>1. new.policy \in 1..Len(policies)
      BY <2>3, NewManagerType DEF TypeOK
    <3>2. new.provider.publicKey = new.provider.privateKey
      BY <3>1 DEF KeyPairs, NewManager, NewProvider
    <3> HIDE DEF new
    <3>3. \A m \in 1..Len(managers') :
            managers'[m] = new \/ (m \in 1..Len(managers) /\ managers'[m] = managers[m])
      <4>1. Len(managers) \in Nat
        BY LenProperties DEF TypeOK
      <4>2. 1..(Len(managers) + 1) = 1..Len(managers) \cup {Len(managers) + 1}
        BY <4>1
      <4> QED BY <2>3, <4>2 DEF new
    <3>4. \A m \in 1..Len(managers') : managers'[m].policy \in 1..Len(policies')
      BY <2>1, <3>1, <3>3 DEF TypeOK
    <3>5. 1..Len(managers) \subseteq 1..Len(managers')
      <4>1. Len(managers) \in Nat
        BY LenProperties DEF TypeOK
      <4> QED BY <2>3, <4>1
    <3>6. TypeOK'
      BY <2>1, <2>3, <3>4, <3>5 DEF TypeOK
    <3>7. new.scheme # NoScheme => new.scheme \in SchemePlaces(policies)
      BY SchemeFound DEF new, NewManager, TypeOK
    <3>8. KeyPairs' /\ SchemesListed' /\ Domains'
      BY <2>1, <3>2, <3>3, <3>7 DEF KeyPairs, SchemesListed, Domains
    <3> QED BY <3>6, <3>8
  <2> QED BY <1>2, <2>2, <2>3, ManagersGrow
<1>3. ASSUME NEW i \in 1..Len(policies), Rotate(i)
      PROVE  Shape'
  <2>1. UNCHANGED <<consolidated, managers, body, custom, added, sent, pc, by, on, context,
                    content, signature, touched>>
    BY <1>3 DEF Rotate, requestVars, callVars
  <2>2. /\ policies' \in Seq(Policy) /\ Len(policies') = Len(policies)
        /\ \A k \in 1..Len(policies) : policies'[k].publicKey = policies'[k].privateKey
        /\ SameNames(policies, policies')
    BY <1>3, RotateKeeps DEF SameNames
  <2>3. SchemePlaces(policies') = SchemePlaces(policies)
    BY <2>2, SameSchemes DEF TypeOK
  <2> QED BY <2>1, <2>2, <2>3 DEF TypeOK, KeyPairs, SchemesListed, Domains
<1>4. ASSUME NEW r \in Requests, NEW h \in Headers, NEW v \in Values, AppendHeader(r, h, v)
      PROVE  Shape'
  <2>1. Append(custom[r][h], v) \in Seq(Values)
    BY AppendType DEF TypeOK
  <2>2. custom' \in [Requests -> [Headers -> Seq(Values)]]
    BY <1>4, <2>1 DEF AppendHeader, TypeOK
  <2>3. touched' \subseteq Calls
    BY <1>4 DEF AppendHeader, TypeOK
  <2> QED BY <1>4, <2>2, <2>3 DEF AppendHeader, TypeOK, KeyPairs, SchemesListed, Domains
<1>5. ASSUME NEW r \in Requests, Fetch(r)
      PROVE  Shape'
  BY <1>5 DEF Fetch, TypeOK, KeyPairs, SchemesListed, Domains, callVars
<1>6. ASSUME NEW c \in Calls, NEW m \in 1..Len(managers), NEW r \in Requests, Sign(c, m, r)
      PROVE  Shape'
  <2>1. UNCHANGED <<policies, consolidated, managers, body, custom, added, sent, context,
                    content, signature, touched>>
    BY <1>6 DEF Sign, requestVars
  <2>2. m \in Nat
    OBVIOUS
  <2>3. /\ pc' \in [Calls -> Stages] /\ by' \in [Calls -> Nat] /\ on' \in [Calls -> Requests]
        /\ \A d \in Calls : pc'[d] # "idle" => by'[d] \in 1..Len(managers)
    BY <1>6, <2>2 DEF Sign, TypeOK, Stages
  <2> QED BY <2>1, <2>3 DEF TypeOK, KeyPairs, SchemesListed, Domains
<1>7. ASSUME NEW c \in Calls, BuildContent(c)
      PROVE  Shape'
  <2>1. UNCHANGED <<policies, consolidated, managers, body, custom, added, sent, by, on,
                    signature, touched>>
    BY <1>7 DEF BuildContent, requestVars
  <2>2. /\ pc' \in [Calls -> Stages] /\ \A d \in Calls : pc'[d] # "idle" => pc[d] # "idle"
    BY <1>7 DEF BuildContent, TypeOK, Stages
  <2>3. DOMAIN context' = Calls /\ DOMAIN content' = Calls
    BY <1>7 DEF BuildContent, Domains
  <2> QED BY <2>1, <2>2, <2>3 DEF TypeOK, KeyPairs, SchemesListed, Domains
<1>8. ASSUME NEW c \in Calls, AccessorSettles(c)
      PROVE  Shape'
  <2>1. UNCHANGED <<policies, consolidated, managers, body, custom, added, sent, by, on,
                    context, signature, touched>>
    BY <1>8 DEF AccessorSettles, requestVars
  <2>2. /\ pc' \in [Calls -> Stages] /\ \A d \in Calls : pc'[d] # "idle" => pc[d] # "idle"
    BY <1>8 DEF AccessorSettles, TypeOK, Stages
  <2>3. DOMAIN content' = Calls
    BY <1>8 DEF AccessorSettles, Domains
  <2> QED BY <2>1, <2>2, <2>3 DEF TypeOK, KeyPairs, SchemesListed, Domains
<1>9. ASSUME NEW c \in Calls, ComputeSignature(c)
      PROVE  Shape'
  <2>1. UNCHANGED <<policies, consolidated, managers, body, custom, added, sent, by, on,
                    context, content, touched>>
    BY <1>9 DEF ComputeSignature, requestVars
  <2>2. /\ pc' \in [Calls -> Stages] /\ \A d \in Calls : pc'[d] # "idle" => pc[d] # "idle"
    BY <1>9 DEF ComputeSignature, TypeOK, Stages
  <2>3. DOMAIN signature' = Calls
    BY <1>9 DEF ComputeSignature, Domains
  <2> QED BY <2>1, <2>2, <2>3 DEF TypeOK, KeyPairs, SchemesListed, Domains
<1>10. ASSUME NEW c \in Calls, AddHeaders(c)
       PROVE  Shape'
  <2>1. UNCHANGED <<policies, consolidated, managers, body, custom, sent, by, on,
                    context, content, signature, touched>>
    BY <1>10 DEF AddHeaders
  <2>2. /\ pc' \in [Calls -> Stages] /\ \A d \in Calls : pc'[d] # "idle" => pc[d] # "idle"
    BY <1>10 DEF AddHeaders, TypeOK, Stages
  <2>3. on[c] \in Requests /\ added[on[c]] \in [HmacHeaders -> Seq(Calls)]
    BY DEF TypeOK
  <2>4. AppendAll(added[on[c]], AppendedHeaders(Hmac(c)), c) \in [HmacHeaders -> Seq(Calls)]
    BY <2>3, AppendAllType
  <2>5. added' \in [Requests -> [HmacHeaders -> Seq(Calls)]]
    BY <1>10, <2>3, <2>4 DEF AddHeaders, TypeOK
  <2> QED BY <2>1, <2>2, <2>5 DEF TypeOK, KeyPairs, SchemesListed, Domains
<1> QED BY <1>1, <1>2, <1>3, <1>4, <1>5, <1>6, <1>7, <1>8, <1>9, <1>10 DEF Next, Continue

LEMMA ShapeAlways == Spec => []Shape
BY ShapeInit, ShapeStep, PTL DEF Spec

(***************************************************************************)
(* Type correctness: every manager refers to a policy of the list, every   *)
(* call that has begun to a manager.                                       *)
(***************************************************************************)
THEOREM ClientTypeCorrect == Spec => []TypeOK
BY ShapeAlways, PTL DEF Shape

-----------------------------------------------------------------------------
(* What a step leaves as it is *)

LEMMA StepKeeps ==
    ASSUME Shape, [Next]_vars
    PROVE  /\ consolidated' = consolidated /\ SameNames(policies, policies')
           /\ \A m \in 1..Len(managers) : m \in 1..Len(managers') /\ managers'[m] = managers[m]
           /\ \A r \in Requests : body'[r] = "none" <=> body[r] = "none"
           /\ touched \subseteq touched'
<1> USE DEF Shape
<1>0. SameNames(policies, policies)
  BY DEF SameNames
<1>1. CASE UNCHANGED vars
  BY <1>0, <1>1, Unchanged
<1>2. ASSUME NEW policy \in Names, NEW scheme \in MaybeName, CreateManager(policy, scheme)
      PROVE  \A m \in 1..Len(managers) : m \in 1..Len(managers') /\ managers'[m] = managers[m]
  <2>1. Len(managers) \in Nat
    BY LenProperties DEF TypeOK
  <2> QED BY <1>2, <2>1, ManagersGrow
<1>3. ASSUME NEW policy \in Names, NEW scheme \in MaybeName, CreateManager(policy, scheme)
      PROVE  UNCHANGED <<consolidated, policies, body, touched>>
  BY <1>3 DEF CreateManager, requestVars, callVars
<1>4. ASSUME NEW i \in 1..Len(policies), Rotate(i)
      PROVE  SameNames(policies, policies') /\ UNCHANGED <<consolidated, managers, body, touched>>
  BY <1>4, RotateKeeps DEF Rotate, requestVars, callVars, SameNames
<1>5. ASSUME NEW r \in Requests, NEW h \in Headers, NEW v \in Values, AppendHeader(r, h, v)
      PROVE  UNCHANGED <<consolidated, policies, managers, body>> /\ touched \subseteq touched'
  BY <1>5 DEF AppendHeader
<1>6. ASSUME NEW r \in Requests, Fetch(r)
      PROVE  /\ UNCHANGED <<consolidated, policies, managers, touched>>
             /\ \A q \in Requests : body'[q] = "none" <=> body[q] = "none"
  BY <1>6 DEF Fetch, TypeOK, callVars
<1>7. ASSUME NEW c \in Calls,
             \/ \E m \in 1..Len(managers), r \in Requests : Sign(c, m, r)
             \/ Continue(c)
      PROVE  UNCHANGED <<consolidated, policies, managers, body, touched>>
  BY <1>7 DEF Continue, Sign, BuildContent, AccessorSettles, ComputeSignature, AddHeaders,
              requestVars
<1> QED BY <1>0, <1>1, <1>2, <1>3, <1>4, <1>5, <1>6, <1>7 DEF Next

Ended == {"success", "failure"}

(***************************************************************************)
(* A call keeps its manager and its request, and what it has computed.     *)
(***************************************************************************)
LEMMA CallKeeps ==
    ASSUME Shape, [Next]_vars, NEW c \in Calls, pc[c] # "idle"
    PROVE  /\ pc'[c] # "idle" /\ by'[c] = by[c] /\ on'[c] = on[c]
           /\ pc[c] \in Ended => pc'[c] = pc[c]
           /\ Computed(c) => content'[c] = content[c]
           /\ pc[c] \in {"signed", "success", "failure"} => signature'[c] = signature[c]
           /\ pc[c] # "hashing" => context'[c] = context[c] /\ pc'[c] # "hashing"
<1> USE DEF Shape, Ended, Computed
<1>1. CASE UNCHANGED vars
  BY <1>1, Unchanged
<1>2. ASSUME NEW policy \in Names, NEW scheme \in MaybeName, CreateManager(policy, scheme)
      PROVE  UNCHANGED <<pc, by, on, context, content, signature>>
  BY <1>2 DEF CreateManager, callVars
<1>3. ASSUME NEW i \in 1..Len(policies), Rotate(i)
      PROVE  UNCHANGED <<pc, by, on, context, content, signature>>
  BY <1>3 DEF Rotate, callVars
<1>4. ASSUME NEW r \in Requests, NEW h \in Headers, NEW v \in Values, AppendHeader(r, h, v)
      PROVE  UNCHANGED <<pc, by, on, context, content, signature>>
  BY <1>4 DEF AppendHeader
<1>5. ASSUME NEW r \in Requests, Fetch(r)
      PROVE  UNCHANGED <<pc, by, on, context, content, signature>>
  BY <1>5 DEF Fetch, callVars
<1>6. ASSUME NEW d \in Calls, NEW m \in 1..Len(managers), NEW r \in Requests, Sign(d, m, r)
      PROVE  /\ UNCHANGED <<context, content, signature>>
             /\ pc'[c] = pc[c] /\ by'[c] = by[c] /\ on'[c] = on[c]
  BY <1>6 DEF Sign, TypeOK
<1>7. ASSUME NEW d \in Calls, BuildContent(d)
      PROVE  /\ UNCHANGED <<by, on, signature>>
             /\ c # d => UNCHANGED <<pc[c], context[c], content[c]>>
             /\ c = d => pc[c] = "hashing" /\ pc'[c] # "idle"
  BY <1>7 DEF BuildContent, CreateBuilder, TypeOK, Domains
<1>8. ASSUME NEW d \in Calls, AccessorSettles(d)
      PROVE  /\ UNCHANGED <<by, on, context, signature>>
             /\ c # d => UNCHANGED <<pc[c], content[c]>>
             /\ c = d => pc[c] = "accessing" /\ pc'[c] \notin {"idle", "hashing"}
  BY <1>8 DEF AccessorSettles, TypeOK, Domains
<1>9. ASSUME NEW d \in Calls, ComputeSignature(d)
      PROVE  /\ UNCHANGED <<by, on, context, content>>
             /\ c # d => UNCHANGED <<pc[c], signature[c]>>
             /\ c = d => pc[c] = "keying" /\ pc'[c] \notin {"idle", "hashing"}
  BY <1>9 DEF ComputeSignature, TypeOK, Domains
<1>10. ASSUME NEW d \in Calls, AddHeaders(d)
       PROVE  /\ UNCHANGED <<by, on, context, content, signature>>
              /\ c # d => UNCHANGED pc[c]
              /\ c = d => pc[c] = "signed" /\ pc'[c] \notin {"idle", "hashing"}
  BY <1>10 DEF AddHeaders, TypeOK
<1> QED BY <1>1, <1>2, <1>3, <1>4, <1>5, <1>6, <1>7, <1>8, <1>9, <1>10 DEF Next, Continue

(***************************************************************************)
(* So do its provider and the names and headers it will send.              *)
(***************************************************************************)
LEMMA HmacKeeps ==
    ASSUME Shape, [Next]_vars, NEW c \in Calls, pc[c] # "idle"
    PROVE  /\ ProviderOf(c)' = ProviderOf(c) /\ ContentHash(on[c])' = ContentHash(on[c])
           /\ Hmac(c)'.policy = Hmac(c).policy /\ Hmac(c)'.scheme = Hmac(c).scheme
           /\ BuiltHeaders(Hmac(c))' = BuiltHeaders(Hmac(c))
           /\ AppendedHeaders(Hmac(c))' = AppendedHeaders(Hmac(c))
           /\ Refused(c)' = Refused(c)
<1> DEFINE m == managers[by[c]]
<1>1. by[c] \in 1..Len(managers) /\ m.policy \in 1..Len(policies) /\ on[c] \in Requests
  BY DEF Shape, TypeOK
<1>2. managers'[by'[c]] = m /\ by'[c] = by[c] /\ on'[c] = on[c] /\ consolidated' = consolidated
  BY <1>1, StepKeeps, CallKeeps
<1>3. ProviderOf(c)' = ProviderOf(c)
  BY <1>2 DEF ProviderOf
<1>4. ContentHash(on[c])' = ContentHash(on[c])
  BY <1>1, <1>2, StepKeeps DEF ContentHash
<1>5. Hmac(c)'.policy = Hmac(c).policy
  BY <1>1, <1>2, StepKeeps DEF Hmac, SameNames
<1>6. policies \in Seq(Policy) /\ policies' \in Seq(Policy)
  BY ShapeStep DEF Shape, TypeOK
<1>7. m.scheme # NoScheme => SchemeAt(policies', m.scheme) = SchemeAt(policies, m.scheme)
  BY <1>1, <1>6, StepKeeps, SameSchemes DEF Shape, SchemesListed
<1>8. Hmac(c)'.scheme = Hmac(c).scheme
  BY <1>2, <1>7 DEF Hmac
<1>9. BuiltHeaders(Hmac(c))' = BuiltHeaders(Hmac(c))
  BY <1>2, <1>8 DEF BuiltHeaders, NamedHeaders
<1>10. AppendedHeaders(Hmac(c))' = AppendedHeaders(Hmac(c))
  BY <1>2, <1>5, <1>8 DEF AppendedHeaders, NamedHeaders
<1>11. Refused(c)' = Refused(c)
  BY <1>2, <1>5, <1>8 DEF Refused
<1> QED BY <1>3, <1>4, <1>5, <1>8, <1>9, <1>10, <1>11

(***************************************************************************)
(* Only its own steps move a call, or fill its builder.                    *)
(***************************************************************************)
LEMMA OwnSteps ==
    ASSUME Shape, [Next]_vars, NEW c \in Calls
    PROVE  /\ pc'[c] # pc[c] =>
                (\E m \in 1..Len(managers), r \in Requests : Sign(c, m, r)) \/ Continue(c)
           /\ context'[c] # context[c] => BuildContent(c)
<1>1. CASE UNCHANGED <<pc, context>>
  BY <1>1
<1>2. ASSUME NEW d \in Calls,
             \/ \E m \in 1..Len(managers), r \in Requests : Sign(d, m, r)
             \/ Continue(d)
      PROVE  /\ c # d => pc'[c] = pc[c]
             /\ context'[c] # context[c] => c = d /\ BuildContent(c)
  BY <1>2 DEF Continue, Sign, BuildContent, CreateBuilder, AccessorSettles, ComputeSignature,
              AddHeaders, Shape, TypeOK, Domains
<1> QED BY <1>1, <1>2, Unchanged DEF Next, CreateManager, Rotate, AppendHeader, Fetch, callVars

-----------------------------------------------------------------------------
(* Managers and keys *)

(***************************************************************************)
(* Whatever the application does with its policies' keys, each manager is  *)
(* of the policy and the scheme it was asked for.                          *)
(***************************************************************************)
THEOREM ManagersAsAsked == Spec => []ManagerAsAsked
<1>1. Init => ManagerAsAsked
  BY DEF Init, ManagerAsAsked
<1>2. Shape /\ Shape' /\ ManagerAsAsked /\ [Next]_vars => ManagerAsAsked'
  <2> SUFFICES ASSUME Shape, Shape', ManagerAsAsked, [Next]_vars,
                      NEW m \in 1..Len(managers'),
                      NamesUnique(policies'),
                      NamesPlain(policies', managers'[m].asked[1], managers'[m].asked[2])
               PROVE  IsNamed(policies', managers'[m].asked[1], managers'[m].asked[2],
                              managers'[m].policy, managers'[m].scheme)
    BY DEF ManagerAsAsked
  <2>1. policies \in Seq(Policy) /\ policies' \in Seq(Policy) /\ SameNames(policies, policies')
    BY StepKeeps DEF Shape, TypeOK
  <2>2. CASE m \in 1..Len(managers)
    <3>1. managers'[m] = managers[m]
      BY <2>2, StepKeeps
    <3>2. NamesUnique(policies) /\ NamesPlain(policies, managers[m].asked[1], managers[m].asked[2])
      BY <2>1, <3>1, SameMeaning
    <3>3. IsNamed(policies, managers[m].asked[1], managers[m].asked[2],
                  managers[m].policy, managers[m].scheme)
      BY <2>2, <3>2 DEF ManagerAsAsked
    <3> QED BY <2>1, <3>1, <3>3, SameMeaning
  <2>3. CASE m \notin 1..Len(managers)
    <3>1. managers' # managers
      BY <2>3
    <3>2. PICK policy \in Names, scheme \in MaybeName : CreateManager(policy, scheme)
      BY <3>1 DEF Next, Continue, vars, Rotate, AppendHeader, Fetch, Sign, BuildContent,
                  AccessorSettles, ComputeSignature, AddHeaders
    <3>3. /\ GetPolicy(policies, policy) # NoPolicy
          /\ Len(managers') = Len(managers) + 1
          /\ managers'[Len(managers) + 1] = NewManager(policy, scheme)
      BY <3>1, <3>2, ManagersGrow DEF Shape
    <3>4. Len(managers) \in Nat
      BY LenProperties DEF Shape, TypeOK
    <3>5. managers'[m] = NewManager(policy, scheme)
      BY <2>3, <3>3, <3>4
    <3>6. /\ managers'[m].asked[1] = policy /\ managers'[m].asked[2] = scheme
          /\ managers'[m].policy = GetPolicy(policies, policy)
          /\ managers'[m].scheme = GetScheme(policies, policy, scheme)
      BY <3>5 DEF NewManager
    <3>7. policies' = policies
      BY <3>2 DEF CreateManager
    <3> QED BY <2>1, <3>3, <3>6, <3>7, LookupFindsNamed
  <2> QED BY <2>2, <2>3
<1> QED BY <1>1, <1>2, ShapeAlways, PTL DEF Spec

(***************************************************************************)
(* The inductive form of KeysOfOneVersion.                                 *)
(***************************************************************************)
SignedSoFar ==
    \A c \in Calls :
      pc[c] \in {"signed", "success"} => signature[c] = <<ProviderOf(c).publicKey, content[c]>>

LEMMA SignedStep == Shape /\ Shape' /\ SignedSoFar /\ [Next]_vars => SignedSoFar'
<1> SUFFICES ASSUME Shape, Shape', SignedSoFar, [Next]_vars,
                    NEW c \in Calls, pc'[c] \in {"signed", "success"}
             PROVE  signature'[c] = <<ProviderOf(c)'.publicKey, content'[c]>>
  BY DEF SignedSoFar
<1>1. CASE pc[c] \in {"signed", "success"}
  <2>1. /\ signature'[c] = signature[c] /\ content'[c] = content[c]
        /\ ProviderOf(c)' = ProviderOf(c)
    BY <1>1, CallKeeps, HmacKeeps DEF Computed
  <2> QED BY <1>1, <2>1 DEF SignedSoFar
<1>2. CASE pc[c] \notin {"signed", "success"}
  <2>1. (\E m \in 1..Len(managers), r \in Requests : Sign(c, m, r)) \/ Continue(c)
    BY <1>2, OwnSteps
  <2>2. ComputeSignature(c)
    BY <1>2, <2>1 DEF Continue, Sign, BuildContent, AccessorSettles, ComputeSignature,
                      AddHeaders, Shape, TypeOK
  <2>3. /\ signature'[c] = <<SigningKey(c), content[c]>> /\ content' = content
        /\ managers' = managers /\ by' = by /\ by[c] \in 1..Len(managers)
    BY <1>2, <2>2 DEF ComputeSignature, Shape, TypeOK, Domains
  <2>4. SigningKey(c) = ProviderOf(c).publicKey
    BY <2>3 DEF SigningKey, ProviderOf, Shape, KeyPairs
  <2>5. ProviderOf(c)' = ProviderOf(c)
    BY <2>3 DEF ProviderOf
  <2> QED BY <2>3, <2>4, <2>5
<1> QED BY <1>1, <1>2

LEMMA SignedAlways == Spec => []SignedSoFar
<1>1. Init => SignedSoFar
  BY DEF Init, SignedSoFar
<1> QED BY <1>1, SignedStep, ShapeAlways, PTL DEF Spec

(***************************************************************************)
(* The private key of a signature is the partner of the public key in its  *)
(* content, though the policy's keys may change at every await.            *)
(***************************************************************************)
THEOREM KeysAgree == Spec => []KeysOfOneVersion
<1>1. SignedSoFar => KeysOfOneVersion
  BY DEF SignedSoFar, KeysOfOneVersion
<1> QED BY <1>1, SignedAlways, PTL

-----------------------------------------------------------------------------
(* What is signed *)

(***************************************************************************)
(* What a call signs stays what its request has, until the application     *)
(* changes one of its headers.                                             *)
(***************************************************************************)
LEMMA FilledKeeps ==
    ASSUME Shape, [Next]_vars, NEW c \in Calls,
           pc[c] \notin {"idle", "hashing"}, c \notin touched'
    PROVE  Filled(EmptyContext, c)' = Filled(EmptyContext, c)
<1> DEFINE r == on[c]
           headers == ProviderOf(c).signedHeaders
<1>1. /\ ProviderOf(c)' = ProviderOf(c) /\ on'[c] = r
      /\ ContentHash(on[c])' = ContentHash(on[c])
  BY CallKeeps, HmacKeeps
<1>2. \A h \in Elements(headers) : custom'[r][h] = custom[r][h]
  <2>1. CASE custom' = custom
    BY <2>1
  <2>2. ASSUME NEW q \in Requests, NEW k \in Headers, NEW v \in Values, AppendHeader(q, k, v)
        PROVE  \A h \in Elements(headers) : custom'[r][h] = custom[r][h]
    <3>1. ~(q = r /\ k \in Elements(headers))
      BY <2>2 DEF AppendHeader
    <3> HIDE DEF headers
    <3> QED BY <2>2, <3>1 DEF AppendHeader, Shape, TypeOK
  <2> QED BY <2>1, <2>2, Unchanged
          DEF Next, CreateManager, Rotate, Fetch, Continue, Sign, BuildContent, AccessorSettles,
              ComputeSignature, AddHeaders, requestVars
<1>3. HeaderValues(custom'[r], headers) = HeaderValues(custom[r], headers)
  <2> HIDE DEF headers, r
  <2> QED BY <1>2 DEF HeaderValues, Elements
<1> QED BY <1>1, <1>3 DEF Filled, EmptyContext

(***************************************************************************)
(* The inductive form: a builder is empty until the body is hashed, and an *)
(* accessor that has yet to settle will read what the call has put there.  *)
(***************************************************************************)
ContentSoFar ==
    \A c \in Calls :
      /\ pc[c] \in {"idle", "hashing"} => context[c] = EmptyContext
      /\ pc[c] = "accessing" /\ c \notin touched => context[c] = Filled(EmptyContext, c)
      /\ Computed(c) /\ c \notin touched => content[c] = Build(Filled(EmptyContext, c))

LEMMA ContentStep == Shape /\ Shape' /\ ContentSoFar /\ [Next]_vars => ContentSoFar'
<1> SUFFICES ASSUME Shape, Shape', ContentSoFar, [Next]_vars, NEW c \in Calls
             PROVE  /\ pc'[c] \in {"idle", "hashing"} => context'[c] = EmptyContext
                    /\ pc'[c] = "accessing" /\ c \notin touched'
                         => context'[c] = Filled(EmptyContext, c)'
                    /\ Computed(c)' /\ c \notin touched'
                         => content'[c] = Build(Filled(EmptyContext, c))'
  BY DEF ContentSoFar, EmptyContext
<1> USE DEF Computed
<1>0. pc[c] \in Stages /\ pc'[c] \in Stages /\ touched \subseteq touched'
  BY StepKeeps DEF Shape, TypeOK
<1>1. CASE pc'[c] = pc[c]
  <2>1. ~BuildContent(c)
    BY <1>1 DEF BuildContent, Shape, TypeOK
  <2>2. context'[c] = context[c]
    BY <2>1, OwnSteps
  <2>3. CASE pc[c] \in {"idle", "hashing"}
    BY <1>1, <2>2, <2>3 DEF ContentSoFar
  <2>4. CASE pc[c] \notin {"idle", "hashing"}
    <3> SUFFICES ASSUME c \notin touched'
                 PROVE  /\ pc[c] = "accessing" => context[c] = Filled(EmptyContext, c)'
                        /\ Computed(c) => content[c] = Build(Filled(EmptyContext, c)')
      BY <1>1, <2>2, <2>4, CallKeeps DEF Build
    <3>1. Filled(EmptyContext, c)' = Filled(EmptyContext, c)
      BY <2>4, FilledKeeps
    <3> QED BY <1>0, <3>1 DEF ContentSoFar
  <2> QED BY <2>3, <2>4
<1>2. CASE pc'[c] # pc[c]
  <2>1. (\E m \in 1..Len(managers), r \in Requests : Sign(c, m, r)) \/ Continue(c)
    BY <1>2, OwnSteps
  <2>2. ASSUME NEW m \in 1..Len(managers), NEW r \in Requests, Sign(c, m, r)
        PROVE  /\ pc[c] = "idle" /\ pc'[c] \in {"hashing", "failure"}
               /\ context' = context
    BY <2>2 DEF Sign, Shape, TypeOK
  <2>3. CASE BuildContent(c)
    <3>1. context[c] = EmptyContext /\ UNCHANGED <<managers, body, custom, by, on>>
      BY <2>3 DEF BuildContent, ContentSoFar, requestVars
    <3>2. Filled(EmptyContext, c)' = Filled(EmptyContext, c)
      BY <3>1 DEF Filled, EmptyContext, ProviderOf, ContentHash
    <3>3. \/ pc'[c] = "failure"
          \/ /\ pc'[c] \in {"accessing", "keying"}
             /\ context'[c] = Filled(EmptyContext, c)
             /\ pc'[c] = "keying" => content'[c] = Build(context'[c])
      BY <2>3, <3>1 DEF BuildContent, CreateBuilder, Shape, TypeOK, Domains
    <3>4. Build(Filled(EmptyContext, c))' = Build(Filled(EmptyContext, c))
      BY <3>2 DEF Build
    <3> QED BY <3>2, <3>3, <3>4
  <2>4. CASE AccessorSettles(c)
    <3>1. UNCHANGED <<managers, body, custom, by, on, touched>> /\ pc[c] = "accessing"
      BY <2>4 DEF AccessorSettles, requestVars
    <3>2. Filled(EmptyContext, c)' = Filled(EmptyContext, c)
      BY <3>1 DEF Filled, EmptyContext, ProviderOf, ContentHash
    <3>3. \/ pc'[c] = "failure"
          \/ pc'[c] = "keying" /\ content'[c] = Build(context[c])
      BY <2>4 DEF AccessorSettles, CreateBuilder, Shape, TypeOK, Domains
    <3>4. Build(Filled(EmptyContext, c))' = Build(Filled(EmptyContext, c))
      BY <3>2 DEF Build
    <3> QED BY <3>1, <3>3, <3>4 DEF ContentSoFar
  <2>5. CASE ComputeSignature(c) \/ AddHeaders(c)
    <3>1. /\ UNCHANGED <<managers, body, custom, by, on, touched, content>>
          /\ pc[c] \in {"keying", "signed"} /\ pc'[c] \in {"signed", "success", "failure"}
      BY <2>5 DEF ComputeSignature, AddHeaders, requestVars, Shape, TypeOK
    <3>2. Filled(EmptyContext, c)' = Filled(EmptyContext, c)
      BY <3>1 DEF Filled, EmptyContext, ProviderOf, ContentHash
    <3>3. Build(Filled(EmptyContext, c))' = Build(Filled(EmptyContext, c))
      BY <3>2 DEF Build
    <3> QED BY <3>1, <3>3 DEF ContentSoFar
  <2>6. (\E m \in 1..Len(managers), r \in Requests : Sign(c, m, r))
          => pc'[c] \in {"hashing", "failure"} /\ context'[c] = EmptyContext
    BY <2>2 DEF ContentSoFar
  <2> QED BY <2>1, <2>3, <2>4, <2>5, <2>6 DEF Continue
<1> QED BY <1>1, <1>2

LEMMA ContentAlways == Spec => []ContentSoFar
<1>1. Init => ContentSoFar
  BY DEF Init, ContentSoFar, Computed
<1> QED BY <1>1, ContentStep, ShapeAlways, PTL DEF Spec

(***************************************************************************)
(* A call signs its own request, nonce, key and headers, also when calls   *)
(* of one manager overlap and when an accessor settles late.               *)
(***************************************************************************)
THEOREM SignsItsOwn == Spec => []ContentOfItsCall
<1>1. ContentSoFar => ContentOfItsCall
  BY DEF ContentSoFar, ContentOfItsCall
<1> QED BY <1>1, ContentAlways, PTL

-----------------------------------------------------------------------------
(* The headers of a signing *)

LEMMA ElementsOfAppend ==
    ASSUME NEW S, NEW s \in Seq(S), NEW x \in S
    PROVE  Elements(Append(s, x)) = Elements(s) \cup {x}
<1>1. Len(s) \in Nat /\ 1..(Len(s) + 1) = 1..Len(s) \cup {Len(s) + 1}
  BY LenProperties
<1>2. /\ Len(Append(s, x)) = Len(s) + 1 /\ Append(s, x)[Len(s) + 1] = x
      /\ \A i \in 1..Len(s) : Append(s, x)[i] = s[i]
  BY AppendType
<1> DEFINE t == Append(s, x)
           n == Len(s)
<1>3. Len(t) = n + 1 /\ t[n + 1] = x /\ \A i \in 1..n : t[i] = s[i]
  BY <1>2
<1>4. 1..Len(t) = 1..n \cup {n + 1}
  BY <1>1, <1>3
<1> HIDE DEF t, n
<1>5. {t[i] : i \in 1..Len(t)} = {s[i] : i \in 1..n} \cup {x}
  BY <1>3, <1>4
<1> QED BY <1>5 DEF t, n, Elements

(***************************************************************************)
(* What addHeaders appends: the headers of the call, or fewer, for a name  *)
(* that is refused half-way, or nothing; the last one only with all.       *)
(***************************************************************************)
LEMMA WhatIsAppended ==
    ASSUME NEW c
    PROVE  LET names == AppendedHeaders(Hmac(c))
               built == BuiltHeaders(Hmac(c))
           IN  /\ names \subseteq HmacHeaders /\ built \subseteq HmacHeaders
               /\ AlwaysAdded \subseteq built /\ "Authorization" \in built
               /\ names # {} => "Authorization" \in names
               /\ names = built => ~Refused(c)
               /\ names # {} /\ ~Refused(c) => names = built
               /\ LastHeader \in names <=> names = built
<1> DEFINE hmac == Hmac(c)
<1>1. CASE consolidated
  BY <1>1 DEF AppendedHeaders, BuiltHeaders, OptionsHeaders, HmacHeaders, AlwaysAdded,
              Refused, LastHeader
<1>2. CASE ~consolidated
  <2>1. BuiltHeaders(hmac) = NamedHeaders(hmac)
    BY <1>2 DEF BuiltHeaders
  <2>2. /\ NamedHeaders(hmac) \subseteq HmacHeaders
        /\ {"Authorization", "Hmac-Policy", "Hmac-Nonce", "Hmac-DateRequested"}
             \subseteq NamedHeaders(hmac)
    BY DEF NamedHeaders, HmacHeaders
  <2>3. /\ AlwaysAdded = {"Authorization", "Hmac-Policy", "Hmac-Nonce", "Hmac-DateRequested"}
        /\ LastHeader = "Hmac-DateRequested"
    BY <1>2 DEF AlwaysAdded, LastHeader
  <2>4. Refused(c) <=> hmac.policy \in Unsendable \/ hmac.scheme \in Unsendable
    <3> HIDE DEF hmac
    <3>1. Refused(c) <=> Unsendable \cap {hmac.policy, hmac.scheme} # {}
      BY <1>2 DEF Refused, hmac
    <3> QED BY <3>1
  <2>5. CASE hmac.policy \in Unsendable
    <3>1. AppendedHeaders(hmac) = {"Authorization"}
      BY <1>2, <2>5 DEF AppendedHeaders
    <3> HIDE DEF hmac
    <3>2. "Hmac-DateRequested" \notin AppendedHeaders(hmac)
      BY <3>1
    <3>3. AppendedHeaders(hmac) # BuiltHeaders(hmac)
      BY <2>1, <2>2, <3>2
    <3> QED BY <2>1, <2>2, <2>3, <2>4, <2>5, <3>1, <3>2, <3>3 DEF HmacHeaders, hmac
  <2>6. CASE hmac.policy \notin Unsendable /\ hmac.scheme \in Unsendable
    <3>1. AppendedHeaders(hmac) = {"Authorization", "Hmac-Policy"}
      BY <1>2, <2>6 DEF AppendedHeaders
    <3> HIDE DEF hmac
    <3>2. "Hmac-DateRequested" \notin AppendedHeaders(hmac)
      BY <3>1
    <3>3. AppendedHeaders(hmac) # BuiltHeaders(hmac)
      BY <2>1, <2>2, <3>2
    <3> QED BY <2>1, <2>2, <2>3, <2>4, <2>6, <3>1, <3>2, <3>3 DEF HmacHeaders, hmac
  <2>7. CASE hmac.policy \notin Unsendable /\ hmac.scheme \notin Unsendable
    <3>1. AppendedHeaders(hmac) = NamedHeaders(hmac)
      BY <1>2, <2>7 DEF AppendedHeaders
    <3> HIDE DEF hmac
    <3> QED BY <2>1, <2>2, <2>3, <2>4, <2>7, <3>1 DEF hmac
  <2> QED BY <2>5, <2>6, <2>7
<1> QED BY <1>1, <1>2

LEMMA HeadersAdded ==
    ASSUME Shape, NEW d \in Calls, AddHeaders(d),
           NEW r \in Requests, NEW h \in HmacHeaders
    PROVE  /\ r = on[d] /\ h \in AppendedHeaders(Hmac(d)) =>
                /\ added'[r][h] = Append(added[r][h], d)
                /\ Elements(added'[r][h]) = Elements(added[r][h]) \cup {d}
                /\ Len(added'[r][h]) = Len(added[r][h]) + 1
           /\ ~(r = on[d] /\ h \in AppendedHeaders(Hmac(d))) =>
                /\ added'[r][h] = added[r][h]
                /\ Elements(added'[r][h]) = Elements(added[r][h])
                /\ Len(added'[r][h]) = Len(added[r][h])
           /\ Len(added[r][h]) \in Nat
<1>1. added[r][h] \in Seq(Calls) /\ on[d] \in Requests
  BY DEF Shape, TypeOK
<1> DEFINE names == AppendedHeaders(Hmac(d))
<1>2. added' = [added EXCEPT ![on[d]] = AppendAll(added[on[d]], names, d)]
  BY DEF AddHeaders
<1> HIDE DEF names
<1>3. added'[r][h] = IF r = on[d] /\ h \in names THEN Append(added[r][h], d) ELSE added[r][h]
  BY <1>1, <1>2 DEF AppendAll, Shape, TypeOK
<1>4. /\ Elements(Append(added[r][h], d)) = Elements(added[r][h]) \cup {d}
      /\ Len(Append(added[r][h], d)) = Len(added[r][h]) + 1 /\ Len(added[r][h]) \in Nat
  BY <1>1, ElementsOfAppend, AppendType, LenProperties
<1> QED BY <1>3, <1>4 DEF names

(***************************************************************************)
(* The inductive form of HeadersWhole.  Beyond it, for the messages: a     *)
(* successful call is in each of its headers, and none is longer than      *)
(* Authorization.                                                          *)
(***************************************************************************)
HeadersSoFar ==
    /\ \A c \in Calls :
         pc[c] = "success" =>
           ~Refused(c) /\ \A h \in BuiltHeaders(Hmac(c)) : c \in Elements(added[on[c]][h])
    /\ \A r \in Requests : \A c \in Signers(r) :
         on[c] = r /\ (pc[c] = "success" \/ (pc[c] = "failure" /\ Refused(c)))
    /\ \A r \in Requests :
         (\A c \in Signers(r) : ~Refused(c)) =>
           \A h \in AlwaysAdded : added[r][h] = added[r]["Authorization"]
    /\ \A r \in Requests, h \in HmacHeaders :
         Len(added[r][h]) <= Len(added[r]["Authorization"])

LEMMA SignersAreCalls ==
    ASSUME Shape, NEW r \in Requests
    PROVE  Signers(r) \subseteq Calls
<1>1. added[r]["Authorization"] \in Seq(Calls)
  BY DEF Shape, TypeOK, HmacHeaders
<1> QED BY <1>1, ElementOfSeq DEF Signers, Elements

LEMMA HeadersStep == Shape /\ Shape' /\ HeadersSoFar /\ [Next]_vars => HeadersSoFar'
<1> SUFFICES ASSUME Shape, Shape', HeadersSoFar, [Next]_vars PROVE HeadersSoFar'
  OBVIOUS
<1>0. "Authorization" \in HmacHeaders
  BY DEF HmacHeaders
<1>a. consolidated' = consolidated
  BY StepKeeps
<1>b. AlwaysAdded' = AlwaysAdded /\ AlwaysAdded \subseteq HmacHeaders
  BY <1>a DEF AlwaysAdded, OptionsHeaders, HmacHeaders
<1>c. \A c \in Calls : pc[c] # "idle" =>
        /\ Refused(c)' = Refused(c) /\ BuiltHeaders(Hmac(c))' = BuiltHeaders(Hmac(c))
        /\ on'[c] = on[c] /\ on[c] \in Requests
        /\ pc[c] \in Ended => pc'[c] = pc[c]
        /\ BuiltHeaders(Hmac(c)) \subseteq HmacHeaders
  BY CallKeeps, HmacKeeps, WhatIsAppended DEF Shape, TypeOK
<1>1. ASSUME NEW d \in Calls, AddHeaders(d)
      PROVE  HeadersSoFar'
  <2> DEFINE names == AppendedHeaders(Hmac(d))
             built == BuiltHeaders(Hmac(d))
             q == on[d]
  <2>1. /\ names \subseteq HmacHeaders /\ built \subseteq HmacHeaders
        /\ AlwaysAdded \subseteq built /\ "Authorization" \in built
        /\ names # {} => "Authorization" \in names
        /\ names = built => ~Refused(d)
        /\ names # {} /\ ~Refused(d) => names = built
    BY WhatIsAppended
  <2>2. /\ pc[d] = "signed" /\ q \in Requests /\ pc'[d] \in {"success", "failure"}
        /\ pc'[d] = "success" <=> names = built
        /\ \A c \in Calls : c # d => pc'[c] = pc[c]
    BY <1>1 DEF AddHeaders, Shape, TypeOK
  <2>3. \A r \in Requests, h \in HmacHeaders :
          /\ r = q /\ h \in names =>
               /\ added'[r][h] = Append(added[r][h], d)
               /\ Elements(added'[r][h]) = Elements(added[r][h]) \cup {d}
               /\ Len(added'[r][h]) = Len(added[r][h]) + 1
          /\ ~(r = q /\ h \in names) =>
               /\ added'[r][h] = added[r][h]
               /\ Elements(added'[r][h]) = Elements(added[r][h])
               /\ Len(added'[r][h]) = Len(added[r][h])
          /\ Len(added[r][h]) \in Nat
    BY <1>1, HeadersAdded
  <2>4. /\ \A r \in Requests : Signers(r)' = IF r = q /\ "Authorization" \in names
                                           THEN Signers(r) \cup {d} ELSE Signers(r)
        /\ \A r \in Requests : Signers(r) \subseteq Calls
    BY <1>0, <2>3, SignersAreCalls DEF Signers
  <2>5. Refused(d)' = Refused(d) /\ BuiltHeaders(Hmac(d))' = built /\ on'[d] = q
    BY <1>c, <2>2
  <2> HIDE DEF names, built, q
  <2>6. ASSUME NEW c \in Calls, pc'[c] = "success"
        PROVE  ~Refused(c)' /\ \A h \in BuiltHeaders(Hmac(c))' : c \in Elements(added'[on'[c]][h])
    <3>1. CASE c = d
      <4>1. names = built /\ ~Refused(d)
        BY <2>1, <2>2, <2>6, <3>1
      <4> QED BY <2>1, <2>2, <2>3, <2>5, <3>1, <4>1, ZenonT(60)
    <3>2. CASE c # d
      <4>1. pc[c] = "success"
        BY <2>2, <2>6, <3>2
      <4>2. ~Refused(c) /\ \A h \in BuiltHeaders(Hmac(c)) : c \in Elements(added[on[c]][h])
        BY <4>1 DEF HeadersSoFar
      <4>3. \A h \in HmacHeaders : Elements(added[on[c]][h]) \subseteq Elements(added'[on[c]][h])
        <5> TAKE h \in HmacHeaders
        <5>1. on[c] \in Requests
          BY <1>c, <4>1
        <5>2. \/ Elements(added'[on[c]][h]) = Elements(added[on[c]][h]) \cup {d}
              \/ Elements(added'[on[c]][h]) = Elements(added[on[c]][h])
          BY <2>3, <5>1
        <5> QED BY <5>2
      <4> QED BY <1>c, <4>1, <4>2, <4>3
    <3> QED BY <3>1, <3>2
  <2>7. ASSUME NEW r \in Requests, NEW c \in Signers(r)'
        PROVE  on'[c] = r /\ (pc'[c] = "success" \/ (pc'[c] = "failure" /\ Refused(c)'))
    <3>1. CASE c = d
      <4>1. d \notin Signers(r)
        BY <2>2 DEF HeadersSoFar
      <4>2. r = q /\ "Authorization" \in names
        BY <2>4, <2>7, <3>1, <4>1
      <4>3. pc'[d] = "success" \/ (pc'[d] = "failure" /\ Refused(d))
        BY <2>1, <2>2, <4>2
      <4> QED BY <2>5, <3>1, <4>2, <4>3
    <3>2. CASE c # d
      <4>1. c \in Signers(r) /\ c \in Calls
        BY <2>4, <2>7, <3>2
      <4>2. on[c] = r /\ (pc[c] = "success" \/ (pc[c] = "failure" /\ Refused(c)))
        BY <4>1 DEF HeadersSoFar
      <4> QED BY <1>c, <2>2, <3>2, <4>1, <4>2
    <3> QED BY <3>1, <3>2
  <2>8. ASSUME NEW r \in Requests, \A c \in Signers(r)' : ~Refused(c)',
               NEW h \in AlwaysAdded
        PROVE  added'[r][h] = added'[r]["Authorization"]
    <3>1. \A c \in Signers(r) : ~Refused(c)
      <4> TAKE c \in Signers(r)
      <4>1. c \in Signers(r)' /\ c \in Calls
        BY <2>4
      <4>2. pc[c] \in {"success", "failure"}
        BY DEF HeadersSoFar
      <4>3. Refused(c)' = Refused(c) /\ ~Refused(c)'
        BY <1>c, <2>8, <4>1, <4>2
      <4> QED BY <4>3
    <3>2. added[r][h] = added[r]["Authorization"]
      BY <3>1 DEF HeadersSoFar
    <3>3. CASE r = q /\ "Authorization" \in names
      <4>1. ~Refused(d)
        BY <2>4, <2>5, <2>8, <3>3
      <4>2. names = built
        BY <2>1, <3>3, <4>1
      <4> QED BY <1>0, <1>b, <2>1, <2>3, <3>2, <3>3, <4>2, ZenonT(60)
    <3>4. CASE ~(r = q /\ "Authorization" \in names)
      <4>1. ~(r = q /\ h \in names)
        BY <2>1, <3>4
      <4> QED BY <1>0, <1>b, <2>3, <3>2, <3>4, <4>1
    <3> QED BY <3>3, <3>4
  <2>9. ASSUME NEW r \in Requests, NEW h \in HmacHeaders
        PROVE  Len(added'[r][h]) <= Len(added'[r]["Authorization"])
    <3>1. /\ Len(added[r][h]) <= Len(added[r]["Authorization"])
          /\ Len(added[r][h]) \in Nat /\ Len(added[r]["Authorization"]) \in Nat
      BY <1>0, <2>3 DEF HeadersSoFar
    <3>2. h \in names => "Authorization" \in names
      BY <2>1
    <3>3. CASE r = q /\ h \in names
      <4>1. Len(added'[r][h]) = Len(added[r][h]) + 1
        BY <2>3, <3>3
      <4>2. Len(added'[r]["Authorization"]) = Len(added[r]["Authorization"]) + 1
        BY <1>0, <2>3, <3>2, <3>3
      <4> QED BY <3>1, <4>1, <4>2
    <3>4. CASE ~(r = q /\ h \in names)
      <4>1. Len(added'[r][h]) = Len(added[r][h])
        BY <2>3, <3>4
      <4>2. \/ Len(added'[r]["Authorization"]) = Len(added[r]["Authorization"]) + 1
            \/ Len(added'[r]["Authorization"]) = Len(added[r]["Authorization"])
        BY <1>0, <2>3
      <4> QED BY <3>1, <4>1, <4>2
    <3> QED BY <3>3, <3>4
  <2> QED BY <1>b, <2>6, <2>7, <2>8, <2>9 DEF HeadersSoFar
<1>2. CASE ~(\E d \in Calls : AddHeaders(d))
  <2>1. added' = added
    BY <1>2, Unchanged
       DEF Next, CreateManager, Rotate, AppendHeader, Fetch, Continue, Sign, BuildContent,
           AccessorSettles, ComputeSignature, requestVars
  <2>2. \A c \in Calls : pc'[c] = "success" => pc[c] = "success"
    <3> TAKE c \in Calls
    <3>1. pc'[c] = pc[c] \/ pc'[c] \in {"hashing", "accessing", "keying", "signed", "failure"}
      BY <1>2, OwnSteps, ZenonT(60)
         DEF Continue, Sign, BuildContent, AccessorSettles, ComputeSignature, Shape, TypeOK
    <3> QED BY <3>1
  <2>3. \A r \in Requests : Signers(r)' = Signers(r) /\ Signers(r) \subseteq Calls
    BY <2>1, SignersAreCalls DEF Signers
  <2>4. \A r \in Requests : \A c \in Signers(r) : pc[c] \in Ended
    BY DEF HeadersSoFar, Ended
  <2>5. ASSUME NEW c \in Calls, pc'[c] = "success"
        PROVE  ~Refused(c)' /\ \A h \in BuiltHeaders(Hmac(c))' : c \in Elements(added'[on'[c]][h])
    <3>1. pc[c] = "success"
      BY <2>2, <2>5
    <3> QED BY <1>c, <2>1, <3>1 DEF HeadersSoFar
  <2>6. ASSUME NEW r \in Requests, NEW c \in Signers(r)
        PROVE  /\ on'[c] = r /\ (pc'[c] = "success" \/ (pc'[c] = "failure" /\ Refused(c)'))
               /\ Refused(c)' = Refused(c)
    <3>1. pc[c] \in Ended /\ c \in Calls
      BY <2>3, <2>4
    <3> QED BY <1>c, <3>1 DEF HeadersSoFar, Ended
  <2>7. ASSUME NEW r \in Requests, \A c \in Signers(r)' : ~Refused(c)',
               NEW h \in AlwaysAdded
        PROVE  added'[r][h] = added'[r]["Authorization"]
    <3>1. \A c \in Signers(r) : ~Refused(c)
      BY <2>3, <2>6, <2>7
    <3> QED BY <2>1, <3>1 DEF HeadersSoFar
  <2>8. \A r \in Requests, h \in HmacHeaders :
          Len(added'[r][h]) <= Len(added'[r]["Authorization"])
    BY <2>1 DEF HeadersSoFar
  <2> QED BY <1>b, <2>3, <2>5, <2>6, <2>7, <2>8 DEF HeadersSoFar
<1> QED BY <1>1, <1>2

LEMMA HeadersAlways == Spec => []HeadersSoFar
<1>1. Init => HeadersSoFar
  <2> SUFFICES ASSUME Init PROVE HeadersSoFar
    OBVIOUS
  <2>1. \A r \in Requests, h \in HmacHeaders : added[r][h] = <<>>
    BY DEF Init
  <2>2. \A r \in Requests : Signers(r) = {}
    BY <2>1 DEF Signers, Elements, HmacHeaders
  <2>3. AlwaysAdded \subseteq HmacHeaders /\ "Authorization" \in HmacHeaders
    BY DEF AlwaysAdded, OptionsHeaders, HmacHeaders
  <2>4. \A c \in Calls : pc[c] = "idle"
    BY DEF Init
  <2> QED BY <2>1, <2>2, <2>3, <2>4 DEF HeadersSoFar
<1> QED BY <1>1, HeadersStep, ShapeAlways, PTL DEF Spec

(***************************************************************************)
(* A request has the headers of the calls that succeeded on it and of no   *)
(* other, in one order, unless a name is refused half-way.                 *)
(***************************************************************************)
THEOREM HeadersTogether == Spec => []HeadersWhole
<1>1. Shape /\ HeadersSoFar => HeadersWhole
  <2> SUFFICES ASSUME Shape, HeadersSoFar, NEW r \in Requests
               PROVE  /\ \A c \in Calls : Result(c).isSuccess /\ on[c] = r => c \in Signers(r)
                      /\ \A c \in Signers(r) : on[c] = r /\ (Result(c).isSuccess \/ Refused(c))
                      /\ (\A c \in Signers(r) : ~Refused(c)) =>
                           \A h \in AlwaysAdded : added[r][h] = added[r]["Authorization"]
    BY DEF HeadersWhole
  <2>1. \A c : Result(c).isSuccess <=> pc[c] = "success"
    BY DEF Result
  <2>2. \A c : "Authorization" \in BuiltHeaders(Hmac(c))
    BY WhatIsAppended
  <2>3. \A c \in Calls : Result(c).isSuccess /\ on[c] = r => c \in Signers(r)
    BY <2>1, <2>2 DEF HeadersSoFar, Signers
  <2> QED BY <2>1, <2>3 DEF HeadersSoFar
<1> QED BY <1>1, ShapeAlways, HeadersAlways, PTL

-----------------------------------------------------------------------------
(* Refinement *)

LEMMA AtomicStep == Shape /\ [Next]_vars => [Atomic!Next]_(Atomic!vars)
<1> SUFFICES ASSUME Shape, [Next]_vars PROVE [Atomic!Next]_(Atomic!vars)
  OBVIOUS
<1> DEFINE outcome == [c \in Calls |-> Outcome(c)]
           signers == [r \in Requests |-> added[r][LastHeader]]
<1>0. LastHeader' = LastHeader /\ LastHeader \in HmacHeaders
  BY StepKeeps DEF LastHeader, HmacHeaders
<1>1. \A c : Outcome(c) = IF pc[c] \in {"success", "failure"} THEN pc[c] ELSE "none"
  BY DEF Outcome, Result
<1>2. \A c : Outcome(c)' = IF pc'[c] \in {"success", "failure"} THEN pc'[c] ELSE "none"
  BY DEF Outcome, Result
<1>3. ASSUME NEW d \in Calls, AddHeaders(d)
      PROVE  Atomic!Next
  <2> DEFINE names == AppendedHeaders(Hmac(d))
             built == BuiltHeaders(Hmac(d))
  <2>1. /\ pc[d] = "signed" /\ on[d] \in Requests
        /\ pc' = [pc EXCEPT ![d] = IF names = built THEN "success" ELSE "failure"]
    BY <1>3 DEF AddHeaders, Shape, TypeOK
  <2>2. LastHeader \in names <=> names = built
    BY WhatIsAppended
  <2>3. \A r \in Requests :
          added'[r][LastHeader] = IF r = on[d] /\ LastHeader \in names
                                    THEN Append(added[r][LastHeader], d) ELSE added[r][LastHeader]
    BY <1>0, <1>3, HeadersAdded
  <2> HIDE DEF names, built
  <2>4. \A c \in Calls : pc'[c] = IF c = d THEN IF names = built THEN "success" ELSE "failure"
                                  ELSE pc[c]
    BY <2>1 DEF Shape, TypeOK
  <2>5. outcome[d] = "none"
    BY <1>1, <2>1
  <2>6. CASE names = built
    <3>1. outcome' = [outcome EXCEPT ![d] = "success"]
      BY <1>1, <1>2, <2>4, <2>6
    <3>2. PICK q \in Requests : q = on[d]
      BY <2>1
    <3>3. signers' = [signers EXCEPT ![q] = Append(@, d)]
      BY <1>0, <2>2, <2>3, <2>6, <3>2
    <3>4. Atomic!Succeed(d, q)
      BY <2>5, <3>1, <3>3 DEF Atomic!Succeed
    <3> QED BY <3>4 DEF Atomic!Next
  <2>7. CASE names # built
    <3>1. outcome' = [outcome EXCEPT ![d] = "failure"]
      BY <1>1, <1>2, <2>4, <2>7
    <3>2. signers' = signers
      BY <1>0, <2>2, <2>3, <2>7
    <3>3. Atomic!Fail(d)
      BY <2>5, <3>1, <3>2 DEF Atomic!Fail
    <3> QED BY <3>3 DEF Atomic!Next
  <2> QED BY <2>6, <2>7
<1>4. CASE ~(\E d \in Calls : AddHeaders(d))
  <2>1. added' = added
    BY <1>4, Unchanged
       DEF Next, CreateManager, Rotate, AppendHeader, Fetch, Continue, Sign, BuildContent,
           AccessorSettles, ComputeSignature, requestVars
  <2>2. signers' = signers
    BY <1>0, <2>1
  <2>3. CASE pc' = pc
    <3>1. outcome' = outcome
      BY <1>1, <1>2, <2>3
    <3> QED BY <2>2, <3>1 DEF Atomic!vars
  <2>4. CASE pc' # pc
    <3>1. PICK d \in Calls : pc'[d] # pc[d]
      BY <2>4, ShapeStep DEF Shape, TypeOK
    <3>2. /\ pc[d] \notin {"success", "failure"}
          /\ pc'[d] \in {"hashing", "accessing", "keying", "signed", "failure"}
          /\ \A c \in Calls : c # d => pc'[c] = pc[c]
      BY <1>4, <3>1, OwnSteps
         DEF Continue, Sign, BuildContent, AccessorSettles, ComputeSignature, Shape, TypeOK
    <3>3. outcome[d] = "none"
      BY <1>1, <3>2
    <3>4. CASE pc'[d] = "failure"
      <4>1. outcome' = [outcome EXCEPT ![d] = "failure"]
        BY <1>1, <1>2, <3>2, <3>4
      <4>2. Atomic!Fail(d)
        BY <2>2, <3>3, <4>1 DEF Atomic!Fail
      <4> QED BY <4>2 DEF Atomic!Next
    <3>5. CASE pc'[d] # "failure"
      <4>1. outcome' = outcome
        BY <1>1, <1>2, <3>2, <3>5
      <4> QED BY <2>2, <4>1 DEF Atomic!vars
    <3> QED BY <3>4, <3>5
  <2> QED BY <2>3, <2>4
<1> QED BY <1>3, <1>4

(***************************************************************************)
(* sign, with every await in it, implements the atomic signing: the        *)
(* outcome and the last header appear in one step.                         *)
(***************************************************************************)
THEOREM Implements == Spec => SignsAtomically
<1>1. Init => Atomic!Init
  BY DEF Init, Atomic!Init, Outcome, HmacHeaders, LastHeader
<1> QED BY <1>1, AtomicStep, ShapeAlways, PTL DEF Spec, SignsAtomically, Atomic!Spec

-----------------------------------------------------------------------------
(* What is sent *)

(***************************************************************************)
(* The inductive form of SentVerifies: when a request is fetched, the call *)
(* whose headers are with it has ended, and nothing of it changes later.   *)
(***************************************************************************)
SentSoFar ==
    \A r \in Requests, c \in Calls :
      sent[r] # <<>> /\ sent[r][1].added["Authorization"] = <<c>> =>
        /\ on[c] = r /\ pc[c] \in Ended
        /\ pc[c] = "success" /\ c \notin touched =>
             /\ \A h \in BuiltHeaders(Hmac(c)) : sent[r][1].added[h] = <<c>>
             /\ signature[c] = <<ProviderOf(c).publicKey, Build(Rebuilt(sent[r][1], c))>>

LEMMA OneSigner ==
    ASSUME NEW S, NEW s \in Seq(S), NEW c, Len(s) <= 1, c \in Elements(s)
    PROVE  s = <<c>>
<1>1. PICK i \in 1..Len(s) : s[i] = c
  BY DEF Elements
<1>2. Len(s) = 1 /\ s[1] = c
  <2>1. PICK n \in Nat : n = Len(s)
    BY LenProperties
  <2>2. i \in Int /\ 1 <= i /\ i <= n /\ n <= 1
    BY <2>1
  <2>3. i = 1 /\ n = 1
    BY <2>2
  <2>4. s[1] = c
    BY <1>1, <2>3, Zenon
  <2> QED BY <2>1, <2>3, <2>4, Zenon
<1>3. c \in S
  BY <1>1, ElementOfSeq
<1>4. <<c>> \in Seq(S) /\ Len(<<c>>) = 1 /\ <<c>>[1] = c
  BY <1>3
<1> QED BY <1>2, <1>4, SeqEqual

LEMMA SentStep ==
    ASSUME Shape, Shape', HeadersSoFar, ContentSoFar, SignedSoFar, SentSoFar, [Next]_vars,
           NEW r \in Requests, NEW c \in Calls,
           sent'[r] # <<>>, sent'[r][1].added["Authorization"] = <<c>>
    PROVE  /\ on'[c] = r /\ pc'[c] \in Ended
           /\ pc'[c] = "success" /\ c \notin touched' =>
                /\ \A h \in BuiltHeaders(Hmac(c))' : sent'[r][1].added[h] = <<c>>
                /\ signature'[c] =
                     <<ProviderOf(c)'.publicKey, Build(Rebuilt(sent[r][1], c))'>>
<1>1. CASE sent'[r] = sent[r]
  <2>1. on[c] = r /\ pc[c] \in Ended
    BY <1>1 DEF SentSoFar
  <2>2. /\ on'[c] = r /\ pc'[c] = pc[c] /\ pc[c] # "idle"
        /\ pc[c] = "success" => signature'[c] = signature[c]
        /\ ProviderOf(c)' = ProviderOf(c) /\ ContentHash(on[c])' = ContentHash(on[c])
        /\ BuiltHeaders(Hmac(c))' = BuiltHeaders(Hmac(c))
        /\ touched \subseteq touched'
    BY <2>1, CallKeeps, HmacKeeps, StepKeeps DEF Ended
  <2>3. Rebuilt(sent[r][1], c)' = Rebuilt(sent[r][1], c)
    BY <1>1, <2>1, <2>2 DEF Rebuilt, Filled, EmptyContext
  <2>4. Build(Rebuilt(sent[r][1], c))' = Build(Rebuilt(sent[r][1], c))
    BY <2>3 DEF Build
  <2>5. ASSUME pc[c] = "success", c \notin touched
        PROVE  /\ \A h \in BuiltHeaders(Hmac(c)) : sent[r][1].added[h] = <<c>>
               /\ signature[c] = <<ProviderOf(c).publicKey, Build(Rebuilt(sent[r][1], c))>>
    BY <1>1, <2>5, ZenonT(60) DEF SentSoFar
  <2>6. ASSUME pc'[c] = "success", c \notin touched'
        PROVE  /\ \A h \in BuiltHeaders(Hmac(c))' : sent'[r][1].added[h] = <<c>>
               /\ signature'[c] = <<ProviderOf(c)'.publicKey, Build(Rebuilt(sent[r][1], c))'>>
    <3>1. pc[c] = "success" /\ c \notin touched
      BY <2>2, <2>6
    <3> QED BY <1>1, <2>2, <2>4, <2>5, <3>1
  <2> QED BY <2>1, <2>2, <2>6
<1>2. CASE sent'[r] # sent[r]
  <2>1. Fetch(r)
    BY <1>2, Unchanged
       DEF Next, CreateManager, Rotate, AppendHeader, Fetch, Continue, Sign, BuildContent,
           AccessorSettles, ComputeSignature, AddHeaders, requestVars, Shape, Domains
  <2>2. /\ sent'[r] = <<[custom |-> custom[r], added |-> added[r]]>>
        /\ UNCHANGED <<policies, consolidated, managers, custom, added, pc, by, on, context,
                       content, signature, touched>>
    BY <2>1 DEF Fetch, callVars, Shape, Domains
  <2>3. /\ sent'[r][1].added = added[r] /\ sent'[r][1].custom = custom[r]
        /\ added[r]["Authorization"] = <<c>>
    BY <2>2
  <2>4. c \in Signers(r)
    BY <2>3 DEF Signers, Elements
  <2>5. on[c] = r /\ pc[c] \in Ended
    BY <2>4 DEF HeadersSoFar, Ended
  <2> SUFFICES ASSUME pc[c] = "success", c \notin touched
               PROVE  /\ \A h \in BuiltHeaders(Hmac(c))' : added[r][h] = <<c>>
                      /\ signature[c] =
                           <<ProviderOf(c)'.publicKey, Build(Rebuilt(sent[r][1], c))'>>
    BY <2>2, <2>3, <2>5
  <2>6. /\ ProviderOf(c)' = ProviderOf(c) /\ ContentHash(on[c])' = ContentHash(on[c])
        /\ BuiltHeaders(Hmac(c))' = BuiltHeaders(Hmac(c))
    BY HmacKeeps
  <2>7. ASSUME NEW h \in BuiltHeaders(Hmac(c)) PROVE added[r][h] = <<c>>
    <3>1. h \in HmacHeaders
      BY WhatIsAppended
    <3>2. added[r][h] \in Seq(Calls) /\ c \in Elements(added[r][h])
      BY <2>5, <3>1 DEF HeadersSoFar, Shape, TypeOK
    <3>3. Len(added[r][h]) <= Len(added[r]["Authorization"])
      BY <3>1 DEF HeadersSoFar
    <3>4. Len(<<c>>) = 1
      OBVIOUS
    <3>5. Len(added[r][h]) <= 1
      BY <2>3, <3>3, <3>4
    <3> QED BY <3>2, <3>5, OneSigner
  <2>8. signature[c] = <<ProviderOf(c).publicKey, content[c]>>
    BY DEF SignedSoFar
  <2>9. content[c] = Build(Filled(EmptyContext, c))
    BY DEF ContentSoFar, Computed
  <2>10. Rebuilt(sent[r][1], c)' = Filled(EmptyContext, c)
    <3> DEFINE provider == ProviderOf(c)
    <3>1. CASE provider.signedHeaders = <<>>
      BY <2>2, <2>3, <2>5, <2>6, <3>1 DEF Rebuilt, Filled, EmptyContext, HeaderValues
    <3>2. CASE provider.signedHeaders # <<>>
      BY <2>2, <2>3, <2>5, <2>6, <3>2 DEF Rebuilt, Filled, EmptyContext
    <3> QED BY <3>1, <3>2
  <2>11. Build(Rebuilt(sent[r][1], c))' = Build(Filled(EmptyContext, c))
    BY <2>10 DEF Build
  <2> QED BY <2>6, <2>7, <2>8, <2>9, <2>11
<1> QED BY <1>1, <1>2

(***************************************************************************)
(* A server that knows the policy can verify every message that carries    *)
(* the headers of one successful call, also one fetched while other calls  *)
(* still run and others add theirs later.                                  *)
(***************************************************************************)
THEOREM MessagesVerify == Spec => []SentVerifies
<1>1. Init => SentSoFar
  BY DEF Init, SentSoFar
<1>2. /\ Shape /\ Shape' /\ HeadersSoFar /\ ContentSoFar /\ SignedSoFar
      /\ SentSoFar /\ [Next]_vars
      => SentSoFar'
  BY SentStep DEF SentSoFar
<1>3. SentSoFar => SentVerifies
  BY DEF SentSoFar, SentVerifies, Result
<1> QED BY <1>1, <1>2, <1>3, ShapeAlways, HeadersAlways, ContentAlways, SignedAlways, PTL DEF Spec
=============================================================================
