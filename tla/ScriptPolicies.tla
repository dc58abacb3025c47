--------------------------- MODULE ScriptPolicies ---------------------------
(***************************************************************************)
(* HmacPolicyCollection and HmacManagerFactory.create of the JavaScript    *)
(* client: two plain objects, one from policy names to policies, one from  *)
(* "policy:scheme" to schemes, filled once from an array of policies.      *)
(*                                                                         *)
(* A name is a sequence of parts, so that joining names with a colon means *)
(* here what it means there: <<"a", ":", "b">> is the name "a:b".          *)
(***************************************************************************)
EXTENDS Naturals, Sequences

CONSTANTS
    Headers,    \* custom headers a scheme may list
    Names,      \* names of policies and schemes
    Null,       \* no scheme was asked for
    MaxKey      \* bound on the versions of a policy's key pair

ASSUME PoliciesAssumption ==
    /\ Null \notin Names
    /\ Names \subseteq Seq(STRING)
    /\ MaxKey \in Nat \ {0}

Keys == 1..MaxKey

Scheme == [name : Names, headers : Seq(Headers)]

\* The two keys of a pair carry its version.
Policy == [name : Names, publicKey : Keys, privateKey : Keys,
           accessor : BOOLEAN,      \* has a signingContentAccessor
           schemes : Seq(Scheme)]

MaybeName == Names \cup {Null}

-----------------------------------------------------------------------------

\* Mutant: the scheme's name alone.
SchemeOnly(policy, scheme) == IF scheme = Null THEN <<"null">> ELSE scheme

\* `${policy}:${scheme}`; a null is printed as one.
Concat(policy, scheme) ==
    policy \o <<":">> \o (IF scheme = Null THEN <<"null">> ELSE scheme)

(***************************************************************************)
(* The constructor assigns in order, so that of equal keys the last one    *)
(* stays; a scheme is told by its policy's place and its own.              *)
(***************************************************************************)
PolicyPlaces(list, name) == {i \in 1..Len(list) : list[i].name = name}

SchemePlaces(list) ==
    UNION {{<<i, j>> : j \in 1..Len(list[i].schemes)} : i \in 1..Len(list)}

SchemeAt(list, place) == list[place[1]].schemes[place[2]]

KeyOf(list, place) == Concat(list[place[1]].name, SchemeAt(list, place).name)

Last(places) == CHOOSE i \in places : \A k \in places : k <= i

NoPolicy == 0
NoScheme == <<0, 0>>

\* get: undefined for a key that is not there; no name is one that objects inherit.
GetPolicy(list, policy) ==
    LET places == PolicyPlaces(list, policy)
    IN  IF places = {} THEN NoPolicy ELSE Last(places)

GetScheme(list, policy, scheme) ==
    LET places == {a \in SchemePlaces(list) : KeyOf(list, a) = Concat(policy, scheme)}
        i == Last({a[1] : a \in places})
    IN  IF places = {} THEN NoScheme ELSE <<i, Last({a[2] : a \in {b \in places : b[1] = i}})>>

-----------------------------------------------------------------------------

(***************************************************************************)
(* What the dictionaries' remarks take for granted, that a key is unique:  *)
(* no two policies, and no two schemes of one, have the same name, and no  *)
(* name reads as a joined key or as a null.                                *)
(***************************************************************************)
Plain(name) == name # <<"null">> /\ \A i \in 1..Len(name) : name[i] # ":"

NamesUnique(list) ==
    /\ \A i, k \in 1..Len(list) : list[i].name = list[k].name => i = k
    /\ \A a, b \in SchemePlaces(list) :
         a[1] = b[1] /\ SchemeAt(list, a).name = SchemeAt(list, b).name => a = b

NamesPlain(list, policy, scheme) ==
    /\ Plain(policy) /\ (scheme # Null => Plain(scheme))
    /\ \A i \in 1..Len(list) : Plain(list[i].name)
    /\ \A a \in SchemePlaces(list) : Plain(SchemeAt(list, a).name)

\* By name and without joining: the policy of that name, its scheme of that name.
IsNamed(list, policy, scheme, i, a) ==
    /\ i \in 1..Len(list) /\ list[i].name = policy
    /\ IF a = NoScheme
         THEN \A j \in 1..Len(list[i].schemes) : list[i].schemes[j].name # scheme
         ELSE a \in SchemePlaces(list) /\ a[1] = i /\ SchemeAt(list, a).name = scheme
=============================================================================
