------------------------ MODULE AuthenticationProofs ------------------------
(***************************************************************************)
(* Theorems of Authentication, for any policies, schemes, keys and numbers *)
(* of requests, and any changes of policies while requests are handled.    *)
(***************************************************************************)
EXTENDS Authentication, SequenceTheorems, TLAPS

USE AuthenticationAssumption, NoPolicyAssumption

(***************************************************************************)
(* The inductive invariant.  Types, and of each request what its stage     *)
(* says of its past: keys were validated before VerifyAsync, VerifyAsync   *)
(* found the signature good before there was a ticket, and the ticket says *)
(* what the request said, after the claims of others.                      *)
(***************************************************************************)
Types ==
    /\ policies \in [Policies -> Policy \cup {NoPolicy}]
    /\ revoked \subseteq Keys
    /\ pc \in [Requests -> {"waiting", "arrived", "managed", "context", "validated",
                            "granted", "failed", "exception"}]
    /\ signed \in [Requests -> [policy : Policies, scheme : NamedScheme, keys : Keys,
                             covers : MaybeScheme]]
    /\ manager \in [Requests -> Policy \cup {NoPolicy}]
    /\ context \in [Requests -> Policy \cup {NoPolicy}]
    /\ approved \in [Requests -> SUBSET Keys]
    /\ DOMAIN ticket = Requests

\* The ticket of request q, made with some claims of others.
Ticketed(q) ==
    \E ofHeaders \in HeaderClaims \cup {<<>>}, ofEvent \in EventClaims \cup {<<>>} :
      ticket[q] = SuccessTicket(q, CreateClaims(signed[q], ofHeaders, ofEvent))

Validated ==
    \A q \in Requests :
      /\ pc[q] \in {"context", "validated", "granted"} => context[q] # NoPolicy
      /\ pc[q] \in {"validated", "granted"} /\ HandlerEvents = "application" =>
           context[q].keys \in approved[q]

Granted ==
    \A q \in Requests :
      pc[q] = "granted" =>
        /\ manager[q] # NoPolicy /\ Verifies(manager[q], signed[q])
        /\ Ticketed(q)

IInv == Types /\ Validated /\ Granted

LEMMA IInvInit == Init => IInv
<1> SUFFICES ASSUME Init PROVE IInv
  OBVIOUS
<1>1. 1 \in Keys
  BY DEF Keys
<1>2. PICK p \in Policies :
        signed = [q \in Requests |-> [policy |-> p, scheme |-> NoScheme, keys |-> 1,
                                      covers |-> NoScheme]]
  BY DEF Init
<1>3. policies \in [Policies -> Policy \cup {NoPolicy}]
  <2>1. [keys : {1}, schemes : SUBSET Schemes] \subseteq Policy
    BY <1>1 DEF Policy
  <2> QED BY <2>1 DEF Init
<1>4. signed \in [Requests -> [policy : Policies, scheme : NamedScheme, keys : Keys,
                               covers : MaybeScheme]]
  BY <1>1, <1>2 DEF MaybeScheme, NamedScheme
<1>5. Types
  BY <1>3, <1>4 DEF Init, Types
<1>6. Validated /\ Granted
  BY DEF Init, Validated, Granted
<1> QED BY <1>5, <1>6 DEF IInv

(***************************************************************************)
(* A step of one request leaves the others as they are.                    *)
(***************************************************************************)
LEMMA OthersKeep ==
    ASSUME Types, NEW q \in Requests, NEW r \in Requests, r # q,
           \/ Handle(q)
           \/ \E p \in Policies, scheme \in NamedScheme, k \in Keys, covers \in MaybeScheme :
                Arrive(q, p, scheme, k, covers)
    PROVE  UNCHANGED <<pc[r], signed[r], manager[r], context[r], approved[r], ticket[r]>>
BY DEF Types, Handle, Arrive, CreateManager, LookUpPolicy, ValidateKeys, Approve, Verify

(***************************************************************************)
(* What Validated and Granted say of one request, so that a step need be   *)
(* looked at for its own request only.                                     *)
(***************************************************************************)
Own(q) ==
    /\ pc[q] \in {"context", "validated", "granted"} => context[q] # NoPolicy
    /\ pc[q] \in {"validated", "granted"} /\ HandlerEvents = "application" =>
         context[q].keys \in approved[q]
    /\ pc[q] = "granted" =>
        /\ manager[q] # NoPolicy /\ Verifies(manager[q], signed[q])
        /\ Ticketed(q)

LEMMA OwnKept ==
    ASSUME NEW q \in Requests, Own(q), UNCHANGED requestVars
    PROVE  Own(q)'
<1>1. UNCHANGED <<pc, signed, manager, context, approved, ticket>>
  BY DEF requestVars
<1>2. Ticketed(q)' = Ticketed(q)
  BY <1>1 DEF Ticketed, SuccessTicket, CreateClaims
<1> QED BY <1>1, <1>2 DEF Own

LEMMA IInvStep == IInv /\ [Next]_vars => IInv'
<1> SUFFICES ASSUME IInv, [Next]_vars PROVE IInv'
  OBVIOUS
<1> USE DEF IInv
<1>0. \A q \in Requests : Own(q)
  BY DEF Own, Validated, Granted
<1>a. SUFFICES Types' /\ \A r \in Requests : Own(r)'
  BY DEF Own, Validated, Granted
<1>1. ASSUME NEW p \in Policies, NEW k \in Keys, NEW schemes \in SUBSET Schemes,
             AddPolicy(p, [keys |-> k, schemes |-> schemes])
      PROVE  Types' /\ \A r \in Requests : Own(r)'
  <2>1. [keys |-> k, schemes |-> schemes] \in Policy
    BY DEF Policy
  <2>2. Types'
    BY <1>1, <2>1 DEF Types, AddPolicy, requestVars
  <2>3. \A r \in Requests : Own(r)'
    BY <1>0, <1>1, OwnKept DEF AddPolicy
  <2> QED BY <2>2, <2>3
<1>2. ASSUME NEW p \in Policies, RemovePolicy(p)
      PROVE  Types' /\ \A r \in Requests : Own(r)'
  <2>1. Types'
    BY <1>2 DEF Types, RemovePolicy, requestVars
  <2>2. \A r \in Requests : Own(r)'
    BY <1>0, <1>2, OwnKept DEF RemovePolicy
  <2> QED BY <2>1, <2>2
<1>3. ASSUME NEW k \in Keys, Revoke(k)
      PROVE  Types' /\ \A r \in Requests : Own(r)'
  <2>1. Types'
    BY <1>3 DEF Types, Revoke, requestVars
  <2>2. \A r \in Requests : Own(r)'
    BY <1>0, <1>3, OwnKept DEF Revoke
  <2> QED BY <2>1, <2>2
<1>4. ASSUME NEW q \in Requests,
             NEW r \in Requests, r # q,
             \/ Handle(q)
             \/ \E p \in Policies, scheme \in NamedScheme, k \in Keys, covers \in MaybeScheme :
                  Arrive(q, p, scheme, k, covers)
      PROVE  Own(r)'
  <2>1. UNCHANGED <<pc[r], signed[r], manager[r], context[r], approved[r], ticket[r]>>
    BY <1>4, OthersKeep
  <2>2. Ticketed(r)' = Ticketed(r)
    BY <2>1 DEF Ticketed, SuccessTicket, CreateClaims
  <2> QED BY <1>0, <2>1, <2>2 DEF Own
<1>5. ASSUME NEW q \in Requests, NEW p \in Policies, NEW scheme \in NamedScheme, NEW k \in Keys,
             NEW covers \in MaybeScheme, Arrive(q, p, scheme, k, covers)
      PROVE  Types' /\ \A r \in Requests : Own(r)'
  <2>1. Types'
    BY <1>5 DEF Types, Arrive
  <2>2. Own(q)'
    BY <1>5 DEF Own, Arrive, Types
  <2> QED BY <1>4, <1>5, <2>1, <2>2
<1>6. ASSUME NEW q \in Requests, CreateManager(q)
      PROVE  Types' /\ \A r \in Requests : Own(r)'
  <2>1. policies[signed[q].policy] \in Policy \cup {NoPolicy}
    BY DEF Types
  <2>2. Types'
    BY <1>6, <2>1 DEF Types, CreateManager
  <2>3. Own(q)'
    BY <1>6 DEF Own, CreateManager, Types
  <2> QED BY <1>4, <1>6, <2>2, <2>3 DEF Handle
<1>7. ASSUME NEW q \in Requests, LookUpPolicy(q)
      PROVE  Types' /\ \A r \in Requests : Own(r)'
  <2>1. policies[signed[q].policy] \in Policy \cup {NoPolicy}
    BY DEF Types
  <2>2. Types'
    BY <1>7, <2>1 DEF Types, LookUpPolicy
  <2>3. Own(q)'
    BY <1>7 DEF Own, LookUpPolicy, Types
  <2> QED BY <1>4, <1>7, <2>2, <2>3 DEF Handle
<1>8. ASSUME NEW q \in Requests, ValidateKeys(q)
      PROVE  Types' /\ \A r \in Requests : Own(r)'
  <2>1. context[q] # NoPolicy /\ context[q] \in Policy
    BY <1>0, <1>8 DEF Own, ValidateKeys, Types
  <2>2. context[q].keys \in Keys
    BY <2>1 DEF Policy
  <2>3. Types'
    <3>1. approved' \in [Requests -> SUBSET Keys]
      BY <1>8, <2>2 DEF Types, ValidateKeys, Approve
    <3>2. pc' \in [Requests -> {"waiting", "arrived", "managed", "context", "validated",
                               "granted", "failed", "exception"}]
      BY <1>8 DEF Types, ValidateKeys
    <3> QED BY <1>8, <3>1, <3>2 DEF Types, ValidateKeys
  <2>4. Own(q)'
    BY <1>8, <2>1 DEF Own, ValidateKeys, Approve, Types
  <2> QED BY <1>4, <1>8, <2>3, <2>4 DEF Handle
<1>9. ASSUME NEW q \in Requests, Verify(q)
      PROVE  Types' /\ \A r \in Requests : Own(r)'
  <2>1. Types'
    BY <1>9 DEF Types, Verify
  <2>2. pc'[q] = "granted" =>
          /\ manager[q] # NoPolicy /\ Verifies(manager[q], signed[q])
          /\ Ticketed(q)'
    <3> SUFFICES ASSUME pc'[q] = "granted"
                 PROVE  /\ manager[q] # NoPolicy /\ Verifies(manager[q], signed[q])
                        /\ Ticketed(q)'
      OBVIOUS
    <3>1. PICK ofHeaders \in ClaimsOfHeaders(q), ofEvent \in ClaimsOfEvent :
            ticket' = [ticket EXCEPT ![q] =
              SuccessTicket(q, CreateClaims(signed[q], ofHeaders, ofEvent))]
      BY <1>9 DEF Verify, Types
    <3>2. ofHeaders \in HeaderClaims \cup {<<>>} /\ ofEvent \in EventClaims \cup {<<>>}
      BY DEF ClaimsOfHeaders, ClaimsOfEvent
    <3>3. ticket'[q] = SuccessTicket(q, CreateClaims(signed[q], ofHeaders, ofEvent))
      BY <3>1 DEF Types
    <3>4. signed' = signed
      BY <1>9 DEF Verify
    <3>5. Ticketed(q)'
      BY <3>2, <3>3, <3>4 DEF Ticketed, SuccessTicket, CreateClaims
    <3> QED BY <1>9, <3>5 DEF Verify, Types
  <2>3. Own(q)'
    BY <1>0, <1>9, <2>2 DEF Own, Verify, Types
  <2> QED BY <1>4, <1>9, <2>1, <2>3 DEF Handle
<1>10. CASE UNCHANGED vars
  <2>1. Types'
    BY <1>10 DEF Types, vars, requestVars
  <2>2. \A r \in Requests : Own(r)'
    BY <1>0, <1>10, OwnKept DEF vars
  <2> QED BY <2>1, <2>2
<1> QED
  BY <1>1, <1>2, <1>3, <1>5, <1>6, <1>7, <1>8, <1>9, <1>10 DEF Next, Handle

LEMMA IInvAlways == Spec => []IInv
BY IInvInit, IInvStep, PTL DEF Spec

-----------------------------------------------------------------------------

(***************************************************************************)
(* Type correctness: a lookup's result is a policy or none, and a request  *)
(* that was let in has a ticket which names a policy.                      *)
(***************************************************************************)
THEOREM AuthenticationTypeCorrect == Spec => []TypeOK
<1>1. IInv => TypeOK
  BY DEF IInv, Types, Granted, TypeOK, Ticketed, SuccessTicket
<1> QED BY <1>1, IInvAlways, PTL

(***************************************************************************)
(* Where the events the application registered are the handler's, the keys *)
(* a request was let in with were put to OnValidateKeysAsync for it and    *)
(* found valid, or the policy was replaced between two lookups.            *)
(***************************************************************************)
THEOREM KeysApproved ==
    ASSUME Registration = "action"
    PROVE  Spec => []GrantedKeysApproved
<1>1. HandlerEvents = "application"
  BY DEF HandlerEvents
<1>2. IInv => GrantedKeysApproved
  BY <1>1 DEF IInv, Validated, GrantedKeysApproved, KeysReplaced
<1> QED BY <1>2, IInvAlways, PTL

(***************************************************************************)
(* A list with two elements appended.                                      *)
(***************************************************************************)
LEMMA TwoAppended ==
    ASSUME NEW S, NEW list \in Seq(S), NEW a, NEW b
    PROVE  /\ DOMAIN (list \o <<a, b>>) = 1..(Len(list) + 2)
           /\ \A i \in 1..Len(list) : (list \o <<a, b>>)[i] = list[i]
           /\ (list \o <<a, b>>)[Len(list) + 1] = a
           /\ (list \o <<a, b>>)[Len(list) + 2] = b
<1> DEFINE T == S \cup {a, b}
           last == <<a, b>>
<1>1. list \in Seq(T) /\ Len(list) \in Nat
  <2>1. \A i \in 1..Len(list) : list[i] \in T
    OBVIOUS
  <2> QED BY <2>1
<1>2. last \in Seq(T) /\ Len(last) = 2 /\ last[1] = a /\ last[2] = b
  <2>1. a \in T /\ b \in T
    OBVIOUS
  <2> HIDE DEF T
  <2> QED BY <2>1
<1> HIDE DEF T, last
<1>3. /\ DOMAIN (list \o last) = 1..(Len(list) + 2)
      /\ \A i \in 1..Len(list) : (list \o last)[i] = list[i]
      /\ (list \o last)[Len(list) + 1] = last[1]
      /\ (list \o last)[Len(list) + 2] = last[2]
  <2>1. /\ Len(list \o last) = Len(list) + 2
        /\ list \o last \in Seq(T)
        /\ \A i \in 1..(Len(list) + 2) : (list \o last)[i] =
                    IF i <= Len(list) THEN list[i] ELSE last[i - Len(list)]
    <3>1. list \in Seq(T) /\ last \in Seq(T)
      BY <1>1, <1>2
    <3>2. /\ list \o last \in Seq(T)
          /\ Len(list \o last) = Len(list) + Len(last)
          /\ \A i \in 1..(Len(list) + Len(last)) : (list \o last)[i] =
                      IF i <= Len(list) THEN list[i] ELSE last[i - Len(list)]
      BY <3>1, ConcatProperties
    <3> QED BY <1>2, <3>2
  <2> QED BY <1>1, <2>1
<1> QED BY <1>2, <1>3 DEF last

(***************************************************************************)
(* The claims of a ticket are those of others, then the policy, then the   *)
(* scheme.                                                                 *)
(***************************************************************************)
LEMMA ClaimsAre ==
    ASSUME IInv, NEW q \in Requests, pc[q] = "granted"
    PROVE  \E others \in Seq([type : STRING, value : Policies \cup Schemes]) :
             LET claims == CreateClaims(signed[q], others, <<>>)
                 n      == Len(others)
             IN  /\ ticket[q] = SuccessTicket(q, claims)
                 /\ DOMAIN claims = 1..(n + 2) /\ n \in Nat
                 /\ \A i \in 1..n : claims[i] = others[i]
                 /\ claims[n + 1] = Claim("policy", signed[q].policy)
                 /\ claims[n + 2] =
                      Claim("scheme", IF signed[q].scheme = NoScheme
                                        THEN EmptyScheme ELSE signed[q].scheme)
<1> DEFINE Lists == Seq([type : STRING, value : Policies \cup Schemes])
<1>1. PICK ofHeaders \in HeaderClaims \cup {<<>>}, ofEvent \in EventClaims \cup {<<>>} :
        ticket[q] = SuccessTicket(q, CreateClaims(signed[q], ofHeaders, ofEvent))
  BY DEF IInv, Granted, Ticketed
<1>2. ofHeaders \in Lists /\ ofEvent \in Lists
  <2>1. <<>> \in Lists
    OBVIOUS
  <2>2. HeaderClaims \subseteq Lists /\ EventClaims \subseteq Lists
    BY DEF AuthenticationAssumption
  <2> QED BY <2>1, <2>2
<1> DEFINE others == ofHeaders \o ofEvent
           n == Len(others)
           last == <<Claim("policy", signed[q].policy),
                     Claim("scheme", IF signed[q].scheme = NoScheme
                                       THEN EmptyScheme ELSE signed[q].scheme)>>
<1>3. others \in Lists /\ n \in Nat
  BY <1>2
<1>4. CreateClaims(signed[q], ofHeaders, ofEvent) = others \o last
  BY DEF CreateClaims
<1>5. others \o <<>> = others
  BY <1>3
<1>6. CreateClaims(signed[q], others, <<>>) = others \o last
  BY <1>5 DEF CreateClaims
<1>7. /\ DOMAIN (others \o last) = 1..(n + 2)
      /\ \A i \in 1..n : (others \o last)[i] = others[i]
      /\ (others \o last)[n + 1] = last[1]
      /\ (others \o last)[n + 2] = last[2]
  <2> HIDE DEF others
  <2>1. last[1] = Claim("policy", signed[q].policy)
        /\ last[2] = Claim("scheme", IF signed[q].scheme = NoScheme
                                       THEN EmptyScheme ELSE signed[q].scheme)
    OBVIOUS
  <2> QED BY <1>3, <2>1, TwoAppended
<1> HIDE DEF others, last
<1>8. last[1] = Claim("policy", signed[q].policy)
      /\ last[2] = Claim("scheme", IF signed[q].scheme = NoScheme
                                     THEN EmptyScheme ELSE signed[q].scheme)
  BY DEF last
<1> QED BY <1>1, <1>3, <1>4, <1>6, <1>7, <1>8

(***************************************************************************)
(* Where the claims of others have other types, the gates find the policy  *)
(* and the scheme the request named.                                       *)
(***************************************************************************)
LEMMA WhatGatesRead ==
    ASSUME IInv, NEW q \in Requests, pc[q] = "granted"
    PROVE  /\ signed[q].policy \in Policies /\ signed[q].scheme \in NamedScheme
           /\ ticket[q].properties.policy = signed[q].policy
           /\ ticket[q].properties.scheme = signed[q].scheme
           /\ ~OwnTypesReused(q) =>
                LET named == IF signed[q].scheme = NoScheme THEN EmptyScheme ELSE signed[q].scheme
                IN  /\ FindFirst(ticket[q].claims, "policy") = signed[q].policy
                    /\ FindFirst(ticket[q].claims, "scheme") = named
                    /\ \A p : HasClaim(ticket[q], "policy", p) <=> p = signed[q].policy
                    /\ \A s : HasClaim(ticket[q], "scheme", s) <=> s = named
<1> DEFINE named == IF signed[q].scheme = NoScheme THEN EmptyScheme ELSE signed[q].scheme
<1>1. PICK others \in Seq([type : STRING, value : Policies \cup Schemes]) :
        LET claims == CreateClaims(signed[q], others, <<>>)
            n      == Len(others)
        IN  /\ ticket[q] = SuccessTicket(q, claims)
            /\ DOMAIN claims = 1..(n + 2) /\ n \in Nat
            /\ \A i \in 1..n : claims[i] = others[i]
            /\ claims[n + 1] = Claim("policy", signed[q].policy)
            /\ claims[n + 2] = Claim("scheme", named)
  BY ClaimsAre
<1> DEFINE claims == CreateClaims(signed[q], others, <<>>)
           n == Len(others)
<1>2. /\ ticket[q].claims = claims
      /\ ticket[q].properties.policy = signed[q].policy
      /\ ticket[q].properties.scheme = signed[q].scheme
  BY <1>1 DEF SuccessTicket
<1>3. signed[q].policy \in Policies /\ signed[q].scheme \in NamedScheme
  BY DEF IInv, Types
<1>4. ASSUME ~OwnTypesReused(q)
      PROVE  Positions(claims, "policy") = {n + 1} /\ Positions(claims, "scheme") = {n + 2}
  <2>1. n + 1 \in Positions(claims, "policy") /\ n + 2 \in Positions(claims, "scheme")
    BY <1>1 DEF Positions, Claim
  <2>2. \A type \in {"policy", "scheme"} : \A i, j \in Positions(claims, type) : i = j
    BY <1>2, <1>4 DEF OwnTypesReused
  <2> QED BY <2>1, <2>2
<1>5. claims[n + 1].value = signed[q].policy /\ claims[n + 2].value = named
  BY <1>1 DEF Claim
<1> HIDE DEF claims, n, named
<1>6. ASSUME NEW type, NEW i, Positions(claims, type) = {i}
      PROVE  /\ FindFirst(claims, type) = claims[i].value
             /\ \A v : HasClaim(ticket[q], type, v) <=> v = claims[i].value
  <2>1. i \in Nat
    BY <1>1, <1>6 DEF Positions, claims, n
  <2>2. (CHOOSE k \in Positions(claims, type) : \A j \in Positions(claims, type) : k <= j) = i
    BY <1>6, <2>1
  <2> QED BY <1>2, <1>6, <2>2 DEF FindFirst, HasClaim
<1>7. ~OwnTypesReused(q) =>
        /\ FindFirst(ticket[q].claims, "policy") = signed[q].policy
        /\ FindFirst(ticket[q].claims, "scheme") = named
        /\ \A p : HasClaim(ticket[q], "policy", p) <=> p = signed[q].policy
        /\ \A s : HasClaim(ticket[q], "scheme", s) <=> s = named
  <2> SUFFICES ASSUME ~OwnTypesReused(q)
               PROVE  /\ FindFirst(claims, "policy") = signed[q].policy
                      /\ FindFirst(claims, "scheme") = named
                      /\ \A p : HasClaim(ticket[q], "policy", p) <=> p = signed[q].policy
                      /\ \A s : HasClaim(ticket[q], "scheme", s) <=> s = named
    BY <1>2
  <2>1. Positions(claims, "policy") = {n + 1} /\ Positions(claims, "scheme") = {n + 2}
    BY <1>4
  <2>2. FindFirst(claims, "policy") = signed[q].policy
        /\ \A p : HasClaim(ticket[q], "policy", p) <=> p = signed[q].policy
    BY <2>1, <1>5, <1>6
  <2>3. FindFirst(claims, "scheme") = named
        /\ \A s : HasClaim(ticket[q], "scheme", s) <=> s = named
    BY <2>1, <1>5, <1>6
  <2> QED BY <2>2, <2>3
<1> QED BY <1>2, <1>3, <1>7 DEF named

(***************************************************************************)
(* The attribute, the requirement and the policy builder admit the same    *)
(* requests, whatever policy and scheme an endpoint requires, except for a *)
(* required empty scheme and where others' claims have the handler's types.*)
(***************************************************************************)
THEOREM GatesAlwaysAgree == Spec => []GatesAgree
<1>1. ASSUME IInv, NEW q \in Requests, pc[q] = "granted", ~OwnTypesReused(q),
             NEW p \in Policies, NEW s \in MaybeScheme
      PROVE  /\ AttributeAllows(ticket[q], p, s) = RequirementAllows(ticket[q], p, s)
             /\ AttributeAllows(ticket[q], p, s) = PolicyBuilderAllows(ticket[q], p, s)
  <2> DEFINE admits == IsMatch(signed[q].policy, signed[q].scheme, p, s)
             named == IF signed[q].scheme = NoScheme THEN EmptyScheme ELSE signed[q].scheme
  <2>0. s # EmptyScheme /\ (s # NoScheme => (s = named <=> s = signed[q].scheme))
    BY DEF MaybeScheme, AuthenticationAssumption
  <2>1. AttributeAllows(ticket[q], p, s) <=> admits
    BY <1>1, WhatGatesRead DEF AttributeAllows
  <2>2. RequirementAllows(ticket[q], p, s) <=> admits
    BY <1>1, <2>0, WhatGatesRead DEF RequirementAllows, IsMatch
  <2>3. PolicyBuilderAllows(ticket[q], p, s) <=> admits
    BY <1>1, <2>0, WhatGatesRead DEF PolicyBuilderAllows, IsMatch
  <2>4. /\ AttributeAllows(ticket[q], p, s) \in BOOLEAN
        /\ RequirementAllows(ticket[q], p, s) \in BOOLEAN
        /\ PolicyBuilderAllows(ticket[q], p, s) \in BOOLEAN
    BY DEF AttributeAllows, RequirementAllows, PolicyBuilderAllows, HasClaim, IsMatch
  <2> HIDE DEF admits
  <2> QED BY <2>1, <2>2, <2>3, <2>4
<1>2. IInv => GatesAgree
  BY <1>1 DEF GatesAgree
<1> QED BY <1>2, IInvAlways, PTL

(***************************************************************************)
(* A request that an endpoint admits for a scheme carries a signature over *)
(* the headers of that scheme, whatever Hmac-Scheme says and though        *)
(* policies lose and gain schemes while it is handled, unless the policy   *)
(* its manager was made of did not know that scheme.                       *)
(***************************************************************************)
THEOREM SchemeVerified == Spec => []RequiredSchemeVerified
<1>1. ASSUME IInv, NEW q \in Requests, pc[q] = "granted",
             NEW p \in Policies, NEW s \in Schemes, AttributeAllows(ticket[q], p, s)
      PROVE  signed[q].covers = s \/ SchemeUnknown(q, s)
  <2>1. SchemeOf(manager[q], signed[q].scheme) = signed[q].covers
    BY <1>1 DEF IInv, Granted, Verifies
  <2>2. s \in {NoScheme, signed[q].scheme}
    BY <1>1, WhatGatesRead DEF AttributeAllows, IsMatch
  <2>3. s = signed[q].scheme
    BY <2>2 DEF AuthenticationAssumption
  <2> QED BY <2>1, <2>3 DEF SchemeOf, SchemeUnknown
<1>2. IInv => RequiredSchemeVerified
  BY <1>1 DEF RequiredSchemeVerified
<1> QED BY <1>2, IInvAlways, PTL
=============================================================================
