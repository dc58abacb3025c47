--------------------------- MODULE Authentication ---------------------------
(***************************************************************************)
(* HmacAuthenticationHandler from the request to the endpoint: two lookups *)
(* of the policy, the application's OnValidateKeysAsync, VerifyAsync, the  *)
(* ticket, and the three ways an endpoint can require a policy and scheme. *)
(* The application meanwhile adds and removes policies at runtime and      *)
(* revokes keys.                                                           *)
(*                                                                         *)
(* What VerifyAsync does with dates and nonces is HmacVerification's; here *)
(* a signature stands for the keys it was made with and the scheme whose   *)
(* headers it covers.  The scheme a request names is not part of what was  *)
(* signed.                                                                 *)
(***************************************************************************)
EXTENDS Naturals, Sequences

CONSTANTS
    Requests, Policies, Schemes,
    NoPolicy,           \* what a lookup returns for a name that is not there
    NoScheme,           \* a null scheme
    EmptyScheme,        \* an empty string where a scheme is expected
    HeaderClaims,       \* claim lists a scheme's header values may give
    EventClaims,        \* claim lists OnAuthenticationSuccessAsync may give
    Registration,       \* the AddHmac that was called, see HandlerEvents
    MaxKeys             \* bound on the key pairs issued

ASSUME AuthenticationAssumption ==
    /\ NoScheme # EmptyScheme /\ {NoScheme, EmptyScheme} \cap Schemes = {}
    /\ HeaderClaims \cup EventClaims \subseteq Seq([type : STRING, value : Policies \cup Schemes])
    /\ NoPolicy \notin Policies
    /\ Registration \in {"action", "sectionWithEvents"}
    /\ MaxKeys \in Nat \ {0}

Keys == 1..MaxKeys
MaybeScheme == Schemes \cup {NoScheme}
NamedScheme == MaybeScheme \cup {EmptyScheme}
Policy == [keys : Keys, schemes : SUBSET Schemes]
ASSUME NoPolicyAssumption == NoPolicy \notin Policy

VARIABLES
    policies,       \* the singleton IHmacPolicyCollection
    revoked,        \* keys the application's OnValidateKeysAsync refuses
    pc,
    signed,         \* of each request: policy and scheme it names, keys and scheme it was signed with
    manager,        \* the policy its manager was created from
    context,        \* the policy of its authentication context
    approved,       \* for the properties: keys the application has found valid for it
    ticket          \* what the handler made of it

requestVars == <<pc, signed, manager, context, approved, ticket>>
vars == <<policies, revoked, requestVars>>

NoTicket == [claims |-> <<>>, properties |-> [policy |-> NoPolicy, scheme |-> NoScheme]]

-----------------------------------------------------------------------------
(* The application *)

AddPolicy(p, policy) ==
    /\ policies[p] = NoPolicy
    /\ policies' = [policies EXCEPT ![p] = policy]
    /\ UNCHANGED <<revoked, requestVars>>

RemovePolicy(p) ==
    /\ policies[p] # NoPolicy
    /\ policies' = [policies EXCEPT ![p] = NoPolicy]
    /\ UNCHANGED <<revoked, requestVars>>

Revoke(k) ==
    /\ k \notin revoked
    /\ revoked' = revoked \cup {k}
    /\ UNCHANGED <<policies, requestVars>>

(***************************************************************************)
(* The events the handler raises.  AddHmac(section, events) hands its      *)
(* AddHmacScheme a lambda that makes new options and drops them, so the    *)
(* handler's options keep the default events.                              *)
(***************************************************************************)
HandlerEvents == IF Registration = "action" THEN "application" ELSE "default"

-----------------------------------------------------------------------------
(* The handler *)

\* Hmac-Scheme is not in the signing content: it may name what was not signed.
Arrive(q, p, scheme, k, covers) ==
    /\ pc[q] = "waiting"
    /\ pc' = [pc EXCEPT ![q] = "arrived"]
    /\ signed' = [signed EXCEPT ![q] =
         [policy |-> p, scheme |-> scheme, keys |-> k, covers |-> covers]]
    /\ UNCHANGED <<policies, revoked, manager, context, approved, ticket>>

\* Factory.Create copies what it needs of the policy; null if there is none.
CreateManager(q) ==
    /\ pc[q] = "arrived"
    /\ manager' = [manager EXCEPT ![q] = policies[signed[q].policy]]
    /\ pc' = [pc EXCEPT ![q] = "managed"]
    /\ UNCHANGED <<policies, revoked, signed, context, approved, ticket>>

LookUpPolicy(q) ==
    /\ pc[q] = "managed"
    /\ context' = [context EXCEPT ![q] = policies[signed[q].policy]]
    /\ pc' = [pc EXCEPT ![q] = IF context'[q] = NoPolicy THEN "exception" ELSE "context"]
    /\ UNCHANGED <<policies, revoked, signed, manager, approved, ticket>>

Valid(k) == HandlerEvents = "default" \/ k \notin revoked

Approve(q, k) ==
    approved' = [approved EXCEPT ![q] = IF HandlerEvents = "application"
                                          THEN @ \cup {k} ELSE @]

\* Mutant: refused keys do not end the authentication.
ValidateKeysInVain(q) ==
    /\ pc[q] = "context"
    /\ IF Valid(context[q].keys) THEN Approve(q, context[q].keys) ELSE UNCHANGED approved
    /\ pc' = [pc EXCEPT ![q] = "validated"]
    /\ UNCHANGED <<policies, revoked, signed, manager, context, ticket>>

\* await OnValidateKeysAsync(context, policy's keys)
ValidateKeys(q) ==
    /\ pc[q] = "context"
    /\ \/ /\ Valid(context[q].keys)
          /\ Approve(q, context[q].keys)
          /\ pc' = [pc EXCEPT ![q] = "validated"]
       \/ /\ ~Valid(context[q].keys)
          /\ pc' = [pc EXCEPT ![q] = "failed"]
          /\ UNCHANGED approved
    /\ UNCHANGED <<policies, revoked, signed, manager, context, ticket>>

\* No scheme, an empty one and one the policy does not know are verified without headers.
SchemeOf(policy, scheme) == IF scheme \in policy.schemes THEN scheme ELSE NoScheme

\* Mutant: the signature does not cover the scheme's headers.
VerifiesKeysOnly(policy, request) == policy.keys = request.keys

Verifies(policy, request) ==
    /\ policy.keys = request.keys
    /\ SchemeOf(policy, request.scheme) = request.covers

Claim(type, value) == [type |-> type, value |-> value]

\* Claims of others come first; in the scheme's claim null becomes an empty string.
CreateClaims(request, ofHeaders, ofEvent) ==
    ofHeaders \o ofEvent \o
    <<Claim("policy", request.policy),
      Claim("scheme", IF request.scheme = NoScheme THEN EmptyScheme ELSE request.scheme)>>

\* Only a scheme's headers give claims, and only the application's events do.
ClaimsOfHeaders(q) ==
    IF SchemeOf(manager[q], signed[q].scheme) = NoScheme THEN {<<>>} ELSE HeaderClaims
ClaimsOfEvent == IF HandlerEvents = "application" THEN EventClaims ELSE {<<>>}

\* Mutant: a ticket without properties.
TicketWithoutProperties(q, claims) ==
    [claims |-> claims, properties |-> NoTicket.properties]

SuccessTicket(q, claims) ==
    [claims |-> claims,
     properties |-> [policy |-> signed[q].policy, scheme |-> signed[q].scheme]]

\* context.HmacManager!.VerifyAsync, then the ticket.
Verify(q) ==
    /\ pc[q] = "validated"
    /\ \/ /\ manager[q] = NoPolicy
          /\ pc' = [pc EXCEPT ![q] = "exception"]
          /\ UNCHANGED ticket
       \/ /\ manager[q] # NoPolicy /\ Verifies(manager[q], signed[q])
          /\ pc' = [pc EXCEPT ![q] = "granted"]
          /\ \E ofHeaders \in ClaimsOfHeaders(q), ofEvent \in ClaimsOfEvent :
               ticket' = [ticket EXCEPT ![q] =
                 SuccessTicket(q, CreateClaims(signed[q], ofHeaders, ofEvent))]
       \/ /\ manager[q] # NoPolicy /\ ~Verifies(manager[q], signed[q])
          /\ pc' = [pc EXCEPT ![q] = "failed"]
          /\ UNCHANGED ticket
    /\ UNCHANGED <<policies, revoked, signed, manager, context, approved>>

-----------------------------------------------------------------------------
(* What an endpoint can require: a policy, and a scheme, an empty one or NoScheme *)

\* Mutant: a scheme that is not required must not be there.
MatchesExactly(policy, scheme, requiredPolicy, requiredScheme) ==
    policy = requiredPolicy /\ requiredScheme = scheme

IsMatch(policy, scheme, requiredPolicy, requiredScheme) ==
    policy = requiredPolicy /\ requiredScheme \in {NoScheme, scheme}

\* [HmacAuthenticate] as a filter asks the ticket's properties; without any it admits.
AttributeAllows(t, requiredPolicy, requiredScheme) ==
    \/ t.properties.policy = NoPolicy
    \/ IsMatch(t.properties.policy, t.properties.scheme, requiredPolicy, requiredScheme)

Positions(claims, type) == {i \in DOMAIN claims : claims[i].type = type}

FindFirst(claims, type) ==
    claims[CHOOSE i \in Positions(claims, type) :
             \A j \in Positions(claims, type) : i <= j].value

\* As a requirement it asks the identity's first claims; a ticket has both.
RequirementAllows(t, requiredPolicy, requiredScheme) ==
    IsMatch(FindFirst(t.claims, "policy"), FindFirst(t.claims, "scheme"),
            requiredPolicy, requiredScheme)

HasClaim(t, type, value) == \E i \in Positions(t.claims, type) : t.claims[i].value = value

\* RequireHmacAuthentication asks for any claim; an empty scheme requires nothing.
PolicyBuilderAllows(t, requiredPolicy, requiredScheme) ==
    /\ HasClaim(t, "policy", requiredPolicy)
    /\ requiredScheme \in {NoScheme, EmptyScheme} \/ HasClaim(t, "scheme", requiredScheme)

-----------------------------------------------------------------------------

Init ==
    /\ policies \in [Policies -> [keys : {1}, schemes : SUBSET Schemes] \cup {NoPolicy}]
    /\ revoked = {}
    /\ pc = [q \in Requests |-> "waiting"]
    \* Arrive sets these.
    /\ \E p \in Policies :
         signed = [q \in Requests |-> [policy |-> p, scheme |-> NoScheme, keys |-> 1,
                                      covers |-> NoScheme]]
    /\ manager = [q \in Requests |-> NoPolicy]
    /\ context = [q \in Requests |-> NoPolicy]
    /\ approved = [q \in Requests |-> {}]
    /\ ticket = [q \in Requests |-> NoTicket]

Handle(q) == CreateManager(q) \/ LookUpPolicy(q) \/ ValidateKeys(q) \/ Verify(q)

Next ==
    \/ \E p \in Policies :
         \/ \E k \in Keys, schemes \in SUBSET Schemes :
              AddPolicy(p, [keys |-> k, schemes |-> schemes])
         \/ RemovePolicy(p)
    \/ \E k \in Keys : Revoke(k)
    \/ \E q \in Requests, p \in Policies, scheme \in NamedScheme, k \in Keys,
          covers \in MaybeScheme : Arrive(q, p, scheme, k, covers)
    \/ \E q \in Requests : Handle(q)

Spec == Init /\ [][Next]_vars

-----------------------------------------------------------------------------

TypeOK ==
    /\ policies \in [Policies -> Policy \cup {NoPolicy}]
    /\ revoked \subseteq Keys
    /\ pc \in [Requests -> {"waiting", "arrived", "managed", "context", "validated",
                            "granted", "failed", "exception"}]
    /\ signed \in [Requests -> [policy : Policies, scheme : NamedScheme, keys : Keys,
                             covers : MaybeScheme]]
    /\ manager \in [Requests -> Policy \cup {NoPolicy}]
    /\ context \in [Requests -> Policy \cup {NoPolicy}]
    /\ approved \in [Requests -> SUBSET Keys]
    /\ \A q \in Requests : pc[q] = "granted" => ticket[q].properties.policy \in Policies

\* The policy was replaced by one with other keys between the provider's two lookups.
KeysReplaced(q) == manager[q].keys # context[q].keys

(***************************************************************************)
(* A request is let in only with keys the application was asked about, for *)
(* this request, and found valid: those its signature was verified with.   *)
(* The one way past the question is a policy whose keys were replaced      *)
(* between the two lookups.                                                *)
(***************************************************************************)
GrantedKeysApproved ==
    \A q \in Requests :
      pc[q] = "granted" => manager[q].keys \in approved[q] \/ KeysReplaced(q)

\* Header values or the application's event gave a claim of the handler's own types.
OwnTypesReused(q) ==
    \E type \in {"policy", "scheme"} :
      \E i, j \in Positions(ticket[q].claims, type) : i # j

(***************************************************************************)
(* Whichever way an endpoint states what it requires, it admits the same   *)
(* requests, if the scheme it requires is not an empty string (the         *)
(* attribute refuses that where a request names none, the policy builder   *)
(* takes it for no requirement) and nobody else made claims of these types.*)
(***************************************************************************)
GatesAgree ==
    \A q \in Requests, p \in Policies, s \in MaybeScheme :
      pc[q] = "granted" /\ ~OwnTypesReused(q) =>
        /\ AttributeAllows(ticket[q], p, s) = RequirementAllows(ticket[q], p, s)
        /\ AttributeAllows(ticket[q], p, s) = PolicyBuilderAllows(ticket[q], p, s)

\* The policy the manager was made of has no such scheme: nothing of it is verified.
SchemeUnknown(q, s) == s \notin manager[q].schemes

(***************************************************************************)
(* An endpoint that requires a scheme admits only requests whose signature *)
(* covers that scheme's headers, though Hmac-Scheme itself is unsigned and *)
(* schemes come and go at runtime.  The exception is a scheme the policy   *)
(* does not know: its name reaches the ticket unverified.                  *)
(***************************************************************************)
RequiredSchemeVerified ==
    \A q \in Requests, p \in Policies, s \in Schemes :
      pc[q] = "granted" /\ AttributeAllows(ticket[q], p, s) =>
        signed[q].covers = s \/ SchemeUnknown(q, s)
=============================================================================
