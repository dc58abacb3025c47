---------------------------- MODULE ScriptClient ----------------------------
(***************************************************************************)
(* The JavaScript client: managers made from a list of policies, and calls *)
(* of sign that run concurrently on one event loop, possibly on the same   *)
(* Request.  A call runs from one await to the next without interruption;  *)
(* at every await other calls and the application can come in between: it  *)
(* adds headers, changes a policy's keys, fetches a request before its     *)
(* signing ended.                                                          *)
(*                                                                         *)
(* A nonce, and a date, is the call that drew it.  The value of a header   *)
(* the client adds is told by the call that added it.                      *)
(***************************************************************************)
EXTENDS ScriptPolicies

CONSTANTS
    Factories,      \* what the application gives the factory's constructor
    Requests,
    Values,         \* of custom headers
    Unsendable,     \* names with characters above U+00FF: btoa and append throw
    Undecodable,    \* private keys that atob or importKey refuses
    MaxCalls, MaxManagers,  \* bounds on the calls of sign, the managers created,
    MaxValues               \* and the values appended to a custom header

ASSUME ClientAssumption ==
    /\ Factories \subseteq [policies : Seq(Policy), consolidated : BOOLEAN]
    \* The keys of a policy are a pair.
    /\ \A f \in Factories : \A i \in 1..Len(f.policies) :
         f.policies[i].publicKey = f.policies[i].privateKey
    /\ Unsendable \subseteq Names /\ Undecodable \subseteq Keys
    /\ MaxCalls \in Nat /\ MaxManagers \in Nat /\ MaxValues \in Nat
    /\ Requests # {}

Calls == 1..MaxCalls

VARIABLES
    policies,       \* the application's policy objects, which the collection refers to
    consolidated,   \* isConsolidatedHeadersEnabled
    managers,       \* those created so far
    body,           \* of each Request: "none", "unread" or "used"
    custom,         \* of each Request: values of the custom headers
    added,          \* of each Request: the client's headers, see HmacHeaders
    sent,           \* what a fetch of the request took with it
    pc, by, on,     \* of each call: where it is, its manager, its Request
    context,        \* of each call: its signing content builder's context
    content,        \* of each call: its signingContent
    signature,      \* of each call: private key and content it was computed from
    touched         \* for the properties: calls whose signed headers the application
                    \* changed after they were read

requestVars == <<body, custom, added, sent>>
callVars == <<pc, by, on, context, content, signature, touched>>
vars == <<policies, consolidated, managers, requestVars, callVars>>

Elements(s) == {s[i] : i \in 1..Len(s)}

HmacHeaders == {"Authorization", "Hmac-Policy", "Hmac-Scheme", "Hmac-Nonce",
                "Hmac-DateRequested", "Hmac-Options"}

-----------------------------------------------------------------------------
(* The factory *)

\* HmacSignatureProvider; with an accessor it has the other content builder.
Provider == [publicKey : Keys, privateKey : Keys, signedHeaders : Seq(Headers),
             accessor : BOOLEAN]

Manager == [asked : Names \X MaybeName,     \* for the properties
            policy : Nat, scheme : Nat \X Nat, provider : Provider]

\* Mutant: the headers of a scheme that is not there.
ProviderUnchecked(i, a) ==
    [publicKey |-> policies[i].publicKey, privateKey |-> policies[i].privateKey,
     signedHeaders |-> IF a = NoScheme THEN Null ELSE SchemeAt(policies, a).headers,
     accessor |-> policies[i].accessor]

\* What the constructor copies: the keys, the headers, and which builder it is.
NewProvider(i, a) ==
    [publicKey |-> policies[i].publicKey, privateKey |-> policies[i].privateKey,
     signedHeaders |-> IF a = NoScheme THEN <<>> ELSE SchemeAt(policies, a).headers,
     accessor |-> policies[i].accessor]

\* What it refers to: the policy and the scheme.
NewManager(policy, scheme) ==
    LET i == GetPolicy(policies, policy)
        a == GetScheme(policies, policy, scheme)
    IN  [asked |-> <<policy, scheme>>, policy |-> i, scheme |-> a, provider |-> NewProvider(i, a)]

\* Mutant: the first policy stands in for one that is not there.
CreateAlways(policy, scheme) ==
    IF GetPolicy(policies, policy) = NoPolicy
      THEN <<[NewManager(policies[1].name, scheme) EXCEPT !.asked = <<policy, scheme>>]>>
      ELSE <<NewManager(policy, scheme)>>

\* create: null (no manager) without a matching policy, but not without a matching scheme.
Create(policy, scheme) ==
    IF GetPolicy(policies, policy) = NoPolicy THEN <<>> ELSE <<NewManager(policy, scheme)>>

CreateManager(policy, scheme) ==
    /\ Len(managers) < MaxManagers
    /\ managers' = managers \o Create(policy, scheme)
    /\ UNCHANGED <<policies, consolidated, requestVars, callVars>>

-----------------------------------------------------------------------------
(* The application *)

\* It gives a policy object new keys.
Rotate(i) ==
    LET key == policies[i].publicKey + 1
    IN  /\ key \in Keys
        /\ policies' = [policies EXCEPT ![i] = [@ EXCEPT !.publicKey = key, !.privateKey = key]]
        /\ UNCHANGED <<consolidated, managers, requestVars, callVars>>

ProviderOf(c) == managers[by[c]].provider

\* request.headers.append
AppendHeader(r, h, v) ==
    /\ Len(custom[r][h]) < MaxValues
    /\ custom' = [custom EXCEPT ![r][h] = Append(@, v)]
    /\ touched' = touched \cup
         {c \in Calls : /\ pc[c] \notin {"idle", "hashing"} /\ on[c] = r
                        /\ h \in Elements(ProviderOf(c).signedHeaders)}
    /\ UNCHANGED <<policies, consolidated, managers, body, added, sent,
                   pc, by, on, context, content, signature>>

\* A body can be sent once; the second fetch throws.
Fetch(r) ==
    /\ body[r] # "used"
    /\ sent[r] = <<>>
    /\ sent' = [sent EXCEPT ![r] = <<[custom |-> custom[r], added |-> added[r]]>>]
    /\ body' = [body EXCEPT ![r] = IF @ = "none" THEN "none" ELSE "used"]
    /\ UNCHANGED <<policies, consolidated, managers, custom, added, callVars>>

-----------------------------------------------------------------------------
(* A call of sign *)

(***************************************************************************)
(* sign, computeSignature and compute up to the first await: date, nonce,  *)
(* and a clone of the request, which throws once the body has been used.   *)
(***************************************************************************)
Sign(c, m, r) ==
    /\ pc[c] = "idle" /\ \A d \in 1..(c - 1) : pc[d] # "idle"
    /\ by' = [by EXCEPT ![c] = m]
    /\ on' = [on EXCEPT ![c] = r]
    /\ pc' = [pc EXCEPT ![c] = IF body[r] = "used" THEN "failure" ELSE "hashing"]
    /\ UNCHANGED <<policies, consolidated, managers, requestVars, context, content,
                   signature, touched>>

\* Mutant: the calls of a manager use one builder.
SharedBuilder(c) == CHOOSE d \in Calls : by[d] = by[c]

\* Whose builder the call fills: createBuilder makes one of its own.
CreateBuilder(c) == c

EmptyContext == [request |-> <<>>, contentHash |-> <<>>, nonce |-> <<>>, publicKey |-> <<>>,
                 signedHeaders |-> <<>>]

\* Of a clone's body; a body never changes, so the request stands for its bytes.
ContentHash(r) == IF body[r] = "none" THEN <<>> ELSE <<[bodyOf |-> r]>>

HeaderValues(values, signedHeaders) ==
    [i \in 1..Len(signedHeaders) |-> values[signedHeaders[i]]]

\* headers.get of a header without values is null.
MissingHeaders(values, signedHeaders) == \E h \in Elements(signedHeaders) : values[h] = <<>>

\* withRequest to withNonce on a builder's context.
Filled(builder, c) ==
    LET provider == ProviderOf(c)
    IN  [request |-> <<on[c]>>, contentHash |-> ContentHash(on[c]), nonce |-> <<c>>,
         publicKey |-> <<provider.publicKey>>,
         signedHeaders |-> IF provider.signedHeaders = <<>> THEN builder.signedHeaders
                           ELSE HeaderValues(custom[on[c]], provider.signedHeaders)]

\* build: what is joined; the nonce stands for the date as well.
Build(ctx) ==
    ctx.request \o ctx.nonce \o ctx.publicKey \o ctx.contentHash \o ctx.signedHeaders

\* Mutant: the exception is not caught.
BuildContentUncaught(c) ==
    LET b == CreateBuilder(c)
        provider == ProviderOf(c)
    IN  /\ pc[c] = "hashing"
        /\ ~MissingHeaders(custom[on[c]], provider.signedHeaders)
        /\ context' = [context EXCEPT ![b] = Filled(@, c)]
        /\ IF provider.accessor
             THEN /\ pc' = [pc EXCEPT ![c] = "accessing"]
                  /\ UNCHANGED content
             ELSE /\ pc' = [pc EXCEPT ![c] = "keying"]
                  /\ content' = [content EXCEPT ![c] = Build(context'[b])]
        /\ UNCHANGED <<policies, consolidated, managers, requestVars, by, on, signature, touched>>

(***************************************************************************)
(* The body is hashed.  The headers are read now and not when sign was     *)
(* called; a missing one throws, and sign gives a failure.                 *)
(***************************************************************************)
BuildContent(c) ==
    LET b == CreateBuilder(c)
        provider == ProviderOf(c)
    IN  /\ pc[c] = "hashing"
        /\ IF MissingHeaders(custom[on[c]], provider.signedHeaders)
             THEN /\ pc' = [pc EXCEPT ![c] = "failure"]
                  /\ UNCHANGED <<context, content>>
             ELSE /\ context' = [context EXCEPT ![b] = Filled(@, c)]
                  /\ IF provider.accessor
                       THEN /\ pc' = [pc EXCEPT ![c] = "accessing"]
                            /\ UNCHANGED content
                       ELSE /\ pc' = [pc EXCEPT ![c] = "keying"]
                            /\ content' = [content EXCEPT ![c] = Build(context'[b])]
        /\ UNCHANGED <<policies, consolidated, managers, requestVars, by, on, signature, touched>>

\* The application's signingContentAccessor reads the context and resolves, or rejects.
AccessorSettles(c) ==
    /\ pc[c] = "accessing"
    /\ \/ /\ content' = [content EXCEPT ![c] = Build(context[CreateBuilder(c)])]
          /\ pc' = [pc EXCEPT ![c] = "keying"]
       \/ /\ pc' = [pc EXCEPT ![c] = "failure"]
          /\ UNCHANGED content
    /\ UNCHANGED <<policies, consolidated, managers, requestVars, by, on, context, signature, touched>>

\* Mutant: the private key of the policy as it is now.
LiveKey(c) == policies[managers[by[c]].policy].privateKey

\* The private key given to SignatureBuilder: the one its provider was made with.
SigningKey(c) == ProviderOf(c).privateKey

\* atob and importKey of getKeyBytes
KeyImports(key) == key \notin Undecodable

\* build of SignatureBuilder: getKeyBytes, then getSignature
ComputeSignature(c) ==
    /\ pc[c] = "keying"
    /\ \/ /\ ~KeyImports(SigningKey(c))
          /\ pc' = [pc EXCEPT ![c] = "failure"]
          /\ UNCHANGED signature
       \/ /\ KeyImports(SigningKey(c))
          /\ pc' = [pc EXCEPT ![c] = "signed"]
          /\ signature' = [signature EXCEPT ![c] = <<SigningKey(c), content[c]>>]
    /\ UNCHANGED <<policies, consolidated, managers, requestVars, by, on, context, content, touched>>

-----------------------------------------------------------------------------
(* The headers of a signing *)

\* The hmac of a call: names of the policy and scheme of its manager.
Hmac(c) ==
    LET m == managers[by[c]]
    IN  [policy |-> policies[m.policy].name,
         scheme |-> IF m.scheme = NoScheme THEN Null ELSE SchemeAt(policies, m.scheme).name,
         nonce |-> c, signingContent |-> content[c], signature |-> signature[c],
         signedHeaders |-> m.provider.signedHeaders]

\* What HmacResultFactory makes of a call that has ended.
Result(c) == [isSuccess |-> pc[c] = "success",
              hmac |-> IF pc[c] = "success" THEN <<Hmac(c)>> ELSE <<>>]

\* What NonEmptyHeaderValues keeps: a null scheme has no header.
NamedHeaders(hmac) ==
    {"Authorization", "Hmac-Policy", "Hmac-Nonce", "Hmac-DateRequested"}
    \cup (IF hmac.scheme = Null THEN {} ELSE {"Hmac-Scheme"})

OptionsHeaders == {"Hmac-Options", "Authorization"}

\* build of the builder that HmacHeaderBuilderFactory creates.
BuiltHeaders(hmac) == IF consolidated THEN OptionsHeaders ELSE NamedHeaders(hmac)

(***************************************************************************)
(* Those that are on the request when addHeaders returns or throws.  With  *)
(* Hmac-Options a name that cannot be encoded throws in build, before any  *)
(* is; otherwise append throws at the policy's or the scheme's turn.       *)
(***************************************************************************)
AppendedHeaders(hmac) ==
    IF consolidated
      THEN IF Unsendable \cap {hmac.policy, hmac.scheme} # {} THEN {} ELSE OptionsHeaders
      ELSE IF hmac.policy \in Unsendable THEN {"Authorization"}
      ELSE IF hmac.scheme \in Unsendable THEN {"Authorization", "Hmac-Policy"}
      ELSE NamedHeaders(hmac)

\* Mutant: Authorization is set, the others are appended.
SetAuthorization(headers, names, c) ==
    [h \in HmacHeaders |-> IF h \notin names THEN headers[h]
                           ELSE IF h = "Authorization" THEN <<c>> ELSE Append(headers[h], c)]

\* headers.append keeps what an earlier signing has added.
AppendAll(headers, names, c) ==
    [h \in HmacHeaders |-> IF h \in names THEN Append(headers[h], c) ELSE headers[h]]

\* Mutant: what append throws is not noticed.
AddHeadersUnnoticed(c) ==
    /\ pc[c] = "signed"
    /\ added' = [added EXCEPT ![on[c]] = AppendAll(@, AppendedHeaders(Hmac(c)), c)]
    /\ pc' = [pc EXCEPT ![c] = "success"]
    /\ UNCHANGED <<policies, consolidated, managers, body, custom, sent, by, on, context,
                   content, signature, touched>>

\* addHeaders and the result: one step, for nothing is awaited.
AddHeaders(c) ==
    LET names == AppendedHeaders(Hmac(c))
    IN  /\ pc[c] = "signed"
        /\ added' = [added EXCEPT ![on[c]] = AppendAll(@, names, c)]
        /\ pc' = [pc EXCEPT ![c] = IF names = BuiltHeaders(Hmac(c)) THEN "success" ELSE "failure"]
        /\ UNCHANGED <<policies, consolidated, managers, body, custom, sent, by, on, context,
                       content, signature, touched>>

-----------------------------------------------------------------------------

Init ==
    /\ \E f \in Factories : policies = f.policies /\ consolidated = f.consolidated
    /\ managers = <<>>
    /\ body \in [Requests -> {"none", "unread"}]
    /\ custom = [r \in Requests |-> [h \in Headers |-> <<>>]]
    /\ added = [r \in Requests |-> [h \in HmacHeaders |-> <<>>]]
    /\ sent = [r \in Requests |-> <<>>]
    /\ pc = [c \in Calls |-> "idle"]
    \* Sign sets these.
    /\ by = [c \in Calls |-> 0]
    /\ on = [c \in Calls |-> CHOOSE r \in Requests : TRUE]
    /\ context = [c \in Calls |-> EmptyContext]
    /\ content = [c \in Calls |-> <<>>]
    /\ signature = [c \in Calls |-> <<>>]
    /\ touched = {}

Continue(c) ==
    BuildContent(c) \/ AccessorSettles(c) \/ ComputeSignature(c) \/ AddHeaders(c)

Next ==
    \/ \E policy \in Names, scheme \in MaybeName : CreateManager(policy, scheme)
    \/ \E i \in 1..Len(policies) : Rotate(i)
    \/ \E r \in Requests :
         \/ \E h \in Headers, v \in Values : AppendHeader(r, h, v)
         \/ Fetch(r)
    \/ \E c \in Calls :
         \/ \E m \in 1..Len(managers), r \in Requests : Sign(c, m, r)
         \/ Continue(c)

Spec == Init /\ [][Next]_vars

(***************************************************************************)
(* The event loop runs every continuation; streams and the application's   *)
(* accessors settle.                                                       *)
(***************************************************************************)
FairSpec == Spec /\ \A c \in Calls : WF_vars(Continue(c))

-----------------------------------------------------------------------------

Stages == {"idle", "hashing", "accessing", "keying", "signed", "success", "failure"}

\* A call that has the result of createBuilder...build().
Computed(c) == pc[c] \in {"keying", "signed", "success"}

TypeOK ==
    /\ policies \in Seq(Policy) /\ consolidated \in BOOLEAN
    /\ managers \in Seq(Manager)
    /\ \A m \in 1..Len(managers) : managers[m].policy \in 1..Len(policies)
    /\ body \in [Requests -> {"none", "unread", "used"}]
    /\ custom \in [Requests -> [Headers -> Seq(Values)]]
    /\ added \in [Requests -> [HmacHeaders -> Seq(Calls)]]
    /\ pc \in [Calls -> Stages] /\ by \in [Calls -> Nat] /\ on \in [Calls -> Requests]
    /\ \A c \in Calls : pc[c] # "idle" => by[c] \in 1..Len(managers)
    /\ touched \subseteq Calls

(***************************************************************************)
(* create looks a joined key up, and finds what the names mean: the policy *)
(* of that name, and its own scheme of that name, not another policy's or  *)
(* that of a policy which a later one of the same name has replaced.       *)
(***************************************************************************)
ManagerAsAsked ==
    \A m \in 1..Len(managers) :
      LET asked == managers[m].asked
      IN  NamesUnique(policies) /\ NamesPlain(policies, asked[1], asked[2]) =>
            IsNamed(policies, asked[1], asked[2], managers[m].policy, managers[m].scheme)

(***************************************************************************)
(* A signature's private key and the public key in its content are of one  *)
(* version, whenever the application changes the keys of the policy.       *)
(***************************************************************************)
KeysOfOneVersion ==
    \A c \in Calls :
      pc[c] \in {"signed", "success"} =>
        /\ signature[c][1] = ProviderOf(c).publicKey
        /\ signature[c][2] = content[c]

(***************************************************************************)
(* What a call signs is its own: its request, its nonce, its manager's     *)
(* key, and the values its headers still have unless the application has   *)
(* changed them after they were read - however many calls of one manager   *)
(* are between two awaits, and though an accessor reads its context late.  *)
(***************************************************************************)
ContentOfItsCall ==
    \A c \in Calls :
      Computed(c) /\ c \notin touched => content[c] = Build(Filled(EmptyContext, c))

\* A call with a name that append refuses, when other headers have been appended.
Refused(c) == ~consolidated /\ Unsendable \cap {Hmac(c).policy, Hmac(c).scheme} # {}

AlwaysAdded == IF consolidated THEN OptionsHeaders
               ELSE {"Authorization", "Hmac-Policy", "Hmac-Nonce", "Hmac-DateRequested"}

Signers(r) == Elements(added[r]["Authorization"])

(***************************************************************************)
(* A request has the headers of every call that succeeded on it and none   *)
(* of one that failed, and its several headers list the calls in the same  *)
(* order, so that signatures, nonces and dates belong together.  Only a    *)
(* name that append refuses half-way breaks this.                          *)
(***************************************************************************)
HeadersWhole ==
    \A r \in Requests :
      /\ \A c \in Calls : Result(c).isSuccess /\ on[c] = r => c \in Signers(r)
      /\ \A c \in Signers(r) : on[c] = r /\ (Result(c).isSuccess \/ Refused(c))
      /\ (\A c \in Signers(r) : ~Refused(c)) =>
           \A h \in AlwaysAdded : added[r][h] = added[r]["Authorization"]

\* What a server that knows the policy rebuilds from a message.
Rebuilt(message, c) ==
    [Filled(EmptyContext, c) EXCEPT
       !.signedHeaders = HeaderValues(message.custom, ProviderOf(c).signedHeaders)]

(***************************************************************************)
(* A message with one Authorization value, of a call that succeeded, has   *)
(* the other headers of that call, and the server rebuilds the content     *)
(* that was signed, with the key pair it was signed with, unless the       *)
(* application has changed a signed header since: also if it was fetched   *)
(* while other calls still ran.                                            *)
(***************************************************************************)
SentVerifies ==
    \A r \in Requests, c \in Calls :
      /\ sent[r] # <<>> /\ sent[r][1].added["Authorization"] = <<c>>
      /\ Result(c).isSuccess /\ c \notin touched
      => /\ \A h \in BuiltHeaders(Hmac(c)) : sent[r][1].added[h] = <<c>>
         /\ signature[c] = <<ProviderOf(c).publicKey, Build(Rebuilt(sent[r][1], c))>>

Outcome(c) == IF pc[c] \notin {"success", "failure"} THEN "none"
              ELSE IF Result(c).isSuccess THEN "success" ELSE "failure"

\* The header that is added last.
LastHeader == IF consolidated THEN "Authorization" ELSE "Hmac-DateRequested"

Atomic == INSTANCE AtomicSigning WITH
    outcome <- [c \in Calls |-> Outcome(c)],
    signers <- [r \in Requests |-> added[r][LastHeader]]

(***************************************************************************)
(* sign implements AtomicSigning, with every await in it.                  *)
(***************************************************************************)
SignsAtomically == Atomic!Spec

(***************************************************************************)
(* Every call of sign ends with a result; none ends in an exception.       *)
(***************************************************************************)
SignEnds == \A c \in Calls : pc[c] # "idle" ~> Outcome(c) # "none"
=============================================================================
