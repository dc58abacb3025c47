--------------------------- MODULE SignedRequest ---------------------------
(***************************************************************************)
(* One call of an application from SignAsync to the server's answer: the   *)
(* manager (or the JavaScript client) signs the request and adds its       *)
(* headers, a pipeline with retries sends it, proxies deliver it late,     *)
(* twice or altered, and the server parses the headers, rebuilds the       *)
(* signing content from the request it sees and compares.                  *)
(*                                                                         *)
(* A signature is the signing content it is computed over; two signatures  *)
(* are equal exactly when the contents are.  A text is the sequence of the *)
(* words that colons separate, so that joining texts with colons, which    *)
(* the builder does without escaping, is concatenation: the content does   *)
(* not say where one text ends and the next begins.                        *)
(***************************************************************************)
EXTENDS Naturals, SequencesExt

CONSTANTS
    Sites,              \* pairs of a client and a server, see below
    Words,              \* of the texts below
    Comma,              \* stands between two values of one header
    Target, Targets,    \* method, path and host of the call, and what they may be altered to
    Headers, Lines,     \* custom headers, and what their lines say; <<>> is a missing one
    Key,                \* the policy's public key
    Shapes,             \* bodies the application sends
    Lowercases,         \* TRUE: some hop lowercases header names, as HTTP/2 does
    Resigns,            \* TRUE: a retry encloses the signing, and not only the sending
    MaxAge,             \* the policy's window
    MaxAttempts, MaxTime    \* bounds on sends and the clock

AllShapes == {"none", "empty", "oneChunk", "manyChunks", "notText"}

(***************************************************************************)
(* A site: who signs ("dotnet" or "script"), the headers of the scheme the *)
(* client signs with, in order (<<>> for no scheme), those of the scheme   *)
(* the server finds under a message's Hmac-Scheme (<<>> for one that it    *)
(* does not know), and EnableConsolidatedHeaders.                          *)
(***************************************************************************)
ASSUME SignedRequestAssumption ==
    /\ \A s \in Sites :
         /\ s.client \in {"dotnet", "script"}
         /\ s.clientScheme \in Seq(Headers) /\ s.serverScheme \in Seq(Headers)
         /\ s.consolidated \in BOOLEAN
    /\ Target \in Targets /\ Targets \subseteq Seq(Words)
    /\ Lines \subseteq Seq(Words) /\ <<>> \in Lines
    /\ \A line \in Lines : line # <<>> => line[1] # Comma
    /\ Shapes \subseteq AllShapes
    /\ Lowercases \in BOOLEAN /\ Resigns \in BOOLEAN
    /\ MaxAge \in Nat \ {0} /\ MaxAttempts \in Nat /\ MaxTime \in Nat

VARIABLES
    site,       \* where the call is made
    now,
    step,       \* of the call: "built", "signed", "waiting", "answered", "threw"
    msg,        \* the HttpRequestMessage (or Request) the call works on
    attempts,   \* times it was sent; the nonce of a signature is the time it was made
    signings,
    wire,       \* the messages sent, each may be delivered any number of times
    nonces,     \* the nonces the server has recorded
    accepted,   \* for the properties: nonces of the messages the server let through
    signedAs,   \* for the properties: the request as it was at each signing
    last        \* the server's latest decision

vars == <<site, now, step, msg, attempts, signings, wire, nonces, accepted, signedAs, last>>

-----------------------------------------------------------------------------

Client == site.client
ClientScheme == site.clientScheme
ServerScheme == site.serverScheme

Elements(s) == {s[i] : i \in 1..Len(s)}

NoHash == <<>>

(***************************************************************************)
(* The hash of a body, one element of the signing content or none: all of  *)
(* its text; what the script computes, the bytes of the first chunk, which *)
(* is the same only for one chunk of text.                                 *)
(***************************************************************************)
WholeText(body) == <<<<"text", body.shape, body.version>>>>

\* Mutant: the client hashes the bytes, and the server still decodes text.
BytesHash(body) ==
    IF body.shape = "none" THEN NoHash
    ELSE IF body.shape = "notText" THEN <<<<"bytes", body.version>>>> ELSE WholeText(body)

DotnetHash(body) == IF body.shape = "none" THEN NoHash ELSE WholeText(body)

ScriptHash(body) ==
    IF body.shape \in {"none", "empty"} THEN NoHash
    ELSE IF body.shape = "oneChunk" THEN WholeText(body)
    ELSE <<<<"firstBytes", body.version>>>>

ClientHash(body) == IF Client = "dotnet" THEN DotnetHash(body) ELSE ScriptHash(body)

\* The server takes a body of no bytes for no body.
ServerHash(body) == IF body.shape \in {"none", "empty"} THEN NoHash ELSE WholeText(body)

FirstValue(line) ==
    IF Comma \in Elements(line)
      THEN SubSeq(line, 1, (CHOOSE i \in 1..Len(line) :
                             line[i] = Comma /\ Comma \notin Elements(SubSeq(line, 1, i - 1))) - 1)
      ELSE line

\* values.First() of the manager; Headers.get of the script joins them all.
Read(line) == IF Client = "dotnet" THEN FirstValue(line) ELSE line

HeaderValues(custom, scheme) == [i \in 1..Len(scheme) |-> custom[scheme[i]]]

MissingHeader(custom, scheme) == \E h \in Elements(scheme) : custom[h] = <<>>

\* Mutant: the values of the scheme's headers are left out.
ContentWithoutHeaders(target, date, hash, values, nonce) ==
    target \o <<<<"date", date>>, Key>> \o hash \o <<<<"nonce", nonce>>>>

\* SigningContentBuilder.Build: everything in order, with nothing but colons between.
SigningContent(target, date, hash, values, nonce) ==
    target \o <<<<"date", date>>, Key>> \o hash \o FlattenSeq(values) \o <<<<"nonce", nonce>>>>

\* Mutant: the date is rounded up.
RoundedUp(nonce, date) == [scheme |-> ClientScheme # <<>>, nonce |-> nonce, date |-> date + 1]

\* What the policy, scheme, nonce and date headers say.
Fields(nonce, date) == [scheme |-> ClientScheme # <<>>, nonce |-> nonce, date |-> date]

-----------------------------------------------------------------------------

(***************************************************************************)
(* AddRange, in the order of the builder's dictionary.  HttpRequestHeaders *)
(* refuses a second Authorization value with an exception; named headers   *)
(* come after it, Hmac-Options before it.  The script appends.             *)
(***************************************************************************)
HasAuthorization(m) == m.auth # <<>>

\* Build of the header builders: named headers, or one Hmac-Options.
Built(fields, signature) ==
    [auth |-> <<signature>>,
     named |-> IF site.consolidated THEN <<>> ELSE <<fields>>,
     options |-> IF site.consolidated THEN <<fields>> ELSE <<>>]

\* Mutant: the headers of an earlier signing are replaced.
Replaced(m, built) ==
    [m EXCEPT !.auth = built.auth, !.named = built.named, !.options = built.options]

WithHeaders(m, built) ==
    [m EXCEPT !.auth = @ \o built.auth, !.named = @ \o built.named,
              !.options = @ \o built.options]

\* What an AddRange that throws has added before.
WithPartOfHeaders(m, built) == [m EXCEPT !.options = @ \o built.options]

\* Mutant: a second Authorization value is no error.
ThrowsNever(m) == FALSE

AddRangeThrows(m) == Client = "dotnet" /\ HasAuthorization(m)

\* What a signature stands for: target, body, and the scheme's headers in order.
View(m, scheme) == [target |-> m.target,
                    body |-> IF m.body.shape = "empty" THEN [m.body EXCEPT !.shape = "none"]
                                                       ELSE m.body,
                    values |-> HeaderValues(m.custom, scheme)]

\* What the client reads of the scheme's headers.
ValuesRead(m) == [i \in 1..Len(ClientScheme) |-> Read(m.custom[ClientScheme[i]])]

\* What it reads of the request when it signs.
SignedView(m) == [View(m, ClientScheme) EXCEPT !.values = ValuesRead(m)]

Signature(m, nonce) ==
    SigningContent(m.target, now, ClientHash(m.body), ValuesRead(m), nonce)

(***************************************************************************)
(* SignAsync, or sign of the script: a header of the scheme that is        *)
(* missing is an exception; a nonce of its own for every signing.          *)
(***************************************************************************)
SignMessage ==
    LET nonce == signings + 1
        built == Built(Fields(nonce, now), Signature(msg, nonce))
    IN  IF MissingHeader(msg.custom, ClientScheme)
          THEN step' = "threw" /\ UNCHANGED <<msg, signings, signedAs>>
          ELSE /\ signings' = nonce
               /\ signedAs' = Append(signedAs, SignedView(msg))
               /\ IF AddRangeThrows(msg)
                    THEN /\ step' = "threw"
                         /\ msg' = WithPartOfHeaders(msg, built)
                    ELSE /\ step' = "signed"
                         /\ msg' = WithHeaders(msg, built)

Sign ==
    /\ step = "built"
    /\ SignMessage
    /\ UNCHANGED <<site, now, attempts, wire, nonces, accepted, last>>

\* base.SendAsync, the pipeline below the signing handler.
Send ==
    /\ step = "signed"
    /\ attempts < MaxAttempts
    /\ step' = "waiting"
    /\ attempts' = attempts + 1
    /\ wire' = wire \cup {msg}
    /\ UNCHANGED <<site, now, msg, signings, nonces, accepted, signedAs, last>>

\* No answer in time: a handler below the signing one sends the message again.
Resend ==
    /\ step = "waiting"
    /\ attempts < MaxAttempts
    /\ step' = "signed"
    /\ UNCHANGED <<site, now, msg, attempts, signings, wire, nonces, accepted, signedAs, last>>

\* No answer in time: a handler above it calls the signing handler again.
Resign ==
    /\ step = "waiting" /\ Resigns
    /\ attempts < MaxAttempts
    /\ SignMessage
    /\ UNCHANGED <<site, now, attempts, wire, nonces, accepted, last>>

-----------------------------------------------------------------------------

\* The policy, scheme, nonce and date headers, changed on the way.
Rewritten(fields, scheme, redated) ==
    [i \in 1..Len(fields) |-> [fields[i] EXCEPT !.scheme = scheme,
                                               !.date = IF redated THEN now ELSE @]]

\* Of the custom headers, those the server may read.
OtherLines(m) ==
    {[h \in Headers |-> IF h \in Elements(ServerScheme) THEN lines[h] ELSE m.custom[h]] :
       lines \in [Elements(ServerScheme) -> Lines]}

OtherBodies(m) ==
    {m.body, [shape |-> "oneChunk", version |-> 2], [shape |-> "none", version |-> 1]}

Changed(m, target, body, custom, scheme, redated) ==
    [m EXCEPT !.target = target, !.body = body, !.custom = custom,
              !.named = Rewritten(@, scheme, redated),
              !.options = Rewritten(@, scheme, redated)]

(***************************************************************************)
(* What can become of a message on its way: its target, body and custom    *)
(* headers are others, it names a scheme or none, it is dated anew; any of *)
(* these together.                                                         *)
(***************************************************************************)
Altered(m) ==
    {Changed(m, target, body, custom, scheme, redated) :
       target \in Targets, body \in OtherBodies(m), custom \in OtherLines(m),
       scheme \in BOOLEAN, redated \in BOOLEAN}

(***************************************************************************)
(* Where the fields are read from; <<>> if a parser throws.  The provider  *)
(* parses once with names in any case, VerifyAsync once more: there        *)
(* HmacOptionsHeaderParser looks Hmac-Options up in the case it came in.   *)
(***************************************************************************)
Parsed(m, lower) ==
    IF site.consolidated
      THEN IF Len(m.options) = 1 /\ ~lower THEN m.options ELSE <<>>
      ELSE IF Len(m.auth) = 1 /\ Len(m.named) = 1 THEN m.named ELSE <<>>

InWindow(date) == date <= now /\ now - date < MaxAge

\* HmacManagerFactory.Create: no scheme, or an unknown one, is verified without headers.
SchemeOf(fields) == IF fields.scheme THEN ServerScheme ELSE <<>>

\* HmacFactory.CreateAsync on the request as it arrived.
Rebuilt(m, fields) ==
    SigningContent(m.target, fields.date, ServerHash(m.body),
                   HeaderValues(m.custom, SchemeOf(fields)), fields.nonce)

Decision(m, fields, found) ==
    IF \/ MissingHeader(m.custom, SchemeOf(fields))
       \/ ~InWindow(fields.date)
       \/ found
       \/ m.auth[1] # Rebuilt(m, fields)
      THEN "failure" ELSE "success"

\* untouched: the message is as it was sent, in its window, and its nonce was not found.
Refused(outcome, untouched, lower) ==
    [outcome |-> outcome, untouched |-> untouched, lower |-> lower]

(***************************************************************************)
(* VerifyAsync on a message that reaches the server.  Whether a recorded   *)
(* nonce is found is not decided here: its entry may have expired, and     *)
(* other deliveries run between this one's lookup and record.              *)
(***************************************************************************)
Serve(m, lower, altered) ==
    LET parsed == Parsed(m, lower)
        fields == parsed[1]
    IN  \/ /\ parsed = <<>>
           /\ last' = Refused("exception", ~altered, lower)
           /\ UNCHANGED <<nonces, accepted>>
        \/ /\ parsed # <<>>
           /\ \E found \in IF fields.nonce \in nonces THEN BOOLEAN ELSE {FALSE} :
                IF Decision(m, fields, found) = "success"
                  THEN /\ last' = [outcome |-> "success", nonce |-> fields.nonce,
                                   view |-> View(m, SchemeOf(fields))]
                       /\ accepted' = accepted \cup {fields.nonce}
                  ELSE /\ last' = Refused("failure",
                              ~altered /\ InWindow(fields.date) /\ ~found, lower)
                       /\ UNCHANGED accepted
           /\ nonces' = IF MissingHeader(m.custom, SchemeOf(fields)) \/ ~InWindow(fields.date)
                          THEN nonces ELSE nonces \cup {fields.nonce}

\* A message is delivered; its answer may reach the call, or not.
Deliver(m, lower, arrived) ==
    /\ Serve(arrived, lower, arrived # m)
    /\ step' \in IF step = "waiting" THEN {"waiting", "answered"} ELSE {step}
    /\ UNCHANGED <<site, now, msg, attempts, signings, wire, signedAs>>

Tick ==
    /\ now < MaxTime
    /\ now' = now + 1
    /\ UNCHANGED <<site, step, msg, attempts, signings, wire, nonces, accepted, signedAs, last>>

-----------------------------------------------------------------------------

Bodies == [shape : Shapes, version : {1}]

NothingYet == [outcome |-> "none"]

Init ==
    /\ site \in Sites
    /\ now = 0 /\ step = "built"
    \* Headers that neither side reads are left out.
    /\ \E custom \in [Headers -> Lines], body \in Bodies :
         /\ \A h \in Headers \ (Elements(ClientScheme) \cup Elements(ServerScheme)) : custom[h] = <<>>
         /\ msg = [target |-> Target, body |-> body, custom |-> custom,
                   auth |-> <<>>, named |-> <<>>, options |-> <<>>]
    /\ attempts = 0 /\ signings = 0 /\ wire = {}
    /\ nonces = {} /\ accepted = {} /\ signedAs = <<>>
    /\ last = NothingYet

Next ==
    \/ Sign \/ Send \/ Resend \/ Resign
    \* Named headers are looked up in any case.
    \/ \E m \in wire, lower \in {FALSE, Lowercases /\ site.consolidated} :
         \E arrived \in {m} \cup Altered(m) : Deliver(m, lower, arrived)
    \/ Tick

Spec == Init /\ [][Next]_vars

-----------------------------------------------------------------------------

TypeOK ==
    /\ site \in Sites /\ now \in Nat /\ attempts \in Nat
    /\ step \in {"built", "signed", "waiting", "answered", "threw"}
    /\ signings \in Nat /\ Len(signedAs) = signings
    /\ accepted \subseteq nonces /\ nonces \subseteq 1..signings
    /\ \A m \in wire \cup {msg} :
         /\ m.custom \in [Headers -> Lines] /\ m.body.shape \in AllShapes
         /\ \A f \in Elements(m.named) \cup Elements(m.options) :
              f.nonce \in 1..signings /\ f.date <= now

(***************************************************************************)
(* The text of one view is divided between target, body and headers as the *)
(* other's is: then the hash of a body stands in the same place as well.   *)
(***************************************************************************)
DividedAlike(v, w) ==
    /\ Len(v.target) = Len(w.target) /\ Len(v.values) = Len(w.values)
    /\ \A i \in 1..Len(v.values) : Len(v.values[i]) = Len(w.values[i])

(***************************************************************************)
(* What the server lets through is what the client read when it signed     *)
(* with that nonce: target, body and the headers of the scheme, with those *)
(* values and no more.  The exception is the same text divided otherwise:  *)
(* words moved over a colon from one header to the next, or the hash of a  *)
(* body that was taken away given as a header of a scheme that was added.  *)
(***************************************************************************)
AcceptedAsSigned ==
    last.outcome = "success" =>
      LET signed == signedAs[last.nonce]
      IN  DividedAlike(last.view, signed) => last.view = signed

(***************************************************************************)
(* However often a call is sent, signed again or delivered, what the       *)
(* server lets through of it carries one nonce, so that the nonce cache    *)
(* can tell that it is the same call.                                      *)
(***************************************************************************)
OneNoncePerCall == \A n1, n2 \in accepted : n1 = n2

(***************************************************************************)
(* Where client and server do not build the same signing content from the  *)
(* same request: the server does not find Hmac-Options in lower case, or   *)
(* has other headers under the client's scheme; SignAsync hashes a body of *)
(* no bytes and signs the first value of a header; the script hashes the   *)
(* first chunk's bytes and puts the headers of two signings into one       *)
(* request.                                                                *)
(***************************************************************************)
SidesDiffer ==
    \/ site.consolidated /\ last.lower
    \/ ClientScheme # <<>> /\ ServerScheme # ClientScheme
    \/ /\ Client = "dotnet"
       /\ \/ msg.body.shape = "empty"
          \/ \E h \in Elements(ClientScheme) : Comma \in Elements(msg.custom[h])
    \/ Client = "script" /\ (msg.body.shape \in {"manyChunks", "notText"} \/ signings > 1)

(***************************************************************************)
(* Everywhere else, a message that arrives unaltered, in its window and    *)
(* with a nonce that is not found is let through.                          *)
(***************************************************************************)
UntouchedAccepted ==
    last.outcome \in {"failure", "exception"} /\ last.untouched => SidesDiffer

(***************************************************************************)
(* Every message that a .NET client sends carries the headers of one       *)
(* signing, not those of several tries.                                    *)
(***************************************************************************)
HeadersOfOneSigning ==
    Client = "dotnet" =>
      \A m \in wire : Len(m.auth) = 1 /\ Len(m.named) + Len(m.options) = 1
=============================================================================
