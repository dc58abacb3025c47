# HmacManager in TLA+

HmacManager signs HTTP requests with an HMAC over method, URI, date, keys, body
hash, chosen headers and a nonce, and verifies them in an ASP.NET Core
authentication handler or in an ext-authz service behind Envoy. This directory
models the parts of it whose correctness depends on order, on time or on
several actors, checks them with TLC and proves the central results with TLAPS.
Paths below are relative to the repository's root; the library is
`src/`, the Kubernetes service `kubernetes/`, the JavaScript client `client/lib/`.

    tlc -workers 4 -config MCHmacVerification_copies.cfg MCHmacVerification
    tlapm HmacVerificationProofs.tla

`PROJECT.json` is the index: components, runs, theorems, the source lines each
definition stands for, hazards, findings, and for each checked property a
variant of the code that breaks it (the definitions marked "Mutant").

## Inventory

### Nonce caches and verification
*State*: one `IMemoryCache` per process and whatever `IDistributedCache` the
host has registered: a Redis that all processes share or, by the library's
default and as the Kubernetes service's fallback, `MemoryDistributedCache`, a
store of its own in each process. Entries live 30 s whatever the policies say;
an entry is a nonce with an absolute expiration. *Operations*: `VerifyAsync` =
date check, `ContainsAsync`, `SetAsync`, comparison of signatures. *Hard*: the
four steps of several calls interleave, on several replicas; the clock moves
between them; processes crash, the store throws before or after a write; copies
of a message come late, twice, altered or cut short; two ages (policy window,
cache age) meet at one boundary. *Correct when*: a late copy of an accepted
message is refused; nothing else is refused without cause; entries live as long
as their messages; calls end.

### Policies and their reload
*State*: the configuration as two volumes (ConfigMap, Secret) with a version
each; the set `ReloadableHmacPolicyCollection` serves; a reload in progress.
*Operations*: the first bind and then the subscription to the change token, edits,
syncs, the token's callback binding entry by entry,
the swap, the application's `Add` and `Remove`, two lookups per request.
*Hard*: volumes sync in any order; a provider reloads during a bind; a reload
falls between the two lookups; a failed reload must not be the last; a sync
before the subscription is heard of by nobody.
*Correct when*: a request is answered from one set; a policy nobody touches is
always there; the last configuration is served in the end.

### Signing and the way to the server
*State*: the request with its headers, the client's retries, messages in
flight, the server's nonces. *Operations*: `SignAsync` / `sign`, sending,
retries below and above the signing handler, delivery, parsing, rebuilding the
signing content. *Hard*: signing adds to headers that an earlier try set;
messages are late, doubled or altered; the signing content joins its texts with
colons and escapes none; HTTP/2 lowercases names; two implementations of the
client decide about bodies and header values on their own. *Correct when*: what
is let through is what was signed, a call is let through under one nonce, and
what arrives untouched is let through.

### Request body
*State*: a network stream that cannot seek, a buffering stream in front of it.
*Operations*: middleware, three `HasContent` questions, buffering, hashing,
rewinding. *Hard*: the body arrives in parts or breaks off; asking whether it is
there can consume it; its length means something else before and after it is
read. *Correct when*: the hash covers the whole body, the application finds it
whole, and authentication ends.

### Authentication, events and authorization
*State*: the collection of policies, revoked keys, the context of each request,
its ticket. *Operations*: provider lookups, `OnValidateKeysAsync`, verification,
ticket, and three gates (attribute as a filter, requirement handler, policy
builder). *Hard*: policies change at runtime between the steps; the scheme a request
names is not signed; three pieces of code decide one question, from an
identity's first claims, any claims or the ticket's properties; which events are
raised depends on the overload of `AddHmac`. *Correct when*: only keys the
application approved let a request in, the gates agree, a required scheme's
headers were verified.

### Schemes as JSON
*State*: a forward-only token reader shared by three nested loops and the
locals they keep. *Operations*: `Write`, `Read`, `TryGetHeaders`,
`TryGetHeader`. *Correct when*: what is written is read back; nothing of two
objects is mixed; the reader ends on the last token of its value.

### JavaScript client
*State*: the application's policy objects, two dictionaries of references to
them, managers that copy keys and refer to policies, the headers and body of
`Request` objects, and for each running call of `sign` its builder's context.
*Operations*: the factory's `create`, `sign` with an await at the body's hash,
the content (possibly an application's accessor), the key's import and the
signature, then `addHeaders`; around it the application's appends, `fetch` and
changes of keys. *Hard*: calls overlap at every await, on one manager or one
`Request`; headers are read at one await and appended at another; `append` joins
instead of replacing and can throw half-way; keys and names are read at
different times; dictionary keys are joined names. *Correct when*: a manager is
what was asked for, a call signs its own content with one pair of keys, its
headers appear together and only if it succeeds, a message with one signature
verifies, and every call ends.

### How they interact
The handler (`Authentication`) asks the policy collection (`PolicyReload`)
twice, buffers the body (`RequestBody`), and calls `VerifyAsync`
(`HmacVerification`), which parses what the client built (`SignedRequest`) and
uses one of the nonce caches (`NonceCache`). Schemes reach the policies from
JSON (`SchemeJson`). `ScriptClient` is the inside of what `SignedRequest` takes
as one step of a JavaScript client. The ext-authz service uses the same
provider, body features and manager without the handler.

### Other components
Not modelled: the sign helper (`SignHandler.cs`, stateless, development only),
HttpClient registration (planned, see below), tests and CI. Partly: the samples
(the JavaScript one is the application in `ScriptClient`; the others configure
the library),
policy builders (validation only), the chart (how it splits a policy over two
volumes), service registration (initial set, two caches), algorithms (hashes
are injective, which one is not told apart).

## Modules

| Module | Models | Uses |
|---|---|---|
| `NonceCache` | the two caches and the stores under them | |
| `HmacVerification` | `VerifyAsync` of concurrent requests on replicas | extends `NonceCache`; instantiates `ReplayDetection` |
| `ReplayDetection` | abstract: whoever looks a nonce up after its first record is not granted its message | |
| `PolicyReload` | volumes, start-up, reload, served set, two lookups | |
| `SignedRequest` | one call from signing to the server's answer | |
| `RequestBody` | the body of one request | |
| `Authentication` | handler, events, ticket and gates | |
| `SchemeJson` | the converter of schemes | |
| `ScriptPolicies` | policies and schemes of the JavaScript client, lookups by joined names | |
| `ScriptClient` | concurrent calls of `sign`, their managers and requests | extends `ScriptPolicies`; instantiates `AtomicSigning` |
| `AtomicSigning` | abstract: a call ends once, with all its headers or none | |
| `MC...` | finite instances | the module they are named after |
| `HmacVerificationProofs`, `PolicyReloadProofs`, `AuthenticationProofs`, `RequestBodyProofs`, `SignedRequestProofs`, `SchemeJsonProofs`, `ScriptClientProofs` | theorems | the modules they are named after |
| `SequenceLemmas` | facts about sequences for the theorems of two modules | |

### NonceCache and HmacVerification
`cache[s][n]` is the expiration of nonce `n` in store `s`, 0 for none;
`ContainsAsync` compares it to `now`. `DistributedCache` says what is registered:
with `MemoryDistributedCache` the store of a distributed policy is one in the
process, as a memory policy's is, and goes with it; with `RedisCache` it is
`Redis` on every replica. An expiration already over is dropped by the stores
in the process without a word and refused by Redis's client with an exception
(external behaviour of `MemoryCache` and `RedisCache`), and only Redis's calls
may fail. `pc[q]` runs through the awaits
of `VerifyAsync`: `CheckDate` (headers parse and date), `ReadNonce`,
`RecordNonce`, `CompareSignature`; between any two of them another call, a
crash, a failing store call or the clock can come. `Tick` is held back only so
that a call is at most `MaxLag` behind its date check: without such a limit no
entry, however long, outlasts a call that is suspended. `copy[q]` says how a
request differs from what was signed. A crashed process is never used again; a
restarted one is another member of `Replicas`, with an empty memory cache.
`recorded` and `prior` are history for the properties. `ReplayDetection` is the
promise that holds with every interleaving: a message may be granted to any
number of requests that looked its nonce up before it was first recorded, and
to none that came after, as long as the entry outlasts the window (`Kept`). It
does not promise one grant, which the code does not keep (finding 1).

### PolicyReload
`configMap` and `secret` are the versions the two providers have loaded. Entry
`i` of the list takes its public half from one and its private key from the
other. `startup` is the course of `AddHmacManager`: "binding" the first set with
the steps of a reload, but with nobody to catch its exception ("failed"), then
"bound" and, one statement later, "subscribed". A token that fires before the
subscription makes nothing `dirty`; `missed` remembers it for the properties
until the next one fires. `StartReload` takes the next token and counts the
entries; `BindEntry` reads one entry as the volumes are at that moment, and ends
the reload if it does not validate; `Replace` publishes. `Publish` also keeps
`seen[q]`, what a lookup of the request's name could have returned since it
arrived. `dirty` is the change token: it fires during a reload too, and the
callback runs again.

### SignedRequest
A *site* is a client (.NET or JavaScript), its scheme, the server's scheme and
whether headers are consolidated. A text is the sequence of the words that colons
separate, so the signing content, which joins texts with colons, is their
concatenation and does not say where one ends; a signature is the content it is
computed over, and a body's hash a word like any other. `SignMessage` adds
headers to whatever the message has; `Send`, `Resend` and `Resign` are the
pipeline; `wire` keeps what was sent, `Deliver` takes any of it, as it is or
`Altered`: target, body, custom headers, the scheme that is named and the date may
all be others at once, among them headers that hold a body's hash. A delivered
message is first parsed as the provider and `VerifyAsync` parse it, then decided
by date, nonce and content. Whether a nonce that was recorded is found is left
open here (`found` in `Serve`): entries expire and deliveries race, which is
`HmacVerification`'s subject, so nothing in this module rests on the cache. The
keys are always those of the policy here; keys are `Authentication`'s.

### RequestBody
The bytes are counted, not their contents: `arrived` from the network, `taken`
from the network stream, `pos` of the stream the request has now, `start` of
the buffering stream. `call` tells the three `HasContent` questions apart.

### Authentication
`manager` and `context` are the results of the provider's two lookups. A
signature stands for keys and the scheme whose headers it `covers`; the `scheme`
a request names, which no signature covers, may be another, none, an empty
string or one the policy does not know. A ticket has its claims in the order in
which they are made: of header values, of the success event, and then the
handler's policy and scheme, the latter empty for null. The three gates read it
as the code does: the first claim of a type, any claim, or the properties.
`AddPolicy` and `RemovePolicy` are the application's calls; a policy may return
with other keys.

### SchemeJson
`json` is the token sequence of a document, `pos` the reader, `loop` the
innermost loop that is running; each action is one pass of a loop, with the
extra `Read` that the inner loops make when they end. Documents are lists of
schemes, each with its two properties in either order or without one of them;
`Written` tells those that `Write` can have produced from a collection: name
first, all names valid, no name twice.

### ScriptPolicies, ScriptClient and AtomicSigning
A name is a sequence of parts so that the key `a:b` can be told from the names
it is joined from; both dictionaries are filled in order, so that of equal keys
the last stays. `pc[c]` is the await call `c` is at: "hashing" the body,
"accessing" when the content comes from an accessor, "keying" until key and
signature are computed, "signed" until the continuation adds the headers.
`context[c]` is its builder's context, which `build` or the accessor reads
later. `managers[m].provider` holds what the constructor copies,
`managers[m].policy` and `.scheme` what it refers to. `added[r][h]` lists the
calls whose values header `h` of request `r` has, in the order `append` joins
them. `touched` is history: calls whose signed headers were changed after they
were read. `AtomicSigning` sees of a call its outcome and of a request the
header that is added last.

## Runs

States are distinct states of the instance.

| Run | Instance | States | Shows |
|---|---|---|---|
| `copies` | 3 messages (window 1 in memory, 1 and 2 in Redis, entries of 2), 2 requests, 2 replicas, store failures, `MaxLag` 1 | 5.3 M | replay detection, justified refusals, entries as long as windows, no lost entry |
| `promise` | 2 messages (windows 1 and 3, entries of 2) in `MemoryDistributedCache`, 2 requests, 1 replica that may crash | 277 k | `VerifyAsync` implements `ReplayDetection` in every interleaving; every call ends |
| `racing_copies` | 1 message, 2 requests at once, `MemoryDistributedCache` | violation | both copies accepted |
| `reload_edits` | 3 versions of 3 policies, one empty, two entries swapped, one rotated, one also changed by the application | 71 k | one set per answer, untouched policy served from the first bind on, convergence |
| `reload_rotation` | 1 policy, 1 rotation | violation | half a rotated pair served with the other half of the old one |
| `signed_sites` | 4 sites, 5 body shapes, 2 headers with 5 contents (among them a body's hash), 2 targets, any alteration of all of them, 2 sends | 34 k | accepted as signed, one nonce per call, untouched is accepted, one signing per message |
| `body` | bodies of up to 5 bytes, both framings, 3 kinds of middleware, both entries | 3.2 k | whole body hashed and kept; authentication ends |
| `auth_gates` | 1 request, 2 policies, 2 schemes, 2 key pairs, a header's and an event's claim of own or foreign type | 1.3 M | keys approved, gates agree, scheme verified |
| `auth_section_events` | the section overload of `AddHmac` | violation | no keys are put to the application |
| `json_documents` | up to 2 schemes with up to 3 headers between them, any order of properties, repeated and missing names | 1.1 M | every written scheme is read, with its first header; all of it where none has a second; nothing mixed; reader at its end |
| `json_two_headers` | one scheme | violation | the second header is lost |
| `script_calls` | 3 lists of policies, 2 calls, 2 managers, 1 request, 1 header with up to 2 values, 3 key versions, a rotation | 624 k | manager as asked, one key pair, own content, headers together, implements `AtomicSigning`; every call ends |

### Why the bounds are enough
- *Two requests* in `copies` and `promise`: the properties relate at most two
  requests, and a third adds nothing to a store that two have not done; the
  theorems are for any number. The messages of `copies` have windows shorter than
  the entries and equal to them, and those of `promise` shorter and longer.
  `copies` is over Redis and the memory cache, `promise` and `racing_copies` over
  the default store. The clock runs to 3, past every entry of a message signed at
  0 and up to the longest window's end.
- *One request* in `reload_edits` and `auth_gates`: requests change nothing that
  another one reads. Theorem `OneSet` is for any number.
- *Three versions*: a bind can mix at most what it reads at two moments; the third
  version lets an edit arrive while a reload of the second fails.
- *Two sends*, and any number of deliveries: a nonce, a header or a value can be
  repeated or crossed with another; a third repeats the second. Two words and a
  hash, in headers of up to two, are enough to move a word over a colon from one
  text to the next, and to give a removed body's hash as an added header.
- *Five bytes*: before, between and after any two positions that the body's
  streams distinguish (`start`, `pos`, `taken`, `arrived`, `total`).
- *Two calls, two managers, one request* in `script_calls`: what calls share is a
  manager, a request or nothing, and sharing a request is the case in which their
  headers meet. Two managers can be made before and after a rotation. The three
  lists have an accessor, a scheme whose name cannot be sent, and two policies
  of which one has no scheme, a name that cannot be sent and a key that cannot
  be imported. The theorems are for any number of each.
- *Two schemes, three headers between them* in `json_documents`: the reader loses
  tokens between neighbours, and the third header is read again after the second
  was lost, with what the first left behind. The theorems are for any number.

`CHECK_DEADLOCK FALSE` is in the configurations because every instance is
finite work: requests are answered, the clock and the edits end.

### Fairness
`FairSpec` of `HmacVerification` is weak fairness of each call's step: the thread
pool resumes continuations, and store calls return or throw. Nothing is assumed
of arrivals, crashes or the clock. `FairSpec` of `PolicyReload` is weak fairness
of the callback that a fired token queued; convergence is stated under the
premise that both volumes stay in sync, so the kubelet needs none. `FairSpec`
of `RequestBody` is weak fairness of the server's next step and of the client's
next byte or abort: Kestrel's minimum data rate aborts a client that stops.
`FairSpec` of `ScriptClient` is weak fairness of each call's continuation: the
event loop runs what is queued, and streams and accessors settle. The
application need not do anything.

## Findings

Four statements of the documentation are refuted by a run:

1. `racing_copies` - README.md promises protection against replays; the lookup and
   the write are two awaits (`src/Caching/Extensions/INonceCacheExtensions.cs:24`),
   and two copies that race are both accepted. `LateDuplicateRefused` is what
   does hold: only copies that race, for policies in `NonceOutlasts`.
2. `reload_rotation` - the reloader's remarks expect the bind to throw while a
   rotation is half synced. The volume that is late still holds its half of the
   old pair, whichever volume that is, so it does not throw and serves one new
   half with one old. In the trace the Secret is first and the bind is that of
   the start.
3. `auth_section_events` - `AddHmac(section, events)` drops the events
   (`AuthenticationBuilderExtensions.cs:112`).
4. `json_two_headers` - `TryGetHeader` reads past its object
   (`Utf8JsonReaderExtensions.cs:86`), so every second header of a scheme is lost.

Other differences met while modelling are part of the models and appear as named
conditions in the properties, so that everything outside them is checked:

| Condition | Where | What the code does |
|---|---|---|
| `WindowCovered`, `NonceOutlasts` | `HmacVerification` | entries live 30 s (`NonceCacheCollectionExtensions.cs:25`) where `Caching/Nonce.cs:12-14` speaks of the policy's window. With a longer window (60 s in the library's README and in the chart) a late copy is accepted, without any race, once the entry is gone. A copy whose own entry would already be over is refused only by Redis, whose client throws (`NonceDistributedCache.cs:35`); the stores in the process drop it without a word and go on. Per process, a copy served by another replica is a first one in any case |
| `missed` | `PolicyReload` | the first set is bound before the reloader subscribes (`Mvc/Extensions/IServiceCollectionExtensions.cs:53-54`): what a sync in between brought is not served before the next sync |
| `DividedAlike` | `SignedRequest` | texts are joined with colons that are not escaped (`SigningContentBuilder.cs:150-161`): a word moved over a colon from one header to the next, or the hash of a body that was taken away given as a header of a scheme that was added, leaves the content what it was, and the request is accepted |
| `SidesDiffer` | `SignedRequest` | lowercase `hmac-options` is not found by the parser of `VerifyAsync` (`HmacOptionsHeaderParser.cs:46`); a .NET body of no bytes is hashed by the client only (`HttpRequestMessageExtensions.cs:18`); the first of several header values is signed (`HttpRequestHeadersExtensions.cs:55`); the script hashes the first chunk (`hmac-utilities.ts:21`) and appends to the headers of an earlier signing (`hmac-manager.ts:134`) |
| `Drained`, `Overlooked` | `RequestBody` | a chunked body is consumed by the question whether it exists (`HttpRequestExtensions.cs:37`), or taken for none behind middleware that only buffers (`:32`) |
| `KeysReplaced` | `Authentication` | the policy is replaced between the provider's lookups (`HmacAuthenticationContextProvider.cs:63`): other keys are validated than verify |
| `SchemeUnknown` | `Authentication` | `Hmac-Scheme` is in no signature, a scheme the policy does not know is verified as none (`HmacManagerFactory.cs:116`), and the result has the name as it was received (`HmacManager.cs:116-126`): the ticket names a scheme no header of which was verified |
| `OwnTypesReused`, required empty scheme | `Authentication` | the claim of a null scheme is an empty string (`HmacAuthenticationHandler.cs:107`): of an endpoint that requires the empty scheme the attribute refuses what requirement and policy builder admit. Claims of headers and of the event come before the handler's (`:88-103`), and a gate that takes the first claim of a type reads theirs |
| `Entry = "handler"` | `PolicyReload` | a policy added between the lookups leaves a context without a manager, which the handler dereferences (`HmacAuthenticationHandler.cs:161`); the ext-authz service tests for it |
| `Untouched` | `PolicyReload` | entries that move while they are bound can be listed twice or not at all (`IConfigurationSectionExtensions.cs:28`) |
| `form = "noHeaders"` | `SchemeJson` | a scheme listed without headers gets those of the scheme before it (`SchemeCollectionJsonConverter.cs:26`) |
| `Refused` | `ScriptClient` | `append` refuses a name outside Latin-1 after others have been appended (`hmac-manager.ts:134`): a call that reports failure leaves `Authorization` on the request |
| `touched` | `ScriptClient` | headers are read after the body's hash, not when `sign` is called (`hmac-signature-provider.ts:81`) |
| `NamesUnique`, `NamesPlain` | `ScriptPolicies` | a later policy or scheme of the same name replaces the earlier, but schemes of a replaced policy stay (`hmac-policy-collection.ts:25`); a colon, or the name `null`, makes joined keys equal (`:49`) |

## Proofs

All theorems are about the specifications as they stand, for every value of the
constants that the modules' assumptions admit: any sets of messages, requests,
replicas, policies and names, any windows and ages, any edit history.

`HmacVerificationProofs`. The inductive invariant `IInv` joins `TypeOK` with what
the history variables say of each stage: a call past the date check was in its
window when `checkedAt`, at most `MaxLag` ago; a call past the lookup found no
live entry, so where `NonceOutlasts` no call of `prior` had recorded its nonce;
and a recorded nonce is in its store until its expiration or was written over by
none that ends earlier, since all writes of one nonce carry one date. The last
part is what replay detection rests on and what does not follow from the
properties themselves. From it: `TypeCorrect`, `LateDuplicatesRefused`,
`RefusalsJustified`, `NoncesKept`, `TimelyRequestsDecided` (with the rejection's
own step) and the action property `LiveEntriesKept`. No assumption is made
beyond the modules' own.

The second part of that module is `Implements`: every behaviour is one of
`ReplayDetection`, with no assumption on the interleaving or on the store. A
request under way is admitted, a recorded one has closed its message, an
accepted one is granted; the step that needs the invariant is `Admit`, where
`PassedWithoutRecord` says that nobody who finds a nonce free that outlasts its
window comes after a record of it. Each step of a request, and a crash of all
requests of a process at once, is one of `Sign`, `Admit`, `Close`, `Grant` and
`Leave` or a stutter.

`PolicyReloadProofs`. `OneSet` (for `Entry = "extAuthz"`) needs only that what a
lookup returned is in `seen`. `UntouchedAlwaysServed` strengthens the property
by the set being built: entries bound so far that reach the policy's place
hold it as it is, and the count taken at the start reaches that place, or is 0;
the first bind is such a bind, and the claim begins when it has ended well.
`KeysMatch` assumes `StableEntries` (no entry moves, no key changes) and shows
that syncs alone never mix keys; its condition is exactly what a rotation breaks.

`AuthenticationProofs`. The properties are about a request that was let in, the
invariant about every stage before: `Validated` says that a request past the
validation of keys has a context, whose keys were approved; `Granted` that
one let in has a manager under which its signature verifies, and the ticket made
from what it said. `KeysApproved` assumes that the application's own events are
the ones registered. `GatesAlwaysAgree` rests on the places of claims: where a
type occurs once, the first claim of the type is the only one (`OwnKept`), and
it is the handler's. `SchemeVerified` rests on `Verifies` and on the policy the
manager was made from, which stays as it was while policies come, go and change
between any two stages.

`RequestBodyProofs`. `Shape` orders the four positions (`start`, `pos`, `taken`,
`arrived`); `Streams` says that only a drained body has lost its beginning
(`start` above 0); `Stages`, that the handler stands at byte 0 until it hashes
and has buffered a body with a length by then; `Contents`, that what
`VerifyAsync` reads starts at byte 0. `BodyAlwaysKept` and
`WholeBodyAlwaysHashed` are two more conjuncts of the same induction: a refusal
comes from a hash that ended early, and `Contents` excludes that. Both are about
bodies that `Drained` and `Overlooked` do not name; the first is the
handler's only, for nobody reads after the ext-authz service.

`SignedRequestProofs`. A call never changes what is signed of its request, only
its headers, so every signing is of one view (`TheRequest`), and the headers of
a message are those of the first n signings in order, of which signing i has
nonce i (`Headed`, `Sent`; n is 1 for a .NET client). `ContentParts` takes equal
signing contents apart: the nonce is the last word, so it always agrees; date
and key are one word each, so with targets and values of the same lengths the
hash has what is left, and all parts agree (`SplitEqual`, and `FlattenInjective`
for the values). `DividedAlike` is just that condition. An accepted message has
therefore nonce 1 (`OneNonce`) and, divided alike, the view that was signed
(`AcceptsAsSigned`); neither needs anything of the nonce cache. `SameSides` is
the converse, that an untouched message is rebuilt as it was signed, and gives
`AcceptsUntouched`. Sites are any pairs of schemes.

`SchemeJsonProofs`. The reader's position means nothing by itself, so the proof
first says where `FlattenSeq` puts the tokens of every scheme and header
(`Layout`: functions `b` and `at` of places, with each part's end the next one's
start; `LayoutExists`). That is an induction over lists, made without an induction
theorem: of the lengths for which it fails one would be the smallest, and
shortening that list by one gives a contradiction (`UpTo`). `IInv` is then a
layout together with the stage of the reader in it (`Stage`): before a scheme,
after its name, in its list, in a header, behind the list; and for each what the
locals hold. Every pass of a loop takes one stage to the next. When `TryGetHeader`
ends, the reader is on the opening of the next header, which the pass after it
skips: that is the stage in which every second header is lost, and
`EveryOtherHeaderIsRead` is the exact result: of a written document `Read` makes
the schemes listed, each with its first, third, fifth header and so on.
`FirstHeadersAreRead`, `NothingIsMixed`, `ReaderPosition` and `JsonTypeCorrect` are
the properties of the run, for documents of any length. For `NothingIsMixed` the
property itself had to be corrected: that a scheme's headers are *the* listed
ones or one of them holds for lists of two headers only; what holds for all is
that they are among those listed. Of a scheme that lists no headers nothing is
claimed but its name.

`SequenceLemmas` has what `SignedRequestProofs` and `SchemeJsonProofs` rest on:
the first place of a set, induction along 1..n, and that concatenations and
flattenings can be taken apart where the parts' lengths are known.

`ScriptClientProofs`. Its first part is about `ScriptPolicies`: `LookupFindsNamed`,
that for every list with unique, plain names the joined-key lookup finds the named
policy and its own scheme. The first colon of two equal keys is at one place
(`JoinedKeys`), and an overwritten dictionary has the last of its equal keys
(`LastIsLast`). In the second part `Shape` joins types with what constructors
fix: a policy's two keys are a pair, a manager's scheme is in the list, lists keep
their names. On it rest four invariants, each of one stage of a call and its past.
`SignedSoFar`: a signature is of the provider's key and the call's content.
`ContentSoFar`: a context is empty until the hash is there and full when the
accessor reads it. `HeadersSoFar`: the signers of a request are calls that ended
on it, and no header is ahead of `Authorization`. `SentSoFar`: a message with
one signer has the headers of that call, whose signing was over when it was
fetched. `Implements` is `AtomicSigning`: a call's outcome and its last header
change in one step.

Only model-checked: liveness (`RequestAnswered`, `Converges`,
`AuthenticationEnds`, `SignEnds`), which is out of the prover's reach. Every
invariant, action property and refinement of a passing run is a theorem.

## What the models leave out

- Redis' rounding of times to live and eviction; altered dates and forged
  headers in `HmacVerification` (`SignedRequest` has them). Restarts of Redis, which
  persists or loses entries as it is configured.
- The text of headers: base64, Guids, milliseconds. Names that
  every JavaScript object inherits, such as `constructor`, which a lookup finds
  where there is no such policy. Characters beyond ASCII in signed text, of
  which the script takes the low byte and the server UTF-8.
- Lossy decoding of bodies that are not text, except that the script and the
  server hash different things then.
- ASP.NET Core's evaluation of policies, claims of the success event, exceptions
  the application's events throw, lifetimes of the container.
- Envoy's failure mode when the ext-authz service answers with a server error.

## Plan

Order of work, most important behaviour first. Done: 1-7 and 10.

1. `NonceCache`, `HmacVerification`: replay detection, with proofs.
2. `ReplayDetection`: the abstract promise, as a run and as a theorem.
3. `PolicyReload`: one set per answer and convergence, with proofs.
4. `SignedRequest`: from signing to decision, over both clients.
5. `RequestBody`, `Authentication`: what surrounds `VerifyAsync`.
6. `SchemeJson`: the converter.
7. `ScriptPolicies`, `ScriptClient`, `AtomicSigning`: the JavaScript client, with
   proofs.
8. *Shared policy objects*: a builder that goes on after `Build` changes a served
   policy; managers take the private key by value and the public one by
   reference; pooled HttpClient handlers keep a manager past a rotation;
   readers of the dictionary take no lock. One module with references to
   objects, composed with `PolicyReload`'s served set.
9. *Composition*: `HmacVerification` over policies that reload, since a
   reload can change a window or a cache type while a nonce is live.
10. *Proofs*: the safety properties of all modules.
