---------------------------- MODULE RequestBody ----------------------------
(***************************************************************************)
(* The body of one request while HmacAuthenticationHandler (or the         *)
(* ext-authz service) hashes it: it arrives from the network, middleware   *)
(* may have buffered it, the handler asks three times whether there is     *)
(* one, buffers, hashes and rewinds it, and the application reads it.      *)
(*                                                                         *)
(* A body is its bytes 1..total; a position is the number of bytes before  *)
(* it.  A network stream cannot seek: what is taken from it is gone.       *)
(* EnableBuffering puts a stream in front of it that keeps what is taken   *)
(* from then on, can seek, and is as long as what it has kept.             *)
(***************************************************************************)
EXTENDS Naturals

CONSTANTS
    Entries,        \* who authenticates: subset of {"handler", "extAuthz"}
    Framings,       \* subset of {"length", "chunked"}: Content-Length or not
    Middlewares,    \* what ran before: subset of {"none", "buffers", "reads"}
    MaxBody         \* bound on the bytes of a body

ASSUME RequestBodyAssumption ==
    /\ Entries \subseteq {"handler", "extAuthz"}
    /\ Framings \subseteq {"length", "chunked"}
    /\ Middlewares \subseteq {"none", "buffers", "reads"}
    /\ MaxBody \in Nat \ {0}

VARIABLES
    entry,
    total, framing,     \* the body that was sent
    middleware,
    arrived, aborted,   \* bytes that reached the server; the connection broke
    taken,              \* bytes taken from the network stream
    buffered, start,    \* EnableBuffering was called, when start bytes were taken
    pos,                \* of Request.Body
    pc,
    call,               \* which of the handler's three HasContent runs
    content,            \* where the StreamContent starts, or NoContent
    outcome

sent == <<entry, total, framing, middleware>>
network == <<arrived, aborted>>
vars == <<sent, network, taken, buffered, start, pos, pc, call, content, outcome>>

NoContent == MaxBody + 1

-----------------------------------------------------------------------------
(* The streams *)

\* One more byte can be read now, from the buffer or from the network.
CanRead == pos < taken \/ taken < arrived

ReadByte ==
    /\ CanRead
    /\ pos' = pos + 1
    /\ taken' = IF pos = taken THEN taken + 1 ELSE taken

\* Mutant: a reader stops where the body has come to.
AtEndOfArrived == pos = arrived

AtEnd == pos = total

\* Mutant: a stream that can seek gets another one in front.
BufferAgain == buffered' = TRUE /\ start' = taken

EnableBuffering ==
    /\ buffered' = TRUE
    /\ start' = IF buffered THEN start ELSE taken

\* What the length of a stream that can seek is.
StreamLength == taken - start

-----------------------------------------------------------------------------
(* The network and the middleware *)

Arrive ==
    /\ ~aborted /\ arrived < total
    /\ arrived' = arrived + 1
    /\ UNCHANGED <<sent, aborted, taken, buffered, start, pos, pc, call, content, outcome>>

Abort ==
    /\ ~aborted /\ arrived < total
    /\ aborted' = TRUE
    /\ UNCHANGED <<sent, arrived, taken, buffered, start, pos, pc, call, content, outcome>>

\* Middleware that reads the body buffers it first and rewinds it after.
ReadAhead ==
    /\ pc = "middleware" /\ middleware = "reads"
    /\ ReadByte
    /\ UNCHANGED <<sent, network, buffered, start, pc, call, content, outcome>>

Authenticate ==
    /\ pc = "middleware" /\ entry = "handler"
    /\ pos' = start
    /\ pc' = "hasContent" /\ call' = "buffering"
    /\ UNCHANGED <<sent, network, taken, buffered, start, content, outcome>>

\* OnValidateKeysAsync refuses the keys, or there is no Authorization header.
RefuseKeys ==
    /\ pc = "middleware" /\ entry = "handler"
    /\ pos' = start
    /\ pc' = "application" /\ outcome' = "unverified"
    /\ UNCHANGED <<sent, network, taken, buffered, start, call, content>>

-----------------------------------------------------------------------------
(* HasContent, and what the handler does with its answer *)

(***************************************************************************)
(* Proceed: EnableBufferingIfContentExists, then CreateHttpRequestMessage  *)
(* puts a StreamContent over the body as it stands, then, after            *)
(* VerifyAsync, RewindIfContentExists.  has is what HasContent answers, at *)
(* the position it leaves the body at.                                     *)
(***************************************************************************)
\* Mutant: the body is not rewound.
ProceedWithoutRewind(has, at) ==
    /\ IF call = "buffering" /\ has THEN EnableBuffering ELSE UNCHANGED <<buffered, start>>
    /\ pos' = at
    /\ content' = IF call = "feature" /\ has THEN at ELSE content
    /\ call' = IF call = "buffering" THEN "feature" ELSE call
    /\ pc' = IF call = "buffering" THEN "hasContent"
             ELSE IF call = "feature" THEN "verify" ELSE "application"

Proceed(has, at) ==
    \/ /\ call = "buffering"
       /\ IF has THEN EnableBuffering ELSE UNCHANGED <<buffered, start>>
       /\ pos' = at /\ call' = "feature"
       /\ UNCHANGED <<pc, content>>
    \/ /\ call = "feature"
       /\ content' = IF has THEN at ELSE NoContent
       /\ pos' = at /\ pc' = "verify"
       /\ UNCHANGED <<buffered, start, call>>
    \/ /\ call = "rewind"
       /\ pos' = IF has /\ buffered THEN start ELSE at
       /\ pc' = "application"
       /\ UNCHANGED <<buffered, start, call, content>>

\* Content-Length says so; the body is not touched.
HasLength ==
    /\ pc = "hasContent" /\ framing = "length"
    /\ Proceed(TRUE, pos)
    /\ UNCHANGED <<sent, network, taken, outcome>>

\* The stream can seek: back to its start, and its length is what it has kept.
HasKept ==
    /\ pc = "hasContent" /\ framing # "length" /\ buffered
    /\ Proceed(StreamLength > 0, start)
    /\ UNCHANGED <<sent, network, taken, outcome>>

\* It cannot: CopyToAsync(...).Wait() takes the body to its end to see if there is one.
Drain ==
    /\ pc = "hasContent" /\ framing # "length" /\ ~buffered
    /\ ReadByte
    /\ UNCHANGED <<sent, network, buffered, start, pc, call, content, outcome>>

HasDrained ==
    /\ pc = "hasContent" /\ framing # "length" /\ ~buffered
    /\ AtEnd
    /\ Proceed(total > 0, pos)
    /\ UNCHANGED <<sent, network, taken, outcome>>

-----------------------------------------------------------------------------
(* VerifyAsync *)

\* Mutant: Transfer-Encoding is not looked at.
CheckLengthOnly ==
    IF framing = "length"
      THEN EnableBuffering /\ content' = pos
      ELSE UNCHANGED <<buffered, start, content>>

\* CheckAsync of the ext-authz service asks the headers alone.
CheckContent ==
    IF framing \in {"length", "chunked"}
      THEN EnableBuffering /\ content' = pos
      ELSE UNCHANGED <<buffered, start, content>>

Check ==
    /\ pc = "middleware" /\ entry = "extAuthz"
    /\ CheckContent
    /\ pc' = "verify"
    /\ UNCHANGED <<sent, network, taken, pos, call, outcome>>

\* What the handler still has to do when VerifyAsync has answered.
AfterVerify ==
    IF entry = "handler" THEN pc' = "hasContent" /\ call' = "rewind"
                         ELSE pc' = "application" /\ UNCHANGED call

\* The date, the nonce or the headers: the body is not read.
RefuseEarly ==
    /\ pc = "verify" /\ outcome = "none"
    /\ outcome' = "unverified"
    /\ AfterVerify
    /\ UNCHANGED <<sent, network, taken, buffered, start, pos, content>>

\* ReadAsStringAsync reads the StreamContent.
ReadForHash ==
    /\ pc = "verify" /\ content # NoContent
    /\ ReadByte
    /\ outcome' = "reading"
    /\ UNCHANGED <<sent, network, buffered, start, pc, call, content>>

\* The bytes that are hashed, after the first and up to the second position; the
\* client hashed them all.
Whole == <<0, total>>

Hashed == IF content = NoContent THEN <<0, 0>> ELSE <<content, pos>>

CompareHash ==
    /\ pc = "verify" /\ (content # NoContent => AtEnd)
    /\ outcome' = IF Hashed = Whole THEN "granted" ELSE "refused"
    /\ AfterVerify
    /\ UNCHANGED <<sent, network, taken, buffered, start, pos, content>>

\* Mutant: HasContent waits on.
ReadFailsInVerify ==
    /\ aborted /\ ~CanRead
    /\ pc = "verify" /\ content # NoContent /\ ~AtEnd
    /\ pc' = "exception"
    /\ UNCHANGED <<sent, network, taken, buffered, start, pos, call, content, outcome>>

\* The connection broke and the reader has come as far as the body has.
ReadFails ==
    /\ aborted /\ ~CanRead
    /\ \/ pc = "hasContent" /\ framing # "length" /\ ~buffered /\ ~AtEnd
       \/ pc = "verify" /\ content # NoContent /\ ~AtEnd
       \/ pc = "middleware" /\ middleware = "reads"
    /\ pc' = "exception"
    /\ UNCHANGED <<sent, network, taken, buffered, start, pos, call, content, outcome>>

-----------------------------------------------------------------------------

Init ==
    /\ \/ total \in 1..MaxBody /\ framing \in Framings
       \/ total = 0 /\ framing = "none"
    /\ entry \in Entries /\ middleware \in Middlewares
    /\ entry = "extAuthz" => middleware = "none"    \* nothing runs before its handler
    /\ arrived = 0 /\ aborted = FALSE
    /\ taken = 0 /\ pos = 0 /\ start = 0
    /\ buffered = (middleware # "none")
    /\ pc = "middleware" /\ call = "buffering"
    /\ content = NoContent /\ outcome = "none"

Server ==
    \/ Authenticate \/ RefuseKeys \/ HasLength \/ HasKept \/ Drain \/ HasDrained
    \/ Check \/ RefuseEarly \/ ReadForHash \/ CompareHash \/ ReadFails

Next == Arrive \/ Abort \/ ReadAhead \/ Server

Spec == Init /\ [][Next]_vars

\* A client that stops sending is cut off (Kestrel's minimum data rate); a step of
\* the server that can be taken is taken.
FairSpec == Spec /\ WF_vars(Arrive \/ Abort) /\ WF_vars(Server)

-----------------------------------------------------------------------------

TypeOK ==
    /\ entry \in Entries /\ total \in 0..MaxBody /\ arrived \in 0..total /\ taken \in 0..arrived
    /\ pos \in start..taken /\ (~buffered => pos = taken)
    /\ pc \in {"middleware", "hasContent", "verify", "application", "exception"}
    /\ call \in {"buffering", "feature", "rewind"}
    /\ content \in 0..MaxBody \cup {NoContent}
    /\ outcome \in {"none", "reading", "unverified", "granted", "refused"}

(***************************************************************************)
(* The bodies the handler loses sight of: without a Content-Length and not *)
(* buffered, HasContent takes them to their end; buffered but not read, it *)
(* finds a stream of length 0.                                             *)
(***************************************************************************)
Drained == framing = "chunked" /\ middleware = "none"
Overlooked == framing = "chunked" /\ middleware # "none" /\ taken = 0

(***************************************************************************)
(* Behind the authentication handler, whatever it found, the application   *)
(* can read the body from its first byte: nothing was taken that was not   *)
(* kept, and the stream is rewound.  A drained body is the exception; the  *)
(* ext-authz service has no application behind it.                         *)
(***************************************************************************)
BodyKept == entry = "handler" /\ pc = "application" => pos = 0 \/ Drained

(***************************************************************************)
(* A request is not refused for its body if that is what the client sent:  *)
(* all of it is hashed, whatever had read it before.  The exceptions are   *)
(* the bodies that the handler drains or overlooks.                        *)
(***************************************************************************)
WholeBodyHashed ==
    outcome = "refused" => entry = "handler" /\ (Drained \/ Overlooked)

(***************************************************************************)
(* Authentication ends, though the thread that copies a chunked body waits *)
(* for a client that may stop sending.                                     *)
(***************************************************************************)
AuthenticationEnds == <>(pc \in {"application", "exception"})
=============================================================================
