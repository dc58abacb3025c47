------------------------- MODULE RequestBodyProofs -------------------------
(***************************************************************************)
(* Theorems of RequestBody, for bodies of any length.                      *)
(***************************************************************************)
EXTENDS RequestBody, TLAPS

USE RequestBodyAssumption

(***************************************************************************)
(* The positions of the streams.  What is taken before a buffer was put in *)
(* front is lost, so start is 0 unless the body was drained.               *)
(***************************************************************************)
Shape ==
    /\ entry \in Entries /\ middleware \in Middlewares
    /\ framing \in {"length", "chunked", "none"} /\ (framing = "none" <=> total = 0)
    /\ total \in 0..MaxBody /\ arrived \in 0..total /\ taken \in 0..arrived
    /\ start \in 0..taken /\ pos \in start..taken
    /\ ~buffered => pos = taken /\ start = 0
    /\ pc \in {"middleware", "hasContent", "verify", "application", "exception"}
    /\ call \in {"buffering", "feature", "rewind"}
    /\ content \in 0..MaxBody \cup {NoContent}
    /\ outcome \in {"none", "reading", "unverified", "granted", "refused"}

Streams ==
    /\ ~buffered => middleware = "none"
    /\ ~Drained => start = 0
    /\ pc = "middleware" => start = 0 /\ (middleware # "reads" => taken = 0)

(***************************************************************************)
(* What has happened when the handler has come to a stage: it is at the    *)
(* start of the body until the body is hashed, and has buffered a body     *)
(* with a length by then.                                                  *)
(***************************************************************************)
Stages ==
    /\ entry = "extAuthz" => middleware = "none" /\ pc # "hasContent"
    /\ pc = "middleware" => content = NoContent
    /\ pc = "middleware" \/ (pc = "hasContent" /\ call # "rewind") => outcome = "none"
    /\ pc = "verify" => outcome \in {"none", "reading"}
    /\ pc = "hasContent" /\ call # "rewind" /\ ~Drained => pos = 0
    /\ pc = "hasContent" /\ call # "buffering" /\ framing = "length" => buffered
    /\ pc = "verify" /\ entry = "handler" => call = "feature"
    /\ pc = "verify" /\ entry = "handler" /\ framing = "length" => buffered

(***************************************************************************)
(* What VerifyAsync reads begins at the first byte, and is there if there  *)
(* is a body.                                                              *)
(***************************************************************************)
Contents ==
    pc = "verify" /\ ~(entry = "handler" /\ Drained) =>
      /\ content = NoContent => total = 0 \/ (entry = "handler" /\ Overlooked)
      /\ content # NoContent => content = 0

IInv == Shape /\ Streams /\ Stages /\ Contents /\ BodyKept /\ WholeBodyHashed

LEMMA IInvInit == Init => IInv
<1> SUFFICES ASSUME Init PROVE IInv
  OBVIOUS
<1>1. Shape
  <2>1. /\ framing \in {"length", "chunked", "none"} /\ (framing = "none" <=> total = 0)
        /\ total \in 0..MaxBody
    <3>1. CASE total \in 1..MaxBody /\ framing \in Framings
      BY <3>1
    <3>2. CASE total = 0 /\ framing = "none"
      BY <3>2
    <3> QED BY <3>1, <3>2 DEF Init
  <2>2. ~buffered => pos = taken /\ start = 0
    BY DEF Init
  <2> QED BY <2>1, <2>2 DEF Init, Shape, NoContent
<1>2. Streams /\ Stages
  BY DEF Init, Streams, Stages, Drained
<1>3. Contents /\ BodyKept /\ WholeBodyHashed
  BY DEF Init, Contents, BodyKept, WholeBodyHashed
<1> QED BY <1>1, <1>2, <1>3 DEF IInv

-----------------------------------------------------------------------------

LEMMA NetworkStep == IInv /\ (Arrive \/ Abort) => IInv'
<1> SUFFICES ASSUME IInv, Arrive \/ Abort PROVE IInv'
  OBVIOUS
<1>1. UNCHANGED <<entry, total, framing, middleware, taken, buffered, start, pos, pc, call,
                  content, outcome>>
  BY DEF Arrive, Abort, sent
<1>2. arrived' \in 0..total /\ taken \in 0..arrived'
  BY DEF IInv, Shape, Arrive, Abort
<1>3. Shape'
  BY <1>1, <1>2 DEF IInv, Shape, NoContent
<1>4. Streams' /\ Stages'
  BY <1>1 DEF IInv, Streams, Stages, Drained
<1>5. Drained' = Drained /\ Overlooked' = Overlooked
  BY <1>1 DEF Drained, Overlooked
<1>6. Contents' /\ BodyKept'
  BY <1>1, <1>5 DEF IInv, Contents, BodyKept, NoContent
<1>7. WholeBodyHashed'
  BY <1>1, <1>5 DEF IInv, WholeBodyHashed
<1> QED BY <1>3, <1>4, <1>6, <1>7 DEF IInv

(***************************************************************************)
(* One byte more, from the buffer or from the network.                     *)
(***************************************************************************)
LEMMA ReadByteKeeps ==
    ASSUME Shape, ReadByte, UNCHANGED <<sent, network, buffered, start>>
    PROVE  /\ taken' \in 0..arrived /\ start \in 0..taken' /\ pos' \in start..taken'
           /\ (~buffered => pos' = taken')
BY DEF Shape, ReadByte, CanRead

LEMMA ReadAheadStep == IInv /\ ReadAhead => IInv'
<1> SUFFICES ASSUME IInv, ReadAhead PROVE IInv'
  OBVIOUS
<1>1. /\ UNCHANGED <<entry, total, framing, middleware, arrived, aborted, buffered, start, pc,
                     call, content, outcome>>
      /\ pc = "middleware" /\ middleware = "reads"
  BY DEF ReadAhead, sent, network
<1>2. /\ taken' \in 0..arrived /\ start \in 0..taken' /\ pos' \in start..taken'
      /\ (~buffered => pos' = taken')
  BY ReadByteKeeps DEF IInv, ReadAhead
<1>3. Shape'
  BY <1>1, <1>2 DEF IInv, Shape, NoContent
<1>4. Streams' /\ Stages'
  BY <1>1 DEF IInv, Streams, Stages, Drained
<1>5. Contents' /\ BodyKept' /\ WholeBodyHashed'
  BY <1>1 DEF IInv, Stages, Contents, BodyKept, WholeBodyHashed
<1> QED BY <1>3, <1>4, <1>5 DEF IInv

-----------------------------------------------------------------------------
(* The handler *)

LEMMA AuthenticateStep == IInv /\ (Authenticate \/ RefuseKeys) => IInv'
<1> SUFFICES ASSUME IInv, Authenticate \/ RefuseKeys PROVE IInv'
  OBVIOUS
<1>1. /\ UNCHANGED <<entry, total, framing, middleware, arrived, taken, buffered, start, content>>
      /\ pc = "middleware" /\ entry = "handler" /\ pos' = start
      /\ \/ pc' = "hasContent" /\ call' = "buffering" /\ UNCHANGED outcome
         \/ pc' = "application" /\ outcome' = "unverified" /\ UNCHANGED call
  BY DEF Authenticate, RefuseKeys, sent, network
<1>2. start = 0 /\ (~buffered => taken = 0) /\ outcome = "none"
  BY <1>1 DEF IInv, Streams, Stages
<1>3. Shape'
  BY <1>1, <1>2 DEF IInv, Shape, NoContent
<1>4. Drained' = Drained
  BY <1>1 DEF Drained
<1>5. Streams' /\ Stages'
  BY <1>1, <1>2, <1>4 DEF IInv, Streams, Stages
<1>6. Contents' /\ BodyKept' /\ WholeBodyHashed'
  BY <1>1, <1>2 DEF Contents, BodyKept, WholeBodyHashed
<1> QED BY <1>3, <1>5, <1>6 DEF IInv

(***************************************************************************)
(* What Proceed needs of HasContent's answer: whether there is a body is   *)
(* known where there is a length; the body is left at its start, or        *)
(* drained; and a body is overlooked only in a buffer nobody has read.     *)
(***************************************************************************)
Answers(has, at) ==
    /\ has \in BOOLEAN
    /\ at \in start..taken /\ (~buffered => at = taken)
    /\ framing = "length" => has
    /\ ~Drained /\ (call # "rewind" \/ framing # "length") => at = 0
    /\ ~has => Drained \/ total = 0 \/ Overlooked
    /\ ~Drained /\ has => framing = "length" \/ buffered

LEMMA ProceedStep ==
    ASSUME IInv, pc = "hasContent", NEW has, NEW at, Answers(has, at), Proceed(has, at),
           UNCHANGED <<sent, network, taken, outcome>>
    PROVE  IInv'
<1>1. /\ UNCHANGED <<entry, total, framing, middleware, arrived, taken, outcome>>
      /\ entry = "handler"
  BY DEF sent, network, IInv, Shape, Stages
<1>2. Drained' = Drained /\ Overlooked' = Overlooked
  BY <1>1 DEF Drained, Overlooked
<1>3. CASE call = "buffering"
  <2>1. /\ IF has THEN EnableBuffering ELSE UNCHANGED <<buffered, start>>
        /\ pos' = at /\ call' = "feature" /\ UNCHANGED <<pc, content>>
    BY <1>3 DEF Proceed
  <2>2. /\ start' \in 0..taken /\ at \in start'..taken
        /\ ~buffered' => at = taken /\ start' = 0 /\ ~buffered
        /\ ~Drained => start' = 0
        /\ framing = "length" => buffered'
    <3>1. CASE has
      BY <1>3, <2>1, <3>1 DEF IInv, Shape, Streams, Answers, EnableBuffering
    <3>2. CASE ~has
      BY <2>1, <3>2 DEF IInv, Shape, Streams, Answers
    <3> QED BY <3>1, <3>2 DEF Answers
  <2>3. Shape'
    BY <1>1, <2>1, <2>2 DEF IInv, Shape, NoContent
  <2>4. Streams'
    BY <1>1, <1>2, <2>1, <2>2 DEF IInv, Streams
  <2>5. Stages'
    BY <1>1, <1>2, <1>3, <2>1, <2>2 DEF IInv, Stages, Answers
  <2>6. Contents' /\ BodyKept'
    BY <2>1 DEF Contents, BodyKept
  <2>7. WholeBodyHashed'
    BY <1>1, <1>2 DEF IInv, WholeBodyHashed
  <2> QED BY <2>3, <2>4, <2>5, <2>6, <2>7 DEF IInv
<1>4. CASE call = "feature"
  <2>1. /\ content' = IF has THEN at ELSE NoContent
        /\ pos' = at /\ pc' = "verify" /\ UNCHANGED <<buffered, start, call>>
    BY <1>4 DEF Proceed
  <2>2. at \in 0..MaxBody
    BY DEF IInv, Shape, Answers
  <2>3. Shape'
    BY <1>1, <2>1, <2>2 DEF IInv, Shape, Answers, NoContent
  <2>4. Streams' /\ Stages'
    BY <1>1, <1>2, <1>4, <2>1 DEF IInv, Streams, Stages
  <2>5. Contents'
    BY <1>1, <1>2, <1>4, <2>1, <2>2 DEF Contents, Answers, NoContent
  <2>6. BodyKept' /\ WholeBodyHashed'
    BY <1>1, <1>2, <2>1 DEF IInv, BodyKept, WholeBodyHashed
  <2> QED BY <2>3, <2>4, <2>5, <2>6 DEF IInv
<1>5. CASE call = "rewind"
  <2>1. /\ pos' = IF has /\ buffered THEN start ELSE at
        /\ pc' = "application" /\ UNCHANGED <<buffered, start, call, content>>
    BY <1>5 DEF Proceed
  <2>2. Shape'
    BY <1>1, <2>1 DEF IInv, Shape, Answers, NoContent
  <2>3. Streams' /\ Stages'
    BY <1>1, <1>2, <2>1 DEF IInv, Streams, Stages
  <2>4. Contents'
    BY <2>1 DEF Contents
  <2>5. BodyKept'
    BY <1>1, <1>2, <1>5, <2>1 DEF IInv, Streams, Stages, BodyKept, Answers
  <2>6. WholeBodyHashed'
    BY <1>1, <1>2 DEF IInv, WholeBodyHashed
  <2> QED BY <2>2, <2>3, <2>4, <2>5, <2>6 DEF IInv
<1> QED BY <1>3, <1>4, <1>5 DEF IInv, Shape

LEMMA HasContentStep == IInv /\ (HasLength \/ HasKept \/ HasDrained) => IInv'
<1> SUFFICES ASSUME IInv, HasLength \/ HasKept \/ HasDrained PROVE IInv'
  OBVIOUS
<1>1. CASE HasLength
  <2>1. framing = "length" /\ pc = "hasContent" /\ ~Drained
    BY <1>1 DEF HasLength, Drained
  <2>2. Answers(TRUE, pos)
    BY <2>1 DEF IInv, Shape, Stages, Answers
  <2> QED BY <1>1, <2>2, ProceedStep DEF HasLength
<1>2. CASE HasKept
  <2>1. framing # "length" /\ buffered /\ pc = "hasContent"
    BY <1>2 DEF HasKept
  <2>2. ~Drained => start = 0
    BY DEF IInv, Streams
  <2>3. StreamLength > 0 \/ Drained \/ total = 0 \/ Overlooked
    BY <2>1, <2>2 DEF IInv, Shape, StreamLength, Drained, Overlooked
  <2>4. start \in start..taken
    BY DEF IInv, Shape
  <2>5. Answers(StreamLength > 0, start)
    BY <2>1, <2>2, <2>3, <2>4 DEF Answers
  <2> QED BY <1>2, <2>5, ProceedStep DEF HasKept
<1>3. CASE HasDrained
  <2>1. framing # "length" /\ ~buffered /\ pc = "hasContent" /\ pos = total
    BY <1>3 DEF HasDrained, AtEnd
  <2>2. Drained \/ total = 0
    BY <2>1 DEF IInv, Shape, Streams, Drained
  <2>3. pos \in start..taken /\ pos = taken /\ total \in Nat
    BY <2>1 DEF IInv, Shape
  <2>4. Answers(total > 0, pos)
    BY <2>1, <2>2, <2>3 DEF Answers
  <2> QED BY <1>3, <2>4, ProceedStep DEF HasDrained
<1> QED BY <1>1, <1>2, <1>3

LEMMA DrainStep == IInv /\ Drain => IInv'
<1> SUFFICES ASSUME IInv, Drain PROVE IInv'
  OBVIOUS
<1>1. /\ UNCHANGED <<entry, total, framing, middleware, arrived, aborted, buffered, start, pc,
                     call, content, outcome>>
      /\ pc = "hasContent" /\ framing # "length" /\ ~buffered
  BY DEF Drain, sent, network
<1>2. /\ taken' \in 0..arrived /\ start \in 0..taken' /\ pos' \in start..taken'
      /\ (~buffered => pos' = taken')
  BY ReadByteKeeps DEF IInv, Drain
<1>3. Drained /\ Drained'
  <2>1. middleware = "none"
    BY <1>1 DEF IInv, Streams
  <2>2. framing # "none"
    BY <1>1, <1>2 DEF IInv, Shape, Drain, ReadByte, CanRead
  <2> QED BY <1>1, <2>1, <2>2 DEF IInv, Shape, Drained
<1>4. Shape'
  BY <1>1, <1>2 DEF IInv, Shape, NoContent
<1>5. Streams' /\ Stages'
  BY <1>1, <1>3 DEF IInv, Streams, Stages
<1>6. entry = "handler"
  BY <1>1 DEF IInv, Shape, Stages
<1>7. Contents' /\ BodyKept' /\ WholeBodyHashed'
  BY <1>1, <1>3, <1>6 DEF Contents, BodyKept, WholeBodyHashed
<1> QED BY <1>4, <1>5, <1>7 DEF IInv

-----------------------------------------------------------------------------
(* VerifyAsync *)

LEMMA CheckStep == IInv /\ Check => IInv'
<1> SUFFICES ASSUME IInv, Check PROVE IInv'
  OBVIOUS
<1>1. /\ UNCHANGED <<entry, total, framing, middleware, arrived, taken, pos, call, outcome>>
      /\ pc = "middleware" /\ entry = "extAuthz" /\ pc' = "verify"
      /\ CheckContent
  BY DEF Check, sent, network
<1>2. /\ start = 0 /\ taken = 0 /\ pos = 0 /\ entry # "handler" /\ middleware = "none"
      /\ outcome = "none"
  BY <1>1 DEF IInv, Stages, Streams, Shape
<1>3. /\ start' = 0 /\ (~buffered' => ~buffered)
      /\ content' = IF framing = "none" THEN content ELSE 0
  BY <1>1, <1>2 DEF CheckContent, EnableBuffering, IInv, Shape
<1>4. Shape'
  BY <1>1, <1>2, <1>3 DEF IInv, Shape, NoContent
<1>5. Streams' /\ Stages'
  BY <1>1, <1>2, <1>3 DEF IInv, Streams, Stages
<1>6. framing = "none" => content = NoContent /\ total = 0
  BY <1>1 DEF IInv, Shape, Stages
<1>7. Contents'
  BY <1>1, <1>2, <1>3, <1>6 DEF Contents, NoContent, IInv, Shape
<1>8. BodyKept' /\ WholeBodyHashed'
  BY <1>1, <1>2 DEF BodyKept, WholeBodyHashed
<1> QED BY <1>4, <1>5, <1>7, <1>8 DEF IInv

LEMMA ReadForHashStep == IInv /\ ReadForHash => IInv'
<1> SUFFICES ASSUME IInv, ReadForHash PROVE IInv'
  OBVIOUS
<1>1. /\ UNCHANGED <<entry, total, framing, middleware, arrived, aborted, buffered, start, pc,
                     call, content>>
      /\ pc = "verify" /\ content # NoContent /\ outcome' = "reading"
  BY DEF ReadForHash, sent, network
<1>2. /\ taken' \in 0..arrived /\ start \in 0..taken' /\ pos' \in start..taken'
      /\ (~buffered => pos' = taken')
  BY ReadByteKeeps DEF IInv, ReadForHash
<1>3. Drained' = Drained /\ NoContent' = NoContent
  BY <1>1 DEF Drained, NoContent
<1>4. Shape'
  BY <1>1, <1>2 DEF IInv, Shape, NoContent
<1>5. Streams' /\ Stages'
  BY <1>1, <1>3 DEF IInv, Streams, Stages
<1>6. Contents' /\ BodyKept' /\ WholeBodyHashed'
  BY <1>1, <1>3 DEF IInv, Contents, BodyKept, WholeBodyHashed
<1> QED BY <1>4, <1>5, <1>6 DEF IInv

(***************************************************************************)
(* The end of VerifyAsync, refused or not.                                 *)
(***************************************************************************)
LEMMA AnswerStep == IInv /\ (RefuseEarly \/ CompareHash) => IInv'
<1> SUFFICES ASSUME IInv, RefuseEarly \/ CompareHash PROVE IInv'
  OBVIOUS
<1>1. /\ UNCHANGED <<entry, total, framing, middleware, arrived, taken, buffered, start, pos,
                     content>>
      /\ pc = "verify" /\ AfterVerify
      /\ outcome' \in {"unverified", "granted", "refused"}
  BY DEF RefuseEarly, CompareHash, sent, network
<1>2. \/ pc' = "hasContent" /\ call' = "rewind" /\ entry = "handler"
      \/ pc' = "application" /\ call' = call /\ entry # "handler"
  BY <1>1 DEF AfterVerify
<1>3. Drained' = Drained /\ Overlooked' = Overlooked
  BY <1>1 DEF Drained, Overlooked
<1>4. Shape'
  BY <1>1, <1>2 DEF IInv, Shape, NoContent
<1>5. Streams' /\ Stages'
  BY <1>1, <1>2, <1>3 DEF IInv, Shape, Streams, Stages
<1>6. Contents' /\ BodyKept'
  BY <1>1, <1>2 DEF Contents, BodyKept
<1>7. WholeBodyHashed'
  <2> SUFFICES ASSUME outcome' = "refused", ~(entry = "handler" /\ (Drained \/ Overlooked))
               PROVE  FALSE
    BY <1>1, <1>3 DEF WholeBodyHashed
  <2>1. CompareHash /\ Hashed # Whole
    BY DEF RefuseEarly, CompareHash
  <2>2. content = NoContent => total = 0
    BY <1>1 DEF IInv, Contents
  <2>3. content # NoContent => content = 0 /\ pos = total
    BY <1>1, <2>1 DEF IInv, Contents, CompareHash, AtEnd
  <2>4. Hashed = <<0, total>>
    BY <2>2, <2>3 DEF Hashed
  <2> QED BY <2>1, <2>4 DEF Whole
<1> QED BY <1>4, <1>5, <1>6, <1>7 DEF IInv

LEMMA ReadFailsStep == IInv /\ ReadFails => IInv'
<1> SUFFICES ASSUME IInv, ReadFails PROVE IInv'
  OBVIOUS
<1>1. /\ UNCHANGED <<entry, total, framing, middleware, arrived, taken, buffered, start, pos,
                     call, content, outcome>>
      /\ pc' = "exception"
  BY DEF ReadFails, sent, network
<1>2. Drained' = Drained /\ Overlooked' = Overlooked
  BY <1>1 DEF Drained, Overlooked
<1>3. Shape' /\ Streams' /\ Stages'
  BY <1>1, <1>2 DEF IInv, Shape, Streams, Stages, NoContent
<1>4. Contents' /\ BodyKept' /\ WholeBodyHashed'
  BY <1>1, <1>2 DEF IInv, Contents, BodyKept, WholeBodyHashed
<1> QED BY <1>3, <1>4 DEF IInv

-----------------------------------------------------------------------------

LEMMA IInvStep == IInv /\ [Next]_vars => IInv'
<1>1. IInv /\ UNCHANGED vars => IInv'
  <2> SUFFICES ASSUME IInv, UNCHANGED vars PROVE IInv'
    OBVIOUS
  <2>1. UNCHANGED <<entry, total, framing, middleware, arrived, aborted, taken, buffered, start,
                    pos, pc, call, content, outcome>>
    BY DEF vars, sent, network
  <2> QED BY <2>1 DEF IInv, Shape, Streams, Stages, Contents, BodyKept, WholeBodyHashed,
                      Drained, Overlooked, NoContent
<1> QED
  BY <1>1, NetworkStep, ReadAheadStep, AuthenticateStep, HasContentStep, DrainStep, CheckStep,
     ReadForHashStep, AnswerStep, ReadFailsStep DEF Next, Server

LEMMA IInvAlways == Spec => []IInv
BY IInvInit, IInvStep, PTL DEF Spec

(***************************************************************************)
(* Type correctness: the position lies between what was kept and what was  *)
(* taken, for bodies of any length and every way in which they arrive.     *)
(***************************************************************************)
THEOREM BodyTypeCorrect == Spec => []TypeOK
<1>1. IInv => TypeOK
  BY DEF IInv, Shape, TypeOK
<1> QED BY <1>1, IInvAlways, PTL

(***************************************************************************)
(* Behind the authentication handler the application finds the whole body, *)
(* whatever the middleware did and however HasContent was answered, except *)
(* one that has no length and that nothing has buffered, which is Drained. *)
(***************************************************************************)
THEOREM BodyAlwaysKept == Spec => []BodyKept
<1>1. IInv => BodyKept
  BY DEF IInv
<1> QED BY <1>1, IInvAlways, PTL

(***************************************************************************)
(* No request is refused for a body that is what the client sent, except   *)
(* by the handler one that it drained or overlooked (a buffered body with  *)
(* no length of which nothing was read yet); at the ext-authz service none.*)
(***************************************************************************)
THEOREM WholeBodyAlwaysHashed == Spec => []WholeBodyHashed
<1>1. IInv => WholeBodyHashed
  BY DEF IInv
<1> QED BY <1>1, IInvAlways, PTL
=============================================================================
