------------------------ MODULE SignedRequestProofs ------------------------
(***************************************************************************)
(* Theorems of SignedRequest, for any sites, words, headers and numbers of *)
(* sends.                                                                  *)
(***************************************************************************)
EXTENDS SignedRequest, SequenceLemmas

\* Where the elements of a concatenation are.
LEMMA Joined ==
    ASSUME NEW S, NEW s \in Seq(S), NEW t \in Seq(S)
    PROVE  /\ s \o t \in Seq(S) /\ Len(s \o t) = Len(s) + Len(t)
           /\ \A i \in 1..Len(s) : (s \o t)[i] = s[i]
           /\ \A i \in 1..Len(t) : (s \o t)[Len(s) + i] = t[i]
BY ConcatProperties

\* The hashes there are, and the words of signing contents.
Hashes == {<<"text", shape, version>> : shape \in AllShapes, version \in 1..2}
            \cup {<<"firstBytes", version>> : version \in 1..2}
Word == Words \cup {Key} \cup Hashes \cup {<<"date", d>> : d \in Nat}
          \cup {<<"nonce", n>> : n \in Nat}

(***************************************************************************)
(* What equal signing contents have in common: the nonce, and everything   *)
(* else, if target and values are divided alike.                           *)
(***************************************************************************)
IsContent(c, target, date, hash, values, nonce) ==
    /\ c = SigningContent(target, date, hash, values, nonce)
    /\ target \in Seq(Word) /\ date \in Nat /\ nonce \in Nat
    /\ hash \in Seq(Word) /\ values \in Seq(Seq(Word))

LEMMA ContentParts ==
    ASSUME NEW c, NEW t1, NEW d1, NEW h1, NEW v1, NEW n1, IsContent(c, t1, d1, h1, v1, n1),
           NEW t2, NEW d2, NEW h2, NEW v2, NEW n2, IsContent(c, t2, d2, h2, v2, n2)
    PROVE  /\ n1 = n2
           /\ /\ Len(t1) = Len(t2) /\ Len(v1) = Len(v2)
              /\ \A i \in 1..Len(v1) : Len(v1[i]) = Len(v2[i])
              => t1 = t2 /\ h1 = h2 /\ v1 = v2
<1>0. /\ t1 \in Seq(Word) /\ h1 \in Seq(Word) /\ v1 \in Seq(Seq(Word)) /\ d1 \in Nat /\ n1 \in Nat
      /\ t2 \in Seq(Word) /\ h2 \in Seq(Word) /\ v2 \in Seq(Seq(Word)) /\ d2 \in Nat /\ n2 \in Nat
  BY DEF IsContent
<1> DEFINE k1 == <<<<"date", d1>>, Key>>
           k2 == <<<<"date", d2>>, Key>>
           f1 == FlattenSeq(v1)
           f2 == FlattenSeq(v2)
           e1 == <<<<"nonce", n1>>>>
           e2 == <<<<"nonce", n2>>>>
<1>1. /\ k1 \in Seq(Word) /\ k2 \in Seq(Word) /\ Len(k1) = 2 /\ Len(k2) = 2
      /\ e1 \in Seq(Word) /\ e2 \in Seq(Word) /\ Len(e1) = 1 /\ Len(e2) = 1
  <2>1. /\ <<"date", d1>> \in Word /\ <<"date", d2>> \in Word /\ Key \in Word
        /\ <<"nonce", n1>> \in Word /\ <<"nonce", n2>> \in Word
    BY <1>0 DEF Word
  <2>2. \A x, y \in Word : /\ <<x, y>> \in Seq(Word) /\ Len(<<x, y>>) = 2
                           /\ <<x>> \in Seq(Word) /\ Len(<<x>>) = 1
    OBVIOUS
  <2> QED BY <2>1, <2>2
<1>2. f1 \in Seq(Word) /\ f2 \in Seq(Word)
  <2>1. \A p \in Seq(Seq(Word)) : FlattenSeq(p) \in Seq(Word)
    BY FlattenInjective
  <2> QED BY <1>0, <2>1
<1>3. t1 \o k1 \o h1 \o f1 \o e1 = t2 \o k2 \o h2 \o f2 \o e2
  BY DEF IsContent, SigningContent
<1>e. e1 = e2 => n1 = n2
  OBVIOUS
<1>j. \A x, y : x \in Seq(Word) /\ y \in Seq(Word) =>
        x \o y \in Seq(Word) /\ Len(x \o y) = Len(x) + Len(y)
  BY ConcatProperties
<1> HIDE DEF k1, k2, f1, f2, e1, e2
<1>4. /\ t1 \o k1 \in Seq(Word) /\ t2 \o k2 \in Seq(Word)
      /\ Len(t1 \o k1) = Len(t1) + Len(k1) /\ Len(t2 \o k2) = Len(t2) + Len(k2)
  BY <1>0, <1>1, <1>j, Zenon
<1>5. PICK a1, a2 : a1 = t1 \o k1 /\ a2 = t2 \o k2
  OBVIOUS
<1>6. /\ a1 \o h1 \in Seq(Word) /\ a2 \o h2 \in Seq(Word)
      /\ Len(a1 \o h1) = Len(a1) + Len(h1) /\ Len(a2 \o h2) = Len(a2) + Len(h2)
  BY <1>0, <1>4, <1>5, <1>j, Zenon
<1>7. PICK b1, b2 : b1 = a1 \o h1 /\ b2 = a2 \o h2
  OBVIOUS
<1>8. b1 \o f1 \in Seq(Word) /\ b2 \o f2 \in Seq(Word)
  BY <1>2, <1>6, <1>7, <1>j, Zenon
<1>9. PICK c1, c2 : c1 = b1 \o f1 /\ c2 = b2 \o f2
  OBVIOUS
<1>10. c1 = c2 /\ e1 = e2
  <2>1. SplitAlike(Word, c1, e1, c2, e2)
    BY <1>1, <1>3, <1>5, <1>7, <1>8, <1>9 DEF SplitAlike
  <2> QED BY <2>1, SplitEqual
<1>11. ASSUME Len(t1) = Len(t2), Len(v1) = Len(v2), \A i \in 1..Len(v1) : Len(v1[i]) = Len(v2[i])
       PROVE  t1 = t2 /\ h1 = h2 /\ v1 = v2
  <2>1. Len(f1) = Len(f2) /\ (f1 = f2 => v1 = v2)
    <3>1. /\ Len(FlattenSeq(v1)) = Len(FlattenSeq(v2))
          /\ FlattenSeq(v1) = FlattenSeq(v2) => v1 = v2
      BY <1>0, <1>11, FlattenInjective
    <3> QED BY <3>1 DEF f1, f2
  <2>2. b1 = b2 /\ f1 = f2
    <3>1. SplitAlike(Word, b1, f1, b2, f2)
      BY <1>2, <1>6, <1>7, <1>9, <1>10, <2>1 DEF SplitAlike
    <3> QED BY <3>1, SplitEqual
  <2>3. a1 = a2 /\ h1 = h2
    <3>1. Len(h1) = Len(h2)
      <4>1. Len(a1) = Len(t1) + 2 /\ Len(a2) = Len(t2) + 2
        BY <1>1, <1>4, <1>5
      <4>2. Len(b1) = Len(a1) + Len(h1) /\ Len(b2) = Len(a2) + Len(h2)
        BY <1>6, <1>7
      <4>3. Len(t1) \in Nat /\ Len(h1) \in Nat /\ Len(h2) \in Nat
        BY <1>0, LenProperties
      <4> QED BY <1>11, <2>2, <4>1, <4>2, <4>3
    <3>2. SplitAlike(Word, a1, h1, a2, h2)
      BY <1>0, <1>4, <1>5, <1>7, <2>2, <3>1 DEF SplitAlike
    <3> QED BY <3>2, SplitEqual
  <2>4. t1 = t2
    <3>1. SplitAlike(Word, t1, k1, t2, k2)
      BY <1>0, <1>1, <1>5, <2>3 DEF SplitAlike
    <3> QED BY <3>1, SplitEqual
  <2> QED BY <2>1, <2>2, <2>3, <2>4
<1> QED BY <1>10, <1>11, <1>e

-----------------------------------------------------------------------------
(* Contents of the two sides *)

AnyBody == [shape : AllShapes, version : 1..2]

LEMMA HashTypes ==
    ASSUME NEW body \in AnyBody
    PROVE  /\ ClientHash(body) \in Seq(Hashes) /\ Len(ClientHash(body)) \in 0..1
           /\ ServerHash(body) \in Seq(Hashes) /\ Len(ServerHash(body)) \in 0..1
<1>1. body.shape \in AllShapes /\ body.version \in 1..2
  BY DEF AnyBody
<1>2. <<"text", body.shape, body.version>> \in Hashes /\ <<"firstBytes", body.version>> \in Hashes
  BY <1>1 DEF Hashes
<1>3. ASSUME NEW h \in Hashes PROVE <<h>> \in Seq(Hashes) /\ Len(<<h>>) = 1
  OBVIOUS
<1>4. NoHash \in Seq(Hashes) /\ Len(NoHash) = 0
  BY DEF NoHash
<1> QED
  BY <1>2, <1>3, <1>4 DEF ClientHash, DotnetHash, ScriptHash, ServerHash, WholeText

(***************************************************************************)
(* Equal hashes of client and server are of bodies that count as equal.    *)
(***************************************************************************)
ViewBody(body) == IF body.shape = "empty" THEN [body EXCEPT !.shape = "none"] ELSE body

LEMMA EqualHashes ==
    ASSUME NEW b \in AnyBody, NEW c \in AnyBody, ClientHash(b) = ServerHash(c),
           b.shape \in {"none", "empty"} => b.version = 1,
           c.shape \in {"none", "empty"} => c.version = 1
    PROVE  ViewBody(b) = ViewBody(c)
<1>1. /\ b = [shape |-> b.shape, version |-> b.version]
      /\ c = [shape |-> c.shape, version |-> c.version]
  BY DEF AnyBody
<1>2. CASE ServerHash(c) = NoHash
  <2>1. c.shape \in {"none", "empty"}
    BY <1>2 DEF ServerHash, NoHash, WholeText
  <2>2. b.shape \in {"none", "empty"}
    BY <1>2 DEF ClientHash, DotnetHash, ScriptHash, NoHash, WholeText
  <2>3. ASSUME NEW a \in AnyBody, a.shape \in {"none", "empty"}, a.version = 1
        PROVE  ViewBody(a) = [shape |-> "none", version |-> 1]
    BY <2>3 DEF ViewBody, AnyBody
  <2> QED BY <2>1, <2>2, <2>3
<1>3. CASE ServerHash(c) # NoHash
  <2>1. ServerHash(c) = WholeText(c) /\ c.shape \notin {"none", "empty"}
    BY <1>3 DEF ServerHash
  <2>2. ClientHash(b)[1] = <<"text", c.shape, c.version>>
    BY <2>1 DEF WholeText
  <2>3. ClientHash(b) = WholeText(b)
    BY <2>2, <1>3 DEF ClientHash, DotnetHash, ScriptHash, NoHash
  <2>4. b.shape = c.shape /\ b.version = c.version
    BY <2>2, <2>3 DEF WholeText
  <2> QED BY <1>1, <2>1, <2>4 DEF ViewBody
<1> QED BY <1>2, <1>3

-----------------------------------------------------------------------------
(***************************************************************************)
(* The inductive invariant.  The request itself never changes, so every    *)
(* signing is of one view; what changes is its headers.                    *)
(***************************************************************************)
CallTypes ==
    /\ site \in Sites
    /\ now \in Nat /\ attempts \in Nat /\ signings \in Nat
    /\ step \in {"built", "signed", "waiting", "answered", "threw"}
    /\ nonces \subseteq 1..signings
    /\ accepted \subseteq nonces /\ accepted \subseteq {1}

Parts == {"target", "body", "custom", "auth", "named", "options"}

TheRequest ==
    /\ DOMAIN msg = Parts /\ msg.target = Target
    /\ msg.body \in Bodies /\ msg.custom \in [Headers -> Lines]
    /\ signedAs = [k \in 1..signings |-> SignedView(msg)]

\* What signing k signs, at the time d.
Content(d, k) == SigningContent(Target, d, ClientHash(msg.body), ValuesRead(msg), k)

(***************************************************************************)
(* The headers of m are those of n signings in the order they were made,   *)
(* of which signing i has nonce i.                                         *)
(***************************************************************************)
SignedBy(m, n) ==
    \E dates \in [1..n -> 0..now] :
      /\ m.auth = [i \in 1..n |-> Content(dates[i], i)]
      /\ m.named = IF site.consolidated THEN <<>> ELSE [i \in 1..n |-> Fields(i, dates[i])]
      /\ m.options = IF site.consolidated THEN [i \in 1..n |-> Fields(i, dates[i])] ELSE <<>>

AreFields(fields) ==
    \A f \in Elements(fields) :
      DOMAIN f = {"scheme", "nonce", "date"} /\ f.nonce \in 1..signings /\ f.date \in 0..now

FieldsOf(m) == AreFields(m.named) /\ AreFields(m.options)

Headed ==
    /\ step # "threw" => SignedBy(msg, signings) /\ (Client = "dotnet" => signings <= 1)
    /\ step = "built" => signings = 0
    /\ step \in {"signed", "waiting", "answered"} =>
         signings # 0 /\ ~MissingHeader(msg.custom, ClientScheme)
    /\ FieldsOf(msg)

Sent ==
    \A m \in wire :
      /\ DOMAIN m = Parts
      /\ m.target = msg.target /\ m.body = msg.body /\ m.custom = msg.custom
      /\ ~MissingHeader(msg.custom, ClientScheme)
      /\ \E n \in 1..signings : SignedBy(m, n) /\ (Client = "dotnet" => n = 1)

Accepted ==
    last.outcome = "success" =>
      /\ last.nonce \in 1..signings
      /\ DividedAlike(last.view, SignedView(msg)) => last.view = SignedView(msg)

IInv ==
    CallTypes /\ TheRequest /\ Headed /\ Sent /\ Accepted /\ UntouchedAccepted

LEMMA IInvInit == SignedRequestAssumption /\ Init => IInv
<1> SUFFICES ASSUME SignedRequestAssumption, Init PROVE IInv
  OBVIOUS
<1>1. PICK custom \in [Headers -> Lines], body \in Bodies :
        msg = [target |-> Target, body |-> body, custom |-> custom,
               auth |-> <<>>, named |-> <<>>, options |-> <<>>]
  BY DEF Init
<1>2. CallTypes
  BY DEF Init, CallTypes
<1>3. TheRequest
  BY <1>1 DEF Init, TheRequest, Parts
<1>4. SignedBy(msg, 0)
  <2> DEFINE dates == [i \in 1..0 |-> now]
  <2>1. dates \in [1..0 -> 0..now]
    OBVIOUS
  <2>2. /\ <<>> = [i \in 1..0 |-> Content(dates[i], i)]
        /\ <<>> = [i \in 1..0 |-> Fields(i, dates[i])]
    OBVIOUS
  <2>3. msg.auth = <<>> /\ msg.named = <<>> /\ msg.options = <<>>
    BY <1>1
  <2> HIDE DEF dates
  <2> QED BY <2>1, <2>2, <2>3 DEF SignedBy
<1>5. Headed
  BY <1>1, <1>4 DEF Init, Headed, FieldsOf, AreFields, Elements
<1>6. Sent /\ Accepted /\ UntouchedAccepted
  BY DEF Init, Sent, Accepted, UntouchedAccepted, NothingYet
<1> QED BY <1>2, <1>3, <1>5, <1>6 DEF IInv

(***************************************************************************)
(* Signings stay what they are while the request does.                     *)
(***************************************************************************)
SameCall ==
    /\ site' = site
    /\ msg'.target = msg.target /\ msg'.body = msg.body /\ msg'.custom = msg.custom
    /\ now' \in Nat /\ now <= now' /\ signings' \in Nat /\ signings <= signings'

LEMMA ContentKept ==
    SameCall => \A d, k : Content(d, k)' = Content(d, k) /\ Fields(k, d)' = Fields(k, d)
BY DEF SameCall, Content, ValuesRead, Read, ClientHash, Client, ClientScheme, Fields

LEMMA SignedByKept ==
    ASSUME CallTypes, SameCall, NEW n \in Nat, NEW m, SignedBy(m, n)
    PROVE  SignedBy(m, n)'
<1>1. PICK dates \in [1..n -> 0..now] :
        /\ m.auth = [i \in 1..n |-> Content(dates[i], i)]
        /\ m.named = IF site.consolidated THEN <<>> ELSE [i \in 1..n |-> Fields(i, dates[i])]
        /\ m.options = IF site.consolidated THEN [i \in 1..n |-> Fields(i, dates[i])] ELSE <<>>
  BY DEF SignedBy
<1>2. dates \in [1..n -> 0..now']
  BY DEF CallTypes, SameCall
<1>3. \A i \in 1..n : /\ Content(dates[i], i)' = Content(dates[i], i)
                     /\ Fields(i, dates[i])' = Fields(i, dates[i])
  BY ContentKept
<1>4. /\ m.auth = [i \in 1..n |-> Content(dates[i], i)']
      /\ m.named = IF site'.consolidated THEN <<>> ELSE [i \in 1..n |-> Fields(i, dates[i])']
      /\ m.options = IF site'.consolidated THEN [i \in 1..n |-> Fields(i, dates[i])'] ELSE <<>>
  BY <1>1, <1>3 DEF SameCall
<1> QED BY <1>2, <1>4 DEF SignedBy

LEMMA SentKept ==
    ASSUME CallTypes, Sent, SameCall, wire' \subseteq wire
    PROVE  Sent'
<1> SUFFICES ASSUME NEW m \in wire
             PROVE  /\ DOMAIN m = Parts
                    /\ m.target = msg'.target /\ m.body = msg'.body /\ m.custom = msg'.custom
                    /\ ~MissingHeader(msg'.custom, ClientScheme')
                    /\ \E n \in 1..signings' : SignedBy(m, n)' /\ (Client' = "dotnet" => n = 1)
  BY DEF Sent, MissingHeader
<1>1. PICK n \in 1..signings : SignedBy(m, n) /\ (Client = "dotnet" => n = 1)
  BY DEF Sent
<1>2. n \in 1..signings' /\ SignedBy(m, n)'
  BY <1>1, SignedByKept DEF CallTypes, SameCall
<1> QED BY <1>1, <1>2 DEF Sent, SameCall, Client, ClientScheme, MissingHeader

\* A decision that was taken remains justified.
LEMMA DecisionKept ==
    ASSUME CallTypes, SameCall, Accepted, UntouchedAccepted, UNCHANGED last
    PROVE  Accepted' /\ UntouchedAccepted'
<1>1. SignedView(msg)' = SignedView(msg)
  BY DEF SameCall, SignedView, View, HeaderValues, ValuesRead, Read, ClientScheme, Client
<1>2. Accepted'
  BY <1>1 DEF CallTypes, SameCall, Accepted
<1>3. SidesDiffer => SidesDiffer'
  BY DEF CallTypes, SameCall, SidesDiffer, ServerScheme, ClientScheme, Client
<1>4. UntouchedAccepted'
  BY <1>3 DEF UntouchedAccepted
<1> QED BY <1>2, <1>4

\* The headers of a message are lists.
LEMMA SignedLists ==
    ASSUME NEW n \in Nat, NEW m, SignedBy(m, n)
    PROVE  Len(m.named) \in Nat /\ Len(m.options) \in Nat
<1>1. PICK dates \in [1..n -> 0..now] :
        /\ m.named = IF site.consolidated THEN <<>> ELSE [i \in 1..n |-> Fields(i, dates[i])]
        /\ m.options = IF site.consolidated THEN [i \in 1..n |-> Fields(i, dates[i])] ELSE <<>>
  BY DEF SignedBy
<1>2. Len(<<>>) = 0 /\ Len([i \in 1..n |-> Fields(i, dates[i])]) = n
  OBVIOUS
<1> QED BY <1>1, <1>2

LEMMA SignedFields ==
    ASSUME CallTypes, NEW n \in 0..signings, NEW m, SignedBy(m, n)
    PROVE  FieldsOf(m)
<1>1. PICK dates \in [1..n -> 0..now] :
        /\ m.named = IF site.consolidated THEN <<>> ELSE [i \in 1..n |-> Fields(i, dates[i])]
        /\ m.options = IF site.consolidated THEN [i \in 1..n |-> Fields(i, dates[i])] ELSE <<>>
  BY DEF SignedBy
<1>2. n \in Nat /\ Len(<<>>) = 0 /\ Len([i \in 1..n |-> Fields(i, dates[i])]) = n
  BY DEF CallTypes
<1>3. \A i \in 1..n : /\ Fields(i, dates[i]).nonce \in 1..signings
                     /\ Fields(i, dates[i]).date \in 0..now
                     /\ DOMAIN Fields(i, dates[i]) = {"scheme", "nonce", "date"}
  BY DEF CallTypes, Fields
<1>4. AreFields(<<>>) /\ AreFields([i \in 1..n |-> Fields(i, dates[i])])
  BY <1>2, <1>3 DEF AreFields, Elements
<1> QED BY <1>1, <1>4 DEF FieldsOf

\* One element more.
LEMMA Longer ==
    ASSUME NEW n \in Nat, NEW f, f = [i \in 1..n |-> f[i]], NEW e
    PROVE  f \o <<e>> = [i \in 1..n + 1 |-> IF i <= n THEN f[i] ELSE e]
<1> DEFINE S == {f[i] : i \in 1..n} \cup {e}
           t == [i \in 1..n + 1 |-> IF i <= n THEN f[i] ELSE e]
<1>1. f \in Seq(S) /\ Len(f) = n
  OBVIOUS
<1>2. <<e>> \in Seq(S) /\ Len(<<e>>) = 1 /\ <<e>>[1] = e
  OBVIOUS
<1>3. t \in Seq(S) /\ Len(t) = n + 1
  OBVIOUS
<1> HIDE DEF S
<1>4. /\ f \o <<e>> \in Seq(S) /\ Len(f \o <<e>>) = n + 1
      /\ \A i \in 1..n : (f \o <<e>>)[i] = f[i]
      /\ (f \o <<e>>)[n + 1] = e
  BY <1>1, <1>2, Joined
<1>5. \A i \in 1..n + 1 : (f \o <<e>>)[i] = t[i]
  BY <1>4
<1> HIDE DEF t
<1>6. f \o <<e>> = t
  BY <1>3, <1>4, <1>5, SeqEqual
<1> QED BY <1>6 DEF t

\* A list of functions' domain, with an element more or none.
IsList(f, n) == f = [i \in 1..n |-> f[i]]

LEMMA ElementsMore ==
    ASSUME NEW n \in Nat, NEW f, IsList(f, n), NEW e
    PROVE  /\ f \o <<>> = f
           /\ Elements(f \o <<e>>) \subseteq Elements(f) \cup {e}
<1> DEFINE S == {f[i] : i \in 1..n}
<1>1. f \in Seq(S) /\ Len(f) = n
  BY DEF IsList
<1> HIDE DEF S
<1>2. f \o <<>> = f
  BY <1>1, ConcatEmptySeq
<1>3. f \o <<e>> = [i \in 1..n + 1 |-> IF i <= n THEN f[i] ELSE e]
  BY Longer DEF IsList
<1>4. Len(f \o <<e>>) = n + 1
  BY <1>3
<1>5. \A i \in 1..n + 1 : (f \o <<e>>)[i] \in Elements(f) \cup {e}
  BY <1>1, <1>3 DEF Elements
<1>6. Elements(f \o <<e>>) = {(f \o <<e>>)[i] : i \in 1..n + 1}
  BY <1>4 DEF Elements
<1> QED BY <1>2, <1>5, <1>6

-----------------------------------------------------------------------------
(* Signing and sending *)

LEMMA RequestKept ==
    ASSUME TheRequest, UNCHANGED <<site, msg, signings, signedAs>>
    PROVE  TheRequest'
<1>1. SignedView(msg)' = SignedView(msg)
  BY DEF SignedView, View, HeaderValues, ValuesRead, Read, ClientScheme, Client
<1> QED BY <1>1 DEF TheRequest

LEMMA SignedViewsMore ==
    ASSUME CallTypes, TheRequest, SameCall, signings' = signings + 1,
           signedAs' = Append(signedAs, SignedView(msg)),
           DOMAIN msg' = DOMAIN msg
    PROVE  TheRequest'
<1>1. SignedView(msg)' = SignedView(msg)
  BY DEF SameCall, SignedView, View, HeaderValues, ValuesRead, Read, ClientScheme, Client
<1>2. Append(signedAs, SignedView(msg)) = [k \in 1..signings + 1 |-> SignedView(msg)]
  <2>1. \A v : Append([k \in 1..signings |-> v], v) = [k \in 1..signings + 1 |-> v]
    BY DEF CallTypes
  <2> QED BY <2>1 DEF TheRequest
<1>3. msg'.body \in Bodies /\ msg'.custom \in [Headers -> Lines]
  BY DEF TheRequest, SameCall
<1> QED BY <1>1, <1>2, <1>3 DEF TheRequest, SameCall

LEMMA SignedMore ==
    ASSUME CallTypes, SameCall, UNCHANGED now, signings' = signings + 1, SignedBy(msg, signings),
           msg'.auth = msg.auth \o <<Content(now, signings + 1)>>,
           msg'.named = msg.named \o
             (IF site.consolidated THEN <<>> ELSE <<Fields(signings + 1, now)>>),
           msg'.options = msg.options \o
             (IF site.consolidated THEN <<Fields(signings + 1, now)>> ELSE <<>>)
    PROVE  SignedBy(msg, signings)'
<1>1. PICK dates \in [1..signings -> 0..now] :
        /\ msg.auth = [i \in 1..signings |-> Content(dates[i], i)]
        /\ msg.named = IF site.consolidated THEN <<>>
                       ELSE [i \in 1..signings |-> Fields(i, dates[i])]
        /\ msg.options = IF site.consolidated THEN [i \in 1..signings |-> Fields(i, dates[i])]
                         ELSE <<>>
  BY DEF SignedBy
<1>2. PICK more \in [1..signings + 1 -> 0..now] :
        more[signings + 1] = now /\ \A i \in 1..signings : more[i] = dates[i]
  <2> DEFINE f == [i \in 1..signings + 1 |-> IF i <= signings THEN dates[i] ELSE now]
  <2>1. f \in [1..signings + 1 -> 0..now] /\ f[signings + 1] = now
        /\ \A i \in 1..signings : f[i] = dates[i]
    BY DEF CallTypes
  <2> QED BY <2>1
<1> DEFINE fields == [i \in 1..signings |-> Fields(i, dates[i])]
           allFields == [i \in 1..signings + 1 |-> Fields(i, more[i])]
<1>3. msg'.auth = [i \in 1..signings + 1 |-> Content(more[i], i)]
  <2>1. signings \in Nat /\ msg.auth = [i \in 1..signings |-> msg.auth[i]]
    BY <1>1 DEF CallTypes
  <2>2. msg'.auth = [i \in 1..signings + 1 |-> IF i <= signings THEN msg.auth[i]
                                              ELSE Content(now, signings + 1)]
    BY <2>1, Longer
  <2>3. ASSUME NEW i \in 1..signings + 1
        PROVE  (IF i <= signings THEN msg.auth[i] ELSE Content(now, signings + 1))
                 = Content(more[i], i)
    <3>1. CASE i \in 1..signings
      BY <1>1, <1>2, <2>1, <3>1
    <3>2. CASE i = signings + 1
      BY <1>2, <2>1, <3>2
    <3> QED BY <2>1, <3>1, <3>2
  <2> QED BY <2>2, <2>3
<1>4. fields \o <<Fields(signings + 1, now)>> = allFields
  <2>1. signings \in Nat /\ fields = [i \in 1..signings |-> fields[i]]
    BY DEF CallTypes
  <2>2. fields \o <<Fields(signings + 1, now)>> =
          [i \in 1..signings + 1 |-> IF i <= signings THEN fields[i] ELSE Fields(signings + 1, now)]
    BY <2>1, Longer
  <2>3. ASSUME NEW i \in 1..signings + 1
        PROVE  (IF i <= signings THEN fields[i] ELSE Fields(signings + 1, now)) = Fields(i, more[i])
    <3>1. CASE i \in 1..signings
      BY <1>2, <2>1, <3>1
    <3>2. CASE i = signings + 1
      BY <1>2, <2>1, <3>2
    <3> QED BY <2>1, <3>1, <3>2
  <2> QED BY <2>2, <2>3
<1>5. /\ msg'.named = IF site.consolidated THEN <<>> ELSE allFields
      /\ msg'.options = IF site.consolidated THEN allFields ELSE <<>>
  <2>1. <<>> \o <<>> = <<>>
    OBVIOUS
  <2> QED BY <1>1, <1>4, <2>1
<1>6. \A i \in 1..signings + 1 : /\ Content(more[i], i)' = Content(more[i], i)
                                /\ Fields(i, more[i])' = Fields(i, more[i])
  BY ContentKept
<1>7. /\ msg'.auth = [i \in 1..signings' |-> Content(more[i], i)']
      /\ msg'.named = IF site'.consolidated THEN <<>> ELSE [i \in 1..signings' |-> Fields(i, more[i])']
      /\ msg'.options = IF site'.consolidated THEN [i \in 1..signings' |-> Fields(i, more[i])'] ELSE <<>>
  BY <1>3, <1>5, <1>6 DEF SameCall
<1>8. more \in [1..signings' -> 0..now']
  OBVIOUS
<1> QED BY <1>7, <1>8 DEF SignedBy

LEMMA FieldsMore ==
    ASSUME CallTypes, UNCHANGED now, signings' = signings + 1, SignedBy(msg, signings),
           FieldsOf(msg),
           msg'.named \in {msg.named, msg.named \o <<>>,
                           msg.named \o <<Fields(signings + 1, now)>>},
           msg'.options \in {msg.options \o <<>>,
                             msg.options \o <<Fields(signings + 1, now)>>}
    PROVE  FieldsOf(msg)'
<1>0. /\ \E n \in Nat : IsList(msg.named, n)
      /\ \E n \in Nat : IsList(msg.options, n)
  <2>1. signings \in Nat /\ IsList(<<>>, 0)
    BY DEF CallTypes, IsList
  <2>3. PICK dates \in [1..signings -> 0..now] :
          /\ msg.named = IF site.consolidated THEN <<>>
                         ELSE [i \in 1..signings |-> Fields(i, dates[i])]
          /\ msg.options = IF site.consolidated THEN [i \in 1..signings |-> Fields(i, dates[i])]
                           ELSE <<>>
    BY DEF SignedBy
  <2>4. IsList([i \in 1..signings |-> Fields(i, dates[i])], signings)
    BY DEF IsList
  <2> QED BY <2>1, <2>3, <2>4
<1>1. PICK n \in Nat : IsList(msg.named, n)
  BY <1>0
<1>2. PICK k \in Nat : IsList(msg.options, k)
  BY <1>0
<1>e. PICK e : e = Fields(signings + 1, now)
  OBVIOUS
<1>3. Elements(msg'.named) \subseteq Elements(msg.named) \cup {e}
  <2>1. msg.named \o <<>> = msg.named /\ Elements(msg.named \o <<e>>) \subseteq Elements(msg.named) \cup {e}
    BY <1>1, ElementsMore
  <2> QED BY <1>e, <2>1
<1>4. Elements(msg'.options) \subseteq Elements(msg.options) \cup {e}
  <2>1. /\ msg.options \o <<>> = msg.options
        /\ Elements(msg.options \o <<e>>) \subseteq Elements(msg.options) \cup {e}
    BY <1>2, ElementsMore
  <2> QED BY <1>e, <2>1
<1>5. /\ e.nonce \in 1..signings' /\ e.date \in 0..now'
      /\ DOMAIN e = {"scheme", "nonce", "date"}
  BY <1>e DEF CallTypes, Fields
<1>6. \A f \in Elements(msg.named) \cup Elements(msg.options) :
        /\ f.nonce \in 1..signings' /\ f.date \in 0..now'
        /\ DOMAIN f = {"scheme", "nonce", "date"}
  BY DEF CallTypes, FieldsOf, AreFields
<1>7. \A f \in Elements(msg'.named) \cup Elements(msg'.options) :
        /\ f.nonce \in 1..signings' /\ f.date \in 0..now'
        /\ DOMAIN f = {"scheme", "nonce", "date"}
  BY <1>3, <1>4, <1>5, <1>6
<1> QED BY <1>7 DEF FieldsOf, AreFields, Elements

LEMMA SignMessageStep ==
    ASSUME SignedRequestAssumption, IInv, step \in {"built", "waiting"}, SignMessage,
           UNCHANGED <<site, now, attempts, wire, nonces, accepted, last>>
    PROVE  IInv'
<1> DEFINE fields == Fields(signings + 1, now)
           signature == Content(now, signings + 1)
<1> USE DEF IInv
<1>1. signature = Signature(msg, signings + 1)
  BY DEF TheRequest, Content, Signature
<1>2. PICK dates \in [1..signings -> 0..now] :
        /\ msg.auth = [i \in 1..signings |-> Content(dates[i], i)]
        /\ msg.named = IF site.consolidated THEN <<>>
                       ELSE [i \in 1..signings |-> Fields(i, dates[i])]
        /\ msg.options = IF site.consolidated THEN [i \in 1..signings |-> Fields(i, dates[i])]
                         ELSE <<>>
  BY DEF Headed, SignedBy
<1>3. CASE MissingHeader(msg.custom, ClientScheme)
  <2>1. step' = "threw" /\ UNCHANGED <<msg, signings, signedAs>>
    BY <1>3 DEF SignMessage
  <2>2. SameCall
    BY <2>1 DEF CallTypes, SameCall
  <2>3. CallTypes' /\ TheRequest' /\ Headed'
    BY <2>1, RequestKept DEF CallTypes, Headed, FieldsOf, AreFields
  <2> QED BY <2>1, <2>2, <2>3, SentKept, DecisionKept
<1>4. CASE ~MissingHeader(msg.custom, ClientScheme)
  <2>1. signings' = signings + 1 /\ signedAs' = Append(signedAs, SignedView(msg))
    BY <1>4 DEF SignMessage
  <2>2. CASE AddRangeThrows(msg)
    <3>1. step' = "threw" /\ msg' = WithPartOfHeaders(msg, Built(fields, signature))
      BY <1>1, <1>4, <2>2 DEF SignMessage
    <3>2. /\ DOMAIN msg' = DOMAIN msg
          /\ UNCHANGED <<msg.target, msg.body, msg.custom, msg.auth, msg.named>>
          /\ msg'.options = msg.options \o (IF site.consolidated THEN <<fields>> ELSE <<>>)
      <4>1. msg' = [msg EXCEPT !.options = msg.options \o Built(fields, signature).options]
        BY <3>1 DEF WithPartOfHeaders
      <4>2. Built(fields, signature).options = IF site.consolidated THEN <<fields>> ELSE <<>>
        BY DEF Built
      <4> HIDE DEF fields, signature
      <4> QED BY <4>1, <4>2 DEF TheRequest, Parts
    <3>3. SameCall
      BY <2>1, <3>2 DEF CallTypes, SameCall
    <3>4. TheRequest'
      BY <2>1, <3>2, <3>3, SignedViewsMore
    <3>5. FieldsOf(msg)'
      BY <2>1, <3>2, FieldsMore DEF Headed
    <3>6. CallTypes' /\ Headed'
      BY <2>1, <3>1, <3>5 DEF CallTypes, Headed
    <3> QED BY <3>3, <3>4, <3>6, SentKept, DecisionKept
  <2>3. CASE ~AddRangeThrows(msg)
    <3>1. step' = "signed" /\ msg' = WithHeaders(msg, Built(fields, signature))
      BY <1>1, <1>4, <2>3 DEF SignMessage
    <3>2. /\ DOMAIN msg' = DOMAIN msg
          /\ UNCHANGED <<msg.target, msg.body, msg.custom>>
          /\ msg'.auth = msg.auth \o <<signature>>
          /\ msg'.named = msg.named \o (IF site.consolidated THEN <<>> ELSE <<fields>>)
          /\ msg'.options = msg.options \o (IF site.consolidated THEN <<fields>> ELSE <<>>)
      <4> DEFINE built == Built(fields, signature)
      <4>1. msg' = [msg EXCEPT !.auth = msg.auth \o built.auth, !.named = msg.named \o built.named,
                              !.options = msg.options \o built.options]
        BY <3>1 DEF WithHeaders
      <4>2. /\ built.auth = <<signature>>
            /\ built.named = IF site.consolidated THEN <<>> ELSE <<fields>>
            /\ built.options = IF site.consolidated THEN <<fields>> ELSE <<>>
        BY DEF Built
      <4> HIDE DEF fields, signature, built
      <4> QED BY <4>1, <4>2 DEF TheRequest, Parts
    <3>3. SameCall
      BY <2>1, <3>2 DEF CallTypes, SameCall
    <3>4. TheRequest'
      BY <2>1, <3>2, <3>3, SignedViewsMore
    <3>5. SignedBy(msg, signings)'
      BY <2>1, <3>2, <3>3, SignedMore DEF Headed
    <3>6. FieldsOf(msg)'
      BY <2>1, <3>2, FieldsMore DEF Headed
    <3>7. Client = "dotnet" => signings = 0
      <4>1. msg.auth = [i \in 1..signings |-> msg.auth[i]] /\ signings \in Nat
        BY <1>2 DEF CallTypes
      <4>2. Client = "dotnet" => msg.auth = <<>>
        BY <2>3 DEF AddRangeThrows, HasAuthorization
      <4>3. msg.auth = <<>> => signings = 0
        BY <4>1
      <4> QED BY <4>2, <4>3
    <3>8. ~MissingHeader(msg.custom, ClientScheme)' /\ Client' = Client
      <4>1. msg'.custom = msg.custom
        BY <3>2
      <4> QED BY <1>4, <4>1 DEF MissingHeader, ClientScheme, Client
    <3>9. CallTypes'
      BY <2>1, <3>1 DEF CallTypes
    <3>10. Headed'
      BY <2>1, <3>1, <3>5, <3>6, <3>7, <3>8 DEF CallTypes, Headed
    <3> QED BY <3>3, <3>4, <3>9, <3>10, SentKept, DecisionKept
  <2> QED BY <2>2, <2>3
<1> QED BY <1>3, <1>4

LEMMA HeadedKept ==
    ASSUME CallTypes, Headed, SameCall, UNCHANGED <<msg, signings>>,
           \/ UNCHANGED step
           \/ step \in {"signed", "waiting"} /\ step' \in {"signed", "waiting", "answered"}
    PROVE  Headed'
<1>1. SignedBy(msg, signings) => SignedBy(msg, signings)'
  <2> SUFFICES ASSUME SignedBy(msg, signings) PROVE SignedBy(msg, signings)'
    OBVIOUS
  <2>1. PICK m, n : m = msg /\ n = signings
    OBVIOUS
  <2>2. n \in Nat /\ SignedBy(m, n)
    BY <2>1 DEF CallTypes
  <2>3. SignedBy(m, n)'
    BY <2>2, SignedByKept
  <2>4. m = msg' /\ n = signings'
    BY <2>1
  <2> QED BY <2>3, <2>4 DEF SignedBy
<1>2. FieldsOf(msg)'
  BY DEF CallTypes, Headed, SameCall, FieldsOf, AreFields, Elements
<1>3. /\ Client' = Client
      /\ MissingHeader(msg.custom, ClientScheme)' <=> MissingHeader(msg.custom, ClientScheme)
  BY DEF SameCall, Client, ClientScheme, MissingHeader
<1> QED BY <1>1, <1>2, <1>3 DEF Headed

LEMMA SendStep == SignedRequestAssumption /\ IInv /\ Send => IInv'
<1> SUFFICES ASSUME IInv, Send PROVE IInv'
  OBVIOUS
<1> USE DEF IInv
<1>1. /\ step = "signed" /\ step' = "waiting" /\ attempts' = attempts + 1 /\ wire' = wire \cup {msg}
      /\ UNCHANGED <<site, now, msg, signings, nonces, accepted, signedAs, last>>
  BY DEF Send
<1>2. SameCall
  BY <1>1 DEF CallTypes, SameCall
<1>3. CallTypes' /\ TheRequest'
  BY <1>1, RequestKept DEF CallTypes
<1>4. Headed'
  BY <1>1, <1>2, HeadedKept
<1>5. Sent'
  <2>1. ASSUME NEW m \in wire \cup {msg}
        PROVE  /\ DOMAIN m = Parts
               /\ m.target = msg.target /\ m.body = msg.body /\ m.custom = msg.custom
               /\ ~MissingHeader(msg.custom, ClientScheme)
               /\ \E n \in 1..signings : SignedBy(m, n) /\ (Client = "dotnet" => n = 1)
    <3>1. CASE m \in wire
      BY <3>1 DEF Sent
    <3>2. CASE m = msg
      <4>1. signings \in 1..signings /\ (Client = "dotnet" => signings = 1)
        BY <1>1 DEF CallTypes, Headed
      <4>2. SignedBy(m, signings)
        BY <1>1, <3>2 DEF Headed
      <4> QED BY <1>1, <3>2, <4>1, <4>2 DEF Headed, TheRequest
    <3> QED BY <3>1, <3>2
  <2>2. ASSUME NEW m \in wire', NEW n \in 1..signings, SignedBy(m, n)
        PROVE  SignedBy(m, n)'
    BY <1>2, <2>2, SignedByKept DEF CallTypes
  <2> QED BY <1>1, <2>1, <2>2 DEF Sent, MissingHeader, ClientScheme, Client
<1>6. Accepted' /\ UntouchedAccepted'
  BY <1>1, <1>2, DecisionKept
<1> QED BY <1>3, <1>4, <1>5, <1>6

LEMMA TickStep == SignedRequestAssumption /\ IInv /\ (Resend \/ Tick) => IInv'
<1> SUFFICES ASSUME IInv, Resend \/ Tick PROVE IInv'
  OBVIOUS
<1> USE DEF IInv
<1>1. /\ UNCHANGED <<site, msg, attempts, signings, wire, nonces, accepted,
                     signedAs, last>>
      /\ \/ step = "waiting" /\ step' = "signed" /\ UNCHANGED now
         \/ UNCHANGED step /\ now' = now + 1
  BY DEF Resend, Tick
<1>2. SameCall
  BY <1>1 DEF CallTypes, SameCall
<1>3. CallTypes' /\ TheRequest'
  BY <1>1, RequestKept DEF CallTypes
<1>4. Headed'
  BY <1>1, <1>2, HeadedKept
<1>5. Sent' /\ Accepted' /\ UntouchedAccepted'
  BY <1>1, <1>2, SentKept, DecisionKept
<1> QED BY <1>3, <1>4, <1>5

-----------------------------------------------------------------------------
(* Delivery *)

\* What is changed in fields on the way are dates and schemes.
LEMMA ChangedFields ==
    ASSUME CallTypes, NEW s, Len(s) \in Nat, AreFields(s), NEW scheme, NEW redated \in BOOLEAN
    PROVE  AreFields(Rewritten(s, scheme, redated))
<1> DEFINE r == Rewritten(s, scheme, redated)
<1>1. \A i \in 1..Len(s) : /\ DOMAIN s[i] = {"scheme", "nonce", "date"}
                          /\ s[i].nonce \in 1..signings /\ s[i].date \in 0..now
  BY DEF AreFields, Elements
<1>2. Len(r) = Len(s)
  BY DEF Rewritten
<1>3. ASSUME NEW i \in 1..Len(s)
      PROVE  /\ DOMAIN r[i] = {"scheme", "nonce", "date"}
             /\ r[i].nonce \in 1..signings /\ r[i].date \in 0..now
  <2>1. r[i] = [s[i] EXCEPT !.scheme = scheme, !.date = IF redated THEN now ELSE @]
    BY DEF Rewritten
  <2>2. now \in 0..now
    BY DEF CallTypes
  <2>3. r[i].nonce = s[i].nonce /\ r[i].date \in {s[i].date, now} /\ DOMAIN r[i] = DOMAIN s[i]
    BY <1>1, <2>1
  <2> QED BY <1>1, <2>2, <2>3
<1> HIDE DEF r
<1>4. AreFields(r)
  BY <1>2, <1>3 DEF AreFields, Elements
<1> QED BY <1>4 DEF r

LEMMA ArrivedTypes ==
    ASSUME SignedRequestAssumption, IInv, NEW m \in wire, NEW a \in {m} \cup Altered(m)
    PROVE  /\ a.auth = m.auth
           /\ a.target \in Seq(Words)
           /\ a.body \in AnyBody /\ (a.body.shape \in {"none", "empty"} => a.body.version = 1)
           /\ \A h \in Headers : a.custom[h] \in Seq(Words)
           /\ FieldsOf(a)
<1>0. ASSUME a \in Altered(m)
      PROVE  \E target \in Targets, body \in OtherBodies(m), custom \in OtherLines(m),
                scheme \in BOOLEAN, redated \in BOOLEAN :
               a = Changed(m, target, body, custom, scheme, redated)
  BY <1>0 DEF Altered
<1> USE DEF IInv
<1>1. /\ DOMAIN m = Parts /\ m.target = Target /\ m.body \in Bodies
      /\ m.custom \in [Headers -> Lines]
  BY DEF Sent, TheRequest
<1>2. FieldsOf(m) /\ Len(m.named) \in Nat /\ Len(m.options) \in Nat
  BY SignedFields, SignedLists DEF Sent, CallTypes
<1>3. Target \in Seq(Words) /\ Targets \subseteq Seq(Words) /\ Lines \subseteq Seq(Words)
  BY DEF SignedRequestAssumption
<1>4. m.body \in AnyBody /\ m.body.version = 1
  BY <1>1 DEF Bodies, AnyBody, SignedRequestAssumption
<1>5. CASE a = m
  BY <1>1, <1>2, <1>3, <1>4, <1>5
<1>6. CASE a \in Altered(m)
  <2>1. PICK target \in Targets, body \in OtherBodies(m), custom \in OtherLines(m),
             scheme \in BOOLEAN, redated \in BOOLEAN :
          a = Changed(m, target, body, custom, scheme, redated)
    BY <1>0, <1>6
  <2>2. /\ a.auth = m.auth /\ a.target = target /\ a.body = body /\ a.custom = custom
        /\ a.named = Rewritten(m.named, scheme, redated)
        /\ a.options = Rewritten(m.options, scheme, redated)
    BY <1>1, <2>1 DEF Parts, Changed
  <2>3. FieldsOf(a)
    BY <1>2, <2>2, ChangedFields DEF FieldsOf
  <2>4. body \in AnyBody /\ (body.shape \in {"none", "empty"} => body.version = 1)
    <3>1. body \in {m.body, [shape |-> "oneChunk", version |-> 2], [shape |-> "none", version |-> 1]}
      BY DEF OtherBodies
    <3>2. \A b \in {[shape |-> "oneChunk", version |-> 2], [shape |-> "none", version |-> 1]} :
            b \in AnyBody /\ (b.shape \in {"none", "empty"} => b.version = 1)
      BY DEF AnyBody, AllShapes
    <3> QED BY <1>4, <3>1, <3>2
  <2>5. \A h \in Headers : custom[h] \in Seq(Words)
    <3>1. PICK lines \in [Elements(ServerScheme) -> Lines] :
            custom = [h \in Headers |-> IF h \in Elements(ServerScheme) THEN lines[h]
                                                                      ELSE m.custom[h]]
      BY DEF OtherLines
    <3> QED BY <1>1, <1>3, <3>1
  <2> QED BY <1>3, <2>2, <2>3, <2>4, <2>5
<1> QED BY <1>5, <1>6

LEMMA ParsedFields ==
    ASSUME NEW a, FieldsOf(a), NEW lower, Parsed(a, lower) # <<>>
    PROVE  Parsed(a, lower)[1].nonce \in 1..signings /\ Parsed(a, lower)[1].date \in 0..now
<1>1. \/ Parsed(a, lower) = a.options /\ Len(a.options) = 1
      \/ Parsed(a, lower) = a.named /\ Len(a.named) = 1
  BY DEF Parsed
<1> QED BY <1>1 DEF FieldsOf, AreFields, Elements

(***************************************************************************)
(* The first value of a line is the line up to its first comma.            *)
(***************************************************************************)
LEMMA FirstValueTypes ==
    ASSUME NEW line \in Seq(Words)
    PROVE  FirstValue(line) \in Seq(Words) /\ (Comma \notin Elements(line) => FirstValue(line) = line)
<1> DEFINE IsFirst(i) == line[i] = Comma /\ Comma \notin Elements(SubSeq(line, 1, i - 1))
<1>1. CASE Comma \in Elements(line)
  <2> DEFINE places == {i \in 1..Len(line) : line[i] = Comma}
  <2>1. places \subseteq Nat /\ places # {}
    BY <1>1 DEF Elements
  <2> HIDE DEF places
  <2>2. PICK i \in places : \A k \in places : i <= k
    BY <2>1, FirstPlace
  <2>3. i \in 1..Len(line) /\ line[i] = Comma /\ \A k \in 1..Len(line) : line[k] = Comma => i <= k
    BY <2>2 DEF places
  <2>4. Comma \notin Elements(SubSeq(line, 1, i - 1))
    <3>1. /\ Len(SubSeq(line, 1, i - 1)) = i - 1
          /\ \A k \in 1..(i - 1) : SubSeq(line, 1, i - 1)[k] = line[k]
      BY <2>3
    <3> QED BY <2>3, <3>1 DEF Elements
  <2>5. \E k \in 1..Len(line) : IsFirst(k)
    BY <2>3, <2>4
  <2> DEFINE first == CHOOSE k \in 1..Len(line) : IsFirst(k)
  <2>6. first \in 1..Len(line)
    BY <2>5
  <2>7. FirstValue(line) = SubSeq(line, 1, first - 1)
    BY <1>1 DEF FirstValue
  <2> HIDE DEF first
  <2>8. SubSeq(line, 1, first - 1) \in Seq(Words)
    BY <2>6
  <2> QED BY <1>1, <2>7, <2>8
<1>2. CASE Comma \notin Elements(line)
  BY <1>2 DEF FirstValue
<1> QED BY <1>1, <1>2

\* The types of what the client reads.
LEMMA ReadTypes ==
    ASSUME SignedRequestAssumption, CallTypes, TheRequest
    PROVE  /\ ClientScheme \in Seq(Headers) /\ ServerScheme \in Seq(Headers)
           /\ ValuesRead(msg) \in Seq(Seq(Words)) /\ Len(ValuesRead(msg)) = Len(ClientScheme)
           /\ \A i \in 1..Len(ClientScheme) : msg.custom[ClientScheme[i]] \in Seq(Words)
<1>1. ClientScheme \in Seq(Headers) /\ ServerScheme \in Seq(Headers)
  BY DEF SignedRequestAssumption, CallTypes, ClientScheme, ServerScheme
<1>2. ASSUME NEW i \in 1..Len(ClientScheme)
      PROVE  /\ msg.custom[ClientScheme[i]] \in Seq(Words)
             /\ Read(msg.custom[ClientScheme[i]]) \in Seq(Words)
  <2>1. ClientScheme[i] \in Headers
    BY <1>1, ElementOfSeq
  <2>2. msg.custom[ClientScheme[i]] \in Seq(Words)
    BY <2>1 DEF TheRequest, SignedRequestAssumption
  <2> QED BY <2>2, FirstValueTypes DEF Read
<1>3. Len(ClientScheme) \in Nat
  BY <1>1, LenProperties
<1>4. ValuesRead(msg) \in Seq(Seq(Words)) /\ Len(ValuesRead(msg)) = Len(ClientScheme)
  BY <1>2, <1>3 DEF ValuesRead
<1> QED BY <1>1, <1>2, <1>4

(***************************************************************************)
(* A message that is let through carries the nonce of the first signing,   *)
(* and target, body and headers as they were then, if they are divided as  *)
(* they were then.                                                         *)
(***************************************************************************)
LEMMA AcceptedIsSigned ==
    ASSUME SignedRequestAssumption, IInv, NEW m \in wire, NEW a \in {m} \cup Altered(m),
           NEW lower, Parsed(a, lower) # <<>>, NEW fields, fields = Parsed(a, lower)[1],
           NEW found, Decision(a, fields, found) = "success"
    PROVE  /\ fields.nonce = 1
           /\ DividedAlike(View(a, SchemeOf(fields)), SignedView(msg)) =>
                View(a, SchemeOf(fields)) = SignedView(msg)
<1> DEFINE scheme == SchemeOf(fields)
           values == HeaderValues(a.custom, scheme)
           read == ValuesRead(msg)
<1>1. PICK n \in 1..signings : SignedBy(m, n)
  BY DEF IInv, Sent
<1>2. PICK date \in 0..now : a.auth[1] = Content(date, 1)
  <2>1. PICK dates \in [1..n -> 0..now] : m.auth = [i \in 1..n |-> Content(dates[i], i)]
    BY <1>1 DEF SignedBy
  <2>2. 1 \in 1..n
    BY DEF IInv, CallTypes
  <2> QED BY <2>1, <2>2, ArrivedTypes
<1>3. /\ a.target \in Seq(Words)
      /\ a.body \in AnyBody /\ (a.body.shape \in {"none", "empty"} => a.body.version = 1)
      /\ \A h \in Headers : a.custom[h] \in Seq(Words)
      /\ FieldsOf(a)
  BY ArrivedTypes
<1>4. fields.nonce \in Nat /\ fields.date \in Nat /\ date \in Nat
  BY <1>3, ParsedFields DEF IInv, CallTypes
<1>5. scheme \in Seq(Headers) /\ read \in Seq(Seq(Words))
  <2>1. <<>> \in Seq(Headers)
    OBVIOUS
  <2> QED BY <2>1, ReadTypes DEF IInv, SchemeOf
<1>6. values \in Seq(Seq(Words)) /\ Len(values) = Len(scheme)
  <2>1. Len(scheme) \in Nat /\ \A i \in 1..Len(scheme) : scheme[i] \in Headers
    BY <1>5, ElementOfSeq, LenProperties
  <2>2. \A i \in 1..Len(scheme) : a.custom[scheme[i]] \in Seq(Words)
    BY <1>3, <2>1
  <2> HIDE DEF scheme
  <2> QED BY <2>1, <2>2 DEF HeaderValues
<1>7. Rebuilt(a, fields) = a.auth[1]
  BY DEF Decision
<1>8. msg.body \in AnyBody /\ msg.body.version = 1 /\ msg.target = Target /\ Target \in Seq(Words)
  BY DEF IInv, TheRequest, Bodies, AnyBody, SignedRequestAssumption
<1>9. ClientHash(msg.body) \in Seq(Hashes) /\ ServerHash(a.body) \in Seq(Hashes)
  BY <1>3, <1>8, HashTypes
<1>10. /\ IsContent(a.auth[1], a.target, fields.date, ServerHash(a.body), values, fields.nonce)
       /\ IsContent(a.auth[1], Target, date, ClientHash(msg.body), read, 1)
  <2>1. /\ a.auth[1] = SigningContent(a.target, fields.date, ServerHash(a.body), values, fields.nonce)
        /\ a.auth[1] = SigningContent(Target, date, ClientHash(msg.body), read, 1)
    BY <1>2, <1>7 DEF Rebuilt, Content
  <2>2. Words \subseteq Word /\ Hashes \subseteq Word
    BY DEF Word
  <2>3. /\ Seq(Words) \subseteq Seq(Word) /\ Seq(Hashes) \subseteq Seq(Word)
        /\ Seq(Seq(Words)) \subseteq Seq(Seq(Word))
    BY <2>2, SeqMonotonic
  <2> HIDE DEF values, read
  <2> QED BY <1>3, <1>4, <1>5, <1>6, <1>8, <1>9, <2>1, <2>3 DEF IsContent
<1>11. /\ fields.nonce = 1
       /\ /\ Len(a.target) = Len(Target) /\ Len(values) = Len(read)
          /\ \A i \in 1..Len(values) : Len(values[i]) = Len(read[i])
          => a.target = Target /\ ServerHash(a.body) = ClientHash(msg.body) /\ values = read
  <2> DEFINE t1 == a.target
             d1 == fields.date
             n1 == fields.nonce
             n2 == 1
             h1 == ServerHash(a.body)
             h2 == ClientHash(msg.body)
  <2>1. IsContent(a.auth[1], t1, d1, h1, values, n1) /\ IsContent(a.auth[1], Target, date, h2, read, n2)
    BY <1>10
  <2> HIDE DEF t1, d1, n1, n2, h1, h2, values, read
  <2>2. /\ n1 = n2
        /\ /\ Len(t1) = Len(Target) /\ Len(values) = Len(read)
           /\ \A i \in 1..Len(values) : Len(values[i]) = Len(read[i])
           => t1 = Target /\ h1 = h2 /\ values = read
    BY <2>1, ContentParts
  <2> QED BY <2>2 DEF t1, n1, n2, h1, h2
<1>12. /\ View(a, scheme) = [target |-> a.target, body |-> ViewBody(a.body), values |-> values]
       /\ SignedView(msg) = [target |-> Target, body |-> ViewBody(msg.body), values |-> read]
  <2> DEFINE v == HeaderValues(msg.custom, ClientScheme)
  <2>1. View(a, scheme) = [target |-> a.target, body |-> ViewBody(a.body), values |-> values]
    BY DEF View, ViewBody
  <2>2. View(msg, ClientScheme) = [target |-> Target, body |-> ViewBody(msg.body), values |-> v]
    BY <1>8 DEF View, ViewBody
  <2>3. SignedView(msg) = [View(msg, ClientScheme) EXCEPT !.values = read]
    BY DEF SignedView
  <2> HIDE DEF v, read
  <2> QED BY <2>1, <2>2, <2>3
<1> HIDE DEF values, read, scheme
<1>13. ASSUME DividedAlike(View(a, scheme), SignedView(msg))
       PROVE  View(a, scheme) = SignedView(msg)
  <2>1. a.target = Target /\ ServerHash(a.body) = ClientHash(msg.body) /\ values = read
    BY <1>11, <1>12, <1>13 DEF DividedAlike
  <2>2. ViewBody(msg.body) = ViewBody(a.body)
    BY <1>3, <1>8, <2>1, EqualHashes
  <2> QED BY <1>12, <2>1, <2>2
<1> QED BY <1>11, <1>13 DEF scheme

(***************************************************************************)
(* Where the sides do not differ, they build the same content from a       *)
(* message as it was sent.                                                 *)
(***************************************************************************)
ContentsDiffer ==
    \/ ClientScheme # <<>> /\ ServerScheme # ClientScheme
    \/ /\ Client = "dotnet"
       /\ \/ msg.body.shape = "empty"
          \/ \E h \in Elements(ClientScheme) : Comma \in Elements(msg.custom[h])
    \/ Client = "script" /\ (msg.body.shape \in {"manyChunks", "notText"} \/ signings > 1)

LEMMA SameSides ==
    ASSUME SignedRequestAssumption, IInv, NEW m \in wire, ~ContentsDiffer, NEW lower,
           site.consolidated => ~lower
    PROVE  /\ Parsed(m, lower) # <<>>
           /\ \A fields : fields = Parsed(m, lower)[1] =>
                /\ ~MissingHeader(m.custom, SchemeOf(fields))
                /\ m.auth[1] = Rebuilt(m, fields)
<1> USE DEF IInv
<1>1. PICK n \in 1..signings : SignedBy(m, n) /\ (Client = "dotnet" => n = 1)
  BY DEF Sent
<1>2. Client \in {"dotnet", "script"}
  BY DEF CallTypes, Client, SignedRequestAssumption
<1>3. n = 1
  BY <1>1, <1>2 DEF ContentsDiffer, CallTypes
<1>4. PICK dates \in [1..1 -> 0..now] :
        /\ m.auth = [i \in 1..1 |-> Content(dates[i], i)]
        /\ m.named = IF site.consolidated THEN <<>> ELSE [i \in 1..1 |-> Fields(i, dates[i])]
        /\ m.options = IF site.consolidated THEN [i \in 1..1 |-> Fields(i, dates[i])] ELSE <<>>
  BY <1>1, <1>3 DEF SignedBy
<1>5. \A f : Len([i \in 1..1 |-> f[i]]) = 1 /\ [i \in 1..1 |-> f[i]] # <<>>
  OBVIOUS
<1>6. Parsed(m, lower) = [i \in 1..1 |-> Fields(i, dates[i])] /\ Parsed(m, lower) # <<>>
  BY <1>4 DEF Parsed
<1> SUFFICES ASSUME NEW fields, fields = Parsed(m, lower)[1]
             PROVE  ~MissingHeader(m.custom, SchemeOf(fields)) /\ m.auth[1] = Rebuilt(m, fields)
  BY <1>6
<1>7. fields = Fields(1, dates[1]) /\ m.auth[1] = Content(dates[1], 1)
  BY <1>4, <1>6
<1>8. SchemeOf(fields) = ClientScheme
  <2>1. fields.scheme = (ClientScheme # <<>>)
    <3> DEFINE b == ClientScheme # <<>>
    <3>1. Fields(1, dates[1]) = [scheme |-> b, nonce |-> 1, date |-> dates[1]]
      BY Zenon DEF Fields
    <3> HIDE DEF b
    <3>2. Fields(1, dates[1]).scheme = b
      BY <3>1
    <3> QED BY <1>7, <3>2, Zenon DEF b
  <2>2. CASE ClientScheme = <<>>
    BY <2>1, <2>2 DEF SchemeOf
  <2>3. CASE ClientScheme # <<>>
    <3>1. SchemeOf(fields) = ServerScheme
      BY <2>1, <2>3, Zenon DEF SchemeOf
    <3> QED BY <2>3, <3>1 DEF ContentsDiffer
  <2> QED BY <2>2, <2>3
<1>9. m.custom = msg.custom /\ m.body = msg.body /\ m.target = msg.target /\ msg.target = Target
      /\ ~MissingHeader(msg.custom, ClientScheme)
  BY DEF Sent, TheRequest
<1>10. ServerHash(m.body) = ClientHash(msg.body)
  <2>1. msg.body.shape \in AllShapes
    BY DEF TheRequest, Bodies, SignedRequestAssumption
  <2> QED
    BY <1>2, <1>9, <2>1 DEF ContentsDiffer, ServerHash, ClientHash, DotnetHash, ScriptHash, AllShapes
<1>11. HeaderValues(m.custom, ClientScheme) = ValuesRead(msg)
  <2>1. ASSUME NEW i \in 1..Len(ClientScheme)
        PROVE  Read(msg.custom[ClientScheme[i]]) = msg.custom[ClientScheme[i]]
    <3>1. msg.custom[ClientScheme[i]] \in Seq(Words) /\ ClientScheme[i] \in Elements(ClientScheme)
      BY ReadTypes DEF Elements
    <3>2. Client = "dotnet" => Comma \notin Elements(msg.custom[ClientScheme[i]])
      BY <3>1 DEF ContentsDiffer
    <3> QED BY <3>1, <3>2, FirstValueTypes DEF Read
  <2> QED BY <1>9, <2>1 DEF HeaderValues, ValuesRead
<1> QED BY <1>7, <1>8, <1>9, <1>10, <1>11 DEF Rebuilt, Content, Fields

LEMMA DeliverStep ==
    ASSUME SignedRequestAssumption, IInv, NEW m \in wire, NEW lower \in {FALSE, Lowercases},
           NEW a \in {m} \cup Altered(m), Deliver(m, lower, a)
    PROVE  IInv'
<1> USE DEF IInv
<1> DEFINE parsed == Parsed(a, lower)
           fields == parsed[1]
<1>1. /\ Serve(a, lower, a # m)
      /\ UNCHANGED step \/ (step = "waiting" /\ step' \in {"waiting", "answered"})
      /\ UNCHANGED <<site, now, msg, attempts, signings, wire, signedAs>>
  BY DEF Deliver
<1> HIDE DEF parsed, fields
<1>s. SameCall
  BY <1>1 DEF CallTypes, SameCall
<1>t. TheRequest' /\ Headed' /\ Sent'
  BY <1>1, <1>s, RequestKept, HeadedKept, SentKept
<1>v. SignedView(msg)' = SignedView(msg)
  BY <1>1 DEF SignedView, View, HeaderValues, ValuesRead, Read, ClientScheme, Client
<1>d. SidesDiffer' <=> (site.consolidated /\ last'.lower) \/ ContentsDiffer
  BY <1>1 DEF SidesDiffer, ContentsDiffer, Client, ClientScheme, ServerScheme
<1>c. step' \in {"built", "signed", "waiting", "answered", "threw"}
  BY <1>1 DEF CallTypes
<1>2. CASE parsed = <<>>
  <2>1. /\ last' = [outcome |-> "exception", untouched |-> ~(a # m), lower |-> lower]
        /\ UNCHANGED <<nonces, accepted>>
    BY <1>1, <1>2 DEF Serve, Refused, parsed
  <2>2. CallTypes' /\ Accepted'
    BY <1>1, <1>c, <2>1 DEF CallTypes, Accepted
  <2>3. UntouchedAccepted'
    <3> SUFFICES ASSUME last'.untouched, ~SidesDiffer' PROVE FALSE
      BY DEF UntouchedAccepted
    <3>1. a = m /\ last'.lower = lower
      BY <2>1
    <3> QED BY <1>2, <1>d, <3>1, SameSides DEF parsed
  <2> QED BY <1>t, <2>2, <2>3
<1>3. CASE parsed # <<>>
  <2>1. PICK found \in BOOLEAN :
          IF Decision(a, fields, found) = "success"
            THEN /\ last' = [outcome |-> "success", nonce |-> fields.nonce,
                             view |-> View(a, SchemeOf(fields))]
                 /\ accepted' = accepted \cup {fields.nonce}
            ELSE /\ last' = Refused("failure", ~(a # m) /\ InWindow(fields.date) /\ ~found, lower)
                 /\ UNCHANGED accepted
    BY <1>1, <1>3, Zenon DEF Serve, parsed, fields
  <2>2. nonces' = IF MissingHeader(a.custom, SchemeOf(fields)) \/ ~InWindow(fields.date)
                    THEN nonces ELSE nonces \cup {fields.nonce}
    BY <1>1, <1>3 DEF Serve, parsed, fields
  <2>3. fields.nonce \in 1..signings
    BY <1>3, ArrivedTypes, ParsedFields DEF parsed, fields
  <2>4. nonces' \subseteq 1..signings /\ nonces \subseteq nonces'
    <3>1. nonces' \in {nonces, nonces \cup {fields.nonce}}
      BY <2>2, Zenon
    <3> QED BY <2>3, <3>1 DEF CallTypes
  <2>5. CASE Decision(a, fields, found) = "success"
    <3>1. /\ fields.nonce = 1
          /\ DividedAlike(View(a, SchemeOf(fields)), SignedView(msg)) =>
               View(a, SchemeOf(fields)) = SignedView(msg)
      BY <1>3, <2>5, AcceptedIsSigned DEF parsed, fields
    <3>2. fields.nonce \in nonces'
      BY <2>2, <2>5 DEF Decision
    <3>3. /\ last' = [outcome |-> "success", nonce |-> fields.nonce,
                      view |-> View(a, SchemeOf(fields))]
          /\ accepted' = accepted \cup {fields.nonce}
      BY <2>1, <2>5
    <3>4. CallTypes'
      BY <1>1, <1>c, <2>4, <3>1, <3>2, <3>3 DEF CallTypes
    <3>5. Accepted'
      <4>1. last'.nonce = fields.nonce /\ last'.view = View(a, SchemeOf(fields))
        BY <3>3
      <4>2. last'.nonce \in 1..signings'
        BY <1>1, <2>3, <4>1
      <4> QED BY <1>v, <3>1, <4>1, <4>2 DEF Accepted, DividedAlike
    <3>6. UntouchedAccepted'
      <4>1. last'.outcome = "success"
        BY <3>3
      <4> QED BY <4>1 DEF UntouchedAccepted
    <3> QED BY <1>t, <3>4, <3>5, <3>6
  <2>6. CASE Decision(a, fields, found) # "success"
    <3>1. /\ last' = Refused("failure", ~(a # m) /\ InWindow(fields.date) /\ ~found, lower)
          /\ UNCHANGED accepted
      BY <2>1, <2>6
    <3>2. CallTypes'
      BY <1>1, <1>c, <2>4, <3>1 DEF CallTypes
    <3>3. Accepted'
      <4>1. last'.outcome = "failure"
        BY <3>1 DEF Refused
      <4> QED BY <4>1 DEF Accepted
    <3>4. UntouchedAccepted'
      <4> SUFFICES ASSUME last'.untouched, ~SidesDiffer' PROVE FALSE
        BY DEF UntouchedAccepted
      <4>1. a = m /\ InWindow(fields.date) /\ ~found /\ last'.lower = lower
        BY <3>1 DEF Refused
      <4>2. ~MissingHeader(m.custom, SchemeOf(fields)) /\ m.auth[1] = Rebuilt(m, fields)
        BY <1>d, <4>1, SameSides DEF parsed, fields
      <4> QED BY <2>6, <4>1, <4>2 DEF Decision
    <3> QED BY <1>t, <3>2, <3>3, <3>4
  <2> QED BY <2>5, <2>6
<1> QED BY <1>2, <1>3

-----------------------------------------------------------------------------

LEMMA IInvStep == SignedRequestAssumption /\ IInv /\ [Next]_vars => IInv'
<1> SUFFICES ASSUME SignedRequestAssumption, IInv, [Next]_vars PROVE IInv'
  OBVIOUS
<1>1. ASSUME Sign PROVE IInv'
  BY <1>1, SignMessageStep DEF Sign
<1>2. ASSUME Resign PROVE IInv'
  BY <1>2, SignMessageStep DEF Resign
<1>3. ASSUME UNCHANGED vars PROVE IInv'
  <2>1. SameCall
    BY <1>3 DEF IInv, CallTypes, SameCall, vars
  <2>2. UNCHANGED <<site, now, step, msg, attempts, signings, wire, nonces,
                    accepted, signedAs, last>>
    BY <1>3 DEF vars
  <2>3. CallTypes' /\ TheRequest'
    BY <2>2, RequestKept DEF IInv, CallTypes
  <2>4. Headed' /\ Sent' /\ Accepted' /\ UntouchedAccepted'
    BY <2>1, <2>2, HeadedKept, SentKept, DecisionKept DEF IInv
  <2> QED BY <2>3, <2>4 DEF IInv
<1> QED BY <1>1, <1>2, <1>3, SendStep, TickStep, DeliverStep DEF Next

LEMMA IInvHolds == Spec => []IInv
BY SignedRequestAssumption, IInvInit, IInvStep, PTL DEF Spec

(***************************************************************************)
(* The variables keep their types: nonces on messages and in the cache are *)
(* of signings that were made, and dates are not ahead of the clock.       *)
(***************************************************************************)
THEOREM SignedTypeCorrect == Spec => []TypeOK
<1>1. SignedRequestAssumption /\ IInv => TypeOK
  <2> SUFFICES ASSUME SignedRequestAssumption, IInv PROVE TypeOK
    OBVIOUS
  <2> USE DEF IInv
  <2>1. Len(signedAs) = signings
    <3>1. \A v : Len([k \in 1..signings |-> v]) = signings
      BY DEF CallTypes
    <3> QED BY <3>1 DEF TheRequest
  <2>2. ASSUME NEW m \in wire \cup {msg}
        PROVE  /\ m.custom \in [Headers -> Lines] /\ m.body.shape \in AllShapes
               /\ FieldsOf(m)
    <3>1. m.custom = msg.custom /\ m.body = msg.body
      BY <2>2 DEF Sent
    <3>2. msg.custom \in [Headers -> Lines] /\ msg.body.shape \in AllShapes
      BY DEF TheRequest, Bodies, SignedRequestAssumption
    <3>3. CASE m \in wire
      <4>1. PICK n \in 1..signings : SignedBy(m, n)
        BY <3>3 DEF Sent
      <4>2. n \in 0..signings
        BY DEF CallTypes
      <4> QED BY <3>1, <3>2, <4>1, <4>2, SignedFields
    <3>4. CASE m = msg
      BY <3>2, <3>4 DEF Headed
    <3> QED BY <3>3, <3>4
  <2>3. ASSUME NEW m \in wire \cup {msg}, NEW f \in Elements(m.named) \cup Elements(m.options)
        PROVE  f.nonce \in 1..signings /\ f.date <= now
    BY <2>2 DEF FieldsOf, AreFields, CallTypes
  <2> QED BY <2>1, <2>2, <2>3 DEF TypeOK, CallTypes
<1> QED BY <1>1, IInvHolds, SignedRequestAssumption, PTL

(***************************************************************************)
(* SignAsync and VerifyAsync together: what the server lets through is     *)
(* what the client read when it signed with that nonce, whatever became of *)
(* the message on its way, unless it is the same text divided otherwise.   *)
(***************************************************************************)
THEOREM AcceptsAsSigned == Spec => []AcceptedAsSigned
<1>1. IInv => AcceptedAsSigned
  <2> SUFFICES ASSUME IInv, last.outcome = "success", DividedAlike(last.view, signedAs[last.nonce])
               PROVE  last.view = signedAs[last.nonce]
    BY DEF AcceptedAsSigned
  <2>1. signedAs[last.nonce] = SignedView(msg)
    BY DEF IInv, Accepted, TheRequest
  <2> QED BY <2>1 DEF IInv, Accepted
<1> QED BY <1>1, IInvHolds, PTL

(***************************************************************************)
(* However often the pipeline sends, signs again or delivers a call, what  *)
(* the server lets through of it carries one nonce: the second signing of  *)
(* HmacDelegatingHandler throws, and what the script signed twice carries  *)
(* two Authorization values.                                               *)
(***************************************************************************)
THEOREM OneNonce == Spec => []OneNoncePerCall
<1>1. IInv => OneNoncePerCall
  BY DEF IInv, CallTypes, OneNoncePerCall
<1> QED BY <1>1, IInvHolds, PTL

(***************************************************************************)
(* Where the sides do not differ, a message that arrives as it was sent,   *)
(* in its window and with a nonce that is not found is let through.        *)
(***************************************************************************)
THEOREM AcceptsUntouched == Spec => []UntouchedAccepted
<1>1. IInv => UntouchedAccepted
  BY DEF IInv
<1> QED BY <1>1, IInvHolds, PTL

(***************************************************************************)
(* What HmacDelegatingHandler sends carries the headers of one signing,    *)
(* however the retries around it are arranged.                             *)
(***************************************************************************)
THEOREM OneSigningPerMessage == Spec => []HeadersOfOneSigning
<1>1. IInv => HeadersOfOneSigning
  <2> SUFFICES ASSUME IInv, Client = "dotnet", NEW m \in wire
               PROVE  Len(m.auth) = 1 /\ Len(m.named) + Len(m.options) = 1
    BY DEF HeadersOfOneSigning
  <2>1. SignedBy(m, 1)
    BY DEF IInv, Sent
  <2>2. \A f : Len([i \in 1..1 |-> f[i]]) = 1
    OBVIOUS
  <2> QED BY <2>1 DEF SignedBy
<1> QED BY <1>1, IInvHolds, PTL
=============================================================================
