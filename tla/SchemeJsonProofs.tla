-------------------------- MODULE SchemeJsonProofs --------------------------
(***************************************************************************)
(* Theorems of SchemeJson, for any documents.                              *)
(***************************************************************************)
EXTENDS SchemeJson, SequenceLemmas

(***************************************************************************)
(* Lists, whatever their elements.                                         *)
(***************************************************************************)
LEMMA ListIsSeq ==
    ASSUME NEW s, IsList(s)
    PROVE  s \in Seq({s[i] : i \in 1..Len(s)})
<1> DEFINE S == {s[i] : i \in 1..Len(s)}
           n == Len(s)
<1>1. n \in Nat /\ \A i \in 1..n : s[i] \in S
  BY DEF IsList
<1>2. s = [i \in 1..n |-> s[i]]
  BY DEF IsList
<1> HIDE DEF S, n
<1>3. [i \in 1..n |-> s[i]] \in Seq(S)
  BY <1>1, IsASeq
<1>4. s \in Seq(S)
  BY <1>2, <1>3
<1> QED BY <1>4 DEF S

LEMMA SeqIsList ==
    ASSUME NEW S, NEW s \in Seq(S)
    PROVE  IsList(s)
BY LenProperties DEF IsList

LEMMA Joined ==
    ASSUME NEW s, NEW t, IsList(s), IsList(t)
    PROVE  /\ IsList(s \o t) /\ Len(s \o t) = Len(s) + Len(t)
           /\ \A i \in 1..Len(s) : (s \o t)[i] = s[i]
           /\ \A i \in 1..Len(t) : (s \o t)[Len(s) + i] = t[i]
<1> DEFINE S == {s[i] : i \in 1..Len(s)} \cup {t[i] : i \in 1..Len(t)}
<1>1. s \in Seq(S) /\ t \in Seq(S)
  <2>1. s \in Seq({s[i] : i \in 1..Len(s)}) /\ t \in Seq({t[i] : i \in 1..Len(t)})
    BY ListIsSeq
  <2> QED BY <2>1, SeqMonotonic
<1> HIDE DEF S
<1>2. s \o t \in Seq(S)
  BY <1>1
<1>3. IsList(s \o t)
  BY <1>2, SeqIsList
<1> QED BY <1>1, <1>3, ConcatProperties

\* A list of n elements.
ListOf(s, n) == IsList(s) /\ Len(s) = n

LEMMA JoinedLength ==
    ASSUME NEW s, NEW t, NEW m \in Nat, NEW n \in Nat, ListOf(s, m), ListOf(t, n)
    PROVE  ListOf(s \o t, m + n)
BY Joined DEF ListOf

LEMMA JoinedElements ==
    ASSUME NEW s, NEW t, NEW m \in Nat, NEW n \in Nat, ListOf(s, m), ListOf(t, n)
    PROVE  /\ \A i \in 1..m : (s \o t)[i] = s[i]
           /\ \A i \in 1..n : (s \o t)[m + i] = t[i]
<1>1. IsList(s) /\ IsList(t) /\ Len(s) = m /\ Len(t) = n
  BY DEF ListOf
<1>2. /\ \A i \in 1..Len(s) : (s \o t)[i] = s[i]
      /\ \A i \in 1..Len(t) : (s \o t)[Len(s) + i] = t[i]
  BY <1>1, Joined
<1> QED BY <1>1, <1>2

-----------------------------------------------------------------------------
(***************************************************************************)
(* Where the parts of a flattened sequence are: part i begins after at[i]. *)
(***************************************************************************)
PartsUpTo(s, parts, n, at) ==
    /\ at \in [1..n + 1 -> Nat] /\ at[1] = 0 /\ at[n + 1] = Len(s)
    /\ \A i \in 1..n :
         /\ at[i + 1] = at[i] + Len(parts[i]) /\ at[i + 1] <= Len(s)
         /\ \A k \in 1..Len(parts[i]) : s[at[i] + k] = parts[i][k]

LEMMA FlattenedParts ==
    ASSUME NEW parts, NEW n \in Nat, Len(parts) = n, n = 0 => parts = <<>>,
           \A i \in 1..n : IsList(parts[i])
    PROVE  IsList(FlattenSeq(parts)) /\ \E at : PartsUpTo(FlattenSeq(parts), parts, n, at)
<1>1. CASE n = 0
  <2>1. FlattenSeq(parts) = <<>>
    BY <1>1 DEF FlattenSeq
  <2>2. IsList(<<>>) /\ Len(<<>>) = 0
    BY DEF IsList
  <2>3. PartsUpTo(<<>>, parts, 0, [i \in 1..1 |-> 0])
    BY DEF PartsUpTo
  <2> QED BY <1>1, <2>1, <2>2, <2>3
<1>2. CASE n # 0
  <2>1. PICK f : Flattens(f, parts, n) /\ FlattenSeq(parts) = f[n]
    BY <1>2, FlattenDefined
  <2>2. \A i \in 1..n : f[i] = IF i = 1 THEN parts[i] ELSE f[i - 1] \o parts[i]
    BY <2>1 DEF Flattens
  <2> DEFINE T == {m \in 1..n : IsList(f[m]) /\ \E at : PartsUpTo(f[m], parts, m, at)}
  <2>3. 1 \in T
    <3>1. f[1] = parts[1] /\ IsList(parts[1]) /\ Len(parts[1]) \in Nat
      BY <1>2, <2>2 DEF IsList
    <3> DEFINE at == [i \in 1..2 |-> IF i = 1 THEN 0 ELSE Len(parts[1])]
    <3>2. at \in [1..1 + 1 -> Nat] /\ at[1] = 0 /\ at[2] = Len(parts[1])
      BY <3>1
    <3> HIDE DEF at
    <3>3. \A k \in 1..Len(parts[1]) : f[1][at[1] + k] = parts[1][k]
      BY <3>1, <3>2
    <3>4. PartsUpTo(f[1], parts, 1, at)
      BY <3>1, <3>2, <3>3 DEF PartsUpTo
    <3> QED BY <1>2, <3>1, <3>4
  <2>4. ASSUME NEW m \in 1..n, m \in T, m # n PROVE m + 1 \in T
    <3>1. PICK at : PartsUpTo(f[m], parts, m, at)
      BY <2>4
    <3>2. IsList(f[m]) /\ m + 1 \in 1..n /\ IsList(parts[m + 1])
      BY <2>4
    <3> DEFINE short == f[m]
               long == f[m + 1]
               last == parts[m + 1]
    <3>3. long = short \o last
      <4>1. m + 1 # 1 /\ (m + 1) - 1 = m
        OBVIOUS
      <4> QED BY <2>2, <3>2, <4>1
    <3>4. /\ IsList(long) /\ Len(long) = Len(short) + Len(last)
          /\ \A i \in 1..Len(short) : long[i] = short[i]
          /\ \A i \in 1..Len(last) : long[Len(short) + i] = last[i]
      <4>1. IsList(short) /\ IsList(last)
        BY <3>2
      <4> HIDE DEF short, long, last
      <4> QED BY <3>3, <4>1, Joined
    <3> DEFINE more == [i \in 1..m + 2 |-> IF i <= m + 1 THEN at[i] ELSE Len(long)]
    <3>5. at[m + 1] = Len(short) /\ Len(short) \in Nat /\ Len(last) \in Nat /\ Len(long) \in Nat
      BY <3>1, <3>2, <3>4 DEF PartsUpTo, IsList
    <3>6. at \in [1..m + 1 -> Nat] /\ at[1] = 0
      BY <3>1 DEF PartsUpTo
    <3>7. ASSUME NEW i \in 1..m
          PROVE  /\ at[i + 1] = at[i] + Len(parts[i]) /\ at[i + 1] <= Len(short)
                 /\ \A k \in 1..Len(parts[i]) : short[at[i] + k] = parts[i][k]
      BY <3>1 DEF PartsUpTo
    <3> HIDE DEF long, last, short
    <3>8. /\ more \in [1..(m + 1) + 1 -> Nat] /\ more[(m + 1) + 1] = Len(long)
          /\ \A i \in 1..m + 1 : more[i] = at[i]
      BY <3>5, <3>6
    <3> HIDE DEF more
    <3>9. ASSUME NEW i \in 1..m + 1
          PROVE  /\ more[i + 1] = more[i] + Len(parts[i]) /\ more[i + 1] <= Len(long)
                 /\ \A k \in 1..Len(parts[i]) : long[more[i] + k] = parts[i][k]
      <4>1. CASE i = m + 1
        <5>1. parts[i] = last
          BY <4>1 DEF last
        <5>2. more[i] = Len(short) /\ more[i + 1] = Len(long)
          BY <3>5, <3>8, <4>1
        <5> QED BY <3>4, <3>5, <5>1, <5>2
      <4>2. CASE i \in 1..m
        <5>1. more[i] = at[i] /\ more[i + 1] = at[i + 1] /\ at[i] \in Nat
          BY <3>8, <3>6, <4>2
        <5>2. Len(parts[i]) \in Nat
          BY DEF IsList
        <5>3. more[i + 1] = more[i] + Len(parts[i]) /\ more[i + 1] <= Len(long)
          BY <3>4, <3>5, <3>6, <3>7, <4>2, <5>1
        <5>4. ASSUME NEW k \in 1..Len(parts[i]) PROVE long[more[i] + k] = parts[i][k]
          <6>1. at[i] + k \in 1..Len(short)
            <7> DEFINE a == at[i]
                       l == Len(parts[i])
                       w == Len(short)
            <7>1. a \in Nat /\ l \in Nat /\ w \in Nat /\ k \in 1..l /\ a + l <= w
              BY <3>5, <3>7, <4>2, <5>1, <5>2
            <7> HIDE DEF a, l, w
            <7>2. a + k \in 1..w
              BY <7>1
            <7> QED BY <7>2 DEF a, w
          <6> QED BY <3>4, <3>7, <4>2, <5>1, <6>1
        <5> QED BY <5>3, <5>4
      <4> QED BY <4>1, <4>2
    <3>10. more[1] = 0
      BY <3>8, <3>6
    <3>11. PartsUpTo(long, parts, m + 1, more)
      BY <3>8, <3>9, <3>10 DEF PartsUpTo
    <3> QED BY <3>2, <3>4, <3>11 DEF long
  <2>5. n \in T
    <3>1. \A m \in 1..n : m \in T /\ m # n => m + 1 \in T
      BY <2>4
    <3> HIDE DEF T
    <3>2. 1..n \subseteq T
      BY <2>3, <3>1, UpTo
    <3> QED BY <1>2, <3>2
  <2> QED BY <2>1, <2>5
<1> QED BY <1>1, <1>2

-----------------------------------------------------------------------------
(* Where tokens are *)

\* part stands in t after b.
Placed(t, b, part) == \A k \in 1..Len(part) : t[b + k] = part[k]

LEMMA PlacedParts ==
    ASSUME NEW t, NEW b \in Nat, NEW m \in Nat, NEW n \in Nat,
           NEW p, NEW q, ListOf(p, m), ListOf(q, n), Placed(t, b, p \o q)
    PROVE  Placed(t, b, p) /\ Placed(t, b + m, q)
<1>1. /\ Len(p) = m /\ Len(q) = n /\ Len(p \o q) = m + n
      /\ \A i \in 1..m : (p \o q)[i] = p[i]
      /\ \A i \in 1..n : (p \o q)[m + i] = q[i]
  <2>1. Len(p) = m /\ Len(q) = n
    BY DEF ListOf
  <2>2. Len(p \o q) = m + n
    BY JoinedLength DEF ListOf
  <2> QED BY <2>1, <2>2, JoinedElements
<1>2. \A i \in 1..m + n : t[b + i] = (p \o q)[i]
  BY <1>1 DEF Placed
<1>3. Placed(t, b, p)
  BY <1>1, <1>2 DEF Placed
<1>4. ASSUME NEW i \in 1..n PROVE t[(b + m) + i] = q[i]
  <2>1. m + i \in 1..m + n /\ b + (m + i) = (b + m) + i
    OBVIOUS
  <2> QED BY <1>1, <1>2, <2>1
<1> QED BY <1>1, <1>3, <1>4 DEF Placed

LEMMA PlacedOne ==
    ASSUME NEW t, NEW b, NEW x, Placed(t, b, <<x>>)
    PROVE  t[b + 1] = x
BY DEF Placed

LEMMA PlacedTwo ==
    ASSUME NEW t, NEW b, NEW x, NEW y, Placed(t, b, <<x, y>>)
    PROVE  t[b + 1] = x /\ t[b + 2] = y
BY DEF Placed

LEMMA ShortLists ==
    \A x, y : ListOf(<<x>>, 1) /\ ListOf(<<x, y>>, 2) /\ ListOf(<<>>, 0)
BY DEF ListOf, IsList

\* A property and its value, in the two places after b.
PropertyAt(t, b, n, v) ==
    /\ t[b + 1].type = "PropertyName" /\ t[b + 1].text = n
    /\ t[b + 2].type = "String" /\ t[b + 2].text = v

LEMMA PlacedProperty ==
    ASSUME NEW t, NEW b, NEW n, NEW v, Placed(t, b, Property(n, v))
    PROVE  PropertyAt(t, b, n, v)
<1>1. t[b + 1] = [type |-> "PropertyName", text |-> n] /\ t[b + 2] = [type |-> "String", text |-> v]
  BY PlacedTwo DEF Property
<1> QED BY <1>1 DEF PropertyAt

\* Header h, from the place after b up to e.
HeaderAt(t, b, h, e) ==
    /\ t[b + 1].type = "StartObject" /\ PropertyAt(t, b + 1, "Name", h.name)
    /\ h.claim = NoText => e = b + 4
    /\ h.claim # NoText => e = b + 6 /\ PropertyAt(t, b + 3, "ClaimType", h.claim)
    /\ t[e].type = "EndObject"

\* The number of tokens of a header.
HeaderLength(h) == IF h.claim = NoText THEN 4 ELSE 6

LEMMA HeaderIsList ==
    ASSUME NEW h
    PROVE  ListOf(HeaderTokens(h), HeaderLength(h))
<1> DEFINE a == <<Token("StartObject")>>
           b == Property("Name", h.name)
           c == IF h.claim = NoText THEN <<>> ELSE Property("ClaimType", h.claim)
           d == <<Token("EndObject")>>
<1>1. HeaderTokens(h) = ((a \o b) \o c) \o d
  BY DEF HeaderTokens
<1>2. ListOf(a, 1) /\ ListOf(b, 2) /\ ListOf(d, 1)
  BY ShortLists DEF Property
<1>3. CASE h.claim = NoText
  <2>1. ListOf(c, 0)
    BY <1>3, ShortLists
  <2> HIDE DEF a, b, c, d
  <2>2. ListOf(a \o b, 1 + 2)
    BY <1>2, JoinedLength
  <2>3. ListOf((a \o b) \o c, 3 + 0)
    BY <2>1, <2>2, JoinedLength
  <2>4. ListOf(((a \o b) \o c) \o d, 3 + 1)
    BY <1>2, <2>3, JoinedLength
  <2> QED BY <1>1, <1>3, <2>4 DEF HeaderLength
<1>4. CASE h.claim # NoText
  <2>1. ListOf(c, 2)
    BY <1>4, ShortLists DEF Property
  <2> HIDE DEF a, b, c, d
  <2>2. ListOf(a \o b, 1 + 2)
    BY <1>2, JoinedLength
  <2>3. ListOf((a \o b) \o c, 3 + 2)
    BY <2>1, <2>2, JoinedLength
  <2>4. ListOf(((a \o b) \o c) \o d, 5 + 1)
    BY <1>2, <2>3, JoinedLength
  <2> QED BY <1>1, <1>4, <2>4 DEF HeaderLength
<1> QED BY <1>3, <1>4

LEMMA PlacedHeader ==
    ASSUME NEW t, NEW b \in Nat, NEW h, Placed(t, b, HeaderTokens(h))
    PROVE  HeaderAt(t, b, h, b + HeaderLength(h))
<1> DEFINE x == <<Token("StartObject")>>
           y == Property("Name", h.name)
           z == IF h.claim = NoText THEN <<>> ELSE Property("ClaimType", h.claim)
           w == <<Token("EndObject")>>
           n == IF h.claim = NoText THEN 0 ELSE 2
<1>1. HeaderTokens(h) = ((x \o y) \o z) \o w
  BY DEF HeaderTokens
<1>2. ListOf(x, 1) /\ ListOf(y, 2) /\ ListOf(w, 1)
  BY ShortLists DEF Property
<1>3. n \in Nat /\ ListOf(z, n)
  BY ShortLists DEF Property
<1>4. HeaderLength(h) = (3 + n) + 1
  BY DEF HeaderLength
<1> HIDE DEF x, y, z, w, n
<1>5. ListOf(x \o y, 1 + 2)
  BY <1>2, JoinedLength
<1>6. ListOf((x \o y) \o z, 3 + n)
  BY <1>3, <1>5, JoinedLength
<1>7. Placed(t, b, (x \o y) \o z) /\ Placed(t, b + (3 + n), w)
  <2>1. 3 + n \in Nat
    BY <1>3
  <2> QED BY <1>1, <1>2, <1>6, <2>1, PlacedParts
<1>8. Placed(t, b, x \o y) /\ Placed(t, b + 3, z)
  BY <1>3, <1>5, <1>7, PlacedParts
<1>9. Placed(t, b, x) /\ Placed(t, b + 1, y)
  BY <1>2, <1>8, PlacedParts
<1>10. t[b + 1].type = "StartObject" /\ PropertyAt(t, b + 1, "Name", h.name)
  BY <1>9, PlacedOne, PlacedProperty DEF x, y, Token
<1>11. h.claim # NoText => PropertyAt(t, b + 3, "ClaimType", h.claim)
  BY <1>8, PlacedProperty DEF z
<1>12. t[b + HeaderLength(h)].type = "EndObject"
  <2>1. t[(b + (3 + n)) + 1] = Token("EndObject")
    BY <1>7, PlacedOne DEF w
  <2>2. b + HeaderLength(h) = (b + (3 + n)) + 1
    BY <1>3, <1>4
  <2> QED BY <2>1, <2>2 DEF Token
<1> QED BY <1>10, <1>11, <1>12 DEF HeaderAt, HeaderLength

(***************************************************************************)
(* The list of the headers hs: its property after p, header j after at[j], *)
(* and its end after the last.                                             *)
(***************************************************************************)
ListAt(t, p, hs, at) ==
    /\ t[p + 1].type = "PropertyName" /\ t[p + 1].text = "Headers"
    /\ t[p + 2].type = "StartArray"
    /\ at \in [1..Len(hs) + 1 -> Nat] /\ at[1] = p + 2
    /\ \A j \in 1..Len(hs) :
         HeaderAt(t, at[j], hs[j], at[j + 1]) /\ at[j + 1] <= at[Len(hs) + 1]
    /\ t[at[Len(hs) + 1] + 1].type = "EndArray"

LEMMA EachHeader ==
    ASSUME NEW hs, IsList(hs)
    PROVE  /\ \E n \in Nat : ListOf(Each(HeaderTokens, hs), n)
           /\ \E at : PartsUpTo(Each(HeaderTokens, hs), [i \in 1..Len(hs) |-> HeaderTokens(hs[i])],
                                Len(hs), at)
<1> DEFINE n == Len(hs)
           parts == [i \in 1..n |-> HeaderTokens(hs[i])]
<1>1. n \in Nat /\ DOMAIN hs = 1..n
  BY DEF IsList
<1>2. Each(HeaderTokens, hs) = FlattenSeq(parts)
  BY <1>1 DEF Each
<1> HIDE DEF n
<1>3. Len(parts) = n /\ (n = 0 => parts = <<>>)
  BY <1>1
<1>4. \A i \in 1..n : IsList(parts[i])
  BY HeaderIsList DEF ListOf
<1> HIDE DEF parts
<1>5. IsList(FlattenSeq(parts)) /\ \E at : PartsUpTo(FlattenSeq(parts), parts, n, at)
  BY <1>1, <1>3, <1>4, FlattenedParts
<1> QED BY <1>2, <1>5 DEF ListOf, IsList, parts, n

LEMMA PlacedList ==
    ASSUME NEW t, NEW b \in Nat, NEW s, IsList(s.headers), Placed(t, b, HeadersTokens(s))
    PROVE  \E at : \E n \in Nat :
             /\ ListOf(HeadersTokens(s), n) /\ ListAt(t, b, s.headers, at)
             /\ b + n = at[Len(s.headers) + 1] + 1
<1> DEFINE hs == s.headers
           m == Len(hs)
           x == <<[type |-> "PropertyName", text |-> "Headers"], Token("StartArray")>>
           y == Each(HeaderTokens, hs)
           z == <<Token("EndArray")>>
           parts == [i \in 1..m |-> HeaderTokens(hs[i])]
<1>1. HeadersTokens(s) = (x \o y) \o z
  BY DEF HeadersTokens
<1>2. ListOf(x, 2) /\ ListOf(z, 1)
  BY ShortLists
<1>3. PICK n \in Nat : ListOf(y, n)
  BY EachHeader
<1>4. PICK rel : PartsUpTo(y, parts, m, rel)
  BY EachHeader
<1>5. m \in Nat
  BY DEF IsList
<1>6. /\ x[1].type = "PropertyName" /\ x[1].text = "Headers" /\ x[2].type = "StartArray"
      /\ z[1].type = "EndArray"
  BY DEF Token
<1> HIDE DEF x, y, z, m
<1>7. ListOf(x \o y, 2 + n)
  BY <1>2, <1>3, JoinedLength
<1>8. 2 + n \in Nat
  OBVIOUS
<1>9. ListOf((x \o y) \o z, (2 + n) + 1)
  BY <1>2, <1>7, <1>8, JoinedLength
<1>10. Placed(t, b, x \o y) /\ Placed(t, b + (2 + n), z)
  BY <1>1, <1>2, <1>7, <1>8, PlacedParts
<1>11. Placed(t, b, x) /\ Placed(t, b + 2, y)
  BY <1>2, <1>3, <1>10, PlacedParts
<1>12. /\ t[b + 1].type = "PropertyName" /\ t[b + 1].text = "Headers" /\ t[b + 2].type = "StartArray"
       /\ t[(b + (2 + n)) + 1].type = "EndArray"
  <2>1. t[b + 1] = x[1] /\ t[b + 2] = x[2]
    BY <1>2, <1>11 DEF Placed, ListOf
  <2>2. t[(b + (2 + n)) + 1] = z[1]
    BY <1>2, <1>10 DEF Placed, ListOf
  <2> QED BY <1>6, <2>1, <2>2
<1> DEFINE at == [j \in 1..m + 1 |-> (b + 2) + rel[j]]
<1>13. rel \in [1..m + 1 -> Nat] /\ rel[1] = 0 /\ rel[m + 1] = n
  BY <1>3, <1>4 DEF PartsUpTo, ListOf
<1>14. /\ at \in [1..m + 1 -> Nat] /\ at[1] = b + 2 /\ at[m + 1] = (b + 2) + n
       /\ \A j \in 1..m + 1 : at[j] = (b + 2) + rel[j]
  BY <1>5, <1>13
<1> HIDE DEF at, hs
<1>15. ASSUME NEW j \in 1..m
       PROVE  HeaderAt(t, at[j], hs[j], at[j + 1]) /\ at[j + 1] <= at[m + 1]
  <2>1. parts[j] = HeaderTokens(hs[j])
    OBVIOUS
  <2>2. ListOf(parts[j], HeaderLength(hs[j])) /\ HeaderLength(hs[j]) \in Nat
    BY <2>1, HeaderIsList DEF HeaderLength
  <2> HIDE DEF parts
  <2>3. /\ rel[j + 1] = rel[j] + Len(parts[j]) /\ rel[j + 1] <= n
        /\ \A k \in 1..Len(parts[j]) : y[rel[j] + k] = parts[j][k]
    BY <1>3, <1>4 DEF PartsUpTo, ListOf
  <2>4. rel[j] \in Nat /\ at[j] = (b + 2) + rel[j] /\ at[j + 1] = (b + 2) + rel[j + 1]
    BY <1>5, <1>13, <1>14
  <2>5. Len(parts[j]) = HeaderLength(hs[j])
    BY <2>2 DEF ListOf
  <2>6. ASSUME NEW k \in 1..Len(parts[j]) PROVE t[at[j] + k] = parts[j][k]
    <3>1. rel[j] + k \in 1..n
      BY <2>2, <2>3, <2>4, <2>5
    <3>2. \A i \in 1..n : t[(b + 2) + i] = y[i]
      BY <1>3, <1>11 DEF Placed, ListOf
    <3>3. (b + 2) + (rel[j] + k) = at[j] + k
      BY <2>4
    <3> QED BY <2>3, <3>1, <3>2, <3>3
  <2>7. Placed(t, at[j], HeaderTokens(hs[j]))
    BY <2>1, <2>6 DEF Placed
  <2>8. at[j] \in Nat /\ at[j + 1] = at[j] + HeaderLength(hs[j])
    BY <2>2, <2>3, <2>4, <2>5
  <2>9. HeaderAt(t, at[j], hs[j], at[j + 1])
    BY <2>7, <2>8, PlacedHeader
  <2> QED BY <1>14, <2>3, <2>4, <2>9
<1>16. ListAt(t, b, hs, at)
  <2>1. at[m + 1] + 1 = (b + (2 + n)) + 1
    BY <1>14
  <2> QED BY <1>12, <1>14, <1>15, <2>1 DEF ListAt, m
<1>17. (2 + n) + 1 \in Nat /\ b + ((2 + n) + 1) = at[m + 1] + 1
  BY <1>14
<1>18. ListOf(HeadersTokens(s), (2 + n) + 1)
  BY <1>1, <1>9
<1>19. /\ ListAt(t, b, s.headers, at)
       /\ b + ((2 + n) + 1) = at[Len(s.headers) + 1] + 1
  BY <1>16, <1>17 DEF hs, m
<1> DEFINE size == (2 + n) + 1
<1>20. size \in Nat /\ ListOf(HeadersTokens(s), size) /\ b + size = at[Len(s.headers) + 1] + 1
  BY <1>17, <1>18, <1>19
<1> HIDE DEF size
<1> QED BY <1>19, <1>20

(***************************************************************************)
(* Scheme s, from the place after b up to e, its headers at at.            *)
(***************************************************************************)
SchemeAt(t, b, s, at, e) ==
    /\ t[b + 1].type = "StartObject"
    /\ s.form \in {"nameFirst", "noHeaders"} => PropertyAt(t, b + 1, "Name", s.name)
    /\ s.form = "noHeaders" => e = b + 4
    /\ s.form = "nameFirst" => ListAt(t, b + 3, s.headers, at)
    /\ s.form \in {"headersFirst", "noName"} => ListAt(t, b + 1, s.headers, at)
    /\ s.form \in {"nameFirst", "noName"} => e = at[Len(s.headers) + 1] + 2
    /\ s.form = "headersFirst" => /\ PropertyAt(t, at[Len(s.headers) + 1] + 1, "Name", s.name)
                                  /\ e = at[Len(s.headers) + 1] + 4
    /\ t[e].type = "EndObject"

\* What is between the braces of a scheme.
SchemeContent(s) ==
    CASE s.form = "nameFirst" -> Property("Name", s.name) \o HeadersTokens(s)
      [] s.form = "headersFirst" -> HeadersTokens(s) \o Property("Name", s.name)
      [] s.form = "noHeaders" -> Property("Name", s.name)
      [] s.form = "noName" -> HeadersTokens(s)

LEMMA SchemeIsContent ==
    ASSUME NEW s, s.form \in Forms
    PROVE  SchemeTokens(s) = (<<Token("StartObject")>> \o SchemeContent(s)) \o <<Token("EndObject")>>
<1> HIDE DEF Property, HeadersTokens, Token
<1>1. CASE s.form = "nameFirst"
  BY <1>1 DEF SchemeTokens, SchemeContent
<1>2. CASE s.form = "headersFirst"
  BY <1>2 DEF SchemeTokens, SchemeContent
<1>3. CASE s.form = "noHeaders"
  BY <1>3 DEF SchemeTokens, SchemeContent
<1>4. CASE s.form = "noName"
  BY <1>4 DEF SchemeTokens, SchemeContent
<1> QED BY <1>1, <1>2, <1>3, <1>4 DEF Forms

LEMMA HeadersAreList ==
    ASSUME NEW s, IsList(s.headers)
    PROVE  \E n \in Nat : ListOf(HeadersTokens(s), n)
<1> DEFINE tokens == HeadersTokens(s)
           t == tokens
<1>1. Placed([i \in 1..Len(tokens) |-> tokens[i]], 0, tokens)
  BY DEF Placed
<1> QED BY <1>1, PlacedList

LEMMA ContentIsList ==
    ASSUME NEW s, s.form \in Forms, IsList(s.headers)
    PROVE  \E n \in Nat : ListOf(SchemeContent(s), n)
<1>1. PICK n \in Nat : ListOf(HeadersTokens(s), n)
  BY HeadersAreList
<1>2. ListOf(Property("Name", s.name), 2)
  BY ShortLists DEF Property
<1>3. ListOf(Property("Name", s.name) \o HeadersTokens(s), 2 + n)
  BY <1>1, <1>2, JoinedLength
<1>4. ListOf(HeadersTokens(s) \o Property("Name", s.name), n + 2)
  BY <1>1, <1>2, JoinedLength
<1>5. 2 + n \in Nat /\ n + 2 \in Nat
  OBVIOUS
<1> QED BY <1>1, <1>2, <1>3, <1>4, <1>5, Zenon DEF SchemeContent, Forms

LEMMA PlacedScheme ==
    ASSUME NEW t, NEW b \in Nat, NEW s, s.form \in Forms, IsList(s.headers),
           Placed(t, b, SchemeTokens(s))
    PROVE  \E at : \E n \in Nat : ListOf(SchemeTokens(s), n) /\ SchemeAt(t, b, s, at, b + n)
<1> DEFINE x == <<Token("StartObject")>>
           y == SchemeContent(s)
           z == <<Token("EndObject")>>
<1>1. SchemeTokens(s) = (x \o y) \o z
  BY SchemeIsContent
<1>2. ListOf(x, 1) /\ ListOf(z, 1)
  BY ShortLists
<1>3. PICK n \in Nat : ListOf(y, n)
  BY ContentIsList
<1>4. x[1].type = "StartObject" /\ z[1].type = "EndObject"
  BY DEF Token
<1> HIDE DEF x, y, z
<1>5. ListOf(x \o y, 1 + n)
  BY <1>2, <1>3, JoinedLength
<1>6. 1 + n \in Nat
  OBVIOUS
<1>7. ListOf((x \o y) \o z, (1 + n) + 1)
  BY <1>2, <1>5, <1>6, JoinedLength
<1>8. Placed(t, b, x \o y) /\ Placed(t, b + (1 + n), z)
  BY <1>1, <1>2, <1>5, <1>6, PlacedParts
<1>9. Placed(t, b, x) /\ Placed(t, b + 1, y)
  BY <1>2, <1>3, <1>8, PlacedParts
<1>10. t[b + 1].type = "StartObject"
  BY <1>2, <1>9, <1>4 DEF Placed, ListOf
<1>11. t[(b + (1 + n)) + 1].type = "EndObject"
  BY <1>2, <1>8, <1>4 DEF Placed, ListOf
<1> DEFINE e == b + ((1 + n) + 1)
<1>12. e = (b + (1 + n)) + 1 /\ e = b + (n + 2) /\ (1 + n) + 1 \in Nat
  OBVIOUS
<1> HIDE DEF e
<1>13. t[e].type = "EndObject"
  BY <1>11, <1>12
<1> SUFFICES \E at : SchemeAt(t, b, s, at, e)
  <2> DEFINE size == (1 + n) + 1
  <2>1. size \in Nat /\ ListOf(SchemeTokens(s), size) /\ e = b + size
    BY <1>1, <1>7, <1>12 DEF e
  <2> HIDE DEF size
  <2> QED BY <2>1
<1>14. b + 1 \in Nat
  OBVIOUS
<1> DEFINE hs == s.headers
           w == HeadersTokens(s)
           p == Property("Name", s.name)
<1>15. ListOf(p, 2)
  BY ShortLists DEF Property
<1>16. PICK m \in Nat : ListOf(w, m)
  BY HeadersAreList
<1> HIDE DEF w, p
<1>17. ASSUME NEW c \in Nat, Placed(t, c, w)
       PROVE  \E at : ListAt(t, c, s.headers, at) /\ c + m = at[Len(s.headers) + 1] + 1
  BY <1>16, <1>17, PlacedList DEF w, ListOf
<1>18. ASSUME NEW c, Placed(t, c, p) PROVE PropertyAt(t, c, "Name", s.name)
  BY <1>18, PlacedProperty DEF p
<1>19. CASE s.form = "nameFirst"
  <2>1. y = p \o w
    BY <1>19 DEF y, SchemeContent, p, w
  <2>2. ListOf(p \o w, 2 + m)
    BY <1>15, <1>16, JoinedLength
  <2>3. n = 2 + m
    BY <1>3, <2>1, <2>2 DEF ListOf
  <2>4. Placed(t, b + 1, p) /\ Placed(t, (b + 1) + 2, w)
    <3>1. Placed(t, b + 1, p \o w)
      BY <1>9, <2>1
    <3>2. 2 \in Nat
      OBVIOUS
    <3> QED BY <1>14, <1>15, <1>16, <3>1, <3>2, PlacedParts
  <2>5. PICK at : ListAt(t, b + 3, s.headers, at) /\ (b + 3) + m = at[Len(s.headers) + 1] + 1
    BY <1>17, <2>4
  <2>6. e = at[Len(s.headers) + 1] + 2
    <3>1. e = ((b + 3) + m) + 1
      BY <1>12, <2>3
    <3>2. at[Len(s.headers) + 1] \in Nat
      BY <2>5 DEF ListAt, IsList
    <3> QED BY <2>5, <3>1, <3>2
  <2> QED BY <1>10, <1>13, <1>18, <1>19, <2>4, <2>5, <2>6 DEF SchemeAt
<1>20. CASE s.form = "headersFirst"
  <2>1. y = w \o p
    BY <1>20 DEF y, SchemeContent, p, w
  <2>2. ListOf(w \o p, m + 2)
    BY <1>15, <1>16, JoinedLength
  <2>3. n = m + 2
    BY <1>3, <2>1, <2>2 DEF ListOf
  <2>4. Placed(t, b + 1, w) /\ Placed(t, (b + 1) + m, p)
    <3>1. Placed(t, b + 1, w \o p)
      BY <1>9, <2>1
    <3>2. 2 \in Nat
      OBVIOUS
    <3> QED BY <1>14, <1>15, <1>16, <3>1, <3>2, PlacedParts
  <2>5. PICK at : ListAt(t, b + 1, s.headers, at) /\ (b + 1) + m = at[Len(s.headers) + 1] + 1
    BY <1>17, <2>4
  <2>6. e = at[Len(s.headers) + 1] + 4
    <3>1. e = ((b + 1) + m) + 3
      BY <1>12, <2>3
    <3>2. at[Len(s.headers) + 1] \in Nat
      BY <2>5 DEF ListAt, IsList
    <3> QED BY <2>5, <3>1, <3>2
  <2>7. PropertyAt(t, at[Len(s.headers) + 1] + 1, "Name", s.name)
    BY <1>18, <2>4, <2>5
  <2> QED BY <1>10, <1>13, <1>20, <2>5, <2>6, <2>7 DEF SchemeAt
<1>21. CASE s.form = "noHeaders"
  <2>1. y = p
    BY <1>21 DEF y, SchemeContent, p
  <2>2. n = 2
    BY <1>3, <1>15, <2>1 DEF ListOf
  <2>3. e = b + 4
    BY <1>12, <2>2
  <2>4. PropertyAt(t, b + 1, "Name", s.name)
    BY <1>9, <1>18, <2>1
  <2> QED BY <1>10, <1>13, <1>21, <2>3, <2>4 DEF SchemeAt
<1>22. CASE s.form = "noName"
  <2>1. y = w
    BY <1>22 DEF y, SchemeContent, w
  <2>2. n = m
    BY <1>3, <1>16, <2>1 DEF ListOf
  <2>3. PICK at : ListAt(t, b + 1, s.headers, at) /\ (b + 1) + m = at[Len(s.headers) + 1] + 1
    BY <1>9, <1>17, <2>1
  <2>4. e = at[Len(s.headers) + 1] + 2
    <3>1. e = ((b + 1) + m) + 1
      BY <1>12, <2>2
    <3>2. at[Len(s.headers) + 1] \in Nat
      BY <2>3 DEF ListAt, IsList
    <3> QED BY <2>3, <3>1, <3>2
  <2> QED BY <1>10, <1>13, <1>22, <2>3, <2>4 DEF SchemeAt
<1> QED BY <1>19, <1>20, <1>21, <1>22 DEF Forms

(***************************************************************************)
(* The whole document d: scheme i is after b[i], its headers at at[i].     *)
(***************************************************************************)
Layout(t, d, b, at) ==
    LET n == Len(d)
    IN  /\ b \in [1..n + 1 -> Nat \ {0}] /\ b[1] = 1
        /\ \A i \in 1..n : SchemeAt(t, b[i], d[i], at[i], b[i + 1]) /\ b[i + 1] <= b[n + 1]
        /\ t[b[n + 1] + 1].type = "EndArray"
        /\ Len(Write(d)) = b[n + 1] + 1 /\ Len(t) = b[n + 1] + 2
        /\ IsList(t) /\ IsList(d)
        /\ \A i \in 1..n : d[i].form \in Forms /\ IsList(d[i].headers)

LEMMA SchemeIsList ==
    ASSUME NEW s, s.form \in Forms, IsList(s.headers)
    PROVE  \E n \in Nat : ListOf(SchemeTokens(s), n)
<1> DEFINE tokens == SchemeTokens(s)
<1>1. Placed([i \in 1..Len(tokens) |-> tokens[i]], 0, tokens)
  BY DEF Placed
<1> QED BY <1>1, PlacedScheme

LEMMA EachScheme ==
    ASSUME NEW d, IsList(d), \A i \in 1..Len(d) : d[i].form \in Forms /\ IsList(d[i].headers)
    PROVE  /\ \E n \in Nat : ListOf(Each(SchemeTokens, d), n)
           /\ \E rel : PartsUpTo(Each(SchemeTokens, d), [i \in 1..Len(d) |-> SchemeTokens(d[i])],
                                 Len(d), rel)
<1> DEFINE n == Len(d)
           parts == [i \in 1..n |-> SchemeTokens(d[i])]
<1>1. n \in Nat /\ DOMAIN d = 1..n
  BY DEF IsList
<1>2. Each(SchemeTokens, d) = FlattenSeq(parts)
  BY <1>1 DEF Each
<1>3. \A i \in 1..n : IsList(parts[i])
  BY SchemeIsList DEF ListOf
<1> HIDE DEF n
<1>4. Len(parts) = n /\ (n = 0 => parts = <<>>)
  BY <1>1
<1> HIDE DEF parts
<1>5. IsList(FlattenSeq(parts)) /\ \E rel : PartsUpTo(FlattenSeq(parts), parts, n, rel)
  BY <1>1, <1>3, <1>4, FlattenedParts
<1> QED BY <1>2, <1>5 DEF ListOf, IsList, parts, n

\* What stands in the tokens of a document that ends a policy.
LEMMA LayoutExists ==
    ASSUME NEW d, IsList(d), \A i \in 1..Len(d) : d[i].form \in Forms /\ IsList(d[i].headers),
           NEW t, t = Write(d) \o <<Token("EndObject")>>
    PROVE  \E b, at : Layout(t, d, b, at)
<1> DEFINE n == Len(d)
           x == <<Token("StartArray")>>
           y == Each(SchemeTokens, d)
           z == <<Token("EndArray")>>
           w == <<Token("EndObject")>>
           parts == [i \in 1..n |-> SchemeTokens(d[i])]
<1>1. Write(d) = (x \o y) \o z /\ t = ((x \o y) \o z) \o w
  BY DEF Write
<1>2. ListOf(x, 1) /\ ListOf(z, 1) /\ ListOf(w, 1)
  BY ShortLists
<1>3. PICK m \in Nat : ListOf(y, m)
  BY EachScheme
<1>4. PICK rel : PartsUpTo(y, parts, n, rel)
  BY EachScheme
<1>5. n \in Nat
  BY DEF IsList
<1>6. z[1].type = "EndArray"
  BY DEF Token
<1> HIDE DEF x, y, z, w
<1>7. 1 + m \in Nat /\ (1 + m) + 1 \in Nat /\ 0 \in Nat /\ 0 + (1 + m) = 1 + m
  OBVIOUS
<1>8. ListOf(x \o y, 1 + m)
  BY <1>2, <1>3, JoinedLength
<1>9. ListOf((x \o y) \o z, (1 + m) + 1)
  BY <1>2, <1>7, <1>8, JoinedLength
<1>10. ListOf(t, ((1 + m) + 1) + 1)
  BY <1>1, <1>2, <1>7, <1>9, JoinedLength
<1>11. Placed(t, 0, ((x \o y) \o z) \o w)
  <2>1. \A k \in 1..Len(t) : t[0 + k] = t[k]
    BY <1>10 DEF ListOf
  <2> QED BY <1>1, <2>1 DEF Placed
<1>12. Placed(t, 0, (x \o y) \o z)
  BY <1>2, <1>7, <1>9, <1>11, PlacedParts
<1>13. Placed(t, 0, x \o y) /\ Placed(t, 1 + m, z)
  BY <1>2, <1>7, <1>8, <1>12, PlacedParts
<1>14. Placed(t, 1, y)
  <2>1. 1 \in Nat /\ 0 + 1 = 1
    OBVIOUS
  <2> QED BY <1>2, <1>3, <1>7, <1>13, <2>1, PlacedParts
<1>15. t[(1 + m) + 1].type = "EndArray"
  <2>1. Len(z) = 1 /\ 1 \in 1..1
    BY <1>2 DEF ListOf
  <2>2. t[(1 + m) + 1] = z[1]
    BY <1>13, <2>1 DEF Placed
  <2> QED BY <1>6, <2>2
<1> DEFINE b == [i \in 1..n + 1 |-> 1 + rel[i]]
<1>16. rel \in [1..n + 1 -> Nat] /\ rel[1] = 0 /\ rel[n + 1] = m
  BY <1>3, <1>4 DEF PartsUpTo, ListOf
<1> HIDE DEF n
<1>17. /\ b \in [1..n + 1 -> Nat \ {0}] /\ b[1] = 1 /\ b[n + 1] = 1 + m
       /\ \A i \in 1..n + 1 : b[i] = 1 + rel[i]
  BY <1>5, <1>16
<1> HIDE DEF b
<1>18. ASSUME NEW i \in 1..n
       PROVE  (\E a : SchemeAt(t, b[i], d[i], a, b[i + 1])) /\ b[i + 1] <= b[n + 1]
  <2>1. parts[i] = SchemeTokens(d[i]) /\ d[i].form \in Forms /\ IsList(d[i].headers)
    BY DEF n
  <2> HIDE DEF parts
  <2>2. PICK size \in Nat : ListOf(parts[i], size)
    BY <2>1, SchemeIsList
  <2>3. /\ rel[i + 1] = rel[i] + size /\ rel[i + 1] <= m
        /\ \A k \in 1..size : y[rel[i] + k] = parts[i][k]
    BY <1>3, <1>4, <2>2 DEF PartsUpTo, ListOf
  <2>4. rel[i] \in Nat /\ b[i] = 1 + rel[i] /\ b[i + 1] = 1 + rel[i + 1]
    BY <1>5, <1>16, <1>17
  <2>5. ASSUME NEW k \in 1..size PROVE t[b[i] + k] = parts[i][k]
    <3>1. rel[i] + k \in 1..m
      BY <2>3, <2>4
    <3>2. \A c \in 1..m : t[1 + c] = y[c]
      BY <1>3, <1>14 DEF Placed, ListOf
    <3>3. 1 + (rel[i] + k) = b[i] + k
      BY <2>4
    <3> QED BY <2>3, <3>1, <3>2, <3>3
  <2>6. Placed(t, b[i], SchemeTokens(d[i]))
    BY <2>1, <2>2, <2>5 DEF Placed, ListOf
  <2>7. b[i] \in Nat /\ b[i + 1] = b[i] + size
    BY <2>3, <2>4
  <2>8. PICK a : \E c \in Nat : ListOf(SchemeTokens(d[i]), c) /\ SchemeAt(t, b[i], d[i], a, b[i] + c)
    BY <2>1, <2>6, <2>7, PlacedScheme
  <2>9. SchemeAt(t, b[i], d[i], a, b[i + 1])
    BY <2>1, <2>2, <2>7, <2>8 DEF ListOf
  <2>10. b[i + 1] <= b[n + 1]
    BY <1>17, <2>3, <2>4
  <2> QED BY <2>9, <2>10
<1> DEFINE at == [i \in 1..n |-> CHOOSE a : SchemeAt(t, b[i], d[i], a, b[i + 1])]
<1>19. \A i \in 1..n : SchemeAt(t, b[i], d[i], at[i], b[i + 1])
  <2> TAKE i \in 1..n
  <2>1. \E a : SchemeAt(t, b[i], d[i], a, b[i + 1])
    BY <1>18
  <2>2. SchemeAt(t, b[i], d[i], CHOOSE a : SchemeAt(t, b[i], d[i], a, b[i + 1]), b[i + 1])
    BY <2>1, Zenon
  <2> QED BY <2>2
<1> HIDE DEF at
<1>20. Len(Write(d)) = (1 + m) + 1 /\ Len(t) = ((1 + m) + 1) + 1 /\ IsList(t)
  BY <1>1, <1>9, <1>10 DEF ListOf
<1>21. Len(Write(d)) = b[n + 1] + 1 /\ Len(t) = b[n + 1] + 2
  BY <1>17, <1>20
<1>22. Layout(t, d, b, at)
  BY <1>15, <1>17, <1>18, <1>19, <1>20, <1>21 DEF Layout, n
<1> QED BY <1>22

-----------------------------------------------------------------------------
(***************************************************************************)
(* The invariant: where the reader can be in the document, and what it has *)
(* read so far.                                                            *)
(***************************************************************************)
AllHeaders == UNION {ListedHeaders(document[k]) : k \in 1..Len(document)}

\* The header that place k of a list stands for.
HeaderMeant(s, k) == NewHeader(s.headers[k].name, s.headers[k].claim)

\* The first header of a list, the third, and so on.
EveryOther(hs) == [x \in 1..(Len(hs) + 1) \div 2 |-> hs[2 * x - 1]]

\* What is read of a scheme that Write has written.
ReadOf(s) == Meant([name |-> s.name, headers |-> EveryOther(s.headers)])

\* After k schemes.
Sound(k) ==
    /\ headers \in Seq(AllHeaders)
    /\ \A s \in schemes :
         /\ s.name # NoText /\ s.headers # {}
         /\ \A h \in s.headers : h.name # NoText /\ h.claim # NoText
    /\ ReadAsListed
    /\ Written => schemes = {ReadOf(document[x]) : x \in 1..k}

\* A name in the locals is that of a scheme that has been read.
Known == schemeName = NoText \/ \E s \in schemes : s.name = schemeName

\* In front of scheme i.
Between(b, i) == loop = "schemes" /\ pos = b[i] /\ Known

\* After the brace of scheme i.
Opened(b, i) == loop = "schemes" /\ pos = b[i] + 1 /\ Known

\* After its name, where that is first.
Named(b, i) ==
    /\ document[i].form \in {"nameFirst", "noHeaders"}
    /\ loop = "schemes" /\ pos = b[i] + 3 /\ schemeName = document[i].name

NameRead(s) == IF s.form = "nameFirst" THEN schemeName = s.name ELSE Known

\* What is collected when the loop has passed j - 1 headers of s.
Progress(s, j, hs) ==
    /\ hs \in Seq(ListedHeaders(s)) /\ j \in {2 * Len(hs), 2 * Len(hs) + 1}
    /\ \A x \in 1..Len(hs) : hs[x] = HeaderMeant(s, 2 * x - 1)

\* In the list of scheme s, in front of header j or inside it, where it is skipped.
InList(s, p) ==
    /\ s.form # "noHeaders" /\ loop = "headers" /\ NameRead(s)
    /\ \E j \in 1..Len(s.headers) + 1 :
         /\ Progress(s, j, headers)
         /\ \/ j = 2 * Len(headers) + 1 /\ pos = p[j]
            \/ j = 2 * Len(headers) /\ j <= Len(s.headers) /\ pos \in p[j] + 1..p[j + 1] - 1

\* In header h, which is after c and ends at e.
HeaderRead(h, c, e) ==
    \/ pos = c + 1 /\ header = [name |-> NoText, claim |-> NoText]
    \/ pos = c + 3 /\ header = [name |-> h.name, claim |-> NoText]
    \/ pos = c + 5 /\ h.claim # NoText /\ header = [name |-> h.name, claim |-> h.claim]
    \/ pos = e /\ header = [name |-> h.name, claim |-> h.claim]

InHeader(s, p) ==
    /\ s.form # "noHeaders" /\ loop = "header" /\ NameRead(s)
    /\ \E j \in 1..Len(s.headers) :
         /\ Progress(s, j, headers) /\ j = 2 * Len(headers) + 1
         /\ HeaderRead(s.headers[j], p[j], p[j + 1])

\* After the list of a scheme whose name comes then.
Left(s, p) ==
    /\ s.form = "headersFirst" /\ loop = "schemes" /\ Known
    /\ \/ pos = p[Len(s.headers) + 1] + 2
       \/ pos = p[Len(s.headers) + 1] + 3

Inside(b, at, i) ==
    \/ Opened(b, i)
    \/ Named(b, i)
    \/ InList(document[i], at[i])
    \/ InHeader(document[i], at[i])
    \/ Left(document[i], at[i])

Reading(b, at) ==
    /\ result = "reading"
    /\ \/ \E i \in 1..Len(document) + 1 : Sound(i - 1) /\ Between(b, i)
       \/ \E i \in 1..Len(document) : Sound(i - 1) /\ Inside(b, at, i)

Done(b) ==
    /\ result = "read" /\ loop = "schemes" /\ pos = b[Len(document) + 1] + 1
    /\ Sound(Len(document))

Refused ==
    /\ result = "thrown" /\ loop = "schemes" /\ pos \in 1..Len(json)
    /\ ~Written /\ Sound(0)

Stage(b, at) == Reading(b, at) \/ Done(b) \/ Refused

IInv == \E b, at : Layout(json, document, b, at) /\ Stage(b, at)

-----------------------------------------------------------------------------
(* What the places say, and what a pass does in each loop *)

LEMMA ListFacts ==
    ASSUME NEW t, NEW c \in Nat, NEW hs, IsList(hs), NEW p, ListAt(t, c, hs, p)
    PROVE  /\ Len(hs) \in Nat /\ p[1] = c + 2
           /\ \A j \in 1..Len(hs) + 1 : p[j] \in Nat /\ p[j] >= 1 /\ p[j] <= p[Len(hs) + 1]
           /\ \A j \in 1..Len(hs) : p[j + 1] = p[j] + HeaderLength(hs[j])
<1> DEFINE m == Len(hs)
<1>1. m \in Nat
  BY DEF IsList
<1>2. /\ p \in [1..m + 1 -> Nat] /\ p[1] = c + 2
      /\ \A j \in 1..m : HeaderAt(t, p[j], hs[j], p[j + 1]) /\ p[j + 1] <= p[m + 1]
  BY DEF ListAt
<1> HIDE DEF m
<1>3. \A j \in 1..m : p[j + 1] = p[j] + HeaderLength(hs[j])
  BY <1>2 DEF HeaderAt, HeaderLength
<1>4. ASSUME NEW j \in 1..m + 1 PROVE p[j] \in Nat /\ p[j] >= 1 /\ p[j] <= p[m + 1]
  <2>1. CASE j = 1
    <3>1. CASE m = 0
      BY <1>2, <2>1, <3>1
    <3>2. CASE m # 0
      <4>1. 1 \in 1..m /\ p[1] \in Nat /\ p[m + 1] \in Nat
        BY <1>1, <1>2, <3>2
      <4>2. p[1 + 1] = p[1] + HeaderLength(hs[1]) /\ p[1 + 1] <= p[m + 1]
        BY <1>2, <1>3, <4>1
      <4>3. HeaderLength(hs[1]) \in {4, 6}
        BY DEF HeaderLength
      <4> QED BY <1>2, <2>1, <4>1, <4>2, <4>3
    <3> QED BY <3>1, <3>2
  <2>2. CASE j # 1
    <3>1. j - 1 \in 1..m /\ (j - 1) + 1 = j /\ p[j - 1] \in Nat /\ p[j] \in Nat
      BY <1>1, <1>2, <2>2
    <3>2. p[j] = p[j - 1] + HeaderLength(hs[j - 1]) /\ p[j] <= p[m + 1]
      <4> DEFINE k == j - 1
      <4>1. k \in 1..m /\ k + 1 = j
        BY <3>1
      <4>2. p[k + 1] = p[k] + HeaderLength(hs[k]) /\ p[k + 1] <= p[m + 1]
        <5> HIDE DEF k
        <5> QED BY <1>2, <1>3, <4>1
      <4> QED BY <4>1, <4>2
    <3>3. HeaderLength(hs[j - 1]) \in {4, 6}
      BY DEF HeaderLength
    <3> QED BY <3>1, <3>2, <3>3
  <2> QED BY <2>1, <2>2
<1> QED BY <1>1, <1>2, <1>3, <1>4 DEF m

LEMMA SchemeFacts ==
    ASSUME NEW t, NEW d, NEW b, NEW at, Layout(t, d, b, at), NEW i \in 1..Len(d)
    PROVE  /\ Len(d) \in Nat /\ d[i].form \in Forms /\ IsList(d[i].headers)
           /\ b[i] \in Nat /\ b[i] >= 1 /\ b[i + 1] \in Nat
           /\ b[i] + 4 <= b[i + 1] /\ b[i + 1] + 2 <= Len(t) /\ Len(t) \in Nat
           /\ SchemeAt(t, b[i], d[i], at[i], b[i + 1])
           /\ d[i].form # "noHeaders" =>
                /\ \E c \in Nat : ListAt(t, c, d[i].headers, at[i])
                /\ at[i][Len(d[i].headers) + 1] + 2 <= b[i + 1]
<1>1. Len(d) \in Nat /\ Len(t) \in Nat /\ d[i].form \in Forms /\ IsList(d[i].headers)
  BY DEF Layout, IsList
<1>2. /\ b[i] \in Nat \ {0} /\ b[i + 1] \in Nat \ {0} /\ b[Len(d) + 1] \in Nat
      /\ SchemeAt(t, b[i], d[i], at[i], b[i + 1]) /\ b[i + 1] <= b[Len(d) + 1]
      /\ Len(t) = b[Len(d) + 1] + 2
  BY <1>1 DEF Layout
<1> DEFINE hs == d[i].headers
           p == at[i]
           last == p[Len(hs) + 1]
           ends == b[i + 1]
<1>3. CASE d[i].form = "noHeaders"
  <2>1. b[i + 1] = b[i] + 4
    BY <1>2, <1>3 DEF SchemeAt
  <2> QED BY <1>1, <1>2, <1>3, <2>1
<1>4. ASSUME NEW c \in Nat, ListAt(t, c, hs, p) PROVE last \in Nat /\ last >= c + 2
  <2> HIDE DEF hs, p
  <2>1. IsList(hs)
    BY <1>1 DEF hs
  <2>2. /\ Len(hs) \in Nat /\ p[1] = c + 2
        /\ \A j \in 1..Len(hs) + 1 : p[j] \in Nat /\ p[j] >= 1 /\ p[j] <= p[Len(hs) + 1]
    BY <1>4, <2>1, ListFacts
  <2>3. 1 \in 1..Len(hs) + 1 /\ Len(hs) + 1 \in 1..Len(hs) + 1
    BY <2>2
  <2> QED BY <2>2, <2>3
<1>5. /\ b[i] + 1 \in Nat /\ b[i] + 3 \in Nat
      /\ d[i].form = "nameFirst" => ListAt(t, b[i] + 3, hs, p) /\ ends = last + 2
      /\ d[i].form = "noName" => ListAt(t, b[i] + 1, hs, p) /\ ends = last + 2
      /\ d[i].form = "headersFirst" => ListAt(t, b[i] + 1, hs, p) /\ ends = last + 4
  <2>1. b[i] + 1 \in Nat /\ b[i] + 3 \in Nat
    BY <1>2
  <2>2. /\ d[i].form = "nameFirst" => ListAt(t, b[i] + 3, hs, p)
        /\ d[i].form \in {"headersFirst", "noName"} => ListAt(t, b[i] + 1, hs, p)
    BY <1>2 DEF SchemeAt
  <2>3. /\ d[i].form \in {"nameFirst", "noName"} => ends = last + 2
        /\ d[i].form = "headersFirst" => ends = last + 4
    BY <1>2 DEF SchemeAt
  <2> QED BY <2>1, <2>2, <2>3
<1>6. CASE d[i].form # "noHeaders"
  <2>1. PICK c \in {b[i] + 1, b[i] + 3} : ListAt(t, c, hs, p) /\ ends \in {last + 2, last + 4}
    <3> HIDE DEF hs, p, last, ends
    <3> QED BY <1>1, <1>5, <1>6 DEF Forms
  <2>2. c \in Nat /\ last \in Nat /\ last >= c + 2
    BY <1>4, <1>5, <2>1
  <2> HIDE DEF hs, p, last, ends
  <2>3. b[i] + 4 <= ends /\ last + 2 <= ends
    BY <1>2, <2>1, <2>2
  <2>4. \E x \in Nat : ListAt(t, x, hs, p)
    BY <2>1, <2>2
  <2>5. b[i] + 4 <= b[i + 1] /\ at[i][Len(d[i].headers) + 1] + 2 <= b[i + 1]
    BY <2>3 DEF hs, p, last, ends
  <2>6. \E x \in Nat : ListAt(t, x, d[i].headers, at[i])
    BY <2>4 DEF hs, p
  <2>7. b[i] >= 1 /\ b[i + 1] + 2 <= Len(t)
    BY <1>1, <1>2
  <2> QED BY <1>1, <1>2, <2>5, <2>6, <2>7
<1> QED BY <1>3, <1>6

\* A pass whose last token does not end an object.
LEMMA PassesBy ==
    ASSUME NEW p, NEW n, NEW hs, EndPass(p, n, hs), json[p].type # "EndObject"
    PROVE  pos' = p /\ schemes' = schemes /\ result' = result
BY DEF EndPass

LEMMA SchemesPass ==
    ASSUME Next, result = "reading", loop = "schemes", pos < Len(json)
    PROVE  LET type == json[pos + 1].type
               text == json[pos + 1].text
           IN  /\ document' = document /\ json' = json
               /\ type = "EndArray" =>
                    /\ pos' = pos + 1 /\ result' = "read"
                    /\ UNCHANGED <<loop, schemeName, headers, schemes>>
               /\ type = "PropertyName" /\ text = "Name" =>
                    /\ schemeName' = json[pos + 2].text
                    /\ EndPass(pos + 2, schemeName', headers) /\ UNCHANGED <<loop, headers>>
               /\ type = "PropertyName" /\ text = "Headers" =>
                    /\ headers' = <<>> /\ loop' = "headers" /\ pos' = pos + 2
                    /\ UNCHANGED <<schemeName, schemes, result>>
               /\ type \in {"StartObject", "EndObject", "String"} =>
                    /\ EndPass(pos + 1, schemeName, headers)
                    /\ UNCHANGED <<loop, schemeName, headers>>
<1>1. ReadSchemes
  BY DEF Next, ReadHeaders, ReadHeader
<1>2. Ahead = json[pos + 1].type
  BY DEF Ahead
<1> HIDE DEF EndPass
<1> QED BY <1>1, <1>2 DEF ReadSchemes

LEMMA HeadersPass ==
    ASSUME Next, result = "reading", loop = "headers", pos < Len(json)
    PROVE  LET type == json[pos + 1].type
           IN  /\ document' = document /\ json' = json /\ schemeName' = schemeName
               /\ type = "StartObject" =>
                    /\ header' = [name |-> NoText, claim |-> NoText]
                    /\ loop' = "header" /\ pos' = pos + 1
                    /\ UNCHANGED <<headers, schemes, result>>
               /\ type = "EndArray" => LeaveHeaders(pos + 1, headers)
               /\ type \notin {"StartObject", "EndArray"} =>
                    pos' = pos + 1 /\ UNCHANGED <<loop, headers, schemes, result>>
<1>1. ReadHeaders
  BY DEF Next, ReadSchemes, ReadHeader
<1>2. Ahead = json[pos + 1].type
  BY DEF Ahead
<1> HIDE DEF LeaveHeaders
<1> QED BY <1>1, <1>2 DEF ReadHeaders, Skip

LEMMA HeaderPass ==
    ASSUME Next, result = "reading", loop = "header", pos < Len(json)
    PROVE  LET type == json[pos + 1].type
               text == json[pos + 1].text
               read == Append(headers, NewHeader(header.name, header.claim))
           IN  /\ document' = document /\ json' = json /\ schemeName' = schemeName
               /\ type = "PropertyName" =>
                    /\ pos' = pos + 2 /\ UNCHANGED <<loop, headers, schemes, result>>
                    /\ header' = IF text = "Name" THEN [header EXCEPT !.name = json[pos + 2].text]
                                 ELSE [header EXCEPT !.claim = json[pos + 2].text]
               /\ type = "EndObject" =>
                    pos' = pos + 1 /\ UNCHANGED <<loop, headers, header, schemes, result>>
               /\ type = "EndArray" => LeaveHeaders(pos + 1, read)
               /\ type = "StartObject" =>
                    /\ loop' = "headers" /\ headers' = read /\ pos' = pos + 1
                    /\ UNCHANGED <<schemes, result>>
<1>1. ReadHeader
  BY DEF Next, ReadSchemes, ReadHeaders
<1>2. Ahead = json[pos + 1].type
  BY DEF Ahead
<1> HIDE DEF LeaveHeaders, NewHeader
<1> QED BY <1>1, <1>2 DEF ReadHeader, Skip

-----------------------------------------------------------------------------
(* The end of a scheme *)

LEMMA CollectedFacts ==
    ASSUME NEW S, NEW hs \in Seq(S)
    PROVE  /\ \A h \in Collected(hs) : \E i \in DOMAIN hs : h = hs[i]
           /\ Collected(hs) \subseteq S
           /\ Len(hs) >= 1 => hs[1] \in Collected(hs)
           /\ Len(hs) = 1 => Collected(hs) = {hs[1]}
<1>1. DOMAIN hs = 1..Len(hs) /\ Len(hs) \in Nat /\ \A i \in 1..Len(hs) : hs[i] \in S
  OBVIOUS
<1>2. \A h \in Collected(hs) : \E i \in DOMAIN hs : h = hs[i]
  BY DEF Collected
<1>3. Collected(hs) \subseteq S
  BY <1>1, <1>2
<1>4. ASSUME Len(hs) >= 1 PROVE hs[1] \in Collected(hs)
  <2>1. 1 \in DOMAIN hs /\ 1..(1 - 1) = {}
    BY <1>1, <1>4
  <2> QED BY <2>1 DEF Collected
<1>5. ASSUME Len(hs) = 1 PROVE Collected(hs) = {hs[1]}
  <2>1. DOMAIN hs = {1}
    BY <1>1, <1>5
  <2> QED BY <1>2, <1>4, <1>5, <2>1
<1> QED BY <1>2, <1>3, <1>4, <1>5

\* What a pass that collects no scheme leaves as it was.
LEMMA SoundFrame ==
    ASSUME NEW k, Sound(k), document' = document, schemes' = schemes, headers' \in Seq(AllHeaders)
    PROVE  Sound(k)'
<1>1. AllHeaders' = AllHeaders
  BY DEF AllHeaders
<1>2. headers' \in Seq(AllHeaders')
  BY <1>1
<1>3. /\ \A s \in schemes' :
           /\ s.name # NoText /\ s.headers # {}
           /\ \A h \in s.headers : h.name # NoText /\ h.claim # NoText
  BY DEF Sound
<1>4. ReadAsListed' /\ (Written' <=> Written)
  BY DEF Sound, ReadAsListed, Written
<1>5. Written => schemes' = {ReadOf(document'[x]) : x \in 1..k}
  BY DEF Sound
<1> QED BY <1>2, <1>3, <1>4, <1>5 DEF Sound

LEMMA KnownFrame ==
    ASSUME Known, schemeName' = schemeName, schemes' = schemes
    PROVE  Known'
BY DEF Known

LEMMA HeadersOfList ==
    ASSUME IsList(document), NEW i \in 1..Len(document), IsList(document[i].headers)
    PROVE  /\ ListedHeaders(document[i]) \subseteq AllHeaders
           /\ \A h \in AllHeaders : h.name # NoText => h.claim # NoText
<1>1. \A h \in AllHeaders : \E n, c : h = NewHeader(n, c)
  BY DEF AllHeaders, ListedHeaders
<1> QED BY <1>1 DEF AllHeaders, NewHeader

LEMMA ReadOfFacts ==
    ASSUME NEW s, IsList(s.headers)
    PROVE  /\ ReadOf(s).name = s.name
           /\ Len(s.headers) >= 1 => HeaderMeant(s, 1) \in ReadOf(s).headers
           /\ Len(s.headers) = 1 => ReadOf(s) = Meant(s)
<1> DEFINE m == Len(s.headers)
           few == EveryOther(s.headers)
           L == (m + 1) \div 2
           hs == [x \in DOMAIN few |-> NewHeader(few[x].name, few[x].claim)]
<1>1. m \in Nat /\ DOMAIN s.headers = 1..m
  BY DEF IsList
<1>2. L \in Nat /\ (m >= 1 => L >= 1) /\ (m = 1 => L = 1)
  <2> HIDE DEF m
  <2> QED BY <1>1
<1>3. ReadOf(s) = [name |-> s.name, headers |-> Collected(hs)]
  BY DEF ReadOf, Meant
<1>4. few = [x \in 1..L |-> s.headers[2 * x - 1]]
  BY DEF EveryOther
<1> HIDE DEF L, few
<1>5. hs = [x \in 1..L |-> HeaderMeant(s, 2 * x - 1)]
  <2>1. DOMAIN few = 1..L /\ \A x \in 1..L : few[x] = s.headers[2 * x - 1]
    BY <1>4
  <2> QED BY <2>1 DEF HeaderMeant
<1> HIDE DEF hs
<1> DEFINE S == {HeaderMeant(s, 2 * x - 1) : x \in 1..L}
<1>6. hs \in Seq(S) /\ Len(hs) = L
  <2>1. \A x \in 1..L : HeaderMeant(s, 2 * x - 1) \in S
    OBVIOUS
  <2> HIDE DEF S
  <2> QED BY <1>2, <1>5, <2>1, IsASeq
<1>7. ASSUME m >= 1 PROVE HeaderMeant(s, 1) \in Collected(hs)
  <2>1. L >= 1 /\ 2 * 1 - 1 = 1
    BY <1>2, <1>7
  <2>2. hs[1] = HeaderMeant(s, 2 * 1 - 1)
    BY <1>2, <1>5, <2>1
  <2> QED BY <1>6, <2>1, <2>2, CollectedFacts
<1>8. ASSUME m = 1 PROVE ReadOf(s) = Meant(s)
  <2> DEFINE all == [x \in DOMAIN s.headers |-> NewHeader(s.headers[x].name, s.headers[x].claim)]
  <2>1. L = 1 /\ DOMAIN s.headers = 1..1 /\ 2 * 1 - 1 = 1
    BY <1>1, <1>2, <1>8
  <2>2. all = [x \in 1..1 |-> HeaderMeant(s, 1)] /\ hs = [x \in 1..1 |-> HeaderMeant(s, 1)]
    BY <1>5, <2>1 DEF HeaderMeant
  <2>3. Meant(s) = [name |-> s.name, headers |-> Collected(all)]
    BY DEF Meant
  <2> QED BY <1>3, <2>2, <2>3
<1> QED BY <1>3, <1>7, <1>8

\* What has been collected at the end of a list is what is read of its scheme.
LEMMA CollectedIsReadOf ==
    ASSUME NEW s, IsList(s.headers), NEW hs, Progress(s, Len(s.headers) + 1, hs)
    PROVE  ReadOf(s) = [name |-> s.name, headers |-> Collected(hs)]
<1> DEFINE m == Len(s.headers)
           few == EveryOther(s.headers)
           read == [x \in DOMAIN few |-> NewHeader(few[x].name, few[x].claim)]
<1>1. /\ m \in Nat /\ Len(hs) \in Nat /\ m + 1 \in {2 * Len(hs), 2 * Len(hs) + 1}
      /\ hs = [x \in 1..Len(hs) |-> hs[x]]
      /\ \A x \in 1..Len(hs) : hs[x] = HeaderMeant(s, 2 * x - 1)
  BY DEF Progress, IsList
<1>2. (m + 1) \div 2 = Len(hs)
  <2> HIDE DEF m
  <2> QED BY <1>1
<1>3. few = [x \in 1..Len(hs) |-> s.headers[2 * x - 1]]
  BY <1>2 DEF EveryOther
<1> HIDE DEF few, m
<1>4. read = [x \in 1..Len(hs) |-> HeaderMeant(s, 2 * x - 1)]
  <2>1. DOMAIN few = 1..Len(hs) /\ \A x \in 1..Len(hs) : few[x] = s.headers[2 * x - 1]
    BY <1>3
  <2> QED BY <2>1 DEF HeaderMeant
<1>5. hs = [x \in 1..Len(hs) |-> HeaderMeant(s, 2 * x - 1)]
  BY <1>1
<1>6. ReadOf(s) = [name |-> s.name, headers |-> Collected(read)]
  BY DEF ReadOf, Meant, few
<1> QED BY <1>4, <1>5, <1>6

LEMMA SchemeEnds ==
    ASSUME NEW CONSTANT b, NEW CONSTANT at, Layout(json, document, b, at),
           NEW CONSTANT i \in 1..Len(document), Sound(i - 1), result = "reading",
           document' = document, json' = json, loop' = "schemes",
           headers' \in Seq(AllHeaders), EndPass(b[i + 1], schemeName', headers'),
           document[i].form \in {"headersFirst", "noName"} =>
             schemeName' = NoText \/ \E s \in schemes : s.name = schemeName',
           document[i].form \in {"nameFirst", "noHeaders"} => schemeName' = document[i].name,
           document[i].form = "nameFirst" =>
             Progress(document[i], Len(document[i].headers) + 1, headers')
    PROVE  Stage(b, at)'
<1> DEFINE nm == schemeName'
           hs == headers'
           d == document[i]
           m == Len(d.headers)
           new == [name |-> nm, headers |-> Collected(hs)]
           valid == ValidScheme(nm, hs) /\ \A x \in DOMAIN hs : ValidHeader(hs[x])
<1>1. /\ d.form \in Forms /\ IsList(d.headers) /\ Len(document) \in Nat
      /\ b[i + 1] \in 1..Len(json) /\ SchemeAt(json, b[i], d, at[i], b[i + 1])
  BY SchemeFacts
<1>2. IsList(document) /\ m \in Nat /\ DOMAIN d.headers = 1..m /\ DOMAIN document = 1..Len(document)
  BY <1>1 DEF Layout, IsList
<1>3. json[b[i + 1]].type = "EndObject"
  BY <1>1 DEF SchemeAt
<1>4. /\ pos' = b[i + 1]
      /\ valid => schemes' = WithScheme(schemes, nm, hs) /\ result' = "reading"
      /\ ~valid => result' = "thrown" /\ schemes' = schemes
  BY <1>3 DEF EndPass
<1>5. DOMAIN hs = 1..Len(hs) /\ Len(hs) \in Nat
  OBVIOUS
\* What a written scheme leaves in the locals is valid.
<1>6. ASSUME Written
      PROVE  valid /\ d.form = "nameFirst" /\ nm = d.name /\ Progress(d, m + 1, hs)
  <2>1. /\ d.form = "nameFirst" /\ ValidScheme(d.name, d.headers)
        /\ \A j \in 1..m : ValidHeader(d.headers[j])
    BY <1>2, <1>6 DEF Written
  <2>2. m >= 1
    <3>1. m # 0
      <4> SUFFICES ASSUME m = 0 PROVE FALSE
        OBVIOUS
      <4>1. d.headers = <<>>
        BY <1>1 DEF IsList
      <4> QED BY <2>1, <4>1 DEF ValidScheme
    <3> QED BY <1>2, <3>1
  <2>3. nm = d.name /\ Progress(d, m + 1, hs)
    BY <2>1
  <2>4. hs \in Seq(ListedHeaders(d)) /\ Len(hs) >= 1
    <3>1. hs \in Seq(ListedHeaders(d)) /\ m + 1 \in {2 * Len(hs), 2 * Len(hs) + 1}
      BY <2>3 DEF Progress
    <3> HIDE DEF m, hs, d
    <3> QED BY <1>2, <1>5, <2>2, <3>1
  <2>5. ASSUME NEW x \in DOMAIN hs PROVE ValidHeader(hs[x])
    <3>1. hs[x] \in ListedHeaders(d)
      BY <2>4
    <3>2. PICK j \in 1..m : hs[x] = NewHeader(d.headers[j].name, d.headers[j].claim)
      BY <1>2, <3>1 DEF ListedHeaders
    <3>3. hs[x].name = d.headers[j].name
      BY <3>2 DEF NewHeader
    <3> QED BY <2>1, <3>3 DEF ValidHeader
  <2>6. ValidScheme(nm, hs)
    BY <2>1, <2>3, <2>4 DEF ValidScheme
  <2> QED BY <2>1, <2>2, <2>3, <2>4, <2>5, <2>6
<1> HIDE DEF nm, hs, d, m, new, valid
<1>7. CASE ~valid
  <2>1. ~Written
    BY <1>6, <1>7
  <2>2. Sound(0)
    BY <2>1 DEF Sound
  <2>3. Sound(0)'
    BY <1>4, <1>7, <2>2, SoundFrame DEF hs
  <2>4. (~Written)'
    BY <2>1 DEF Written
  <2>5. Refused'
    BY <1>1, <1>4, <1>7, <2>3, <2>4 DEF Refused
  <2> QED BY <2>5 DEF Stage
<1>8. CASE valid
  <2>1. /\ schemes' = IF \E s \in schemes : s.name = nm THEN schemes ELSE schemes \cup {new}
        /\ result' = "reading"
    BY <1>4, <1>8 DEF WithScheme, new
  <2>2. new.name = nm /\ new.headers = Collected(hs)
    BY DEF new
  <2>3. nm # NoText /\ hs # <<>> /\ \A x \in DOMAIN hs : hs[x].name # NoText
    BY <1>8 DEF valid, ValidScheme, ValidHeader
  <2>4. Known'
    <3>1. \E s \in schemes' : s.name = nm
      BY <2>1, <2>2
    <3> QED BY <3>1 DEF Known, nm
  <2>5. (i + 1) - 1 = i /\ i + 1 \in 1..Len(document) + 1 /\ 1..i = (1..(i - 1)) \cup {i}
    BY <1>1
  <2>6. SUFFICES Sound(i)'
    <3>1. Sound((i + 1) - 1)' /\ Between(b, i + 1)'
      BY <1>4, <2>4, <2>5, <2>6 DEF Between
    <3>2. \E j \in 1..Len(document') + 1 : Sound(j - 1)' /\ Between(b, j)'
      BY <2>5, <3>1
    <3> QED BY <2>1, <3>2 DEF Stage, Reading
  <2>7. CASE \E s \in schemes : s.name = nm
    <3>1. ~Written
      <4> SUFFICES ASSUME Written PROVE FALSE
        OBVIOUS
      <4>1. PICK s \in schemes : s.name = nm
        BY <2>7
      <4>2. PICK x \in 1..(i - 1) : s.name = document[x].name
        <5>1. PICK x \in 1..(i - 1) : s = ReadOf(document[x])
          BY <4>1 DEF Sound
        <5>2. IsList(document[x].headers)
          <6>1. x \in 1..Len(document)
            BY <1>1
          <6> QED BY <6>1 DEF Layout
        <5> QED BY <5>1, <5>2, ReadOfFacts
      <4>3. document[x].name = document[i].name /\ x \in DOMAIN document /\ x # i
        BY <1>1, <1>2, <1>6, <4>1, <4>2 DEF d
      <4> QED BY <1>2, <4>3 DEF Written
    <3>2. Sound(i)
      BY <3>1 DEF Sound
    <3> QED BY <2>1, <2>7, <3>2, SoundFrame DEF hs
  <2>8. CASE ~ \E s \in schemes : s.name = nm
    <3>1. schemes' = schemes \cup {new}
      BY <2>1, <2>8
    <3>2. d.form \in {"nameFirst", "noHeaders"} /\ nm = d.name
      BY <1>1, <2>3, <2>8 DEF nm, d, Forms
    <3>3. hs \in Seq(AllHeaders) /\ Len(hs) >= 1
      <4>1. hs \in Seq(AllHeaders)
        BY DEF hs
      <4>2. Len(hs) # 0
        BY <2>3, <4>1, EmptySeq
      <4> QED BY <1>5, <4>1, <4>2
    <3>4. /\ \A h \in Collected(hs) : \E x \in DOMAIN hs : h = hs[x]
          /\ Collected(hs) \subseteq AllHeaders /\ hs[1] \in Collected(hs)
          /\ Len(hs) = 1 => Collected(hs) = {hs[1]}
      BY <3>3, CollectedFacts
    <3>5. \A h \in AllHeaders : h.name # NoText => h.claim # NoText
      BY <1>1, <1>2, HeadersOfList DEF d
    <3>6. /\ new.name # NoText /\ new.headers # {}
          /\ \A h \in new.headers : h.name # NoText /\ h.claim # NoText
      BY <2>2, <2>3, <3>4, <3>5
    <3>7. \A s \in schemes' :
            /\ s.name # NoText /\ s.headers # {}
            /\ \A h \in s.headers : h.name # NoText /\ h.claim # NoText
      BY <3>1, <3>6 DEF Sound
    <3>8. d.form = "noHeaders" \/ new.headers \subseteq ListedHeaders(d)
      <4>1. CASE d.form = "nameFirst"
        <5>1. hs \in Seq(ListedHeaders(d))
          BY <4>1 DEF Progress, d, hs
        <5> QED BY <2>2, <5>1, CollectedFacts
      <4> QED BY <3>2, <4>1
    <3>9. ReadAsListed'
      <4>1. \A s \in schemes : \E k \in DOMAIN document :
              /\ document[k].form # "noName" /\ s.name = document[k].name
              /\ document[k].form = "noHeaders" \/ s.headers \subseteq ListedHeaders(document[k])
        BY DEF Sound, ReadAsListed
      <4>2. /\ i \in DOMAIN document /\ document[i].form # "noName" /\ new.name = document[i].name
            /\ document[i].form = "noHeaders" \/ new.headers \subseteq ListedHeaders(document[i])
        BY <1>2, <2>2, <3>2, <3>8 DEF d
      <4> QED BY <3>1, <4>1, <4>2 DEF ReadAsListed
    <3>10. ASSUME Written PROVE schemes' = {ReadOf(document[x]) : x \in 1..i}
      <4>1. schemes = {ReadOf(document[x]) : x \in 1..(i - 1)}
        BY <3>10 DEF Sound
      <4>2. new = ReadOf(d)
        BY <1>1, <1>6, <3>10, CollectedIsReadOf DEF new, m
      <4> QED BY <2>5, <3>1, <4>1, <4>2 DEF d
    <3>11. headers' \in Seq(AllHeaders')
      BY DEF AllHeaders
    <3>12. Written' => Written
      BY DEF Written
    <3> QED BY <3>7, <3>9, <3>10, <3>11, <3>12 DEF Sound
  <2> QED BY <2>7, <2>8
<1> QED BY <1>7, <1>8

-----------------------------------------------------------------------------
(* One pass from each stage *)

\* A pass that stays inside scheme i.
LEMMA StaysInside ==
    ASSUME NEW CONSTANT b, NEW CONSTANT at, NEW CONSTANT i \in 1..Len(document),
           Sound(i - 1), document' = document, schemes' = schemes,
           headers' \in Seq(AllHeaders), result' = "reading", Inside(b, at, i)'
    PROVE  Stage(b, at)'
<1>1. Sound(i - 1)'
  BY SoundFrame
<1>2. \E k \in 1..Len(document') : Sound(k - 1)' /\ Inside(b, at, k)'
  BY <1>1
<1> QED BY <1>2 DEF Stage, Reading

LEMMA BetweenStep ==
    ASSUME NEW CONSTANT b, NEW CONSTANT at, Layout(json, document, b, at),
           NEW CONSTANT i \in 1..Len(document) + 1, Sound(i - 1), Between(b, i),
           result = "reading", Next
    PROVE  Stage(b, at)'
<1> DEFINE n == Len(document)
<1>1. n \in Nat /\ headers \in Seq(AllHeaders)
  BY DEF Layout, IsList, Sound
<1>2. CASE i = n + 1
  <2>1. /\ pos = b[n + 1] /\ b[n + 1] \in Nat /\ Len(json) = b[n + 1] + 2
        /\ json[pos + 1].type = "EndArray"
    BY <1>1, <1>2 DEF Between, Layout
  <2>2. pos < Len(json) /\ loop = "schemes"
    BY <2>1 DEF Between
  <2>3. /\ document' = document /\ pos' = pos + 1 /\ result' = "read"
        /\ UNCHANGED <<loop, schemeName, headers, schemes>>
    BY <2>1, <2>2, SchemesPass
  <2>4. Sound(n)'
    <3>1. i - 1 = n
      BY <1>1, <1>2
    <3> QED BY <1>1, <2>3, <3>1, SoundFrame
  <2>5. Done(b)'
    BY <2>1, <2>2, <2>3, <2>4 DEF Done
  <2> QED BY <2>5 DEF Stage
<1>3. CASE i # n + 1
  <2>1. i \in 1..n
    BY <1>1, <1>3
  <2>2. /\ b[i] \in Nat /\ b[i + 1] \in Nat /\ b[i] + 4 <= b[i + 1] /\ b[i + 1] + 2 <= Len(json)
        /\ Len(json) \in Nat /\ SchemeAt(json, b[i], document[i], at[i], b[i + 1])
    BY <2>1, SchemeFacts
  <2>3. loop = "schemes" /\ pos = b[i] /\ pos < Len(json) /\ json[pos + 1].type = "StartObject"
    BY <2>2 DEF Between, SchemeAt
  <2>4. /\ document' = document /\ EndPass(pos + 1, schemeName, headers)
        /\ UNCHANGED <<loop, schemeName, headers>>
    BY <2>3, SchemesPass
  <2>5. pos' = pos + 1 /\ schemes' = schemes /\ result' = result
    BY <2>3, <2>4, PassesBy
  <2>6. Opened(b, i)'
    BY <2>3, <2>4, <2>5, KnownFrame DEF Opened, Between
  <2>7. Inside(b, at, i)'
    BY <2>6 DEF Inside
  <2> QED BY <1>1, <2>1, <2>4, <2>5, <2>7, StaysInside
<1> QED BY <1>2, <1>3

\* The property "Headers" is next: its list is entered.
LEMMA ListStarts ==
    ASSUME NEW CONSTANT b, NEW CONSTANT at, Layout(json, document, b, at),
           NEW CONSTANT i \in 1..Len(document), Sound(i - 1), loop = "schemes",
           ListAt(json, pos, document[i].headers, at[i]), NameRead(document[i]),
           document[i].form # "noHeaders", pos \in Nat, pos < Len(json), result = "reading", Next
    PROVE  Stage(b, at)'
<1> DEFINE s == document[i]
           p == at[i]
<1>1. IsList(s.headers)
  BY SchemeFacts
<1>2. json[pos + 1].type = "PropertyName" /\ json[pos + 1].text = "Headers" /\ p[1] = pos + 2
  BY DEF ListAt
<1>3. /\ document' = document /\ headers' = <<>> /\ loop' = "headers" /\ pos' = pos + 2
      /\ UNCHANGED <<schemeName, schemes, result>>
  BY <1>2, SchemesPass
<1>4. 1 \in 1..Len(s.headers) + 1
  BY <1>1 DEF IsList
<1> HIDE DEF s, p
<1>5. Progress(document'[i], 1, headers')
  BY <1>3 DEF Progress
<1>6. NameRead(document[i])'
  BY <1>3, KnownFrame DEF NameRead
<1>7. InList(document[i], at[i])'
  <2>1. document'[i].form # "noHeaders" /\ 1 \in 1..Len(document'[i].headers) + 1
    BY <1>3, <1>4 DEF s
  <2>2. pos' = at[i][1]
    BY <1>2, <1>3 DEF p
  <2> QED BY <1>3, <1>5, <1>6, <2>1, <2>2 DEF InList
<1>8. Inside(b, at, i)'
  BY <1>7 DEF Inside
<1>9. headers' \in Seq(AllHeaders)
  BY <1>3
<1> QED BY <1>3, <1>8, <1>9, StaysInside

\* The end of the list of headers hs.
LEMMA ListEnds ==
    ASSUME NEW CONSTANT b, NEW CONSTANT at, Layout(json, document, b, at),
           NEW CONSTANT i \in 1..Len(document), Sound(i - 1), document[i].form # "noHeaders",
           NameRead(document[i]), result = "reading", NEW hs,
           Progress(document[i], Len(document[i].headers) + 1, hs),
           LeaveHeaders(at[i][Len(document[i].headers) + 1] + 1, hs),
           document' = document, json' = json, schemeName' = schemeName
    PROVE  Stage(b, at)'
<1> DEFINE last == at[i][Len(document[i].headers) + 1]
<1>1. /\ IsList(document[i].headers) /\ document[i].form \in Forms
      /\ SchemeAt(json, b[i], document[i], at[i], b[i + 1])
  BY SchemeFacts
<1>2. last \in Nat
  <2>1. PICK c \in Nat : ListAt(json, c, document[i].headers, at[i])
    BY SchemeFacts
  <2>2. /\ Len(document[i].headers) \in Nat
        /\ \A j \in 1..Len(document[i].headers) + 1 : at[i][j] \in Nat
    BY <1>1, <2>1, ListFacts
  <2>3. Len(document[i].headers) + 1 \in 1..Len(document[i].headers) + 1
    BY <2>2
  <2> QED BY <2>2, <2>3
<1>3. loop' = "schemes" /\ headers' = hs /\ EndPass((last + 1) + 1, schemeName, hs)
  BY DEF LeaveHeaders
<1>4. (last + 1) + 1 = last + 2
  BY <1>2
<1>5. headers' \in Seq(AllHeaders)
  <2>1. IsList(document)
    BY DEF Layout
  <2>2. ListedHeaders(document[i]) \subseteq AllHeaders
    BY <1>1, <2>1, HeadersOfList
  <2>3. hs \in Seq(ListedHeaders(document[i]))
    BY DEF Progress
  <2> QED BY <1>3, <2>2, <2>3, SeqMonotonic
<1> HIDE DEF last
<1>6. CASE document[i].form \in {"nameFirst", "noName"}
  <2>1. b[i + 1] = last + 2
    BY <1>1, <1>6 DEF SchemeAt, last
  <2>2. EndPass(b[i + 1], schemeName', headers')
    BY <1>3, <1>4, <2>1
  <2>3. /\ document[i].form \in {"headersFirst", "noName"} =>
             schemeName' = NoText \/ \E s \in schemes : s.name = schemeName'
        /\ document[i].form \in {"nameFirst", "noHeaders"} => schemeName' = document[i].name
    BY <1>6 DEF NameRead, Known
  <2> QED BY <1>3, <1>5, <2>2, <2>3, SchemeEnds
<1>7. CASE document[i].form = "headersFirst"
  <2>1. json[last + 2].type = "PropertyName"
    <3>1. PropertyAt(json, last + 1, "Name", document[i].name)
      BY <1>1, <1>7 DEF SchemeAt, last
    <3> QED BY <1>4, <3>1 DEF PropertyAt
  <2>2. pos' = last + 2 /\ schemes' = schemes /\ result' = result
    BY <1>3, <1>4, <2>1, PassesBy
  <2>3. Known'
    BY <1>7, <2>2, KnownFrame DEF NameRead
  <2>4. Left(document[i], at[i])'
    BY <1>3, <1>7, <2>2, <2>3 DEF Left, last
  <2>5. Inside(b, at, i)'
    BY <2>4 DEF Inside
  <2> QED BY <1>5, <2>2, <2>5, StaysInside
<1> QED BY <1>1, <1>6, <1>7 DEF Forms

LEMMA OpenedStep ==
    ASSUME NEW CONSTANT b, NEW CONSTANT at, Layout(json, document, b, at),
           NEW CONSTANT i \in 1..Len(document), Sound(i - 1), Opened(b, i),
           result = "reading", Next
    PROVE  Stage(b, at)'
<1>1. /\ b[i] \in Nat /\ b[i + 1] \in Nat /\ b[i] + 4 <= b[i + 1] /\ b[i + 1] + 2 <= Len(json)
      /\ Len(json) \in Nat /\ document[i].form \in Forms
      /\ SchemeAt(json, b[i], document[i], at[i], b[i + 1])
  BY SchemeFacts
<1>2. loop = "schemes" /\ pos = b[i] + 1 /\ pos \in Nat /\ pos < Len(json) /\ Known
  <2> DEFINE c == b[i]
             e == b[i + 1]
             l == Len(json)
  <2>1. c \in Nat /\ e \in Nat /\ l \in Nat /\ c + 4 <= e /\ e + 2 <= l
    BY <1>1
  <2>2. pos = c + 1
    BY DEF Opened
  <2> HIDE DEF c, e, l
  <2>3. pos \in Nat /\ pos < l
    BY <2>1, <2>2
  <2> QED BY <2>3 DEF l, Opened
<1>3. CASE document[i].form \in {"nameFirst", "noHeaders"}
  <2>1. PropertyAt(json, pos, "Name", document[i].name)
    BY <1>1, <1>2, <1>3 DEF SchemeAt
  <2>2. /\ document' = document /\ schemeName' = document[i].name
        /\ EndPass(pos + 2, schemeName', headers) /\ UNCHANGED <<loop, headers>>
    BY <1>2, <2>1, SchemesPass DEF PropertyAt
  <2>3. pos' = pos + 2 /\ schemes' = schemes /\ result' = result
    BY <2>1, <2>2, PassesBy DEF PropertyAt
  <2>4. pos' = b[i] + 3
    BY <1>1, <1>2, <2>3
  <2>5. Named(b, i)'
    BY <1>2, <1>3, <2>2, <2>4 DEF Named
  <2>6. Inside(b, at, i)' /\ headers' \in Seq(AllHeaders)
    BY <2>2, <2>5 DEF Inside, Sound
  <2> QED BY <2>2, <2>3, <2>6, StaysInside
<1>4. CASE document[i].form \in {"headersFirst", "noName"}
  <2>1. ListAt(json, pos, document[i].headers, at[i])
    BY <1>1, <1>2, <1>4 DEF SchemeAt
  <2>2. NameRead(document[i])
    BY <1>2, <1>4 DEF NameRead
  <2> QED BY <1>2, <1>4, <2>1, <2>2, ListStarts
<1> QED BY <1>1, <1>3, <1>4 DEF Forms

LEMMA NamedStep ==
    ASSUME NEW CONSTANT b, NEW CONSTANT at, Layout(json, document, b, at),
           NEW CONSTANT i \in 1..Len(document), Sound(i - 1), Named(b, i),
           result = "reading", Next
    PROVE  Stage(b, at)'
<1>1. /\ b[i] \in Nat /\ b[i + 1] \in Nat /\ b[i] + 4 <= b[i + 1] /\ b[i + 1] + 2 <= Len(json)
      /\ Len(json) \in Nat /\ SchemeAt(json, b[i], document[i], at[i], b[i + 1])
  BY SchemeFacts
<1>2. loop = "schemes" /\ pos = b[i] + 3 /\ pos \in Nat /\ pos < Len(json)
  <2> DEFINE c == b[i]
             e == b[i + 1]
             l == Len(json)
  <2>1. c \in Nat /\ e \in Nat /\ l \in Nat /\ c + 4 <= e /\ e + 2 <= l
    BY <1>1
  <2>2. pos = c + 3
    BY DEF Named
  <2> HIDE DEF c, e, l
  <2>3. pos \in Nat /\ pos < l
    BY <2>1, <2>2
  <2> QED BY <2>3 DEF l, Named
<1>3. CASE document[i].form = "nameFirst"
  <2>1. ListAt(json, pos, document[i].headers, at[i])
    BY <1>1, <1>2, <1>3 DEF SchemeAt
  <2>2. NameRead(document[i])
    BY <1>3 DEF NameRead, Named
  <2> QED BY <1>2, <1>3, <2>1, <2>2, ListStarts
<1>4. CASE document[i].form = "noHeaders"
  <2>1. b[i + 1] = pos + 1 /\ json[pos + 1].type = "EndObject"
    <3>1. b[i + 1] = b[i] + 4 /\ json[b[i + 1]].type = "EndObject"
      BY <1>1, <1>4 DEF SchemeAt
    <3>2. (b[i] + 3) + 1 = b[i] + 4
      BY <1>1
    <3> QED BY <1>2, <3>1, <3>2
  <2>2. /\ document' = document /\ json' = json /\ EndPass(b[i + 1], schemeName, headers)
        /\ UNCHANGED <<loop, schemeName, headers>>
    BY <1>2, <2>1, SchemesPass
  <2>3. headers' \in Seq(AllHeaders) /\ schemeName' = document[i].name /\ loop' = "schemes"
    BY <1>2, <2>2 DEF Sound, Named
  <2>4. EndPass(b[i + 1], schemeName', headers')
    BY <2>2
  <2> QED BY <1>4, <2>2, <2>3, <2>4, SchemeEnds
<1> QED BY <1>3, <1>4 DEF Named

LEMMA LeftStep ==
    ASSUME NEW CONSTANT b, NEW CONSTANT at, Layout(json, document, b, at),
           NEW CONSTANT i \in 1..Len(document), Sound(i - 1), Left(document[i], at[i]),
           result = "reading", Next
    PROVE  Stage(b, at)'
<1> DEFINE last == at[i][Len(document[i].headers) + 1]
<1>1. document[i].form = "headersFirst" /\ loop = "schemes" /\ Known /\ pos \in {last + 2, last + 3}
  BY DEF Left
<1>2. /\ b[i + 1] \in Nat /\ b[i + 1] + 2 <= Len(json) /\ Len(json) \in Nat
      /\ b[i + 1] = last + 4 /\ PropertyAt(json, last + 1, "Name", document[i].name)
      /\ json[b[i + 1]].type = "EndObject"
  BY <1>1, SchemeFacts DEF SchemeAt
<1>3. last \in Nat
  <2>1. IsList(document[i].headers)
    BY SchemeFacts
  <2>2. PICK c \in Nat : ListAt(json, c, document[i].headers, at[i])
    BY <1>1, SchemeFacts
  <2>3. /\ Len(document[i].headers) \in Nat
        /\ \A j \in 1..Len(document[i].headers) + 1 : at[i][j] \in Nat
    BY <2>1, <2>2, ListFacts
  <2>4. Len(document[i].headers) + 1 \in 1..Len(document[i].headers) + 1
    BY <2>3
  <2> QED BY <2>3, <2>4
<1>4. headers \in Seq(AllHeaders)
  BY DEF Sound
<1>5. CASE pos = last + 2
  <2>1. pos < Len(json) /\ json[pos + 1].type = "String"
    <3>1. pos + 1 = (last + 1) + 2 /\ pos < Len(json)
      <4> DEFINE e == b[i + 1]
                 l == Len(json)
      <4>1. e \in Nat /\ e = last + 4 /\ l \in Nat /\ e + 2 <= l
        BY <1>2
      <4> HIDE DEF last, e, l
      <4>2. pos < l
        BY <1>3, <1>5, <4>1
      <4> QED BY <1>3, <1>5, <4>2 DEF l
    <3>2. json[(last + 1) + 2].type = "String"
      BY <1>2 DEF PropertyAt
    <3> QED BY <3>1, <3>2
  <2>2. /\ document' = document /\ EndPass(pos + 1, schemeName, headers)
        /\ UNCHANGED <<loop, schemeName, headers>>
    BY <1>1, <2>1, SchemesPass
  <2>3. pos' = pos + 1 /\ schemes' = schemes /\ result' = result
    BY <2>1, <2>2, PassesBy
  <2>4. pos' = last + 3 /\ Known'
    BY <1>1, <1>3, <1>5, <2>2, <2>3, KnownFrame
  <2>5. Left(document[i], at[i])'
    BY <1>1, <2>2, <2>4 DEF Left
  <2>6. Inside(b, at, i)'
    BY <2>5 DEF Inside
  <2> QED BY <1>4, <2>2, <2>3, <2>6, StaysInside
<1>6. CASE pos = last + 3
  <2>1. pos < Len(json) /\ pos + 1 = b[i + 1] /\ json[pos + 1].type = "EndObject"
    <3> HIDE DEF last
    <3>1. pos < Len(json) /\ pos + 1 = b[i + 1]
      BY <1>2, <1>3, <1>6
    <3> QED BY <1>2, <3>1
  <2>2. /\ document' = document /\ json' = json /\ EndPass(b[i + 1], schemeName, headers)
        /\ UNCHANGED <<loop, schemeName, headers>>
    BY <1>1, <2>1, SchemesPass
  <2>3. EndPass(b[i + 1], schemeName', headers') /\ headers' \in Seq(AllHeaders) /\ loop' = "schemes"
    BY <1>1, <1>4, <2>2
  <2>4. schemeName' = NoText \/ \E s \in schemes : s.name = schemeName'
    BY <1>1, <2>2 DEF Known
  <2> QED BY <1>1, <2>2, <2>3, <2>4, SchemeEnds
<1> QED BY <1>1, <1>5, <1>6

\* One header more is collected, or skipped.
LEMMA ProgressMore ==
    ASSUME NEW s, IsList(s.headers), NEW j \in 1..Len(s.headers), NEW hs, Progress(s, j, hs)
    PROVE  /\ j = 2 * Len(hs) + 1 =>
                /\ Progress(s, j + 1, Append(hs, HeaderMeant(s, j)))
                /\ j + 1 = 2 * Len(Append(hs, HeaderMeant(s, j)))
           /\ j = 2 * Len(hs) => Progress(s, j + 1, hs)
<1> DEFINE x == HeaderMeant(s, j)
<1>1. j \in Nat /\ DOMAIN s.headers = 1..Len(s.headers) /\ Len(s.headers) \in Nat
  BY DEF IsList
<1>2. x \in ListedHeaders(s)
  BY <1>1 DEF ListedHeaders, HeaderMeant
<1>3. /\ hs \in Seq(ListedHeaders(s)) /\ Len(hs) \in Nat
      /\ \A k \in 1..Len(hs) : hs[k] = HeaderMeant(s, 2 * k - 1)
  BY DEF Progress
<1> HIDE DEF x
<1>4. /\ Append(hs, x) \in Seq(ListedHeaders(s)) /\ Len(Append(hs, x)) = Len(hs) + 1
      /\ Append(hs, x)[Len(hs) + 1] = x
      /\ \A k \in 1..Len(hs) : Append(hs, x)[k] = hs[k]
  BY <1>2, <1>3
<1>5. ASSUME j = 2 * Len(hs) + 1
      PROVE  Progress(s, j + 1, Append(hs, x)) /\ j + 1 = 2 * Len(Append(hs, x))
  <2>1. j + 1 = 2 * Len(Append(hs, x)) /\ 2 * (Len(hs) + 1) - 1 = j
    BY <1>3, <1>4, <1>5
  <2>2. ASSUME NEW k \in 1..Len(Append(hs, x))
        PROVE  Append(hs, x)[k] = HeaderMeant(s, 2 * k - 1)
    <3>1. CASE k = Len(hs) + 1
      BY <1>4, <2>1, <3>1 DEF x
    <3>2. CASE k \in 1..Len(hs)
      BY <1>3, <1>4, <3>2
    <3> QED BY <1>3, <1>4, <3>1, <3>2
  <2> QED BY <1>4, <2>1, <2>2 DEF Progress
<1>6. ASSUME j = 2 * Len(hs) PROVE Progress(s, j + 1, hs)
  BY <1>3, <1>6 DEF Progress
<1> QED BY <1>5, <1>6 DEF x

LEMMA NameReadFrame ==
    ASSUME NEW i, NameRead(document[i]), document' = document, schemeName' = schemeName,
           schemes' = schemes
    PROVE  NameRead(document[i])'
BY KnownFrame DEF NameRead

LEMMA InListStep ==
    ASSUME NEW CONSTANT b, NEW CONSTANT at, Layout(json, document, b, at),
           NEW CONSTANT i \in 1..Len(document), Sound(i - 1), InList(document[i], at[i]),
           result = "reading", Next
    PROVE  Stage(b, at)'
<1> DEFINE hs == document[i].headers
           m == Len(hs)
           p == at[i]
<1>1. /\ IsList(hs) /\ b[i + 1] \in Nat /\ Len(json) \in Nat /\ b[i + 1] + 2 <= Len(json)
      /\ p[m + 1] + 2 <= b[i + 1] /\ document[i].form # "noHeaders"
      /\ loop = "headers" /\ NameRead(document[i]) /\ headers \in Seq(AllHeaders)
  BY SchemeFacts DEF InList, Sound
<1>2. PICK c \in Nat : ListAt(json, c, hs, p)
  BY <1>1, SchemeFacts
<1>3. /\ m \in Nat /\ \A k \in 1..m + 1 : p[k] \in Nat /\ p[k] <= p[m + 1]
  BY <1>1, <1>2, ListFacts
<1>4. /\ \A k \in 1..m : HeaderAt(json, p[k], hs[k], p[k + 1])
      /\ json[p[m + 1] + 1].type = "EndArray"
  BY <1>2 DEF ListAt
<1>5. PICK j \in 1..m + 1 :
        /\ Progress(document[i], j, headers)
        /\ \/ j = 2 * Len(headers) + 1 /\ pos = p[j]
           \/ j = 2 * Len(headers) /\ j <= m /\ pos \in p[j] + 1..p[j + 1] - 1
  BY DEF InList
<1>6. p[j] \in Nat /\ p[j] <= p[m + 1] /\ p[m + 1] \in Nat
  BY <1>3
<1>7. CASE pos = p[j] /\ j = m + 1
  <2>1. pos < Len(json) /\ json[pos + 1].type = "EndArray"
    <3> HIDE DEF hs, p, m
    <3> QED BY <1>1, <1>4, <1>6, <1>7
  <2>2. /\ document' = document /\ json' = json /\ schemeName' = schemeName
        /\ LeaveHeaders(p[m + 1] + 1, headers)
    BY <1>1, <1>7, <2>1, HeadersPass
  <2>3. Progress(document[i], m + 1, headers)
    BY <1>5, <1>7
  <2> QED BY <1>1, <2>2, <2>3, ListEnds
<1>8. CASE j = 2 * Len(headers) + 1 /\ pos = p[j] /\ j # m + 1
  <2>1. j \in 1..m /\ pos < Len(json)
    <3>1. pos = p[j] /\ j # m + 1
      BY <1>8
    <3> HIDE DEF hs, p, m
    <3> QED BY <1>1, <1>3, <1>6, <3>1
  <2>2. json[pos + 1].type = "StartObject"
    BY <1>4, <1>8, <2>1 DEF HeaderAt
  <2>3. /\ document' = document /\ schemeName' = schemeName
        /\ header' = [name |-> NoText, claim |-> NoText] /\ loop' = "header" /\ pos' = pos + 1
        /\ UNCHANGED <<headers, schemes, result>>
    BY <1>1, <2>1, <2>2, HeadersPass
  <2>4. HeaderRead(hs[j], p[j], p[j + 1])'
    BY <1>8, <2>3 DEF HeaderRead
  <2>5. NameRead(document[i])'
    BY <1>1, <2>3, NameReadFrame
  <2>6. InHeader(document[i], at[i])'
    <3>1. Progress(document'[i], j, headers') /\ j = 2 * Len(headers') + 1
      BY <1>5, <1>8, <2>3
    <3> QED BY <1>1, <2>1, <2>3, <2>4, <2>5, <3>1 DEF InHeader
  <2>7. Inside(b, at, i)'
    BY <2>6 DEF Inside
  <2> QED BY <1>1, <2>3, <2>7, StaysInside
<1>9. CASE j = 2 * Len(headers) /\ j <= m /\ pos \in p[j] + 1..p[j + 1] - 1
  <2>1. /\ j \in 1..m /\ j + 1 \in 1..m + 1 /\ p[j + 1] \in Nat /\ p[j + 1] <= p[m + 1]
        /\ p[j + 1] = p[j] + HeaderLength(hs[j]) /\ HeaderAt(json, p[j], hs[j], p[j + 1])
    <3>1. j \in 1..m /\ j + 1 \in 1..m + 1
      BY <1>3, <1>9
    <3>2. p[j + 1] \in Nat /\ p[j + 1] <= p[m + 1] /\ HeaderAt(json, p[j], hs[j], p[j + 1])
      BY <1>3, <1>4, <3>1
    <3> QED BY <3>1, <3>2 DEF HeaderAt, HeaderLength
  <2>2. HeaderLength(hs[j]) \in {4, 6} /\ (HeaderLength(hs[j]) = 6 => hs[j].claim # NoText)
    BY DEF HeaderLength
  <2>3. pos \in p[j] + 1..p[j] + 5 /\ pos \in Nat /\ pos < p[j + 1] /\ pos < Len(json)
    <3> DEFINE e == p[j + 1]
               f == p[m + 1]
               g == b[i + 1]
               l == Len(json)
               q == p[j]
               len == HeaderLength(hs[j])
    <3>1. /\ q \in Nat /\ e \in Nat /\ e = q + len /\ len \in {4, 6}
          /\ pos \in q + 1..e - 1
      BY <1>6, <1>9, <2>1, <2>2
    <3>2. e <= f /\ f \in Nat /\ f + 2 <= g /\ g \in Nat /\ l \in Nat /\ g + 2 <= l
      BY <1>1, <1>6, <2>1
    <3> HIDE DEF e, f, g, l, q, len, m, p
    <3>3. pos \in Nat /\ q + 1 <= pos /\ pos < e
      BY <3>1
    <3>4. e <= q + 6
      BY <3>1
    <3>5. pos \in q + 1..q + 5
      BY <3>1, <3>3, <3>4
    <3>6. e <= l
      BY <3>1, <3>2
    <3>7. pos < l
      BY <3>1, <3>2, <3>3, <3>6
    <3> QED BY <3>3, <3>5, <3>7 DEF e, l, q
  <2>4. json[pos + 1].type \in {"PropertyName", "String", "EndObject"}
    <3> DEFINE q == p[j]
               e == p[j + 1]
               h == hs[j]
    <3>1. /\ PropertyAt(json, q + 1, "Name", h.name)
          /\ h.claim = NoText => e = q + 4
          /\ h.claim # NoText => e = q + 6 /\ PropertyAt(json, q + 3, "ClaimType", h.claim)
          /\ json[e].type = "EndObject"
      BY <2>1 DEF HeaderAt
    <3>2. /\ q \in Nat /\ pos \in q + 1..q + 5 /\ pos \in Nat /\ pos < e
      BY <1>6, <2>3
    <3> HIDE DEF q, e, h, p, hs
    <3>3. /\ json[q + 2].type = "PropertyName" /\ json[q + 3].type = "String"
          /\ h.claim # NoText => json[q + 4].type = "PropertyName" /\ json[q + 5].type = "String"
      <4>1. (q + 1) + 1 = q + 2 /\ (q + 1) + 2 = q + 3 /\ (q + 3) + 1 = q + 4 /\ (q + 3) + 2 = q + 5
        BY <3>2
      <4> QED BY <3>1, <4>1 DEF PropertyAt
    <3>4. CASE h.claim = NoText
      <4>1. e = q + 4 /\ pos \in q + 1..q + 3
        BY <3>1, <3>2, <3>4
      <4>2. pos + 1 \in {q + 2, q + 3, q + 4}
        BY <3>2, <4>1
      <4> QED BY <3>1, <3>3, <4>1, <4>2
    <3>5. CASE h.claim # NoText
      <4>1. e = q + 6
        BY <3>1, <3>5
      <4>2. pos + 1 \in {q + 2, q + 3, q + 4, q + 5, q + 6}
        BY <3>2
      <4> QED BY <3>1, <3>3, <3>5, <4>1, <4>2
    <3> QED BY <3>4, <3>5
  <2>5. /\ document' = document /\ schemeName' = schemeName /\ pos' = pos + 1
        /\ UNCHANGED <<loop, headers, schemes, result>>
    BY <1>1, <2>3, <2>4, HeadersPass
  <2>6. NameRead(document[i])'
    BY <1>1, <2>5, NameReadFrame
  <2>7. Progress(document'[i], j, headers') /\ Progress(document'[i], j + 1, headers')
    BY <1>1, <1>5, <1>9, <2>1, <2>5, ProgressMore
  <2>8. Len(headers) \in Nat /\ j = 2 * Len(headers') /\ j + 1 = 2 * Len(headers') + 1
    BY <1>1, <1>9, <2>5
  <2>9. pos' = p[j + 1] \/ pos' \in p[j] + 1..p[j + 1] - 1
    <3> DEFINE q == p[j]
               e == p[j + 1]
    <3>1. q \in Nat /\ e \in Nat /\ pos \in q + 1..q + 5 /\ pos < e /\ pos' = pos + 1
      BY <1>6, <2>1, <2>3, <2>5
    <3> HIDE DEF q, e, p
    <3>2. pos' = e \/ pos' \in q + 1..e - 1
      BY <3>1
    <3> QED BY <3>2 DEF q, e
  <2>10. InList(document[i], at[i])'
    <3>1. \E k \in 1..Len(document'[i].headers) + 1 :
            /\ Progress(document'[i], k, headers')
            /\ \/ k = 2 * Len(headers') + 1 /\ pos' = at[i][k]
               \/ /\ k = 2 * Len(headers') /\ k <= Len(document'[i].headers)
                  /\ pos' \in at[i][k] + 1..at[i][k + 1] - 1
      <4>1. CASE pos' = p[j + 1]
        BY <2>1, <2>5, <2>7, <2>8, <4>1
      <4>2. CASE pos' \in p[j] + 1..p[j + 1] - 1
        BY <1>9, <2>1, <2>5, <2>7, <2>8, <4>2
      <4> QED BY <2>9, <4>1, <4>2
    <3> QED BY <1>1, <2>5, <2>6, <3>1 DEF InList
  <2>11. Inside(b, at, i)'
    BY <2>10 DEF Inside
  <2> QED BY <1>1, <2>5, <2>11, StaysInside
<1> QED BY <1>5, <1>7, <1>8, <1>9

LEMMA InHeaderStep ==
    ASSUME NEW CONSTANT b, NEW CONSTANT at, Layout(json, document, b, at),
           NEW CONSTANT i \in 1..Len(document), Sound(i - 1), InHeader(document[i], at[i]),
           result = "reading", Next
    PROVE  Stage(b, at)'
<1> DEFINE hs == document[i].headers
           m == Len(hs)
           p == at[i]
<1>1. /\ IsList(hs) /\ b[i + 1] \in Nat /\ Len(json) \in Nat /\ b[i + 1] + 2 <= Len(json)
      /\ p[m + 1] + 2 <= b[i + 1] /\ document[i].form # "noHeaders"
      /\ loop = "header" /\ NameRead(document[i]) /\ headers \in Seq(AllHeaders)
  BY SchemeFacts DEF InHeader, Sound
<1>2. PICK c \in Nat : ListAt(json, c, hs, p)
  BY <1>1, SchemeFacts
<1>3. m \in Nat /\ \A k \in 1..m + 1 : p[k] \in Nat /\ p[k] <= p[m + 1]
  BY <1>1, <1>2, ListFacts
<1>4. /\ \A k \in 1..m : HeaderAt(json, p[k], hs[k], p[k + 1])
      /\ json[p[m + 1] + 1].type = "EndArray"
  BY <1>2 DEF ListAt
<1>5. PICK j \in 1..m : /\ Progress(document[i], j, headers) /\ j = 2 * Len(headers) + 1
                       /\ HeaderRead(hs[j], p[j], p[j + 1])
  BY DEF InHeader
<1> DEFINE h == hs[j]
           q == p[j]
           e == p[j + 1]
<1>6. /\ q \in Nat /\ e \in Nat /\ e <= p[m + 1] /\ p[m + 1] \in Nat /\ j + 1 \in 1..m + 1
      /\ HeaderAt(json, q, h, e)
  BY <1>3, <1>4
<1>7. e + 4 <= Len(json)
  <2> DEFINE f == p[m + 1]
  <2>1. /\ b[i + 1] \in Nat /\ Len(json) \in Nat /\ b[i + 1] + 2 <= Len(json)
        /\ f + 2 <= b[i + 1] /\ e <= f /\ f \in Nat /\ e \in Nat
    BY <1>1, <1>6
  <2> HIDE DEF f, e
  <2> QED BY <2>1
<1>8. /\ PropertyAt(json, q + 1, "Name", h.name)
      /\ h.claim = NoText => e = q + 4
      /\ h.claim # NoText => e = q + 6 /\ PropertyAt(json, q + 3, "ClaimType", h.claim)
      /\ json[e].type = "EndObject"
  BY <1>6 DEF HeaderAt
<1>9. HeaderRead(h, q, e) /\ Progress(document[i], j, headers)
  BY <1>5
\* A pass that stays inside the header.
<1>10. ASSUME document' = document, schemeName' = schemeName,
              UNCHANGED <<loop, headers, schemes, result>>, HeaderRead(h, q, e)'
       PROVE  Stage(b, at)'
  <2>1. NameRead(document[i])'
    BY <1>1, <1>10, NameReadFrame
  <2>2. /\ Progress(document'[i], j, headers') /\ j = 2 * Len(headers') + 1
        /\ j \in 1..Len(document'[i].headers)
    BY <1>5, <1>10
  <2>3. HeaderRead(document[i].headers[j], at[i][j], at[i][j + 1])'
    BY <1>10
  <2>4. InHeader(document[i], at[i])'
    BY <1>1, <1>10, <2>1, <2>2, <2>3 DEF InHeader
  <2>5. Inside(b, at, i)'
    BY <2>4 DEF Inside
  <2> QED BY <1>1, <1>10, <2>5, StaysInside
<1>11. CASE pos = q + 1 /\ header = [name |-> NoText, claim |-> NoText]
  <2>1. /\ pos < Len(json) /\ json[pos + 1].type = "PropertyName" /\ json[pos + 1].text = "Name"
        /\ json[pos + 2].text = h.name
    <3> HIDE DEF h, q, e, m, p, hs
    <3>1. pos < Len(json)
      BY <1>1, <1>6, <1>7, <1>8, <1>11
    <3> QED BY <1>8, <1>11, <3>1 DEF PropertyAt
  <2>2. /\ document' = document /\ schemeName' = schemeName /\ pos' = pos + 2
        /\ UNCHANGED <<loop, headers, schemes, result>>
        /\ header' = [header EXCEPT !.name = h.name]
    BY <1>1, <2>1, HeaderPass
  <2>3. pos' = q + 3 /\ header' = [name |-> h.name, claim |-> NoText]
    <3> HIDE DEF h, q, e
    <3> QED BY <1>6, <1>11, <2>2
  <2>4. HeaderRead(h, q, e)'
    <3>1. (h = document[i].headers[j])' /\ h' = h
      BY <2>2
    <3> QED BY <2>3, <3>1 DEF HeaderRead
  <2> QED BY <1>10, <2>2, <2>4
<1>12. CASE pos = q + 3 /\ header = [name |-> h.name, claim |-> NoText] /\ h.claim = NoText
  <2>1. pos < Len(json) /\ json[pos + 1].type = "EndObject" /\ pos + 1 = e
    <3> HIDE DEF h, q, e, m, p, hs
    <3>1. pos < Len(json) /\ pos + 1 = e
      BY <1>1, <1>6, <1>7, <1>8, <1>12
    <3> QED BY <1>8, <3>1
  <2>2. /\ document' = document /\ schemeName' = schemeName /\ pos' = pos + 1
        /\ UNCHANGED <<loop, headers, header, schemes, result>>
    BY <1>1, <2>1, HeaderPass
  <2>3. pos' = e /\ header' = [name |-> h.name, claim |-> h.claim]
    BY <1>12, <2>1, <2>2
  <2>4. HeaderRead(h, q, e)'
    <3>1. h' = h
      BY <2>2
    <3> QED BY <2>3, <3>1 DEF HeaderRead
  <2> QED BY <1>10, <2>2, <2>4
<1>13. CASE pos = q + 3 /\ header = [name |-> h.name, claim |-> NoText] /\ h.claim # NoText
  <2>1. /\ pos < Len(json) /\ json[pos + 1].type = "PropertyName"
        /\ json[pos + 1].text = "ClaimType" /\ json[pos + 2].text = h.claim
    <3> HIDE DEF h, q, e, m, p, hs
    <3>1. pos < Len(json)
      BY <1>1, <1>6, <1>7, <1>8, <1>13
    <3> QED BY <1>8, <1>13, <3>1 DEF PropertyAt
  <2>2. /\ document' = document /\ schemeName' = schemeName /\ pos' = pos + 2
        /\ UNCHANGED <<loop, headers, schemes, result>>
        /\ header' = [header EXCEPT !.claim = h.claim]
    BY <1>1, <2>1, HeaderPass
  <2>3. pos' = q + 5 /\ header' = [name |-> h.name, claim |-> h.claim]
    <3> HIDE DEF h, q, e
    <3>1. (q + 3) + 2 = q + 5
      BY <1>6
    <3>2. header' = [name |-> h.name, claim |-> h.claim]
      BY <1>13, <2>2
    <3> QED BY <1>13, <2>2, <3>1, <3>2
  <2>4. HeaderRead(h, q, e)'
    <3>1. h' = h
      BY <2>2
    <3> QED BY <1>13, <2>3, <3>1 DEF HeaderRead
  <2> QED BY <1>10, <2>2, <2>4
<1>14. CASE pos = q + 5 /\ h.claim # NoText /\ header = [name |-> h.name, claim |-> h.claim]
  <2>1. pos < Len(json) /\ json[pos + 1].type = "EndObject" /\ pos + 1 = e
    <3> HIDE DEF h, q, e, m, p, hs
    <3>1. pos < Len(json) /\ pos + 1 = e
      BY <1>1, <1>6, <1>7, <1>8, <1>14
    <3> QED BY <1>8, <3>1
  <2>2. /\ document' = document /\ schemeName' = schemeName /\ pos' = pos + 1
        /\ UNCHANGED <<loop, headers, header, schemes, result>>
    BY <1>1, <2>1, HeaderPass
  <2>3. pos' = e /\ header' = [name |-> h.name, claim |-> h.claim]
    BY <1>14, <2>1, <2>2
  <2>4. HeaderRead(h, q, e)'
    <3>1. h' = h
      BY <2>2
    <3> QED BY <2>3, <3>1 DEF HeaderRead
  <2> QED BY <1>10, <2>2, <2>4
\* The token after the header: the next one begins or the list ends.
<1>15. CASE pos = e /\ header = [name |-> h.name, claim |-> h.claim]
  <2> DEFINE read == Append(headers, NewHeader(h.name, h.claim))
  <2>1. pos < Len(json)
    <3> HIDE DEF h, q, e, m, p, hs
    <3> QED BY <1>1, <1>6, <1>7, <1>15
  <2>2. Append(headers, NewHeader(header.name, header.claim)) = read
    BY <1>15
  <2>3. Progress(document[i], j + 1, read) /\ j + 1 = 2 * Len(read)
    <3>1. read = Append(headers, HeaderMeant(document[i], j))
      BY DEF HeaderMeant
    <3> HIDE DEF read, h, q, e, p
    <3> QED BY <1>1, <1>5, <3>1, ProgressMore
  <2>4. CASE j = m
    <3>1. json[pos + 1].type = "EndArray" /\ pos + 1 = p[m + 1] + 1
      BY <1>4, <1>15, <2>4
    <3>2. /\ document' = document /\ json' = json /\ schemeName' = schemeName
          /\ LeaveHeaders(p[m + 1] + 1, read)
      BY <1>1, <2>1, <2>2, <3>1, HeaderPass
    <3>3. Progress(document[i], m + 1, read)
      BY <2>3, <2>4
    <3> QED BY <1>1, <3>2, <3>3, ListEnds
  <2>5. CASE j # m
    <3>1. j + 1 \in 1..m
      BY <1>3, <2>5
    <3>2. HeaderAt(json, e, hs[j + 1], p[(j + 1) + 1])
      BY <1>4, <3>1
    <3>3. json[pos + 1].type = "StartObject"
      BY <1>15, <3>2 DEF HeaderAt
    <3>4. /\ document' = document /\ schemeName' = schemeName /\ loop' = "headers"
          /\ headers' = read /\ pos' = e + 1 /\ UNCHANGED <<schemes, result>>
      BY <1>1, <1>15, <2>1, <2>2, <3>3, HeaderPass
    <3>5. p[(j + 1) + 1] >= e + 4 /\ p[(j + 1) + 1] \in Nat
      <4>1. (j + 1) + 1 \in 1..m + 1
        BY <1>3, <3>1
      <4>2. p[(j + 1) + 1] \in Nat
        BY <1>3, <4>1
      <4>3. p[(j + 1) + 1] = e + 4 \/ p[(j + 1) + 1] = e + 6
        BY <3>2 DEF HeaderAt
      <4> HIDE DEF p, e
      <4> QED BY <1>6, <4>2, <4>3
    <3>6. pos' \in p[j + 1] + 1..p[(j + 1) + 1] - 1
      <4> DEFINE f == p[(j + 1) + 1]
      <4>1. f >= e + 4 /\ f \in Nat /\ e \in Nat /\ pos' = e + 1
        BY <1>6, <3>4, <3>5
      <4>2. pos' \in e + 1..f - 1
        <5> HIDE DEF e, f
        <5> QED BY <4>1
      <4> QED BY <4>2
    <3>7. NameRead(document[i])'
      BY <1>1, <3>4, NameReadFrame
    <3>8. InList(document[i], at[i])'
      <4>1. /\ j + 1 \in 1..Len(document'[i].headers) + 1 /\ j + 1 = 2 * Len(headers')
            /\ j + 1 <= Len(document'[i].headers) /\ Progress(document'[i], j + 1, headers')
        BY <1>6, <2>3, <3>1, <3>4
      <4> QED BY <1>1, <3>4, <3>6, <3>7, <4>1 DEF InList
    <3>9. Inside(b, at, i)'
      BY <3>8 DEF Inside
    <3>10. headers' \in Seq(AllHeaders)
      <4>1. IsList(document)
        BY DEF Layout
      <4>2. ListedHeaders(document[i]) \subseteq AllHeaders
        BY <1>1, <4>1, HeadersOfList
      <4>3. read \in Seq(ListedHeaders(document[i]))
        BY <2>3 DEF Progress
      <4> QED BY <3>4, <4>2, <4>3, SeqMonotonic
    <3>11. result' = "reading" /\ document' = document /\ schemes' = schemes
      BY <3>4
    <3> QED BY <3>9, <3>10, <3>11, StaysInside
  <2> QED BY <2>4, <2>5
<1> QED BY <1>9, <1>11, <1>12, <1>13, <1>14, <1>15 DEF HeaderRead

-----------------------------------------------------------------------------
(* The invariant holds *)

LEMMA InitIInv ==
    ASSUME Init
    PROVE  IInv
<1>1. /\ IsList(document)
      /\ \A i \in 1..Len(document) : document[i].form \in Forms /\ IsList(document[i].headers)
  <2>1. document \in Documents
    BY DEF Init
  <2>2. IsList(document)
    BY <2>1, SchemeJsonAssumption
  <2>3. DOMAIN document = 1..Len(document)
    BY <2>2 DEF IsList
  <2> QED BY <2>1, <2>2, <2>3, SchemeJsonAssumption
<1>2. PICK b, at : Layout(json, document, b, at)
  <2>1. json = Write(document) \o <<Token("EndObject")>>
    BY DEF Init
  <2> QED BY <1>1, <2>1, LayoutExists
<1>3. Sound(0)
  <2>1. headers = <<>> /\ schemes = {}
    BY DEF Init
  <2>2. headers \in Seq(AllHeaders) /\ ReadAsListed
    BY <2>1 DEF ReadAsListed
  <2> QED BY <2>1, <2>2 DEF Sound
<1>4. Between(b, 1)
  BY <1>2 DEF Init, Between, Known, Layout
<1>5. 1 \in 1..Len(document) + 1 /\ 1 - 1 = 0
  BY <1>1 DEF IsList
<1>6. Reading(b, at)
  <2>1. Sound(1 - 1)
    BY <1>3, <1>5
  <2>2. \E i \in 1..Len(document) + 1 : Sound(i - 1) /\ Between(b, i)
    BY <1>4, <1>5, <2>1
  <2> QED BY <2>2 DEF Reading, Init
<1> QED BY <1>2, <1>6 DEF IInv, Stage

LEMMA NextIInv ==
    ASSUME IInv, [Next]_vars
    PROVE  IInv'
<1>1. PICK b, at : Layout(json, document, b, at) /\ Stage(b, at)
  BY DEF IInv
<1>2. document' = document /\ json' = json
  BY DEF vars, Next, ReadSchemes, ReadHeaders, ReadHeader
<1>3. Layout(json, document, b, at)'
  BY <1>1, <1>2
<1>4. SUFFICES Stage(b, at)'
  BY <1>3, <1>4 DEF IInv
<1>5. CASE UNCHANGED vars
  <2>1. (Stage(b, at))' <=> Stage(b, at)
    BY <1>5 DEF vars, Stage, Reading, Done, Refused, Sound, Between, Inside, Opened, Named,
                InList, InHeader, Left, HeaderRead, NameRead, Known, ReadAsListed, Written,
                AllHeaders
  <2> QED BY <1>1, <2>1
<1>6. CASE Next
  <2>1. result = "reading"
    BY <1>6 DEF Next, ReadSchemes, ReadHeaders, ReadHeader
  <2>2. Reading(b, at)
    BY <1>1, <2>1 DEF Stage, Done, Refused
  <2>3. ASSUME NEW i \in 1..Len(document) + 1, Sound(i - 1), Between(b, i)
        PROVE  Stage(b, at)'
    BY <1>1, <1>6, <2>1, <2>3, BetweenStep
  <2>4. ASSUME NEW i \in 1..Len(document), Sound(i - 1), Inside(b, at, i)
        PROVE  Stage(b, at)'
    BY <1>1, <1>6, <2>1, <2>4, OpenedStep, NamedStep, InListStep, InHeaderStep, LeftStep DEF Inside
  <2> QED BY <2>2, <2>3, <2>4 DEF Reading
<1> QED BY <1>5, <1>6

(***************************************************************************)
(* Between any two steps of Read the reader stands on a token whose place  *)
(* in the document is known, and the locals hold what was listed up to it. *)
(***************************************************************************)
THEOREM Invariant == Spec => []IInv
<1>1. Init => IInv
  BY InitIInv
<1>2. IInv /\ [Next]_vars => IInv'
  BY NextIInv
<1> QED BY <1>1, <1>2, PTL DEF Spec

-----------------------------------------------------------------------------
(* What it says *)

LEMMA InsidePlace ==
    ASSUME NEW b, NEW at, Layout(json, document, b, at),
           NEW i \in 1..Len(document), Inside(b, at, i)
    PROVE  pos \in DOMAIN json
<1> DEFINE hs == document[i].headers
           m == Len(hs)
           p == at[i]
<1>1. /\ IsList(hs) /\ b[i] \in Nat /\ b[i + 1] \in Nat /\ b[i] + 4 <= b[i + 1]
      /\ b[i + 1] + 2 <= Len(json) /\ Len(json) \in Nat
      /\ document[i].form # "noHeaders" => p[m + 1] + 2 <= b[i + 1]
  BY SchemeFacts
<1>2. SUFFICES pos \in Nat /\ pos >= 1 /\ pos <= b[i + 1] + 1
  <2>1. DOMAIN json = 1..Len(json)
    BY DEF Layout, IsList
  <2>2. pos \in 1..Len(json)
    BY <1>1, <1>2
  <2> QED BY <2>1, <2>2
<1>3. CASE Opened(b, i) \/ Named(b, i)
  <2> DEFINE s == b[i]
             e == b[i + 1]
  <2>1. s \in Nat /\ e \in Nat /\ s + 4 <= e
    BY <1>1
  <2>2. pos \in {s + 1, s + 3}
    BY <1>3 DEF Opened, Named
  <2> HIDE DEF s, e
  <2>3. pos \in Nat /\ pos >= 1 /\ pos <= e + 1
    BY <2>1, <2>2
  <2> QED BY <2>3 DEF e
<1>4. CASE document[i].form # "noHeaders" /\ ~(Opened(b, i) \/ Named(b, i))
  <2>1. PICK c \in Nat : ListAt(json, c, hs, p)
    BY <1>4, SchemeFacts
  <2>2. /\ m \in Nat
        /\ \A k \in 1..m + 1 : p[k] \in Nat /\ p[k] >= 1 /\ p[k] <= p[m + 1]
    BY <1>1, <2>1, ListFacts
  <2>3. \A k \in 1..m : HeaderAt(json, p[k], hs[k], p[k + 1])
    BY <2>1 DEF ListAt
  <2>4. p[m + 1] \in Nat /\ p[m + 1] >= 1 /\ p[m + 1] + 2 <= b[i + 1]
    <3>1. m + 1 \in 1..m + 1
      BY <2>2
    <3> QED BY <1>1, <1>4, <2>2, <3>1
  <2>5. CASE InList(document[i], at[i])
    <3>1. PICK k \in 1..m + 1 : pos = p[k] \/ (k <= m /\ pos \in p[k] + 1..p[k + 1] - 1)
      BY <2>5 DEF InList
    <3>2. CASE pos = p[k]
      <4>1. pos \in Nat /\ pos >= 1 /\ pos <= p[m + 1]
        BY <2>2, <3>2
      <4> HIDE DEF p, m
      <4> QED BY <1>1, <2>4, <4>1
    <3>3. CASE k <= m /\ pos \in p[k] + 1..p[k + 1] - 1
      <4> DEFINE f == p[k + 1]
                 last == p[m + 1]
                 ends == b[i + 1]
      <4>1. k + 1 \in 1..m + 1 /\ p[k] \in Nat
        BY <2>2, <3>3
      <4>2. f \in Nat /\ f <= last /\ p[k] \in Nat /\ pos \in p[k] + 1..f - 1
        BY <2>2, <3>3, <4>1
      <4>3. last \in Nat /\ last + 2 <= ends /\ ends \in Nat
        BY <1>1, <2>4
      <4> HIDE DEF p, f, last, ends
      <4>4. pos \in Nat /\ pos >= 1 /\ pos <= ends + 1
        BY <4>2, <4>3
      <4> QED BY <4>4 DEF ends
    <3> QED BY <3>1, <3>2, <3>3
  <2>6. CASE InHeader(document[i], at[i])
    <3>1. PICK k \in 1..m : HeaderRead(hs[k], p[k], p[k + 1])
      BY <2>6 DEF InHeader
    <3> DEFINE q == p[k]
               e == p[k + 1]
               last == p[m + 1]
               ends == b[i + 1]
    <3>2. k \in 1..m + 1 /\ k + 1 \in 1..m + 1
      BY <2>2
    <3>3. q \in Nat /\ e \in Nat /\ e <= last /\ last \in Nat /\ last + 2 <= ends /\ ends \in Nat
      BY <1>1, <2>2, <2>4, <3>2
    <3>4. /\ e = q + 4 \/ e = q + 6
          /\ hs[k].claim # NoText => e = q + 6
      BY <2>3 DEF HeaderAt
    <3>5. pos \in {q + 1, q + 3, e} \/ (pos = q + 5 /\ e = q + 6)
      BY <3>1, <3>4 DEF HeaderRead
    <3> HIDE DEF q, e, last, ends
    <3>6. pos \in Nat /\ pos >= 1 /\ pos <= ends + 1
      BY <3>3, <3>4, <3>5
    <3> QED BY <3>6 DEF ends
  <2>7. CASE Left(document[i], at[i])
    <3> DEFINE last == p[m + 1]
               ends == b[i + 1]
    <3>1. pos = last + 2 \/ pos = last + 3
      BY <2>7 DEF Left
    <3>2. last \in Nat /\ last + 2 <= ends /\ ends \in Nat
      BY <1>1, <2>4
    <3> HIDE DEF last, ends
    <3>3. pos \in Nat /\ pos >= 1 /\ pos <= ends + 1
      BY <3>1, <3>2
    <3> QED BY <3>3 DEF ends
  <2> QED BY <1>4, <2>5, <2>6, <2>7 DEF Inside
<1>5. document[i].form = "noHeaders" => Opened(b, i) \/ Named(b, i)
  BY DEF Inside, InList, InHeader, Left
<1> QED BY <1>3, <1>4, <1>5

(***************************************************************************)
(* The reader stays inside the document, and a scheme that is collected    *)
(* has a name and headers, each with a name and a claim type.              *)
(***************************************************************************)
THEOREM JsonTypeCorrect == Spec => []TypeOK
<1>1. IInv => TypeOK
  <2> SUFFICES ASSUME IInv PROVE TypeOK
    OBVIOUS
  <2>1. PICK b, at : Layout(json, document, b, at) /\ Stage(b, at)
    BY DEF IInv
  <2> DEFINE n == Len(document)
  <2>2. /\ DOMAIN json = 1..Len(json) /\ Len(json) \in Nat /\ n \in Nat
        /\ \A i \in 1..n + 1 : b[i] \in Nat \ {0}
        /\ Len(json) = b[n + 1] + 2
    BY <2>1 DEF Layout, IsList
  <2>3. \A i \in 1..n + 1 : b[i] + 2 <= Len(json)
    <3> TAKE i \in 1..n + 1
    <3>1. CASE i = n + 1
      BY <2>2, <3>1
    <3>2. CASE i # n + 1
      <4>1. i \in 1..n
        BY <2>2, <3>2
      <4>2. /\ b[i] \in Nat /\ b[i + 1] \in Nat /\ b[i] + 4 <= b[i + 1]
            /\ b[i + 1] + 2 <= Len(json)
        BY <2>1, <4>1, SchemeFacts
      <4> QED BY <2>2, <4>2
    <3> QED BY <3>1, <3>2
  <2>4. \A k : Sound(k) =>
          \A s \in schemes :
            /\ s.name # NoText /\ s.headers # {}
            /\ \A h \in s.headers : h.name # NoText /\ h.claim # NoText
    BY DEF Sound
  <2>5. CASE Done(b)
    <3>1. n + 1 \in 1..n + 1
      BY <2>2
    <3>2. pos \in DOMAIN json
      BY <2>2, <2>5, <3>1 DEF Done
    <3> QED BY <2>4, <2>5, <3>2 DEF TypeOK, Done
  <2>6. CASE Refused
    BY <2>2, <2>4, <2>6 DEF TypeOK, Refused
  <2>7. CASE Reading(b, at)
    <3>1. ASSUME NEW i \in 1..n + 1, Sound(i - 1), Between(b, i) PROVE TypeOK
      <4>1. pos \in DOMAIN json
        BY <2>2, <2>3, <3>1 DEF Between
      <4> QED BY <2>4, <2>7, <3>1, <4>1 DEF TypeOK, Reading, Between
    <3>2. ASSUME NEW i \in 1..n, Sound(i - 1), Inside(b, at, i) PROVE TypeOK
      <4>1. pos \in DOMAIN json
        BY <2>1, <3>2, InsidePlace
      <4>2. loop \in {"schemes", "headers", "header"}
        BY <3>2 DEF Inside, Opened, Named, InList, InHeader, Left
      <4> QED BY <2>4, <2>7, <3>2, <4>1, <4>2 DEF TypeOK, Reading
    <3> QED BY <2>7, <3>1, <3>2 DEF Reading
  <2> QED BY <2>1, <2>5, <2>6, <2>7 DEF Stage
<1> QED BY <1>1, Invariant, PTL

\* Each scheme is there, as ReadOf describes it, and no other.
ReadsEveryOther ==
    Ended /\ Written =>
      result = "read" /\ schemes = {ReadOf(document[i]) : i \in DOMAIN document}

(***************************************************************************)
(* What Read makes of a document that Write has written, however many      *)
(* schemes it lists: these schemes and no others, of the headers of each   *)
(* the first, the third, the fifth and so on.                              *)
(***************************************************************************)
THEOREM EveryOtherHeaderIsRead == Spec => []ReadsEveryOther
<1>1. IInv => ReadsEveryOther
  <2> SUFFICES ASSUME IInv, Ended, Written
               PROVE  result = "read" /\ schemes = {ReadOf(document[i]) : i \in DOMAIN document}
    BY DEF ReadsEveryOther
  <2>1. PICK b, at : Layout(json, document, b, at) /\ Stage(b, at)
    BY DEF IInv
  <2>2. Done(b)
    BY <2>1 DEF Stage, Reading, Refused, Ended
  <2>3. DOMAIN document = 1..Len(document)
    BY <2>1 DEF Layout, IsList
  <2> QED BY <2>2, <2>3 DEF Done, Sound
<1> QED BY <1>1, Invariant, PTL

(***************************************************************************)
(* Of the schemes that Write has written Read refuses none and loses none: *)
(* each is read with its first header, and as it was if it has no other.   *)
(* Where no scheme has a second header the round trip is whole.            *)
(***************************************************************************)
THEOREM FirstHeadersAreRead == Spec => []WrittenIsRead
<1>1. IInv /\ ReadsEveryOther => WrittenIsRead
  <2> SUFFICES ASSUME IInv, ReadsEveryOther, Ended, Written PROVE WrittenIsRead
    BY DEF WrittenIsRead
  <2>1. PICK b, at : Layout(json, document, b, at)
    BY DEF IInv
  <2>2. result = "read" /\ schemes = {ReadOf(document[i]) : i \in DOMAIN document}
    BY DEF ReadsEveryOther
  <2>3. ASSUME NEW i \in DOMAIN document
        PROVE  /\ IsList(document[i].headers) /\ Len(document[i].headers) >= 1
               /\ ReadOf(document[i]) \in schemes
    <3>1. IsList(document[i].headers)
      BY <2>1 DEF Layout, IsList
    <3>2. Len(document[i].headers) # 0
      <4> SUFFICES ASSUME Len(document[i].headers) = 0 PROVE FALSE
        OBVIOUS
      <4>1. document[i].headers = <<>>
        BY <3>1 DEF IsList
      <4> QED BY <4>1 DEF Written, ValidScheme
    <3>3. Len(document[i].headers) \in Nat
      BY <3>1 DEF IsList
    <3> QED BY <2>2, <3>1, <3>2, <3>3
  <2>4. ASSUME NEW i \in DOMAIN document
        PROVE  \E s \in schemes :
                 /\ s.name = document[i].name
                 /\ NewHeader(document[i].headers[1].name, document[i].headers[1].claim) \in s.headers
                 /\ Len(document[i].headers) = 1 => s = Meant(document[i])
    BY <2>3, ReadOfFacts DEF HeaderMeant
  <2>5. ASSUME \A i \in DOMAIN document : Len(document[i].headers) = 1
        PROVE  ReadBack
    <3>1. \A i \in DOMAIN document : ReadOf(document[i]) = Meant(document[i])
      BY <2>3, <2>5, ReadOfFacts
    <3> QED BY <2>2, <3>1 DEF ReadBack
  <2> QED BY <2>2, <2>4, <2>5 DEF WrittenIsRead
<1> QED BY <1>1, Invariant, EveryOtherHeaderIsRead, PTL

(***************************************************************************)
(* What is read was listed together, in one object: of every document,     *)
(* with names that occur twice, headers that are skipped and properties in *)
(* any order.  Of a scheme that lists no headers only the name is claimed: *)
(* its headers are those of the scheme before it.                          *)
(***************************************************************************)
THEOREM NothingIsMixed == Spec => []ReadAsListed
<1>1. IInv => ReadAsListed
  BY DEF IInv, Stage, Reading, Done, Refused, Sound
<1> QED BY <1>1, Invariant, PTL

(***************************************************************************)
(* Read ends on the last token of its own value, wherever the loops of the *)
(* headers have read one token too many.                                   *)
(***************************************************************************)
THEOREM ReaderPosition == Spec => []ReadsItsOwnValue
<1>1. IInv => ReadsItsOwnValue
  BY DEF IInv, Stage, Reading, Done, Refused, ReadsItsOwnValue, Layout
<1> QED BY <1>1, Invariant, PTL
=============================================================================
