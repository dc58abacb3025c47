--------------------------- MODULE SequenceLemmas ---------------------------
(***************************************************************************)
(* Facts about sequences that the theorems of several modules rest on.     *)
(***************************************************************************)
EXTENDS Naturals, SequencesExt, SequenceTheorems, WellFoundedInduction, TLAPS

(***************************************************************************)
(* A set of places has a first one.                                        *)
(***************************************************************************)
LEMMA FirstPlace ==
    ASSUME NEW places, places \subseteq Nat, places # {}
    PROVE  \E i \in places : \A k \in places : i <= k
<1>1. IsWellFoundedOn(OpToRel(<, Nat), Nat)
  BY NatLessThanWellFounded
<1>2. PICK x \in places : \A y \in places : <<y, x>> \notin OpToRel(<, Nat)
  BY <1>1, WFMin
<1>3. \A y \in places : ~(y < x)
  BY <1>2 DEF OpToRel
<1>4. \A y \in places : x <= y
  BY <1>3
<1> QED BY <1>4

(***************************************************************************)
(* Induction along 1..n, for a set instead of a predicate.                 *)
(***************************************************************************)
LEMMA UpTo ==
    ASSUME NEW n \in Nat, NEW T, 1 \in T \/ n = 0,
           \A m \in 1..n : m \in T /\ m # n => m + 1 \in T
    PROVE  1..n \subseteq T
<1> DEFINE missing == (1..n) \ T
<1> SUFFICES ASSUME missing # {} PROVE FALSE
  OBVIOUS
<1>1. PICK x \in missing : \A y \in missing : x <= y
  <2>1. missing \subseteq Nat
    OBVIOUS
  <2> HIDE DEF missing
  <2> QED BY <2>1, FirstPlace
<1>2. x # 1 /\ x - 1 \in 1..n /\ x - 1 # n /\ (x - 1) + 1 = x
  OBVIOUS
<1>3. x - 1 \in T
  BY <1>1, <1>2
<1> QED BY <1>2, <1>3

(***************************************************************************)
(* Two concatenations whose last parts are equally long.                   *)
(***************************************************************************)
SplitAlike(S, a, b, c, d) ==
    /\ a \in Seq(S) /\ b \in Seq(S) /\ c \in Seq(S) /\ d \in Seq(S)
    /\ a \o b = c \o d /\ Len(b) = Len(d)

LEMMA SplitEqual ==
    ASSUME NEW S, NEW a, NEW b, NEW c, NEW d, SplitAlike(S, a, b, c, d)
    PROVE  a = c /\ b = d
<1>0. /\ a \in Seq(S) /\ b \in Seq(S) /\ c \in Seq(S) /\ d \in Seq(S)
      /\ a \o b = c \o d /\ Len(b) = Len(d)
  BY DEF SplitAlike
<1>1. /\ a \o b \in Seq(S) /\ Len(a \o b) = Len(a) + Len(b)
      /\ \A i \in 1..Len(a) : (a \o b)[i] = a[i]
      /\ \A i \in 1..Len(b) : (a \o b)[Len(a) + i] = b[i]
  BY <1>0, ConcatProperties
<1>2. /\ c \o d \in Seq(S) /\ Len(c \o d) = Len(c) + Len(d)
      /\ \A i \in 1..Len(c) : (c \o d)[i] = c[i]
      /\ \A i \in 1..Len(d) : (c \o d)[Len(c) + i] = d[i]
  BY <1>0, ConcatProperties
<1>3. Len(a) \in Nat /\ Len(b) \in Nat /\ Len(c) \in Nat /\ Len(d) \in Nat
  BY <1>0, LenProperties
<1>4. Len(a) = Len(c)
  BY <1>0, <1>1, <1>2, <1>3
<1>5. (\A i \in 1..Len(a) : a[i] = c[i]) /\ \A i \in 1..Len(b) : b[i] = d[i]
  BY <1>0, <1>1, <1>2, <1>4
<1> QED BY <1>0, <1>4, <1>5, SeqEqual

-----------------------------------------------------------------------------
(***************************************************************************)
(* The recursive function by which FlattenSeq is defined.                  *)
(***************************************************************************)
Flattens(f, parts, n) ==
    f = [i \in 1..n |-> IF i = 1 THEN parts[i] ELSE f[i - 1] \o parts[i]]

LEMMA FlattenDefined ==
    ASSUME NEW parts, NEW n \in Nat \ {0}, Len(parts) = n
    PROVE  \E f : Flattens(f, parts, n) /\ FlattenSeq(parts) = f[n]
<1> DEFINE T == {m \in 1..n : \E f : Flattens(f, parts, m)}
<1>1. 1 \in T
  <2>1. Flattens([i \in 1..1 |-> parts[1]], parts, 1)
    BY DEF Flattens
  <2> QED BY <2>1
<1>2. ASSUME NEW m \in 1..n, m \in T, m # n PROVE m + 1 \in T
  <2>1. PICK f : Flattens(f, parts, m)
    BY <1>2
  <2> DEFINE g == [i \in 1..m + 1 |-> IF i <= m THEN f[i] ELSE f[m] \o parts[m + 1]]
  <2>2. \A i \in 1..m : f[i] = IF i = 1 THEN parts[i] ELSE f[i - 1] \o parts[i]
    BY <2>1 DEF Flattens
  <2>3. \A i \in 1..m + 1 : g[i] = IF i = 1 THEN parts[i] ELSE g[i - 1] \o parts[i]
    <3> TAKE i \in 1..m + 1
    <3>1. CASE i = 1
      <4>1. g[1] = f[1] /\ f[1] = parts[1]
        BY <2>2
      <4> QED BY <3>1, <4>1
    <3>2. CASE i # 1 /\ i <= m
      <4>1. i - 1 \in 1..m + 1 /\ i - 1 <= m /\ i \in 1..m
        BY <3>2
      <4>2. g[i - 1] = f[i - 1] /\ g[i] = f[i]
        BY <3>2, <4>1
      <4>3. f[i] = f[i - 1] \o parts[i]
        BY <2>2, <3>2, <4>1
      <4> QED BY <3>2, <4>2, <4>3
    <3>3. CASE i = m + 1
      BY <3>3
    <3> QED BY <3>1, <3>2, <3>3
  <2>4. Flattens(g, parts, m + 1)
    BY <2>3 DEF Flattens
  <2>5. m + 1 \in 1..n
    BY <1>2
  <2> QED BY <2>4, <2>5
<1>3. n \in T
  <2>1. \A m \in 1..n : m \in T /\ m # n => m + 1 \in T
    BY <1>2
  <2> HIDE DEF T
  <2>2. 1..n \subseteq T
    BY <1>1, <2>1, UpTo
  <2> QED BY <2>2
<1>4. \E f : Flattens(f, parts, n)
  BY <1>3
<1> DEFINE flatten == CHOOSE f : Flattens(f, parts, n)
<1>5. Flattens(flatten, parts, n)
  BY <1>4, Zenon
<1>6. FlattenSeq(parts) = flatten[n]
  BY Zenon DEF FlattenSeq, Flattens
<1> QED BY <1>5, <1>6

(***************************************************************************)
(* Sequences of as many parts that are equally long have flattenings that  *)
(* are equally long, and equal only if the parts are.                      *)
(***************************************************************************)
LEMMA FlattenInjective ==
    ASSUME NEW S, NEW p \in Seq(Seq(S)), NEW q \in Seq(Seq(S)), Len(p) = Len(q),
           \A i \in 1..Len(p) : Len(p[i]) = Len(q[i])
    PROVE  /\ FlattenSeq(p) \in Seq(S) /\ FlattenSeq(q) \in Seq(S)
           /\ Len(FlattenSeq(p)) = Len(FlattenSeq(q))
           /\ FlattenSeq(p) = FlattenSeq(q) => p = q
<1> DEFINE n == Len(p)
<1>1. n \in Nat /\ n = Len(q) /\ \A i \in 1..n : p[i] \in Seq(S) /\ q[i] \in Seq(S)
  BY ElementOfSeq, LenProperties
<1>2. CASE n = 0
  <2>1. p = <<>> /\ q = <<>>
    BY <1>1, <1>2, EmptySeq
  <2>2. FlattenSeq(<<>>) = <<>> /\ <<>> \in Seq(S)
    BY DEF FlattenSeq
  <2> QED BY <2>1, <2>2
<1>3. CASE n # 0
  <2>1. PICK f : Flattens(f, p, n) /\ FlattenSeq(p) = f[n]
    BY <1>1, <1>3, FlattenDefined
  <2>2. PICK g : Flattens(g, q, n) /\ FlattenSeq(q) = g[n]
    BY <1>1, <1>3, FlattenDefined
  <2>3. \A i \in 1..n : /\ f[i] = IF i = 1 THEN p[i] ELSE f[i - 1] \o p[i]
                        /\ g[i] = IF i = 1 THEN q[i] ELSE g[i - 1] \o q[i]
    BY <2>1, <2>2 DEF Flattens
  <2> DEFINE T == {m \in 1..n : /\ f[m] \in Seq(S) /\ g[m] \in Seq(S) /\ Len(f[m]) = Len(g[m])
                                /\ f[m] = g[m] => \A i \in 1..m : p[i] = q[i]}
  <2>4. 1 \in T
    BY <1>1, <1>3, <2>3
  <2>5. ASSUME NEW m \in 1..n, m \in T, m # n PROVE m + 1 \in T
    <3>1. /\ f[m] \in Seq(S) /\ g[m] \in Seq(S) /\ Len(f[m]) = Len(g[m])
          /\ f[m] = g[m] => \A i \in 1..m : p[i] = q[i]
      BY <2>5
    <3>2. m + 1 \in 1..n /\ m + 1 # 1 /\ (m + 1) - 1 = m
      BY <1>1, <2>5
    <3>3. f[m + 1] = f[m] \o p[m + 1] /\ g[m + 1] = g[m] \o q[m + 1]
      BY <2>3, <3>2
    <3>4. p[m + 1] \in Seq(S) /\ q[m + 1] \in Seq(S) /\ Len(p[m + 1]) = Len(q[m + 1])
      BY <1>1, <3>2
    <3>5. /\ f[m] \o p[m + 1] \in Seq(S) /\ Len(f[m] \o p[m + 1]) = Len(f[m]) + Len(p[m + 1])
          /\ g[m] \o q[m + 1] \in Seq(S) /\ Len(g[m] \o q[m + 1]) = Len(g[m]) + Len(q[m + 1])
      BY <3>1, <3>4, ConcatProperties
    <3>6. f[m + 1] = g[m + 1] => f[m] = g[m] /\ p[m + 1] = q[m + 1]
      <4>1. f[m + 1] = g[m + 1] => SplitAlike(S, f[m], p[m + 1], g[m], q[m + 1])
        BY <3>1, <3>3, <3>4 DEF SplitAlike
      <4> HIDE DEF T
      <4> QED BY <4>1, SplitEqual
    <3>7. f[m + 1] = g[m + 1] => \A i \in 1..m + 1 : p[i] = q[i]
      BY <3>1, <3>6
    <3> QED BY <3>1, <3>2, <3>3, <3>4, <3>5, <3>7
  <2>6. n \in T
    <3>1. \A m \in 1..n : m \in T /\ m # n => m + 1 \in T
      BY <2>5
    <3> HIDE DEF T
    <3>2. 1..n \subseteq T
      BY <1>1, <2>4, <3>1, UpTo
    <3> QED BY <1>1, <1>3, <3>2
  <2>7. /\ f[n] \in Seq(S) /\ g[n] \in Seq(S) /\ Len(f[n]) = Len(g[n])
        /\ f[n] = g[n] => \A i \in 1..n : p[i] = q[i]
    BY <2>6
  <2>8. (\A i \in 1..n : p[i] = q[i]) => p = q
    BY <1>1, SeqEqual
  <2> QED BY <2>1, <2>2, <2>7, <2>8
<1> QED BY <1>2, <1>3
=============================================================================
