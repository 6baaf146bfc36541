--------------------------- MODULE DeliveryProofs ---------------------------
(***************************************************************************)
(* Proofs about Delivery, for any players, bodies and chunks: the types,   *)
(* that the count of a body is the number of its holders, and that the     *)
(* bytes of a player reach its socket in their order.                      *)
(*                                                                         *)
(* Inductions, over the numbers and over sequences, are done as facts      *)
(* about sets: a set that contains the first and with each the next one    *)
(* contains all (Inductive, InductiveSeq).                                 *)
(***************************************************************************)
EXTENDS Delivery, SequenceTheorems, FiniteSetTheorems, FunctionTheorems, TLAPS

-----------------------------------------------------------------------------
(* Sequences that are one element longer than others.                      *)

AppendEqual(s, a, x) ==
  Len(s) = Len(a) + 1 /\ s[Len(a) + 1] = x /\ \A i \in 1 .. Len(a) : s[i] = a[i]
ConsEqual(s, a, x) ==
  Len(s) = Len(a) + 1 /\ s[1] = x /\ \A i \in 1 .. Len(a) : s[i + 1] = a[i]

LEMMA IsAppend ==
  ASSUME NEW X, NEW a \in Seq(X), NEW s \in Seq(X), NEW x \in X, AppendEqual(s, a, x)
  PROVE  s = Append(a, x)
BY DEF AppendEqual

LEMMA IsCons ==
  ASSUME NEW X, NEW a \in Seq(X), NEW s \in Seq(X), NEW x \in X, ConsEqual(s, a, x)
  PROVE  s = <<x>> \o a
<1>1. PICK n \in Nat : n = Len(a)
  BY LenProperties
<1>2. <<x>> \in Seq(X) /\ Len(<<x>>) = 1 /\ <<x>>[1] = x
  OBVIOUS
<1>3. PICK t \in Seq(X) : t = <<x>> \o a
  BY <1>2, ConcatProperties
<1>4. Len(t) = n + 1 /\ t[1] = x
  BY <1>1, <1>2, <1>3
<1>5. \A i \in 1 .. n : t[i + 1] = a[i]
  BY <1>1, <1>2, <1>3
<1>6. \A i \in 1 .. n + 1 : i = 1 \/ (i - 1 \in 1 .. n /\ (i - 1) + 1 = i)
  BY <1>1
<1>7. Len(s) = n + 1 /\ s[1] = x /\ \A i \in 1 .. n : s[i + 1] = a[i]
  BY <1>1 DEF ConsEqual
<1>8. ASSUME NEW i \in 1 .. n + 1 PROVE s[i] = t[i]
  <2>1. CASE i = 1
    BY <1>4, <1>7, <2>1
  <2>2. CASE i # 1
    <3>1. PICK j \in 1 .. n : j + 1 = i
      BY <1>6, <2>2
    <3> QED BY <1>5, <1>7, <3>1
  <2> QED BY <2>1, <2>2
<1> QED BY <1>3, <1>4, <1>7, <1>8, SeqEqual

LEMMA Assoc ==
  ASSUME NEW X
  PROVE  \A a, b, c \in Seq(X) : (a \o b) \o c = a \o (b \o c) /\ a \o b \in Seq(X)
BY ConcatAssociative, ConcatProperties

-----------------------------------------------------------------------------
(* Induction over the numbers, as a fact about sets of them.               *)

LEMMA Inductive ==
  ASSUME NEW S, 0 \in S, \A n \in Nat : n \in S => n + 1 \in S
  PROVE  Nat \subseteq S
<1> SUFFICES ASSUME Nat \ S # {} PROVE FALSE
  OBVIOUS
<1>1. PICK n \in Nat \ S : \A y \in Nat \ S : ~ (<<y, n>> \in OpToRel(<, Nat))
  <2>1. Nat \ S \subseteq Nat
    OBVIOUS
  <2> QED BY <2>1, NatLessThanWellFounded, WFMin
<1>2. \A y \in Nat \ S : ~ (y < n)
  BY <1>1 DEF OpToRel
<1>3. n \in Nat /\ n \notin S
  BY <1>1
<1>4. n # 0 /\ n - 1 \in Nat /\ n - 1 < n /\ (n - 1) + 1 = n
  BY <1>3
<1>5. n - 1 \in S
  BY <1>2, <1>4
<1> QED BY <1>3, <1>4, <1>5

-----------------------------------------------------------------------------
(* FlattenSeq.                                                             *)

\* The sequences that FlattenSeq builds up for the first n of s.
Flat(s, n, f) == f = [i \in 1 .. n |-> IF i = 1 THEN s[i] ELSE f[i - 1] \o s[i]]

LEMMA FlatExists ==
  ASSUME NEW s, NEW n \in Nat
  PROVE  \E f : Flat(s, n, f)
<1> DEFINE S == {m \in Nat : \E f : Flat(s, m, f)}
<1>1. 0 \in S
  <2>1. Flat(s, 0, [i \in 1 .. 0 |-> s[i]])
    BY DEF Flat
  <2> QED BY <2>1
<1>2. ASSUME NEW m \in Nat, m \in S
      PROVE  m + 1 \in S
  <2>1. PICK f : Flat(s, m, f)
    BY <1>2
  <2> DEFINE g == [i \in 1 .. m + 1 |-> IF i = m + 1 THEN (IF i = 1 THEN s[i] ELSE f[m] \o s[i])
                                                     ELSE f[i]]
  <2>2. \A i \in 1 .. m : f[i] = IF i = 1 THEN s[i] ELSE f[i - 1] \o s[i]
    BY <2>1 DEF Flat
  <2>3. \A i \in 1 .. m : i \in 1 .. m + 1 /\ i # m + 1
    OBVIOUS
  <2>4. \A i \in 1 .. m : g[i] = f[i]
    BY <2>3
  <2>5. ASSUME NEW i \in 1 .. m + 1
        PROVE  g[i] = IF i = 1 THEN s[i] ELSE g[i - 1] \o s[i]
    <3>1. CASE i = m + 1
      <4>1. CASE i = 1
        BY <3>1, <4>1
      <4>2. CASE i # 1
        <5>1. m \in 1 .. m /\ i - 1 = m
          BY <3>1, <4>2
        <5>2. g[m] = f[m]
          BY <2>4, <5>1
        <5> QED BY <3>1, <4>2, <5>1, <5>2
      <4> QED BY <4>1, <4>2
    <3>2. CASE i # m + 1
      <4>1. i \in 1 .. m /\ (i # 1 => i - 1 \in 1 .. m)
        BY <3>2
      <4>2. g[i] = f[i] /\ (i # 1 => g[i - 1] = f[i - 1])
        BY <2>4, <4>1
      <4> QED BY <2>2, <4>1, <4>2
    <3> QED BY <3>1, <3>2
  <2>6. Flat(s, m + 1, g)
    <3>1. g = [i \in 1 .. m + 1 |-> g[i]]
      OBVIOUS
    <3> HIDE DEF g
    <3> QED BY <2>5, <3>1 DEF Flat
  <2> HIDE DEF g
  <2> QED BY <2>6
<1>3. n \in S
  <2> HIDE DEF S
  <2> QED BY <1>1, <1>2, Inductive
<1> QED BY <1>3

\* FlattenSeq takes any such sequences, and their elements are the same.
LEMMA FlattenIs ==
  ASSUME NEW s, Len(s) \in Nat \ {0}
  PROVE  \E f : Flat(s, Len(s), f) /\ FlattenSeq(s) = f[Len(s)]
<1>1. FlattenSeq(s) = (CHOOSE f : Flat(s, Len(s), f))[Len(s)]
  BY DEF FlattenSeq, Flat
<1> QED BY <1>1, FlatExists

Agree(s, t, n) == \A i \in 1 .. n : s[i] = t[i]

LEMMA FlatSame ==
  ASSUME NEW s, NEW t, NEW n \in Nat, NEW m \in Nat, n <= m, Agree(s, t, n),
         NEW f, NEW g, Flat(s, n, f), Flat(t, m, g)
  PROVE  Agree(f, g, n)
<1> DEFINE S == {i \in Nat : i \in 1 .. n => f[i] = g[i]}
<1>1. /\ \A i \in 1 .. n : f[i] = IF i = 1 THEN s[i] ELSE f[i - 1] \o s[i]
      /\ \A i \in 1 .. m : g[i] = IF i = 1 THEN t[i] ELSE g[i - 1] \o t[i]
  BY DEF Flat
<1>2. 0 \in S
  OBVIOUS
<1>3. ASSUME NEW i \in Nat, i \in S
      PROVE  i + 1 \in S
  <2> SUFFICES ASSUME i + 1 \in 1 .. n PROVE f[i + 1] = g[i + 1]
    OBVIOUS
  <2>1. i + 1 \in 1 .. m /\ s[i + 1] = t[i + 1]
    BY DEF Agree
  <2>2. CASE i = 0
    <3>1. f[1] = s[1] /\ g[1] = t[1]
      BY <1>1, <2>1, <2>2
    <3> QED BY <2>1, <2>2, <3>1
  <2>3. CASE i # 0
    <3>1. i \in 1 .. n /\ i + 1 # 1 /\ (i + 1) - 1 = i
      BY <2>3
    <3>2. f[i] = g[i]
      BY <1>3, <3>1
    <3>3. f[i + 1] = f[i] \o s[i + 1] /\ g[i + 1] = g[i] \o t[i + 1]
      BY <1>1, <2>1, <3>1
    <3> QED BY <2>1, <3>2, <3>3
  <2> QED BY <2>2, <2>3
<1>4. Nat \subseteq S
  <2> HIDE DEF S
  <2> QED BY <1>2, <1>3, Inductive
<1> QED BY <1>4 DEF Agree

LEMMA FlattenAppend ==
  ASSUME NEW X, NEW s \in Seq(Seq(X)), NEW x \in Seq(X)
  PROVE  /\ FlattenSeq(<<>>) = <<>>
         /\ FlattenSeq(Append(s, x)) = FlattenSeq(s) \o x
<1>1. FlattenSeq(<<>>) = <<>>
  BY DEF FlattenSeq
<1>2. PICK n \in Nat : n = Len(s)
  BY LenProperties
<1>3. PICK t \in Seq(Seq(X)) :
        /\ t = Append(s, x) /\ Len(t) = n + 1 /\ t[n + 1] = x /\ \A i \in 1 .. n : t[i] = s[i]
  <2>1. /\ Append(s, x) \in Seq(Seq(X)) /\ Len(Append(s, x)) = Len(s) + 1
        /\ \A i \in 1 .. Len(s) : Append(s, x)[i] = s[i]
        /\ Append(s, x)[Len(s) + 1] = x
    BY AppendProperties
  <2> QED BY <1>2, <2>1
<1>4. PICK g : Flat(t, n + 1, g) /\ FlattenSeq(t) = g[n + 1]
  <2>1. Len(t) = n + 1 /\ n + 1 \in Nat \ {0}
    BY <1>2, <1>3
  <2>2. \E g : Flat(t, Len(t), g) /\ FlattenSeq(t) = g[Len(t)]
    BY <2>1, FlattenIs
  <2> QED BY <2>1, <2>2
<1>5. \A i \in 1 .. n + 1 : g[i] = IF i = 1 THEN t[i] ELSE g[i - 1] \o t[i]
  BY <1>4 DEF Flat
<1>6. CASE n = 0
  <2>1. g[1] = x
    BY <1>3, <1>5, <1>6
  <2>2. s = <<>>
    BY <1>2, <1>6, EmptySeq
  <2> QED BY <1>1, <1>3, <1>4, <1>6, <2>1, <2>2, ConcatEmptySeq
<1>7. CASE n # 0
  <2>1. PICK f : Flat(s, n, f) /\ FlattenSeq(s) = f[n]
    BY <1>2, <1>7, FlattenIs
  <2>2. f[n] = g[n]
    <3>1. n <= n + 1 /\ n \in 1 .. n /\ n + 1 \in Nat
      BY <1>7
    <3>2. Agree(s, t, n)
      BY <1>3 DEF Agree
    <3>3. Flat(s, n, f) /\ Flat(t, n + 1, g)
      BY <1>4, <2>1
    <3>4. Agree(f, g, n)
      <4>1. PICK m \in Nat : m = n + 1 /\ n <= m
        BY <1>2, <3>1
      <4>2. Flat(t, m, g)
        BY <3>3, <4>1
      <4>3. n \in Nat
        BY <1>2
      <4> QED BY <3>2, <3>3, <4>1, <4>2, <4>3, FlatSame
    <3> QED BY <3>1, <3>4 DEF Agree
  <2>3. g[n + 1] = g[n] \o x
    <3>1. n + 1 \in 1 .. n + 1 /\ n + 1 # 1 /\ (n + 1) - 1 = n
      BY <1>7
    <3> QED BY <1>3, <1>5, <3>1
  <2> QED BY <1>1, <1>3, <1>4, <2>1, <2>2, <2>3
<1> QED BY <1>1, <1>6, <1>7

\* A sequence is empty or extends a shorter one.
LEMMA EmptyOrAppend ==
  ASSUME NEW X, NEW s \in Seq(X), NEW n \in Nat, Len(s) = n + 1
  PROVE  \E t \in Seq(X), x \in X : s = Append(t, x) /\ Len(t) = n
<1>1. s # <<>>
  BY EmptySeq
<1>2. PICK t \in Seq(X), x \in X : s = Append(t, x)
  BY <1>1, SequenceEmptyOrAppend
<1>3. Len(s) = Len(t) + 1 /\ Len(t) \in Nat
  BY <1>2, AppendProperties, LenProperties
<1>4. Len(t) = n
  BY <1>3
<1> QED BY <1>2, <1>4

\* Induction over sequences, as a fact about sets of them.
LEMMA InductiveSeq ==
  ASSUME NEW X, NEW Q, <<>> \in Q,
         \A s \in Seq(X), x \in X : s \in Q => Append(s, x) \in Q
  PROVE  Seq(X) \subseteq Q
<1> DEFINE S == {n \in Nat : \A s \in Seq(X) : Len(s) = n => s \in Q}
<1>1. 0 \in S
  BY EmptySeq
<1>2. ASSUME NEW n \in Nat, n \in S
      PROVE  n + 1 \in S
  <2> SUFFICES ASSUME NEW s \in Seq(X), Len(s) = n + 1 PROVE s \in Q
    OBVIOUS
  <2>1. PICK t \in Seq(X), x \in X : s = Append(t, x) /\ Len(t) = n
    BY EmptyOrAppend
  <2> QED BY <1>2, <2>1
<1>3. Nat \subseteq S
  <2> HIDE DEF S
  <2> QED BY <1>1, <1>2, Inductive
<1>4. \A s \in Seq(X) : Len(s) \in Nat
  BY LenProperties
<1> QED BY <1>3, <1>4

LEMMA FlattenType ==
  ASSUME NEW X, NEW s \in Seq(Seq(X))
  PROVE  FlattenSeq(s) \in Seq(X)
<1> DEFINE Q == {t \in Seq(Seq(X)) : FlattenSeq(t) \in Seq(X)}
<1>1. <<>> \in Q
  <2>1. <<>> \in Seq(X) /\ <<>> \in Seq(Seq(X))
    BY EmptySeq
  <2> QED BY <2>1, FlattenAppend
<1>2. ASSUME NEW t \in Seq(Seq(X)), NEW x \in Seq(X), t \in Q
      PROVE  Append(t, x) \in Q
  <2>1. FlattenSeq(Append(t, x)) = FlattenSeq(t) \o x /\ Append(t, x) \in Seq(Seq(X))
    BY FlattenAppend, AppendProperties
  <2> QED BY <1>2, <2>1, ConcatProperties
<1>3. Seq(Seq(X)) \subseteq Q
  <2> HIDE DEF Q
  <2> QED BY <1>1, <1>2, InductiveSeq
<1> QED BY <1>3

\* The first of the sequences comes first in the whole.
LEMMA FlattenCons ==
  ASSUME NEW X, NEW s \in Seq(Seq(X)), NEW a \in Seq(X)
  PROVE  FlattenSeq(<<a>> \o s) = a \o FlattenSeq(s)
<1> DEFINE Q == {t \in Seq(Seq(X)) : FlattenSeq(<<a>> \o t) = a \o FlattenSeq(t)}
<1>1. <<>> \in Seq(Seq(X)) /\ <<>> \in Seq(X) /\ <<a>> \in Seq(Seq(X))
  BY EmptySeq
<1>2. <<>> \in Q
  <2>1. FlattenSeq(<<>>) = <<>> /\ <<a>> \o <<>> = <<a>> /\ a \o <<>> = a /\ <<>> \o a = a
    BY <1>1, FlattenAppend, ConcatEmptySeq
  <2>2. <<a>> = Append(<<>>, a)
    OBVIOUS
  <2>3. FlattenSeq(Append(<<>>, a)) = FlattenSeq(<<>>) \o a
    BY <1>1, FlattenAppend
  <2> QED BY <1>1, <2>1, <2>2, <2>3
<1>3. ASSUME NEW t \in Seq(Seq(X)), NEW x \in Seq(X), t \in Q
      PROVE  Append(t, x) \in Q
  <2>1. <<a>> \o t \in Seq(Seq(X)) /\ Append(t, x) \in Seq(Seq(X))
    BY <1>1, ConcatProperties, AppendProperties
  <2>2. <<a>> \o Append(t, x) = Append(<<a>> \o t, x)
    BY <1>1
  <2>3. FlattenSeq(Append(<<a>> \o t, x)) = FlattenSeq(<<a>> \o t) \o x
    BY <2>1, FlattenAppend
  <2>4. FlattenSeq(Append(t, x)) = FlattenSeq(t) \o x
    BY FlattenAppend
  <2>5. (a \o FlattenSeq(t)) \o x = a \o (FlattenSeq(t) \o x)
    <3>1. FlattenSeq(t) \in Seq(X)
      BY FlattenType
    <3> QED BY <3>1, ConcatAssociative
  <2>6. FlattenSeq(<<a>> \o t) = a \o FlattenSeq(t)
    BY <1>3
  <2> QED BY <2>1, <2>2, <2>3, <2>4, <2>5, <2>6
<1>4. Seq(Seq(X)) \subseteq Q
  <2> HIDE DEF Q
  <2> QED BY <1>2, <1>3, InductiveSeq
<1> QED BY <1>4

\* What a prefix of the sequences makes is a prefix of the whole.
LEMMA FlattenPrefix ==
  ASSUME NEW X, NEW s \in Seq(Seq(X)), NEW k \in Nat
  PROVE  \E r \in Seq(X) : FlattenSeq(s) = FlattenSeq(Prefix(s, k)) \o r
<1> DEFINE Q == {t \in Seq(Seq(X)) :
                   \E r \in Seq(X) : FlattenSeq(t) = FlattenSeq(Prefix(t, k)) \o r}
<1>1. \A t \in Seq(Seq(X)) : /\ Len(t) \in Nat /\ FlattenSeq(t) \in Seq(X)
                             /\ FlattenSeq(t) \o <<>> = FlattenSeq(t)
                             /\ Len(t) <= k => Prefix(t, k) = t
  <2> SUFFICES ASSUME NEW t \in Seq(Seq(X))
               PROVE  /\ Len(t) \in Nat /\ FlattenSeq(t) \in Seq(X)
                      /\ FlattenSeq(t) \o <<>> = FlattenSeq(t)
                      /\ Len(t) <= k => Prefix(t, k) = t
    OBVIOUS
  <2>1. Len(t) \in Nat /\ FlattenSeq(t) \in Seq(X)
    BY LenProperties, FlattenType
  <2>2. Len(t) <= k => (IF k < Len(t) THEN k ELSE Len(t)) = Len(t)
    BY <2>1
  <2>3. SubSeq(t, 1, Len(t)) = t
    BY SubSeqFull
  <2> QED BY <2>1, <2>2, <2>3, ConcatEmptySeq DEF Prefix
<1>2. <<>> \in Seq(Seq(X)) /\ <<>> \in Seq(X)
  BY EmptySeq
<1>3. <<>> \in Q
  <2>1. Len(<<>>) <= k
    BY EmptySeq
  <2> QED BY <1>1, <1>2, <2>1
<1>4. ASSUME NEW t \in Seq(Seq(X)), NEW x \in Seq(X), t \in Q
      PROVE  Append(t, x) \in Q
  <2>1. /\ Append(t, x) \in Seq(Seq(X)) /\ Len(Append(t, x)) = Len(t) + 1
        /\ FlattenSeq(Append(t, x)) = FlattenSeq(t) \o x
    BY AppendProperties, FlattenAppend
  <2>2. CASE Len(t) + 1 <= k
    BY <1>1, <1>2, <2>1, <2>2
  <2>3. CASE ~ (Len(t) + 1 <= k)
    <3>1. k <= Len(t) /\ Len(t) \in Nat
      BY <1>1, <2>3
    <3>2. Prefix(Append(t, x), k) = Prefix(t, k)
      <4>1. Prefix(Append(t, x), k) = SubSeq(Append(t, x), 1, k)
        BY <2>1, <3>1 DEF Prefix
      <4>2. Prefix(t, k) = SubSeq(t, 1, k)
        BY <3>1 DEF Prefix
      <4>3. SubSeq(Append(t, x), 1, k) = SubSeq(t, 1, k)
        BY <3>1
      <4> QED BY <4>1, <4>2, <4>3
    <3>3. PICK r \in Seq(X) : FlattenSeq(t) = FlattenSeq(Prefix(t, k)) \o r
      BY <1>4
    <3>4. Prefix(t, k) \in Seq(Seq(X))
      <4>1. Prefix(t, k) = SubSeq(t, 1, k)
        BY <3>1 DEF Prefix
      <4> QED BY <3>1, <4>1
    <3>5. FlattenSeq(t) \o x = FlattenSeq(Prefix(t, k)) \o (r \o x) /\ r \o x \in Seq(X)
      <4>1. FlattenSeq(Prefix(t, k)) \in Seq(X)
        BY <3>4, FlattenType
      <4>2. r \o x \in Seq(X)
        BY <3>3, ConcatProperties
      <4>3. PICK u \in Seq(X) : u = FlattenSeq(Prefix(t, k))
        BY <4>1
      <4>4. r \in Seq(X) /\ u \in Seq(X)
        BY <3>3, <4>3
      <4>5. (u \o r) \o x = u \o (r \o x)
        BY <4>4, ConcatAssociative
      <4> QED BY <3>3, <4>2, <4>3, <4>5
    <3> QED BY <2>1, <3>2, <3>5
  <2> QED BY <2>2, <2>3
<1>5. Seq(Seq(X)) \subseteq Q
  <2> HIDE DEF Q
  <2> QED BY <1>3, <1>4, InductiveSeq
<1> QED BY <1>5

-----------------------------------------------------------------------------
(* The bytes left of the messages in a queue.                              *)

Bits(q) == [i \in DOMAIN q |-> q[i].head \o q[i].body]
Cuts(q) == [i \in DOMAIN q |-> Piece(q[i].head) \o Piece(q[i].body)]

LEMMA MessageIs ==
  ASSUME NEW m \in Message
  PROVE  /\ m.head \in Seq(Nat) /\ m.body \in Seq(Nat) /\ m.cache \in Bodies \cup {NoBody}
         /\ m.head \o m.body \in Seq(Nat)
         /\ Piece(m.head) \o Piece(m.body) \in Seq(Seq(Nat))
         /\ Size(m) = Len(m.head \o m.body) /\ Size(m) \in Nat
<1>1. m.head \in Seq(Nat) /\ m.body \in Seq(Nat) /\ m.cache \in Bodies \cup {NoBody}
  BY DEF Message
<1>2. /\ m.head \o m.body \in Seq(Nat) /\ Size(m) = Len(m.head \o m.body)
      /\ Size(m) \in Nat
  <2>1. PICK h \in Seq(Nat), b \in Seq(Nat) : h = m.head /\ b = m.body
    BY <1>1
  <2>2. h \o b \in Seq(Nat) /\ Len(h \o b) = Len(h) + Len(b) /\ Len(h) + Len(b) \in Nat
    BY ConcatProperties, LenProperties
  <2> QED BY <2>1, <2>2 DEF Size
<1>3. Piece(m.head) \in Seq(Seq(Nat)) /\ Piece(m.body) \in Seq(Seq(Nat))
  <2>1. \A s \in Seq(Nat) : Piece(s) \in Seq(Seq(Nat))
    BY DEF Piece
  <2> QED BY <1>1, <2>1
<1> QED BY <1>1, <1>2, <1>3, ConcatProperties

LEMMA BitsType ==
  ASSUME NEW q \in Seq(Message)
  PROVE  /\ Bits(q) \in Seq(Seq(Nat)) /\ Cuts(q) \in Seq(Seq(Seq(Nat)))
         /\ Rest(q) = FlattenSeq(Bits(q)) /\ Pieces(q) = FlattenSeq(Cuts(q))
         /\ Rest(q) \in Seq(Nat) /\ Pieces(q) \in Seq(Seq(Nat))
         /\ Len(Rest(q)) \in Nat
<1>1. DOMAIN q = 1 .. Len(q) /\ Len(q) \in Nat
  BY LenProperties
<1>2. \A i \in 1 .. Len(q) : /\ q[i].head \o q[i].body \in Seq(Nat)
                             /\ Piece(q[i].head) \o Piece(q[i].body) \in Seq(Seq(Nat))
  BY MessageIs, ElementOfSeq
<1>3. Bits(q) \in Seq(Seq(Nat)) /\ Cuts(q) \in Seq(Seq(Seq(Nat)))
  BY <1>1, <1>2 DEF Bits, Cuts
<1>4. Rest(q) = FlattenSeq(Bits(q)) /\ Pieces(q) = FlattenSeq(Cuts(q))
  BY DEF Rest, Pieces, Bits, Cuts
<1>5. Rest(q) \in Seq(Nat) /\ Pieces(q) \in Seq(Seq(Nat))
  BY <1>3, <1>4, FlattenType
<1> QED BY <1>3, <1>4, <1>5, LenProperties

LEMMA BitsAre ==
  ASSUME NEW q \in Seq(Message)
  PROVE  /\ Len(q) \in Nat /\ Len(Bits(q)) = Len(q) /\ Len(Cuts(q)) = Len(q)
         /\ \A i \in 1 .. Len(q) : /\ Bits(q)[i] = q[i].head \o q[i].body
                                   /\ Cuts(q)[i] = Piece(q[i].head) \o Piece(q[i].body)
<1>1. DOMAIN q = 1 .. Len(q) /\ Len(q) \in Nat
  BY LenProperties
<1>2. DOMAIN Bits(q) = 1 .. Len(q) /\ DOMAIN Cuts(q) = 1 .. Len(q)
  BY <1>1 DEF Bits, Cuts
<1>3. DOMAIN Bits(q) = 1 .. Len(Bits(q)) /\ DOMAIN Cuts(q) = 1 .. Len(Cuts(q))
      /\ Len(Bits(q)) \in Nat /\ Len(Cuts(q)) \in Nat
  BY BitsType, LenProperties
<1>4. Len(Bits(q)) = Len(q) /\ Len(Cuts(q)) = Len(q)
  BY <1>1, <1>2, <1>3
<1> QED BY <1>1, <1>4 DEF Bits, Cuts

\* A message is queued.
LEMMA RestAppend ==
  ASSUME NEW q \in Seq(Message), NEW m \in Message
  PROVE  /\ Rest(Append(q, m)) = Rest(q) \o (m.head \o m.body)
         /\ Pieces(Append(q, m)) = Pieces(q) \o (Piece(m.head) \o Piece(m.body))
<1> DEFINE x == m.head \o m.body
           y == Piece(m.head) \o Piece(m.body)
<1>0. /\ x \in Seq(Nat) /\ y \in Seq(Seq(Nat))
      /\ Append(q, m) \in Seq(Message) /\ Len(Append(q, m)) = Len(q) + 1
      /\ \A i \in 1 .. Len(q) : Append(q, m)[i] = q[i]
      /\ Append(q, m)[Len(q) + 1] = m /\ Len(q) \in Nat
  <2>1. x \in Seq(Nat) /\ y \in Seq(Seq(Nat))
    BY MessageIs
  <2> QED BY <2>1, AppendProperties, LenProperties
<1>1. Bits(Append(q, m)) = Append(Bits(q), x)
  <2>1. PICK a \in Seq(Seq(Nat)), s \in Seq(Seq(Nat)) : a = Bits(q) /\ s = Bits(Append(q, m))
    BY <1>0, BitsType
  <2>2. Len(a) = Len(q) /\ \A i \in 1 .. Len(q) : a[i] = q[i].head \o q[i].body
    BY <2>1, BitsAre
  <2>3. Len(s) = Len(q) + 1 /\ \A i \in 1 .. Len(q) + 1 :
          s[i] = Append(q, m)[i].head \o Append(q, m)[i].body
    BY <1>0, <2>1, BitsAre
  <2>4. \A i \in 1 .. Len(q) : i \in 1 .. Len(q) + 1
    BY <1>0
  <2>5. Len(q) + 1 \in 1 .. Len(q) + 1
    BY <1>0
  <2>6. AppendEqual(s, a, x)
    BY <1>0, <2>2, <2>3, <2>4, <2>5 DEF AppendEqual
  <2> QED BY <1>0, <2>1, <2>6, IsAppend
<1>2. Cuts(Append(q, m)) = Append(Cuts(q), y)
  <2>1. PICK a \in Seq(Seq(Seq(Nat))), s \in Seq(Seq(Seq(Nat))) :
          a = Cuts(q) /\ s = Cuts(Append(q, m))
    BY <1>0, BitsType
  <2>2. Len(a) = Len(q) /\ \A i \in 1 .. Len(q) : a[i] = Piece(q[i].head) \o Piece(q[i].body)
    BY <2>1, BitsAre
  <2>3. Len(s) = Len(q) + 1 /\ \A i \in 1 .. Len(q) + 1 :
          s[i] = Piece(Append(q, m)[i].head) \o Piece(Append(q, m)[i].body)
    BY <1>0, <2>1, BitsAre
  <2>4. \A i \in 1 .. Len(q) : i \in 1 .. Len(q) + 1
    BY <1>0
  <2>5. Len(q) + 1 \in 1 .. Len(q) + 1
    BY <1>0
  <2>6. AppendEqual(s, a, y)
    BY <1>0, <2>2, <2>3, <2>4, <2>5 DEF AppendEqual
  <2> QED BY <1>0, <2>1, <2>6, IsAppend
<1>3. Append(q, m) \in Seq(Message)
  BY AppendProperties
<1>4. FlattenSeq(Append(Bits(q), m.head \o m.body)) = FlattenSeq(Bits(q)) \o (m.head \o m.body)
  BY BitsType, MessageIs, FlattenAppend
<1>5. FlattenSeq(Append(Cuts(q), Piece(m.head) \o Piece(m.body)))
        = FlattenSeq(Cuts(q)) \o (Piece(m.head) \o Piece(m.body))
  BY BitsType, MessageIs, FlattenAppend
<1> QED BY <1>1, <1>2, <1>3, <1>4, <1>5, BitsType

\* The first message of a queue.
LEMMA RestCons ==
  ASSUME NEW q \in Seq(Message), NEW m \in Message
  PROVE  Rest(<<m>> \o q) = (m.head \o m.body) \o Rest(q)
<1> DEFINE x == m.head \o m.body
           n == Len(q)
<1>2. /\ <<m>> \o q \in Seq(Message) /\ Len(<<m>> \o q) = n + 1 /\ n \in Nat
      /\ (<<m>> \o q)[1] = m /\ \A i \in 1 .. n : (<<m>> \o q)[i + 1] = q[i]
  OBVIOUS
<1>1. Bits(<<m>> \o q) = <<x>> \o Bits(q)
  <2>1. PICK a \in Seq(Seq(Nat)), s \in Seq(Seq(Nat)) : a = Bits(q) /\ s = Bits(<<m>> \o q)
    BY <1>2, BitsType
  <2>2. Len(a) = n /\ \A i \in 1 .. n : a[i] = q[i].head \o q[i].body
    BY <2>1, BitsAre
  <2>3. Len(s) = n + 1 /\ \A i \in 1 .. n + 1 :
          s[i] = (<<m>> \o q)[i].head \o (<<m>> \o q)[i].body
    BY <1>2, <2>1, BitsAre
  <2>4. 1 \in 1 .. n + 1 /\ \A i \in 1 .. n : i + 1 \in 1 .. n + 1
    BY <1>2
  <2>5. ConsEqual(s, a, x)
    BY <1>2, <2>2, <2>3, <2>4 DEF ConsEqual
  <2>6. x \in Seq(Nat)
    BY MessageIs
  <2> QED BY <2>1, <2>5, <2>6, IsCons
<1>3. FlattenSeq(<<m.head \o m.body>> \o Bits(q)) = (m.head \o m.body) \o FlattenSeq(Bits(q))
  BY BitsType, MessageIs, FlattenCons
<1> QED BY <1>1, <1>2, <1>3, BitsType

LEMMA RestHead ==
  ASSUME NEW q \in Seq(Message), q # <<>>
  PROVE  /\ Head(q) \in Message /\ Tail(q) \in Seq(Message) /\ q = <<Head(q)>> \o Tail(q)
         /\ Rest(q) = (Head(q).head \o Head(q).body) \o Rest(Tail(q))
<1>1. Head(q) \in Message /\ Tail(q) \in Seq(Message) /\ q = <<Head(q)>> \o Tail(q)
  OBVIOUS
<1>2. PICK m \in Message, t \in Seq(Message) : m = Head(q) /\ t = Tail(q) /\ q = <<m>> \o t
  BY <1>1
<1> QED BY <1>1, <1>2, RestCons

LEMMA AssocRight ==
  ASSUME NEW X, NEW a \in Seq(X), NEW b \in Seq(X), NEW c \in Seq(X)
  PROVE  a \o (b \o c) = (a \o b) \o c
<1>1. (a \o b) \o c = a \o (b \o c)
  BY Assoc
<1> QED BY <1>1

LEMMA AssocNested ==
  ASSUME NEW X, NEW a \in Seq(Seq(X)), NEW b \in Seq(Seq(X)), NEW c \in Seq(Seq(X))
  PROVE  a \o (b \o c) = (a \o b) \o c
BY AssocRight

LEMMA PieceStep ==
  ASSUME NEW X, NEW v \in Seq(Seq(X)), NEW s \in Seq(X)
  PROVE  /\ FlattenSeq(v \o Piece(s)) = FlattenSeq(v) \o s
         /\ Piece(s) \in Seq(Seq(X)) /\ v \o Piece(s) \in Seq(Seq(X))
<1>1. Piece(s) \in Seq(Seq(X)) /\ v \o Piece(s) \in Seq(Seq(X))
  <2>1. Piece(s) \in Seq(Seq(X))
    BY DEF Piece
  <2> QED BY <2>1, ConcatProperties
<1>2. CASE s = <<>>
  <2>1. v \o <<>> = v /\ FlattenSeq(v) \o <<>> = FlattenSeq(v)
    BY FlattenType, ConcatEmptySeq
  <2> QED BY <1>1, <1>2, <2>1 DEF Piece
<1>3. CASE s # <<>>
  <2>1. v \o <<s>> = Append(v, s)
    BY AppendIsConcat
  <2> QED BY <1>1, <1>3, <2>1, FlattenAppend DEF Piece
<1> QED BY <1>2, <1>3

LEMMA PiecesStep ==
  ASSUME NEW X, NEW u \in Seq(Seq(X)), NEW h \in Seq(X), NEW b \in Seq(X)
  PROVE  FlattenSeq(u \o (Piece(h) \o Piece(b))) = FlattenSeq(u) \o (h \o b)
<1>1. Piece(h) \in Seq(Seq(X)) /\ Piece(b) \in Seq(Seq(X)) /\ u \o Piece(h) \in Seq(Seq(X))
  BY PieceStep
<1>2. u \o (Piece(h) \o Piece(b)) = (u \o Piece(h)) \o Piece(b)
  BY <1>1, AssocNested
<1>3. /\ FlattenSeq((u \o Piece(h)) \o Piece(b)) = FlattenSeq(u \o Piece(h)) \o b
      /\ FlattenSeq(u \o Piece(h)) = FlattenSeq(u) \o h
  BY <1>1, PieceStep, Zenon
<1>4. FlattenSeq(u) \o (h \o b) = (FlattenSeq(u) \o h) \o b
  BY FlattenType, AssocRight
<1> QED BY <1>2, <1>3, <1>4

LEMMA PiecesOfBytes ==
  ASSUME NEW u \in Seq(Seq(Nat)), NEW h \in Seq(Nat), NEW b \in Seq(Nat)
  PROVE  FlattenSeq(u \o (Piece(h) \o Piece(b))) = FlattenSeq(u) \o (h \o b)
BY PiecesStep

LEMMA PiecesGrow ==
  ASSUME NEW t \in Seq(Message), NEW m \in Message, FlattenSeq(Pieces(t)) = Rest(t)
  PROVE  FlattenSeq(Pieces(Append(t, m))) = Rest(Append(t, m))
<1>1. /\ Pieces(t) \in Seq(Seq(Nat)) /\ m.head \in Seq(Nat) /\ m.body \in Seq(Nat)
  BY BitsType, MessageIs
<1>2. FlattenSeq(Pieces(t) \o (Piece(m.head) \o Piece(m.body)))
        = FlattenSeq(Pieces(t)) \o (m.head \o m.body)
  BY <1>1, PiecesOfBytes
<1> QED BY <1>2, RestAppend

\* Flattening the pieces of a vector leaves out empty ones only.
LEMMA PiecesAll ==
  ASSUME NEW q \in Seq(Message)
  PROVE  FlattenSeq(Pieces(q)) = Rest(q)
<1> DEFINE Q == {t \in Seq(Message) : FlattenSeq(Pieces(t)) = Rest(t)}
<1>1. <<>> \in Q
  <2>1. Bits(<<>>) = <<>> /\ Cuts(<<>>) = <<>> /\ <<>> \in Seq(Message)
    BY DEF Bits, Cuts
  <2>2. FlattenSeq(<<>>) = <<>>
    BY DEF FlattenSeq
  <2> QED BY <2>1, <2>2, BitsType
<1>2. ASSUME NEW t \in Seq(Message), NEW m \in Message, t \in Q
      PROVE  Append(t, m) \in Q
  BY <1>2, PiecesGrow, AppendProperties
<1>3. Seq(Message) \subseteq Q
  <2> HIDE DEF Q
  <2> QED BY <1>1, <1>2, InductiveSeq
<1> QED BY <1>3

\* What is offered to the socket are the first of the bytes left.
LEMMA OfferedFirst ==
  ASSUME NEW q \in Seq(Message)
  PROVE  /\ Offered(q) \in Seq(Nat) /\ Len(Offered(q)) \in 0 .. Len(Rest(q))
         /\ \A i \in 1 .. Len(Offered(q)) : Offered(q)[i] = Rest(q)[i]
<1>1. VecMax \in Nat /\ SendMax \in Nat
  BY DeliveryAssumption
<1>2. PICK u \in Seq(Seq(Nat)) : u = Pieces(q)
  BY BitsType
<1>3. PICK r \in Seq(Nat) : FlattenSeq(u) = FlattenSeq(Prefix(u, VecMax)) \o r
  BY <1>1, <1>2, FlattenPrefix
<1>4. Prefix(u, VecMax) \in Seq(Seq(Nat))
  <2>1. Len(u) \in Nat
    BY <1>2
  <2> QED BY <1>1, <1>2, <2>1 DEF Prefix
<1>5. PICK f \in Seq(Nat) : f = FlattenSeq(Prefix(u, VecMax))
  BY <1>4, FlattenType
<1>6. Rest(q) = f \o r
  BY <1>2, <1>3, <1>5, PiecesAll
<1>7. Offered(q) = Prefix(f, SendMax)
  BY <1>2, <1>5 DEF Offered
<1>8. PICK n \in 0 .. Len(f) : Prefix(f, SendMax) = SubSeq(f, 1, n) /\ Len(f) \in Nat
  <2>1. Len(f) \in Nat
    BY <1>5
  <2>2. PICK n \in Int : n = (IF SendMax < Len(f) THEN SendMax ELSE Len(f))
    BY <1>1, <2>1
  <2>3. n \in 0 .. Len(f)
    BY <1>1, <2>1, <2>2
  <2>4. Prefix(f, SendMax) = SubSeq(f, 1, n)
    BY <2>2 DEF Prefix
  <2> QED BY <2>1, <2>3, <2>4
<1>9. /\ SubSeq(f, 1, n) \in Seq(Nat) /\ Len(SubSeq(f, 1, n)) = n
      /\ \A i \in 1 .. n : SubSeq(f, 1, n)[i] = f[i]
  BY <1>5, <1>8
<1>10. /\ Len(f \o r) = Len(f) + Len(r) /\ Len(r) \in Nat
       /\ \A i \in 1 .. Len(f) : (f \o r)[i] = f[i]
  BY <1>3, <1>5
<1> QED BY <1>6, <1>7, <1>8, <1>9, <1>10

-----------------------------------------------------------------------------
(* How often something is in queues.                                       *)

LEMMA InPlaces ==
  ASSUME NEW q, NEW b, NEW x
  PROVE  x \in Places(q, b) <=>
           \E c \in DOMAIN q : \E i \in DOMAIN q[c] : x = <<c, i>> /\ q[c][i] = b
BY DEF Places

LEMMA PlacesFinite ==
  ASSUME NEW C, IsFiniteSet(C), NEW X, NEW q \in [C -> Seq(X)], NEW b
  PROVE  IsFiniteSet(Places(q, b)) /\ Cardinality(Places(q, b)) \in Nat
<1> DEFINE D(c) == {j \in DOMAIN q[c] : q[c][j] = b}
           P(c) == {<<c, i>> : i \in D(c)}
           T == {P(c) : c \in C}
<1>1. ASSUME NEW c \in C PROVE IsFiniteSet(P(c))
  <2>1. IsFiniteSet(D(c))
    <3>1. Len(q[c]) \in Nat /\ DOMAIN q[c] = 1 .. Len(q[c])
      BY LenProperties
    <3>2. IsFiniteSet(1 .. Len(q[c]))
      BY <3>1, FS_Interval
    <3>3. D(c) \subseteq 1 .. Len(q[c])
      BY <3>1
    <3> QED BY <3>2, <3>3, FS_Subset
  <2> DEFINE E == D(c)
             I == {<<c, i>> : i \in E}
             f == [i \in E |-> <<c, i>>]
  <2>2. f \in [E -> I] /\ \A y \in I : \E i \in E : f[i] = y
    OBVIOUS
  <2>3. f \in Surjection(E, I)
    <3> HIDE DEF f, E, I
    <3> QED BY <2>2, Fun_IsSurj
  <2>4. IsFiniteSet(I)
    <3> HIDE DEF f, E, I
    <3>1. IsFiniteSet(E)
      BY <2>1 DEF E
    <3> QED BY <2>3, <3>1, FS_Surjection
  <2> QED BY <2>4
<1>2. IsFiniteSet(T)
  <2> DEFINE g == [c \in C |-> P(c)]
  <2> HIDE DEF P
  <2>2. g \in [C -> T] /\ \A y \in T : \E c \in C : g[c] = y
    OBVIOUS
  <2>3. g \in Surjection(C, T)
    <3> HIDE DEF g, T
    <3> QED BY <2>2, Fun_IsSurj
  <2> HIDE DEF g, T
  <2> QED BY <2>3, FS_Surjection
<1>3. \A t \in T : IsFiniteSet(t)
  <2> HIDE DEF P
  <2> QED BY <1>1
<1>4. Places(q, b) = UNION T
  BY DEF Places
<1>5. IsFiniteSet(UNION T)
  <2> HIDE DEF T
  <2> QED BY <1>2, <1>3, FS_UNION
<1> HIDE DEF T
<1> QED BY <1>4, <1>5, FS_CardinalityType

Longer(r, q, c, x) == r = [q EXCEPT ![c] = Append(q[c], x)]
Shorter(r, q, c)   == r = [q EXCEPT ![c] = Tail(q[c])]

LEMMA PlacesAppend ==
  ASSUME NEW C, IsFiniteSet(C), NEW X, NEW q \in [C -> Seq(X)], NEW b,
         NEW c \in C, NEW x \in X, NEW r, Longer(r, q, c, x)
  PROVE  Cardinality(Places(r, b)) = Cardinality(Places(q, b)) + One(x = b)
<1>1. PICK n \in Nat : n = Len(q[c]) /\ DOMAIN q[c] = 1 .. n
  BY LenProperties
<1>2. /\ DOMAIN r = C /\ DOMAIN q = C /\ \A d \in C : d # c => r[d] = q[d]
      /\ DOMAIN r[c] = 1 .. n + 1 /\ r[c][n + 1] = x /\ \A i \in 1 .. n : r[c][i] = q[c][i]
  <2>1. /\ Len(Append(q[c], x)) = n + 1 /\ Append(q[c], x)[n + 1] = x
        /\ \A i \in 1 .. n : Append(q[c], x)[i] = q[c][i]
        /\ DOMAIN Append(q[c], x) = 1 .. n + 1
    BY <1>1, AppendProperties, LenProperties
  <2> QED BY <2>1 DEF Longer
<1>3. \A i : i \in 1 .. n + 1 <=> i \in 1 .. n \/ i = n + 1
  BY <1>1
<1>4. <<c, n + 1>> \notin Places(q, b)
  <2>1. n + 1 \notin 1 .. n
    BY <1>1
  <2> QED BY <1>1, <1>2, <2>1, InPlaces
<1>5. \A y : y \in Places(r, b) <=> y \in Places(q, b) \/ (x = b /\ y = <<c, n + 1>>)
  <2>1. SUFFICES ASSUME NEW y
        PROVE  y \in Places(r, b) <=> y \in Places(q, b) \/ (x = b /\ y = <<c, n + 1>>)
    OBVIOUS
  <2>2. y \in Places(r, b) => y \in Places(q, b) \/ (x = b /\ y = <<c, n + 1>>)
    <3>1. SUFFICES ASSUME NEW d \in C, NEW i \in DOMAIN r[d], y = <<d, i>>, r[d][i] = b
          PROVE  y \in Places(q, b) \/ (x = b /\ y = <<c, n + 1>>)
      BY <1>2, InPlaces
    <3>2. CASE d # c
      BY <1>2, <3>1, <3>2, InPlaces
    <3>3. CASE d = c
      <4>1. i \in 1 .. n \/ i = n + 1
        BY <1>2, <1>3, <3>1, <3>3
      <4>2. CASE i \in 1 .. n
        BY <1>1, <1>2, <3>1, <3>3, <4>2, InPlaces
      <4>3. CASE i = n + 1
        BY <1>2, <3>1, <3>3, <4>3
      <4> QED BY <4>1, <4>2, <4>3
    <3> QED BY <3>2, <3>3
  <2>3. y \in Places(q, b) => y \in Places(r, b)
    <3>1. SUFFICES ASSUME NEW d \in C, NEW i \in DOMAIN q[d], y = <<d, i>>, q[d][i] = b
          PROVE  y \in Places(r, b)
      BY <1>2, InPlaces
    <3>2. i \in DOMAIN r[d] /\ r[d][i] = b
      BY <1>1, <1>2, <1>3, <3>1
    <3> QED BY <1>2, <3>1, <3>2, InPlaces
  <2>4. x = b => <<c, n + 1>> \in Places(r, b)
    <3>1. n + 1 \in 1 .. n + 1
      BY <1>3
    <3> QED BY <1>2, <3>1, InPlaces
  <2> QED BY <2>2, <2>3, <2>4
<1>6. IsFiniteSet(Places(q, b)) /\ Cardinality(Places(q, b)) \in Nat
  BY PlacesFinite
<1>7. CASE x = b
  <2>1. Places(r, b) = Places(q, b) \cup {<<c, n + 1>>}
    BY <1>5, <1>7
  <2>2. Cardinality(Places(r, b)) = Cardinality(Places(q, b)) + 1
    BY <1>4, <1>6, <2>1, FS_AddElement
  <2>3. One(x = b) = 1
    BY <1>7 DEF One
  <2> QED BY <2>2, <2>3
<1>8. CASE x # b
  <2>1. Places(r, b) = Places(q, b)
    BY <1>5, <1>8
  <2>2. One(x = b) = 0
    BY <1>8 DEF One
  <2> QED BY <1>6, <2>1, <2>2
<1> QED BY <1>7, <1>8

LEMMA PlacesTail ==
  ASSUME NEW C, IsFiniteSet(C), NEW X, NEW q \in [C -> Seq(X)], NEW b,
         NEW c \in C, q[c] # <<>>, NEW r, Shorter(r, q, c)
  PROVE  Cardinality(Places(r, b)) = Cardinality(Places(q, b)) - One(Head(q[c]) = b)
<1>1. PICK n \in Nat : n + 1 = Len(q[c]) /\ DOMAIN q[c] = 1 .. n + 1
  <2>1. Len(q[c]) \in Nat /\ DOMAIN q[c] = 1 .. Len(q[c]) /\ Len(q[c]) # 0
    BY LenProperties, EmptySeq
  <2>2. Len(q[c]) - 1 \in Nat /\ (Len(q[c]) - 1) + 1 = Len(q[c])
    BY <2>1
  <2> QED BY <2>1, <2>2
<1>2. /\ DOMAIN r = C /\ DOMAIN q = C /\ \A d \in C : d # c => r[d] = q[d]
      /\ DOMAIN r[c] = 1 .. n /\ \A i \in 1 .. n : r[c][i] = q[c][i + 1]
      /\ Head(q[c]) = q[c][1]
  <2>1. PICK s \in Seq(X) : s = q[c]
    OBVIOUS
  <2>2. /\ Tail(s) \in Seq(X) /\ Len(Tail(s)) = n /\ Head(s) = s[1]
        /\ \A i \in 1 .. n : Tail(s)[i] = s[i + 1]
    BY <1>1, <2>1
  <2>3. DOMAIN Tail(s) = 1 .. n
    BY <2>2, LenProperties
  <2> QED BY <2>1, <2>2, <2>3 DEF Shorter
<1>3. \A i : i \in 1 .. n + 1 <=> i = 1 \/ \E j \in 1 .. n : i = j + 1
  <2>1. SUFFICES ASSUME NEW i PROVE i \in 1 .. n + 1 <=> i = 1 \/ \E j \in 1 .. n : i = j + 1
    OBVIOUS
  <2>2. i \in 1 .. n + 1 => i = 1 \/ \E j \in 1 .. n : i = j + 1
    <3> SUFFICES ASSUME i \in 1 .. n + 1, i # 1 PROVE \E j \in 1 .. n : i = j + 1
      OBVIOUS
    <3>1. i - 1 \in 1 .. n /\ i = (i - 1) + 1
      BY <1>1
    <3> QED BY <3>1
  <2>3. \A j \in 1 .. n : j + 1 \in 1 .. n + 1
    BY <1>1
  <2>4. 1 \in 1 .. n + 1
    BY <1>1
  <2> QED BY <2>2, <2>3, <2>4
<1> DEFINE S == Places(r, b)
           T == Places(q, b) \ {<<c, 1>>}
           f == [y \in S |-> IF y[1] = c THEN <<c, y[2] + 1>> ELSE y]
<1>4. \A y \in S : \E d \in C : \E i \in DOMAIN r[d] : y = <<d, i>> /\ r[d][i] = b
  BY <1>2, InPlaces
<1>5. \A j \in 1 .. n : j \in Int /\ j + 1 # 1
  BY <1>1
<1>6. \A y \in S : f[y] \in T
  <2>1. SUFFICES ASSUME NEW y \in S, NEW d \in C, NEW i \in DOMAIN r[d],
                        y = <<d, i>>, r[d][i] = b
        PROVE  f[y] \in T
    BY <1>4
  <2>2. CASE d = c
    <3>1. f[y] = <<c, i + 1>> /\ i \in 1 .. n /\ i + 1 \in 1 .. n + 1 /\ q[c][i + 1] = b
      BY <1>2, <1>3, <2>1, <2>2
    <3>2. <<c, i + 1>> # <<c, 1>>
      BY <1>5, <3>1
    <3> QED BY <1>1, <1>2, <3>1, <3>2, InPlaces
  <2>3. CASE d # c
    <3>1. f[y] = <<d, i>> /\ q[d] = r[d]
      BY <1>2, <2>1, <2>3
    <3>2. <<d, i>> # <<c, 1>>
      BY <2>3
    <3> QED BY <1>2, <2>1, <3>1, <3>2, InPlaces
  <2> QED BY <2>2, <2>3
<1>7. \A t \in T : \E y \in S : f[y] = t
  <2>1. SUFFICES ASSUME NEW t \in T, NEW d \in C, NEW i \in DOMAIN q[d],
                        t = <<d, i>>, q[d][i] = b
        PROVE  \E y \in S : f[y] = t
    BY <1>2, InPlaces
  <2>2. CASE d = c
    <3>1. i # 1 /\ i \in 1 .. n + 1
      BY <1>1, <2>1, <2>2
    <3>2. PICK j \in 1 .. n : i = j + 1
      BY <1>3, <3>1
    <3>3. <<c, j>> \in S
      BY <1>2, <2>1, <2>2, <3>2, InPlaces
    <3>4. f[<<c, j>>] = <<c, j + 1>>
      BY <3>3
    <3> QED BY <2>1, <2>2, <3>2, <3>3, <3>4
  <2>3. CASE d # c
    <3>1. <<d, i>> \in S
      BY <1>2, <2>1, <2>3, InPlaces
    <3>2. f[<<d, i>>] = <<d, i>>
      BY <2>3, <3>1
    <3> QED BY <2>1, <3>1, <3>2
  <2> QED BY <2>2, <2>3
<1>8. \A y, z \in S : f[y] = f[z] => y = z
  <2>1. SUFFICES ASSUME NEW y \in S, NEW z \in S, f[y] = f[z],
                        NEW d \in C, NEW i \in DOMAIN r[d], y = <<d, i>>,
                        NEW e \in C, NEW j \in DOMAIN r[e], z = <<e, j>>
        PROVE  y = z
    BY <1>4
  <2>2. /\ f[y] = IF d = c THEN <<c, i + 1>> ELSE <<d, i>>
        /\ f[z] = IF e = c THEN <<c, j + 1>> ELSE <<e, j>>
    BY <2>1
  <2>3. CASE d = c /\ e = c
    <3>1. i \in 1 .. n /\ j \in 1 .. n /\ i + 1 = j + 1
      BY <1>2, <2>1, <2>2, <2>3
    <3>2. i = j
      BY <1>1, <3>1
    <3> QED BY <2>1, <2>3, <3>2
  <2>4. CASE d # c \/ e # c
    BY <2>1, <2>2, <2>4
  <2> QED BY <2>3, <2>4
<1>9. r \in [C -> Seq(X)]
  <2>1. Tail(q[c]) \in Seq(X)
    OBVIOUS
  <2> QED BY <2>1 DEF Shorter
<1>10. f \in Bijection(S, T) /\ IsFiniteSet(S)
  <2>1. f \in [S -> T]
    BY <1>6
  <2> HIDE DEF f, T
  <2>2. f \in Bijection(S, T)
    BY <1>7, <1>8, <2>1, Fun_IsBij
  <2>3. IsFiniteSet(S)
    BY <1>9, PlacesFinite
  <2> QED BY <2>2, <2>3
<1>11. Cardinality(S) = Cardinality(T)
  <2> HIDE DEF f, T, S
  <2>1. ExistsBijection(S, T)
    BY <1>10 DEF ExistsBijection
  <2> QED BY <1>10, <2>1, FS_Bijection
<1>12. IsFiniteSet(Places(q, b)) /\ Cardinality(Places(q, b)) \in Nat
  BY PlacesFinite
<1>13. <<c, 1>> \in Places(q, b) <=> Head(q[c]) = b
  <2>1. 1 \in 1 .. n + 1
    BY <1>3
  <2>2. \A d, i : <<c, 1>> = <<d, i>> => d = c /\ i = 1
    OBVIOUS
  <2> QED BY <1>1, <1>2, <2>1, <2>2, InPlaces
<1>14. Cardinality(T) = Cardinality(Places(q, b)) - One(Head(q[c]) = b)
  <2>1. Cardinality(T) = IF <<c, 1>> \in Places(q, b) THEN Cardinality(Places(q, b)) - 1
                                                      ELSE Cardinality(Places(q, b))
    BY <1>12, FS_RemoveElement
  <2> QED BY <1>12, <1>13, <2>1 DEF One
<1> QED BY <1>11, <1>14

LEMMA SetToSeqType ==
  ASSUME NEW S, IsFiniteSet(S)
  PROVE  SetToSeq(S) \in Seq(S)
<1>1. Cardinality(S) \in Nat /\ ExistsBijection(1 .. Cardinality(S), S)
  BY FS_CardinalityType
<1>2. \E f \in [1 .. Cardinality(S) -> S] : IsInjective(f)
  BY <1>1 DEF ExistsBijection, Bijection, Injection
<1>3. SetToSeq(S) \in [1 .. Cardinality(S) -> S]
  BY <1>2 DEF SetToSeq
<1> QED BY <1>1, <1>3

-----------------------------------------------------------------------------
(* The bodies the messages of a queue refer to.                            *)

CachesOf(s) == [i \in DOMAIN s |-> s[i].cache]

LEMMA CachesOfIs ==
  ASSUME NEW s \in Seq(Message)
  PROVE  /\ CachesOf(s) \in Seq(Bodies \cup {NoBody})
         /\ Len(s) \in Nat /\ Len(CachesOf(s)) = Len(s)
         /\ \A i \in 1 .. Len(s) : CachesOf(s)[i] = s[i].cache
<1>1. DOMAIN s = 1 .. Len(s) /\ Len(s) \in Nat
  BY LenProperties
<1>2. \A i \in 1 .. Len(s) : s[i].cache \in Bodies \cup {NoBody}
  <2>1. \A i \in 1 .. Len(s) : s[i] \in Message
    BY ElementOfSeq
  <2> QED BY <2>1 DEF Message
<1>3. CachesOf(s) \in Seq(Bodies \cup {NoBody})
  BY <1>1, <1>2 DEF CachesOf
<1>4. DOMAIN CachesOf(s) = 1 .. Len(s)
  BY <1>1 DEF CachesOf
<1>5. Len(CachesOf(s)) = Len(s)
  BY <1>1, <1>3, <1>4, LenProperties
<1> QED BY <1>1, <1>3, <1>5 DEF CachesOf

LEMMA CachesOfAppend ==
  ASSUME NEW s \in Seq(Message), NEW m \in Message
  PROVE  CachesOf(Append(s, m)) = Append(CachesOf(s), m.cache)
<1>1. /\ Append(s, m) \in Seq(Message) /\ Len(Append(s, m)) = Len(s) + 1
      /\ \A i \in 1 .. Len(s) : Append(s, m)[i] = s[i]
      /\ Append(s, m)[Len(s) + 1] = m
  BY AppendProperties
<1>2. PICK a \in Seq(Bodies \cup {NoBody}), t \in Seq(Bodies \cup {NoBody}) :
        a = CachesOf(s) /\ t = CachesOf(Append(s, m))
  BY <1>1, CachesOfIs
<1>3. Len(s) \in Nat /\ Len(a) = Len(s) /\ \A i \in 1 .. Len(s) : a[i] = s[i].cache
  BY <1>2, CachesOfIs
<1>4. Len(t) = Len(s) + 1 /\ \A i \in 1 .. Len(s) + 1 : t[i] = Append(s, m)[i].cache
  BY <1>1, <1>2, CachesOfIs
<1>5. Len(s) + 1 \in 1 .. Len(s) + 1 /\ \A i \in 1 .. Len(s) : i \in 1 .. Len(s) + 1
  BY <1>3
<1>6. AppendEqual(t, a, m.cache)
  BY <1>1, <1>3, <1>4, <1>5 DEF AppendEqual
<1>7. m.cache \in Bodies \cup {NoBody}
  BY DEF Message
<1> QED BY <1>2, <1>6, <1>7, IsAppend

LEMMA CachesOfTail ==
  ASSUME NEW s \in Seq(Message), s # <<>>
  PROVE  /\ CachesOf(s) # <<>> /\ Head(CachesOf(s)) = Head(s).cache
         /\ CachesOf(Tail(s)) = Tail(CachesOf(s))
<1>1. PICK n \in Nat : Len(s) = n + 1
  <2>1. Len(s) \in Nat /\ Len(s) # 0
    BY LenProperties, EmptySeq
  <2>2. Len(s) - 1 \in Nat /\ (Len(s) - 1) + 1 = Len(s)
    BY <2>1
  <2> QED BY <2>2
<1>2. /\ Tail(s) \in Seq(Message) /\ Len(Tail(s)) = n /\ Head(s) = s[1]
      /\ \A i \in 1 .. n : Tail(s)[i] = s[i + 1]
  BY <1>1
<1>3. PICK a \in Seq(Bodies \cup {NoBody}), t \in Seq(Bodies \cup {NoBody}) :
        a = CachesOf(s) /\ t = CachesOf(Tail(s))
  BY <1>2, CachesOfIs
<1>4. Len(a) = n + 1 /\ \A i \in 1 .. n + 1 : a[i] = s[i].cache
  BY <1>1, <1>3, CachesOfIs
<1>5. Len(t) = n /\ \A i \in 1 .. n : t[i] = Tail(s)[i].cache
  BY <1>2, <1>3, CachesOfIs
<1>6. a # <<>> /\ Head(a) = a[1] /\ Tail(a) \in Seq(Bodies \cup {NoBody})
      /\ Len(Tail(a)) = n /\ \A i \in 1 .. n : Tail(a)[i] = a[i + 1]
  BY <1>1, <1>3, <1>4
<1>7. 1 \in 1 .. n + 1 /\ \A i \in 1 .. n : i + 1 \in 1 .. n + 1
  BY <1>1
<1>8. \A i \in 1 .. n : t[i] = Tail(a)[i]
  BY <1>2, <1>4, <1>5, <1>6, <1>7
<1>9. t = Tail(a)
  BY <1>3, <1>5, <1>6, <1>8, SeqEqual
<1> QED BY <1>2, <1>3, <1>4, <1>6, <1>7, <1>9

LEMMA CachesOfRemains ==
  ASSUME NEW s \in Seq(Message), s # <<>>, NEW m \in Message, m.cache = Head(s).cache
  PROVE  CachesOf(<<m>> \o Tail(s)) = CachesOf(s)
<1>1. PICK n \in Nat : Len(s) = n + 1
  <2>1. Len(s) \in Nat /\ Len(s) # 0
    BY LenProperties, EmptySeq
  <2>2. Len(s) - 1 \in Nat /\ (Len(s) - 1) + 1 = Len(s)
    BY <2>1
  <2> QED BY <2>2
<1>2. PICK u \in Seq(Message) : u = Tail(s) /\ Len(u) = n /\ \A i \in 1 .. n : u[i] = s[i + 1]
  <2>1. /\ Tail(s) \in Seq(Message) /\ Len(Tail(s)) = n
        /\ \A i \in 1 .. n : Tail(s)[i] = s[i + 1]
    BY <1>1
  <2> QED BY <2>1
<1>3. /\ <<m>> \o u \in Seq(Message) /\ Len(<<m>> \o u) = n + 1 /\ (<<m>> \o u)[1] = m
      /\ \A i \in 1 .. n : (<<m>> \o u)[i + 1] = u[i]
  BY <1>2
<1>4. PICK a \in Seq(Bodies \cup {NoBody}), t \in Seq(Bodies \cup {NoBody}) :
        a = CachesOf(s) /\ t = CachesOf(<<m>> \o u)
  BY <1>3, CachesOfIs
<1>5. Len(a) = n + 1 /\ \A i \in 1 .. n + 1 : a[i] = s[i].cache
  BY <1>1, <1>4, CachesOfIs
<1>6. Len(t) = n + 1 /\ \A i \in 1 .. n + 1 : t[i] = (<<m>> \o u)[i].cache
  BY <1>3, <1>4, CachesOfIs
<1>7. \A i \in 1 .. n + 1 : i = 1 \/ \E j \in 1 .. n : i = j + 1
  <2> SUFFICES ASSUME NEW i \in 1 .. n + 1, i # 1 PROVE \E j \in 1 .. n : i = j + 1
    OBVIOUS
  <2>1. i - 1 \in 1 .. n /\ i = (i - 1) + 1
    BY <1>1
  <2> QED BY <2>1
<1>8. Head(s) = s[1]
  BY <1>1
<1>9. ASSUME NEW i \in 1 .. n + 1 PROVE a[i] = t[i]
  <2>1. CASE i = 1
    BY <1>3, <1>5, <1>6, <1>8, <2>1
  <2>2. CASE i # 1
    <3>1. PICK j \in 1 .. n : i = j + 1
      BY <1>7, <2>2
    <3> QED BY <1>2, <1>3, <1>5, <1>6, <3>1
  <2> QED BY <2>1, <2>2
<1>10. a = t
  BY <1>4, <1>5, <1>6, <1>9, SeqEqual
<1> QED BY <1>2, <1>4, <1>10

-----------------------------------------------------------------------------
(* What the dealer has left to do.                                         *)

Frees(j, b) == \E i \in DOMAIN j : j[i].op = "free" /\ j[i].body = b
Lacks(j, op) == \A i \in DOMAIN j : j[i].op # op

\* A step for a message, before the one that frees it.
IsWork(o) ==
  /\ o.op \in {"cache", "relay", "notice", "send"}
  /\ o.op # "cache" => o.to \in Players
  /\ o.op = "send" => o.i \in DOMAIN Chunks
Work(w, b) == \A i \in DOMAIN w : IsWork(w[i]) /\ w[i].body = b

\* The message freed last is the one in hand, or the sends are those of the
\* header the stream keeps, which a player that joins is sent.
Backed(j, a, i) ==
  \/ \E k \in DOMAIN j : k > i /\ j[k].op = "free" /\ j[k].body = j[i].body
  \/ j[i].body = a /\ \A k \in DOMAIN j : j[k].op = "send"

GoodAt(j, a, i) ==
  /\ j[i].op \notin {"clear", "free"} => IsWork(j[i]) /\ Backed(j, a, i)
  /\ j[i].op = "clear" => i = Len(j) /\ j[i].body = a /\ Lacks(j, "cache")
  /\ j[i].op = "free" => \A k \in DOMAIN j : j[k].op = "free" => k = i
Good(j, a) == \A i \in DOMAIN j : GoodAt(j, a, i)

LEMMA TailIs ==
  ASSUME NEW X, NEW j \in Seq(X), j # <<>>
  PROVE  \E n \in Nat : /\ Len(j) = n + 1 /\ DOMAIN j = 1 .. n + 1 /\ Head(j) = j[1]
                        /\ Tail(j) \in Seq(X) /\ Len(Tail(j)) = n /\ DOMAIN Tail(j) = 1 .. n
                        /\ \A i \in 1 .. n : i + 1 \in 1 .. n + 1 /\ Tail(j)[i] = j[i + 1]
                        /\ \A i \in 1 .. n + 1 : i # 1 => i - 1 \in 1 .. n /\ Tail(j)[i - 1] = j[i]
                        /\ 1 \in 1 .. n + 1
<1>1. Len(j) \in Nat /\ DOMAIN j = 1 .. Len(j) /\ Len(j) # 0
  BY LenProperties, EmptySeq
<1>2. PICK n \in Nat : n = Len(j) - 1
  <2>1. Len(j) - 1 \in Nat
    BY <1>1
  <2> QED BY <2>1
<1>3. Len(j) = n + 1
  BY <1>1, <1>2
<1>4. /\ Tail(j) \in Seq(X) /\ Len(Tail(j)) = n /\ Head(j) = j[1]
      /\ \A i \in 1 .. n : Tail(j)[i] = j[i + 1]
  BY <1>3
<1>5. DOMAIN Tail(j) = 1 .. n
  BY <1>4, LenProperties
<1>6. /\ \A i \in 1 .. n : i + 1 \in 1 .. n + 1
      /\ \A i \in 1 .. n + 1 : i # 1 => i - 1 \in 1 .. n /\ (i - 1) + 1 = i
      /\ 1 \in 1 .. n + 1
  BY <1>2
<1>7. \A i \in 1 .. n + 1 : i # 1 => Tail(j)[i - 1] = j[i]
  BY <1>4, <1>6
<1> QED BY <1>1, <1>3, <1>4, <1>5, <1>6, <1>7

LEMMA GoodTail ==
  ASSUME NEW j \in Seq(Ops), j # <<>>, NEW a, Good(j, a)
  PROVE  /\ Good(Tail(j), a) /\ Tail(j) \in Seq(Ops)
         /\ \A b : Frees(Tail(j), b) <=> Frees(j, b) /\ Head(j).op # "free"
         /\ Head(j).op = "free" => \A b : Frees(j, b) <=> b = Head(j).body
<1>1. PICK n \in Nat :
        /\ Len(j) = n + 1 /\ DOMAIN j = 1 .. n + 1 /\ Head(j) = j[1]
        /\ Tail(j) \in Seq(Ops) /\ Len(Tail(j)) = n /\ DOMAIN Tail(j) = 1 .. n
        /\ \A i \in 1 .. n : i + 1 \in 1 .. n + 1 /\ Tail(j)[i] = j[i + 1]
        /\ \A i \in 1 .. n + 1 : i # 1 => i - 1 \in 1 .. n /\ Tail(j)[i - 1] = j[i]
        /\ 1 \in 1 .. n + 1
  BY TailIs
<1>2. PICK t : t = Tail(j)
  OBVIOUS
<1>3. ASSUME NEW i \in 1 .. n
      PROVE  GoodAt(t, a, i)
  <2>1. i + 1 \in 1 .. n + 1 /\ t[i] = j[i + 1] /\ GoodAt(j, a, i + 1)
    BY <1>1, <1>2 DEF Good
  <2>2. t[i].op \notin {"clear", "free"} => IsWork(t[i]) /\ Backed(t, a, i)
    <3>1. SUFFICES ASSUME t[i].op \notin {"clear", "free"} PROVE Backed(t, a, i)
      BY <2>1 DEF GoodAt
    <3>2. Backed(j, a, i + 1)
      BY <2>1, <3>1 DEF GoodAt
    <3>3. CASE \E k \in DOMAIN j : k > i + 1 /\ j[k].op = "free" /\ j[k].body = j[i + 1].body
      <4>1. PICK k \in 1 .. n + 1 : k > i + 1 /\ j[k].op = "free" /\ j[k].body = j[i + 1].body
        BY <1>1, <3>3
      <4>2. k # 1 /\ k - 1 > i
        BY <4>1
      <4>3. k - 1 \in 1 .. n /\ t[k - 1] = j[k]
        BY <1>1, <1>2, <4>2
      <4>4. k - 1 \in DOMAIN t /\ t[k - 1].op = "free" /\ t[k - 1].body = t[i].body
        BY <1>1, <1>2, <2>1, <4>1, <4>3
      <4> QED BY <4>2, <4>4 DEF Backed
    <3>4. CASE j[i + 1].body = a /\ \A k \in DOMAIN j : j[k].op = "send"
      BY <1>1, <1>2, <2>1, <3>4 DEF Backed
    <3> QED BY <3>2, <3>3, <3>4 DEF Backed
  <2>3. t[i].op = "clear" => i = Len(t) /\ t[i].body = a /\ Lacks(t, "cache")
    <3>1. SUFFICES ASSUME t[i].op = "clear"
                   PROVE  i = Len(t) /\ t[i].body = a /\ Lacks(t, "cache")
      OBVIOUS
    <3>2. i + 1 = Len(j) /\ j[i + 1].body = a /\ Lacks(j, "cache")
      BY <2>1, <3>1 DEF GoodAt
    <3>3. i = n
      BY <1>1, <3>2
    <3> QED BY <1>1, <1>2, <2>1, <3>2, <3>3 DEF Lacks
  <2>4. t[i].op = "free" => \A k \in DOMAIN t : t[k].op = "free" => k = i
    <3>1. SUFFICES ASSUME t[i].op = "free", NEW k \in 1 .. n, t[k].op = "free"
                   PROVE  k = i
      BY <1>1, <1>2
    <3>2. k + 1 = i + 1
      BY <1>1, <1>2, <2>1, <3>1 DEF GoodAt
    <3> QED BY <3>2
  <2> QED BY <2>2, <2>3, <2>4 DEF GoodAt
<1>4. Good(Tail(j), a) /\ Tail(j) \in Seq(Ops)
  BY <1>1, <1>2, <1>3 DEF Good
<1>5. ASSUME Head(j).op = "free", NEW k \in DOMAIN j, j[k].op = "free"
      PROVE  k = 1
  BY <1>1, <1>5 DEF Good, GoodAt
<1>6. ASSUME NEW b
      PROVE  Frees(Tail(j), b) <=> Frees(j, b) /\ Head(j).op # "free"
  <2>1. ASSUME Frees(Tail(j), b)
        PROVE  Frees(j, b) /\ Head(j).op # "free"
    <3>1. PICK i \in 1 .. n : t[i].op = "free" /\ t[i].body = b
      BY <1>1, <1>2, <2>1 DEF Frees
    <3>2. i + 1 \in DOMAIN j /\ j[i + 1].op = "free" /\ j[i + 1].body = b /\ i + 1 # 1
      BY <1>1, <1>2, <3>1
    <3> QED BY <1>5, <3>2 DEF Frees
  <2>2. ASSUME Frees(j, b), Head(j).op # "free"
        PROVE  Frees(Tail(j), b)
    <3>1. PICK k \in 1 .. n + 1 : j[k].op = "free" /\ j[k].body = b
      BY <1>1, <2>2 DEF Frees
    <3>2. k # 1
      BY <1>1, <2>2, <3>1
    <3>3. k - 1 \in 1 .. n /\ t[k - 1] = j[k]
      BY <1>1, <1>2, <3>2
    <3> QED BY <1>1, <1>2, <3>1, <3>3 DEF Frees
  <2> QED BY <2>1, <2>2
<1>7. ASSUME Head(j).op = "free", NEW b
      PROVE  Frees(j, b) <=> b = Head(j).body
  BY <1>1, <1>5, <1>7 DEF Frees
<1> QED BY <1>4, <1>6, <1>7

LEMMA GoodPrepend ==
  ASSUME NEW w \in Seq(Ops), NEW j \in Seq(Ops), NEW a, NEW b,
         Good(j, a), Work(w, b), Frees(j, b),
         Lacks(w, "cache") \/ Lacks(j, "clear")
  PROVE  /\ Good(w \o j, a) /\ w \o j \in Seq(Ops)
         /\ \A x : Frees(w \o j, x) <=> Frees(j, x)
         /\ Lacks(j, "clear") => Lacks(w \o j, "clear")
<1>1. PICK m \in Nat, n \in Nat : m = Len(w) /\ n = Len(j) /\ DOMAIN w = 1 .. m /\ DOMAIN j = 1 .. n
  BY LenProperties
<1>2. PICK s \in Seq(Ops) : s = w \o j
  BY ConcatProperties
<1>3. /\ Len(s) = m + n /\ \A i \in 1 .. m : s[i] = w[i]
      /\ \A i \in 1 .. n : s[m + i] = j[i]
  BY <1>1, <1>2
<1>4. DOMAIN s = 1 .. m + n
  BY <1>2, <1>3, LenProperties
<1>5. /\ \A i \in 1 .. m + n : i \in 1 .. m \/ (i \notin 1 .. m /\ \E k \in 1 .. n : i = m + k)
      /\ \A i \in 1 .. m : i \in 1 .. m + n
      /\ \A i \in 1 .. n : m + i \in 1 .. m + n /\ m + i \notin 1 .. m
  <2>1. ASSUME NEW i \in 1 .. m + n, i \notin 1 .. m
        PROVE  \E k \in 1 .. n : i = m + k
    <3>1. i - m \in 1 .. n /\ i = m + (i - m)
      BY <1>1, <2>1
    <3> QED BY <3>1
  <2>2. \A i \in 1 .. m : i \in 1 .. m + n
    BY <1>1
  <2>3. \A i \in 1 .. n : m + i \in 1 .. m + n /\ m + i \notin 1 .. m
    BY <1>1
  <2> QED BY <2>1, <2>2, <2>3
<1>6. \A i \in 1 .. m : IsWork(s[i]) /\ s[i].body = b /\ s[i].op \notin {"free", "clear"}
  BY <1>1, <1>3 DEF Work, IsWork
<1>7. ASSUME NEW x PROVE Frees(s, x) <=> Frees(j, x)
  <2>1. ASSUME Frees(s, x) PROVE Frees(j, x)
    <3>1. PICK i \in 1 .. m + n : s[i].op = "free" /\ s[i].body = x
      BY <1>4, <2>1 DEF Frees
    <3>2. PICK k \in 1 .. n : i = m + k
      BY <1>5, <1>6, <3>1
    <3> QED BY <1>1, <1>3, <3>1, <3>2 DEF Frees
  <2>2. ASSUME Frees(j, x) PROVE Frees(s, x)
    <3>1. PICK k \in 1 .. n : j[k].op = "free" /\ j[k].body = x
      BY <1>1, <2>2 DEF Frees
    <3>2. m + k \in DOMAIN s /\ s[m + k] = j[k]
      BY <1>3, <1>4, <1>5
    <3> QED BY <3>1, <3>2 DEF Frees
  <2> QED BY <2>1, <2>2
<1>8. ASSUME NEW i \in 1 .. m PROVE GoodAt(s, a, i)
  <2>1. PICK k \in 1 .. n : j[k].op = "free" /\ j[k].body = b
    BY <1>1 DEF Frees
  <2>2. m + k \in DOMAIN s /\ s[m + k].op = "free" /\ s[m + k].body = s[i].body
    BY <1>3, <1>4, <1>5, <1>6, <2>1
  <2>3. m + k > i
    BY <1>1
  <2>4. Backed(s, a, i)
    BY <2>2, <2>3 DEF Backed
  <2> QED BY <1>6, <2>4 DEF GoodAt
<1>9. ASSUME NEW k \in 1 .. n PROVE GoodAt(s, a, m + k)
  <2>1. GoodAt(j, a, k) /\ s[m + k] = j[k]
    BY <1>1, <1>3 DEF Good
  <2>2. s[m + k].op \notin {"clear", "free"} => IsWork(s[m + k]) /\ Backed(s, a, m + k)
    <3>1. SUFFICES ASSUME s[m + k].op \notin {"clear", "free"} PROVE Backed(s, a, m + k)
      BY <2>1 DEF GoodAt
    <3>2. Backed(j, a, k)
      BY <2>1, <3>1 DEF GoodAt
    <3>3. PICK l \in 1 .. n : l > k /\ j[l].op = "free" /\ j[l].body = j[k].body
      <4>1. ~ \A i \in DOMAIN j : j[i].op = "send"
        BY DEF Frees
      <4> QED BY <1>1, <3>2, <4>1 DEF Backed
    <3>4. m + l \in DOMAIN s /\ s[m + l].op = "free" /\ s[m + l].body = s[m + k].body
      BY <1>3, <1>4, <1>5, <2>1, <3>3
    <3>5. m + l > m + k
      BY <1>1, <3>3
    <3> QED BY <3>4, <3>5 DEF Backed
  <2>3. s[m + k].op = "clear" =>
          m + k = Len(s) /\ s[m + k].body = a /\ Lacks(s, "cache")
    <3>1. SUFFICES ASSUME s[m + k].op = "clear"
                   PROVE  m + k = Len(s) /\ s[m + k].body = a /\ Lacks(s, "cache")
      OBVIOUS
    <3>2. k = n /\ j[k].body = a /\ Lacks(j, "cache")
      BY <1>1, <2>1, <3>1 DEF GoodAt
    <3>3. ~ Lacks(j, "clear")
      BY <1>1, <2>1, <3>1 DEF Lacks
    <3>4. Lacks(w, "cache")
      BY <3>3
    <3>5. ASSUME NEW i \in 1 .. m + n PROVE s[i].op # "cache"
      <4>1. CASE i \in 1 .. m
        BY <1>1, <1>3, <3>4, <4>1 DEF Lacks
      <4>2. CASE i \notin 1 .. m
        <5>1. PICK l \in 1 .. n : i = m + l
          BY <1>5, <4>2
        <5> QED BY <1>1, <1>3, <3>2, <5>1 DEF Lacks
      <4> QED BY <4>1, <4>2
    <3> QED BY <1>3, <1>4, <2>1, <3>2, <3>5 DEF Lacks
  <2>4. s[m + k].op = "free" => \A i \in DOMAIN s : s[i].op = "free" => i = m + k
    <3>1. SUFFICES ASSUME s[m + k].op = "free", NEW i \in 1 .. m + n, s[i].op = "free"
                   PROVE  i = m + k
      BY <1>4
    <3>2. PICK l \in 1 .. n : i = m + l
      BY <1>5, <1>6, <3>1
    <3>3. j[l].op = "free" /\ j[k].op = "free"
      BY <1>3, <2>1, <3>1, <3>2
    <3>4. l = k
      BY <1>1, <2>1, <3>3 DEF GoodAt
    <3> QED BY <3>2, <3>4
  <2> QED BY <2>2, <2>3, <2>4 DEF GoodAt
<1>10. Good(s, a)
  BY <1>4, <1>5, <1>8, <1>9 DEF Good
<1>11. Lacks(j, "clear") => Lacks(s, "clear")
  <2> SUFFICES ASSUME Lacks(j, "clear"), NEW i \in 1 .. m + n PROVE s[i].op # "clear"
    BY <1>4 DEF Lacks
  <2>1. CASE i \in 1 .. m
    BY <1>6, <2>1
  <2>2. CASE i \notin 1 .. m
    <3>1. PICK l \in 1 .. n : i = m + l
      BY <1>5, <2>2
    <3> QED BY <1>1, <1>3, <3>1 DEF Lacks
  <2> QED BY <2>1, <2>2
<1> QED BY <1>2, <1>7, <1>10, <1>11

LEMMA ConnsFinite == IsFiniteSet(Conns) /\ Players \subseteq Conns /\ Pub \in Conns
BY DeliveryAssumption, FS_AddElement DEF Conns

LEMMA OpType ==
  ASSUME NEW op \in {"cache", "clear", "relay", "notice", "send", "free"},
         NEW c \in Conns, NEW b \in Bodies, NEW i \in 0 .. Len(Chunks)
  PROVE  Op(op, c, b, i) \in Ops
BY DEF Ops, Op

LEMMA ChunksAre ==
  /\ Len(Chunks) \in Nat /\ DOMAIN Chunks = 1 .. Len(Chunks) /\ 0 \in 0 .. Len(Chunks)
  /\ \A i \in DOMAIN Chunks : /\ i \in 0 .. Len(Chunks)
                              /\ Chunks[i].head \in Nat /\ Chunks[i].body \in Nat
<1>1. Len(Chunks) \in Nat /\ DOMAIN Chunks = 1 .. Len(Chunks)
  BY DeliveryAssumption, LenProperties
<1>2. \A i \in 1 .. Len(Chunks) : Chunks[i] \in [head : Nat, body : Nat]
  BY DeliveryAssumption, ElementOfSeq
<1> QED BY <1>1, <1>2

LEMMA FreeGood ==
  ASSUME NEW c \in Conns, NEW b \in Bodies, NEW a
  PROVE  /\ Free(c, b) \in Seq(Ops) /\ Good(Free(c, b), a)
         /\ \A x : Frees(Free(c, b), x) <=> x = b
         /\ Lacks(Free(c, b), "clear")
<1>1. PICK o \in Ops : o = Op("free", c, b, 0)
  BY OpType, ChunksAre
<1>2. PICK j \in Seq(Ops) : j = <<o>>
  <2>1. <<o>> \in Seq(Ops)
    BY <1>1
  <2> QED BY <2>1
<1>3. Free(c, b) = j /\ DOMAIN j = {1} /\ j[1] = o /\ o.op = "free" /\ o.body = b
  BY <1>1, <1>2 DEF Free, Op
<1> QED BY <1>3 DEF Good, GoodAt, Frees, Lacks

LEMMA FreeClearGood ==
  ASSUME NEW c \in Conns, NEW b \in Bodies, NEW a \in Bodies
  PROVE  /\ Free(c, b) \o <<Op("clear", c, a, 0)>> \in Seq(Ops)
         /\ Good(Free(c, b) \o <<Op("clear", c, a, 0)>>, a)
         /\ \A x : Frees(Free(c, b) \o <<Op("clear", c, a, 0)>>, x) <=> x = b
<1>1. PICK o \in Ops, u \in Ops : o = Op("free", c, b, 0) /\ u = Op("clear", c, a, 0)
  BY OpType, ChunksAre
<1>2. PICK v \in Seq(Ops), w \in Seq(Ops) : v = <<o>> /\ w = <<u>>
  <2>1. <<o>> \in Seq(Ops) /\ <<u>> \in Seq(Ops)
    BY <1>1
  <2> QED BY <2>1
<1>3. PICK j \in Seq(Ops) :
        /\ j = v \o w /\ Len(j) = 2 /\ DOMAIN j = 1 .. 2 /\ j[1] = o /\ j[2] = u
        /\ Free(c, b) \o <<Op("clear", c, a, 0)>> = j
  <2>1. Len(v) = 1 /\ v[1] = o /\ Len(w) = 1 /\ w[1] = u
    BY <1>2
  <2>2. v \o w \in Seq(Ops) /\ Len(v \o w) = 2 /\ (v \o w)[1] = o /\ (v \o w)[2] = u
    BY <1>2, <2>1
  <2>3. DOMAIN (v \o w) = 1 .. 2
    BY <2>2, LenProperties
  <2>4. Free(c, b) = v /\ <<Op("clear", c, a, 0)>> = w
    BY <1>1, <1>2 DEF Free
  <2> QED BY <2>2, <2>3, <2>4
<1>4. /\ DOMAIN j = {1, 2} /\ Len(j) = 2 /\ j[1] = o /\ j[2] = u
      /\ o.op = "free" /\ o.body = b /\ u.op = "clear" /\ u.body = a
  BY <1>1, <1>3 DEF Op
<1>5. Good(j, a)
  <2>1. GoodAt(j, a, 1)
    BY <1>4 DEF GoodAt
  <2>2. GoodAt(j, a, 2)
    BY <1>4 DEF GoodAt, Lacks
  <2> QED BY <1>4, <2>1, <2>2 DEF Good
<1>6. ASSUME NEW x PROVE Frees(j, x) <=> x = b
  BY <1>4 DEF Frees
<1> QED BY <1>3, <1>5, <1>6

LEMMA SendPkgWork ==
  ASSUME NEW p \in Players, NEW b \in Bodies
  PROVE  /\ SendPkg(p, b) \in Seq(Ops) /\ Work(SendPkg(p, b), b)
         /\ Lacks(SendPkg(p, b), "cache") /\ Lacks(SendPkg(p, b), "clear")
         /\ Good(SendPkg(p, b), b) /\ \A x : ~ Frees(SendPkg(p, b), x)
<1>1. PICK n \in Nat : n = Len(Chunks) /\ DOMAIN Chunks = 1 .. n
  BY ChunksAre
<1>2. p \in Conns
  BY ConnsFinite
<1>3. PICK j : j = SendPkg(p, b)
  OBVIOUS
<1>4. DOMAIN j = 1 .. n /\ \A i \in 1 .. n : j[i] = Op("send", p, b, i)
  BY <1>1, <1>3 DEF SendPkg
<1>5. \A i \in 1 .. n : j[i] \in Ops
  BY <1>1, <1>2, <1>4, OpType, ChunksAre
<1>6. j \in Seq(Ops)
  <2>1. j = [i \in 1 .. n |-> j[i]]
    BY <1>1, <1>3 DEF SendPkg
  <2> QED BY <1>5, <2>1
<1>7. \A i \in DOMAIN j : j[i].op = "send" /\ j[i].body = b /\ j[i].to = p /\ j[i].i = i
  BY <1>4 DEF Op
<1>8. Work(j, b)
  BY <1>1, <1>4, <1>7 DEF Work, IsWork
<1>9. Lacks(j, "cache") /\ Lacks(j, "clear") /\ \A x : ~ Frees(j, x)
  BY <1>7 DEF Lacks, Frees
<1>10. Good(j, b)
  BY <1>7, <1>8 DEF Good, GoodAt, Backed, Work
<1> QED BY <1>3, <1>6, <1>8, <1>9, <1>10

\* One step for each player.
LEMMA EachPlayerWork ==
  ASSUME NEW ps \in SUBSET Players, NEW op \in {"relay", "notice"}, NEW b \in Bodies,
         NEW w, w = [i \in DOMAIN SetToSeq(ps) |-> Op(op, SetToSeq(ps)[i], b, 0)]
  PROVE  w \in Seq(Ops) /\ Work(w, b) /\ Lacks(w, "cache") /\ Lacks(w, "clear")
<1>1. IsFiniteSet(ps)
  BY DeliveryAssumption, FS_Subset
<1>2. PICK s \in Seq(Players) : s = SetToSeq(ps)
  <2>1. SetToSeq(ps) \in Seq(ps)
    BY <1>1, SetToSeqType
  <2>2. PICK n \in Nat : DOMAIN SetToSeq(ps) = 1 .. n
    BY <2>1, LenProperties
  <2>3. PICK t \in Seq(ps) : t = SetToSeq(ps)
    BY <2>1
  <2>4. t \in Seq(Players)
    BY <2>3
  <2> QED BY <2>3, <2>4
<1>3. PICK n \in Nat : DOMAIN s = 1 .. n /\ \A i \in 1 .. n : s[i] \in Players
  BY <1>2, LenProperties, ElementOfSeq
<1>4. DOMAIN w = 1 .. n /\ \A i \in 1 .. n : w[i] = Op(op, s[i], b, 0)
  BY <1>2, <1>3
<1>5. \A i \in 1 .. n : w[i] \in Ops
  BY <1>3, <1>4, OpType, ChunksAre, ConnsFinite
<1>6. w \in Seq(Ops)
  <2>1. w = [i \in 1 .. n |-> w[i]]
    BY <1>2, <1>3
  <2> QED BY <1>5, <2>1
<1>7. \A i \in DOMAIN w : w[i].op = op /\ w[i].body = b /\ w[i].to \in Players
  BY <1>3, <1>4 DEF Op
<1> QED BY <1>6, <1>7 DEF Work, IsWork, Lacks

LEMMA HeaderWork ==
  ASSUME NEW c \in Conns, NEW b \in Bodies, NEW w, w \in {<<>>, <<Op("cache", c, b, 0)>>}
  PROVE  w \in Seq(Ops) /\ Work(w, b)
<1>1. PICK o \in Ops : o = Op("cache", c, b, 0)
  BY OpType, ChunksAre
<1>2. o.op = "cache" /\ o.body = b
  BY <1>1 DEF Op
<1>3. CASE w = <<>>
  BY <1>3 DEF Work
<1>4. CASE w = <<o>>
  BY <1>2, <1>4 DEF Work, IsWork
<1> QED BY <1>1, <1>3, <1>4

-----------------------------------------------------------------------------
(* How often a body is in the queues, and how that changes.                *)

Queued(b) == Cardinality(Places(dealq, b))
Unsent(b) == Cardinality(Places(Caches, b))

Marked == Bodies \cup {"STOP"}
Cached == Bodies \cup {NoBody}

LEMMA CachesType ==
  ASSUME sendq \in [Players -> Seq(Message)]
  PROVE  /\ Caches = [p \in Players |-> CachesOf(sendq[p])]
         /\ Caches \in [Players -> Seq(Cached)]
<1>1. Caches = [p \in Players |-> CachesOf(sendq[p])]
  BY DEF Caches, CachesOf
<1>2. \A p \in Players : CachesOf(sendq[p]) \in Seq(Cached)
  BY CachesOfIs DEF Cached
<1> QED BY <1>1, <1>2

LEMMA CountsAre ==
  ASSUME TypeOK, NEW b
  PROVE  Queued(b) \in Nat /\ Unsent(b) \in Nat
<1>1. dealq \in [Conns -> Seq(Marked)] /\ Caches \in [Players -> Seq(Cached)]
  BY CachesType DEF TypeOK, Marked
<1>2. IsFiniteSet(Conns) /\ IsFiniteSet(Players)
  BY ConnsFinite, DeliveryAssumption
<1>3. Queued(b) \in Nat
  BY <1>1, <1>2, PlacesFinite DEF Queued
<1>4. Unsent(b) \in Nat
  BY <1>1, <1>2, PlacesFinite DEF Unsent
<1> QED BY <1>3, <1>4

LEMMA QueueGrows ==
  ASSUME TypeOK, NEW c \in Conns, NEW x \in Marked,
         dealq' = [dealq EXCEPT ![c] = Append(dealq[c], x)]
  PROVE  dealq' \in [Conns -> Seq(Marked)] /\ \A b : Queued(b)' = Queued(b) + One(x = b)
<1>1. dealq \in [Conns -> Seq(Marked)] /\ IsFiniteSet(Conns)
  BY ConnsFinite DEF TypeOK, Marked
<1>2. Append(dealq[c], x) \in Seq(Marked)
  BY <1>1
<1>3. dealq' \in [Conns -> Seq(Marked)]
  BY <1>1, <1>2
<1>4. ASSUME NEW b PROVE Queued(b)' = Queued(b) + One(x = b)
  <2>1. Longer(dealq', dealq, c, x)
    BY DEF Longer
  <2>2. Cardinality(Places(dealq', b)) = Cardinality(Places(dealq, b)) + One(x = b)
    BY <1>1, <2>1, PlacesAppend
  <2> QED BY <2>2 DEF Queued
<1> QED BY <1>3, <1>4

LEMMA QueueShrinks ==
  ASSUME TypeOK, NEW c \in Conns, dealq[c] # <<>>,
         dealq' = [dealq EXCEPT ![c] = Tail(dealq[c])]
  PROVE  /\ dealq' \in [Conns -> Seq(Marked)] /\ Head(dealq[c]) \in Marked
         /\ \A b : Queued(b)' = Queued(b) - One(Head(dealq[c]) = b)
<1>1. dealq \in [Conns -> Seq(Marked)] /\ IsFiniteSet(Conns)
  BY ConnsFinite DEF TypeOK, Marked
<1>2. Tail(dealq[c]) \in Seq(Marked) /\ Head(dealq[c]) \in Marked
  <2>1. PICK s \in Seq(Marked) : s = dealq[c]
    BY <1>1
  <2>2. Tail(s) \in Seq(Marked) /\ Head(s) \in Marked
    BY <2>1
  <2> QED BY <2>1, <2>2
<1>3. dealq' \in [Conns -> Seq(Marked)]
  BY <1>1, <1>2
<1>4. ASSUME NEW b PROVE Queued(b)' = Queued(b) - One(Head(dealq[c]) = b)
  <2>1. Shorter(dealq', dealq, c)
    BY DEF Shorter
  <2>2. Cardinality(Places(dealq', b))
          = Cardinality(Places(dealq, b)) - One(Head(dealq[c]) = b)
    BY <1>1, <2>1, PlacesTail
  <2> QED BY <2>2 DEF Queued
<1> QED BY <1>2, <1>3, <1>4

LEMMA CachesNext ==
  ASSUME sendq \in [Players -> Seq(Message)], NEW p \in Players, NEW s \in Seq(Message),
         sendq' = [sendq EXCEPT ![p] = s]
  PROVE  /\ sendq' \in [Players -> Seq(Message)]
         /\ Caches' = [Caches EXCEPT ![p] = CachesOf(s)]
<1>1. sendq' \in [Players -> Seq(Message)]
  OBVIOUS
<1>2. Caches = [q \in Players |-> CachesOf(sendq[q])]
  BY DEF Caches, CachesOf
<1>3. Caches' = [q \in Players |-> CachesOf(sendq'[q])]
  BY DEF Caches, CachesOf
<1>4. \A q \in Players : sendq'[q] = IF q = p THEN s ELSE sendq[q]
  OBVIOUS
<1>5. [q \in Players |-> CachesOf(sendq'[q])] = [Caches EXCEPT ![p] = CachesOf(s)]
  BY <1>2, <1>4
<1> QED BY <1>1, <1>3, <1>5

LEMMA SendGrows ==
  ASSUME TypeOK, NEW p \in Players, NEW m \in Message,
         sendq' = [sendq EXCEPT ![p] = Append(sendq[p], m)]
  PROVE  /\ sendq' \in [Players -> Seq(Message)]
         /\ \A b : Unsent(b)' = Unsent(b) + One(m.cache = b)
<1>1. /\ sendq \in [Players -> Seq(Message)] /\ IsFiniteSet(Players)
      /\ sendq[p] \in Seq(Message) /\ Append(sendq[p], m) \in Seq(Message)
  BY DeliveryAssumption DEF TypeOK
<1>2. sendq' \in [Players -> Seq(Message)]
      /\ Caches' = [Caches EXCEPT ![p] = CachesOf(Append(sendq[p], m))]
  BY <1>1, CachesNext
<1>3. Caches = [q \in Players |-> CachesOf(sendq[q])] /\ Caches \in [Players -> Seq(Cached)]
  BY <1>1, CachesType
<1>4. CachesOf(Append(sendq[p], m)) = Append(CachesOf(sendq[p]), m.cache)
  BY <1>1, CachesOfAppend
<1>5. m.cache \in Cached
  BY DEF Message, Cached
<1>6. Caches' = [Caches EXCEPT ![p] = Append(Caches[p], m.cache)]
  <2>1. Caches[p] = CachesOf(sendq[p])
    BY <1>3
  <2> QED BY <1>2, <1>4, <2>1
<1>7. ASSUME NEW b PROVE Unsent(b)' = Unsent(b) + One(m.cache = b)
  <2>1. Longer(Caches', Caches, p, m.cache)
    BY <1>6 DEF Longer
  <2>2. Cardinality(Places(Caches', b)) = Cardinality(Places(Caches, b)) + One(m.cache = b)
    BY <1>1, <1>3, <1>5, <2>1, PlacesAppend
  <2> QED BY <2>2 DEF Unsent
<1> QED BY <1>2, <1>7

LEMMA SendShrinks ==
  ASSUME TypeOK, NEW p \in Players, sendq[p] # <<>>,
         sendq' = [sendq EXCEPT ![p] = Tail(sendq[p])]
  PROVE  /\ sendq' \in [Players -> Seq(Message)] /\ Head(sendq[p]).cache \in Cached
         /\ \A b : Unsent(b)' = Unsent(b) - One(Head(sendq[p]).cache = b)
<1>1. /\ sendq \in [Players -> Seq(Message)] /\ IsFiniteSet(Players)
      /\ sendq[p] \in Seq(Message)
  BY DeliveryAssumption DEF TypeOK
<1>2. Tail(sendq[p]) \in Seq(Message) /\ Head(sendq[p]) \in Message
  BY <1>1, RestHead
<1>3. sendq' \in [Players -> Seq(Message)]
      /\ Caches' = [Caches EXCEPT ![p] = CachesOf(Tail(sendq[p]))]
  BY <1>1, <1>2, CachesNext
<1>4. Caches = [q \in Players |-> CachesOf(sendq[q])] /\ Caches \in [Players -> Seq(Cached)]
  BY <1>1, CachesType
<1>5. Caches[p] = CachesOf(sendq[p])
  BY <1>4
<1>6. Caches[p] # <<>> /\ Head(Caches[p]) = Head(sendq[p]).cache
      /\ CachesOf(Tail(sendq[p])) = Tail(Caches[p])
  BY <1>1, <1>5, CachesOfTail
<1>7. Caches' = [Caches EXCEPT ![p] = Tail(Caches[p])]
  BY <1>3, <1>6
<1>8. ASSUME NEW b PROVE Unsent(b)' = Unsent(b) - One(Head(Caches[p]) = b)
  <2>1. Shorter(Caches', Caches, p)
    BY <1>7 DEF Shorter
  <2>2. Cardinality(Places(Caches', b))
          = Cardinality(Places(Caches, b)) - One(Head(Caches[p]) = b)
    <3>1. Caches \in [Players -> Seq(Cached)] /\ Caches[p] # <<>> /\ IsFiniteSet(Players)
      BY <1>1, <1>4, <1>6
    <3> QED BY <2>1, <3>1, PlacesTail
  <2> QED BY <2>2 DEF Unsent
<1>9. Head(sendq[p]).cache \in Cached
  BY <1>2 DEF Message, Cached
<1> QED BY <1>3, <1>6, <1>8, <1>9

LEMMA SendKeeps ==
  ASSUME TypeOK, NEW p \in Players, sendq[p] # <<>>,
         NEW m \in Message, m.cache = Head(sendq[p]).cache,
         sendq' = [sendq EXCEPT ![p] = <<m>> \o Tail(sendq[p])]
  PROVE  sendq' \in [Players -> Seq(Message)] /\ \A b : Unsent(b)' = Unsent(b)
<1>1. /\ sendq \in [Players -> Seq(Message)] /\ sendq[p] \in Seq(Message)
  BY DEF TypeOK
<1>2. <<m>> \o Tail(sendq[p]) \in Seq(Message)
  <2>1. PICK t \in Seq(Message) : t = Tail(sendq[p])
    BY <1>1, RestHead
  <2>2. <<m>> \o t \in Seq(Message)
    BY <2>1
  <2> QED BY <2>1, <2>2
<1>3. sendq' \in [Players -> Seq(Message)]
      /\ Caches' = [Caches EXCEPT ![p] = CachesOf(<<m>> \o Tail(sendq[p]))]
  BY <1>1, <1>2, CachesNext
<1>4. Caches = [q \in Players |-> CachesOf(sendq[q])]
  BY <1>1, CachesType
<1>5. CachesOf(<<m>> \o Tail(sendq[p])) = CachesOf(sendq[p])
  BY <1>1, CachesOfRemains
<1>6. Caches' = Caches
  BY <1>3, <1>4, <1>5
<1> QED BY <1>3, <1>6 DEF Unsent

LEMMA QueuesKept ==
  /\ UNCHANGED dealq => \A b : Queued(b)' = Queued(b)
  /\ UNCHANGED sendq => \A b : Unsent(b)' = Unsent(b)
BY DEF Queued, Unsent, Caches

-----------------------------------------------------------------------------
(* The inductive invariant of types, jobs and counts.                      *)

JobInv == Good(job, avc)

Inv == TypeOK /\ JobInv /\ RefsCountHolders

LEMMA HoldersAre ==
  ASSUME TypeOK, NEW b \in Bodies
  PROVE  /\ Queued(b) \in Nat /\ Unsent(b) \in Nat /\ Holders(b) \in Nat
         /\ Holders(b) = Queued(b) + Unsent(b) + (IF b \in partial THEN 1 ELSE 0)
              + (IF b = complete THEN 1 ELSE 0) + (IF b = avc THEN 1 ELSE 0)
              + (IF Frees(job, b) THEN 1 ELSE 0)
<1>1. Queued(b) \in Nat /\ Unsent(b) \in Nat
  BY CountsAre
<1>2. Holders(b) = Queued(b) + Unsent(b) + (IF b \in partial THEN 1 ELSE 0)
        + (IF b = complete THEN 1 ELSE 0) + (IF b = avc THEN 1 ELSE 0)
        + (IF Frees(job, b) THEN 1 ELSE 0)
  BY DEF Holders, Queued, Unsent, One, Handling, Frees
<1> QED BY <1>1, <1>2

LEMMA HoldersNext ==
  ASSUME NEW b
  PROVE  Holders(b)' = Queued(b)' + Unsent(b)' + (IF b \in partial' THEN 1 ELSE 0)
              + (IF b = complete' THEN 1 ELSE 0) + (IF b = avc' THEN 1 ELSE 0)
              + (IF Frees(job', b) THEN 1 ELSE 0)
BY DEF Holders, Queued, Unsent, One, Handling, Frees

\* A step gives one more reference to x, or takes one away.
Gains(x) == \A b \in Bodies : Holders(b)' = Holders(b) + (IF b = x THEN 1 ELSE 0)
Loses(x) == \A b \in Bodies : Holders(b)' = Holders(b) - (IF b = x THEN 1 ELSE 0)
Keeps    == \A b \in Bodies : Holders(b)' = Holders(b)

LEMMA RefsGain ==
  ASSUME TypeOK, RefsCountHolders, NEW x \in Bodies, x \notin freed, Ref(x), Gains(x)
  PROVE  RefsCountHolders' /\ ref' \in [Bodies -> Nat] /\ freed' \subseteq Bodies
<1>1. /\ ref \in [Bodies -> Nat] /\ freed \subseteq Bodies /\ freed' = freed
      /\ ref' = [ref EXCEPT ![x] = ref[x] + 1]
  BY DEF TypeOK, Ref
<1>2. ASSUME NEW b \in Bodies
      PROVE  ref'[b] = Holders(b)' /\ (b \in freed' => Holders(b)' = 0)
  <2>1. /\ ref[b] = Holders(b) /\ (b \in freed => Holders(b) = 0)
        /\ Holders(b)' = Holders(b) + (IF b = x THEN 1 ELSE 0)
        /\ Holders(b) \in Nat
    BY HoldersAre DEF RefsCountHolders, Gains
  <2>2. ref'[b] = ref[b] + (IF b = x THEN 1 ELSE 0)
    BY <1>1, <2>1
  <2>3. b \in freed' => b \in freed /\ b # x
    BY <1>1
  <2> QED BY <2>1, <2>2, <2>3
<1>3. RefsCountHolders'
  BY <1>2 DEF RefsCountHolders
<1> QED BY <1>1, <1>3

LEMMA RefsLose ==
  ASSUME TypeOK, RefsCountHolders, NEW x \in Bodies, Holders(x) # 0, Del(x), Loses(x)
  PROVE  RefsCountHolders' /\ ref' \in [Bodies -> Nat] /\ freed' \subseteq Bodies
<1>1. /\ ref \in [Bodies -> Nat] /\ freed \subseteq Bodies
      /\ freed' = IF ref[x] - 1 > 0 THEN freed ELSE freed \cup {x}
      /\ ref' = [ref EXCEPT ![x] = ref[x] - 1]
  BY DEF TypeOK, Del
<1>2. ref[x] = Holders(x) /\ Holders(x) \in Nat
  BY HoldersAre DEF RefsCountHolders
<1>3. ASSUME NEW b \in Bodies
      PROVE  ref'[b] = Holders(b)' /\ (b \in freed' => Holders(b)' = 0)
  <2>1. /\ ref[b] = Holders(b) /\ (b \in freed => Holders(b) = 0)
        /\ Holders(b)' = Holders(b) - (IF b = x THEN 1 ELSE 0)
        /\ Holders(b) \in Nat
    BY HoldersAre DEF RefsCountHolders, Loses
  <2>2. ref'[b] = ref[b] - (IF b = x THEN 1 ELSE 0)
    BY <1>1, <2>1
  <2>3. CASE b = x
    <3>1. Holders(b)' = ref[b] - 1 /\ ref[b] - 1 \in Nat
      BY <1>2, <2>1, <2>3
    <3>2. b \in freed' => ~ (ref[b] - 1 > 0)
      BY <1>1, <1>2, <2>1, <2>3
    <3>3. ref'[b] = Holders(b)'
      BY <2>2, <2>3, <3>1
    <3>4. ASSUME b \in freed' PROVE ref[b] - 1 = 0
      <4>1. ~ (ref[b] - 1 > 0)
        BY <3>2, <3>4
      <4>2. ref[b] \in Nat
        BY <1>1
      <4> QED BY <3>1, <4>1, <4>2
    <3> QED BY <3>1, <3>3, <3>4
  <2>4. CASE b # x
    <3>1. b \in freed' => b \in freed
      BY <1>1, <2>4
    <3> QED BY <2>1, <2>2, <2>4, <3>1
  <2> QED BY <2>3, <2>4
<1>4. RefsCountHolders'
  BY <1>3 DEF RefsCountHolders
<1>5. ref' \in [Bodies -> Nat]
  <2>1. ref[x] - 1 \in Nat
    BY <1>2
  <2> QED BY <1>1, <2>1
<1> QED BY <1>1, <1>4, <1>5

LEMMA RefsKeep ==
  ASSUME TypeOK, RefsCountHolders, UNCHANGED memory, Keeps
  PROVE  RefsCountHolders' /\ ref' \in [Bodies -> Nat] /\ freed' \subseteq Bodies
BY DEF TypeOK, RefsCountHolders, memory, Keeps

-----------------------------------------------------------------------------
(* The receiver.                                                           *)

LEMMA BeginInv ==
  ASSUME Inv, NEW x \in Bodies, Begin(x)
  PROVE  Inv'
<1>1. /\ TypeOK /\ JobInv /\ RefsCountHolders /\ Unused(x) /\ Ref(x)
      /\ partial' = partial \cup {x}
      /\ UNCHANGED <<complete, stream, dealq, job, owed, ends, output>>
  BY DEF Inv, Begin
<1>2. Holders(x) = 0 /\ x \notin freed
  BY <1>1 DEF Unused, RefsCountHolders
<1>3. x \notin partial
  BY <1>1, <1>2, HoldersAre
<1>4. Gains(x)
  <2>1. SUFFICES ASSUME NEW b \in Bodies
        PROVE  Holders(b)' = Holders(b) + (IF b = x THEN 1 ELSE 0)
    BY DEF Gains
  <2>2. Queued(b)' = Queued(b) /\ Unsent(b)' = Unsent(b)
    BY <1>1, QueuesKept DEF output
  <2>3. b \in partial' <=> b \in partial \/ b = x
    BY <1>1
  <2>4. complete' = complete /\ avc' = avc /\ job' = job
    BY <1>1 DEF stream
  <2> QED BY <1>1, <1>3, <2>2, <2>3, <2>4, HoldersAre, HoldersNext
<1>5. RefsCountHolders' /\ ref' \in [Bodies -> Nat] /\ freed' \subseteq Bodies
  BY <1>1, <1>2, <1>4, RefsGain
<1>6. TypeOK'
  BY <1>1, <1>5 DEF TypeOK, stream, ends, output
<1>7. JobInv'
  BY <1>1 DEF JobInv, stream
<1> QED BY <1>5, <1>6, <1>7 DEF Inv

LEMMA RecvInv ==
  ASSUME Inv, NEW x \in Bodies, Recv(x)
  PROVE  Inv'
<1>1. /\ TypeOK /\ JobInv /\ RefsCountHolders /\ Ref(x)
      /\ x \in partial /\ complete = NoBody
      /\ partial' = partial \ {x} /\ complete' = x
      /\ dealq' = [dealq EXCEPT ![Pub] = Append(dealq[Pub], x)]
      /\ UNCHANGED <<stream, job, owed, ends, output>>
  BY DEF Inv, Recv
<1>2. dealq' \in [Conns -> Seq(Marked)] /\ \A b : Queued(b)' = Queued(b) + One(x = b)
  <2>1. Pub \in Conns /\ x \in Marked
    BY ConnsFinite DEF Marked
  <2> QED BY <1>1, <2>1, QueueGrows
<1>3. x \notin freed
  <2>1. TypeOK /\ x \in partial
    BY <1>1
  <2>2. Holders(x) # 0
    BY <2>1, HoldersAre
  <2> QED BY <1>1, <2>2 DEF RefsCountHolders
<1>4. Gains(x)
  <2>1. SUFFICES ASSUME NEW b \in Bodies
        PROVE  Holders(b)' = Holders(b) + (IF b = x THEN 1 ELSE 0)
    BY DEF Gains
  <2>2. Queued(b)' = Queued(b) + (IF b = x THEN 1 ELSE 0) /\ Unsent(b)' = Unsent(b)
    BY <1>1, <1>2, QueuesKept DEF output, One
  <2>3. /\ b \in partial' <=> b \in partial /\ b # x
        /\ b = complete' <=> b = x
        /\ b # complete
    BY <1>1, DeliveryAssumption
  <2>4. avc' = avc /\ job' = job
    BY <1>1 DEF stream
  <2> QED BY <1>1, <2>2, <2>3, <2>4, HoldersAre, HoldersNext
<1>5. RefsCountHolders' /\ ref' \in [Bodies -> Nat] /\ freed' \subseteq Bodies
  BY <1>1, <1>3, <1>4, RefsGain
<1>6. TypeOK'
  BY <1>1, <1>2, <1>5 DEF TypeOK, stream, ends, output, Marked
<1>7. JobInv'
  BY <1>1 DEF JobInv, stream
<1> QED BY <1>5, <1>6, <1>7 DEF Inv

LEMMA RecvCtrlInv ==
  ASSUME Inv, NEW x \in Bodies, RecvCtrl(x)
  PROVE  Inv'
<1>1. /\ TypeOK /\ JobInv /\ RefsCountHolders /\ UNCHANGED memory
      /\ x \in partial /\ complete = NoBody
      /\ partial' = partial \ {x} /\ complete' = x
      /\ UNCHANGED <<stream, dealq, job, owed, ends, output>>
  BY DEF Inv, RecvCtrl
<1>2. Keeps
  <2>1. SUFFICES ASSUME NEW b \in Bodies
        PROVE  Holders(b)' = Holders(b)
    BY DEF Keeps
  <2>2. Queued(b)' = Queued(b) /\ Unsent(b)' = Unsent(b)
    BY <1>1, QueuesKept DEF output
  <2>3. /\ b \in partial' <=> b \in partial /\ b # x
        /\ b = complete' <=> b = x
        /\ b # complete
    BY <1>1, DeliveryAssumption
  <2>4. avc' = avc /\ job' = job
    BY <1>1 DEF stream
  <2> QED BY <1>1, <2>2, <2>3, <2>4, HoldersAre, HoldersNext
<1>3. RefsCountHolders' /\ ref' \in [Bodies -> Nat] /\ freed' \subseteq Bodies
  BY <1>1, <1>2, RefsKeep
<1>4. TypeOK'
  BY <1>1, <1>3 DEF TypeOK, stream, ends, output
<1>5. JobInv'
  BY <1>1 DEF JobInv, stream
<1> QED BY <1>3, <1>4, <1>5 DEF Inv

LEMMA ResetChnPkgInv ==
  ASSUME Inv, ResetChnPkg
  PROVE  Inv'
<1>1. /\ TypeOK /\ JobInv /\ RefsCountHolders
      /\ complete # NoBody /\ Del(complete) /\ complete' = NoBody
      /\ UNCHANGED <<partial, stream, dealq, job, owed, ends, output>>
  BY DEF Inv, ResetChnPkg
<1>2. PICK x \in Bodies : x = complete
  BY <1>1 DEF TypeOK
<1>3. Holders(x) # 0
  BY <1>1, <1>2, HoldersAre
<1>4. Loses(x)
  <2>1. SUFFICES ASSUME NEW b \in Bodies
        PROVE  Holders(b)' = Holders(b) - (IF b = x THEN 1 ELSE 0)
    BY DEF Loses
  <2>2. Queued(b)' = Queued(b) /\ Unsent(b)' = Unsent(b)
    BY <1>1, QueuesKept DEF output
  <2>3. b # complete'
    BY <1>1, DeliveryAssumption
  <2>4. partial' = partial /\ avc' = avc /\ job' = job
    BY <1>1 DEF stream
  <2> QED BY <1>1, <1>2, <2>2, <2>3, <2>4, HoldersAre, HoldersNext
<1>5. RefsCountHolders' /\ ref' \in [Bodies -> Nat] /\ freed' \subseteq Bodies
  BY <1>1, <1>2, <1>3, <1>4, RefsLose
<1>6. TypeOK'
  BY <1>1, <1>5 DEF TypeOK, stream, ends, output
<1>7. JobInv'
  BY <1>1 DEF JobInv, stream
<1> QED BY <1>5, <1>6, <1>7 DEF Inv

-----------------------------------------------------------------------------
(* The dealer takes up a message.                                          *)

\* The job j ends in freeing b, and nothing else.
Handles(j, a, b) == j \in Seq(Ops) /\ Good(j, a) /\ \A x : Frees(j, x) <=> x = b

LEMMA HandlesMore ==
  ASSUME NEW w \in Seq(Ops), NEW j, NEW a, NEW b,
         Work(w, b), Handles(j, a, b), Lacks(w, "cache") \/ Lacks(j, "clear")
  PROVE  /\ Handles(w \o j, a, b)
         /\ Lacks(j, "clear") => Lacks(w \o j, "clear")
<1>1. j \in Seq(Ops) /\ Good(j, a) /\ Frees(j, b)
  BY DEF Handles
<1>2. /\ Good(w \o j, a) /\ w \o j \in Seq(Ops)
      /\ \A x : Frees(w \o j, x) <=> Frees(j, x)
      /\ Lacks(j, "clear") => Lacks(w \o j, "clear")
  BY <1>1, GoodPrepend
<1> QED BY <1>2 DEF Handles

LEMMA HandlesFree ==
  ASSUME NEW c \in Conns, NEW b \in Bodies, NEW a
  PROVE  Handles(Free(c, b), a, b) /\ Lacks(Free(c, b), "clear")
BY FreeGood DEF Handles

LEMMA HandlesPublish ==
  ASSUME playing \subseteq Players, NEW c \in Conns, NEW b \in Bodies, NEW a,
         NEW header \in {<<>>, <<Op("cache", c, b, 0)>>}
  PROVE  Handles(header \o (Relays(b) \o Free(c, b)), a, b)
<1>1. Handles(Free(c, b), a, b) /\ Lacks(Free(c, b), "clear")
  BY HandlesFree
<1>2. Relays(b) \in Seq(Ops) /\ Work(Relays(b), b)
  BY EachPlayerWork DEF Relays
<1>3. /\ Handles(Relays(b) \o Free(c, b), a, b)
      /\ Lacks(Relays(b) \o Free(c, b), "clear")
  BY <1>1, <1>2, HandlesMore
<1>4. header \in Seq(Ops) /\ Work(header, b)
  BY HeaderWork
<1> QED BY <1>3, <1>4, HandlesMore

LEMMA HandlesPlay ==
  ASSUME NEW p \in Players, NEW b \in Bodies, NEW a, NEW out \in {<<>>, SendPkg(p, b)}
  PROVE  Handles(out \o Free(p, b), a, b)
<1>1. Handles(Free(p, b), a, b) /\ Lacks(Free(p, b), "clear")
  BY HandlesFree, ConnsFinite
<1>2. out \in Seq(Ops) /\ Work(out, b)
  <2>1. CASE out = <<>>
    BY <2>1 DEF Work
  <2>2. CASE out = SendPkg(p, b)
    BY <2>2, SendPkgWork
  <2> QED BY <2>1, <2>2
<1> QED BY <1>1, <1>2, HandlesMore

LEMMA HandlesUnpublish ==
  ASSUME playing \subseteq Players, NEW c \in Conns, NEW b \in Bodies,
         NEW a \in Bodies \cup {NoBody}, NEW w,
         w = [i \in DOMAIN SetToSeq(playing) |-> Op("notice", SetToSeq(playing)[i], b, 0)]
  PROVE  Handles(w \o (Free(c, b) \o (IF a = NoBody THEN <<>> ELSE <<Op("clear", c, a, 0)>>)),
                 a, b)
<1> DEFINE j == Free(c, b) \o (IF a = NoBody THEN <<>> ELSE <<Op("clear", c, a, 0)>>)
<1>1. w \in Seq(Ops) /\ Work(w, b) /\ Lacks(w, "cache")
  BY EachPlayerWork
<1>2. Handles(j, a, b)
  <2>1. CASE a = NoBody
    <3>1. Handles(Free(c, b), a, b) /\ Free(c, b) \in Seq(Ops)
      BY HandlesFree, FreeGood
    <3>2. Free(c, b) \o <<>> = Free(c, b)
      BY <3>1, ConcatEmptySeq
    <3> QED BY <2>1, <3>1, <3>2
  <2>2. CASE a # NoBody
    BY <2>2, FreeClearGood DEF Handles
  <2> QED BY <2>1, <2>2
<1> HIDE DEF j
<1>3. Handles(w \o j, a, b)
  BY <1>1, <1>2, HandlesMore
<1> QED BY <1>3 DEF j

LEMMA DealInv ==
  ASSUME Inv, NEW c \in Conns, Deal(c)
  PROVE  Inv'
<1>1. /\ TypeOK /\ JobInv /\ RefsCountHolders /\ job = <<>>
      /\ dealq[c] # <<>> /\ Head(dealq[c]) # "STOP"
      /\ dealq' = [dealq EXCEPT ![c] = Tail(dealq[c])]
      /\ UNCHANGED <<memory, input, stream, owed, closed, gone, output>>
  BY DEF Inv, Deal, Idle
<1>2. /\ dealq' \in [Conns -> Seq(Marked)] /\ Head(dealq[c]) \in Marked
      /\ \A b : Queued(b)' = Queued(b) - One(Head(dealq[c]) = b)
  BY <1>1, QueueShrinks
<1>3. PICK x \in Bodies : x = Head(dealq[c])
  BY <1>1, <1>2 DEF Marked
<1>4. Handles(job', avc, x) /\ (stopDeal' = stopDeal \/ stopDeal' = stopDeal \cup {c})
  <2>1. playing \subseteq Players
    BY <1>1 DEF TypeOK
  <2>2. CASE c \in stopDeal
    <3>1. job' = Free(c, x) /\ stopDeal' = stopDeal
      BY <1>3, <2>2 DEF Deal
    <3> QED BY <3>1, HandlesFree
  <2>3. CASE c \notin stopDeal /\ c = Pub /\ Publish(c, x) /\ UNCHANGED stopDeal
    BY <2>1, <2>3, HandlesPublish DEF Publish
  <2>4. CASE c \notin stopDeal /\ c \in playing /\ Play(c, x) /\ UNCHANGED stopDeal
    BY <2>1, <2>4, HandlesPlay DEF Play
  <2>5. CASE c \notin stopDeal /\ job' = Free(c, x) /\ stopDeal' = stopDeal \cup {c}
    BY <2>5, HandlesFree
  <2> QED BY <1>3, <2>2, <2>3, <2>4, <2>5 DEF Deal
<1>5. Keeps
  <2>1. SUFFICES ASSUME NEW b \in Bodies PROVE Holders(b)' = Holders(b)
    BY DEF Keeps
  <2>2. Queued(b)' = Queued(b) - (IF b = x THEN 1 ELSE 0) /\ Unsent(b)' = Unsent(b)
    BY <1>1, <1>2, <1>3, QueuesKept DEF output, One
  <2>3. ~ Frees(job, b) /\ (Frees(job', b) <=> b = x)
    <3>1. ~ Frees(job, b)
      BY <1>1 DEF Frees
    <3>2. Frees(job', b) <=> b = x
      BY <1>4 DEF Handles
    <3> QED BY <3>1, <3>2
  <2>4. partial' = partial /\ complete' = complete /\ avc' = avc
    BY <1>1 DEF input, stream
  <2>5. TypeOK
    BY <1>1
  <2> QED BY <2>2, <2>3, <2>4, <2>5, HoldersAre, HoldersNext
<1>6. RefsCountHolders' /\ ref' \in [Bodies -> Nat] /\ freed' \subseteq Bodies
  BY <1>1, <1>5, RefsKeep
<1>7. TypeOK'
  BY <1>1, <1>2, <1>4, <1>6 DEF TypeOK, memory, input, stream, output, Marked, Handles
<1>8. JobInv'
  BY <1>1, <1>4 DEF JobInv, stream, Handles
<1> QED BY <1>6, <1>7, <1>8 DEF Inv

LEMMA UnpublishInv ==
  ASSUME Inv, NEW c \in Conns, NEW x \in Bodies, Unpublish(c, x)
  PROVE  Inv'
<1>1. /\ TypeOK /\ JobInv /\ RefsCountHolders /\ job = <<>>
      /\ Unused(x) /\ Ref(x)
      /\ UNCHANGED <<input, stream, dealq, owed, ends, output>>
  BY DEF Inv, Unpublish, Idle
<1>2. Handles(job', avc, x)
  <2>1. playing \subseteq Players /\ avc \in Bodies \cup {NoBody}
    BY <1>1 DEF TypeOK
  <2> QED BY <2>1, HandlesUnpublish DEF Unpublish
<1>3. Gains(x)
  <2>1. SUFFICES ASSUME NEW b \in Bodies
        PROVE  Holders(b)' = Holders(b) + (IF b = x THEN 1 ELSE 0)
    BY DEF Gains
  <2>2. Queued(b)' = Queued(b) /\ Unsent(b)' = Unsent(b)
    BY <1>1, QueuesKept DEF output
  <2>3. ~ Frees(job, b) /\ (Frees(job', b) <=> b = x)
    <3>1. ~ Frees(job, b)
      BY <1>1 DEF Frees
    <3>2. Frees(job', b) <=> b = x
      BY <1>2 DEF Handles
    <3> QED BY <3>1, <3>2
  <2>4. partial' = partial /\ complete' = complete /\ avc' = avc
    BY <1>1 DEF input, stream
  <2>5. TypeOK
    BY <1>1
  <2> QED BY <2>2, <2>3, <2>4, <2>5, HoldersAre, HoldersNext
<1>4. RefsCountHolders' /\ ref' \in [Bodies -> Nat] /\ freed' \subseteq Bodies
  BY <1>1, <1>3, RefsGain DEF Unused
<1>5. TypeOK'
  BY <1>1, <1>2, <1>4 DEF TypeOK, input, stream, ends, output, Handles
<1>6. JobInv'
  BY <1>1, <1>2 DEF JobInv, stream, Handles
<1> QED BY <1>4, <1>5, <1>6 DEF Inv

-----------------------------------------------------------------------------
(* The dealer goes on with a job.                                          *)

LEMMA GoodOther ==
  ASSUME NEW j, NEW a, NEW b, NEW x, Good(j, a), Lacks(j, "clear"), Frees(j, x)
  PROVE  Good(j, b)
<1>1. SUFFICES ASSUME NEW i \in DOMAIN j PROVE GoodAt(j, b, i)
  BY DEF Good
<1>2. GoodAt(j, a, i)
  BY DEF Good
<1>3. j[i].op # "clear"
  BY DEF Lacks
<1>4. ~ \A k \in DOMAIN j : j[k].op = "send"
  BY DEF Frees
<1>5. Backed(j, a, i) => Backed(j, b, i)
  BY <1>4 DEF Backed
<1> QED BY <1>2, <1>3, <1>5 DEF GoodAt

LEMMA JobHead ==
  ASSUME TypeOK, JobInv, job # <<>>
  PROVE  /\ Head(job) \in Ops /\ Tail(job) \in Seq(Ops) /\ Good(Tail(job), avc)
         /\ \A b : Frees(Tail(job), b) <=> Frees(job, b) /\ Head(job).op # "free"
         /\ Head(job).op = "free" => \A b : Frees(job, b) <=> b = Head(job).body
         /\ Head(job).op \notin {"clear", "free"} =>
              /\ IsWork(Head(job))
              /\ \/ Frees(job, Head(job).body)
                 \/ Head(job).op = "send" /\ Head(job).body = avc
         /\ Head(job).op = "clear" => Tail(job) = <<>> /\ Head(job).body = avc
         /\ Head(job).op = "cache" => \A a : Good(Tail(job), a)
<1>1. job \in Seq(Ops) /\ Good(job, avc)
  BY DEF TypeOK, JobInv
<1>2. PICK n \in Nat :
        /\ Len(job) = n + 1 /\ DOMAIN job = 1 .. n + 1 /\ Head(job) = job[1]
        /\ Tail(job) \in Seq(Ops) /\ Len(Tail(job)) = n /\ DOMAIN Tail(job) = 1 .. n
        /\ \A i \in 1 .. n : i + 1 \in 1 .. n + 1 /\ Tail(job)[i] = job[i + 1]
        /\ \A i \in 1 .. n + 1 : i # 1 => i - 1 \in 1 .. n /\ Tail(job)[i - 1] = job[i]
        /\ 1 \in 1 .. n + 1
  BY <1>1, TailIs
<1>3. /\ Good(Tail(job), avc) /\ Tail(job) \in Seq(Ops)
      /\ \A b : Frees(Tail(job), b) <=> Frees(job, b) /\ Head(job).op # "free"
      /\ Head(job).op = "free" => \A b : Frees(job, b) <=> b = Head(job).body
  BY <1>1, GoodTail
<1>4. Head(job) \in Ops
  <2>1. job[1] \in Ops
    BY <1>1, <1>2, ElementOfSeq
  <2> QED BY <1>2, <2>1
<1>5. GoodAt(job, avc, 1)
  BY <1>1, <1>2 DEF Good
<1>6. ASSUME Head(job).op \notin {"clear", "free"}
      PROVE  /\ IsWork(Head(job))
             /\ \/ Frees(job, Head(job).body)
                \/ Head(job).op = "send" /\ Head(job).body = avc
  <2>1. IsWork(job[1]) /\ Backed(job, avc, 1)
    BY <1>2, <1>5, <1>6 DEF GoodAt
  <2> QED BY <1>2, <2>1 DEF Backed, Frees
<1>7. ASSUME Head(job).op = "clear"
      PROVE  Tail(job) = <<>> /\ Head(job).body = avc
  <2>1. 1 = Len(job) /\ job[1].body = avc
    BY <1>2, <1>5, <1>7 DEF GoodAt
  <2>2. Len(Tail(job)) = 0
    BY <1>2, <2>1
  <2>3. Tail(job) = <<>>
    BY <1>2, <2>2, EmptySeq
  <2> QED BY <1>2, <2>1, <2>3
<1>8. ASSUME Head(job).op = "cache"
      PROVE  \A a : Good(Tail(job), a)
  <2>1. Frees(Tail(job), Head(job).body)
    BY <1>3, <1>6, <1>8
  <2>2. Lacks(Tail(job), "clear")
    <3>1. SUFFICES ASSUME NEW i \in 1 .. n, Tail(job)[i].op = "clear" PROVE FALSE
      BY <1>2 DEF Lacks
    <3>2. i + 1 \in DOMAIN job /\ job[i + 1].op = "clear"
      BY <1>2, <3>1
    <3>3. Lacks(job, "cache")
      BY <1>1, <3>2 DEF Good, GoodAt
    <3> QED BY <1>2, <1>8, <3>3 DEF Lacks
  <2>3. Good(Tail(job), avc)
    BY <1>3
  <2> QED BY <2>1, <2>2, <2>3, GoodOther
<1> QED BY <1>3, <1>4, <1>6, <1>7, <1>8

\* What the dealer works on is held, and so is not freed.
LEMMA WorkHeld ==
  ASSUME TypeOK, JobInv, RefsCountHolders, job # <<>>, Head(job).op \notin {"clear", "free"}
  PROVE  /\ Head(job).body \in Bodies /\ Head(job).body \notin freed
         /\ Holders(Head(job).body) # 0
<1>1. PICK x \in Bodies : x = Head(job).body
  BY JobHead DEF Ops
<1>2. Frees(job, x) \/ x = avc
  BY <1>1, JobHead
<1>3. Holders(x) # 0
  <2>1. CASE Frees(job, x)
    BY <2>1, HoldersAre
  <2>2. CASE x = avc
    BY <2>2, HoldersAre
  <2> QED BY <1>2, <2>1, <2>2
<1> QED BY <1>1, <1>3 DEF RefsCountHolders

LEMMA JoinInv ==
  ASSUME Inv, NEW p \in Players, Join(p)
  PROVE  Inv'
<1>1. /\ TypeOK /\ JobInv /\ RefsCountHolders /\ job = <<>>
      /\ playing' = playing \cup {p}
      /\ job' = IF avc = NoBody THEN <<>> ELSE SendPkg(p, avc)
      /\ UNCHANGED <<memory, input, avc, dealq, owed, ends, output>>
  BY DEF Inv, Join, Idle
<1>2. job' \in Seq(Ops) /\ Good(job', avc) /\ \A x : ~ Frees(job', x)
  <2>1. CASE avc = NoBody
    <3>1. job' = <<>>
      BY <1>1, <2>1
    <3> QED BY <3>1 DEF Good, Frees
  <2>2. CASE avc # NoBody
    <3>1. avc \in Bodies /\ job' = SendPkg(p, avc)
      BY <1>1, <2>2 DEF TypeOK
    <3> QED BY <3>1, SendPkgWork
  <2> QED BY <2>1, <2>2
<1>3. Keeps
  <2>1. SUFFICES ASSUME NEW b \in Bodies PROVE Holders(b)' = Holders(b)
    BY DEF Keeps
  <2>2. Queued(b)' = Queued(b) /\ Unsent(b)' = Unsent(b)
    BY <1>1, QueuesKept DEF output
  <2>3. ~ Frees(job, b) /\ ~ Frees(job', b)
    <3>1. ~ Frees(job, b)
      BY <1>1 DEF Frees
    <3> QED BY <1>2, <3>1
  <2>4. partial' = partial /\ complete' = complete /\ avc' = avc
    BY <1>1 DEF input
  <2>5. TypeOK
    BY <1>1
  <2> QED BY <2>2, <2>3, <2>4, <2>5, HoldersAre, HoldersNext
<1>4. RefsCountHolders' /\ ref' \in [Bodies -> Nat] /\ freed' \subseteq Bodies
  BY <1>1, <1>3, RefsKeep
<1>5. TypeOK'
  BY <1>1, <1>2, <1>4 DEF TypeOK, input, ends, output
<1>6. JobInv'
  BY <1>1, <1>2 DEF JobInv
<1> QED BY <1>4, <1>5, <1>6 DEF Inv

LEMMA NoticeInv ==
  ASSUME Inv, Notice
  PROVE  Inv'
<1>1. /\ TypeOK /\ JobInv /\ RefsCountHolders /\ job # <<>> /\ Head(job).op = "notice"
      /\ job' = SendPkg(Head(job).to, Head(job).body) \o Tail(job)
      /\ UNCHANGED <<memory, input, stream, dealq, owed, ends, output>>
  BY DEF Inv, Notice, Doing, Idle
<1>2. PICK p \in Players, x \in Bodies : p = Head(job).to /\ x = Head(job).body
  BY <1>1, JobHead DEF IsWork, Ops
<1>3. PICK t \in Seq(Ops) :
        /\ t = Tail(job) /\ Good(t, avc) /\ Frees(t, x)
        /\ \A b : Frees(t, b) <=> Frees(job, b)
  BY <1>1, <1>2, JobHead
<1>4. PICK w \in Seq(Ops) : w = SendPkg(p, x) /\ Work(w, x) /\ Lacks(w, "cache")
  BY SendPkgWork
<1>5. /\ Good(w \o t, avc) /\ w \o t \in Seq(Ops)
      /\ \A b : Frees(w \o t, b) <=> Frees(t, b)
  BY <1>3, <1>4, GoodPrepend
<1>6. job' = w \o t
  BY <1>1, <1>2, <1>3, <1>4
<1>7. Keeps
  <2>1. SUFFICES ASSUME NEW b \in Bodies PROVE Holders(b)' = Holders(b)
    BY DEF Keeps
  <2>2. Queued(b)' = Queued(b) /\ Unsent(b)' = Unsent(b)
    BY <1>1, QueuesKept DEF output
  <2>3. Frees(job', b) <=> Frees(job, b)
    BY <1>3, <1>5, <1>6
  <2>4. partial' = partial /\ complete' = complete /\ avc' = avc
    BY <1>1 DEF input, stream
  <2>5. TypeOK
    BY <1>1
  <2> QED BY <2>2, <2>3, <2>4, <2>5, HoldersAre, HoldersNext
<1>8. RefsCountHolders' /\ ref' \in [Bodies -> Nat] /\ freed' \subseteq Bodies
  BY <1>1, <1>7, RefsKeep
<1>9. TypeOK'
  BY <1>1, <1>5, <1>6, <1>8 DEF TypeOK, input, stream, ends, output
<1>10. JobInv'
  BY <1>1, <1>5, <1>6 DEF JobInv, stream
<1> QED BY <1>8, <1>9, <1>10 DEF Inv

LEMMA CacheInv ==
  ASSUME Inv, Cache
  PROVE  Inv'
<1>1. /\ TypeOK /\ JobInv /\ RefsCountHolders /\ job # <<>> /\ Head(job).op = "cache"
      /\ CacheAvc(Head(job).body) /\ job' = Tail(job)
      /\ UNCHANGED <<input, playing, dealq, owed, ends, output>>
  BY DEF Inv, Cache, Doing, Idle
<1>2. PICK x \in Bodies : x = Head(job).body /\ x \notin freed /\ Holders(x) # 0
  BY <1>1, WorkHeld
<1>3. /\ job' \in Seq(Ops) /\ Good(job', avc') /\ Frees(job, x)
      /\ \A b : Frees(job', b) <=> Frees(job, b)
  BY <1>1, <1>2, JobHead
<1>4. avc' = x
  BY <1>1, <1>2 DEF CacheAvc
<1>5. ASSUME NEW b \in Bodies
      PROVE  Holders(b)' = Holders(b) - (IF b = avc THEN 1 ELSE 0) + (IF b = x THEN 1 ELSE 0)
  <2>1. Queued(b)' = Queued(b) /\ Unsent(b)' = Unsent(b)
    BY <1>1, QueuesKept DEF output
  <2>2. Frees(job', b) <=> Frees(job, b)
    BY <1>3
  <2>3. partial' = partial /\ complete' = complete
    BY <1>1 DEF input
  <2>4. TypeOK
    BY <1>1
  <2> QED BY <1>4, <2>1, <2>2, <2>3, <2>4, HoldersAre, HoldersNext
<1>6. RefsCountHolders' /\ ref' \in [Bodies -> Nat] /\ freed' \subseteq Bodies
  <2>1. CASE avc = NoBody
    <3>1. Ref(x)
      BY <1>1, <1>2, <2>1 DEF CacheAvc
    <3>2. Gains(x)
      <4>1. SUFFICES ASSUME NEW b \in Bodies
            PROVE  Holders(b)' = Holders(b) + (IF b = x THEN 1 ELSE 0)
        BY DEF Gains
      <4>2. b # avc /\ Holders(b) \in Nat
        BY <1>1, <2>1, HoldersAre, DeliveryAssumption
      <4> QED BY <1>5, <4>2
    <3> QED BY <1>1, <1>2, <3>1, <3>2, RefsGain
  <2>2. CASE avc = x
    <3>1. Keeps
      <4>1. SUFFICES ASSUME NEW b \in Bodies PROVE Holders(b)' = Holders(b)
        BY DEF Keeps
      <4>2. Holders(b) \in Nat
        BY <1>1, HoldersAre
      <4> QED BY <1>5, <2>2, <4>2
    <3>2. ref[x] - 1 > 0 /\ ref \in [Bodies -> Nat]
      <4>1. ref[x] = Holders(x) /\ ref \in [Bodies -> Nat]
        BY <1>1 DEF RefsCountHolders, TypeOK
      <4>2. TypeOK
        BY <1>1
      <4>3. Holders(x) > 1
        BY <1>3, <2>2, <4>2, HoldersAre
      <4> QED BY <4>1, <4>3
    <3>3. avc # NoBody
      BY <2>2, <1>2, DeliveryAssumption
    <3>4. ref' = [ref EXCEPT ![x] = (ref[x] - 1) + 1] /\ freed' = freed
      BY <1>1, <1>2, <2>2, <3>2, <3>3 DEF CacheAvc
    <3>5. UNCHANGED memory
      BY <3>2, <3>4 DEF memory
    <3> QED BY <1>1, <3>1, <3>5, RefsKeep
  <2>3. CASE avc # NoBody /\ avc # x
    <3>1. PICK y \in Bodies : y = avc
      BY <1>1, <2>3 DEF TypeOK
    <3>2. /\ ref' = [ref EXCEPT ![y] = ref[y] - 1, ![x] = ref[x] + 1]
          /\ freed' = IF ref[y] - 1 > 0 THEN freed ELSE freed \cup {y}
      BY <1>1, <1>2, <2>3, <3>1 DEF CacheAvc
    <3>3. ref \in [Bodies -> Nat] /\ freed \subseteq Bodies /\ x # y
      BY <1>1, <2>3, <3>1 DEF TypeOK
    <3>4. ref[y] = Holders(y) /\ Holders(y) \in Nat /\ Holders(y) # 0
      BY <1>1, <3>1, HoldersAre DEF RefsCountHolders
    <3>5. ref' \in [Bodies -> Nat] /\ freed' \subseteq Bodies
      <4>1. ref[y] - 1 \in Nat /\ ref[x] + 1 \in Nat
        BY <3>3, <3>4
      <4> QED BY <3>2, <3>3, <4>1
    <3>6. ASSUME NEW b \in Bodies
          PROVE  ref'[b] = Holders(b)' /\ (b \in freed' => Holders(b)' = 0)
      <4>1. /\ ref[b] = Holders(b) /\ (b \in freed => Holders(b) = 0) /\ Holders(b) \in Nat
            /\ Holders(b)' = Holders(b) - (IF b = y THEN 1 ELSE 0) + (IF b = x THEN 1 ELSE 0)
        BY <1>1, <1>5, <3>1, HoldersAre DEF RefsCountHolders
      <4>2. ref'[b] = ref[b] - (IF b = y THEN 1 ELSE 0) + (IF b = x THEN 1 ELSE 0)
        BY <3>2, <3>3, <4>1
      <4>3. ref'[b] = Holders(b)'
        BY <4>1, <4>2
      <4>4. ASSUME b \in freed' PROVE Holders(b)' = 0
        <5>1. b # x
          BY <1>2, <3>2, <3>3, <4>4
        <5>2. CASE b = y
          <6>1. b \notin freed
            BY <3>4, <4>1, <5>2
          <6>2. ~ (ref[b] - 1 > 0)
            BY <3>2, <4>4, <5>2, <6>1
          <6>3. Holders(b) = 1
            BY <3>4, <4>1, <5>2, <6>2
          <6> QED BY <4>1, <5>1, <5>2, <6>3
        <5>3. CASE b # y
          <6>1. b \in freed
            BY <3>2, <4>4, <5>3
          <6> QED BY <4>1, <5>1, <5>3, <6>1
        <5> QED BY <5>2, <5>3
      <4> QED BY <4>3, <4>4
    <3> QED BY <3>5, <3>6 DEF RefsCountHolders
  <2> QED BY <2>1, <2>2, <2>3
<1>7. TypeOK'
  BY <1>1, <1>3, <1>4, <1>6 DEF TypeOK, input, ends, output
<1>8. JobInv'
  BY <1>3 DEF JobInv
<1> QED BY <1>6, <1>7, <1>8 DEF Inv

LEMMA ClearAvcInv ==
  ASSUME Inv, ClearAvc
  PROVE  Inv'
<1>1. /\ TypeOK /\ JobInv /\ RefsCountHolders /\ job # <<>> /\ Head(job).op = "clear"
      /\ Del(avc) /\ avc' = NoBody /\ job' = Tail(job)
      /\ UNCHANGED <<input, playing, dealq, owed, ends, output>>
  BY DEF Inv, ClearAvc, Doing, Idle
<1>2. PICK x \in Bodies : x = avc
  BY <1>1, JobHead DEF Ops
<1>3. /\ job' = <<>> /\ job' \in Seq(Ops)
      /\ \A b : Frees(job', b) <=> Frees(job, b)
  BY <1>1, JobHead
<1>4. Holders(x) # 0
  <2>1. TypeOK
    BY <1>1
  <2> QED BY <1>2, <2>1, HoldersAre
<1>5. Loses(x)
  <2>1. SUFFICES ASSUME NEW b \in Bodies
        PROVE  Holders(b)' = Holders(b) - (IF b = x THEN 1 ELSE 0)
    BY DEF Loses
  <2>2. Queued(b)' = Queued(b) /\ Unsent(b)' = Unsent(b)
    BY <1>1, QueuesKept DEF output
  <2>3. Frees(job', b) <=> Frees(job, b)
    BY <1>3
  <2>4. partial' = partial /\ complete' = complete
    BY <1>1 DEF input
  <2>5. b # avc'
    BY <1>1, DeliveryAssumption
  <2>6. TypeOK
    BY <1>1
  <2> QED BY <1>2, <2>2, <2>3, <2>4, <2>5, <2>6, HoldersAre, HoldersNext
<1>6. RefsCountHolders' /\ ref' \in [Bodies -> Nat] /\ freed' \subseteq Bodies
  BY <1>1, <1>2, <1>4, <1>5, RefsLose
<1>7. TypeOK'
  BY <1>1, <1>3, <1>6 DEF TypeOK, input, ends, output
<1>8. JobInv'
  BY <1>3 DEF JobInv, Good
<1> QED BY <1>6, <1>7, <1>8 DEF Inv

LEMMA FreeMsgInv ==
  ASSUME Inv, FreeMsg
  PROVE  Inv'
<1>1. /\ TypeOK /\ JobInv /\ RefsCountHolders /\ job # <<>> /\ Head(job).op = "free"
      /\ Del(Head(job).body) /\ job' = Tail(job)
      /\ UNCHANGED <<input, stream, dealq, owed, ends, output>>
  BY DEF Inv, FreeMsg, Doing, Idle
<1>2. PICK x \in Bodies : x = Head(job).body
  BY <1>1, JobHead DEF Ops
<1>3. /\ job' \in Seq(Ops) /\ Good(job', avc)
      /\ \A b : ~ Frees(job', b)
      /\ \A b : Frees(job, b) <=> b = x
  BY <1>1, <1>2, JobHead
<1>4. Holders(x) # 0
  <2>1. TypeOK /\ Frees(job, x)
    BY <1>1, <1>3
  <2> QED BY <2>1, HoldersAre
<1>5. Loses(x)
  <2>1. SUFFICES ASSUME NEW b \in Bodies
        PROVE  Holders(b)' = Holders(b) - (IF b = x THEN 1 ELSE 0)
    BY DEF Loses
  <2>2. Queued(b)' = Queued(b) /\ Unsent(b)' = Unsent(b)
    BY <1>1, QueuesKept DEF output
  <2>3. ~ Frees(job', b) /\ (Frees(job, b) <=> b = x)
    BY <1>3
  <2>4. partial' = partial /\ complete' = complete /\ avc' = avc
    BY <1>1 DEF input, stream
  <2>5. TypeOK
    BY <1>1
  <2> QED BY <2>2, <2>3, <2>4, <2>5, HoldersAre, HoldersNext
<1>6. RefsCountHolders' /\ ref' \in [Bodies -> Nat] /\ freed' \subseteq Bodies
  BY <1>1, <1>2, <1>4, <1>5, RefsLose
<1>7. TypeOK'
  BY <1>1, <1>3, <1>6 DEF TypeOK, input, stream, ends, output
<1>8. JobInv'
  BY <1>1, <1>3 DEF JobInv, stream
<1> QED BY <1>6, <1>7, <1>8 DEF Inv

LEMMA RelayInv ==
  ASSUME Inv, Relay
  PROVE  Inv'
<1>1. /\ TypeOK /\ JobInv /\ RefsCountHolders /\ job # <<>> /\ Head(job).op = "relay"
      /\ Ref(Head(job).body) /\ job' = Tail(job)
      /\ dealq' = [dealq EXCEPT ![Head(job).to] = Append(dealq[Head(job).to], Head(job).body)]
      /\ UNCHANGED <<input, stream, owed, ends, output>>
  BY DEF Inv, Relay, Doing, Idle
<1>2. PICK x \in Bodies : x = Head(job).body /\ x \notin freed /\ Holders(x) # 0
  BY <1>1, WorkHeld
<1>3. /\ job' \in Seq(Ops) /\ Good(job', avc)
      /\ \A b : Frees(job', b) <=> Frees(job, b)
  BY <1>1, JobHead
<1>4. PICK p \in Conns : p = Head(job).to
  BY <1>1, JobHead DEF Ops
<1>5. dealq' \in [Conns -> Seq(Marked)] /\ \A b : Queued(b)' = Queued(b) + One(x = b)
  <2>1. dealq' = [dealq EXCEPT ![p] = Append(dealq[p], x)] /\ x \in Marked /\ TypeOK
    BY <1>1, <1>2, <1>4 DEF Marked
  <2> QED BY <2>1, QueueGrows
<1>6. Gains(x)
  <2>1. SUFFICES ASSUME NEW b \in Bodies
        PROVE  Holders(b)' = Holders(b) + (IF b = x THEN 1 ELSE 0)
    BY DEF Gains
  <2>2. Queued(b)' = Queued(b) + (IF b = x THEN 1 ELSE 0) /\ Unsent(b)' = Unsent(b)
    BY <1>1, <1>5, QueuesKept DEF output, One
  <2>3. Frees(job', b) <=> Frees(job, b)
    BY <1>3
  <2>4. partial' = partial /\ complete' = complete /\ avc' = avc
    BY <1>1 DEF input, stream
  <2>5. TypeOK
    BY <1>1
  <2> QED BY <2>2, <2>3, <2>4, <2>5, HoldersAre, HoldersNext
<1>7. RefsCountHolders' /\ ref' \in [Bodies -> Nat] /\ freed' \subseteq Bodies
  BY <1>1, <1>2, <1>6, RefsGain
<1>8. TypeOK'
  BY <1>1, <1>3, <1>5, <1>7 DEF TypeOK, input, stream, ends, output, Marked
<1>9. JobInv'
  BY <1>1, <1>3 DEF JobInv, stream
<1> QED BY <1>7, <1>8, <1>9 DEF Inv

-----------------------------------------------------------------------------
(* Messages queued to be sent.                                             *)

LEMMA BytesType ==
  ASSUME last \in [Players -> Nat], NEW p \in Players, NEW k \in Nat, NEW n \in Nat
  PROVE  /\ Bytes(p, k, n) \in Seq(Nat) /\ Len(Bytes(p, k, n)) = n
         /\ \A i \in 1 .. n : Bytes(p, k, n)[i] = last[p] + k + i
<1>1. PICK l \in Nat : l = last[p]
  OBVIOUS
<1>2. \A i \in 1 .. n : l + k + i \in Nat
  BY <1>1
<1>3. PICK s \in Seq(Nat) : s = [i \in 1 .. n |-> l + k + i]
  <2>1. [i \in 1 .. n |-> l + k + i] \in [1 .. n -> Nat]
    BY <1>2
  <2>2. [1 .. n -> Nat] \subseteq Seq(Nat)
    BY SeqDef
  <2> QED BY <2>1, <2>2
<1>4. Len(s) = n /\ \A i \in 1 .. n : s[i] = l + k + i
  BY <1>3
<1>5. s = Bytes(p, k, n)
  BY <1>1, <1>3 DEF Bytes
<1> QED BY <1>1, <1>4, <1>5

LEMMA QueueIs ==
  ASSUME TypeOK, NEW p \in Players, NEW h \in Nat, NEW n \in Nat, NEW x \in Cached,
         Queue(p, h, n, x)
  PROVE  /\ sendq' \in [Players -> Seq(Message)] /\ last' \in [Players -> Nat]
         /\ sent' = sent /\ \A b : Unsent(b)' = Unsent(b) + One(x = b)
<1>1. last \in [Players -> Nat]
  BY DEF TypeOK
<1>2. PICK m : m = [head |-> Bytes(p, 0, h), body |-> Bytes(p, h, n), cache |-> x]
  OBVIOUS
<1>3. m \in Message /\ m.cache = x
  BY <1>1, <1>2, BytesType DEF Message, Cached
<1>4. sendq' = [sendq EXCEPT ![p] = Append(sendq[p], m)] /\ sent' = sent
  BY <1>2 DEF Queue
<1>5. /\ sendq' \in [Players -> Seq(Message)]
      /\ \A b : Unsent(b)' = Unsent(b) + One(m.cache = b)
  BY <1>3, <1>4, SendGrows
<1>6. last' \in [Players -> Nat]
  <2>1. last' = [last EXCEPT ![p] = last[p] + h + n] /\ last[p] + h + n \in Nat
    BY <1>1 DEF Queue
  <2> QED BY <1>1, <2>1
<1> QED BY <1>3, <1>4, <1>5, <1>6

LEMMA SendDataInv ==
  ASSUME Inv, SendData
  PROVE  Inv'
<1>1. /\ TypeOK /\ JobInv /\ RefsCountHolders /\ job # <<>> /\ Head(job).op = "send"
      /\ Ref(Head(job).body) /\ job' = Tail(job)
      /\ Queue(Head(job).to, Chunks[Head(job).i].head, Chunks[Head(job).i].body, Head(job).body)
      /\ UNCHANGED <<input, stream, dealq, owed, ends>>
  BY DEF Inv, SendData, Doing, Idle
<1>2. PICK x \in Bodies : x = Head(job).body /\ x \notin freed /\ Holders(x) # 0
  BY <1>1, WorkHeld
<1>3. /\ job' \in Seq(Ops) /\ Good(job', avc)
      /\ \A b : Frees(job', b) <=> Frees(job, b)
  BY <1>1, JobHead
<1>4. IsWork(Head(job))
  BY <1>1, JobHead
<1>5. PICK p \in Players, h \in Nat, n \in Nat :
        p = Head(job).to /\ h = Chunks[Head(job).i].head /\ n = Chunks[Head(job).i].body
  BY <1>1, <1>4, ChunksAre DEF IsWork
<1>6. /\ sendq' \in [Players -> Seq(Message)] /\ last' \in [Players -> Nat]
      /\ sent' = sent /\ \A b : Unsent(b)' = Unsent(b) + One(x = b)
  <2>1. Queue(p, h, n, x) /\ x \in Cached /\ TypeOK
    BY <1>1, <1>2, <1>5 DEF Cached
  <2> QED BY <2>1, QueueIs
<1>7. Gains(x)
  <2>1. SUFFICES ASSUME NEW b \in Bodies
        PROVE  Holders(b)' = Holders(b) + (IF b = x THEN 1 ELSE 0)
    BY DEF Gains
  <2>2. Queued(b)' = Queued(b) /\ Unsent(b)' = Unsent(b) + (IF b = x THEN 1 ELSE 0)
    BY <1>1, <1>6, QueuesKept DEF One
  <2>3. Frees(job', b) <=> Frees(job, b)
    BY <1>3
  <2>4. partial' = partial /\ complete' = complete /\ avc' = avc
    BY <1>1 DEF input, stream
  <2>5. TypeOK
    BY <1>1
  <2> QED BY <2>2, <2>3, <2>4, <2>5, HoldersAre, HoldersNext
<1>8. RefsCountHolders' /\ ref' \in [Bodies -> Nat] /\ freed' \subseteq Bodies
  BY <1>1, <1>2, <1>7, RefsGain
<1>9. TypeOK'
  BY <1>1, <1>3, <1>6, <1>8 DEF TypeOK, input, stream, ends
<1>10. JobInv'
  BY <1>1, <1>3 DEF JobInv, stream
<1> QED BY <1>8, <1>9, <1>10 DEF Inv

LEMMA ReplyInv ==
  ASSUME Inv, NEW p \in Players, Reply(p)
  PROVE  Inv'
<1>1. /\ TypeOK /\ JobInv /\ RefsCountHolders /\ Queue(p, 1, 0, NoBody)
      /\ UNCHANGED <<memory, input, stream, dealq, job, owed, ends>>
  BY DEF Inv, Reply
<1>2. /\ sendq' \in [Players -> Seq(Message)] /\ last' \in [Players -> Nat]
      /\ sent' = sent /\ \A b : Unsent(b)' = Unsent(b) + One(NoBody = b)
  <2>1. NoBody \in Cached
    BY DEF Cached
  <2> QED BY <1>1, <2>1, QueueIs
<1>3. Keeps
  <2>1. SUFFICES ASSUME NEW b \in Bodies PROVE Holders(b)' = Holders(b)
    BY DEF Keeps
  <2>2. Queued(b)' = Queued(b) /\ Unsent(b)' = Unsent(b) + 0
    BY <1>1, <1>2, QueuesKept, DeliveryAssumption DEF One
  <2>3. partial' = partial /\ complete' = complete /\ avc' = avc /\ job' = job
    BY <1>1 DEF input, stream
  <2>4. TypeOK
    BY <1>1
  <2> QED BY <2>2, <2>3, <2>4, HoldersAre, HoldersNext
<1>4. RefsCountHolders' /\ ref' \in [Bodies -> Nat] /\ freed' \subseteq Bodies
  BY <1>1, <1>3, RefsKeep
<1>5. TypeOK'
  BY <1>1, <1>2, <1>4 DEF TypeOK, input, stream, ends
<1>6. JobInv'
  BY <1>1 DEF JobInv, stream
<1> QED BY <1>4, <1>5, <1>6 DEF Inv

-----------------------------------------------------------------------------
(* Steps that no reference depends on.                                     *)

LEMMA KeepsInv ==
  ASSUME TypeOK, RefsCountHolders, UNCHANGED memory, UNCHANGED input, avc' = avc, job' = job,
         \A b \in Bodies : Queued(b)' = Queued(b), \A b \in Bodies : Unsent(b)' = Unsent(b)
  PROVE  RefsCountHolders' /\ ref' \in [Bodies -> Nat] /\ freed' \subseteq Bodies
<1>1. Keeps
  <2>1. SUFFICES ASSUME NEW b \in Bodies PROVE Holders(b)' = Holders(b)
    BY DEF Keeps
  <2>2. Queued(b)' = Queued(b) /\ Unsent(b)' = Unsent(b)
    OBVIOUS
  <2>3. partial' = partial /\ complete' = complete
    BY DEF input
  <2> QED BY <2>2, <2>3, HoldersAre, HoldersNext
<1> QED BY <1>1, RefsKeep

LEMMA LeaveInv ==
  ASSUME Inv, NEW p \in Players, Leave(p)
  PROVE  Inv'
<1>1. /\ TypeOK /\ JobInv /\ RefsCountHolders /\ playing' = playing \ {p}
      /\ UNCHANGED <<memory, input, avc, dealq, job, owed, ends, output>>
  BY DEF Inv, Leave
<1>2. RefsCountHolders' /\ ref' \in [Bodies -> Nat] /\ freed' \subseteq Bodies
  BY <1>1, QueuesKept, KeepsInv DEF output
<1>3. TypeOK'
  BY <1>1, <1>2 DEF TypeOK, input, ends, output
<1>4. JobInv'
  BY <1>1 DEF JobInv
<1> QED BY <1>2, <1>3, <1>4 DEF Inv

LEMMA StopInv ==
  ASSUME Inv, NEW c \in Conns, Stop(c)
  PROVE  Inv'
<1>1. /\ TypeOK /\ JobInv /\ RefsCountHolders
      /\ dealq' = [dealq EXCEPT ![c] = Append(dealq[c], "STOP")]
      /\ UNCHANGED <<memory, input, stream, job, owed, ends, output>>
  BY DEF Inv, Stop
<1>2. dealq' \in [Conns -> Seq(Marked)] /\ \A b : Queued(b)' = Queued(b) + One("STOP" = b)
  <2>1. "STOP" \in Marked
    BY DEF Marked
  <2> QED BY <1>1, <2>1, QueueGrows
<1>3. ASSUME NEW b \in Bodies PROVE Queued(b)' = Queued(b)
  <2>1. "STOP" # b /\ Queued(b) \in Nat
    BY <1>1, DeliveryAssumption, CountsAre
  <2> QED BY <1>2, <2>1 DEF One
<1>4. RefsCountHolders' /\ ref' \in [Bodies -> Nat] /\ freed' \subseteq Bodies
  BY <1>1, <1>3, QueuesKept, KeepsInv DEF stream, output
<1>5. TypeOK'
  BY <1>1, <1>2, <1>4 DEF TypeOK, input, stream, ends, output, Marked
<1>6. JobInv'
  BY <1>1 DEF JobInv, stream
<1> QED BY <1>4, <1>5, <1>6 DEF Inv

LEMMA CloseInv ==
  ASSUME Inv, NEW c \in Conns, Close(c)
  PROVE  Inv'
<1>1. /\ TypeOK /\ JobInv /\ RefsCountHolders
      /\ dealq[c] # <<>> /\ Head(dealq[c]) = "STOP"
      /\ dealq' = [dealq EXCEPT ![c] = Tail(dealq[c])]
      /\ stopDeal' = stopDeal \cup {c} /\ closed' = closed \cup {c}
      /\ playing' = playing \ {c}
      /\ UNCHANGED <<memory, input, avc, job, owed, gone, output>>
  BY DEF Inv, Close
<1>2. /\ dealq' \in [Conns -> Seq(Marked)]
      /\ \A b : Queued(b)' = Queued(b) - One("STOP" = b)
  <2>1. /\ dealq' \in [Conns -> Seq(Marked)]
        /\ \A b : Queued(b)' = Queued(b) - One(Head(dealq[c]) = b)
    BY <1>1, QueueShrinks
  <2> QED BY <1>1, <2>1
<1>3. ASSUME NEW b \in Bodies PROVE Queued(b)' = Queued(b)
  <2>1. "STOP" # b /\ Queued(b) \in Nat
    BY <1>1, DeliveryAssumption, CountsAre
  <2> QED BY <1>2, <2>1 DEF One
<1>4. RefsCountHolders' /\ ref' \in [Bodies -> Nat] /\ freed' \subseteq Bodies
  BY <1>1, <1>3, QueuesKept, KeepsInv DEF output
<1>5. TypeOK'
  BY <1>1, <1>2, <1>4 DEF TypeOK, input, output, Marked
<1>6. JobInv'
  BY <1>1 DEF JobInv
<1> QED BY <1>4, <1>5, <1>6 DEF Inv

LEMMA DestroyInv ==
  ASSUME Inv, NEW c \in Conns, Destroy(c)
  PROVE  Inv'
<1>1. /\ TypeOK /\ JobInv /\ RefsCountHolders
      /\ c \in closed /\ gone' = gone \cup {c}
      /\ UNCHANGED <<memory, input, stream, dealq, job, owed, stopDeal, closed, output>>
  BY DEF Inv, Destroy
<1>2. RefsCountHolders' /\ ref' \in [Bodies -> Nat] /\ freed' \subseteq Bodies
  BY <1>1, QueuesKept, KeepsInv DEF stream, output
<1>3. TypeOK'
  BY <1>1, <1>2 DEF TypeOK, input, stream, output
<1>4. JobInv'
  BY <1>1 DEF JobInv, stream
<1> QED BY <1>2, <1>3, <1>4 DEF Inv

-----------------------------------------------------------------------------
(* The senders, and the end of a connection.                               *)

LEMMA PrefixIs ==
  ASSUME NEW s \in Seq(Nat), NEW n \in 0 .. Len(s)
  PROVE  /\ Prefix(s, n) \in Seq(Nat) /\ Len(Prefix(s, n)) = n
         /\ \A i \in 1 .. n : Prefix(s, n)[i] = s[i]
<1>1. Len(s) \in Nat /\ n \in Nat
  BY LenProperties
<1>2. (IF n < Len(s) THEN n ELSE Len(s)) = n
  BY <1>1
<1>3. Prefix(s, n) = SubSeq(s, 1, n)
  BY <1>2 DEF Prefix
<1>4. /\ SubSeq(s, 1, n) \in Seq(Nat) /\ Len(SubSeq(s, 1, n)) = n
      /\ \A i \in 1 .. n : SubSeq(s, 1, n)[i] = s[i]
  BY <1>1
<1> QED BY <1>3, <1>4

LEMMA DropIs ==
  ASSUME NEW s \in Seq(Nat), NEW n \in 0 .. Len(s)
  PROVE  /\ Drop(s, n) \in Seq(Nat) /\ Len(Drop(s, n)) = Len(s) - n
         /\ \A i \in 1 .. Len(s) - n : Drop(s, n)[i] = s[n + i]
<1>1. Len(s) \in Nat /\ n \in Nat
  BY LenProperties
<1>2. Drop(s, n) = SubSeq(s, n + 1, Len(s))
  BY DEF Drop
<1>3. /\ SubSeq(s, n + 1, Len(s)) \in Seq(Nat) /\ Len(SubSeq(s, n + 1, Len(s))) = Len(s) - n
      /\ \A i \in 1 .. Len(s) - n : SubSeq(s, n + 1, Len(s))[i] = s[n + i]
  BY <1>1
<1> QED BY <1>2, <1>3

LEMMA WriteIs ==
  ASSUME TypeOK, NEW p \in Players, Write(p)
  PROVE  \E n \in 1 .. Len(Offered(sendq[p])) :
           /\ sent' = [sent EXCEPT ![p] = sent[p] \o Prefix(Offered(sendq[p]), n)]
           /\ owed' = [owed EXCEPT ![p] = n] /\ n \in Nat
           /\ sendq[p] \in Seq(Message) /\ sent[p] \in Seq(Nat)
           /\ Offered(sendq[p]) \in Seq(Nat)
           /\ Prefix(Offered(sendq[p]), n) \in Seq(Nat)
           /\ Len(Prefix(Offered(sendq[p]), n)) = n
           /\ \A i \in 1 .. n : Prefix(Offered(sendq[p]), n)[i] = Rest(sendq[p])[i]
           /\ n <= Len(Rest(sendq[p]))
<1>1. PICK q \in Seq(Message) : q = sendq[p] /\ sent[p] \in Seq(Nat)
  BY DEF TypeOK
<1>2. PICK o \in Seq(Nat) :
        /\ o = Offered(q) /\ Len(o) \in 0 .. Len(Rest(q)) /\ Len(Rest(q)) \in Nat
        /\ \A i \in 1 .. Len(o) : o[i] = Rest(q)[i]
  BY <1>1, OfferedFirst, BitsType
<1>3. PICK n \in 1 .. Len(o) :
        /\ sent' = [sent EXCEPT ![p] = sent[p] \o Prefix(o, n)]
        /\ owed' = [owed EXCEPT ![p] = n]
  BY <1>1, <1>2 DEF Write
<1>4. n \in Nat /\ n \in 0 .. Len(o) /\ n <= Len(Rest(q)) /\ \A i \in 1 .. n : i \in 1 .. Len(o)
  BY <1>2, <1>3
<1>5. /\ Prefix(o, n) \in Seq(Nat) /\ Len(Prefix(o, n)) = n
      /\ \A i \in 1 .. n : Prefix(o, n)[i] = o[i]
  BY <1>2, <1>4, PrefixIs
<1>6. \A i \in 1 .. n : Prefix(o, n)[i] = Rest(q)[i]
  BY <1>2, <1>4, <1>5
<1> QED BY <1>1, <1>2, <1>3, <1>4, <1>5, <1>6

LEMMA WriteInv ==
  ASSUME Inv, NEW p \in Players, Write(p)
  PROVE  Inv'
<1>1. /\ TypeOK /\ JobInv /\ RefsCountHolders
      /\ UNCHANGED <<memory, input, stream, dealq, job, ends, sendq, last>>
  BY DEF Inv, Write
<1>2. PICK n \in Nat, s \in Seq(Nat) :
        sent' = [sent EXCEPT ![p] = sent[p] \o s] /\ owed' = [owed EXCEPT ![p] = n]
  BY <1>1, WriteIs
<1>3. sent' \in [Players -> Seq(Nat)] /\ owed' \in [Players -> Nat]
  <2>1. sent \in [Players -> Seq(Nat)] /\ owed \in [Players -> Nat]
    BY <1>1 DEF TypeOK
  <2>2. sent[p] \o s \in Seq(Nat)
    BY <1>2, <2>1
  <2> QED BY <1>2, <2>1, <2>2
<1>4. RefsCountHolders' /\ ref' \in [Bodies -> Nat] /\ freed' \subseteq Bodies
  <2>1. UNCHANGED memory /\ UNCHANGED input /\ avc' = avc /\ job' = job
    BY <1>1 DEF stream
  <2>2. ASSUME NEW b \in Bodies PROVE Queued(b)' = Queued(b) /\ Unsent(b)' = Unsent(b)
    BY <1>1, QueuesKept
  <2> QED BY <1>1, <2>1, <2>2, KeepsInv
<1>5. TypeOK'
  BY <1>1, <1>3, <1>4 DEF TypeOK, input, stream, ends
<1>6. JobInv'
  BY <1>1 DEF JobInv, stream
<1> QED BY <1>4, <1>5, <1>6 DEF Inv

\* A message in a queue is freed, with its reference if it has one.
LEMMA LetGoRefs ==
  ASSUME TypeOK, RefsCountHolders, NEW x, LetGo(x),
         \A b \in Bodies : Holders(b)' = Holders(b) - One(x = b),
         x \in Bodies => Holders(x) # 0
  PROVE  RefsCountHolders' /\ ref' \in [Bodies -> Nat] /\ freed' \subseteq Bodies
<1>1. CASE x \in Bodies
  <2>1. Del(x)
    BY <1>1 DEF LetGo
  <2>2. Loses(x)
    BY DEF Loses, One
  <2> QED BY <1>1, <2>1, <2>2, RefsLose
<1>2. CASE x \notin Bodies
  <2>1. UNCHANGED memory
    BY <1>2 DEF LetGo
  <2>2. Keeps
    <3>1. SUFFICES ASSUME NEW b \in Bodies PROVE Holders(b)' = Holders(b)
      BY DEF Keeps
    <3>2. One(x = b) = 0 /\ Holders(b) \in Nat
      BY <1>2, HoldersAre DEF One
    <3> QED BY <3>2
  <2> QED BY <2>1, <2>2, RefsKeep
<1> QED BY <1>1, <1>2

LEMMA SendLetGo ==
  ASSUME TypeOK, RefsCountHolders, NEW p \in Players, sendq[p] # <<>>,
         sendq' = [sendq EXCEPT ![p] = Tail(sendq[p])], LetGo(Head(sendq[p]).cache),
         UNCHANGED <<input, stream, dealq, job>>
  PROVE  /\ sendq' \in [Players -> Seq(Message)]
         /\ RefsCountHolders' /\ ref' \in [Bodies -> Nat] /\ freed' \subseteq Bodies
<1>1. PICK x : x = Head(sendq[p]).cache
  OBVIOUS
<1>2. /\ sendq' \in [Players -> Seq(Message)] /\ LetGo(x)
      /\ \A b : Unsent(b)' = Unsent(b) - One(x = b)
  BY <1>1, SendShrinks
<1>3. ASSUME NEW b \in Bodies PROVE Holders(b)' = Holders(b) - One(x = b)
  <2>1. Queued(b)' = Queued(b) /\ Unsent(b)' = Unsent(b) - (IF x = b THEN 1 ELSE 0)
    BY <1>2, QueuesKept DEF One
  <2>2. partial' = partial /\ complete' = complete /\ avc' = avc /\ job' = job
    BY DEF input, stream
  <2>3. Holders(b)' = Holders(b) - (IF x = b THEN 1 ELSE 0)
    BY <2>1, <2>2, HoldersAre, HoldersNext
  <2> QED BY <2>3 DEF One
<1>4. ASSUME x \in Bodies PROVE Holders(x) # 0
  <2>1. Caches' \in [Players -> Seq(Cached)]
    <3>1. Caches' = [q \in Players |-> CachesOf(sendq'[q])]
      BY DEF Caches, CachesOf
    <3>2. \A q \in Players : CachesOf(sendq'[q]) \in Seq(Cached)
      BY <1>2, CachesOfIs DEF Cached
    <3> QED BY <3>1, <3>2
  <2>2. Cardinality(Places(Caches', x)) \in Nat
    BY <2>1, PlacesFinite, DeliveryAssumption
  <2>3. Unsent(x)' \in Nat
    BY <2>2 DEF Unsent
  <2>4. Unsent(x) \in Nat
    BY CountsAre
  <2>5. Unsent(x)' = Unsent(x) - 1
    BY <1>2 DEF One
  <2>6. Unsent(x) # 0
    BY <2>3, <2>4, <2>5
  <2> QED BY <1>4, <2>6, HoldersAre
<1>5. RefsCountHolders' /\ ref' \in [Bodies -> Nat] /\ freed' \subseteq Bodies
  BY <1>2, <1>3, <1>4, LetGoRefs
<1> QED BY <1>2, <1>5

LEMMA JoinIs ==
  ASSUME NEW s \in Seq(Nat), NEW t \in Seq(Nat)
  PROVE  /\ s \o t \in Seq(Nat) /\ Len(s \o t) = Len(s) + Len(t)
         /\ \A i \in 1 .. Len(s) : (s \o t)[i] = s[i]
         /\ \A i \in 1 .. Len(t) : (s \o t)[Len(s) + i] = t[i]
<1>1. PICK m \in Nat, n \in Nat : m = Len(s) /\ n = Len(t)
  BY LenProperties
<1>2. s \o t \in Seq(Nat) /\ Len(s \o t) = m + n
  BY <1>1
<1>3. \A i \in 1 .. m : (s \o t)[i] = s[i]
  BY <1>1
<1>4. \A i \in 1 .. n : (s \o t)[m + i] = t[i]
  <2>1. SUFFICES ASSUME NEW i \in 1 .. n PROVE (s \o t)[m + i] = t[i]
    OBVIOUS
  <2>2. m + i \in 1 .. m + n /\ m + i > m /\ (m + i) - m = i
    BY <1>1
  <2> QED BY <1>1, <2>2
<1> QED BY <1>1, <1>2, <1>3, <1>4

Cut(m, n, head, body) ==
  \/ Len(m.head) <= n /\ head = <<>> /\ body = Drop(m.body, n - Len(m.head))
  \/ n < Len(m.head) /\ head = Drop(m.head, n) /\ body = m.body
IsLeft(s, m, n) ==
  /\ s \in Seq(Nat) /\ Len(s) = Size(m) - n
  /\ \A i \in 1 .. Size(m) - n : s[i] = (m.head \o m.body)[n + i]

\* What prune leaves of the first message is what has not been sent of it.
LEMMA RemainsIs ==
  ASSUME NEW m \in Message, NEW n \in Nat, n < Size(m), NEW head, NEW body, Cut(m, n, head, body)
  PROVE  head \in Seq(Nat) /\ body \in Seq(Nat) /\ IsLeft(head \o body, m, n)
<1>0. SUFFICES
        /\ head \in Seq(Nat) /\ body \in Seq(Nat) /\ head \o body \in Seq(Nat)
        /\ Len(head \o body) = Size(m) - n
        /\ \A i \in 1 .. Size(m) - n : (head \o body)[i] = (m.head \o m.body)[n + i]
  BY DEF IsLeft
<1>1. PICK h \in Seq(Nat), b \in Seq(Nat) : h = m.head /\ b = m.body
  BY MessageIs
<1>2. /\ Size(m) = Len(h) + Len(b) /\ Len(h) \in Nat /\ Len(b) \in Nat
      /\ Len(h \o b) = Len(h) + Len(b)
      /\ \A i \in 1 .. Len(h) : (h \o b)[i] = h[i]
      /\ \A i \in 1 .. Len(b) : (h \o b)[Len(h) + i] = b[i]
  <2>1. Len(h) \in Nat /\ Len(b) \in Nat /\ Len(h \o b) = Len(h) + Len(b)
    BY <1>1
  <2>2. /\ \A i \in 1 .. Len(h) : (h \o b)[i] = h[i]
        /\ \A i \in 1 .. Len(b) : (h \o b)[Len(h) + i] = b[i]
    BY JoinIs
  <2> QED BY <1>1, <2>1, <2>2 DEF Size
<1>3. CASE Len(h) <= n /\ head = <<>> /\ body = Drop(b, n - Len(h))
  <2>1. n - Len(h) \in 0 .. Len(b) /\ Len(b) - (n - Len(h)) = Size(m) - n
    <3>1. PICK a \in Nat, c \in Nat : a = Len(h) /\ c = Len(b) /\ Size(m) = a + c
      BY <1>2
    <3>2. a <= n /\ n < a + c
      BY <1>3, <3>1
    <3> QED BY <3>1, <3>2
  <2>2. PICK k \in 0 .. Len(b) : k = n - Len(h)
    BY <2>1
  <2>3. /\ body \in Seq(Nat) /\ Len(body) = Size(m) - n
        /\ \A i \in 1 .. Len(b) - k : body[i] = b[k + i]
    BY <1>1, <1>3, <2>1, <2>2, DropIs
  <2>4. <<>> \o body = body
    BY <2>3, ConcatEmptySeq
  <2>5. ASSUME NEW i \in 1 .. Size(m) - n PROVE body[i] = (h \o b)[n + i]
    <3>1. i \in 1 .. Len(b) - k /\ k + i \in 1 .. Len(b) /\ Len(h) + (k + i) = n + i
      BY <1>2, <2>1, <2>2
    <3> QED BY <1>2, <2>3, <3>1
  <2>6. <<>> \in Seq(Nat)
    BY EmptySeq
  <2> QED BY <1>1, <1>3, <2>3, <2>4, <2>5, <2>6
<1>4. CASE n < Len(h) /\ head = Drop(h, n) /\ body = b
  <2>1. n \in 0 .. Len(h)
    BY <1>2, <1>4
  <2>2. PICK t \in Seq(Nat) :
          t = head /\ Len(t) = Len(h) - n /\ \A i \in 1 .. Len(h) - n : t[i] = h[n + i]
    BY <1>1, <1>4, <2>1, DropIs
  <2>3. /\ t \o b \in Seq(Nat) /\ Len(t \o b) = Len(t) + Len(b)
        /\ \A i \in 1 .. Len(t) : (t \o b)[i] = t[i]
        /\ \A i \in 1 .. Len(b) : (t \o b)[Len(t) + i] = b[i]
    <3>1. t \o b \in Seq(Nat) /\ Len(t \o b) = Len(t) + Len(b)
      BY <1>1, <2>2, JoinIs
    <3>2. /\ \A i \in 1 .. Len(t) : (t \o b)[i] = t[i]
          /\ \A i \in 1 .. Len(b) : (t \o b)[Len(t) + i] = b[i]
      BY JoinIs
    <3> QED BY <3>1, <3>2
  <2>4. Len(t \o b) = Size(m) - n
    BY <1>2, <1>4, <2>2, <2>3
  <2>5. ASSUME NEW i \in 1 .. Size(m) - n PROVE (t \o b)[i] = (h \o b)[n + i]
    <3>1. CASE i <= Len(h) - n
      <4>1. i \in 1 .. Len(t) /\ i \in 1 .. Len(h) - n /\ n + i \in 1 .. Len(h)
        BY <1>2, <1>4, <2>2, <3>1
      <4> QED BY <1>2, <2>2, <2>3, <4>1
    <3>2. CASE ~ (i <= Len(h) - n)
      <4>1. PICK j \in 1 .. Len(b) : i = Len(t) + j /\ n + i = Len(h) + j
        <5>1. i - (Len(h) - n) \in 1 .. Len(b)
          BY <1>2, <1>4, <3>2
        <5>2. i = Len(t) + (i - (Len(h) - n)) /\ n + i = Len(h) + (i - (Len(h) - n))
          BY <1>2, <1>4, <2>2
        <5> QED BY <5>1, <5>2
      <4> QED BY <1>2, <2>3, <4>1
    <3> QED BY <3>1, <3>2
  <2> QED BY <1>1, <1>4, <2>2, <2>3, <2>4, <2>5
<1> QED BY <1>1, <1>3, <1>4 DEF Cut

\* The two ways a turn of the loop of prune goes.
LEMMA PruneIs ==
  ASSUME TypeOK, NEW p \in Players, Prune(p)
  PROVE  /\ sendq[p] \in Seq(Message) /\ sendq[p] # <<>> /\ Head(sendq[p]) \in Message
         /\ Tail(sendq[p]) \in Seq(Message) /\ owed[p] \in Nat
         /\ \/ Size(Head(sendq[p])) <= owed[p] /\ Sent(p)
            \/ \E m \in Message :
                 /\ owed[p] < Size(Head(sendq[p]))
                 /\ m.cache = Head(sendq[p]).cache
                 /\ IsLeft(m.head \o m.body, Head(sendq[p]), owed[p])
                 /\ sendq' = [sendq EXCEPT ![p] = <<m>> \o Tail(sendq[p])]
                 /\ owed' = [owed EXCEPT ![p] = 0]
                 /\ UNCHANGED memory
<1>1. sendq[p] \in Seq(Message) /\ sendq[p] # <<>> /\ owed[p] \in Nat
  BY DEF TypeOK, Prune
<1>2. /\ Head(sendq[p]) \in Message /\ Tail(sendq[p]) \in Seq(Message)
  BY <1>1, RestHead
<1>3. PICK f \in Message, n \in Nat : f = Head(sendq[p]) /\ n = owed[p]
  BY <1>1, <1>2
<1>4. CASE Size(f) <= n /\ Sent(p)
  BY <1>1, <1>2, <1>3, <1>4
<1>5. CASE \E head, body :
             n < Size(f) /\ Cut(f, n, head, body) /\ Remains(p, head, body)
  <2>1. PICK head, body :
          n < Size(f) /\ Cut(f, n, head, body) /\ Remains(p, head, body)
    BY <1>5
  <2>2. head \in Seq(Nat) /\ body \in Seq(Nat) /\ IsLeft(head \o body, f, n)
    BY <1>3, <2>1, RemainsIs
  <2>3. PICK m : m = [head |-> head, body |-> body, cache |-> f.cache]
    OBVIOUS
  <2>4. m \in Message /\ m.head = head /\ m.body = body /\ m.cache = f.cache
    BY <1>3, <2>2, <2>3, MessageIs DEF Message
  <2>5. /\ sendq' = [sendq EXCEPT ![p] = <<m>> \o Tail(sendq[p])]
        /\ owed' = [owed EXCEPT ![p] = 0] /\ UNCHANGED memory
    BY <1>3, <2>1, <2>3 DEF Remains
  <2> QED BY <1>1, <1>2, <1>3, <2>1, <2>2, <2>4, <2>5
<1>6. n < Len(f.head) => n < Size(f)
  <2>1. Len(f.head) \in Nat /\ Len(f.body) \in Nat
    BY <1>3, MessageIs, LenProperties
  <2>2. PICK a \in Nat, c \in Nat : a = Len(f.head) /\ Size(f) = a + c
    BY <2>1 DEF Size
  <2> QED BY <1>3, <2>2
<1> QED BY <1>3, <1>4, <1>5, <1>6 DEF Prune, Cut

LEMMA PruneInv ==
  ASSUME Inv, NEW p \in Players, Prune(p)
  PROVE  Inv'
<1>1. /\ TypeOK /\ JobInv /\ RefsCountHolders /\ sendq[p] # <<>>
      /\ UNCHANGED <<input, stream, dealq, job, ends, last, sent>>
  BY DEF Inv, Prune
<1>2. owed \in [Players -> Nat]
  BY <1>1 DEF TypeOK
<1>3. /\ sendq' \in [Players -> Seq(Message)] /\ owed' \in [Players -> Nat]
      /\ RefsCountHolders' /\ ref' \in [Bodies -> Nat] /\ freed' \subseteq Bodies
  <2>1. CASE Size(Head(sendq[p])) <= owed[p] /\ Sent(p)
    <3>1. owed[p] \in Nat /\ Size(Head(sendq[p])) \in Nat
      BY <1>1, PruneIs, MessageIs
    <3>2. /\ sendq' = [sendq EXCEPT ![p] = Tail(sendq[p])]
          /\ owed' = [owed EXCEPT ![p] = owed[p] - Size(Head(sendq[p]))]
          /\ LetGo(Head(sendq[p]).cache)
      BY <2>1 DEF Sent
    <3>3. owed[p] - Size(Head(sendq[p])) \in Nat
      BY <2>1, <3>1
    <3>4. owed' \in [Players -> Nat]
      BY <1>2, <3>2, <3>3
    <3> QED BY <1>1, <3>2, <3>4, SendLetGo
  <2>2. CASE \E m \in Message :
               /\ m.cache = Head(sendq[p]).cache
               /\ sendq' = [sendq EXCEPT ![p] = <<m>> \o Tail(sendq[p])]
               /\ owed' = [owed EXCEPT ![p] = 0]
               /\ UNCHANGED memory
    <3>1. PICK m \in Message :
            /\ m.cache = Head(sendq[p]).cache
            /\ sendq' = [sendq EXCEPT ![p] = <<m>> \o Tail(sendq[p])]
            /\ owed' = [owed EXCEPT ![p] = 0]
            /\ UNCHANGED memory
      BY <2>2
    <3>2. sendq' \in [Players -> Seq(Message)] /\ \A b : Unsent(b)' = Unsent(b)
      BY <1>1, <3>1, SendKeeps
    <3>3. RefsCountHolders' /\ ref' \in [Bodies -> Nat] /\ freed' \subseteq Bodies
      <4>1. UNCHANGED memory /\ UNCHANGED input /\ avc' = avc /\ job' = job
        BY <1>1, <3>1 DEF stream
      <4>2. ASSUME NEW b \in Bodies PROVE Queued(b)' = Queued(b) /\ Unsent(b)' = Unsent(b)
        BY <1>1, <3>2, QueuesKept
      <4> QED BY <1>1, <4>1, <4>2, KeepsInv
    <3> QED BY <1>2, <3>1, <3>2, <3>3
  <2> QED BY <1>1, <2>1, <2>2, PruneIs
<1>4. TypeOK'
  BY <1>1, <1>3 DEF TypeOK, input, stream, ends
<1>5. JobInv'
  BY <1>1 DEF JobInv, stream
<1> QED BY <1>3, <1>4, <1>5 DEF Inv

LEMMA FreeSendsInv ==
  ASSUME Inv, NEW p \in Players, FreeSends(p)
  PROVE  Inv'
<1>1. /\ TypeOK /\ JobInv /\ RefsCountHolders /\ sendq[p] # <<>>
      /\ LetGo(Head(sendq[p]).cache)
      /\ sendq' = [sendq EXCEPT ![p] = Tail(sendq[p])]
      /\ UNCHANGED <<input, stream, dealq, job, owed, ends, last, sent>>
  BY DEF Inv, FreeSends
<1>2. /\ sendq' \in [Players -> Seq(Message)]
      /\ RefsCountHolders' /\ ref' \in [Bodies -> Nat] /\ freed' \subseteq Bodies
  BY <1>1, SendLetGo
<1>3. TypeOK'
  BY <1>1, <1>2 DEF TypeOK, input, stream, ends
<1>4. JobInv'
  BY <1>1 DEF JobInv, stream
<1> QED BY <1>2, <1>3, <1>4 DEF Inv

LEMMA FreeDealsInv ==
  ASSUME Inv, NEW c \in Conns, FreeDeals(c)
  PROVE  Inv'
<1>0. PICK x : x = Head(dealq[c])
  OBVIOUS
<1>1. /\ TypeOK /\ JobInv /\ RefsCountHolders /\ dealq[c] # <<>>
      /\ LetGo(x)
      /\ dealq' = [dealq EXCEPT ![c] = Tail(dealq[c])]
      /\ UNCHANGED <<input, stream, job, owed, ends, output>>
  BY <1>0 DEF Inv, FreeDeals
<1>2. /\ dealq' \in [Conns -> Seq(Marked)]
      /\ \A b : Queued(b)' = Queued(b) - One(x = b)
  BY <1>0, <1>1, QueueShrinks
<1>3. ASSUME NEW b \in Bodies PROVE Holders(b)' = Holders(b) - One(x = b)
  <2>1. Unsent(b)' = Unsent(b) /\ Queued(b)' = Queued(b) - (IF x = b THEN 1 ELSE 0)
    BY <1>1, <1>2, QueuesKept DEF One, output
  <2>2. partial' = partial /\ complete' = complete /\ avc' = avc /\ job' = job
    BY <1>1 DEF input, stream
  <2>3. Holders(b)' = Holders(b) - (IF x = b THEN 1 ELSE 0)
    <3>1. TypeOK
      BY <1>1
    <3> QED BY <2>1, <2>2, <3>1, HoldersAre, HoldersNext
  <2> QED BY <2>3 DEF One
<1>4. ASSUME x \in Bodies PROVE Holders(x) # 0
  <2>1. IsFiniteSet(Conns)
    BY ConnsFinite
  <2>2. Cardinality(Places(dealq', x)) \in Nat
    BY <1>2, <2>1, PlacesFinite
  <2>3. Queued(x)' \in Nat /\ Queued(x) \in Nat
    BY <1>1, <1>4, <2>2, CountsAre DEF Queued
  <2>4. Queued(x)' = Queued(x) - 1
    BY <1>2 DEF One
  <2>5. Queued(x) # 0 /\ TypeOK
    BY <1>1, <2>3, <2>4
  <2> QED BY <1>4, <2>5, HoldersAre
<1>5. RefsCountHolders' /\ ref' \in [Bodies -> Nat] /\ freed' \subseteq Bodies
  BY <1>1, <1>3, <1>4, LetGoRefs
<1>6. TypeOK'
  BY <1>1, <1>2, <1>5 DEF TypeOK, input, stream, ends, output, Marked
<1>7. JobInv'
  BY <1>1 DEF JobInv, stream
<1> QED BY <1>5, <1>6, <1>7 DEF Inv

LEMMA FreeInputInv ==
  ASSUME Inv, NEW x \in Bodies, FreeInput(x)
  PROVE  Inv'
<1>1. /\ TypeOK /\ JobInv /\ RefsCountHolders /\ x \in partial /\ Del(x)
      /\ partial' = partial \ {x}
      /\ UNCHANGED <<complete, stream, dealq, job, owed, ends, output>>
  BY DEF Inv, FreeInput
<1>2. Holders(x) # 0
  BY <1>1, HoldersAre
<1>3. Loses(x)
  <2>1. SUFFICES ASSUME NEW b \in Bodies
        PROVE  Holders(b)' = Holders(b) - (IF b = x THEN 1 ELSE 0)
    BY DEF Loses
  <2>2. Queued(b)' = Queued(b) /\ Unsent(b)' = Unsent(b)
    BY <1>1, QueuesKept DEF output
  <2>3. b \in partial' <=> b \in partial /\ b # x
    BY <1>1
  <2>4. complete' = complete /\ avc' = avc /\ job' = job
    BY <1>1 DEF stream
  <2> QED BY <1>1, <2>2, <2>3, <2>4, HoldersAre, HoldersNext
<1>4. RefsCountHolders' /\ ref' \in [Bodies -> Nat] /\ freed' \subseteq Bodies
  BY <1>1, <1>2, <1>3, RefsLose
<1>5. TypeOK'
  BY <1>1, <1>4 DEF TypeOK, stream, ends, output
<1>6. JobInv'
  BY <1>1 DEF JobInv, stream
<1> QED BY <1>4, <1>5, <1>6 DEF Inv

-----------------------------------------------------------------------------
(* The counts of bodies, of every behaviour.                               *)

LEMMA NonePlaced ==
  ASSUME NEW q, \A c \in DOMAIN q : q[c] = <<>>, NEW b
  PROVE  Cardinality(Places(q, b)) = 0
<1>1. Places(q, b) = {}
  <2>1. ASSUME NEW x, x \in Places(q, b) PROVE FALSE
    <3>1. PICK c \in DOMAIN q : \E i \in DOMAIN q[c] : x = <<c, i>>
      BY <2>1, InPlaces
    <3>2. DOMAIN <<>> = {}
      OBVIOUS
    <3>3. DOMAIN q[c] = {}
      BY <3>1, <3>2
    <3> QED BY <3>1, <3>3
  <2> QED BY <2>1
<1> QED BY <1>1, FS_EmptySet

LEMMA InitInv == Init => Inv
<1> SUFFICES ASSUME Init PROVE Inv
  OBVIOUS
<1>1. TypeOK
  <2>1. <<>> \in Seq(Bodies \cup {"STOP"}) /\ <<>> \in Seq(Ops) /\ <<>> \in Seq(Message)
        /\ <<>> \in Seq(Nat)
    BY EmptySeq
  <2>2. /\ ref \in [Bodies -> Nat] /\ dealq \in [Conns -> Seq(Bodies \cup {"STOP"})]
        /\ sendq \in [Players -> Seq(Message)] /\ owed \in [Players -> Nat]
        /\ last \in [Players -> Nat] /\ sent \in [Players -> Seq(Nat)]
    BY <2>1 DEF Init
  <2>3. job \in Seq(Ops)
    BY <2>1 DEF Init
  <2> QED BY <2>2, <2>3 DEF Init, TypeOK
<1>2. DOMAIN job = {}
  BY DEF Init
<1>3. JobInv
  BY <1>2 DEF JobInv, Good
<1>4. RefsCountHolders
  <2>1. SUFFICES ASSUME NEW b \in Bodies PROVE ref[b] = Holders(b) /\ b \notin freed
    BY DEF RefsCountHolders
  <2>2. Queued(b) = 0
    <3>1. \A c \in DOMAIN dealq : dealq[c] = <<>>
      BY DEF Init
    <3> QED BY <3>1, NonePlaced DEF Queued
  <2>3. Unsent(b) = 0
    <3>1. \A p \in DOMAIN Caches : Caches[p] = <<>>
      <4>1. SUFFICES ASSUME NEW p \in Players
                     PROVE  [i \in DOMAIN sendq[p] |-> sendq[p][i].cache] = <<>>
        BY DEF Caches
      <4>2. DOMAIN sendq[p] = {}
        BY DEF Init
      <4> QED BY <4>2
    <3> QED BY <3>1, NonePlaced DEF Unsent
  <2>4. b \notin partial /\ b # complete /\ b # avc /\ ref[b] = 0 /\ b \notin freed
    BY DeliveryAssumption DEF Init
  <2>5. ~ Frees(job, b)
    BY <1>2 DEF Frees
  <2> QED BY <1>1, <2>2, <2>3, <2>4, <2>5, HoldersAre
<1> QED BY <1>1, <1>3, <1>4 DEF Inv

LEMMA StutterInv ==
  ASSUME Inv, UNCHANGED vars
  PROVE  Inv'
<1>1. /\ TypeOK /\ JobInv /\ RefsCountHolders
      /\ UNCHANGED <<memory, input, stream, dealq, job, owed, ends, output>>
  BY DEF Inv, vars
<1>2. RefsCountHolders' /\ ref' \in [Bodies -> Nat] /\ freed' \subseteq Bodies
  BY <1>1, QueuesKept, KeepsInv DEF stream, output
<1>3. TypeOK'
  BY <1>1, <1>2 DEF TypeOK, input, stream, ends, output
<1>4. JobInv'
  BY <1>1 DEF JobInv, stream
<1> QED BY <1>2, <1>3, <1>4 DEF Inv

LEMMA NextInv == Inv /\ [Next]_vars => Inv'
<1> SUFFICES ASSUME Inv, [Next]_vars PROVE Inv'
  OBVIOUS
<1>1. CASE Receiver
  BY <1>1, ResetChnPkgInv, BeginInv, RecvInv, RecvCtrlInv DEF Receiver
<1>2. CASE Dealer
  BY <1>2, CacheInv, ClearAvcInv, RelayInv, NoticeInv, SendDataInv, FreeMsgInv,
     DealInv, CloseInv, UnpublishInv, JoinInv, LeaveInv DEF Dealer
<1>3. CASE Sender
  BY <1>3, ReplyInv, WriteInv, PruneInv DEF Sender
<1>4. CASE Finish
  BY <1>4, FreeSendsInv, StopInv, DestroyInv, FreeDealsInv, FreeInputInv DEF Finish
<1>5. CASE UNCHANGED vars
  BY <1>5, StutterInv
<1> QED BY <1>1, <1>2, <1>3, <1>4, <1>5 DEF Next

(* The variables keep their types, and a connection is destroyed after it  *)
(* was closed: finishNode is only run for a node whose STOP was dealt with. *)
THEOREM DeliveryTyped == Spec => []TypeOK
<1>1. Spec => []Inv
  BY InitInv, NextInv, PTL DEF Spec
<1>2. Inv => TypeOK
  BY DEF Inv
<1> QED BY <1>1, <1>2, PTL

(* The count of a body is the number of its holders at every moment, and a *)
(* freed body has none: for any players, bodies and chunks.                *)
THEOREM CountsHold == Spec => []RefsCountHolders
<1>1. Spec => []Inv
  BY InitInv, NextInv, PTL DEF Spec
<1>2. Inv => RefsCountHolders
  BY DEF Inv
<1> QED BY <1>1, <1>2, PTL

-----------------------------------------------------------------------------
(* The order of the bytes, as a fact about their numbers: s has been taken *)
(* by the socket, r is in the queue, and w bytes of r are in s.            *)

Ordered(s, r, w, l) ==
  /\ Len(s) + Len(r) = w + l
  /\ \A i \in 1 .. Len(s) : s[i] = i
  /\ \A i \in 1 .. Len(r) : i > w => r[i] + w = Len(s) + i

Joined(x, s, t, m, n) ==
  /\ x = s \o t /\ x \in Seq(Nat) /\ Len(x) = m + n
  /\ \A i \in 1 .. m : x[i] = s[i]
  /\ \A i \in 1 .. n : x[m + i] = t[i]

LEMMA JoinParts ==
  ASSUME NEW s \in Seq(Nat), NEW t \in Seq(Nat), NEW m \in Nat, NEW n \in Nat,
         m = Len(s), n = Len(t)
  PROVE  Joined(s \o t, s, t, m, n)
<1>1. s \o t \in Seq(Nat) /\ Len(s \o t) = m + n
  BY JoinIs
<1>2. \A i \in 1 .. m : (s \o t)[i] = s[i]
  BY JoinIs
<1>3. \A i \in 1 .. n : (s \o t)[m + i] = t[i]
  BY JoinIs
<1> QED BY <1>1, <1>2, <1>3 DEF Joined

LEMMA OrderedIs ==
  ASSUME NEW s \in Seq(Nat), NEW r \in Seq(Nat), NEW w \in 0 .. Len(r), NEW l \in Nat,
         Ordered(s, r, w, l)
  PROVE  s \o Drop(r, w) = [i \in 1 .. l |-> i]
<1>1. PICK m \in Nat, n \in Nat : m = Len(s) /\ n = Len(r) /\ m + n = w + l /\ w \in 0 .. n
  BY LenProperties DEF Ordered, Joined
<1>2. PICK d \in Seq(Nat) :
        d = Drop(r, w) /\ Len(d) = n - w /\ \A i \in 1 .. n - w : d[i] = r[w + i]
  BY <1>1, DropIs
<1>3. PICK x : x = s \o d /\ Joined(x, s, d, m, n - w)
  <2>1. n - w \in Nat
    BY <1>1
  <2> QED BY <1>1, <1>2, <2>1, JoinParts
<1>4. DOMAIN x = 1 .. l
  <2>1. m + (n - w) = l
    BY <1>1
  <2> QED BY <1>3, <2>1, LenProperties DEF Joined
<1>5. ASSUME NEW i \in 1 .. l PROVE x[i] = i
  <2>1. CASE i <= m
    <3>1. i \in 1 .. m
      BY <1>1, <2>1
    <3> QED BY <1>1, <1>3, <3>1 DEF Ordered, Joined
  <2>2. CASE i > m
    <3>1. PICK k \in 1 .. n - w : i = m + k
      <4>1. i - m \in 1 .. n - w /\ i = m + (i - m)
        BY <1>1, <2>2
      <4> QED BY <4>1
    <3>2. x[i] = r[w + k]
      BY <1>2, <1>3, <3>1 DEF Joined
    <3>3. w + k \in 1 .. n /\ w + k > w
      BY <1>1, <3>1
    <3>4. r[w + k] + w = m + (w + k)
      BY <1>1, <3>3 DEF Ordered, Joined
    <3>5. r[w + k] \in Nat
      BY <1>1, <3>3, ElementOfSeq
    <3>6. r[w + k] = m + k
      BY <1>1, <3>1, <3>4, <3>5
    <3> QED BY <3>1, <3>2, <3>6
  <2> QED BY <1>1, <2>1, <2>2
<1>7. x = [i \in 1 .. l |-> i]
  <2>1. x \in Seq(Nat)
    BY <1>3 DEF Joined
  <2>2. x = [i \in DOMAIN x |-> x[i]]
    BY <2>1
  <2> QED BY <1>4, <1>5, <2>2
<1> QED BY <1>2, <1>3, <1>7

\* The socket takes the first n bytes of the queue.
LEMMA OrderedWrite ==
  ASSUME NEW s \in Seq(Nat), NEW r \in Seq(Nat), NEW l \in Nat, Ordered(s, r, 0, l),
         NEW n \in 0 .. Len(r), NEW x \in Seq(Nat), Len(x) = n,
         \A i \in 1 .. n : x[i] = r[i]
  PROVE  Ordered(s \o x, r, n, l)
<1>1. PICK m \in Nat, k \in Nat : m = Len(s) /\ k = Len(r) /\ m + k = l /\ n \in 0 .. k /\ n \in Nat
  BY LenProperties DEF Ordered, Joined
<1>2. PICK t : t = s \o x /\ Joined(t, s, x, m, n)
  BY <1>1, JoinParts
<1>3. ASSUME NEW i \in 1 .. k PROVE r[i] = m + i
  <2>1. r[i] + 0 = m + i /\ r[i] \in Nat
    BY <1>1, ElementOfSeq DEF Ordered, Joined
  <2> QED BY <2>1
<1>4. ASSUME NEW i \in 1 .. m + n PROVE t[i] = i
  <2>1. CASE i <= m
    <3>1. i \in 1 .. m
      BY <1>1, <2>1
    <3> QED BY <1>1, <1>2, <3>1 DEF Ordered, Joined
  <2>2. CASE i > m
    <3>1. PICK j \in 1 .. n : i = m + j
      <4>1. i - m \in 1 .. n /\ i = m + (i - m)
        BY <1>1, <2>2
      <4> QED BY <4>1
    <3>2. t[i] = r[j] /\ j \in 1 .. k
      BY <1>1, <1>2, <3>1
    <3> QED BY <1>3, <3>1, <3>2
  <2> QED BY <1>1, <2>1, <2>2
<1>5. ASSUME NEW i \in 1 .. k, i > n PROVE r[i] + n = (m + n) + i
  <2>1. r[i] = m + i
    BY <1>3
  <2> QED BY <1>1, <2>1
<1>6. (m + n) + k = n + l
  <2>1. m \in Nat /\ k \in Nat /\ n \in Nat /\ l \in Nat /\ m + k = l
    BY <1>1
  <2> QED BY ONLY <2>1
<1> QED BY <1>1, <1>2, <1>4, <1>5, <1>6 DEF Ordered, Joined

\* A message is queued behind the others.
LEMMA OrderedQueue ==
  ASSUME NEW s \in Seq(Nat), NEW r \in Seq(Nat), NEW l \in Nat, NEW w \in 0 .. Len(r),
         Ordered(s, r, w, l), NEW x \in Seq(Nat), \A i \in 1 .. Len(x) : x[i] = l + i
  PROVE  Ordered(s, r \o x, w, l + Len(x)) /\ w \in 0 .. Len(r \o x)
<1>1. PICK m \in Nat, k \in Nat, n \in Nat :
        m = Len(s) /\ k = Len(r) /\ n = Len(x) /\ m + k = w + l /\ w \in 0 .. k
  BY LenProperties DEF Ordered, Joined
<1>2. PICK t : t = r \o x /\ Joined(t, r, x, k, n)
  BY <1>1, JoinParts
<1>3. ASSUME NEW i \in 1 .. k + n, i > w PROVE t[i] + w = m + i
  <2>1. CASE i <= k
    <3>1. i \in 1 .. k
      BY <1>1, <2>1
    <3> QED BY <1>1, <1>2, <1>3, <3>1 DEF Ordered, Joined
  <2>2. CASE i > k
    <3>1. PICK j \in 1 .. n : i = k + j
      <4>1. i - k \in 1 .. n /\ i = k + (i - k)
        BY <1>1, <2>2
      <4> QED BY <4>1
    <3>2. t[i] = l + j
      BY <1>1, <1>2, <3>1 DEF Joined
    <3>3. /\ m \in Nat /\ k \in Nat /\ w \in Nat /\ l \in Nat /\ j \in Nat
          /\ m + k = w + l /\ i = k + j
      BY <1>1, <3>1
    <3>4. (l + j) + w = m + (k + j)
      BY ONLY <3>3
    <3> QED BY <3>1, <3>2, <3>4
  <2> QED BY <1>1, <2>1, <2>2
<1>4. m + (k + n) = w + (l + n) /\ w \in 0 .. k + n
  <2>1. /\ m \in Nat /\ k \in Nat /\ n \in Nat /\ l \in Nat
        /\ w \in 0 .. k /\ m + k = w + l
    BY <1>1
  <2> QED BY ONLY <2>1
<1> QED BY <1>1, <1>2, <1>3, <1>4 DEF Ordered, Joined

\* The first message is taken from the queue, with the bytes sent of it ...
LEMMA OrderedSent ==
  ASSUME NEW s \in Seq(Nat), NEW f \in Seq(Nat), NEW t \in Seq(Nat), NEW l \in Nat,
         NEW w \in 0 .. Len(f \o t), Len(f) <= w, Ordered(s, f \o t, w, l)
  PROVE  Ordered(s, t, w - Len(f), l) /\ w - Len(f) \in 0 .. Len(t)
<1>1. PICK m \in Nat, k \in Nat, n \in Nat : m = Len(s) /\ k = Len(f) /\ n = Len(t)
  BY LenProperties
<1>2. PICK r : r = f \o t /\ Joined(r, f, t, k, n)
  BY <1>1, JoinParts
<1>3. w \in 0 .. k + n /\ k <= w /\ m + (k + n) = w + l
  BY <1>1, <1>2 DEF Ordered, Joined
<1>4. ASSUME NEW i \in 1 .. n, i > w - k PROVE t[i] + (w - k) = m + i
  <2>1. k + i \in 1 .. k + n /\ k + i > w
    BY <1>1, <1>3, <1>4
  <2>2. t[i] + w = m + (k + i)
    BY <1>1, <1>2, <2>1 DEF Ordered, Joined
  <2>3. t[i] \in Nat
    BY <1>1, ElementOfSeq
  <2>4. PICK y \in Nat : y = t[i]
    BY <2>3
  <2>5. /\ w \in Nat /\ k \in Nat /\ m \in Nat /\ i \in Nat /\ y \in Nat
        /\ y + w = m + (k + i)
    BY <1>1, <1>3, <2>2, <2>4
  <2>6. y + (w - k) = m + i
    BY ONLY <2>5
  <2> QED BY <2>4, <2>6
<1>5. m + n = (w - k) + l /\ w - k \in 0 .. n
  BY <1>1, <1>3
<1> QED BY <1>1, <1>4, <1>5 DEF Ordered, Joined

After(g, f, w) == Len(g) = Len(f) - w /\ \A i \in 1 .. Len(f) - w : g[i] = f[w + i]

\* ... or what is left of it stays in front.
LEMMA OrderedRemains ==
  ASSUME NEW s \in Seq(Nat), NEW f \in Seq(Nat), NEW t \in Seq(Nat), NEW l \in Nat,
         NEW w \in Nat, w < Len(f), Ordered(s, f \o t, w, l),
         NEW g \in Seq(Nat), After(g, f, w)
  PROVE  Ordered(s, g \o t, 0, l)
<1>1. PICK m \in Nat, k \in Nat, n \in Nat : m = Len(s) /\ k = Len(f) /\ n = Len(t)
  BY LenProperties
<1>2. PICK r : r = f \o t /\ Joined(r, f, t, k, n)
  BY <1>1, JoinParts
<1>3. PICK h \in Nat : h = k - w /\ Len(g) = h /\ \A i \in 1 .. h : g[i] = f[w + i]
  <2>1. k - w \in Nat
    BY <1>1
  <2> QED BY <1>1, <2>1 DEF After
<1>4. PICK q : q = g \o t /\ Joined(q, g, t, h, n)
  BY <1>1, <1>3, JoinParts
<1>5. w < k /\ m + (k + n) = w + l
  BY <1>1, <1>2 DEF Ordered, Joined
<1>6. ASSUME NEW i \in 1 .. h + n PROVE q[i] = r[w + i]
  <2>1. CASE i <= h
    <3>1. i \in 1 .. h /\ w + i \in 1 .. k
      <4>1. /\ w \in Nat /\ k \in Nat /\ h \in Nat /\ h = k - w
            /\ i \in 1 .. h + n /\ n \in Nat /\ i <= h
        BY <1>1, <1>3, <2>1
      <4> QED BY ONLY <4>1
    <3> QED BY <1>2, <1>3, <1>4, <3>1 DEF Joined
  <2>2. CASE i > h
    <3>1. PICK j \in 1 .. n : i = h + j /\ w + i = k + j
      <4>1. i - h \in 1 .. n /\ i = h + (i - h) /\ w + i = k + (i - h)
        BY <1>1, <1>3, <2>2
      <4> QED BY <4>1
    <3> QED BY <1>2, <1>4, <3>1 DEF Joined
  <2> QED BY <1>3, <2>1, <2>2
<1>7. ASSUME NEW i \in 1 .. h + n PROVE q[i] + 0 = m + i
  <2>1. w + i \in 1 .. k + n /\ w + i > w
    BY <1>1, <1>3, <1>5
  <2>2. r[w + i] + w = m + (w + i)
    BY <1>1, <1>2, <2>1 DEF Ordered, Joined
  <2>3. q[i] \in Nat
    BY <1>4, ElementOfSeq DEF Joined
  <2>4. PICK y \in Nat : y = q[i] /\ y = r[w + i]
    BY <1>6, <2>3
  <2>5. w \in Nat /\ m \in Nat /\ i \in Nat /\ y \in Nat /\ y + w = m + (w + i)
    BY <1>1, <1>3, <2>2, <2>4
  <2>6. y + 0 = m + i
    BY ONLY <2>5
  <2> QED BY <2>4, <2>6
<1>8. m + (h + n) = 0 + l
  BY <1>1, <1>3, <1>5
<1> QED BY <1>1, <1>4, <1>7, <1>8 DEF Ordered, Joined

-----------------------------------------------------------------------------
(* The bytes of a player keep their order.                                 *)

BytesAt(p) ==
  /\ owed[p] \in 0 .. Len(Rest(sendq[p]))
  /\ Ordered(sent[p], Rest(sendq[p]), owed[p], last[p])

BytesInv == \A p \in Players \ gone : BytesAt(p)

\* A step that concerns no player but p.
Others(p) ==
  /\ gone' = gone
  /\ \A q \in Players : q # p =>
       /\ sendq'[q] = sendq[q] /\ owed'[q] = owed[q]
       /\ sent'[q] = sent[q] /\ last'[q] = last[q]

LEMMA OthersBytes ==
  ASSUME BytesInv, NEW p \in Players, Others(p), p \in gone \/ BytesAt(p)'
  PROVE  BytesInv'
<1>1. SUFFICES ASSUME NEW q \in Players, q \notin gone PROVE BytesAt(q)'
  BY DEF BytesInv, Others
<1>2. CASE q = p
  BY <1>1, <1>2
<1>3. CASE q # p
  <2>1. BytesAt(q)
    BY <1>1 DEF BytesInv
  <2>2. sendq'[q] = sendq[q] /\ owed'[q] = owed[q] /\ sent'[q] = sent[q] /\ last'[q] = last[q]
    BY <1>3 DEF Others
  <2> QED BY <2>1, <2>2 DEF BytesAt
<1> QED BY <1>2, <1>3

LEMMA SameBytes ==
  ASSUME BytesInv, UNCHANGED <<owed, output>>, gone \subseteq gone'
  PROVE  BytesInv'
BY DEF BytesInv, BytesAt, output

LEMMA BytesAre ==
  ASSUME TypeOK, NEW p \in Players
  PROVE  /\ sendq[p] \in Seq(Message) /\ sent[p] \in Seq(Nat) /\ last[p] \in Nat
         /\ owed[p] \in Nat /\ Rest(sendq[p]) \in Seq(Nat)
<1>1. /\ sendq[p] \in Seq(Message) /\ sent[p] \in Seq(Nat) /\ last[p] \in Nat
      /\ owed[p] \in Nat
  BY DEF TypeOK
<1> QED BY <1>1, BitsType

LEMMA QueueBytes ==
  ASSUME TypeOK, BytesInv, NEW p \in Players, NEW h \in Nat, NEW n \in Nat, NEW x \in Cached,
         Queue(p, h, n, x), owed' = owed, gone' = gone
  PROVE  BytesInv'
<1>1. /\ sendq \in [Players -> Seq(Message)] /\ last \in [Players -> Nat]
  BY DEF TypeOK
<1>2. PICK m : m = [head |-> Bytes(p, 0, h), body |-> Bytes(p, h, n), cache |-> x]
  OBVIOUS
<1>3. /\ sendq' = [sendq EXCEPT ![p] = Append(sendq[p], m)] /\ sent' = sent
      /\ last' = [last EXCEPT ![p] = last[p] + h + n]
  BY <1>2 DEF Queue
<1>4. Others(p)
  BY <1>1, <1>3 DEF Others
<1>5. ASSUME p \notin gone PROVE BytesAt(p)'
  <2>1. PICK q \in Seq(Message), s \in Seq(Nat), r \in Seq(Nat), l \in Nat, w \in Nat :
          q = sendq[p] /\ s = sent[p] /\ r = Rest(q) /\ l = last[p] /\ w = owed[p]
    BY BytesAre
  <2>2. w \in 0 .. Len(r) /\ Ordered(s, r, w, l)
    BY <1>5, <2>1 DEF BytesInv, BytesAt
  <2>3. PICK y \in Seq(Nat), z \in Seq(Nat) :
          /\ y = m.head /\ z = m.body /\ Len(y) = h /\ Len(z) = n
          /\ \A i \in 1 .. h : y[i] = l + i
          /\ \A i \in 1 .. n : z[i] = l + h + i
    <3>1. m.head = Bytes(p, 0, h) /\ m.body = Bytes(p, h, n)
      BY <1>2
    <3>2. PICK y \in Seq(Nat) : y = m.head /\ Len(y) = h /\ \A i \in 1 .. h : y[i] = l + i
      <4>1. PICK k \in Nat : k = 0
        OBVIOUS
      <4>2. PICK y \in Seq(Nat) : y = Bytes(p, k, h) /\ Len(y) = h
              /\ \A i \in 1 .. h : y[i] = last[p] + k + i
        BY <1>1, <4>1, BytesType
      <4>3. ASSUME NEW i \in 1 .. h PROVE y[i] = l + i
        <5>1. y[i] = l + k + i
          BY <2>1, <4>2
        <5>2. l \in Nat /\ k = 0 /\ l + k + i = l + i
          BY <2>1, <4>1
        <5> QED BY <5>1, <5>2
      <4> QED BY <3>1, <4>1, <4>2, <4>3
    <3>3. PICK z \in Seq(Nat) : z = m.body /\ Len(z) = n /\ \A i \in 1 .. n : z[i] = last[p] + h + i
      BY <1>1, <3>1, BytesType
    <3>4. \A i \in 1 .. n : z[i] = l + h + i
      BY <2>1, <3>3
    <3> QED BY <3>2, <3>3, <3>4
  <2>4. m \in Message
    BY <1>2, <2>3 DEF Message, Cached
  <2>5. PICK v : v = y \o z /\ Joined(v, y, z, h, n)
    BY <2>3, JoinParts
  <2>6. ASSUME NEW i \in 1 .. h + n PROVE v[i] = l + i
    <3>1. CASE i <= h
      <4>1. i \in 1 .. h
        BY <3>1
      <4> QED BY <2>3, <2>5, <4>1 DEF Joined
    <3>2. CASE i > h
      <4>1. PICK j \in 1 .. n : i = h + j
        <5>1. i - h \in 1 .. n /\ i = h + (i - h)
          BY <3>2
        <5> QED BY <5>1
      <4>2. v[i] = l + h + j
        BY <2>3, <2>5, <4>1 DEF Joined
      <4>3. l \in Nat /\ h \in Nat /\ j \in Nat /\ i = h + j
        BY <2>1, <4>1
      <4>4. l + h + j = l + i
        BY ONLY <4>3
      <4> QED BY <4>2, <4>4
    <3> QED BY <3>1, <3>2
  <2>7. v \in Seq(Nat) /\ Len(v) = h + n
    BY <2>5 DEF Joined
  <2>8. Ordered(s, r \o v, w, l + Len(v)) /\ w \in 0 .. Len(r \o v)
    <3>1. \A i \in 1 .. Len(v) : v[i] = l + i
      BY <2>6, <2>7
    <3> QED BY <2>1, <2>2, <2>7, <3>1, OrderedQueue
  <2>9. Rest(sendq'[p]) = r \o v
    <3>1. sendq'[p] = Append(q, m)
      BY <1>1, <1>3, <2>1
    <3>2. Rest(Append(q, m)) = Rest(q) \o (m.head \o m.body)
      BY <2>1, <2>4, RestAppend
    <3> QED BY <2>1, <2>3, <2>5, <3>1, <3>2
  <2>10. last'[p] = l + Len(v)
    <3>1. last'[p] = l + h + n
      BY <1>1, <1>3, <2>1
    <3>2. l \in Nat /\ l + h + n = l + (h + n)
      BY <2>1
    <3> QED BY <2>7, <3>1, <3>2
  <2>11. sent'[p] = s /\ owed'[p] = w
    BY <1>3, <2>1
  <2> QED BY <2>8, <2>9, <2>10, <2>11 DEF BytesAt
<1> QED BY <1>4, <1>5, OthersBytes

LEMMA WriteBytes ==
  ASSUME TypeOK, BytesInv, NEW p \in Players, Write(p)
  PROVE  BytesInv'
<1>1. sent \in [Players -> Seq(Nat)] /\ owed \in [Players -> Nat]
  BY DEF TypeOK
<1>2. p \notin gone /\ owed[p] = 0 /\ sendq' = sendq /\ last' = last /\ gone' = gone
  BY DEF Write, ends
<1>3. PICK n \in Nat, x \in Seq(Nat) :
        /\ sent' = [sent EXCEPT ![p] = sent[p] \o x]
        /\ owed' = [owed EXCEPT ![p] = n]
        /\ Len(x) = n /\ n <= Len(Rest(sendq[p]))
        /\ \A i \in 1 .. n : x[i] = Rest(sendq[p])[i]
  BY WriteIs
<1>4. Others(p)
  BY <1>1, <1>2, <1>3 DEF Others
<1>5. PICK s \in Seq(Nat), r \in Seq(Nat), l \in Nat :
        s = sent[p] /\ r = Rest(sendq[p]) /\ l = last[p]
  BY BytesAre
<1>6. Ordered(s, r, 0, l)
  BY <1>2, <1>5 DEF BytesInv, BytesAt
<1>7. n \in 0 .. Len(r)
  <2>1. Len(r) \in Nat
    BY <1>5, LenProperties
  <2> QED BY <1>3, <1>5, <2>1
<1>8. Ordered(s \o x, r, n, l)
  <2>1. \A i \in 1 .. n : x[i] = r[i]
    BY <1>3, <1>5
  <2> QED BY <1>3, <1>5, <1>6, <1>7, <2>1, OrderedWrite
<1>9. BytesAt(p)'
  <2>1. sent'[p] = s \o x /\ owed'[p] = n /\ Rest(sendq'[p]) = r /\ last'[p] = l
    BY <1>1, <1>2, <1>3, <1>5
  <2> QED BY <1>7, <1>8, <2>1 DEF BytesAt
<1> QED BY <1>4, <1>9, OthersBytes

LEMMA PruneBytes ==
  ASSUME TypeOK, BytesInv, NEW p \in Players, Prune(p)
  PROVE  BytesInv'
<1>1. sendq \in [Players -> Seq(Message)] /\ owed \in [Players -> Nat]
  BY DEF TypeOK
<1>2. last' = last /\ sent' = sent /\ gone' = gone
  BY DEF Prune, ends
<1>3. PICK q \in Seq(Message), f \in Message, u \in Seq(Message), w \in Nat :
        /\ q = sendq[p] /\ q # <<>> /\ f = Head(sendq[p]) /\ u = Tail(sendq[p])
        /\ w = owed[p]
  BY PruneIs
<1>4. PICK s \in Seq(Nat), l \in Nat : s = sent[p] /\ l = last[p]
  BY BytesAre
<1>5. PICK x \in Seq(Nat), t \in Seq(Nat) :
        /\ x = f.head \o f.body /\ t = Rest(u) /\ Rest(q) = x \o t /\ Len(x) = Size(f)
        /\ Size(f) \in Nat
  <2>1. f.head \o f.body \in Seq(Nat) /\ f.head \in Seq(Nat) /\ f.body \in Seq(Nat)
    BY <1>3, MessageIs
  <2>2. Len(f.head \o f.body) = Size(f) /\ Len(f.head) \in Nat /\ Len(f.body) \in Nat
    BY <2>1, JoinIs, LenProperties DEF Size
  <2>3. Rest(u) \in Seq(Nat) /\ Size(f) \in Nat
    <3>1. Rest(u) \in Seq(Nat)
      BY <1>3, BitsType
    <3>2. Size(f) \in Nat
      BY <2>1, <2>2, LenProperties
    <3> QED BY <3>1, <3>2
  <2>4. Rest(q) = (f.head \o f.body) \o Rest(u)
    BY <1>3, RestHead
  <2> QED BY <2>1, <2>2, <2>3, <2>4
<1>6. CASE Size(f) <= w /\ Sent(p)
  <2>1. /\ sendq' = [sendq EXCEPT ![p] = u]
        /\ owed' = [owed EXCEPT ![p] = w - Size(f)]
    BY <1>3, <1>6 DEF Sent
  <2>2. Others(p)
    BY <1>1, <1>2, <2>1 DEF Others
  <2>3. ASSUME p \notin gone PROVE BytesAt(p)'
    <3>1. w \in 0 .. Len(x \o t) /\ Ordered(s, x \o t, w, l) /\ Len(x) <= w
      BY <1>3, <1>4, <1>5, <1>6, <2>3 DEF BytesInv, BytesAt
    <3>2. Ordered(s, t, w - Len(x), l) /\ w - Len(x) \in 0 .. Len(t)
      BY <1>4, <1>5, <3>1, OrderedSent
    <3>3. /\ sent'[p] = s /\ last'[p] = l /\ owed'[p] = w - Len(x)
          /\ Rest(sendq'[p]) = t
      BY <1>1, <1>2, <1>4, <1>5, <2>1
    <3> QED BY <3>2, <3>3 DEF BytesAt
  <2> QED BY <2>2, <2>3, OthersBytes
<1>7. CASE \E m \in Message :
             /\ w < Size(f)
             /\ m.head \o m.body \in Seq(Nat)
             /\ IsLeft(m.head \o m.body, f, w)
             /\ sendq' = [sendq EXCEPT ![p] = <<m>> \o u]
             /\ owed' = [owed EXCEPT ![p] = 0]
  <2>1. PICK m \in Message :
          /\ w < Size(f)
          /\ m.head \o m.body \in Seq(Nat)
          /\ IsLeft(m.head \o m.body, f, w)
          /\ sendq' = [sendq EXCEPT ![p] = <<m>> \o u]
          /\ owed' = [owed EXCEPT ![p] = 0]
    BY <1>7
  <2>2. Others(p)
    BY <1>1, <1>2, <2>1 DEF Others
  <2>3. PICK g \in Seq(Nat) : g = m.head \o m.body /\ IsLeft(g, f, w)
    BY <2>1
  <2>4. ASSUME p \notin gone PROVE BytesAt(p)'
    <3>1. Ordered(s, x \o t, w, l) /\ w < Len(x)
      BY <1>3, <1>4, <1>5, <2>1, <2>4 DEF BytesInv, BytesAt
    <3>2. After(g, x, w)
      BY <1>5, <2>3 DEF IsLeft, After
    <3>3. Ordered(s, g \o t, 0, l)
      BY <1>3, <1>4, <1>5, <2>3, <3>1, <3>2, OrderedRemains
    <3>4. Rest(<<m>> \o u) = g \o t
      BY <1>3, <1>5, <2>1, <2>3, RestCons
    <3>5. /\ sent'[p] = s /\ last'[p] = l /\ owed'[p] = 0 /\ Rest(sendq'[p]) = g \o t
      BY <1>1, <1>2, <1>4, <2>1, <3>4
    <3>6. 0 \in 0 .. Len(g \o t)
      <4>1. Len(g \o t) \in Nat
        BY <1>5, <2>3, JoinIs, LenProperties
      <4> QED BY <4>1
    <3> QED BY <3>3, <3>5, <3>6 DEF BytesAt
  <2> QED BY <2>2, <2>4, OthersBytes
<1>8. (Size(f) <= w /\ Sent(p))
        \/ \E m \in Message :
             /\ w < Size(f)
             /\ m.head \o m.body \in Seq(Nat)
             /\ IsLeft(m.head \o m.body, f, w)
             /\ sendq' = [sendq EXCEPT ![p] = <<m>> \o u]
             /\ owed' = [owed EXCEPT ![p] = 0]
  BY <1>3, PruneIs, MessageIs
<1> QED BY <1>6, <1>7, <1>8

LEMMA FreeSendsBytes ==
  ASSUME TypeOK, BytesInv, NEW p \in Players, FreeSends(p)
  PROVE  BytesInv'
<1>1. sendq \in [Players -> Seq(Message)]
  BY DEF TypeOK
<1>2. /\ p \in gone /\ sendq' = [sendq EXCEPT ![p] = Tail(sendq[p])]
      /\ owed' = owed /\ last' = last /\ sent' = sent /\ gone' = gone
  BY DEF FreeSends, ends
<1>3. Others(p)
  BY <1>1, <1>2 DEF Others
<1> QED BY <1>2, <1>3, OthersBytes

LEMMA InitBytes == Init => BytesInv
<1> SUFFICES ASSUME Init, NEW p \in Players PROVE BytesAt(p)
  BY DEF BytesInv
<1>1. sent[p] = <<>> /\ sendq[p] = <<>> /\ last[p] = 0 /\ owed[p] = 0
  BY DEF Init
<1>2. Rest(<<>>) = <<>>
  <2>1. Bits(<<>>) = <<>> /\ <<>> \in Seq(Message)
    BY DEF Bits
  <2>2. FlattenSeq(<<>>) = <<>>
    BY DEF FlattenSeq
  <2> QED BY <2>1, <2>2, BitsType
<1>3. Len(<<>>) = 0
  BY EmptySeq
<1> QED BY <1>1, <1>2, <1>3 DEF BytesAt, Ordered

LEMMA NextBytes == Inv /\ BytesInv /\ [Next]_vars => BytesInv'
<1> SUFFICES ASSUME Inv, BytesInv, [Next]_vars PROVE BytesInv'
  OBVIOUS
<1>1. TypeOK
  BY DEF Inv
<1>2. CASE Receiver
  BY <1>2, SameBytes
     DEF Receiver, ResetChnPkg, Begin, Recv, RecvCtrl, ends
<1>3. CASE Dealer
  <2>1. CASE SendData
    <3>1. /\ TypeOK /\ job # <<>> /\ Head(job).op = "send" /\ owed' = owed /\ gone' = gone
          /\ Queue(Head(job).to, Chunks[Head(job).i].head, Chunks[Head(job).i].body, Head(job).body)
      BY <1>1, <2>1 DEF SendData, Doing, Idle, ends
    <3>2. IsWork(Head(job)) /\ Head(job).body \in Cached
      BY <3>1, JobHead, WorkHeld DEF Inv, Cached
    <3>3. PICK p \in Players, h \in Nat, n \in Nat :
            p = Head(job).to /\ h = Chunks[Head(job).i].head /\ n = Chunks[Head(job).i].body
      BY <3>1, <3>2, ChunksAre DEF IsWork
    <3> QED BY <3>1, <3>2, <3>3, QueueBytes
  <2>2. CASE ~ SendData
    BY <1>3, <2>2, SameBytes
       DEF Dealer, Cache, ClearAvc, Relay, Notice, FreeMsg, Deal, Close, Unpublish,
           Join, Leave, ends
  <2> QED BY <2>1, <2>2
<1>4. CASE Sender
  <2>1. PICK p \in Players : Reply(p) \/ Write(p) \/ Prune(p)
    BY <1>4 DEF Sender
  <2>2. CASE Reply(p)
    <3>1. /\ Queue(p, 1, 0, NoBody) /\ NoBody \in Cached /\ owed' = owed /\ gone' = gone
      BY <2>2 DEF Reply, Cached, ends
    <3> QED BY <1>1, <3>1, QueueBytes
  <2> QED BY <1>1, <2>1, <2>2, WriteBytes, PruneBytes
<1>5. CASE Finish
  <2>1. CASE \E p \in Players : FreeSends(p)
    BY <1>1, <2>1, FreeSendsBytes
  <2>2. CASE \E c \in Conns : Stop(c) \/ Destroy(c) \/ FreeDeals(c)
    BY <2>2, SameBytes DEF Stop, Destroy, FreeDeals, ends
  <2>3. CASE \E b \in Bodies : FreeInput(b)
    BY <2>3, SameBytes DEF FreeInput, ends
  <2> QED BY <1>5, <2>1, <2>2, <2>3 DEF Finish
<1>6. CASE UNCHANGED vars
  BY <1>6, SameBytes DEF vars, ends
<1> QED BY <1>2, <1>3, <1>4, <1>5, <1>6 DEF Next

(* A socket has taken the bytes queued for its player in their order, and  *)
(* the queue and prune hold exactly those it has yet to take, for chunks   *)
(* of any sizes and writes that end anywhere.                              *)
THEOREM NoByteLost == Spec => []BytesInOrder
<1>1. Spec => [](Inv /\ BytesInv)
  <2>1. Init => Inv /\ BytesInv
    BY InitInv, InitBytes
  <2>2. Inv /\ BytesInv /\ [Next]_vars => Inv' /\ BytesInv'
    BY NextInv, NextBytes
  <2> QED BY <2>1, <2>2, PTL DEF Spec
<1>2. Inv /\ BytesInv => BytesInOrder
  <2>1. SUFFICES ASSUME Inv, BytesInv, NEW p \in Players, p \notin gone
        PROVE  sent[p] \o Drop(Rest(sendq[p]), owed[p]) = [i \in 1 .. last[p] |-> i]
    BY DEF BytesInOrder
  <2>2. BytesAt(p) /\ TypeOK
    BY <2>1 DEF Inv, BytesInv
  <2> QED BY <2>2, BytesAre, OrderedIs DEF BytesAt
<1> QED BY <1>1, <1>2, PTL
=============================================================================
