---------------------------- MODULE HKSV_proofs ----------------------------
(***************************************************************************)
(* Configurations of cameras come back from TLV8 with texts and lists of   *)
(* any length (HKSVMessages); before that, what proofs about bytes that    *)
(* are written one after the other share.                                  *)
(***************************************************************************)
EXTENDS Wire, SequenceTheorems, WellFoundedInduction, TLAPS

(* A set that has 0, and with every number the next one, has them all: what *)
(* the proofs by induction below rest on.                                   *)
LEMMA NumbersFollow ==
  ASSUME NEW T, 0 \in T, \A n \in Nat : n \in T => n + 1 \in T
  PROVE  \A n \in Nat : n \in T
<1> DEFINE R == OpToRel(<, Nat)
           U == {n \in Nat : n \notin T}
<1> SUFFICES ASSUME U # {} PROVE FALSE
  OBVIOUS
<1>1. IsWellFoundedOn(R, Nat)
  BY NatLessThanWellFounded, Zenon
<1>2. R = {pair \in Nat \X Nat : pair[1] < pair[2]}
  BY Zenon DEF OpToRel
<1> HIDE DEF R
<1>3. PICK m \in U : \A n \in U : ~ (<<n, m>> \in R)
  BY <1>1, WFMin
<1>4. m \in Nat /\ m \notin T /\ m # 0
  OBVIOUS
<1>5. m - 1 \in Nat /\ m - 1 + 1 = m
  BY <1>4
<1>6. <<m - 1, m>> \in R
  BY <1>2, <1>4, <1>5
<1>7. m - 1 \in T
  BY <1>3, <1>5, <1>6
<1> QED  BY <1>4, <1>5, <1>7

(* Sequences, one after the other. *)
Flat(s) == TLV!FlattenSeq(s)

Partial(g, s, n) == g = [i \in 1 .. n |-> IF i = 1 THEN s[i] ELSE g[i - 1] \o s[i]]

(* What comes of the first sequences can be written down, however many. *)
LEMMA PartialExists == \A n \in Nat : \A s : \E g : Partial(g, s, n)
<1> DEFINE T == {n \in Nat : \A s : \E g : Partial(g, s, n)}
<1>1. 0 \in T
  <2>1. ASSUME NEW s PROVE \E g : Partial(g, s, 0)
    <3>1. Partial([i \in 1 .. 0 |-> i], s, 0)
      BY DEF Partial
    <3> QED  BY <3>1
  <2> QED  BY <2>1
<1>2. ASSUME NEW n \in Nat, n \in T PROVE n + 1 \in T
  <2>1. ASSUME NEW s PROVE \E g : Partial(g, s, n + 1)
    <3>1. PICK g : Partial(g, s, n)
      BY <1>2
    <3> DEFINE h == [i \in 1 .. n + 1 |-> IF i = 1 THEN s[i] ELSE g[i - 1] \o s[i]]
    <3>2. \A i \in 1 .. n : h[i] = g[i]
      <4> SUFFICES ASSUME NEW i \in 1 .. n PROVE h[i] = g[i]
        OBVIOUS
      <4>1. h[i] = IF i = 1 THEN s[i] ELSE g[i - 1] \o s[i]
        OBVIOUS
      <4>2. g[i] = IF i = 1 THEN s[i] ELSE g[i - 1] \o s[i]
        BY <3>1, Zenon DEF Partial
      <4> QED  BY <4>1, <4>2
    <3>3. \A i \in 1 .. n + 1 : h[i] = IF i = 1 THEN s[i] ELSE h[i - 1] \o s[i]
      <4> SUFFICES ASSUME NEW i \in 1 .. n + 1
                   PROVE  h[i] = IF i = 1 THEN s[i] ELSE h[i - 1] \o s[i]
        OBVIOUS
      <4>1. h[i] = IF i = 1 THEN s[i] ELSE g[i - 1] \o s[i]
        OBVIOUS
      <4> HIDE DEF h
      <4>2. i # 1 => i - 1 \in 1 .. n
        OBVIOUS
      <4>3. i # 1 => h[i - 1] = g[i - 1]
        BY <3>2, <4>2
      <4> QED  BY <4>1, <4>3
    <3>4. h = [i \in 1 .. n + 1 |-> IF i = 1 THEN s[i] ELSE h[i - 1] \o s[i]]
      BY <3>3
    <3> HIDE DEF h
    <3> QED  BY <3>4 DEF Partial
  <2> QED  BY <2>1
<1> HIDE DEF T
<1>3. \A n \in Nat : n \in T
  BY <1>1, <1>2, NumbersFollow
<1> QED  BY <1>3 DEF T

(* What SequencesExt's recursive function computes, from its CHOOSE. *)
LEMMA FlatIs ==
  ASSUME NEW s, Len(s) \in Nat
  PROVE  \E g : Partial(g, s, Len(s)) /\ Flat(s) = IF Len(s) = 0 THEN s ELSE g[Len(s)]
<1> DEFINE f[i \in 1 .. Len(s)] == IF i = 1 THEN s[i] ELSE f[i - 1] \o s[i]
<1>1. \E g : g = [i \in 1 .. Len(s) |-> IF i = 1 THEN s[i] ELSE g[i - 1] \o s[i]]
  BY PartialExists DEF Partial
<1>2. f = [i \in 1 .. Len(s) |-> IF i = 1 THEN s[i] ELSE f[i - 1] \o s[i]]
  BY <1>1, Zenon DEF f
<1>3. Flat(s) = IF Len(s) = 0 THEN s ELSE f[Len(s)]
  BY Zenon DEF Flat, TLV!FlattenSeq, f
<1> QED  BY <1>2, <1>3, Zenon DEF Partial

(* The same up to a bound. *)
LEMMA NumbersUpTo ==
  ASSUME NEW T, NEW n \in Nat, 0 \in T, \A k \in 0 .. n : k \in T /\ k < n => k + 1 \in T
  PROVE  \A k \in 0 .. n : k \in T
<1> DEFINE U == {k \in Nat : k <= n => k \in T}
<1>1. 0 \in U
  OBVIOUS
<1>2. ASSUME NEW k \in Nat, k \in U PROVE k + 1 \in U
  BY <1>2
<1> HIDE DEF U
<1>3. \A k \in Nat : k \in U
  BY <1>1, <1>2, NumbersFollow
<1> QED  BY <1>3 DEF U

(* Of no sequences comes none. *)
LEMMA FlatEmpty == Flat(<<>>) = <<>>
<1>1. Len(<<>>) = 0
  OBVIOUS
<1> QED  BY <1>1, FlatIs

LEMMA FlatEmptyLen == Len(Flat(<<>>)) = 0
<1>1. Len(<<>>) = 0
  OBVIOUS
<1> QED  BY <1>1, FlatEmpty, Zenon

(* What is in a partial result. *)
LEMMA PartialValue ==
  ASSUME NEW s, NEW g, NEW n \in Nat, Partial(g, s, n), NEW i \in 1 .. n
  PROVE  g[i] = IF i = 1 THEN s[i] ELSE g[i - 1] \o s[i]
  BY Zenon DEF Partial

(* Sequences that agree have the same partial results as far as they do. *)
LEMMA PartialsAgree ==
  ASSUME NEW s, NEW t, NEW g, NEW h, NEW n \in Nat, NEW m \in Nat, n <= m,
         Partial(g, s, n), Partial(h, t, m), \A i \in 1 .. n : s[i] = t[i]
  PROVE  \A i \in 1 .. n : g[i] = h[i]
<1> DEFINE T == {k \in 0 .. n : k = 0 \/ g[k] = h[k]}
<1>1. 0 \in T
  OBVIOUS
<1>2. ASSUME NEW k \in 0 .. n, k \in T /\ k < n PROVE k + 1 \in T
  <2>1. k + 1 \in 1 .. n /\ k + 1 \in 1 .. m /\ k + 1 - 1 = k /\ (k + 1 = 1 <=> k = 0)
    BY <1>2
  <2>2. g[k + 1] = IF k = 0 THEN s[k + 1] ELSE g[k] \o s[k + 1]
    BY <2>1, PartialValue
  <2>3. h[k + 1] = IF k = 0 THEN t[k + 1] ELSE h[k] \o t[k + 1]
    BY <2>1, PartialValue
  <2>4. s[k + 1] = t[k + 1] /\ (k = 0 \/ g[k] = h[k])
    BY <1>2, <2>1
  <2>5. g[k + 1] = h[k + 1]
    BY <2>2, <2>3, <2>4
  <2> QED  BY <2>5, <2>1
<1> HIDE DEF T
<1>3. \A k \in 0 .. n : k \in T
  BY <1>1, <1>2, NumbersUpTo
<1> SUFFICES ASSUME NEW i \in 1 .. n PROVE g[i] = h[i]
  OBVIOUS
<1>4. i \in T /\ i # 0
  BY <1>3
<1> QED  BY <1>4 DEF T

(* One sequence more. *)
LEMMA FlatLast ==
  ASSUME NEW s, NEW t, NEW n \in Nat, Len(s) = n, Len(t) = n + 1,
         \A i \in 1 .. n : s[i] = t[i]
  PROVE  Flat(t) = IF n = 0 THEN t[n + 1] ELSE Flat(s) \o t[n + 1]
<1>1. PICK g : Partial(g, s, n) /\ Flat(s) = IF n = 0 THEN s ELSE g[n]
  BY FlatIs
<1>2. PICK h : Partial(h, t, n + 1) /\ Flat(t) = h[n + 1]
  BY FlatIs
<1>3. h[n + 1] = IF n + 1 = 1 THEN t[n + 1] ELSE h[n + 1 - 1] \o t[n + 1]
  <2>1. n + 1 \in 1 .. n + 1 /\ n + 1 \in Nat
    OBVIOUS
  <2> QED  BY <1>2, <2>1, PartialValue
<1>4. CASE n = 0
  BY <1>2, <1>3, <1>4
<1>5. CASE n # 0
  <2>1. n + 1 # 1 /\ n + 1 - 1 = n /\ n \in 1 .. n
    BY <1>5
  <2>2. \A i \in 1 .. n : g[i] = h[i]
    <3>1. Partial(g, s, n) /\ Partial(h, t, n + 1) /\ n + 1 \in Nat /\ n <= n + 1
      BY <1>1, <1>2
    <3> QED  BY <3>1, PartialsAgree
  <2>3. h[n + 1] = h[n] \o t[n + 1]
    BY <1>3, <2>1
  <2>4. g[n] = h[n]
    BY <2>1, <2>2
  <2> QED  BY <1>1, <1>2, <1>5, <2>3, <2>4
<1> QED  BY <1>4, <1>5

(* The same for sequences of sequences. *)
LEMMA FlatAppend ==
  ASSUME NEW X, NEW s \in Seq(Seq(X)), NEW e \in Seq(X)
  PROVE  Flat(Append(s, e)) = Flat(s) \o e
<1> DEFINE t == Append(s, e)
           n == Len(s)
<1>1. n \in Nat /\ Len(t) = n + 1 /\ t[n + 1] = e /\ (\A i \in 1 .. n : s[i] = t[i])
  BY AppendProperties
<1> HIDE DEF t
<1>2. Flat(t) = IF n = 0 THEN t[n + 1] ELSE Flat(s) \o t[n + 1]
  BY <1>1, FlatLast
<1>3. CASE n = 0
  <2>1. s = <<>>
    BY <1>3, EmptySeq
  <2>2. Flat(s) \o e = e
    BY <2>1, FlatEmpty, ConcatEmptySeq
  <2> QED  BY <1>1, <1>2, <1>3, <2>2 DEF t
<1>4. CASE n # 0
  BY <1>1, <1>2, <1>4 DEF t
<1> QED  BY <1>3, <1>4

(* The first elements of a sequence. *)
LEMMA Firsts ==
  ASSUME NEW X, NEW s \in Seq(X), NEW k \in 0 .. Len(s)
  PROVE  /\ SubSeq(s, 1, k) \in Seq(X)
         /\ Len(SubSeq(s, 1, k)) = k
         /\ \A i \in 1 .. k : SubSeq(s, 1, k)[i] = s[i]
         /\ k < Len(s) => /\ s[k + 1] \in X
                          /\ SubSeq(s, 1, k + 1) = Append(SubSeq(s, 1, k), s[k + 1])
<1>1. Len(s) \in Nat /\ (\A i \in 1 .. k : s[i] \in X)
  BY ElementOfSeq, LenProperties
<1>2. /\ SubSeq(s, 1, k) \in Seq(X)
      /\ Len(SubSeq(s, 1, k)) = IF 1 <= k THEN k - 1 + 1 ELSE 0
      /\ \A i \in 1 .. k - 1 + 1 : SubSeq(s, 1, k)[i] = s[1 + i - 1]
  BY <1>1, SubSeqProperties
<1>3. ASSUME k < Len(s)
      PROVE  /\ s[k + 1] \in X
             /\ SubSeq(s, 1, k + 1) = Append(SubSeq(s, 1, k), s[k + 1])
  <2>1. k + 1 \in 1 .. Len(s) /\ k + 1 - 1 = k /\ 1 \in 1 .. Len(s)
    BY <1>1, <1>3
  <2>2. s[k + 1] \in X
    BY <2>1, ElementOfSeq
  <2>3. SubSeq(s, 1, k + 1) = SubSeq(s, 1, k + 1 - 1) \o <<s[k + 1]>>
    BY <2>1, SubSeqRecursiveSecond
  <2>4. Append(SubSeq(s, 1, k), s[k + 1]) = SubSeq(s, 1, k) \o <<s[k + 1]>>
    BY <1>2, <2>2, AppendIsConcat
  <2> QED  BY <2>1, <2>2, <2>3, <2>4
<1>4. \A i \in 1 .. k : SubSeq(s, 1, k)[i] = s[i]
  <2> SUFFICES ASSUME NEW i \in 1 .. k PROVE SubSeq(s, 1, k)[i] = s[i]
    OBVIOUS
  <2>1. 1 + i - 1 = i /\ i \in 1 .. k - 1 + 1
    OBVIOUS
  <2> QED  BY <1>2, <2>1
<1>5. Len(SubSeq(s, 1, k)) = k
  BY <1>2
<1> QED  BY <1>2, <1>3, <1>4, <1>5

(* The flat sequence has the elements of its parts. *)
LEMMA FlatType ==
  ASSUME NEW X, NEW s \in Seq(Seq(X))
  PROVE  Flat(s) \in Seq(X)
<1> DEFINE n == Len(s)
           T == {k \in 0 .. n : Flat(SubSeq(s, 1, k)) \in Seq(X)}
<1>1. n \in Nat /\ SubSeq(s, 1, n) = s
  BY LenProperties, SubSeqFull
<1>2. 0 \in T
  <2>1. SubSeq(s, 1, 0) = <<>>
    BY SubSeqEmpty
  <2>2. <<>> \in Seq(X)
    BY EmptySeq
  <2>3. Flat(SubSeq(s, 1, 0)) \in Seq(X)
    BY <2>1, <2>2, FlatEmpty, Zenon
  <2>4. 0 \in 0 .. n
    BY <1>1
  <2> QED  BY <2>3, <2>4
<1>3. ASSUME NEW k \in 0 .. n, k \in T /\ k < n PROVE k + 1 \in T
  <2> DEFINE p == SubSeq(s, 1, k)
  <2>1. p \in Seq(Seq(X)) /\ s[k + 1] \in Seq(X) /\ SubSeq(s, 1, k + 1) = Append(p, s[k + 1])
    BY <1>3, Firsts
  <2>2. Flat(p) \in Seq(X)
    BY <1>3
  <2> HIDE DEF p
  <2>3. Flat(Append(p, s[k + 1])) = Flat(p) \o s[k + 1]
    BY <2>1, FlatAppend
  <2>4. Flat(p) \o s[k + 1] \in Seq(X)
    BY <2>1, <2>2, ConcatProperties
  <2>5. k + 1 \in 0 .. n
    BY <1>3, <1>1
  <2> QED  BY <2>1, <2>3, <2>4, <2>5
<1> HIDE DEF T
<1>4. \A k \in 0 .. n : k \in T
  BY <1>1, <1>2, <1>3, NumbersUpTo
<1>5. n \in 0 .. n
  BY <1>1
<1> QED  BY <1>1, <1>4, <1>5 DEF T

(* An element at the end stays there. *)
LEMMA ConcatOfAppend ==
  ASSUME NEW Y, NEW s \in Seq(Y), NEW p \in Seq(Y), NEW e \in Y
  PROVE  s \o Append(p, e) = Append(s \o p, e)
<1> DEFINE one == <<e>>
<1>1. one \in Seq(Y) /\ s \o p \in Seq(Y) /\ Append(p, e) = p \o one
  BY ConcatProperties, AppendIsConcat
<1>2. Append(s \o p, e) = (s \o p) \o one
  BY <1>1, AppendIsConcat
<1> HIDE DEF one
<1>3. (s \o p) \o one = s \o (p \o one)
  BY <1>1, ConcatAssociative
<1> QED  BY <1>1, <1>2, <1>3

(* Two sequences, one behind the other. *)
LEMMA FlatConcat ==
  ASSUME NEW X, NEW s \in Seq(Seq(X)), NEW t \in Seq(Seq(X))
  PROVE  Flat(s \o t) = Flat(s) \o Flat(t)
<1> DEFINE n == Len(t)
           T == {k \in 0 .. n : Flat(s \o SubSeq(t, 1, k)) = Flat(s) \o Flat(SubSeq(t, 1, k))}
<1>1. n \in Nat /\ SubSeq(t, 1, n) = t
  BY LenProperties, SubSeqFull
<1>0. Flat(s) \in Seq(X)
  BY FlatType
<1>2. 0 \in T
  <2>1. SubSeq(t, 1, 0) = <<>>
    BY SubSeqEmpty
  <2>2. s \o <<>> = s /\ Flat(s) \o <<>> = Flat(s)
    BY <1>0, ConcatEmptySeq
  <2>3. Flat(s \o SubSeq(t, 1, 0)) = Flat(s) \o Flat(SubSeq(t, 1, 0))
    BY <2>1, <2>2, FlatEmpty, Zenon
  <2>4. 0 \in 0 .. n
    BY <1>1
  <2> QED  BY <2>3, <2>4
<1>3. ASSUME NEW k \in 0 .. n, k \in T /\ k < n PROVE k + 1 \in T
  <2> DEFINE p == SubSeq(t, 1, k)
             e == t[k + 1]
  <2>1. p \in Seq(Seq(X)) /\ e \in Seq(X) /\ SubSeq(t, 1, k + 1) = Append(p, e)
    BY <1>3, Firsts
  <2>2. Flat(s \o p) = Flat(s) \o Flat(p)
    BY <1>3
  <2> HIDE DEF p, e
  <2>3. Flat(p) \in Seq(X) /\ s \o p \in Seq(Seq(X)) /\ Append(p, e) = p \o <<e>>
          /\ <<e>> \in Seq(Seq(X))
    BY <2>1, FlatType, ConcatProperties, AppendIsConcat
  <2>4. s \o Append(p, e) = Append(s \o p, e)
    <3> DEFINE Y == Seq(X)
    <3>1. s \in Seq(Y) /\ p \in Seq(Y) /\ e \in Y
      BY <2>1
    <3> HIDE DEF Y
    <3> QED  BY <3>1, ConcatOfAppend
  <2>5. Flat(Append(s \o p, e)) = Flat(s \o p) \o e
    BY <2>1, <2>3, FlatAppend
  <2>6. Flat(Append(p, e)) = Flat(p) \o e
    BY <2>1, FlatAppend
  <2>7. (Flat(s) \o Flat(p)) \o e = Flat(s) \o (Flat(p) \o e)
    BY <1>0, <2>1, <2>3, ConcatAssociative, SMTT(30)
  <2>8. k + 1 \in 0 .. n
    BY <1>3, <1>1
  <2> QED  BY <2>1, <2>2, <2>4, <2>5, <2>6, <2>7, <2>8
<1> HIDE DEF T
<1>4. \A k \in 0 .. n : k \in T
  BY <1>1, <1>2, <1>3, NumbersUpTo
<1>5. n \in 0 .. n
  BY <1>1
<1> QED  BY <1>1, <1>4, <1>5 DEF T

----------------------------------------------------------------------------
(* What proofs about payloads that are decoded by their offsets share.      *)

(* Quotient and remainder are the only ones. *)
LEMMA DivUnique ==
  ASSUME NEW n \in Int, NEW m \in Nat \ {0}, NEW q \in Int,
         NEW r \in 0 .. m - 1, n = (m * q) + r
  PROVE  (n \div m) = q /\ (n % m) = r
  OBVIOUS

(* Bytes that are in a payload from an offset on. *)
Lies(data, from, b) ==
  /\ from + Len(b) - 1 <= Len(data)
  /\ \A i \in 1 .. Len(b) : data[from + i - 1] = b[i]

(* Of two sequences that lie one behind the other, each lies in its place. *)
LEMMA LiesConcat ==
  ASSUME NEW X, NEW data \in Seq(X), NEW from \in Nat, NEW a \in Seq(X), NEW b \in Seq(X),
         Lies(data, from, a \o b)
  PROVE  Lies(data, from, a) /\ Lies(data, from + Len(a), b)
<1> DEFINE c == a \o b
           n == Len(a)
           m == Len(b)
           L == Len(data)
<1>1. n \in Nat /\ m \in Nat /\ L \in Nat
  BY LenProperties
<1>2. Len(c) = n + m /\ \A i \in 1 .. n + m : c[i] = IF i <= n THEN a[i] ELSE b[i - n]
  BY ConcatProperties
<1> HIDE DEF n, m, L, c
<1>3. from + (n + m) - 1 <= L /\ \A i \in 1 .. n + m : data[from + i - 1] = c[i]
  BY <1>2 DEF Lies, c, L
<1>4. ASSUME NEW i \in 1 .. n PROVE data[from + i - 1] = a[i]
  <2>1. i \in 1 .. n + m /\ i <= n
    BY <1>1
  <2> QED  BY <2>1, <1>2, <1>3
<1>5. ASSUME NEW i \in 1 .. m PROVE data[from + n + i - 1] = b[i]
  <2>1. n + i \in 1 .. n + m /\ ~ (n + i <= n) /\ (n + i) - n = i
          /\ from + (n + i) - 1 = from + n + i - 1
    BY <1>1
  <2>2. c[n + i] = b[i]
    <3> DEFINE j == n + i
    <3>1. j \in 1 .. n + m /\ ~ (j <= n) /\ j - n = i
      BY <2>1
    <3>2. c[n + i] = c[j]
      OBVIOUS
    <3> HIDE DEF j
    <3>3. c[j] = IF j <= n THEN a[j] ELSE b[j - n]
      BY <3>1, <1>2
    <3>4. c[j] = b[j - n]
      BY <3>1, <3>3
    <3> QED  BY <3>1, <3>2, <3>4
  <2>3. data[from + (n + i) - 1] = c[n + i]
    BY <2>1, <1>3
  <2> QED  BY <2>1, <2>2, <2>3
<1>6. from + n - 1 <= L /\ from + n + m - 1 <= L
  <2>1. from + (n + m) - 1 <= L
    BY <1>3
  <2> QED  BY <1>1, <2>1
<1> QED  BY <1>4, <1>5, <1>6 DEF Lies, n, m, L

(* What is taken from where bytes lie is these bytes. *)
LEMMA LiesTaken ==
  ASSUME NEW X, NEW data \in Seq(X), NEW from \in Nat \ {0},
         NEW b \in Seq(X), Lies(data, from, b)
  PROVE  Data!HasBytes(data, from, Len(b)) /\ Data!Taken(data, from, Len(b)) = b
<1> DEFINE n == Len(b)
           s == SubSeq(data, from, from + n - 1)
<1>1. n \in Nat /\ from \in Int /\ from + n - 1 \in Int /\ Len(data) \in Nat
  BY LenProperties
<1>2. from + n - 1 <= Len(data) /\ \A i \in 1 .. n : data[from + i - 1] = b[i]
  BY DEF Lies
<1> HIDE DEF n
<1>3. ASSUME NEW j \in from .. from + n - 1 PROVE data[j] \in X
  <2>1. j \in 1 .. Len(data)
    <3>1. from + n - 1 <= Len(data)
      BY <1>2
    <3> QED  BY <3>1, <1>1
  <2> QED  BY <2>1, ElementOfSeq
<1>4. /\ s \in Seq(X)
      /\ Len(s) = IF from <= from + n - 1 THEN from + n - 1 - from + 1 ELSE 0
      /\ \A i \in 1 .. from + n - 1 - from + 1 : s[i] = data[from + i - 1]
  BY <1>1, <1>3, SubSeqProperties
<1> HIDE DEF s
<1>5. Len(s) = n /\ from + n - 1 - from + 1 = n
  <2>1. (IF from <= from + n - 1 THEN from + n - 1 - from + 1 ELSE 0) = n
    BY <1>1
  <2> QED  BY <2>1, <1>1, <1>4
<1>6. \A i \in 1 .. n : s[i] = b[i]
  BY <1>2, <1>4, <1>5
<1>7. s = b
  BY <1>4, <1>5, <1>6, SeqEqual DEF n
<1> QED  BY <1>2, <1>7 DEF Data!HasBytes, Data!Taken, n, s

(* A sequence of one before another. *)
LEMMA OneBefore ==
  ASSUME NEW S, NEW one \in Seq(S), NEW u \in Seq(S), Len(one) = 1
  PROVE  /\ one \o u \in Seq(S) /\ Len(one \o u) = 1 + Len(u)
         /\ \A i \in 1 .. 1 + Len(u) : (one \o u)[i] = IF i <= 1 THEN one[i] ELSE u[i - 1]
<1>1. /\ one \o u \in Seq(S) /\ Len(one \o u) = Len(one) + Len(u)
      /\ \A i \in 1 .. Len(one) + Len(u) : (one \o u)[i] = IF i <= Len(one)
           THEN one[i] ELSE u[i - Len(one)]
  BY ConcatProperties
<1> QED  BY <1>1, Zenon

(* What a function makes of each item. *)
Each(f, w) == [i \in 1 .. Len(w) |-> f[w[i]]]

Before(x, s) == <<x>> \o s

Maps(f, S, R) == \A v \in S : f[v] \in R

(* The full fragments of a long value are no longer than it, and what they  *)
(* leave is the rest.                                                       *)
LEMMA FullAndRest ==
  ASSUME NEW n \in Nat, NEW m \in Nat \ {0}
  PROVE  /\ n \div m \in Nat /\ n % m \in Nat /\ n % m < m
         /\ n = ((n \div m) * m) + (n % m)
  OBVIOUS

(* Each full fragment starts where the one before it ends. *)
LEMMA StartOfNext ==
  ASSUME NEW q \in Nat, NEW m \in Nat \ {0}, NEW k \in Nat, k < q
  PROVE  k * m \in Nat /\ (k + 1) * m = k * m + m /\ (k + 1) * m <= q * m
<1>1. k * m \in Nat /\ q * m \in Nat
  OBVIOUS
<1>2. (k + 1) * m = k * m + m
  OBVIOUS
<1>3. (k + 1) * m <= q * m
  <2>1. q - (k + 1) \in Nat
    OBVIOUS
  <2>2. (q - (k + 1)) * m \in Nat
    BY <2>1
  <2>3. q * m = (k + 1) * m + (q - (k + 1)) * m
    OBVIOUS
  <2>4. (k + 1) * m \in Nat
    OBVIOUS
  <2> QED  BY <1>1, <2>2, <2>3, <2>4
<1> QED  BY <1>1, <1>2, <1>3

(* A part of a value that lies in it. *)
LEMMA SliceIs ==
  ASSUME NEW X, NEW data \in Seq(X), NEW a \in Nat, NEW b \in Nat, a <= b, b <= Len(data)
  PROVE  /\ SubSeq(data, a + 1, b) \in Seq(X)
         /\ Len(SubSeq(data, a + 1, b)) = b - a
         /\ SubSeq(data, 1, a) \o SubSeq(data, a + 1, b) = SubSeq(data, 1, b)
<1>1. Len(data) \in Nat
  BY LenProperties
<1>2. ASSUME NEW i \in a + 1 .. b PROVE data[i] \in X
  <2>1. i \in 1 .. Len(data)
    BY <1>1
  <2> QED  BY <2>1, ElementOfSeq
<1>3. a + 1 \in Int /\ b \in Int
  OBVIOUS
<1>4. /\ SubSeq(data, a + 1, b) \in Seq(X)
      /\ Len(SubSeq(data, a + 1, b)) = IF a + 1 <= b THEN b - (a + 1) + 1 ELSE 0
  BY <1>2, <1>3, SubSeqProperties
<1>5. Len(SubSeq(data, a + 1, b)) = b - a
  <2>1. (IF a + 1 <= b THEN b - (a + 1) + 1 ELSE 0) = b - a
    OBVIOUS
  <2> QED  BY <2>1, <1>4
<1>6. 1 \in 1 .. Len(data) + 1 /\ a \in 1 - 1 .. Len(data) /\ b \in a .. Len(data)
  BY <1>1
<1>7. SubSeq(data, 1, a) \o SubSeq(data, a + 1, b) = SubSeq(data, 1, b)
  BY <1>6, ConcatAdjacentSubSeq
<1> QED  BY <1>4, <1>5, <1>7

----------------------------------------------------------------------------
(* Messages of cameras.  What is written one after the other of the items   *)
(* of a list, for whatever is written of an item.                           *)

All(f, w) == Flat(Each(f, w))

(* What is given for each item. *)
LEMMA EachType ==
  ASSUME NEW S, NEW R, NEW f, Maps(f, S, R), NEW w \in Seq(S)
  PROVE  /\ Each(f, w) \in Seq(R) /\ Len(Each(f, w)) = Len(w)
         /\ \A i \in 1 .. Len(w) : Each(f, w)[i] = f[w[i]]
<1> DEFINE l == Len(w)
<1>1. l \in Nat /\ \A i \in 1 .. l : w[i] \in S
  BY LenProperties, ElementOfSeq
<1>2. \A i \in 1 .. l : f[w[i]] \in R
  BY <1>1 DEF Maps
<1>3. Each(f, w) = [i \in 1 .. l |-> f[w[i]]]
  BY DEF Each
<1> HIDE DEF l
<1>4. Each(f, w) \in Seq(R) /\ Len(Each(f, w)) = l
  BY <1>1, <1>2, <1>3, IsASeq
<1> QED  BY <1>3, <1>4 DEF l

LEMMA EachConcat ==
  ASSUME NEW S, NEW R, NEW f, Maps(f, S, R), NEW a \in Seq(S), NEW b \in Seq(S)
  PROVE  Each(f, a \o b) = Each(f, a) \o Each(f, b)
<1> DEFINE c == a \o b
           x == Each(f, c)
           y == Each(f, a)
           z == Each(f, b)
           n == Len(a)
           m == Len(b)
<1>1. c \in Seq(S) /\ Len(c) = n + m
        /\ \A i \in 1 .. n + m : c[i] = IF i <= n THEN a[i] ELSE b[i - n]
  BY ConcatProperties
<1>2. x \in Seq(R) /\ Len(x) = n + m /\ \A i \in 1 .. n + m : x[i] = f[c[i]]
  <2>1. c \in Seq(S) /\ Len(c) = n + m
    BY <1>1
  <2> HIDE DEF c, n, m
  <2>2. Each(f, c) \in Seq(R) /\ Len(Each(f, c)) = Len(c)
          /\ \A i \in 1 .. Len(c) : Each(f, c)[i] = f[c[i]]
    BY <2>1, EachType
  <2> QED  BY <2>1, <2>2
<1>3. y \in Seq(R) /\ Len(y) = n /\ \A i \in 1 .. n : y[i] = f[a[i]]
  BY EachType
<1>4. z \in Seq(R) /\ Len(z) = m /\ \A i \in 1 .. m : z[i] = f[b[i]]
  BY EachType
<1>5. n \in Nat /\ m \in Nat
  BY LenProperties
<1> HIDE DEF c, x, y, z, n, m
<1>6. y \o z \in Seq(R) /\ Len(y \o z) = n + m
        /\ \A i \in 1 .. n + m : (y \o z)[i] = IF i <= n THEN y[i] ELSE z[i - n]
  BY <1>3, <1>4, ConcatProperties
<1>7. ASSUME NEW i \in 1 .. n + m PROVE x[i] = (y \o z)[i]
  <2>1. CASE i <= n
    <3>1. i \in 1 .. n
      BY <1>5, <2>1
    <3>2. c[i] = a[i] /\ (y \o z)[i] = y[i] /\ x[i] = f[c[i]]
      BY <1>1, <1>2, <1>6, <2>1
    <3> QED  BY <1>3, <3>1, <3>2
  <2>2. CASE ~ (i <= n)
    <3>1. i - n \in 1 .. m
      BY <1>5, <2>2
    <3>2. c[i] = b[i - n] /\ (y \o z)[i] = z[i - n] /\ x[i] = f[c[i]]
      BY <1>1, <1>2, <1>6, <2>2
    <3> QED  BY <1>4, <3>1, <3>2
  <2> QED  BY <2>1, <2>2
<1>8. x = y \o z
  BY <1>2, <1>6, <1>7, SeqEqual
<1> QED  BY <1>8 DEF x, y, z, c

\* What All makes of lists: of one behind the other, of a single item.
Behind2(f, a, b) == All(f, a \o b) = All(f, a) \o All(f, b)

(* What is written of two lists, one behind the other, is so too. *)
LEMMA AllConcat ==
  ASSUME NEW S, NEW X, NEW f, Maps(f, S, Seq(X)), NEW a \in Seq(S), NEW b \in Seq(S)
  PROVE  Behind2(f, a, b)
<1> DEFINE y == Each(f, a)
           z == Each(f, b)
<1>1. y \in Seq(Seq(X)) /\ z \in Seq(Seq(X))
  BY EachType
<1>2. Each(f, a \o b) = y \o z
  BY EachConcat
<1> HIDE DEF y, z
<1>3. Flat(y \o z) = Flat(y) \o Flat(z)
  BY <1>1, FlatConcat
<1> QED  BY <1>2, <1>3, Zenon DEF Behind2, All, y, z

LEMMA AllType ==
  ASSUME NEW S, NEW X, NEW f, Maps(f, S, Seq(X)), NEW a \in Seq(S)
  PROVE  All(f, a) \in Seq(X)
<1>1. Each(f, a) \in Seq(Seq(X))
  BY EachType
<1> QED  BY <1>1, FlatType DEF All

(* Of none, of one, and of one before others. *)
LEMMA AllOfNone == ASSUME NEW f PROVE All(f, <<>>) = <<>>
<1>1. Len(<<>>) = 0
  OBVIOUS
<1>2. Each(f, <<>>) = <<>>
  BY <1>1 DEF Each
<1> QED  BY <1>2, FlatEmpty, Zenon DEF All

LEMMA FlatOne == ASSUME NEW v PROVE Flat(<<v>>) = v
<1> DEFINE t == <<v>>
           s == <<>>
<1>1. 0 \in Nat /\ Len(s) = 0 /\ Len(t) = 0 + 1 /\ t[0 + 1] = v
        /\ \A i \in 1 .. 0 : s[i] = t[i]
  OBVIOUS
<1> HIDE DEF t, s
<1>2. Flat(t) = IF 0 = 0 THEN t[0 + 1] ELSE Flat(s) \o t[0 + 1]
  BY <1>1, FlatLast
<1>3. Flat(t) = v
  BY <1>1, <1>2
<1> QED  BY <1>3 DEF t

LEMMA AllOfOne == ASSUME NEW f, NEW v PROVE All(f, <<v>>) = f[v]
<1>1. Len(<<v>>) = 1 /\ <<v>>[1] = v
  OBVIOUS
<1>2. Each(f, <<v>>) = <<f[v]>>
  <2>1. Each(f, <<v>>) = [i \in 1 .. 1 |-> f[<<v>>[i]]]
    BY <1>1, Zenon DEF Each
  <2>2. [i \in 1 .. 1 |-> f[<<v>>[i]]] = [i \in 1 .. 1 |-> f[v]]
    OBVIOUS
  <2>3. [i \in 1 .. 1 |-> f[v]] = <<f[v]>>
    OBVIOUS
  <2> QED  BY <2>1, <2>2, <2>3
<1> QED  BY <1>2, FlatOne, Zenon DEF All

LEMMA AllBefore ==
  ASSUME NEW S, NEW X, NEW f, Maps(f, S, Seq(X)), NEW v \in S, NEW b \in Seq(S)
  PROVE  All(f, Before(v, b)) = f[v] \o All(f, b)
<1>1. <<v>> \in Seq(S)
  OBVIOUS
<1>2. Behind2(f, <<v>>, b)
  <2> DEFINE a == <<v>>
  <2> HIDE DEF a
  <2>1. a \in Seq(S)
    BY <1>1 DEF a
  <2>2. Behind2(f, a, b)
    BY <2>1, AllConcat
  <2> QED  BY <2>2 DEF a
<1> QED  BY <1>2, AllOfOne, Zenon DEF Behind2, Before

(* Full fragments, and what is left. *)
LEMMA By255 ==
  ASSUME NEW n \in Nat
  PROVE  /\ n \div 255 \in Nat /\ n % 255 \in Nat /\ n % 255 < 255
         /\ n = ((n \div 255) * 255) + (n % 255)
<1> DEFINE m == 255
<1>1. m \in Nat \ {0}
  OBVIOUS
<1> HIDE DEF m
<1>2. /\ n \div m \in Nat /\ n % m \in Nat /\ n % m < m
      /\ n = ((n \div m) * m) + (n % m)
  BY <1>1, FullAndRest
<1> QED  BY <1>2 DEF m

(* One full fragment less. *)
LEMMA Less255 ==
  ASSUME NEW n \in Nat, n > 255
  PROVE  /\ n - 255 \in Nat /\ (n - 255) \div 255 = (n \div 255) - 1
         /\ (n - 255) % 255 = n % 255
<1> DEFINE m == 255
           k == n - m
           q == n \div 255
           p == q - 1
           r == n % 255
<1>1. q \in Nat /\ r \in Nat /\ r < 255 /\ n = (q * 255) + r
  BY By255
<1> HIDE DEF q, r
<1>2. m \in Nat \ {0} /\ k \in Int /\ p \in Int /\ r \in 0 .. m - 1 /\ k = (m * p) + r
  BY <1>1
<1> HIDE DEF m, k, p
<1>3. (k \div m) = p /\ (k % m) = r
  BY <1>2, DivUnique
<1> QED  BY <1>3 DEF m, k, p, q, r

\* A value that tlv.encode does not spoil.
Octets == 0 .. 255
FineValues == {v \in Seq(Octets) : ~ Camera!IsLongMultiple(v)}

(* Either short, or not made of full fragments only. *)
LEMMA FineIs ==
  ASSUME NEW v
  PROVE  v \in FineValues <=> v \in Seq(Octets) /\ (Len(v) > 255 => Len(v) % 255 # 0)
<1>1. [data |-> v].data = v
  OBVIOUS
<1>2. Camera!IsLongMultiple(v) <=> Len(v) > 255 /\ Len(v) % 255 = 0
  BY <1>1, Zenon DEF Camera!IsLongMultiple, Camera!TLV!LongMultiple
<1> QED  BY <1>2, Zenon DEF FineValues

Fragments(t) == {[tag |-> t, len |-> l, bytes |-> b] : l \in Octets, b \in Seq(Octets)}

\* The fragments of a value of n bytes that is not full fragments only: q that are
\* full, and what is left.
Slice255(v, y) == SubSeq(v, (y - 1) * 255 + 1, y * 255)
FullOne(t, v, y) == [tag |-> t, len |-> 255, bytes |-> Slice255(v, y)]
LastOne(t, v, n, r) == [tag |-> t, len |-> r, bytes |-> SubSeq(v, n - r + 1, n)]

CutInto(E, t, v, n, q, r) ==
  /\ E \in Seq(Fragments(t)) /\ Len(E) = q + 1
  /\ \A y \in 1 .. q : E[y] = FullOne(t, v, y)
  /\ E[q + 1] = LastOne(t, v, n, r)

AreCut(E, t, v) == CutInto(E, t, v, Len(v), Len(v) \div 255, Len(v) % 255)

(* What a fragment is. *)
LEMMA IsFragment ==
  ASSUME NEW t, NEW l \in Octets, NEW b \in Seq(Octets)
  PROVE  [tag |-> t, len |-> l, bytes |-> b] \in Fragments(t)
BY DEF Fragments

(* encode cuts a short value into one fragment. *)
LEMMA ShortCut ==
  ASSUME NEW t, NEW v \in Seq(Octets), Len(v) <= 255, Len(v) % 255 # 0
  PROVE  AreCut(Camera!TLV!EncodeItem(t, v), t, v)
<1> DEFINE n == Len(v)
           e == [tag |-> t, len |-> n, bytes |-> v]
           E == <<e>>
<1>1. n \in Nat /\ SubSeq(v, 1, n) = v
  BY LenProperties, SubSeqFull
<1>2. Camera!TLV!EncodeItem(t, v) = E
  BY Zenon DEF Camera!TLV!EncodeItem, Camera!TLV!Fragment
<1> HIDE DEF n
<1>3. n <= 255 /\ n % 255 # 0
  BY DEF n
<1>4. n \div 255 = 0 /\ n % 255 = n /\ n \in Octets
  BY <1>1, <1>3 DEF Octets
<1>5. e \in Fragments(t)
  BY <1>4 DEF Fragments
<1> HIDE DEF e
<1>6. E \in Seq(Fragments(t)) /\ Len(E) = 0 + 1 /\ E[0 + 1] = e
  BY <1>5
<1>7. n - n + 1 = 1
  BY <1>1
<1>8. e = LastOne(t, v, n, n)
  BY <1>1, <1>7, Zenon DEF e, LastOne
<1> HIDE DEF E, e
<1>9. AreCut(E, t, v)
  <2>1. \A y : y \notin 1 .. 0
    OBVIOUS
  <2>2. CutInto(E, t, v, n, 0, n)
    BY <1>6, <1>8, <2>1, Zenon DEF CutInto
  <2>3. AreCut(E, t, v) <=> CutInto(E, t, v, n, n \div 255, n % 255)
    BY Zenon DEF AreCut, n
  <2> QED  BY <1>4, <2>2, <2>3, Zenon
<1> QED  BY <1>2, <1>9, Zenon

(* A part of a value. *)
LEMMA PartOf ==
  ASSUME NEW v \in Seq(Octets), NEW a \in Nat, NEW b \in Nat, a <= b, b <= Len(v)
  PROVE  SubSeq(v, a + 1, b) \in Seq(Octets) /\ Len(SubSeq(v, a + 1, b)) = b - a
<1> DEFINE X == Octets
<1> HIDE DEF X
<1>1. v \in Seq(X)
  BY DEF X
<1>2. SubSeq(v, a + 1, b) \in Seq(X) /\ Len(SubSeq(v, a + 1, b)) = b - a
  BY <1>1, SliceIs
<1> QED  BY <1>2 DEF X

(* The first 255 bytes. *)
LEMMA FirstPart ==
  ASSUME NEW v \in Seq(Octets), Len(v) > 255
  PROVE  SubSeq(v, 1, 255) \in Seq(Octets) /\ Len(SubSeq(v, 1, 255)) = 255
<1> DEFINE m == 255
<1>1. m \in Nat /\ 0 <= m /\ m <= Len(v) /\ 0 + 1 = 1 /\ m - 0 = m
  BY LenProperties
<1> HIDE DEF m
<1>2. SubSeq(v, 0 + 1, m) \in Seq(Octets) /\ Len(SubSeq(v, 0 + 1, m)) = m - 0
  BY <1>1, PartOf
<1>3. SubSeq(v, 1, m) \in Seq(Octets) /\ Len(SubSeq(v, 1, m)) = m
  BY <1>1, <1>2
<1> QED  BY <1>3 DEF m

(* It cuts a long one into full fragments and what is left. *)
LEMMA LongCut ==
  ASSUME NEW t, NEW v \in Seq(Octets), Len(v) > 255, Len(v) % 255 # 0
  PROVE  AreCut(Camera!TLV!EncodeItem(t, v), t, v)
<1> DEFINE n == Len(v)
           q == n \div 255
           r == n % 255
           e(y) == FullOne(t, v, y)
           F == [y \in 1 .. q |-> e(y)]
           l == LastOne(t, v, n, r)
           E == F \o <<l>>
<1>1. n \in Nat /\ n > 255 /\ r # 0
  BY LenProperties
<1>2. Camera!TLV!EncodeItem(t, v) = E
  <2>1. ~ (n <= 255)
    BY <1>1
  <2>2. Camera!TLV!EncodeItem(t, v) = Camera!TLV!EncodeLong(t, v)
    BY <2>1, Zenon DEF Camera!TLV!EncodeItem
  <2>3. ASSUME NEW y \in 1 .. q
        PROVE  Camera!TLV!Fragment(t, 255, Camera!TLV!Slice(v, (y - 1) * 255, y * 255)) = e(y)
    BY Zenon DEF Camera!TLV!Fragment, Camera!TLV!Slice, FullOne, Slice255
  <2> DEFINE M == [y \in 1 .. q |->
                     Camera!TLV!Fragment(t, 255, Camera!TLV!Slice(v, (y - 1) * 255, y * 255))]
             x == Camera!TLV!Fragment(t, r, Camera!TLV!LastBytes(v, r))
  <2>4. M = F
    BY <2>3, Zenon
  <2>5. x = l
    BY <1>1, Zenon DEF Camera!TLV!Fragment, Camera!TLV!LastBytes, Camera!TLV!Slice, LastOne
  <2>6. Camera!TLV!EncodeLong(t, v) = M \o <<x>>
    BY Zenon DEF Camera!TLV!EncodeLong
  <2> HIDE DEF M, x, F, l
  <2> QED  BY <2>2, <2>4, <2>5, <2>6, Zenon
<1>3. q \in Nat /\ r \in Octets /\ n = q * 255 + r
  <2> HIDE DEF n
  <2>1. q \in Nat /\ r \in Nat /\ r < 255 /\ n = (q * 255) + r
    BY <1>1, By255
  <2> HIDE DEF q, r
  <2> QED  BY <2>1 DEF Octets
<1> HIDE DEF n, q, r
<1>4. ASSUME NEW y \in 1 .. q PROVE e(y) \in Fragments(t)
  <2> DEFINE a == (y - 1) * 255
             b == y * 255
  <2>1. a \in Nat /\ b \in Nat /\ a <= b /\ b <= n
    BY <1>1, <1>3 DEF Octets
  <2> HIDE DEF a, b
  <2>2. SubSeq(v, a + 1, b) \in Seq(Octets)
    BY <2>1, PartOf DEF n
  <2>3. Slice255(v, y) \in Seq(Octets)
    BY <2>2 DEF a, b, Slice255
  <2>4. 255 \in Octets
    BY DEF Octets
  <2> QED  BY <2>3, <2>4, IsFragment, Zenon DEF FullOne
<1>5. l \in Fragments(t)
  <2> DEFINE a == n - r
  <2>1. a \in Nat /\ n \in Nat /\ a <= n /\ n <= n
    BY <1>1, <1>3 DEF Octets
  <2> HIDE DEF a
  <2>2. SubSeq(v, a + 1, n) \in Seq(Octets)
    BY <2>1, PartOf DEF n
  <2>3. SubSeq(v, n - r + 1, n) \in Seq(Octets)
    BY <2>2 DEF a
  <2> QED  BY <2>3, <1>3, IsFragment, Zenon DEF LastOne
<1> HIDE DEF l, e
<1>6. F \in Seq(Fragments(t)) /\ Len(F) = q /\ \A y \in 1 .. q : F[y] = e(y)
  BY <1>3, <1>4, IsASeq
<1> DEFINE G == <<l>>
<1>7. G \in Seq(Fragments(t)) /\ Len(G) = 1 /\ G[1] = l
  BY <1>5
<1> HIDE DEF F, G
<1>8. F \o G \in Seq(Fragments(t)) /\ Len(F \o G) = q + 1
        /\ \A i \in 1 .. q + 1 : (F \o G)[i] = IF i <= q THEN F[i] ELSE G[i - q]
  <2> DEFINE S == Fragments(t)
  <2> HIDE DEF S
  <2>1. F \in Seq(S) /\ G \in Seq(S) /\ Len(F) = q /\ Len(G) = 1
    BY <1>6, <1>7 DEF S
  <2>2. F \o G \in Seq(S) /\ Len(F \o G) = Len(F) + Len(G)
        /\ \A i \in 1 .. Len(F) + Len(G) :
             (F \o G)[i] = IF i <= Len(F) THEN F[i] ELSE G[i - Len(F)]
    BY <2>1, ConcatProperties
  <2> QED  BY <2>1, <2>2, Zenon DEF S
<1>9. \A y \in 1 .. q : (F \o G)[y] = e(y)
  <2> SUFFICES ASSUME NEW y \in 1 .. q PROVE (F \o G)[y] = e(y)
    OBVIOUS
  <2>1. y \in 1 .. q + 1 /\ y <= q
    BY <1>3
  <2> QED  BY <2>1, <1>6, <1>8
<1>10. (F \o G)[q + 1] = l
  <2>1. q + 1 \in 1 .. q + 1 /\ ~ (q + 1 <= q) /\ q + 1 - q = 1
    BY <1>3
  <2> DEFINE j == q + 1
  <2>2. j \in 1 .. q + 1 /\ ~ (j <= q) /\ j - q = 1
    BY <2>1, <1>3
  <2> HIDE DEF j
  <2>3. (F \o G)[j] = G[j - q]
    BY <1>8, <2>2
  <2> QED  BY <2>2, <2>3, <1>7, Zenon DEF j
<1>11. E = F \o G
  BY DEF G
<1> HIDE DEF E
<1>12. AreCut(E, t, v)
  <2>1. E \in Seq(Fragments(t)) /\ Len(E) = q + 1
    BY <1>8, <1>11, Zenon
  <2>2. \A y \in 1 .. q : E[y] = e(y)
    BY <1>9, <1>11, Zenon
  <2>3. E[q + 1] = l
    BY <1>10, <1>11, Zenon
  <2>4. CutInto(E, t, v, n, q, r)
    BY <2>1, <2>2, <2>3, Zenon DEF CutInto, e, l
  <2> QED  BY <2>4, Zenon DEF AreCut, n, q, r
<1> QED  BY <1>2, <1>12, Zenon

(* A part of what is behind the first fragment. *)
Behind255(v, a, b) ==
  SubSeq(SubSeq(v, 256, Len(v)), a + 1, b) = SubSeq(v, 255 + a + 1, 255 + b)

LEMMA PartBehind ==
  ASSUME NEW v \in Seq(Octets), Len(v) > 255,
         NEW a \in Nat, NEW b \in Nat, a < b, b <= Len(v) - 255
  PROVE  Behind255(v, a, b)
<1> DEFINE n == Len(v)
           w == SubSeq(v, 256, n)
           i == 256
           m == a + 1
<1>1. n \in Nat /\ n > 255
  BY LenProperties
<1>2. w \in Seq(Octets)
  <2>1. 255 \in Nat /\ n \in Nat /\ 255 <= n /\ n <= n
    BY <1>1
  <2>2. SubSeq(v, 255 + 1, n) \in Seq(Octets)
    BY <2>1, PartOf
  <2>3. 255 + 1 = 256
    OBVIOUS
  <2> QED  BY <2>2, <2>3
<1>3. i \in 1 .. n /\ n \in 1 .. n /\ m \in 1 .. n - i + 1 /\ b \in 1 .. n - i + 1
  BY <1>1
<1>4. i + m - 1 = 255 + a + 1 /\ i + b - 1 = 255 + b
  OBVIOUS
<1> HIDE DEF m, i
<1>5. SubSeq(SubSeq(v, i, n), m, b) = SubSeq(v, i + m - 1, i + b - 1)
  BY <1>3, SubSeqOfSubSeq
<1> QED  BY <1>4, <1>5, Zenon DEF m, i, Behind255

(* The first fragment of a long value, and those of what is behind it. *)
Peels(t, v) ==
  /\ SubSeq(v, 256, Len(v)) \in Seq(Octets)
  /\ Len(SubSeq(v, 256, Len(v))) = Len(v) - 255
  /\ (Len(v) - 255) % 255 # 0
  /\ Camera!TLV!EncodeItem(t, v)
     = Before([tag |-> t, len |-> 255, bytes |-> SubSeq(v, 1, 255)],
              Camera!TLV!EncodeItem(t, SubSeq(v, 256, Len(v))))

(* The first fragment is that of the first 255 bytes; the others are those of the rest. *)
LEMMA PeelOff ==
  ASSUME NEW t, NEW v \in Seq(Octets), Len(v) > 255, Len(v) % 255 # 0
  PROVE  Peels(t, v)
<1> DEFINE n == Len(v)
           w == SubSeq(v, 256, n)
           k == n - 255
           q == n \div 255
           r == n % 255
           P == k \div 255
           E == Camera!TLV!EncodeItem(t, v)
           D == Camera!TLV!EncodeItem(t, w)
           f == [tag |-> t, len |-> 255, bytes |-> SubSeq(v, 1, 255)]
           one == <<f>>
<1>1. n \in Nat /\ n > 255 /\ r # 0
  BY LenProperties
<1>2. k \in Nat /\ k # 0 /\ P = q - 1 /\ k % 255 = r /\ q \in Nat /\ q >= 1 /\ P \in Nat
        /\ r \in 1 .. 254 /\ n = q * 255 + r /\ k = P * 255 + r
  <2> HIDE DEF n
  <2>1. q \in Nat /\ r \in Nat /\ r < 255 /\ n = (q * 255) + r
    BY <1>1, By255
  <2>2. k \in Nat /\ P = q - 1 /\ k % 255 = r
    BY <1>1, Less255
  <2> HIDE DEF q, r, P
  <2>3. k = n - 255
    OBVIOUS
  <2> HIDE DEF k
  <2> QED  BY <1>1, <2>1, <2>2, <2>3
<1>3. w \in Seq(Octets) /\ Len(w) = k
  <2>1. 255 \in Nat /\ n \in Nat /\ 255 <= n /\ n <= n
    BY <1>1
  <2>2. SubSeq(v, 255 + 1, n) \in Seq(Octets) /\ Len(SubSeq(v, 255 + 1, n)) = n - 255
    BY <2>1, PartOf
  <2>3. 255 + 1 = 256
    OBVIOUS
  <2> QED  BY <2>2, <2>3
<1>4. AreCut(E, t, v)
  BY LongCut
<1>5. AreCut(D, t, w)
  <2> HIDE DEF w
  <2>1. Len(w) % 255 # 0
    BY <1>2, <1>3, <1>1
  <2> QED  BY <1>3, <2>1, LongCut, ShortCut, LenProperties
<1>6. /\ E \in Seq(Fragments(t)) /\ Len(E) = q + 1
      /\ \A y \in 1 .. q : E[y] = FullOne(t, v, y)
      /\ E[q + 1] = LastOne(t, v, n, r)
  BY <1>4, Zenon DEF AreCut, CutInto
<1>7. /\ D \in Seq(Fragments(t)) /\ Len(D) = P + 1
      /\ \A y \in 1 .. P : D[y] = FullOne(t, w, y)
      /\ D[P + 1] = LastOne(t, w, k, r)
  <2>1. k % 255 = r
    BY <1>2
  <2> HIDE DEF w, D, k, r
  <2>2. CutInto(D, t, w, Len(w), Len(w) \div 255, Len(w) % 255)
    BY <1>5, Zenon DEF AreCut
  <2>3. CutInto(D, t, w, k, P, r)
    BY <1>3, <2>1, <2>2, Zenon DEF P
  <2> QED  BY <2>3, Zenon DEF CutInto
<1> HIDE DEF n, k, q, r, P, E, D
<1>8. ASSUME NEW a \in Nat, NEW b \in Nat, a < b, b <= k
      PROVE  Behind255(v, a, b)
  BY <1>8, PartBehind DEF n, k
<1> HIDE DEF w
<1>0. E[1] = f
  <2>1. 1 \in 1 .. q
    BY <1>2
  <2>2. E[1] = FullOne(t, v, 1)
    BY <1>6, <2>1, Zenon
  <2>3. Slice255(v, 1) = SubSeq(v, 1, 255)
    BY DEF Slice255
  <2> QED  BY <2>2, <2>3, Zenon DEF FullOne
<1>9. one \in Seq(Fragments(t)) /\ Len(one) = 1 /\ one[1] = f
  <2>1. E[1] \in Fragments(t)
    <3>1. 1 \in 1 .. Len(E)
      BY <1>2, <1>6
    <3> QED  BY <3>1, <1>6, ElementOfSeq
  <2> HIDE DEF f
  <2> QED  BY <1>0, <2>1
<1> HIDE DEF one
<1>10. one \o D \in Seq(Fragments(t)) /\ Len(one \o D) = 1 + (P + 1)
         /\ \A i \in 1 .. 1 + (P + 1) : (one \o D)[i] = IF i <= 1 THEN one[i] ELSE D[i - 1]
  <2> DEFINE S == Fragments(t)
  <2> HIDE DEF S
  <2>1. one \in Seq(S) /\ D \in Seq(S) /\ Len(one) = 1 /\ Len(D) = P + 1
    BY <1>7, <1>9 DEF S
  <2>2. /\ one \o D \in Seq(S) /\ Len(one \o D) = 1 + Len(D)
        /\ \A i \in 1 .. 1 + Len(D) : (one \o D)[i] = IF i <= 1 THEN one[i] ELSE D[i - 1]
    BY <2>1, OneBefore
  <2> QED  BY <2>1, <2>2 DEF S
<1>11. ASSUME NEW i \in 1 .. q + 1 PROVE E[i] = (one \o D)[i]
  <2>0. i \in 1 .. 1 + (P + 1)
    BY <1>2
  <2>1. CASE i = 1
    <3> HIDE DEF f
    <3>1. (one \o D)[1] = one[1]
      BY <1>10, <2>0, <2>1
    <3> QED  BY <1>0, <1>9, <2>1, <3>1, Zenon
  <2>2. CASE i # 1 /\ i # q + 1
    <3> DEFINE a == (i - 2) * 255
               b == (i - 1) * 255
    <3>1. i \in 1 .. q /\ i - 1 \in 1 .. P /\ ~ (i <= 1)
      BY <1>2, <2>2
    <3>2. a \in Nat /\ b \in Nat /\ a < b /\ b <= k
      BY <1>2, <3>1
    <3>3. E[i] = FullOne(t, v, i)
      BY <1>6, <3>1, Zenon
    <3>4. D[i - 1] = FullOne(t, w, i - 1)
      BY <1>7, <3>1, Zenon
    <3>5. (one \o D)[i] = D[i - 1]
      BY <1>10, <2>0, <3>1
    <3>6. SubSeq(w, a + 1, b) = SubSeq(v, 255 + a + 1, 255 + b)
      <4> HIDE DEF a, b
      <4>1. Behind255(v, a, b)
        BY <1>8, <3>2
      <4> QED  BY <4>1, Zenon DEF Behind255, w, n
    <3>7. Slice255(w, i - 1) = SubSeq(w, a + 1, b)
      BY <3>1 DEF Slice255
    <3>8. Slice255(v, i) = SubSeq(v, 255 + a + 1, 255 + b)
      BY <3>1 DEF Slice255
    <3> HIDE DEF a, b
    <3>9. Slice255(w, i - 1) = Slice255(v, i)
      BY <3>6, <3>7, <3>8
    <3>10. FullOne(t, w, i - 1) = FullOne(t, v, i)
      BY <3>9, Zenon DEF FullOne
    <3> QED  BY <3>3, <3>4, <3>5, <3>10, Zenon
  <2>3. CASE i = q + 1
    <3> DEFINE a == k - r
    <3>1. i - 1 = P + 1 /\ ~ (i <= 1)
      BY <1>2, <2>3
    <3>2. a \in Nat /\ k \in Nat /\ a < k /\ k <= k /\ 255 + a + 1 = n - r + 1 /\ 255 + k = n
      BY <1>1, <1>2 DEF k
    <3>3. SubSeq(w, a + 1, k) = SubSeq(v, n - r + 1, n)
      <4> HIDE DEF a
      <4>1. Behind255(v, a, k)
        BY <1>8, <3>2
      <4>2. SubSeq(w, a + 1, k) = SubSeq(v, 255 + a + 1, 255 + k)
        BY <4>1, Zenon DEF Behind255, w, n
      <4> QED  BY <3>2, <4>2, Zenon
    <3>4. (one \o D)[i] = D[P + 1]
      BY <1>10, <2>0, <3>1
    <3>5. LastOne(t, w, k, r) = LastOne(t, v, n, r)
      BY <3>3, Zenon DEF LastOne
    <3> QED  BY <1>6, <1>7, <2>3, <3>4, <3>5, Zenon
  <2> QED  BY <2>1, <2>2, <2>3, Zenon
<1>12. E = one \o D
  <2>1. Len(E) = Len(one \o D) /\ Len(E) = q + 1
    BY <1>2, <1>6, <1>10
  <2> QED  BY <1>6, <1>10, <1>11, <2>1, SeqEqual
<1>13. k % 255 # 0
  BY <1>1, <1>2
<1> QED  BY <1>3, <1>12, <1>13, Zenon DEF Peels, E, D, w, n, k, one, Before

LEMMA IsOctet == ASSUME NEW n \in Nat, n <= 255 PROVE n \in Octets
  BY DEF Octets

\* The bytes of a fragment.
OfFragment(t) == [f \in Fragments(t) |-> <<t, f.len>> \o f.bytes]

LEMMA OfFragmentType ==
  ASSUME NEW t \in Octets PROVE Maps(OfFragment(t), Fragments(t), Seq(Octets))
<1> SUFFICES ASSUME NEW f \in Fragments(t) PROVE OfFragment(t)[f] \in Seq(Octets)
  BY DEF Maps
<1>1. PICK l \in Octets, b \in Seq(Octets) : f = [tag |-> t, len |-> l, bytes |-> b]
  BY DEF Fragments
<1>2. f.len = l /\ f.bytes = b
  BY <1>1
<1>3. <<t, l>> \in Seq(Octets)
  OBVIOUS
<1>4. <<t, l>> \o b \in Seq(Octets)
  BY <1>3, ConcatProperties
<1> QED  BY <1>2, <1>4, Zenon DEF OfFragment

(* What is written for a value is written fragment by fragment. *)
LEMMA TaggedIs ==
  ASSUME NEW t \in Octets, NEW v, Camera!TLV!EncodeItem(t, v) \in Seq(Fragments(t))
  PROVE  Camera!TagAndValue(t, v) = All(OfFragment(t), Camera!TLV!EncodeItem(t, v))
<1> DEFINE E == Camera!TLV!EncodeItem(t, v)
           n == Len(E)
           A == [i \in 1 .. n |-> <<t, E[i].len>> \o E[i].bytes]
           B == [i \in 1 .. n |-> OfFragment(t)[E[i]]]
<1>1. Camera!TagAndValue(t, v) = Flat(A)
  BY Zenon DEF Camera!TagAndValue, Camera!FlattenSeq, Flat, TLV!FlattenSeq
<1>2. ASSUME NEW i \in 1 .. n PROVE <<t, E[i].len>> \o E[i].bytes = OfFragment(t)[E[i]]
  <2>1. E[i] \in Fragments(t)
    BY ElementOfSeq
  <2> HIDE DEF E
  <2> QED  BY <2>1, Zenon DEF OfFragment
<1>3. A = B
  BY <1>2, Zenon
<1> QED  BY <1>1, <1>3, Zenon DEF All, Each

LEMMA FineCut ==
  ASSUME NEW t \in Octets, NEW v \in FineValues
  PROVE  Camera!TLV!EncodeItem(t, v) \in Seq(Fragments(t))
<1>1. v \in Seq(Octets) /\ (Len(v) > 255 => Len(v) % 255 # 0) /\ Len(v) \in Nat
  BY FineIs, LenProperties
<1>2. CASE Len(v) > 255
  <2>1. AreCut(Camera!TLV!EncodeItem(t, v), t, v)
    BY <1>1, <1>2, LongCut
  <2> QED  BY <2>1, Zenon DEF AreCut, CutInto
<1>3. CASE Len(v) <= 255
  <2> DEFINE f == [tag |-> t, len |-> Len(v), bytes |-> v]
  <2>1. Camera!TLV!EncodeItem(t, v) = <<f>>
    BY <1>3, Zenon DEF Camera!TLV!EncodeItem, Camera!TLV!Fragment
  <2>2. Len(v) \in Octets
    BY <1>1, <1>3, IsOctet
  <2>3. f \in Fragments(t)
    BY <1>1, <2>2 DEF Fragments
  <2> HIDE DEF f
  <2>4. <<f>> \in Seq(Fragments(t))
    BY <2>3
  <2> QED  BY <2>1, <2>4, Zenon
<1> QED  BY <1>1, <1>2, <1>3

\* A value as it is written in a single fragment, and in more than one.
Short(t, v) == Camera!TagAndValue(t, v) = <<t, Len(v)>> \o v
Long(t, v) ==
  Camera!TagAndValue(t, v)
  = (<<t, 255>> \o SubSeq(v, 1, 255)) \o Camera!TagAndValue(t, SubSeq(v, 256, Len(v)))

(* A value in one fragment is written so. *)
LEMMA ShortTagged ==
  ASSUME NEW t \in Octets, NEW v \in Seq(Octets), Len(v) <= 255
  PROVE  Short(t, v)
<1> DEFINE f == [tag |-> t, len |-> Len(v), bytes |-> v]
<1>0. Len(v) \in Nat
  BY LenProperties
<1>1. v \in FineValues
  BY <1>0, FineIs
<1>2. Camera!TLV!EncodeItem(t, v) = <<f>>
  BY Zenon DEF Camera!TLV!EncodeItem, Camera!TLV!Fragment
<1>3. Camera!TLV!EncodeItem(t, v) \in Seq(Fragments(t))
  BY <1>1, FineCut
<1>4. Camera!TagAndValue(t, v) = All(OfFragment(t), <<f>>)
  BY <1>2, <1>3, TaggedIs, Zenon
<1>5. All(OfFragment(t), <<f>>) = OfFragment(t)[f]
  BY AllOfOne
<1>6. f \in Fragments(t)
  <2>1. Len(v) \in Octets
    BY <1>0, IsOctet
  <2> QED  BY <2>1 DEF Fragments
<1>7. OfFragment(t)[f] = <<t, f.len>> \o f.bytes
  BY <1>6, Zenon DEF OfFragment
<1>8. f.len = Len(v) /\ f.bytes = v
  OBVIOUS
<1> QED  BY <1>4, <1>5, <1>7, <1>8, Zenon DEF Short

(* A longer one begins with a full fragment. *)
LEMMA LongTagged ==
  ASSUME NEW t \in Octets, NEW v \in FineValues, Len(v) > 255
  PROVE  /\ Long(t, v) /\ SubSeq(v, 256, Len(v)) \in FineValues
         /\ Len(SubSeq(v, 256, Len(v))) = Len(v) - 255
<1> DEFINE n == Len(v)
           w == SubSeq(v, 256, n)
           a == SubSeq(v, 1, 255)
           f == [tag |-> t, len |-> 255, bytes |-> a]
           E == Camera!TLV!EncodeItem(t, v)
           D == Camera!TLV!EncodeItem(t, w)
<1>1. v \in Seq(Octets) /\ n % 255 # 0 /\ n \in Nat
  BY FineIs, LenProperties
<1>2. w \in Seq(Octets) /\ Len(w) = n - 255 /\ (n - 255) % 255 # 0 /\ E = Before(f, D)
  <2>1. Len(v) > 255 /\ Len(v) % 255 # 0 /\ v \in Seq(Octets)
    BY <1>1
  <2>2. Peels(t, v)
    BY <2>1, PeelOff
  <2> QED  BY <2>2, Zenon DEF Peels
<1>3. w \in FineValues
  <2> HIDE DEF w
  <2> QED  BY <1>2, FineIs
<1>4. E \in Seq(Fragments(t)) /\ D \in Seq(Fragments(t))
  <2>1. E \in Seq(Fragments(t))
    BY FineCut
  <2>2. D \in Seq(Fragments(t))
    <3> HIDE DEF w
    <3> QED  BY <1>3, FineCut
  <2> QED  BY <2>1, <2>2
<1>5. a \in Seq(Octets)
  BY <1>1, FirstPart, Zenon
<1> HIDE DEF a
<1>6. f \in Fragments(t) /\ f.len = 255 /\ f.bytes = a
  <2>1. 255 \in Octets
    BY DEF Octets
  <2> QED  BY <1>5, <2>1 DEF Fragments
<1> HIDE DEF f, n
<1>7. All(OfFragment(t), Before(f, D)) = OfFragment(t)[f] \o All(OfFragment(t), D)
  <2> DEFINE S == Fragments(t)
             g == OfFragment(t)
             X == Octets
  <2>1. Maps(g, S, Seq(X)) /\ f \in S /\ D \in Seq(S)
    BY <1>4, <1>6, OfFragmentType
  <2> HIDE DEF S, g, X, D
  <2>2. All(g, Before(f, D)) = g[f] \o All(g, D)
    BY <2>1, AllBefore
  <2> QED  BY <2>2 DEF g
<1>8. OfFragment(t)[f] = <<t, 255>> \o a
  BY <1>6, Zenon DEF OfFragment
<1>9. Camera!TagAndValue(t, v) = All(OfFragment(t), E)
  BY <1>4, TaggedIs
<1>10. Camera!TagAndValue(t, w) = All(OfFragment(t), D)
  <2> HIDE DEF w
  <2> QED  BY <1>4, TaggedIs
<1> HIDE DEF E, D
<1>11. Camera!TagAndValue(t, v) = (<<t, 255>> \o a) \o Camera!TagAndValue(t, w)
  BY <1>2, <1>7, <1>8, <1>9, <1>10, Zenon
<1> QED  BY <1>2, <1>3, <1>11, Zenon DEF Long, a, n, w

(* The bytes of a value with its tag begin with the tag. *)
LEMMA TaggedType ==
  ASSUME NEW t \in Octets, NEW v \in FineValues
  PROVE  /\ Camera!TagAndValue(t, v) \in Seq(Octets)
         /\ Len(Camera!TagAndValue(t, v)) >= 2
         /\ Camera!TagAndValue(t, v)[1] = t
<1>1. v \in Seq(Octets) /\ Len(v) \in Nat
  BY FineIs, LenProperties
<1> DEFINE W == Camera!TagAndValue(t, v)
           Begins(b) == Len(b) >= 2 /\ b[1] = t
<1>2. W \in Seq(Octets)
  <2> DEFINE S == Fragments(t)
             g == OfFragment(t)
             X == Octets
             E == Camera!TLV!EncodeItem(t, v)
  <2>1. Maps(g, S, Seq(X)) /\ E \in Seq(S)
    BY OfFragmentType, FineCut
  <2>2. W = All(g, E)
    BY FineCut, TaggedIs
  <2> HIDE DEF S, g, X, E, W
  <2>3. All(g, E) \in Seq(X)
    BY <2>1, AllType
  <2> QED  BY <2>2, <2>3 DEF X
<1>3. ASSUME NEW l \in Octets, NEW b \in Seq(Octets) PROVE Begins(<<t, l>> \o b)
  <2> DEFINE a == <<t, l>>
  <2>1. a \in Seq(Octets) /\ Len(a) = 2 /\ a[1] = t /\ Len(b) \in Nat
    BY LenProperties
  <2> HIDE DEF a
  <2>2. Len(a \o b) = 2 + Len(b)
        /\ \A i \in 1 .. 2 + Len(b) : (a \o b)[i] = IF i <= 2 THEN a[i] ELSE b[i - 2]
    <3>1. Len(a \o b) = Len(a) + Len(b)
          /\ \A i \in 1 .. Len(a) + Len(b) :
                (a \o b)[i] = IF i <= Len(a) THEN a[i] ELSE b[i - Len(a)]
      BY <2>1, ConcatProperties
    <3> QED  BY <2>1, <3>1, Zenon
  <2>3. (a \o b)[1] = a[1]
    BY <2>1, <2>2
  <2>4. Len(a \o b) >= 2
    BY <2>1, <2>2
  <2> QED  BY <2>1, <2>3, <2>4 DEF a
<1>4. CASE Len(v) <= 255
  <2>1. Short(t, v)
    BY <1>1, <1>4, ShortTagged
  <2>2. Len(v) \in Octets
    BY <1>1, <1>4, IsOctet
  <2>3. Begins(<<t, Len(v)>> \o v)
    BY <1>1, <1>3, <2>2
  <2> HIDE DEF Begins
  <2>4. Begins(W)
    BY <2>1, <2>3, Zenon DEF Short
  <2> QED  BY <1>2, <2>4 DEF Begins
<1>5. CASE Len(v) > 255
  <2> DEFINE w == SubSeq(v, 256, Len(v))
             a == SubSeq(v, 1, 255)
             d == Camera!TagAndValue(t, w)
  <2>1. Long(t, v) /\ w \in FineValues
    BY <1>5, LongTagged
  <2>2. d \in Seq(Octets)
    <3> HIDE DEF w
    <3> DEFINE S == Fragments(t)
               g == OfFragment(t)
               X == Octets
               E == Camera!TLV!EncodeItem(t, w)
    <3>1. Maps(g, S, Seq(X)) /\ E \in Seq(S)
      BY <2>1, OfFragmentType, FineCut
    <3>2. d = All(g, E)
      BY <2>1, FineCut, TaggedIs
    <3> HIDE DEF S, g, X, E, d
    <3>3. All(g, E) \in Seq(X)
      BY <3>1, AllType
    <3> QED  BY <3>2, <3>3 DEF X
  <2>3. a \in Seq(Octets)
    <3>1. 0 \in Nat /\ 255 \in Nat /\ 0 <= 255 /\ 255 <= Len(v)
      BY <1>1, <1>5
    <3>2. SubSeq(v, 0 + 1, 255) \in Seq(Octets)
      BY <1>1, <3>1, PartOf
    <3>3. 0 + 1 = 1
      OBVIOUS
    <3> QED  BY <3>2, <3>3
  <2>4. W = (<<t, 255>> \o a) \o d
    BY <2>1, Zenon DEF Long
  <2>5. 255 \in Octets /\ <<t, 255>> \in Seq(Octets)
    BY DEF Octets
  <2> HIDE DEF a, d, w
  <2>6. W = <<t, 255>> \o (a \o d)
    <3> DEFINE c == <<t, 255>>
    <3>1. c \in Seq(Octets)
      BY <2>5
    <3> HIDE DEF c
    <3>2. (c \o a) \o d = c \o (a \o d)
      BY <2>2, <2>3, <3>1, ConcatAssociative
    <3> QED  BY <2>4, <3>2 DEF c
  <2>7. a \o d \in Seq(Octets)
    BY <2>2, <2>3, ConcatProperties
  <2>8. Begins(<<t, 255>> \o (a \o d))
    BY <1>3, <2>5, <2>7
  <2> HIDE DEF Begins
  <2>9. Begins(W)
    BY <2>6, <2>8, Zenon
  <2> QED  BY <1>2, <2>9 DEF Begins
<1> QED  BY <1>1, <1>4, <1>5

LEMMA OctetIs == \A x \in Octets : x \in Nat /\ x <= 255
  BY DEF Octets

\* An item that comes back; a turn of _iter_tlv at a place of a buffer.
ListItem == {Camera!TagValue(t, v) : t \in Octets, v \in FineValues}

Take(data, g, at) ==
  IF at > Len(data) THEN <<>>
  ELSE IF at = Len(data) THEN <<Camera!Broken>>
  ELSE LET next == at + 2 + data[at + 1]
           value == Camera!ValueAt(data, at)
           rest == g[next]
       IN  IF data[at + 1] = 255 /\ next <= Len(data) /\ data[next] = data[at]
           THEN <<[rest[1] EXCEPT !.value = value \o @]>> \o Tail(rest)
           ELSE <<Camera!TagValue(data[at], value)>> \o rest

Taking(f, data) == f = [at \in Nat \ {0} |-> Take(data, f, at)]

\* The places from which no more than so many bytes follow.
Late(data, n) == {at \in Nat \ {0} : at > Len(data) - n}
LateTaking(g, data, n) == g = [at \in Late(data, n) |-> Take(data, g, at)]

(* A turn looks only at a turn further on. *)
LEMMA TakesAgree ==
  ASSUME NEW data, NEW g, NEW h, NEW at, Len(data) \in Nat, at \in Nat,
         at < Len(data) => g[at + 2 + data[at + 1]] = h[at + 2 + data[at + 1]]
  PROVE  Take(data, g, at) = Take(data, h, at)
<1>1. CASE at > Len(data)
  BY <1>1, Zenon DEF Take
<1>2. CASE at = Len(data)
  BY <1>2, Zenon DEF Take
<1>3. CASE at < Len(data)
  <2>1. ~ (at > Len(data)) /\ at # Len(data)
    BY <1>3
  <2> DEFINE next == at + 2 + data[at + 1]
             value == Camera!ValueAt(data, at)
             again == data[at + 1] = 255 /\ next <= Len(data) /\ data[next] = data[at]
             T(r) == IF again THEN <<[r[1] EXCEPT !.value = value \o @]>> \o Tail(r)
                     ELSE <<Camera!TagValue(data[at], value)>> \o r
  <2>2. Take(data, g, at) = T(g[next]) /\ Take(data, h, at) = T(h[next])
    BY <2>1, Zenon DEF Take
  <2>3. g[next] = h[next]
    BY <1>3
  <2> HIDE DEF T, next
  <2> QED  BY <2>2, <2>3, Zenon
<1> QED  BY <1>1, <1>2, <1>3

(* The turns of _iter_tlv, from the end of the buffer. *)
LEMMA TakingExists ==
  ASSUME NEW data \in Seq(Octets)
  PROVE  \E f : Taking(f, data)
<1> DEFINE L == Len(data)
           T == {n \in 0 .. L : \E g : LateTaking(g, data, n)}
<1>1. L \in Nat
  BY LenProperties
<1>2. 0 \in T
  <2> DEFINE g == [at \in Late(data, 0) |-> <<>>]
  <2>1. ASSUME NEW at \in Late(data, 0) PROVE Take(data, g, at) = <<>>
    <3>1. at > Len(data)
      BY <1>1 DEF Late
    <3> QED  BY <3>1, Zenon DEF Take
  <2>2. g = [at \in Late(data, 0) |-> Take(data, g, at)]
    BY <2>1, Zenon
  <2> HIDE DEF g
  <2>3. LateTaking(g, data, 0)
    BY <2>2 DEF LateTaking
  <2> QED  BY <1>1, <2>3
<1>3. ASSUME NEW n \in 0 .. L, n \in T /\ n < L PROVE n + 1 \in T
  <2>1. PICK g : LateTaking(g, data, n)
    BY <1>3
  <2> DEFINE D == Late(data, n + 1)
             F(at) == Take(data, g, at)
             h == [at \in D |-> F(at)]
             H(at) == Take(data, h, at)
  <2>2. ASSUME NEW at \in Late(data, n) PROVE h[at] = g[at]
    <3>1. at \in D
      BY <1>1 DEF Late
    <3>2. h[at] = F(at)
      BY <3>1
    <3>3. g[at] = F(at)
      BY <2>1, Zenon DEF LateTaking
    <3> QED  BY <3>2, <3>3
  <2>3. ASSUME NEW at \in D PROVE F(at) = H(at)
    <3> HIDE DEF h
    <3>1. at \in Nat \ {0} /\ at > L - (n + 1)
      BY DEF Late
    <3>2. ASSUME at < Len(data) PROVE h[at + 2 + data[at + 1]] = g[at + 2 + data[at + 1]]
      <4> DEFINE next == at + 2 + data[at + 1]
      <4>1. data[at + 1] \in Octets
        <5>1. at + 1 \in 1 .. Len(data)
          BY <1>1, <3>1, <3>2
        <5> QED  BY <5>1, ElementOfSeq
      <4>2. data[at + 1] \in Nat
        BY <4>1, OctetIs
      <4>3. next \in Late(data, n)
        BY <1>1, <3>1, <4>2 DEF Late
      <4> HIDE DEF next
      <4>4. h[next] = g[next]
        BY <2>2, <4>3
      <4> QED  BY <4>4 DEF next
    <3>3. at \in Nat /\ Len(data) \in Nat
      BY <1>1, <3>1
    <3>4. Take(data, g, at) = Take(data, h, at)
      BY <3>2, <3>3, TakesAgree
    <3> QED  BY <3>4
  <2>4. h = [at \in D |-> F(at)]
    OBVIOUS
  <2> HIDE DEF F, H, D, h
  <2>5. h = [at \in D |-> H(at)]
    BY <2>3, <2>4
  <2>6. LateTaking(h, data, n + 1)
    BY <2>5, Zenon DEF LateTaking, H, D
  <2>7. n + 1 \in 0 .. L
    BY <1>1, <1>3
  <2> QED  BY <2>6, <2>7
<1> HIDE DEF T
<1>4. \A n \in 0 .. L : n \in T
  <2> HIDE DEF L
  <2> QED  BY <1>1, <1>2, <1>3, NumbersUpTo
<1>5. L \in T
  <2>1. L \in 0 .. L
    BY <1>1
  <2> QED  BY <1>4, <2>1
<1>6. PICK f : LateTaking(f, data, L)
  BY <1>5 DEF T
<1>7. Late(data, L) = Nat \ {0}
  BY <1>1 DEF Late
<1>8. Taking(f, data)
  BY <1>6, <1>7, Zenon DEF Taking, LateTaking
<1> QED  BY <1>8

(* What _iter_tlv finds, from its CHOOSE, and its turns one by one. *)
LEMMA ItemsIs ==
  ASSUME NEW data \in Seq(Octets)
  PROVE  \E f : Taking(f, data) /\ Camera!Items(data) = f[1]
<1> DEFINE f == CHOOSE g : g = [at \in Nat \ {0} |-> Take(data, g, at)]
<1>1. Taking(f, data)
  BY TakingExists, Zenon DEF Taking
<1>2. Camera!Items(data) = f[1]
  BY Zenon DEF Camera!Items, Take
<1> QED  BY <1>1, <1>2

LEMMA TakingAt ==
  ASSUME NEW data, NEW f, Taking(f, data), NEW at \in Nat \ {0}
  PROVE  f[at] = Take(data, f, at)
  BY Zenon DEF Taking

LEMMA LesserOf ==
  ASSUME NEW a \in Int, NEW b \in Int, a <= b
  PROVE  Camera!Min({a, b}) = a
<1> DEFINE m == Camera!Min({a, b})
<1>1. m = CHOOSE x \in {a, b} : \A y \in {a, b} : x <= y
  BY Zenon DEF Camera!Min
<1>2. \E x \in {a, b} : \A y \in {a, b} : x <= y
  OBVIOUS
<1> HIDE DEF m
<1>3. m \in {a, b} /\ \A y \in {a, b} : m <= y
  BY <1>1, <1>2, Zenon
<1>4. m = a
  BY <1>3
<1> QED  BY <1>4 DEF m

\* What a turn finds of a fragment that is there.
Finds(data, at, t, b) ==
  /\ at < Len(data) /\ data[at] = t /\ data[at + 1] = Len(b)
  /\ at + 2 + Len(b) <= Len(data) + 1
  /\ Camera!ValueAt(data, at) = b

(* A fragment that lies in the buffer is found by a turn. *)
LEMMA FragmentLies ==
  ASSUME NEW data \in Seq(Octets), NEW at \in Nat \ {0}, NEW t \in Octets,
         NEW b \in Seq(Octets), Len(b) <= 255, Lies(data, at, <<t, Len(b)>> \o b)
  PROVE  Finds(data, at, t, b)
<1> DEFINE n == Len(b)
           c == <<t, n>>
           L == Len(data)
           X == Octets
<1>1. n \in Nat /\ L \in Nat
  BY LenProperties
<1>2. n \in X
  BY <1>1, IsOctet
<1>3. c \in Seq(X) /\ Len(c) = 2 /\ c[1] = t /\ c[2] = n
  <2> HIDE DEF n
  <2> QED  BY <1>2
<1>4. Lies(data, at, c) /\ Lies(data, at + 2, b)
  <2>1. data \in Seq(X) /\ b \in Seq(X) /\ Lies(data, at, c \o b) /\ at \in Nat
    OBVIOUS
  <2> HIDE DEF c, X
  <2>2. Lies(data, at, c) /\ Lies(data, at + Len(c), b)
    BY <1>3, <2>1, LiesConcat
  <2> QED  BY <1>3, <2>2
<1> HIDE DEF c
<1>5. data[at] = t /\ data[at + 1] = n /\ at + 1 <= L
  <2>1. at + Len(c) - 1 <= Len(data) /\ \A i \in 1 .. Len(c) : data[at + i - 1] = c[i]
    BY <1>4 DEF Lies
  <2>2. 1 \in 1 .. Len(c) /\ 2 \in 1 .. Len(c) /\ at + 1 - 1 = at /\ at + 2 - 1 = at + 1
    BY <1>3
  <2>3. data[at + 1 - 1] = c[1] /\ data[at + 2 - 1] = c[2]
    BY <2>1, <2>2
  <2>4. at + 1 <= L
    BY <1>1, <1>3, <2>1
  <2> QED  BY <1>3, <2>2, <2>3, <2>4
<1>6. Data!HasBytes(data, at + 2, n) /\ Data!Taken(data, at + 2, n) = b
  <2>1. at + 2 \in Nat \ {0} /\ data \in Seq(X) /\ b \in Seq(X)
    OBVIOUS
  <2> HIDE DEF X
  <2> QED  BY <1>4, <2>1, LiesTaken
<1>7. at + 2 + n - 1 <= L
  <2>1. at + 2 + n - 1 <= Len(data)
    BY <1>4 DEF Lies
  <2> QED  BY <2>1
<1>8. SubSeq(data, at + 2, at + 2 + n - 1) = b
  BY <1>6, Zenon DEF Data!Taken
<1> HIDE DEF n, L
<1>9. Camera!Min({at + 1 + n, L}) = at + 2 + n - 1
  <2> DEFINE x == at + 1 + n
  <2>1. x \in Int /\ L \in Int /\ x <= L /\ x = at + 2 + n - 1
    BY <1>1, <1>7
  <2> HIDE DEF x
  <2>2. Camera!Min({x, L}) = x
    BY <2>1, LesserOf
  <2> QED  BY <2>1, <2>2 DEF x
<1>10. SubSeq(data, at + 2, Camera!Min({at + 1 + data[at + 1], L})) = b
  BY <1>5, <1>8, <1>9, Zenon
<1>11. at < L /\ at + 2 + n <= L + 1
  BY <1>1, <1>5, <1>7
<1> QED  BY <1>5, <1>10, <1>11, Zenon DEF Finds, Camera!ValueAt, n, L

(* Items. *)
LEMMA ItemIn ==
  ASSUME NEW t \in Octets, NEW v \in FineValues
  PROVE  /\ Camera!TagValue(t, v) \in ListItem
         /\ Camera!TagValue(t, v).tag = t /\ Camera!TagValue(t, v).value = v
  BY DEF ListItem, Camera!TagValue

LEMMA ItemHas ==
  ASSUME NEW x \in ListItem
  PROVE  x.tag \in Octets /\ x.value \in FineValues /\ x = Camera!TagValue(x.tag, x.value)
  BY DEF ListItem, Camera!TagValue

LEMMA ItemLonger ==
  \A t, w, b : [Camera!TagValue(t, w) EXCEPT !.value = b \o @] = Camera!TagValue(t, b \o w)
<1> SUFFICES ASSUME NEW t, NEW w, NEW b
             PROVE  [Camera!TagValue(t, w) EXCEPT !.value = b \o @] = Camera!TagValue(t, b \o w)
  OBVIOUS
<1> DEFINE c == b \o w
<1>1. [Camera!TagValue(t, w) EXCEPT !.value = c] = Camera!TagValue(t, c)
  <2> HIDE DEF c
  <2> QED  BY DEF Camera!TagValue
<1>2. Camera!TagValue(t, w).value = w
  BY DEF Camera!TagValue
<1> QED  BY <1>1, <1>2, Zenon

LEMMA Octets2 ==
  ASSUME NEW a \in Seq(Octets), NEW b \in Seq(Octets)
  PROVE  a \o b \in Seq(Octets) /\ Len(a \o b) = Len(a) + Len(b)
<1> DEFINE X == Octets
<1>1. a \in Seq(X) /\ b \in Seq(X)
  OBVIOUS
<1> HIDE DEF X
<1>2. a \o b \in Seq(X) /\ Len(a \o b) = Len(a) + Len(b)
  BY <1>1, ConcatProperties
<1> QED  BY <1>2 DEF X

\* No fragment of the same tag follows.
LeavesOff(data, t, next) == next <= Len(data) => data[next] # t

(* A turn that ends an item. *)
LEMMA TurnEnds ==
  ASSUME NEW data, NEW f, Taking(f, data), NEW at \in Nat \ {0}, NEW t, NEW b,
         Len(b) \in Nat, Len(data) \in Nat,
         Finds(data, at, t, b), Len(b) = 255 => LeavesOff(data, t, at + 2 + Len(b))
  PROVE  f[at] = Before(Camera!TagValue(t, b), f[at + 2 + Len(b)])
<1> DEFINE N == at + 2 + data[at + 1]
           value == Camera!ValueAt(data, at)
           again == data[at + 1] = 255 /\ N <= Len(data) /\ data[N] = data[at]
           R(r) == IF again THEN <<[r[1] EXCEPT !.value = value \o @]>> \o Tail(r)
                   ELSE <<Camera!TagValue(data[at], value)>> \o r
<1>1. at < Len(data) /\ data[at] = t /\ data[at + 1] = Len(b)
  BY Zenon DEF Finds
<1>2. value = b
  BY Zenon DEF Finds
<1>3. ~ (at > Len(data)) /\ at # Len(data)
  BY <1>1
<1>4. f[at] = R(f[N])
  <2>1. f[at] = Take(data, f, at)
    BY TakingAt
  <2>2. Take(data, f, at) = R(f[N])
    BY <1>3, Zenon DEF Take
  <2> QED  BY <2>1, <2>2, Zenon
<1>5. ~ again
  BY <1>1 DEF LeavesOff
<1>6. N = at + 2 + Len(b)
  BY <1>1
<1> HIDE DEF N, again, value
<1>7. f[at] = <<Camera!TagValue(t, b)>> \o f[N]
  BY <1>1, <1>2, <1>4, <1>5, Zenon
<1> QED  BY <1>6, <1>7, Zenon DEF Before

Goes(f, at, b) ==
  f[at] = Before([f[at + 257][1] EXCEPT !.value = b \o @], Tail(f[at + 257]))

(* A turn that goes on with the next. *)
LEMMA TurnGoesOn ==
  ASSUME NEW data, NEW f, Taking(f, data), NEW at \in Nat \ {0}, NEW t, NEW b,
         Len(data) \in Nat,
         Finds(data, at, t, b), Len(b) = 255, at + 257 <= Len(data), data[at + 257] = t
  PROVE  Goes(f, at, b)
<1> DEFINE N == at + 2 + data[at + 1]
           value == Camera!ValueAt(data, at)
           again == data[at + 1] = 255 /\ N <= Len(data) /\ data[N] = data[at]
           R(r) == IF again THEN <<[r[1] EXCEPT !.value = value \o @]>> \o Tail(r)
                   ELSE <<Camera!TagValue(data[at], value)>> \o r
<1>1. at < Len(data) /\ data[at] = t /\ data[at + 1] = 255
  <2>1. at < Len(data) /\ data[at] = t /\ data[at + 1] = Len(b)
    BY Zenon DEF Finds
  <2> QED  BY <2>1
<1>2. value = b
  BY Zenon DEF Finds
<1>3. ~ (at > Len(data)) /\ at # Len(data)
  BY <1>1
<1>4. f[at] = R(f[N])
  <2>1. f[at] = Take(data, f, at)
    BY TakingAt
  <2>2. Take(data, f, at) = R(f[N])
    BY <1>3, Zenon DEF Take
  <2> QED  BY <2>1, <2>2, Zenon
<1>6. N = at + 257
  BY <1>1
<1>5. again
  <2> HIDE DEF N
  <2> QED  BY <1>1, <1>6
<1> HIDE DEF N, again, value
<1>7. f[at] = <<[f[N][1] EXCEPT !.value = b \o @]>> \o Tail(f[N])
  BY <1>1, <1>2, <1>4, <1>5, Zenon
<1> QED  BY <1>6, <1>7, Zenon DEF Goes, Before

LEMMA BeforeIs ==
  ASSUME NEW S, NEW x \in S, NEW z \in Seq(S)
  PROVE  /\ Before(x, z) \in Seq(S) /\ Len(Before(x, z)) = 1 + Len(z)
         /\ Before(x, z)[1] = x /\ Tail(Before(x, z)) = z
         /\ \A i \in 1 .. 1 + Len(z) : Before(x, z)[i] = IF i = 1 THEN x ELSE z[i - 1]
<1> DEFINE one == <<x>>
           b == one \o z
           n == Len(z)
<1>1. one \in Seq(S) /\ Len(one) = 1 /\ one[1] = x /\ n \in Nat
  BY LenProperties
<1> HIDE DEF one
<1>2. b \in Seq(S) /\ Len(b) = 1 + n
        /\ \A i \in 1 .. 1 + n : b[i] = IF i <= 1 THEN one[i] ELSE z[i - 1]
  BY <1>1, OneBefore
<1> HIDE DEF b, n
<1>3. b[1] = x /\ \A i \in 1 .. 1 + n : b[i] = IF i = 1 THEN x ELSE z[i - 1]
  <2>1. b[1] = one[1]
    BY <1>1, <1>2
  <2>2. ASSUME NEW i \in 1 .. 1 + n PROVE b[i] = IF i = 1 THEN x ELSE z[i - 1]
    <3>1. CASE i = 1
      BY <1>1, <2>1, <3>1
    <3>2. CASE i # 1
      <4>1. ~ (i <= 1)
        BY <1>1, <3>2
      <4> QED  BY <1>2, <3>2, <4>1
    <3> QED  BY <3>1, <3>2
  <2> QED  BY <1>1, <2>1, <2>2
<1>4. Tail(b) = z
  <2>1. b # <<>>
    <3>1. Len(<<>>) = 0
      OBVIOUS
    <3> QED  BY <3>1, <1>1, <1>2
  <2>2. Tail(b) \in Seq(S) /\ Len(Tail(b)) = Len(b) - 1
        /\ \A i \in 1 .. Len(Tail(b)) : Tail(b)[i] = b[i + 1]
    BY <1>2, <2>1, HeadTailProperties
  <2>3. Len(Tail(b)) = n
    BY <1>1, <1>2, <2>2
  <2>4. ASSUME NEW i \in 1 .. n PROVE Tail(b)[i] = z[i]
    <3>1. i + 1 \in 1 .. 1 + n /\ i + 1 # 1 /\ i + 1 - 1 = i
      BY <1>1
    <3>2. Tail(b)[i] = b[i + 1]
      BY <2>2, <2>3
    <3>3. b[i + 1] = z[i + 1 - 1]
      BY <1>3, <3>1
    <3> QED  BY <3>1, <3>2, <3>3
  <2>5. \A i \in 1 .. Len(Tail(b)) : Tail(b)[i] = z[i]
    BY <2>3, <2>4
  <2>6. Len(Tail(b)) = Len(z)
    BY <2>3 DEF n
  <2> QED  BY <2>2, <2>5, <2>6, SeqEqual
<1> QED  BY <1>2, <1>3, <1>4, Zenon DEF Before, b, one, n

\* A value that is written at a place of a buffer is the item found there.
ParsedAt(data, f, t, v, at, z) ==
  Lies(data, at, Camera!TagAndValue(t, v))
    /\ LeavesOff(data, t, at + Len(Camera!TagAndValue(t, v)))
    /\ f[at + Len(Camera!TagAndValue(t, v))] = z
  => f[at] = Before(Camera!TagValue(t, v), z)

(* Two more. *)
LEMMA TwoBefore ==
  ASSUME NEW S, NEW a \in S, NEW b \in S, NEW c \in Seq(S)
  PROVE  Len(<<a, b>> \o c) = 2 + Len(c)
<1> DEFINE d == <<a, b>>
<1>1. d \in Seq(S) /\ Len(d) = 2
  OBVIOUS
<1> HIDE DEF d
<1>2. Len(d \o c) = Len(d) + Len(c)
  BY <1>1, ConcatProperties
<1> QED  BY <1>1, <1>2 DEF d

(* A value of one fragment is found, and then what follows. *)
LEMMA ShortParsed ==
  ASSUME NEW data \in Seq(Octets), NEW f, Taking(f, data), NEW t \in Octets,
         NEW v \in Seq(Octets), Len(v) <= 255, NEW at \in Nat \ {0}, NEW z
  PROVE  ParsedAt(data, f, t, v, at, z)
<1> DEFINE W == Camera!TagAndValue(t, v)
<1>1. W = <<t, Len(v)>> \o v
  BY ShortTagged, Zenon DEF Short
<1>2. Len(v) \in Nat /\ Len(data) \in Nat /\ Len(v) \in Octets
  BY LenProperties, IsOctet
<1>3. Len(W) = 2 + Len(v)
  <2>1. Len(<<t, Len(v)>> \o v) = 2 + Len(v)
    BY <1>2, TwoBefore
  <2> HIDE DEF W
  <2> QED  BY <1>1, <2>1, Zenon
<1> HIDE DEF W
<1> SUFFICES ASSUME Lies(data, at, W), LeavesOff(data, t, at + Len(W)), f[at + Len(W)] = z
             PROVE  f[at] = Before(Camera!TagValue(t, v), z)
  BY DEF ParsedAt, W
<1>4. at + Len(W) = at + 2 + Len(v)
  BY <1>2, <1>3
<1>5. Finds(data, at, t, v)
  <2>1. Lies(data, at, <<t, Len(v)>> \o v)
    BY <1>1, Zenon
  <2> QED  BY <2>1, FragmentLies
<1>6. LeavesOff(data, t, at + 2 + Len(v))
  BY <1>4, Zenon
<1>7. f[at] = Before(Camera!TagValue(t, v), f[at + 2 + Len(v)])
  BY <1>2, <1>5, <1>6, TurnEnds
<1> QED  BY <1>4, <1>7, Zenon

(* So is a longer one, if it is so without its first fragment. *)
LEMMA LongParsed ==
  ASSUME NEW data \in Seq(Octets), NEW f, Taking(f, data), NEW t \in Octets,
         NEW v \in FineValues, Len(v) > 255, NEW at \in Nat \ {0}, NEW z \in Seq(ListItem),
         ParsedAt(data, f, t, SubSeq(v, 256, Len(v)), at + 257, z)
  PROVE  ParsedAt(data, f, t, v, at, z)
<1> DEFINE W == Camera!TagAndValue(t, v)
           n == Len(v)
           w == SubSeq(v, 256, n)
           a == SubSeq(v, 1, 255)
           d == Camera!TagAndValue(t, w)
           c == <<t, 255>>
<1>1. v \in Seq(Octets) /\ n \in Nat /\ Len(data) \in Nat
  BY FineIs, LenProperties
<1>2. Long(t, v) /\ w \in FineValues
  BY LongTagged
<1>3. W = (c \o a) \o d
  BY <1>2, Zenon DEF Long
<1>4. d \in Seq(Octets) /\ Len(d) >= 2 /\ d[1] = t
  <2> HIDE DEF w
  <2> QED  BY <1>2, TaggedType
<1>5. a \in Seq(Octets) /\ Len(a) = 255
  BY <1>1, FirstPart, Zenon
<1>6. a \o w = v
  <2>1. 1 \in 1 .. n + 1 /\ 255 \in 1 - 1 .. n /\ n \in 255 .. n /\ 255 + 1 = 256
    BY <1>1
  <2>2. SubSeq(v, 1, 255) \o SubSeq(v, 255 + 1, n) = SubSeq(v, 1, n)
    <3>1. /\ v \in Seq(Octets) /\ 1 \in 1 .. Len(v) + 1
          /\ 255 \in 1 - 1 .. Len(v) /\ n \in 255 .. Len(v)
      BY <1>1, <2>1
    <3> HIDE DEF n
    <3> QED  BY <3>1, ConcatAdjacentSubSeq
  <2>3. SubSeq(v, 1, n) = v
    BY <1>1, SubSeqFull
  <2> QED  BY <2>1, <2>2, <2>3, Zenon
<1>7. c \in Seq(Octets) /\ Len(c) = 2
  BY IsOctet
<1> HIDE DEF W, n, w, a, d, c
<1>8. c \o a \in Seq(Octets) /\ Len(c \o a) = 257
  <2>2. a \in Seq(Octets)
    BY <1>5
  <2>3. c \in Seq(Octets)
    BY <1>7
  <2>1. c \o a \in Seq(Octets) /\ Len(c \o a) = Len(c) + Len(a)
    BY <2>2, <2>3, Octets2
  <2> QED  BY <1>5, <1>7, <2>1
<1>9. Len(W) = 257 + Len(d)
  <2> DEFINE e == c \o a
  <2>1. e \in Seq(Octets) /\ Len(e) = 257 /\ W = e \o d
    BY <1>3, <1>8
  <2> HIDE DEF e
  <2>2. Len(e \o d) = Len(e) + Len(d)
    BY <1>4, <2>1, Octets2
  <2> QED  BY <2>1, <2>2
<1> SUFFICES ASSUME Lies(data, at, W), LeavesOff(data, t, at + Len(W)), f[at + Len(W)] = z
             PROVE  f[at] = Before(Camera!TagValue(t, v), z)
  BY DEF ParsedAt, W
<1>10. Lies(data, at, c \o a) /\ Lies(data, at + 257, d)
  <2> DEFINE e == c \o a
  <2>1. e \in Seq(Octets) /\ Len(e) = 257 /\ W = e \o d /\ data \in Seq(Octets) /\ at \in Nat
    BY <1>3, <1>8
  <2> HIDE DEF e
  <2>2. Lies(data, at, e \o d)
    BY <2>1, Zenon
  <2>3. Lies(data, at, e) /\ Lies(data, at + Len(e), d)
    BY <1>4, <2>1, <2>2, LiesConcat
  <2> QED  BY <2>1, <2>3 DEF e
<1>11. Len(d) \in Nat
  BY <1>4, LenProperties
<1>12. at + 257 + Len(d) = at + Len(W)
  BY <1>9, <1>11
<1>13. f[at + 257] = Before(Camera!TagValue(t, w), z)
  <2>1. ParsedAt(data, f, t, w, at + 257, z)
    BY DEF w, n
  <2>2. LeavesOff(data, t, at + 257 + Len(d)) /\ f[at + 257 + Len(d)] = z
    BY <1>12, Zenon
  <2> QED  BY <1>10, <2>1, <2>2, Zenon DEF ParsedAt, d
<1>14. at + 257 <= Len(data) /\ data[at + 257] = t
  <2>1. /\ at + 257 + Len(d) - 1 <= Len(data)
        /\ \A i \in 1 .. Len(d) : data[at + 257 + i - 1] = d[i]
    BY <1>10 DEF Lies
  <2>2. 1 \in 1 .. Len(d) /\ at + 257 + 1 - 1 = at + 257
    BY <1>4, <1>11
  <2>3. data[at + 257 + 1 - 1] = d[1]
    BY <2>1, <2>2
  <2>4. at + 257 <= Len(data)
    BY <1>1, <1>4, <1>11, <2>1
  <2> QED  BY <1>4, <2>2, <2>3, <2>4
<1>15. Finds(data, at, t, a)
  <2>1. Lies(data, at, <<t, Len(a)>> \o a)
    BY <1>5, <1>10, Zenon DEF c
  <2>2. a \in Seq(Octets) /\ Len(a) <= 255
    BY <1>5
  <2> QED  BY <2>1, <2>2, FragmentLies
<1>16. Goes(f, at, a)
  BY <1>1, <1>5, <1>14, <1>15, TurnGoesOn
<1> DEFINE x == Camera!TagValue(t, w)
<1>17. x \in ListItem /\ [x EXCEPT !.value = a \o @] = Camera!TagValue(t, a \o w)
  BY <1>2, ItemIn, ItemLonger, Zenon
<1> HIDE DEF x
<1>18. Before(x, z)[1] = x /\ Tail(Before(x, z)) = z
  BY <1>17, BeforeIs
<1>19. f[at + 257] = Before(x, z)
  BY <1>13 DEF x
<1>20. f[at] = Before([x EXCEPT !.value = a \o @], z)
  <2>1. f[at + 257][1] = x /\ Tail(f[at + 257]) = z
    BY <1>18, <1>19, Zenon
  <2>2. f[at] = Before([f[at + 257][1] EXCEPT !.value = a \o @], Tail(f[at + 257]))
    BY <1>16, Zenon DEF Goes
  <2> QED  BY <2>1, <2>2, Zenon
<1> QED  BY <1>6, <1>17, <1>20, Zenon

(* And so is every value, by induction over its length. *)
LEMMA ItemParsed ==
  ASSUME NEW data \in Seq(Octets), NEW f, Taking(f, data)
  PROVE  \A t \in Octets, v \in FineValues, at \in Nat \ {0}, z \in Seq(ListItem) :
            ParsedAt(data, f, t, v, at, z)
<1> DEFINE T == {n \in Nat :
             \A t \in Octets, v \in FineValues, at \in Nat \ {0}, z \in Seq(ListItem) :
                               Len(v) <= n => ParsedAt(data, f, t, v, at, z)}
<1>1. \A v \in FineValues : v \in Seq(Octets) /\ Len(v) \in Nat
  BY FineIs, LenProperties
<1>2. 0 \in T
  <2> SUFFICES ASSUME NEW t \in Octets, NEW v \in FineValues, NEW at \in Nat \ {0},
                      NEW z \in Seq(ListItem), Len(v) <= 0
               PROVE  ParsedAt(data, f, t, v, at, z)
    OBVIOUS
  <2>1. v \in Seq(Octets) /\ Len(v) <= 255
    BY <1>1
  <2> QED  BY <2>1, ShortParsed
<1>3. ASSUME NEW n \in Nat, n \in T PROVE n + 1 \in T
  <2> SUFFICES ASSUME NEW t \in Octets, NEW v \in FineValues, NEW at \in Nat \ {0},
                      NEW z \in Seq(ListItem), Len(v) <= n + 1
               PROVE  ParsedAt(data, f, t, v, at, z)
    OBVIOUS
  <2>1. v \in Seq(Octets) /\ Len(v) \in Nat
    BY <1>1
  <2>2. CASE Len(v) <= 255
    BY <2>1, <2>2, ShortParsed
  <2>3. CASE Len(v) > 255
    <3> DEFINE w == SubSeq(v, 256, Len(v))
    <3>1. w \in FineValues /\ Len(w) = Len(v) - 255
      BY <2>3, LongTagged
    <3>2. Len(w) <= n /\ at + 257 \in Nat \ {0}
      BY <2>1, <3>1
    <3> HIDE DEF w
    <3>3. ParsedAt(data, f, t, w, at + 257, z)
      BY <1>3, <3>1, <3>2
    <3>4. ParsedAt(data, f, t, SubSeq(v, 256, Len(v)), at + 257, z)
      BY <3>3 DEF w
    <3> QED  BY <2>3, <3>4, LongParsed
  <2> QED  BY <2>1, <2>2, <2>3
<1> HIDE DEF T
<1>4. \A n \in Nat : n \in T
  BY <1>2, <1>3, NumbersFollow
<1> SUFFICES ASSUME NEW t \in Octets, NEW v \in FineValues, NEW at \in Nat \ {0},
                    NEW z \in Seq(ListItem)
             PROVE  ParsedAt(data, f, t, v, at, z)
  OBVIOUS
<1>5. Len(v) \in T /\ Len(v) <= Len(v)
  BY <1>1, <1>4
<1> QED  BY <1>5 DEF T

\* The bytes of a list of items; no two of the same tag follow each other.
OfItem == [x \in ListItem |-> Camera!TagAndValue(x.tag, x.value)]
Laid(L) == All(OfItem, L)
Apart(L) == \A i \in 1 .. Len(L) - 1 : L[i].tag # L[i + 1].tag

LEMMA OfItemIs ==
  ASSUME NEW x \in ListItem
  PROVE  /\ OfItem[x] = Camera!TagAndValue(x.tag, x.value) /\ OfItem[x] \in Seq(Octets)
         /\ Len(OfItem[x]) >= 2 /\ OfItem[x][1] = x.tag
<1>1. OfItem[x] = Camera!TagAndValue(x.tag, x.value)
  BY Zenon DEF OfItem
<1>2. x.tag \in Octets /\ x.value \in FineValues
  BY ItemHas
<1> DEFINE t == x.tag
           v == x.value
<1>3. t \in Octets /\ v \in FineValues
  BY <1>2
<1> HIDE DEF t, v
<1>4. /\ Camera!TagAndValue(t, v) \in Seq(Octets)
      /\ Len(Camera!TagAndValue(t, v)) >= 2
      /\ Camera!TagAndValue(t, v)[1] = t
  BY <1>3, TaggedType
<1> QED  BY <1>1, <1>4, Zenon DEF t, v

LEMMA OfItemMaps == Maps(OfItem, ListItem, Seq(Octets))
  BY OfItemIs, Zenon DEF Maps

LEMMA LaidType == ASSUME NEW L \in Seq(ListItem) PROVE Laid(L) \in Seq(Octets)
<1> DEFINE S == ListItem
           g == OfItem
           X == Octets
<1>1. Maps(g, S, Seq(X)) /\ L \in Seq(S)
  BY OfItemMaps
<1> HIDE DEF S, g, X
<1>2. All(g, L) \in Seq(X)
  BY <1>1, AllType
<1> QED  BY <1>2 DEF Laid, g, X

(* The bytes of two lists, and of an item before a list. *)
LEMMA LaidConcat ==
  ASSUME NEW L \in Seq(ListItem), NEW M \in Seq(ListItem)
  PROVE  Laid(L \o M) = Laid(L) \o Laid(M)
<1> DEFINE S == ListItem
           g == OfItem
           X == Octets
<1>1. Maps(g, S, Seq(X)) /\ L \in Seq(S) /\ M \in Seq(S)
  BY OfItemMaps
<1> HIDE DEF S, g, X
<1>2. Behind2(g, L, M)
  BY <1>1, AllConcat
<1> QED  BY <1>2, Zenon DEF Laid, g, Behind2

LaysFirst(x, M) == Laid(Before(x, M)) = OfItem[x] \o Laid(M)

LEMMA LaidBefore ==
  ASSUME NEW x \in ListItem, NEW M \in Seq(ListItem)
  PROVE  LaysFirst(x, M)
<1> DEFINE S == ListItem
           g == OfItem
           X == Octets
<1>1. Maps(g, S, Seq(X)) /\ x \in S /\ M \in Seq(S)
  BY OfItemMaps
<1> HIDE DEF S, g, X
<1>2. All(g, Before(x, M)) = g[x] \o All(g, M)
  BY <1>1, AllBefore
<1> QED  BY <1>2, Zenon DEF LaysFirst, Laid, g

LEMMA LaidNone == Laid(<<>>) = <<>>
  BY AllOfNone DEF Laid

(* A list that is not empty has a first item. *)
LEMMA FirstAndRest ==
  ASSUME NEW S, NEW L \in Seq(S), NEW n \in Nat, Len(L) = n + 1
  PROVE  \E x \in S, M \in Seq(S) : L = Before(x, M) /\ Len(M) = n /\ x = L[1]
<1> DEFINE M == SubSeq(L, 2, n + 1)
<1>1. 1 \in 1 .. Len(L) /\ n + 1 \in 1 .. Len(L)
  OBVIOUS
<1>2. SubSeq(L, 1, n + 1) = <<L[1]>> \o SubSeq(L, 1 + 1, n + 1)
  BY <1>1, SubSeqRecursiveFirst
<1>3. SubSeq(L, 1, n + 1) = L
  BY SubSeqFull
<1>4. 1 + 1 = 2
  OBVIOUS
<1>5. L = Before(L[1], M)
  BY <1>2, <1>3, <1>4, Zenon DEF Before
<1>6. L[1] \in S
  BY <1>1, ElementOfSeq
<1>7. M \in Seq(S) /\ Len(M) = n
  <2>1. ASSUME NEW i \in 2 .. n + 1 PROVE L[i] \in S
    <3>1. i \in 1 .. Len(L)
      OBVIOUS
    <3> QED  BY <3>1, ElementOfSeq
  <2>2. 2 \in Int /\ n + 1 \in Int
    OBVIOUS
  <2>3. M \in Seq(S) /\ Len(M) = IF 2 <= n + 1 THEN n + 1 - 2 + 1 ELSE 0
    BY <2>1, <2>2, SubSeqProperties
  <2>4. (IF 2 <= n + 1 THEN n + 1 - 2 + 1 ELSE 0) = n
    OBVIOUS
  <2> QED  BY <2>3, <2>4
<1> QED  BY <1>5, <1>6, <1>7

(* The bytes of a list begin with the first tag. *)
LEMMA LaidFirst ==
  ASSUME NEW M \in Seq(ListItem), Len(M) # 0
  PROVE  Len(Laid(M)) >= 2 /\ Laid(M)[1] = M[1].tag
<1> DEFINE n == Len(M) - 1
<1>1. n \in Nat /\ Len(M) = n + 1
  BY LenProperties
<1> HIDE DEF n
<1>2. PICK x \in ListItem, N \in Seq(ListItem) : M = Before(x, N) /\ x = M[1]
  BY <1>1, FirstAndRest
<1> DEFINE a == OfItem[x]
           b == Laid(N)
<1>3. a \in Seq(Octets) /\ Len(a) >= 2 /\ a[1] = x.tag /\ b \in Seq(Octets) /\ Len(a) \in Nat
        /\ Len(b) \in Nat
  <2>1. a \in Seq(Octets) /\ Len(a) >= 2 /\ a[1] = x.tag
    BY OfItemIs
  <2>2. b \in Seq(Octets)
    BY LaidType
  <2> HIDE DEF a, b
  <2>3. Len(a) \in Nat /\ Len(b) \in Nat
    BY <2>1, <2>2, LenProperties
  <2> QED  BY <2>1, <2>2, <2>3
<1>4. Laid(M) = a \o b
  BY <1>2, LaidBefore, Zenon DEF LaysFirst
<1> HIDE DEF a, b
<1>5. Len(a \o b) = Len(a) + Len(b) /\ (a \o b)[1] = a[1]
  <2>1. /\ Len(a \o b) = Len(a) + Len(b)
        /\ \A i \in 1 .. Len(a) + Len(b) :
             (a \o b)[i] = IF i <= Len(a) THEN a[i] ELSE b[i - Len(a)]
    BY <1>3, ConcatProperties
  <2>2. 1 \in 1 .. Len(a) + Len(b) /\ 1 <= Len(a)
    BY <1>3
  <2> QED  BY <2>1, <2>2
<1>6. Len(a \o b) >= 2
  BY <1>3, <1>5
<1> QED  BY <1>2, <1>3, <1>4, <1>5, <1>6

LEMMA ApartBefore ==
  ASSUME NEW x \in ListItem, NEW M \in Seq(ListItem), Apart(Before(x, M))
  PROVE  Apart(M) /\ (Len(M) # 0 => x.tag # M[1].tag)
<1> DEFINE L == Before(x, M)
           n == Len(M)
<1>1. n \in Nat /\ Len(L) = 1 + n /\ L[1] = x
        /\ \A i \in 1 .. 1 + n : L[i] = IF i = 1 THEN x ELSE M[i - 1]
  BY BeforeIs, LenProperties
<1> HIDE DEF L, n
<1>2. \A i \in 1 .. n : L[i].tag # L[i + 1].tag
  <2>1. \A i \in 1 .. Len(L) - 1 : L[i].tag # L[i + 1].tag
    BY Zenon DEF Apart, L
  <2>2. Len(L) - 1 = n
    BY <1>1
  <2> QED  BY <2>1, <2>2
<1>3. ASSUME NEW i \in 1 .. n - 1 PROVE M[i].tag # M[i + 1].tag
  <2>1. i + 1 \in 1 .. n /\ i + 1 \in 1 .. 1 + n /\ i + 1 + 1 \in 1 .. 1 + n
          /\ i + 1 # 1 /\ i + 1 + 1 # 1 /\ i + 1 - 1 = i /\ i + 1 + 1 - 1 = i + 1
    BY <1>1
  <2>2. L[i + 1] = M[i] /\ L[i + 1 + 1] = M[i + 1]
    <3>1. L[i + 1] = M[i + 1 - 1]
      BY <1>1, <2>1
    <3>2. L[i + 1 + 1] = M[i + 1 + 1 - 1]
      BY <1>1, <2>1
    <3> QED  BY <2>1, <3>1, <3>2
  <2>3. L[i + 1].tag # L[i + 1 + 1].tag
    BY <1>2, <2>1
  <2> QED  BY <2>2, <2>3
<1>4. ASSUME n # 0 PROVE x.tag # M[1].tag
  <2>1. 1 \in 1 .. n /\ 1 + 1 \in 1 .. 1 + n /\ 1 + 1 # 1 /\ 1 + 1 - 1 = 1
    BY <1>1, <1>4
  <2>2. L[1 + 1] = M[1 + 1 - 1]
    BY <1>1, <2>1
  <2>3. L[1].tag # L[1 + 1].tag
    BY <1>2, <2>1
  <2> QED  BY <1>1, <2>1, <2>2, <2>3
<1> QED  BY <1>3, <1>4 DEF Apart, n

\* A list that is written at the end of a buffer is found there.
ListAt(data, f, L, at) ==
  Apart(L) /\ Lies(data, at, Laid(L)) /\ at + Len(Laid(L)) = Len(data) + 1 => f[at] = L

(* By induction over the items, the last one first. *)
LEMMA ListParsed ==
  ASSUME NEW data \in Seq(Octets), NEW f, Taking(f, data)
  PROVE  \A L \in Seq(ListItem), at \in Nat \ {0} : ListAt(data, f, L, at)
<1> DEFINE T == {n \in Nat : \A L \in Seq(ListItem), at \in Nat \ {0} :
                               Len(L) = n => ListAt(data, f, L, at)}
<1>0. Len(data) \in Nat
  BY LenProperties
<1>1. 0 \in T
  <2> SUFFICES ASSUME NEW L \in Seq(ListItem), NEW at \in Nat \ {0}, Len(L) = 0
               PROVE  ListAt(data, f, L, at)
    OBVIOUS
  <2>1. L = <<>>
    BY EmptySeq
  <2> SUFFICES ASSUME at + Len(Laid(L)) = Len(data) + 1 PROVE f[at] = L
    BY DEF ListAt
  <2>2. Len(Laid(L)) = 0
    <3>1. Laid(L) = <<>>
      BY <2>1, LaidNone, Zenon
    <3>2. Len(<<>>) = 0
      OBVIOUS
    <3> QED  BY <3>1, <3>2, Zenon
  <2>3. at > Len(data)
    BY <1>0, <2>2
  <2>4. f[at] = Take(data, f, at)
    BY TakingAt
  <2> QED  BY <2>1, <2>3, <2>4, Zenon DEF Take
<1>2. ASSUME NEW n \in Nat, n \in T PROVE n + 1 \in T
  <2> SUFFICES ASSUME NEW L \in Seq(ListItem), NEW at \in Nat \ {0}, Len(L) = n + 1
               PROVE  ListAt(data, f, L, at)
    OBVIOUS
  <2>1. PICK x \in ListItem, M \in Seq(ListItem) : L = Before(x, M) /\ Len(M) = n
    BY FirstAndRest
  <2> SUFFICES ASSUME Apart(L), Lies(data, at, Laid(L)), at + Len(Laid(L)) = Len(data) + 1
               PROVE  f[at] = L
    BY DEF ListAt
  <2> DEFINE a == OfItem[x]
             b == Laid(M)
             next == at + Len(a)
  <2>2. a \in Seq(Octets) /\ Len(a) >= 2 /\ b \in Seq(Octets)
    BY OfItemIs, LaidType
  <2>3. Laid(L) = a \o b
    BY <2>1, LaidBefore, Zenon DEF LaysFirst
  <2> HIDE DEF a, b
  <2>4. Len(a) \in Nat /\ Len(b) \in Nat /\ Len(a \o b) = Len(a) + Len(b)
    BY <2>2, LenProperties, Octets2
  <2>5. Lies(data, at, a) /\ Lies(data, next, b)
    <3>1. Lies(data, at, a \o b)
      BY <2>3, Zenon
    <3> DEFINE X == Octets
    <3>2. data \in Seq(X) /\ a \in Seq(X) /\ b \in Seq(X) /\ at \in Nat
      BY <2>2
    <3> HIDE DEF X
    <3> QED  BY <3>1, <3>2, LiesConcat
  <2>6. next + Len(b) = Len(data) + 1 /\ next \in Nat \ {0}
    BY <2>3, <2>4
  <2> HIDE DEF next
  <2>7. Apart(M) /\ (Len(M) # 0 => x.tag # M[1].tag)
    BY <2>1, ApartBefore
  <2>8. f[next] = M
    <3>1. ListAt(data, f, M, next)
      BY <1>2, <2>1, <2>6
    <3> QED  BY <2>5, <2>6, <2>7, <3>1, Zenon DEF ListAt, b
  <2>9. LeavesOff(data, x.tag, next)
    <3>1. CASE Len(M) = 0
      <4>1. M = <<>>
        BY <3>1, EmptySeq
      <4>2. b = <<>>
        BY <4>1, LaidNone, Zenon DEF b
      <4>3. Len(b) = 0
        BY <4>2
      <4> QED  BY <1>0, <2>6, <4>3 DEF LeavesOff
    <3>2. CASE Len(M) # 0
      <4>1. Len(b) >= 2 /\ b[1] = M[1].tag
        BY <3>2, LaidFirst DEF b
      <4>2. \A i \in 1 .. Len(b) : data[next + i - 1] = b[i]
        BY <2>5 DEF Lies
      <4>3. 1 \in 1 .. Len(b) /\ next + 1 - 1 = next
        BY <2>4, <2>6, <4>1
      <4>4. data[next + 1 - 1] = b[1]
        BY <4>2, <4>3
      <4>5. data[next] # x.tag
        BY <2>7, <3>2, <4>1, <4>3, <4>4
      <4> QED  BY <4>5 DEF LeavesOff
    <3> QED  BY <3>1, <3>2
  <2> DEFINE t == x.tag
             v == x.value
  <2>10. t \in Octets /\ v \in FineValues /\ x = Camera!TagValue(t, v)
          /\ a = Camera!TagAndValue(t, v)
    BY ItemHas, OfItemIs DEF a
  <2> HIDE DEF t, v
  <2>11. ParsedAt(data, f, t, v, at, M)
    BY <2>10, ItemParsed
  <2>12. f[at] = Before(Camera!TagValue(t, v), M)
    <3>1. LeavesOff(data, t, next)
      BY <2>9 DEF t
    <3> QED  BY <2>5, <2>8, <2>10, <2>11, <3>1, Zenon DEF ParsedAt, next
  <2> QED  BY <2>1, <2>10, <2>12, Zenon
<1> HIDE DEF T
<1>3. \A n \in Nat : n \in T
  BY <1>1, <1>2, NumbersFollow
<1> SUFFICES ASSUME NEW L \in Seq(ListItem), NEW at \in Nat \ {0} PROVE ListAt(data, f, L, at)
  OBVIOUS
<1>4. Len(L) \in T
  BY <1>3, LenProperties
<1> QED  BY <1>4 DEF T

(* _iter_tlv finds the items that were written. *)
LEMMA ItemsBack ==
  ASSUME NEW L \in Seq(ListItem), Apart(L)
  PROVE  Camera!Items(Laid(L)) = L
<1> DEFINE data == Laid(L)
<1>1. data \in Seq(Octets)
  BY LaidType
<1>2. Len(data) \in Nat
  BY <1>1, LenProperties
<1> HIDE DEF data
<1>3. PICK f : Taking(f, data) /\ Camera!Items(data) = f[1]
  BY <1>1, ItemsIs
<1>4. 1 \in Nat \ {0}
  OBVIOUS
<1>5. ListAt(data, f, L, 1)
  BY <1>1, <1>3, <1>4, ListParsed
<1>6. Lies(data, 1, data) /\ 1 + Len(data) = Len(data) + 1
  <2>1. \A i \in 1 .. Len(data) : 1 + i - 1 = i
    OBVIOUS
  <2> QED  BY <1>2, <2>1 DEF Lies
<1>7. f[1] = L
  BY <1>5, <1>6, Zenon DEF ListAt, data
<1> QED  BY <1>3, <1>7, Zenon DEF data

(* Lists that are put one behind the other. *)

OfEach(f, s) == [i \in 1 .. Len(s) |-> All(f, s[i])]

(* Part by part. *)
LEMMA FlatStep ==
  ASSUME NEW X, NEW s \in Seq(Seq(X)), NEW k \in 0 .. Len(s), k < Len(s)
  PROVE  Flat(SubSeq(s, 1, k + 1)) = Flat(SubSeq(s, 1, k)) \o s[k + 1]
<1> DEFINE Y == Seq(X)
           p == SubSeq(s, 1, k)
           e == s[k + 1]
<1>1. p \in Seq(Y) /\ e \in Y /\ SubSeq(s, 1, k + 1) = Append(p, e)
  BY Firsts
<1> HIDE DEF p, e
<1>2. Flat(Append(p, e)) = Flat(p) \o e
  BY <1>1, FlatAppend
<1> QED  BY <1>1, <1>2 DEF p, e

LEMMA FlatFirst == ASSUME NEW s PROVE Flat(SubSeq(s, 1, 0)) = <<>>
<1>1. SubSeq(s, 1, 0) = <<>>
  BY SubSeqEmpty
<1> QED  BY <1>1, FlatEmpty, Zenon

LEMMA OfEachType ==
  ASSUME NEW S, NEW X, NEW f, Maps(f, S, Seq(X)), NEW s \in Seq(Seq(S))
  PROVE  /\ OfEach(f, s) \in Seq(Seq(X)) /\ Len(OfEach(f, s)) = Len(s)
         /\ \A i \in 1 .. Len(s) : OfEach(f, s)[i] = All(f, s[i])
<1> DEFINE n == Len(s)
           Y == Seq(S)
           Z == Seq(X)
           a(i) == All(f, s[i])
<1>1. n \in Nat
  BY LenProperties
<1>2. ASSUME NEW i \in 1 .. n PROVE a(i) \in Z
  <2>1. s[i] \in Seq(S)
    <3>1. s \in Seq(Y) /\ i \in 1 .. Len(s)
      OBVIOUS
    <3> HIDE DEF Y
    <3>2. s[i] \in Y
      BY <3>1, ElementOfSeq
    <3> QED  BY <3>2 DEF Y
  <2> QED  BY <2>1, AllType
<1>3. OfEach(f, s) = [i \in 1 .. n |-> a(i)]
  BY DEF OfEach
<1> HIDE DEF n, Z, a
<1>4. [i \in 1 .. n |-> a(i)] \in Seq(Z) /\ Len([i \in 1 .. n |-> a(i)]) = n
        /\ \A i \in 1 .. n : [j \in 1 .. n |-> a(j)][i] = a(i)
  BY <1>1, <1>2
<1> QED  BY <1>3, <1>4 DEF n, Z, a

AllOver(f, s) == All(f, Flat(s)) = Flat(OfEach(f, s))

(* What is written of all of them is written part by part. *)
LEMMA AllFlat ==
  ASSUME NEW S, NEW X, NEW f, Maps(f, S, Seq(X)), NEW s \in Seq(Seq(S))
  PROVE  AllOver(f, s)
<1> DEFINE n == Len(s)
           w == OfEach(f, s)
           Y == Seq(S)
           T == {k \in 0 .. n : All(f, Flat(SubSeq(s, 1, k))) = Flat(SubSeq(w, 1, k))}
<1>1. n \in Nat /\ SubSeq(s, 1, n) = s
  BY LenProperties, SubSeqFull
<1>2. w \in Seq(Seq(X)) /\ Len(w) = n /\ \A i \in 1 .. n : w[i] = All(f, s[i])
  BY OfEachType
<1> HIDE DEF w
<1>3. 0 \in T
  <2>1. Flat(SubSeq(s, 1, 0)) = <<>> /\ Flat(SubSeq(w, 1, 0)) = <<>> /\ 0 \in 0 .. n
    BY <1>1, FlatFirst
  <2> QED  BY <2>1, AllOfNone
<1>4. ASSUME NEW k \in 0 .. n, k \in T /\ k < n PROVE k + 1 \in T
  <2> DEFINE p == Flat(SubSeq(s, 1, k))
             e == s[k + 1]
  <2>1. p \in Seq(S) /\ e \in Seq(S)
    <3>1. SubSeq(s, 1, k) \in Seq(Y) /\ e \in Y
      <4>1. s \in Seq(Y) /\ k \in 0 .. Len(s) /\ k < Len(s)
        BY <1>4
      <4> HIDE DEF Y
      <4> QED  BY <4>1, Firsts
    <3> QED  BY <3>1, FlatType
  <2>2. Flat(SubSeq(s, 1, k + 1)) = p \o e
    BY <1>4, FlatStep
  <2>3. Flat(SubSeq(w, 1, k + 1)) = Flat(SubSeq(w, 1, k)) \o w[k + 1]
    BY <1>2, <1>4, FlatStep
  <2>4. w[k + 1] = All(f, e)
    BY <1>1, <1>2, <1>4
  <2>5. All(f, p) = Flat(SubSeq(w, 1, k))
    BY <1>4
  <2> HIDE DEF p, e
  <2>6. Behind2(f, p, e)
    BY <2>1, AllConcat
  <2>7. All(f, p \o e) = Flat(SubSeq(w, 1, k)) \o All(f, e)
    BY <2>5, <2>6, Zenon DEF Behind2
  <2>8. k + 1 \in 0 .. n
    BY <1>1, <1>4
  <2>9. All(f, Flat(SubSeq(s, 1, k + 1))) = Flat(SubSeq(w, 1, k + 1))
    BY <2>2, <2>3, <2>4, <2>7, Zenon
  <2> QED  BY <2>8, <2>9
<1> HIDE DEF T
<1>5. \A k \in 0 .. n : k \in T
  BY <1>1, <1>3, <1>4, NumbersUpTo
<1>6. n \in 0 .. n
  BY <1>1
<1>7. All(f, Flat(s)) = Flat(SubSeq(w, 1, n))
  BY <1>1, <1>5, <1>6 DEF T
<1>8. SubSeq(w, 1, n) = w
  BY <1>2, SubSeqFull
<1> QED  BY <1>7, <1>8, Zenon DEF AllOver, w

(* All parts but one are empty. *)
Alone(s, k) == \A i \in 1 .. Len(s) : i # k => s[i] = <<>>

(* Then the whole is that one. *)
LEMMA FlatOnly ==
  ASSUME NEW X, NEW s \in Seq(Seq(X)), NEW m \in 1 .. Len(s), Alone(s, m)
  PROVE  Flat(s) = s[m]
<1> DEFINE n == Len(s)
           Y == Seq(X)
           T == {k \in 0 .. n : Flat(SubSeq(s, 1, k)) = IF k < m THEN <<>> ELSE s[m]}
<1>1. n \in Nat /\ SubSeq(s, 1, n) = s /\ m \in 1 .. n
  BY LenProperties, SubSeqFull
<1>2. s[m] \in Y
  BY ElementOfSeq
<1>3. 0 \in T
  BY <1>1, FlatFirst
<1>4. ASSUME NEW k \in 0 .. n, k \in T /\ k < n PROVE k + 1 \in T
  <2> DEFINE p == Flat(SubSeq(s, 1, k))
             q == Flat(SubSeq(s, 1, k + 1))
  <2>1. q = p \o s[k + 1]
    BY <1>4, FlatStep
  <2>2. p = IF k < m THEN <<>> ELSE s[m]
    BY <1>4
  <2>3. k + 1 # m => s[k + 1] = <<>>
    BY <1>1, <1>4 DEF Alone
  <2>4. k + 1 \in 0 .. n
    BY <1>1, <1>4
  <2> HIDE DEF p, q
  <2>5. s[m] \in Seq(X) /\ <<>> \in Seq(X)
    BY <1>2, EmptySeq
  <2>6. <<>> \o <<>> = <<>> /\ <<>> \o s[m] = s[m] /\ s[m] \o <<>> = s[m]
    BY <2>5, ConcatEmptySeq
  <2>7. q = IF k + 1 < m THEN <<>> ELSE s[m]
    <3>1. CASE k + 1 < m
      BY <1>1, <2>1, <2>2, <2>3, <2>6, <3>1
    <3>2. CASE k + 1 = m
      <4>1. k < m /\ ~ (k + 1 < m) /\ s[k + 1] = s[m]
        BY <1>1, <3>2
      <4> QED  BY <2>1, <2>2, <2>6, <4>1, Zenon
    <3>3. CASE k + 1 > m
      <4>1. ~ (k < m) /\ ~ (k + 1 < m) /\ k + 1 # m
        BY <1>1, <3>3
      <4> QED  BY <2>1, <2>2, <2>3, <2>6, <4>1
    <3> QED  BY <1>1, <3>1, <3>2, <3>3
  <2> QED  BY <2>4, <2>7 DEF q
<1> HIDE DEF T
<1>5. \A k \in 0 .. n : k \in T
  BY <1>1, <1>3, <1>4, NumbersUpTo
<1>6. n \in 0 .. n /\ ~ (n < m)
  BY <1>1
<1> QED  BY <1>1, <1>5, <1>6 DEF T

(* The elements of the whole are those of its parts; it has some if one has. *)
ComesFrom(s, b) ==
  \A j \in 1 .. Len(b) : \E i \in 1 .. Len(s) : \E m \in 1 .. Len(s[i]) : b[j] = s[i][m]

LEMMA FlatFrom ==
  ASSUME NEW S, NEW s \in Seq(Seq(S))
  PROVE  ComesFrom(s, Flat(s))
<1> DEFINE n == Len(s)
           Y == Seq(S)
           T == {k \in 0 .. n : ComesFrom(s, Flat(SubSeq(s, 1, k)))}
<1>1. n \in Nat /\ SubSeq(s, 1, n) = s
  BY LenProperties, SubSeqFull
<1>2. 0 \in T
  <2>1. Flat(SubSeq(s, 1, 0)) = <<>> /\ 0 \in 0 .. n
    BY <1>1, FlatFirst
  <2>2. ComesFrom(s, <<>>)
    BY DEF ComesFrom
  <2> QED  BY <2>1, <2>2
<1>3. ASSUME NEW k \in 0 .. n, k \in T /\ k < n PROVE k + 1 \in T
  <2> DEFINE p == Flat(SubSeq(s, 1, k))
             e == s[k + 1]
  <2>1. p \in Seq(S) /\ e \in Seq(S)
    <3>1. SubSeq(s, 1, k) \in Seq(Y) /\ e \in Y
      <4>1. s \in Seq(Y) /\ k \in 0 .. Len(s) /\ k < Len(s)
        BY <1>3
      <4> HIDE DEF Y
      <4> QED  BY <4>1, Firsts
    <3> QED  BY <3>1, FlatType
  <2>2. Flat(SubSeq(s, 1, k + 1)) = p \o e
    BY <1>3, FlatStep
  <2>3. \A j \in 1 .. Len(p) : \E i \in 1 .. Len(s) : \E m \in 1 .. Len(s[i]) : p[j] = s[i][m]
    BY <1>3, Zenon DEF ComesFrom
  <2>4. k + 1 \in 0 .. n /\ k + 1 \in 1 .. n
    BY <1>1, <1>3
  <2> DEFINE x == p \o e
  <2>5. Len(p) \in Nat /\ Len(e) \in Nat /\ Len(x) = Len(p) + Len(e)
          /\ \A j \in 1 .. Len(p) + Len(e) : x[j] = IF j <= Len(p) THEN p[j] ELSE e[j - Len(p)]
    <3> HIDE DEF p, e
    <3> QED  BY <2>1, LenProperties, ConcatProperties
  <2> HIDE DEF x, p, e
  <2>6. ASSUME NEW j \in 1 .. Len(x)
        PROVE  \E i \in 1 .. Len(s) : \E m \in 1 .. Len(s[i]) : x[j] = s[i][m]
    <3>1. j \in 1 .. Len(p) + Len(e)
      BY <2>5
    <3>2. CASE j <= Len(p)
      <4>1. j \in 1 .. Len(p) /\ x[j] = p[j]
        BY <2>5, <3>1, <3>2
      <4> QED  BY <2>3, <4>1
    <3>3. CASE ~ (j <= Len(p))
      <4>1. j - Len(p) \in 1 .. Len(e)
        BY <2>5, <3>1, <3>3
      <4>2. x[j] = e[j - Len(p)]
        BY <2>5, <3>1, <3>3
      <4> QED  BY <2>4, <4>1, <4>2 DEF e
    <3> QED  BY <3>2, <3>3
  <2>7. ComesFrom(s, x)
    BY <2>6 DEF ComesFrom
  <2> QED  BY <2>2, <2>4, <2>7 DEF x, p
<1> HIDE DEF T
<1>4. \A k \in 0 .. n : k \in T
  BY <1>1, <1>2, <1>3, NumbersUpTo
<1>5. n \in 0 .. n
  BY <1>1
<1> QED  BY <1>1, <1>4, <1>5 DEF T

LEMMA FlatSome ==
  ASSUME NEW S, NEW s \in Seq(Seq(S)), NEW m \in 1 .. Len(s), Len(s[m]) # 0
  PROVE  Len(Flat(s)) # 0
<1> DEFINE n == Len(s)
           Y == Seq(S)
           T == {k \in 0 .. n : k >= m => Len(Flat(SubSeq(s, 1, k))) # 0}
<1>1. n \in Nat /\ SubSeq(s, 1, n) = s /\ m \in 1 .. n
  BY LenProperties, SubSeqFull
<1>2. 0 \in T
  BY <1>1
<1>3. ASSUME NEW k \in 0 .. n, k \in T /\ k < n PROVE k + 1 \in T
  <2> DEFINE p == Flat(SubSeq(s, 1, k))
             e == s[k + 1]
  <2>1. p \in Seq(S) /\ e \in Seq(S)
    <3>1. SubSeq(s, 1, k) \in Seq(Y) /\ e \in Y
      <4>1. s \in Seq(Y) /\ k \in 0 .. Len(s) /\ k < Len(s)
        BY <1>3
      <4> HIDE DEF Y
      <4> QED  BY <4>1, Firsts
    <3> QED  BY <3>1, FlatType
  <2>2. Flat(SubSeq(s, 1, k + 1)) = p \o e
    BY <1>3, FlatStep
  <2>3. k >= m => Len(p) # 0
    BY <1>3
  <2>4. k + 1 \in 0 .. n
    BY <1>1, <1>3
  <2>5. k + 1 = m => Len(e) # 0
    OBVIOUS
  <2> HIDE DEF p, e
  <2>6. Len(p) \in Nat /\ Len(e) \in Nat /\ Len(p \o e) = Len(p) + Len(e)
    BY <2>1, LenProperties, ConcatProperties
  <2>7. k + 1 >= m => Len(p \o e) # 0
    BY <1>1, <2>3, <2>5, <2>6
  <2> QED  BY <2>2, <2>4, <2>7
<1> HIDE DEF T
<1>4. \A k \in 0 .. n : k \in T
  BY <1>1, <1>2, <1>3, NumbersUpTo
<1>5. n \in 0 .. n /\ n >= m
  BY <1>1
<1> QED  BY <1>1, <1>4, <1>5 DEF T

(* Where lists meet, tags must differ. *)
LEMMA ApartConcat ==
  ASSUME NEW S, NEW A \in Seq(S), NEW B \in Seq(S), Apart(A), Apart(B),
         Len(A) # 0 /\ Len(B) # 0 => A[Len(A)].tag # B[1].tag
  PROVE  Apart(A \o B)
<1> DEFINE n == Len(A)
           m == Len(B)
           C == A \o B
<1>1. n \in Nat /\ m \in Nat /\ Len(C) = n + m
        /\ \A j \in 1 .. n + m : C[j] = IF j <= n THEN A[j] ELSE B[j - n]
  BY LenProperties, ConcatProperties
<1>2. (\A i \in 1 .. n - 1 : A[i].tag # A[i + 1].tag)
        /\ (\A i \in 1 .. m - 1 : B[i].tag # B[i + 1].tag)
  BY DEF Apart
<1>3. n # 0 /\ m # 0 => A[n].tag # B[1].tag
  OBVIOUS
<1> HIDE DEF n, m, C
<1>4. ASSUME NEW i \in 1 .. n + m - 1 PROVE C[i].tag # C[i + 1].tag
  <2>1. i \in 1 .. n + m /\ i + 1 \in 1 .. n + m
    BY <1>1
  <2>2. CASE i < n
    <3>1. C[i] = A[i] /\ C[i + 1] = A[i + 1] /\ i \in 1 .. n - 1
      BY <1>1, <2>1, <2>2
    <3> QED  BY <1>2, <3>1
  <2>3. CASE i = n
    <3>1. C[i] = A[i]
      BY <1>1, <2>1, <2>3
    <3>2. C[i + 1] = B[i + 1 - n]
      BY <1>1, <2>1, <2>3
    <3>3. i + 1 - n = 1 /\ n # 0 /\ m # 0
      BY <1>1, <2>1, <2>3
    <3> QED  BY <1>3, <2>3, <3>1, <3>2, <3>3
  <2>4. CASE i > n
    <3>1. C[i] = B[i - n]
      BY <1>1, <2>1, <2>4
    <3>2. C[i + 1] = B[i + 1 - n]
      BY <1>1, <2>1, <2>4
    <3>3. i + 1 - n = i - n + 1 /\ i - n \in 1 .. m - 1
      BY <1>1, <2>4
    <3>4. B[i - n].tag # B[i - n + 1].tag
      BY <1>2, <3>3
    <3> QED  BY <3>1, <3>2, <3>3, <3>4
  <2> QED  BY <1>1, <2>2, <2>3, <2>4
<1>5. \A i \in 1 .. Len(C) - 1 : C[i].tag # C[i + 1].tag
  BY <1>1, <1>4
<1> QED  BY <1>5 DEF Apart, C

\* Parts that may follow each other.
Parted(s) ==
  /\ \A i \in 1 .. Len(s) : Apart(s[i])
  /\ \A i \in 1 .. Len(s) : \A j \in 1 .. Len(s) :
       i < j /\ Len(s[i]) # 0 /\ Len(s[j]) # 0 => s[i][Len(s[i])].tag # s[j][1].tag

EndsLike(s, k, b) ==
  Len(b) # 0 => \E i \in 1 .. k : Len(s[i]) # 0 /\ b[Len(b)] = s[i][Len(s[i])]

(* Their tags alternate in the whole as well. *)
LEMMA FlatApart ==
  ASSUME NEW S, NEW s \in Seq(Seq(S)), Parted(s)
  PROVE  Apart(Flat(s))
<1> DEFINE n == Len(s)
           Y == Seq(S)
           G(k) == Flat(SubSeq(s, 1, k))
           T == {k \in 0 .. n : Apart(G(k)) /\ EndsLike(s, k, G(k))}
<1>1. n \in Nat /\ SubSeq(s, 1, n) = s
  BY LenProperties, SubSeqFull
<1>2. 0 \in T
  <2>1. G(0) = <<>> /\ 0 \in 0 .. n /\ Len(<<>>) = 0
    BY <1>1, FlatFirst
  <2> HIDE DEF G
  <2>2. Len(G(0)) = 0
    BY <2>1
  <2>3. Apart(G(0))
    BY <2>2 DEF Apart
  <2>4. EndsLike(s, 0, G(0))
    BY <2>2 DEF EndsLike
  <2> QED  BY <2>1, <2>3, <2>4
<1>3. ASSUME NEW k \in 0 .. n, k \in T /\ k < n PROVE k + 1 \in T
  <2> DEFINE p == G(k)
             e == s[k + 1]
             x == p \o e
  <2>1. p \in Seq(S) /\ e \in Seq(S)
    <3>1. SubSeq(s, 1, k) \in Seq(Y) /\ e \in Y
      <4>1. s \in Seq(Y) /\ k \in 0 .. Len(s) /\ k < Len(s)
        BY <1>3
      <4> HIDE DEF Y
      <4> QED  BY <4>1, Firsts
    <3> QED  BY <3>1, FlatType
  <2>2. G(k + 1) = x
    BY <1>3, FlatStep
  <2>3. Apart(p) /\ EndsLike(s, k, p)
    BY <1>3
  <2>4. k + 1 \in 0 .. n /\ k + 1 \in 1 .. n
    BY <1>1, <1>3
  <2>5. Apart(e)
    BY <2>4 DEF Parted
  <2>6. ASSUME Len(p) # 0, Len(e) # 0 PROVE p[Len(p)].tag # e[1].tag
    <3>1. PICK i \in 1 .. k : Len(s[i]) # 0 /\ p[Len(p)] = s[i][Len(s[i])]
      BY <2>3, <2>6 DEF EndsLike
    <3>2. i \in 1 .. n /\ i < k + 1
      BY <1>1, <1>3
    <3>3. s[i][Len(s[i])].tag # e[1].tag
      BY <2>4, <2>6, <3>1, <3>2 DEF Parted
    <3> QED  BY <3>1, <3>3
  <2>7. EndsLike(s, k, p) /\ Len(p) \in Nat /\ Len(e) \in Nat /\ Len(x) = Len(p) + Len(e)
          /\ \A j \in 1 .. Len(p) + Len(e) : x[j] = IF j <= Len(p) THEN p[j] ELSE e[j - Len(p)]
    <3> HIDE DEF p, e
    <3> QED  BY <2>1, <2>3, LenProperties, ConcatProperties
  <2> HIDE DEF p, x, G
  <2>8. Apart(x)
    <3> HIDE DEF e
    <3>1. Apart(p \o e)
      BY <2>1, <2>3, <2>5, <2>6, ApartConcat
    <3> QED  BY <3>1 DEF x
  <2>9. EndsLike(s, k + 1, x)
    <3> SUFFICES ASSUME Len(x) # 0
                 PROVE  \E i \in 1 .. k + 1 : Len(s[i]) # 0 /\ x[Len(x)] = s[i][Len(s[i])]
      BY DEF EndsLike
    <3>1. CASE Len(e) = 0
      <4>1. Len(x) = Len(p) /\ Len(p) # 0 /\ Len(x) \in 1 .. Len(p) + Len(e)
        <5> HIDE DEF e
        <5> QED  BY <2>7, <3>1
      <4>2. x[Len(x)] = p[Len(p)]
        <5> HIDE DEF e
        <5> QED  BY <2>7, <4>1
      <4>3. PICK i \in 1 .. k : Len(s[i]) # 0 /\ p[Len(p)] = s[i][Len(s[i])]
        BY <2>3, <4>1 DEF EndsLike
      <4>4. i \in 1 .. k + 1
        OBVIOUS
      <4> QED  BY <4>2, <4>3, <4>4
    <3>2. CASE Len(e) # 0
      <4>1. Len(x) \in 1 .. Len(p) + Len(e) /\ ~ (Len(x) <= Len(p)) /\ Len(x) - Len(p) = Len(e)
        <5> HIDE DEF e
        <5> QED  BY <2>7, <3>2
      <4>2. x[Len(x)] = e[Len(e)]
        <5> HIDE DEF e
        <5> QED  BY <2>7, <4>1
      <4>3. k + 1 \in 1 .. k + 1
        OBVIOUS
      <4> QED  BY <3>2, <4>2, <4>3
    <3> QED  BY <3>1, <3>2
  <2> QED  BY <2>2, <2>4, <2>8, <2>9
<1> HIDE DEF T
<1>4. \A k \in 0 .. n : k \in T
  BY <1>1, <1>2, <1>3, NumbersUpTo
<1>5. n \in 0 .. n
  BY <1>1
<1> QED  BY <1>1, <1>4, <1>5 DEF T

(* Separators. *)

Separator == Camera!TagValue(0, <<>>)

(* A separator is an item without a value, of tag 0. *)
LEMMA SeparatorIs ==
  /\ Separator \in ListItem /\ Separator.tag = 0 /\ Separator.value = <<>>
  /\ OfItem[Separator] = Camera!TLV_SEPARATOR
<1> DEFINE e == <<>>
<1>1. e \in Seq(Octets) /\ Len(e) = 0
  BY EmptySeq
<1>2. 0 \in Octets
  BY DEF Octets
<1> HIDE DEF e
<1>3. e \in FineValues
  <2>1. Len(e) > 255 => Len(e) % 255 # 0
    BY <1>1
  <2> QED  BY <1>1, <2>1, FineIs, Zenon
<1>4. Separator = Camera!TagValue(0, e)
  BY DEF Separator, e
<1>5. Separator \in ListItem /\ Separator.tag = 0 /\ Separator.value = e
  BY <1>2, <1>3, <1>4, ItemIn
<1>6. OfItem[Separator] = Camera!TagAndValue(Separator.tag, Separator.value)
  BY <1>5, OfItemIs
<1>7. Short(0, e)
  <2>1. Len(e) <= 255
    BY <1>1
  <2> QED  BY <1>1, <1>2, <2>1, ShortTagged
<1>8. OfItem[Separator] = <<0, Len(e)>> \o e
  BY <1>5, <1>6, <1>7, Zenon DEF Short
<1>9. <<0, Len(e)>> \o e = <<0, 0>>
  <2>1. <<0, Len(e)>> = <<0, 0>>
    BY <1>1
  <2>2. <<0, 0>> \o <<>> = <<0, 0>>
    OBVIOUS
  <2> QED  BY <2>1, <2>2, Zenon DEF e
<1> QED  BY <1>5, <1>8, <1>9, Zenon DEF Camera!TLV_SEPARATOR, e

\* The lists of the items that are joined.
Lists ==
  {L \in Seq(ListItem) : Len(L) # 0 /\ Apart(L) /\ \A i \in 1 .. Len(L) : L[i].tag # 0}

\* With separators between them.
Lead(i) == IF i = 1 THEN <<>> ELSE <<Separator>>
WithSeparators(s) == [i \in 1 .. Len(s) |-> Lead(i) \o s[i]]
Strung(s) == Flat(WithSeparators(s))

LEMMA LeadIs ==
  ASSUME NEW i
  PROVE  /\ Lead(i) \in Seq(ListItem)
         /\ Laid(Lead(i)) = IF i = 1 THEN <<>> ELSE Camera!TLV_SEPARATOR
<1>1. CASE i = 1
  <2>1. Lead(i) = <<>>
    BY <1>1 DEF Lead
  <2>2. <<>> \in Seq(ListItem)
    BY EmptySeq
  <2> QED  BY <1>1, <2>1, <2>2, LaidNone
<1>2. CASE i # 1
  <2>1. Lead(i) = <<Separator>>
    BY <1>2 DEF Lead
  <2> DEFINE x == Separator
  <2>2. x \in ListItem /\ OfItem[x] = Camera!TLV_SEPARATOR
    BY SeparatorIs
  <2> HIDE DEF x
  <2>3. <<x>> \in Seq(ListItem)
    BY <2>2
  <2>4. Laid(<<x>>) = OfItem[x]
    BY AllOfOne, Zenon DEF Laid
  <2> QED  BY <1>2, <2>1, <2>2, <2>3, <2>4 DEF x
<1> QED  BY <1>1, <1>2

LEMMA ListIs ==
  ASSUME NEW L \in Lists
  PROVE  /\ L \in Seq(ListItem) /\ Len(L) \in Nat /\ Len(L) # 0 /\ Apart(L)
         /\ \A i \in 1 .. Len(L) : L[i].tag # 0
<1>1. L \in Seq(ListItem) /\ Len(L) # 0 /\ Apart(L) /\ \A i \in 1 .. Len(L) : L[i].tag # 0
  BY DEF Lists
<1> QED  BY <1>1, LenProperties

LEMMA WithSeparatorsIs ==
  ASSUME NEW s \in Seq(Lists)
  PROVE  /\ WithSeparators(s) \in Seq(Seq(ListItem)) /\ Len(WithSeparators(s)) = Len(s)
         /\ Len(s) \in Nat
         /\ \A i \in 1 .. Len(s) : /\ s[i] \in Lists /\ WithSeparators(s)[i] = Lead(i) \o s[i]
                                   /\ Lead(i) \o s[i] \in Seq(ListItem)
<1> DEFINE n == Len(s)
           Z == Seq(ListItem)
           a(i) == Lead(i) \o s[i]
<1>1. n \in Nat /\ \A i \in 1 .. n : s[i] \in Lists
  BY LenProperties, ElementOfSeq
<1>2. ASSUME NEW i \in 1 .. n PROVE a(i) \in Z
  <2>1. s[i] \in Seq(ListItem) /\ Lead(i) \in Seq(ListItem)
    BY <1>1, ListIs, LeadIs
  <2> QED  BY <2>1, ConcatProperties
<1>3. WithSeparators(s) = [i \in 1 .. n |-> a(i)]
  BY DEF WithSeparators
<1> HIDE DEF n, Z, a
<1>4. [i \in 1 .. n |-> a(i)] \in Seq(Z) /\ Len([i \in 1 .. n |-> a(i)]) = n
        /\ \A i \in 1 .. n : [j \in 1 .. n |-> a(j)][i] = a(i)
  BY <1>1, <1>2
<1> QED  BY <1>1, <1>2, <1>3, <1>4 DEF n, Z, a

LEMMA CameraFlat == \A s : Camera!FlattenSeq(s) = Flat(s)
  BY Zenon DEF Camera!FlattenSeq, Flat, TLV!FlattenSeq

(* Encodings that are joined are the encoding of the lists that are strung. *)
LEMMA JoinIs ==
  ASSUME NEW s \in Seq(Lists)
  PROVE  Strung(s) \in Seq(ListItem) /\ Camera!JoinItems(OfEach(OfItem, s)) = Laid(Strung(s))
<1> DEFINE w == WithSeparators(s)
           n == Len(s)
           e == OfEach(OfItem, s)
           S == ListItem
           X == Octets
           g == OfItem
           sep(i) == IF i = 1 THEN <<>> ELSE Camera!TLV_SEPARATOR
<1>1. /\ w \in Seq(Seq(S)) /\ Len(w) = n /\ n \in Nat
      /\ \A i \in 1 .. n : s[i] \in Lists /\ w[i] = Lead(i) \o s[i]
  BY WithSeparatorsIs
<1>2. Maps(g, S, Seq(X))
  BY OfItemMaps
<1> HIDE DEF w, S, X, g
<1>3. Flat(w) \in Seq(S) /\ AllOver(g, w)
  BY <1>1, <1>2, FlatType, AllFlat
<1>4. Laid(Strung(s)) = Flat(OfEach(g, w))
  BY <1>3, Zenon DEF AllOver, Laid, Strung, g, w
<1>5. OfEach(g, w) = [i \in 1 .. n |-> All(g, w[i])]
  BY <1>1 DEF OfEach
<1>6. ASSUME NEW i \in 1 .. n PROVE All(g, w[i]) = sep(i) \o e[i]
  <2>1. s[i] \in Seq(ListItem) /\ Lead(i) \in Seq(ListItem) /\ Laid(Lead(i)) = sep(i)
    BY <1>1, ListIs, LeadIs
  <2>2. Laid(Lead(i) \o s[i]) = Laid(Lead(i)) \o Laid(s[i])
    BY <2>1, LaidConcat
  <2>3. e[i] = Laid(s[i])
    BY DEF OfEach, Laid
  <2>4. w[i] = Lead(i) \o s[i]
    BY <1>1
  <2>5. All(g, w[i]) = Laid(w[i])
    BY Zenon DEF Laid, g
  <2> QED  BY <2>1, <2>2, <2>3, <2>4, <2>5, Zenon
<1>7. Len(e) = n
  BY <1>1 DEF OfEach
<1> HIDE DEF e
<1>8. Camera!JoinItems(e) = Flat([i \in 1 .. n |-> sep(i) \o e[i]])
  <2>1. Camera!JoinItems(e) = Camera!FlattenSeq([i \in 1 .. Len(e) |-> sep(i) \o e[i]])
    BY Zenon DEF Camera!JoinItems
  <2> QED  BY <1>7, <2>1, CameraFlat
<1>9. [i \in 1 .. n |-> sep(i) \o e[i]] = [i \in 1 .. n |-> All(g, w[i])]
  BY <1>6
<1>10. Camera!JoinItems(e) = Laid(Strung(s))
  BY <1>4, <1>5, <1>8, <1>9, Zenon
<1>11. Strung(s) \in Seq(ListItem)
  BY <1>3 DEF Strung, w, S
<1> QED  BY <1>10, <1>11 DEF e

(* A separator stands between any two, so that no tag follows itself. *)
LEMMA StrungApart ==
  ASSUME NEW s \in Seq(Lists)
  PROVE  Apart(Strung(s))
<1> DEFINE w == WithSeparators(s)
           n == Len(s)
           S == ListItem
<1>1. /\ w \in Seq(Seq(S)) /\ Len(w) = n /\ n \in Nat
      /\ \A i \in 1 .. n : s[i] \in Lists /\ w[i] = Lead(i) \o s[i]
  BY WithSeparatorsIs
<1> HIDE DEF w
<1>2. ASSUME NEW i \in 1 .. n
      PROVE  /\ Apart(w[i])
             /\ w[i][Len(w[i])].tag # 0
             /\ i # 1 => w[i][1].tag = 0
  <2> DEFINE L == s[i]
             l == Lead(i)
             x == l \o L
  <2>1. L \in Seq(S) /\ Len(L) \in Nat /\ Len(L) # 0 /\ Apart(L) /\ w[i] = x
          /\ \A j \in 1 .. Len(L) : L[j].tag # 0
    BY <1>1, ListIs
  <2> HIDE DEF L
  <2>2. CASE i = 1
    <3>1. l = <<>>
      BY <2>2 DEF Lead
    <3>2. x = L
      BY <2>1, <3>1, ConcatEmptySeq, Zenon
    <3>3. Len(L) \in 1 .. Len(L)
      BY <2>1
    <3> QED  BY <2>1, <2>2, <3>2, <3>3
  <2>3. CASE i # 1
    <3> DEFINE y == Separator
    <3>1. l = <<y>>
      BY <2>3 DEF Lead
    <3>2. y \in S /\ y.tag = 0
      BY SeparatorIs
    <3> HIDE DEF y, l
    <3>3. x = Before(y, L)
      BY <3>1, Zenon DEF Before
    <3> HIDE DEF S
    <3>4. /\ Len(x) = 1 + Len(L) /\ x[1] = y
          /\ \A j \in 1 .. 1 + Len(L) : x[j] = IF j = 1 THEN y ELSE L[j - 1]
      <4>1. /\ Before(y, L) \in Seq(S) /\ Len(Before(y, L)) = 1 + Len(L) /\ Before(y, L)[1] = y
            /\ \A j \in 1 .. 1 + Len(L) : Before(y, L)[j] = IF j = 1 THEN y ELSE L[j - 1]
        BY <2>1, <3>2, BeforeIs
      <4> HIDE DEF x
      <4> QED  BY <3>3, <4>1, Zenon
    <3>5. x[1 + Len(L)] = L[Len(L)] /\ Len(L) \in 1 .. Len(L)
      <4>1. 1 + Len(L) \in 1 .. 1 + Len(L) /\ 1 + Len(L) # 1 /\ 1 + Len(L) - 1 = Len(L)
        BY <2>1
      <4> HIDE DEF x
      <4>2. x[1 + Len(L)] = L[1 + Len(L) - 1]
        BY <3>4, <4>1
      <4> QED  BY <2>1, <4>1, <4>2
    <3>6. Apart(x)
      <4> DEFINE A == <<y>>
      <4>1. A \in Seq(S) /\ Len(A) = 1 /\ A[1] = y
        BY <3>2
      <4>2. Apart(A)
        BY <4>1 DEF Apart
      <4>3. 1 \in 1 .. Len(L)
        BY <2>1
      <4>4. Len(A) # 0 /\ Len(L) # 0 => A[Len(A)].tag # L[1].tag
        BY <2>1, <3>2, <4>1, <4>3
      <4> HIDE DEF A
      <4>5. Apart(A \o L)
        BY <2>1, <4>1, <4>2, <4>4, ApartConcat
      <4> QED  BY <3>1, <4>5 DEF A
    <3>7. w[i][Len(w[i])].tag # 0
      <4> HIDE DEF x
      <4> QED  BY <2>1, <3>4, <3>5
    <3> QED  BY <2>1, <3>2, <3>4, <3>6, <3>7
  <2> QED  BY <2>2, <2>3
<1>3. Parted(w)
  <2>1. \A i \in 1 .. Len(w) : Apart(w[i])
    BY <1>1, <1>2
  <2>2. ASSUME NEW i \in 1 .. Len(w), NEW j \in 1 .. Len(w), i < j
        PROVE  w[i][Len(w[i])].tag # w[j][1].tag
    <3>1. i \in 1 .. n /\ j \in 1 .. n /\ j # 1
      BY <1>1, <2>2
    <3>2. w[i][Len(w[i])].tag # 0 /\ w[j][1].tag = 0
      BY <1>2, <3>1
    <3> QED  BY <3>2
  <2> QED  BY <2>1, <2>2 DEF Parted
<1> HIDE DEF S
<1>4. Apart(Flat(w))
  BY <1>1, <1>3, FlatApart
<1> QED  BY <1>4 DEF Strung, w

LEMMA FlatGoesOn ==
  ASSUME NEW X, NEW s \in Seq(Seq(X)), NEW k \in 0 .. Len(s)
  PROVE  \E r \in Seq(X) : Flat(s) = Flat(SubSeq(s, 1, k)) \o r
<1> DEFINE n == Len(s)
           Y == Seq(X)
           a == SubSeq(s, 1, k)
           b == SubSeq(s, k + 1, n)
<1>1. n \in Nat /\ SubSeq(s, 1, n) = s
  BY LenProperties, SubSeqFull
<1>2. s \in Seq(Y) /\ k \in 0 .. Len(s)
  OBVIOUS
<1> HIDE DEF Y
<1>3. a \in Seq(Y)
  BY <1>2, Firsts
<1>4. b \in Seq(Y)
  <2>1. ASSUME NEW i \in k + 1 .. n PROVE s[i] \in Y
    <3>1. i \in 1 .. Len(s)
      BY <1>1
    <3> QED  BY <1>2, <3>1, ElementOfSeq
  <2>2. k + 1 \in Int /\ n \in Int
    BY <1>1
  <2> QED  BY <2>1, <2>2, SubSeqProperties
<1>5. a \o b = s
  <2>1. 1 \in 1 .. Len(s) + 1 /\ k \in 1 - 1 .. Len(s) /\ n \in k .. Len(s)
    BY <1>1
  <2>2. a \o b = SubSeq(s, 1, n)
    BY <1>2, <2>1, ConcatAdjacentSubSeq
  <2> QED  BY <1>1, <2>2
<1> HIDE DEF a, b
<1>6. Flat(a \o b) = Flat(a) \o Flat(b)
  BY <1>3, <1>4, FlatConcat DEF Y
<1>7. Flat(b) \in Seq(X)
  BY <1>4, FlatType DEF Y
<1> QED  BY <1>5, <1>6, <1>7 DEF a

\* The loop of _split_items, turn by turn.
Split(found, current) == [found |-> found, current |-> current]

Turned(s, x) ==
  IF x = Camera!TagValue(0, <<>>)
  THEN Split(Camera!AddItem(s.found, s.current), <<>>)
  ELSE [s EXCEPT !.current = @ \o Camera!TagAndValue(x.tag, x.value)]

Sweep(g, L, n) ==
  g = [k \in 0 .. n |-> IF k = 0 THEN Split(<<>>, <<>>) ELSE Turned(g[k - 1], L[k])]

(* The loop can be followed as far as one likes. *)
LEMMA SweepExists == ASSUME NEW L PROVE \A n \in Nat : \E g : Sweep(g, L, n)
<1> DEFINE T == {n \in Nat : \E g : Sweep(g, L, n)}
           o == Split(<<>>, <<>>)
<1>1. 0 \in T
  <2>1. Sweep([k \in 0 .. 0 |-> o], L, 0)
    <3> DEFINE g == [k \in 0 .. 0 |-> o]
    <3>1. \A k \in 0 .. 0 : k = 0
      OBVIOUS
    <3>2. g = [k \in 0 .. 0 |-> IF k = 0 THEN o ELSE Turned(g[k - 1], L[k])]
      BY <3>1
    <3> QED  BY <3>2 DEF Sweep
  <2> QED  BY <2>1
<1>2. ASSUME NEW n \in Nat, n \in T PROVE n + 1 \in T
  <2>1. PICK g : Sweep(g, L, n)
    BY <1>2
  <2> DEFINE h == [k \in 0 .. n + 1 |-> IF k = 0 THEN o ELSE Turned(g[k - 1], L[k])]
  <2> HIDE DEF o
  <2>2. \A k \in 0 .. n : h[k] = g[k]
    <3> SUFFICES ASSUME NEW k \in 0 .. n PROVE h[k] = g[k]
      OBVIOUS
    <3>1. h[k] = IF k = 0 THEN o ELSE Turned(g[k - 1], L[k])
      OBVIOUS
    <3>2. g[k] = IF k = 0 THEN o ELSE Turned(g[k - 1], L[k])
      BY <2>1, Zenon DEF Sweep, o
    <3> QED  BY <3>1, <3>2
  <2>3. \A k \in 0 .. n + 1 : h[k] = IF k = 0 THEN o ELSE Turned(h[k - 1], L[k])
    <3> SUFFICES ASSUME NEW k \in 0 .. n + 1
                 PROVE  h[k] = IF k = 0 THEN o ELSE Turned(h[k - 1], L[k])
      OBVIOUS
    <3>1. h[k] = IF k = 0 THEN o ELSE Turned(g[k - 1], L[k])
      OBVIOUS
    <3> HIDE DEF h
    <3>2. k # 0 => k - 1 \in 0 .. n
      OBVIOUS
    <3>3. k # 0 => h[k - 1] = g[k - 1]
      BY <2>2, <3>2
    <3> QED  BY <3>1, <3>3
  <2>4. h = [k \in 0 .. n + 1 |-> IF k = 0 THEN o ELSE Turned(h[k - 1], L[k])]
    BY <2>3
  <2> HIDE DEF h
  <2>5. Sweep(h, L, n + 1)
    BY <2>4, Zenon DEF Sweep, o
  <2>6. n + 1 \in Nat
    OBVIOUS
  <2> QED  BY <2>5, <2>6
<1> HIDE DEF T
<1>3. \A n \in Nat : n \in T
  BY <1>1, <1>2, NumbersFollow
<1> QED  BY <1>3 DEF T

(* _split_items, from its CHOOSE, and its turns one by one. *)
LEMMA SplitIs ==
  ASSUME NEW data, NEW L, Camera!Items(data) = L, Len(L) \in Nat
  PROVE  \E g : /\ Sweep(g, L, Len(L))
                /\ Camera!SplitItems(data)
                     = Camera!AddItem(g[Len(L)].found, g[Len(L)].current)
<1> DEFINE n == Len(L)
           f == CHOOSE g : g = [k \in 0 .. n |-> IF k = 0 THEN Split(<<>>, <<>>)
                                                  ELSE Turned(g[k - 1], L[k])]
<1>1. \E g : g = [k \in 0 .. n |-> IF k = 0 THEN Split(<<>>, <<>>) ELSE Turned(g[k - 1], L[k])]
  BY SweepExists DEF Sweep
<1>2. Sweep(f, L, n)
  BY <1>1, Zenon DEF Sweep
<1>3. Camera!SplitItems(data) = Camera!AddItem(f[n].found, f[n].current)
  BY Zenon DEF Camera!SplitItems, Turned, Split
<1> QED  BY <1>2, <1>3

LEMMA SweepAt ==
  ASSUME NEW g, NEW L, NEW n \in Nat, Sweep(g, L, n)
  PROVE  /\ g[0] = Split(<<>>, <<>>)
         /\ \A k \in 0 .. n : k < n => g[k + 1] = Turned(g[k], L[k + 1])
<1>1. ASSUME NEW k \in 0 .. n
      PROVE  g[k] = IF k = 0 THEN Split(<<>>, <<>>) ELSE Turned(g[k - 1], L[k])
  BY Zenon DEF Sweep
<1>2. g[0] = Split(<<>>, <<>>)
  <2>1. 0 \in 0 .. n
    OBVIOUS
  <2>2. g[0] = IF 0 = 0 THEN Split(<<>>, <<>>) ELSE Turned(g[0 - 1], L[0])
    BY <1>1, <2>1
  <2> QED  BY <2>2
<1>3. ASSUME NEW k \in 0 .. n, k < n PROVE g[k + 1] = Turned(g[k], L[k + 1])
  <2> DEFINE j == k + 1
  <2>1. j \in 0 .. n /\ j # 0 /\ j - 1 = k
    BY <1>3
  <2> HIDE DEF j
  <2>2. g[j] = IF j = 0 THEN Split(<<>>, <<>>) ELSE Turned(g[j - 1], L[j])
    BY <1>1, <2>1
  <2> QED  BY <2>1, <2>2 DEF j
<1> QED  BY <1>2, <1>3

(* A turn adds an item to the current ones, or ends them. *)
LEMMA TurnedIs ==
  ASSUME NEW found, NEW current, NEW x \in ListItem
  PROVE  /\ x.tag # 0 => Turned(Split(found, current), x) = Split(found, current \o OfItem[x])
         /\ Turned(Split(found, current), Separator)
              = Split(Camera!AddItem(found, current), <<>>)
<1>1. ASSUME x.tag # 0
      PROVE  Turned(Split(found, current), x) = Split(found, current \o OfItem[x])
  <2>1. x # Camera!TagValue(0, <<>>)
    BY <1>1, SeparatorIs, Zenon DEF Separator
  <2>2. OfItem[x] = Camera!TagAndValue(x.tag, x.value)
    BY OfItemIs
  <2>3. [Split(found, current) EXCEPT !.current = @ \o OfItem[x]]
          = Split(found, current \o OfItem[x])
    <3> DEFINE w == current \o OfItem[x]
    <3>1. [Split(found, current) EXCEPT !.current = w] = Split(found, w)
      <4> HIDE DEF w
      <4> QED  BY DEF Split
    <3>2. Split(found, current).current = current
      BY DEF Split
    <3> QED  BY <3>1, <3>2, Zenon
  <2> QED  BY <2>1, <2>2, <2>3, Zenon DEF Turned
<1>2. Turned(Split(found, current), Separator) = Split(Camera!AddItem(found, current), <<>>)
  <2>1. Split(found, current).found = found /\ Split(found, current).current = current
    BY DEF Split
  <2> QED  BY <2>1, Zenon DEF Turned, Separator
<1> QED  BY <1>1, <1>2

LEMMA LaidAppend ==
  ASSUME NEW L \in Seq(ListItem), NEW x \in ListItem
  PROVE  Laid(Append(L, x)) = Laid(L) \o OfItem[x]
<1> DEFINE S == ListItem
           one == <<x>>
<1>1. one \in Seq(S)
  OBVIOUS
<1>2. Append(L, x) = L \o one
  BY AppendIsConcat
<1>3. Laid(one) = OfItem[x]
  BY AllOfOne, Zenon DEF Laid
<1> HIDE DEF one
<1>4. Laid(L \o one) = Laid(L) \o Laid(one)
  BY <1>1, LaidConcat
<1> QED  BY <1>2, <1>3, <1>4, Zenon

\* From p on the list is L.
StandsAt(W, p, L) == p + Len(L) <= Len(W) /\ \A i \in 1 .. Len(L) : W[p + i] = L[i]

PassesOver(g, p, L) ==
  \A found : g[p] = Split(found, <<>>) => g[p + Len(L)] = Split(found, Laid(L))

(* A list without separators is passed over, and its bytes are kept. *)
LEMMA ListPassed ==
  ASSUME NEW W \in Seq(ListItem), NEW g, Sweep(g, W, Len(W)), NEW L \in Lists, NEW p \in Nat,
         StandsAt(W, p, L)
  PROVE  PassesOver(g, p, L)
<1> DEFINE n == Len(W)
           l == Len(L)
           S == ListItem
<1>1. L \in Seq(S) /\ l \in Nat /\ (\A i \in 1 .. l : L[i].tag # 0) /\ n \in Nat
  BY ListIs, LenProperties
<1>2. p + l <= n /\ \A i \in 1 .. l : W[p + i] = L[i]
  BY DEF StandsAt
<1>3. \A k \in 0 .. n : k < n => g[k + 1] = Turned(g[k], W[k + 1])
  BY <1>1, SweepAt
<1> SUFFICES ASSUME NEW found, g[p] = Split(found, <<>>)
             PROVE  g[p + l] = Split(found, Laid(L))
  BY DEF PassesOver
<1> DEFINE T == {i \in 0 .. l : g[p + i] = Split(found, Laid(SubSeq(L, 1, i)))}
<1>4. 0 \in T
  <2>1. SubSeq(L, 1, 0) = <<>>
    BY SubSeqEmpty
  <2>2. Laid(SubSeq(L, 1, 0)) = <<>>
    BY <2>1, LaidNone, Zenon
  <2>3. p + 0 = p /\ 0 \in 0 .. l
    BY <1>1
  <2> QED  BY <2>2, <2>3
<1>5. ASSUME NEW i \in 0 .. l, i \in T /\ i < l PROVE i + 1 \in T
  <2> DEFINE a == SubSeq(L, 1, i)
             x == L[i + 1]
             k == p + i
  <2>1. a \in Seq(S) /\ x \in S /\ SubSeq(L, 1, i + 1) = Append(a, x)
    <3>1. L \in Seq(S) /\ i \in 0 .. Len(L) /\ i < Len(L)
      BY <1>1, <1>5
    <3> HIDE DEF S
    <3> QED  BY <3>1, Firsts
  <2>2. i + 1 \in 1 .. l /\ i + 1 \in 0 .. l
    BY <1>1, <1>5
  <2>3. x.tag # 0 /\ W[p + (i + 1)] = x
    BY <1>1, <1>2, <2>2
  <2>4. k \in 0 .. n /\ k < n /\ k + 1 = p + (i + 1)
    BY <1>1, <1>2, <1>5
  <2>5. g[k] = Split(found, Laid(a))
    BY <1>5
  <2> HIDE DEF a, x, k
  <2>6. g[k + 1] = Turned(g[k], W[k + 1])
    BY <1>3, <2>4
  <2>7. Turned(Split(found, Laid(a)), x) = Split(found, Laid(a) \o OfItem[x])
    BY <2>1, <2>3, TurnedIs
  <2>8. Laid(Append(a, x)) = Laid(a) \o OfItem[x]
    BY <2>1, LaidAppend
  <2>9. W[k + 1] = x
    BY <2>3, <2>4
  <2>10. g[k + 1] = Split(found, Laid(Append(a, x)))
    BY <2>5, <2>6, <2>7, <2>8, <2>9, Zenon
  <2>11. g[p + (i + 1)] = Split(found, Laid(SubSeq(L, 1, i + 1)))
    BY <2>1, <2>4, <2>10, Zenon
  <2> QED  BY <2>2, <2>11
<1> HIDE DEF T
<1>6. \A i \in 0 .. l : i \in T
  BY <1>1, <1>4, <1>5, NumbersUpTo
<1>7. l \in 0 .. l
  BY <1>1
<1>8. SubSeq(L, 1, l) = L
  BY <1>1, SubSeqFull
<1> QED  BY <1>6, <1>7, <1>8 DEF T

(* The items that were joined are found again. *)
LEMMA EncodingSome == ASSUME NEW L \in Lists PROVE Laid(L) # <<>>
<1>1. L \in Seq(ListItem) /\ Len(L) # 0
  BY ListIs
<1>2. Len(Laid(L)) >= 2
  BY <1>1, LaidFirst
<1>3. Len(<<>>) = 0
  OBVIOUS
<1> QED  BY <1>2, <1>3

LEMMA ItemsAre ==
  ASSUME NEW s \in Seq(Lists)
  PROVE  /\ OfEach(OfItem, s) \in Seq(Seq(Octets)) /\ Len(OfEach(OfItem, s)) = Len(s)
         /\ \A i \in 1 .. Len(s) : OfEach(OfItem, s)[i] = Laid(s[i]) /\ Laid(s[i]) # <<>>
<1> DEFINE S == ListItem
           X == Octets
           g == OfItem
           n == Len(s)
<1>1. n \in Nat /\ \A i \in 1 .. n : s[i] \in Lists /\ s[i] \in Seq(S)
  BY LenProperties, ElementOfSeq, ListIs
<1>2. s \in Seq(Seq(S))
  <2> DEFINE Y == Seq(S)
  <2>1. \A i \in 1 .. n : s[i] \in Y
    BY <1>1
  <2>2. s = [i \in 1 .. n |-> s[i]]
    <3>1. s \in Seq(Lists)
      OBVIOUS
    <3> QED  BY <3>1, LenProperties
  <2> HIDE DEF Y, n
  <2>3. [i \in 1 .. n |-> s[i]] \in Seq(Y)
    BY <1>1, <2>1
  <2> QED  BY <2>2, <2>3 DEF Y
<1>3. Maps(g, S, Seq(X))
  BY OfItemMaps
<1> HIDE DEF S, X, g
<1>4. /\ OfEach(g, s) \in Seq(Seq(X)) /\ Len(OfEach(g, s)) = n
      /\ \A i \in 1 .. n : OfEach(g, s)[i] = All(g, s[i])
  BY <1>2, <1>3, OfEachType
<1>5. ASSUME NEW i \in 1 .. n PROVE All(g, s[i]) = Laid(s[i]) /\ Laid(s[i]) # <<>>
  <2>1. s[i] \in Lists
    BY <1>1
  <2>2. Laid(s[i]) # <<>>
    BY <2>1, EncodingSome
  <2> QED  BY <2>2, Zenon DEF Laid, g
<1> QED  BY <1>4, <1>5 DEF X, g

LEMMA Stands ==
  ASSUME NEW S, NEW A \in Seq(S), NEW l \in Seq(S), NEW L \in Seq(S), NEW r \in Seq(S),
         NEW W, W = (A \o (l \o L)) \o r
  PROVE  StandsAt(W, Len(A), l) /\ StandsAt(W, Len(A) + Len(l), L)
<1> DEFINE x == l \o L
           y == A \o x
           a == Len(A)
           b == Len(l)
           c == Len(L)
<1>1. x \in Seq(S) /\ Len(x) = b + c
        /\ \A i \in 1 .. b + c : x[i] = IF i <= b THEN l[i] ELSE L[i - b]
  BY ConcatProperties
<1> HIDE DEF x
<1>2. y \in Seq(S) /\ Len(y) = a + Len(x)
        /\ \A i \in 1 .. a + Len(x) : y[i] = IF i <= a THEN A[i] ELSE x[i - a]
  <2>1. A \in Seq(S) /\ x \in Seq(S)
    BY <1>1
  <2>2. A \o x \in Seq(S) /\ Len(A \o x) = Len(A) + Len(x)
    BY <2>1, ConcatProperties
  <2>3. \A i \in 1 .. Len(A) + Len(x) :
          (A \o x)[i] = IF i <= Len(A) THEN A[i] ELSE x[i - Len(A)]
    BY <2>1, ConcatProperties
  <2> QED  BY <2>2, <2>3
<1>3. W = y \o r
  BY DEF x
<1> HIDE DEF y
<1>4. Len(W) = Len(y) + Len(r)
        /\ \A i \in 1 .. Len(y) + Len(r) : W[i] = IF i <= Len(y) THEN y[i] ELSE r[i - Len(y)]
  BY <1>2, <1>3, ConcatProperties
<1>5. a \in Nat /\ b \in Nat /\ c \in Nat /\ Len(r) \in Nat
  BY LenProperties
<1> HIDE DEF a, b, c
<1>6. ASSUME NEW i \in 1 .. b + c PROVE W[a + i] = x[i]
  <2> DEFINE j == a + i
  <2>1. j \in 1 .. Len(y) + Len(r) /\ j <= Len(y) /\ j \in 1 .. a + Len(x) /\ ~ (j <= a)
          /\ j - a = i
    BY <1>1, <1>2, <1>5
  <2> HIDE DEF j
  <2>2. W[j] = y[j]
    BY <1>4, <2>1
  <2>3. y[j] = x[j - a]
    BY <1>2, <2>1
  <2> QED  BY <2>1, <2>2, <2>3 DEF j
<1>0. Len(W) = ((a + b) + c) + Len(r)
  <2>1. Len(x) = b + c /\ Len(y) = a + Len(x) /\ Len(W) = Len(y) + Len(r)
    BY <1>1, <1>2, <1>4, Zenon
  <2> QED  BY <2>1, <1>5
<1>7. StandsAt(W, a, l)
  <2>1. a + b <= Len(W)
    BY <1>0, <1>5
  <2>2. ASSUME NEW i \in 1 .. b PROVE W[a + i] = l[i]
    <3>1. i \in 1 .. b + c /\ i <= b
      BY <1>5
    <3>2. x[i] = l[i]
      BY <1>1, <3>1
    <3> QED  BY <1>6, <3>1, <3>2
  <2> QED  BY <2>1, <2>2 DEF StandsAt, b
<1>8. StandsAt(W, a + b, L)
  <2>1. a + b + c <= Len(W)
    BY <1>0, <1>5
  <2>2. ASSUME NEW i \in 1 .. c PROVE W[a + b + i] = L[i]
    <3> DEFINE j == b + i
    <3>1. j \in 1 .. b + c /\ ~ (j <= b) /\ j - b = i /\ a + j = a + b + i
      BY <1>5
    <3> HIDE DEF j
    <3>2. x[j] = L[j - b]
      BY <1>1, <3>1
    <3>3. W[a + j] = x[j]
      BY <1>6, <3>1
    <3> QED  BY <3>1, <3>2, <3>3
  <2> QED  BY <2>1, <2>2 DEF StandsAt, c
<1> QED  BY <1>7, <1>8 DEF a, b

LEMMA AddedItem ==
  ASSUME NEW X, NEW e \in Seq(X), NEW k \in 1 .. Len(e), e[k] # <<>>
  PROVE  Camera!AddItem(SubSeq(e, 1, k - 1), e[k]) = SubSeq(e, 1, k)
<1> DEFINE j == k - 1
<1>1. Len(e) \in Nat
  BY LenProperties
<1>2. j \in 0 .. Len(e) /\ j < Len(e) /\ j + 1 = k
  BY <1>1
<1> HIDE DEF j
<1>3. SubSeq(e, 1, j + 1) = Append(SubSeq(e, 1, j), e[j + 1])
  BY <1>2, Firsts
<1> QED  BY <1>2, <1>3, Zenon DEF Camera!AddItem, j

(* _split_items finds the encodings that _join_items put together. *)
LEMMA SplitBack ==
  ASSUME NEW s \in Seq(Lists)
  PROVE  Camera!SplitItems(Laid(Strung(s))) = OfEach(OfItem, s)
<1> DEFINE S == ListItem
           n == Len(s)
           J == Strung(s)
           w == WithSeparators(s)
           e == OfEach(OfItem, s)
           G(k) == Flat(SubSeq(w, 1, k))
           o == <<>>
<1>1. J \in Seq(S) /\ Camera!Items(Laid(J)) = J /\ Len(J) \in Nat
  <2>1. J \in Seq(S) /\ Apart(J)
    BY JoinIs, StrungApart
  <2> HIDE DEF J, S
  <2>2. Len(J) \in Nat
    BY <2>1, LenProperties
  <2>3. Camera!Items(Laid(J)) = J
    BY <2>1, ItemsBack DEF S
  <2> QED  BY <2>1, <2>2, <2>3
<1>2. /\ w \in Seq(Seq(S)) /\ Len(w) = n /\ n \in Nat
      /\ \A i \in 1 .. n : s[i] \in Lists /\ w[i] = Lead(i) \o s[i]
  BY WithSeparatorsIs
<1>3. e \in Seq(Seq(Octets)) /\ Len(e) = n /\ \A i \in 1 .. n : e[i] = Laid(s[i]) /\ e[i] # <<>>
  BY ItemsAre
<1>4. J = Flat(w)
  BY DEF Strung
<1> HIDE DEF J, w, e
<1>5. PICK g : /\ Sweep(g, J, Len(J))
               /\ Camera!SplitItems(Laid(J))
                    = Camera!AddItem(g[Len(J)].found, g[Len(J)].current)
  BY <1>1, SplitIs
<1>6. /\ g[0] = Split(<<>>, <<>>)
      /\ \A k \in 0 .. Len(J) : k < Len(J) => g[k + 1] = Turned(g[k], J[k + 1])
  BY <1>1, <1>5, SweepAt
<1> DEFINE T == {k \in 0 .. n : k # 0 => g[Len(G(k))] = Split(SubSeq(e, 1, k - 1), e[k])}
<1>7. 0 \in T
  BY <1>2
<1>8. ASSUME NEW k \in 0 .. n, k \in T /\ k < n PROVE k + 1 \in T
  <2> DEFINE A == G(k)
             l == Lead(k + 1)
             L == s[k + 1]
             p == Len(A) + Len(l)
             found == SubSeq(e, 1, k)
  <2>1. k + 1 \in 1 .. n /\ k + 1 \in 0 .. n /\ k \in 0 .. n /\ k + 1 - 1 = k
    BY <1>2, <1>8
  <2>2. L \in Lists /\ w[k + 1] = l \o L /\ L \in Seq(S) /\ Len(L) \in Nat /\ l \in Seq(S)
    BY <1>2, <2>1, ListIs, LeadIs
  <2>3. A \in Seq(S)
    <3> DEFINE Y == Seq(S)
    <3>1. SubSeq(w, 1, k) \in Seq(Y)
      <4>1. w \in Seq(Y) /\ k \in 0 .. Len(w)
        BY <1>2
      <4> HIDE DEF Y
      <4> QED  BY <4>1, Firsts
    <3> QED  BY <3>1, FlatType
  <2>4. G(k + 1) = A \o (l \o L)
    <3>1. G(k + 1) = A \o w[k + 1]
      <4>1. k \in 0 .. Len(w) /\ k < Len(w)
        BY <1>2, <1>8
      <4> QED  BY <1>2, <4>1, FlatStep
    <3> QED  BY <2>2, <3>1, Zenon
  <2>5. PICK r \in Seq(S) : J = G(k + 1) \o r
    <3>1. k + 1 \in 0 .. Len(w)
      BY <1>2, <2>1
    <3> QED  BY <1>2, <1>4, <3>1, FlatGoesOn
  <2>6. k # 0 => g[Len(A)] = Split(SubSeq(e, 1, k - 1), e[k])
    BY <1>8
  <2>7. k = 0 => A = <<>>
    BY FlatFirst
  <2> HIDE DEF A, L, S, G
  <2>8. J = (A \o (l \o L)) \o r
    BY <2>4, <2>5, Zenon
  <2> HIDE DEF l
  <2>9. StandsAt(J, Len(A), l) /\ StandsAt(J, p, L)
    BY <2>2, <2>3, <2>8, Stands
  <2>10. Len(A) \in Nat /\ Len(l) \in Nat /\ p \in Nat /\ Len(G(k + 1)) = p + Len(L)
    <3>1. Len(A) \in Nat /\ Len(l) \in Nat
      BY <2>2, <2>3, LenProperties
    <3>2. l \o L \in Seq(S) /\ Len(l \o L) = Len(l) + Len(L)
      BY <2>2, ConcatProperties
    <3>3. Len(A \o (l \o L)) = Len(A) + Len(l \o L)
      BY <2>3, <3>2, ConcatProperties
    <3> QED  BY <2>2, <2>4, <3>1, <3>2, <3>3
  <2>11. g[p] = Split(found, <<>>)
    <3>1. CASE k = 0
      <4>1. l = <<>>
        BY <3>1 DEF l, Lead
      <4>2. Len(A) = 0 /\ Len(l) = 0
        BY <2>7, <3>1, <4>1
      <4>3. p = 0
        BY <4>2
      <4>4. found = <<>>
        BY <3>1, SubSeqEmpty
      <4> QED  BY <1>6, <4>3, <4>4, Zenon
    <3>2. CASE k # 0
      <4>1. l = <<Separator>>
        BY <3>2 DEF l, Lead
      <4>2. Len(l) = 1 /\ l[1] = Separator
        BY <4>1
      <4>3. Len(A) + 1 <= Len(J) /\ J[Len(A) + 1] = Separator
        <5>1. \A i \in 1 .. Len(l) : J[Len(A) + i] = l[i]
          BY <2>9 DEF StandsAt
        <5>2. Len(A) + Len(l) <= Len(J)
          BY <2>9 DEF StandsAt
        <5>3. 1 \in 1 .. Len(l)
          BY <4>2
        <5> QED  BY <4>2, <5>1, <5>2, <5>3
      <4>4. Len(A) \in 0 .. Len(J) /\ Len(A) < Len(J)
        BY <1>1, <2>10, <4>3
      <4>5. g[Len(A) + 1] = Turned(g[Len(A)], J[Len(A) + 1])
        BY <1>6, <4>4
      <4>6. g[Len(A)] = Split(SubSeq(e, 1, k - 1), e[k])
        BY <2>6, <3>2
      <4>7. Turned(Split(SubSeq(e, 1, k - 1), e[k]), Separator)
              = Split(Camera!AddItem(SubSeq(e, 1, k - 1), e[k]), <<>>)
        BY SeparatorIs, TurnedIs
      <4>8. Camera!AddItem(SubSeq(e, 1, k - 1), e[k]) = found
        <5>1. k \in 1 .. Len(e) /\ e[k] # <<>>
          BY <1>2, <1>3, <3>2
        <5> DEFINE X == Seq(Octets)
        <5>2. e \in Seq(X)
          BY <1>3
        <5> HIDE DEF X
        <5> QED  BY <5>1, <5>2, AddedItem
      <4>9. p = Len(A) + 1
        BY <4>2
      <4> QED  BY <4>3, <4>5, <4>6, <4>7, <4>8, <4>9, Zenon
    <3> QED  BY <3>1, <3>2
  <2>12. PassesOver(g, p, L)
    BY <1>1, <1>5, <2>2, <2>9, <2>10, ListPassed DEF S
  <2>13. g[p + Len(L)] = Split(found, Laid(L))
    BY <2>11, <2>12, Zenon DEF PassesOver
  <2>14. Laid(L) = e[k + 1]
    BY <1>3, <2>1 DEF L
  <2>15. g[Len(G(k + 1))] = Split(SubSeq(e, 1, k + 1 - 1), e[k + 1])
    BY <2>1, <2>10, <2>13, <2>14, Zenon
  <2> QED  BY <2>1, <2>15
<1> HIDE DEF T
<1>9. \A k \in 0 .. n : k \in T
  BY <1>2, <1>7, <1>8, NumbersUpTo
<1>10. n \in 0 .. n
  BY <1>2
<1>11. CASE n = 0
  <2>1. w = <<>> /\ e = <<>>
    BY <1>2, <1>3, <1>11, EmptySeq
  <2>2. J = <<>>
    BY <1>4, <2>1, FlatEmpty, Zenon
  <2>3. Len(J) = 0
    BY <2>2
  <2>4. g[Len(J)].found = o /\ g[Len(J)].current = o
    BY <1>6, <2>3 DEF Split
  <2>5. Camera!AddItem(o, o) = o
    BY DEF Camera!AddItem
  <2> QED  BY <1>5, <2>1, <2>4, <2>5, Zenon DEF J, e
<1>12. CASE n # 0
  <2>1. G(n) = J
    <3>1. SubSeq(w, 1, n) = w
      BY <1>2, SubSeqFull
    <3> QED  BY <1>4, <3>1, Zenon
  <2>2. g[Len(J)] = Split(SubSeq(e, 1, n - 1), e[n])
    BY <1>9, <1>10, <1>12, <2>1 DEF T
  <2>3. g[Len(J)].found = SubSeq(e, 1, n - 1) /\ g[Len(J)].current = e[n]
    BY <2>2 DEF Split
  <2>4. Camera!AddItem(SubSeq(e, 1, n - 1), e[n]) = SubSeq(e, 1, n)
    <3>1. n \in 1 .. Len(e) /\ e[n] # <<>>
      BY <1>2, <1>3, <1>12
    <3> DEFINE X == Seq(Octets)
    <3>2. e \in Seq(X)
      BY <1>3
    <3> HIDE DEF X
    <3> QED  BY <3>1, <3>2, AddedItem
  <2>5. SubSeq(e, 1, n) = e
    BY <1>3, SubSeqFull
  <2> QED  BY <1>5, <2>3, <2>4, <2>5, Zenon DEF J, e
<1> QED  BY <1>11, <1>12

(* Flat sequences of single elements and of nothing. *)
LEMMA FlatSingles ==
  ASSUME NEW X, NEW v \in Seq(X), NEW s, s = [i \in 1 .. Len(v) |-> <<v[i]>>]
  PROVE  Flat(s) = v
<1> DEFINE n == Len(v)
           Y == Seq(X)
           T == {k \in 0 .. n : Flat(SubSeq(s, 1, k)) = SubSeq(v, 1, k)}
<1>1. n \in Nat /\ SubSeq(v, 1, n) = v
  BY LenProperties, SubSeqFull
<1>2. s \in Seq(Y) /\ Len(s) = n /\ \A i \in 1 .. n : s[i] = <<v[i]>>
  <2>1. ASSUME NEW i \in 1 .. n PROVE <<v[i]>> \in Y
    <3>1. v[i] \in X
      BY ElementOfSeq
    <3> QED  BY <3>1
  <2>2. s = [i \in 1 .. n |-> <<v[i]>>]
    OBVIOUS
  <2> HIDE DEF n, Y
  <2>3. [i \in 1 .. n |-> <<v[i]>>] \in Seq(Y) /\ Len([i \in 1 .. n |-> <<v[i]>>]) = n
    BY <1>1, <2>1
  <2> QED  BY <2>2, <2>3
<1>3. 0 \in T
  <2>1. Flat(SubSeq(s, 1, 0)) = <<>> /\ SubSeq(v, 1, 0) = <<>> /\ 0 \in 0 .. n
    BY <1>1, FlatFirst, SubSeqEmpty
  <2> QED  BY <2>1
<1>4. ASSUME NEW k \in 0 .. n, k \in T /\ k < n PROVE k + 1 \in T
  <2>1. Flat(SubSeq(s, 1, k + 1)) = Flat(SubSeq(s, 1, k)) \o s[k + 1]
    BY <1>2, <1>4, FlatStep
  <2>2. /\ SubSeq(v, 1, k) \in Seq(X) /\ v[k + 1] \in X
        /\ SubSeq(v, 1, k + 1) = Append(SubSeq(v, 1, k), v[k + 1])
    BY <1>4, Firsts
  <2>3. Append(SubSeq(v, 1, k), v[k + 1]) = SubSeq(v, 1, k) \o <<v[k + 1]>>
    BY <2>2, AppendIsConcat
  <2>4. s[k + 1] = <<v[k + 1]>>
    BY <1>1, <1>2, <1>4
  <2>5. Flat(SubSeq(s, 1, k)) = SubSeq(v, 1, k)
    BY <1>4
  <2>6. k + 1 \in 0 .. n
    BY <1>1, <1>4
  <2>7. Flat(SubSeq(s, 1, k + 1)) = SubSeq(v, 1, k + 1)
    BY <2>1, <2>2, <2>3, <2>4, <2>5, Zenon
  <2> QED  BY <2>6, <2>7
<1> HIDE DEF T
<1>5. \A k \in 0 .. n : k \in T
  BY <1>1, <1>3, <1>4, NumbersUpTo
<1>6. n \in 0 .. n
  BY <1>1
<1>7. SubSeq(s, 1, n) = s
  BY <1>2, SubSeqFull
<1> QED  BY <1>1, <1>5, <1>6, <1>7 DEF T

LEMMA FlatNone ==
  ASSUME NEW s, NEW n \in Nat, s = [i \in 1 .. n |-> <<>>]
  PROVE  Flat(s) = <<>>
<1> DEFINE Y == Seq(Nat)
           o == <<>>
<1>1. o \in Y
  BY EmptySeq
<1> HIDE DEF o, Y
<1>2. s \in Seq(Y) /\ Len(s) = n /\ \A i \in 1 .. n : s[i] = o
  <2>1. s = [i \in 1 .. n |-> o]
    BY DEF o
  <2> QED  BY <1>1, <2>1
<1>3. CASE n = 0
  BY <1>2, <1>3, EmptySeq, FlatEmpty
<1>4. CASE n # 0
  <2>1. 1 \in 1 .. Len(s)
    BY <1>2, <1>4
  <2>2. Alone(s, 1)
    BY <1>2 DEF Alone, o
  <2>3. s \in Seq(Seq(Nat))
    BY <1>2 DEF Y
  <2>4. Flat(s) = s[1]
    BY <2>1, <2>2, <2>3, FlatOnly
  <2> QED  BY <1>2, <2>1, <2>4 DEF o
<1> QED  BY <1>3, <1>4

\* The values of one tag, each in a list of its own.
Tags1 == 1 .. 255
Singles(t, v) == [i \in 1 .. Len(v) |-> <<Camera!TagValue(t, v[i])>>]

LEMMA TagIs == ASSUME NEW t \in Tags1 PROVE t \in Octets /\ t # 0 /\ t # -1
  BY DEF Tags1, Octets

LEMMA SingleIs ==
  ASSUME NEW t \in Tags1, NEW v \in FineValues
  PROVE  /\ <<Camera!TagValue(t, v)>> \in Lists
         /\ OfItem[Camera!TagValue(t, v)] = Camera!TagAndValue(t, v)
<1> DEFINE x == Camera!TagValue(t, v)
           S == ListItem
<1>1. x \in S /\ x.tag = t /\ x.value = v /\ t # 0
  BY TagIs, ItemIn
<1>2. OfItem[x] = Camera!TagAndValue(t, v)
  BY <1>1, OfItemIs
<1> HIDE DEF x
<1>3. <<x>> \in Seq(S) /\ Len(<<x>>) = 1 /\ <<x>>[1] = x
  BY <1>1
<1>4. Apart(<<x>>)
  BY <1>3 DEF Apart
<1>5. \A i \in 1 .. Len(<<x>>) : <<x>>[i].tag # 0
  BY <1>1, <1>3
<1>6. <<x>> \in Lists
  BY <1>3, <1>4, <1>5 DEF Lists
<1> QED  BY <1>2, <1>6 DEF x

LEMMA SinglesAre ==
  ASSUME NEW t \in Tags1, NEW v \in Seq(FineValues)
  PROVE  /\ Singles(t, v) \in Seq(Lists) /\ Len(Singles(t, v)) = Len(v) /\ Len(v) \in Nat
         /\ \A i \in 1 .. Len(v) :
              Singles(t, v)[i] = <<Camera!TagValue(t, v[i])>> /\ v[i] \in FineValues
         /\ OfEach(OfItem, Singles(t, v)) = [i \in 1 .. Len(v) |-> Camera!TagAndValue(t, v[i])]
<1> DEFINE n == Len(v)
           Z == Lists
           s == Singles(t, v)
           a(i) == <<Camera!TagValue(t, v[i])>>
<1>1. n \in Nat /\ \A i \in 1 .. n : v[i] \in FineValues
  BY LenProperties, ElementOfSeq
<1>2. ASSUME NEW i \in 1 .. n PROVE a(i) \in Z
  BY <1>1, SingleIs
<1>3. s = [i \in 1 .. n |-> a(i)]
  BY DEF Singles
<1>4. s \in Seq(Z) /\ Len(s) = n /\ \A i \in 1 .. n : s[i] = a(i)
  <2> HIDE DEF n, Z, a, s
  <2>1. [i \in 1 .. n |-> a(i)] \in Seq(Z) /\ Len([i \in 1 .. n |-> a(i)]) = n
        /\ \A i \in 1 .. n : [j \in 1 .. n |-> a(j)][i] = a(i)
    BY <1>1, <1>2
  <2> QED  BY <1>3, <2>1
<1> HIDE DEF s
<1>5. ASSUME NEW i \in 1 .. n PROVE All(OfItem, s[i]) = Camera!TagAndValue(t, v[i])
  <2> DEFINE x == Camera!TagValue(t, v[i])
  <2>1. s[i] = <<x>>
    BY <1>4
  <2>2. OfItem[x] = Camera!TagAndValue(t, v[i])
    BY <1>1, SingleIs
  <2> HIDE DEF x
  <2>3. All(OfItem, <<x>>) = OfItem[x]
    BY AllOfOne
  <2> QED  BY <2>1, <2>2, <2>3, Zenon
<1>6. OfEach(OfItem, s) = [i \in 1 .. n |-> Camera!TagAndValue(t, v[i])]
  <2>1. OfEach(OfItem, s) = [i \in 1 .. Len(s) |-> All(OfItem, s[i])]
    BY DEF OfEach
  <2> QED  BY <1>4, <1>5, <2>1
<1> QED  BY <1>1, <1>4, <1>6 DEF s

\* The values of the items of a tag.
PickOf(t) == [x \in ListItem |-> IF x.tag = t THEN <<x.value>> ELSE <<>>]

LEMMA PickMaps == ASSUME NEW t PROVE Maps(PickOf(t), ListItem, Seq(FineValues))
<1> SUFFICES ASSUME NEW x \in ListItem PROVE PickOf(t)[x] \in Seq(FineValues)
  BY DEF Maps
<1> DEFINE X == FineValues
           v == x.value
<1>1. v \in X
  BY ItemHas
<1>2. PickOf(t)[x] = IF x.tag = t THEN <<v>> ELSE <<>>
  BY DEF PickOf
<1> HIDE DEF X, v
<1>3. <<v>> \in Seq(X) /\ <<>> \in Seq(X)
  BY <1>1, EmptySeq
<1> QED  BY <1>2, <1>3 DEF X

(* Of what is strung, the values of the tag are found. *)
LEMMA StrungPicked ==
  ASSUME NEW t \in Tags1, NEW u \in Tags1, NEW v \in Seq(FineValues)
  PROVE  All(PickOf(u), Strung(Singles(t, v))) = IF u = t THEN v ELSE <<>>
<1> DEFINE s == Singles(t, v)
           w == WithSeparators(s)
           n == Len(v)
           f == PickOf(u)
           S == ListItem
           X == FineValues
           o == <<>>
<1>1. /\ s \in Seq(Lists) /\ Len(s) = n /\ n \in Nat
      /\ \A i \in 1 .. n : s[i] = <<Camera!TagValue(t, v[i])>> /\ v[i] \in X
  BY SinglesAre
<1> HIDE DEF s
<1>2. w \in Seq(Seq(S)) /\ Len(w) = n /\ \A i \in 1 .. n : w[i] = Lead(i) \o s[i]
  BY <1>1, WithSeparatorsIs
<1>3. Maps(f, S, Seq(X))
  BY PickMaps
<1>4. All(f, Strung(s)) = Flat(OfEach(f, w))
  <2> HIDE DEF w, f, S, X
  <2>1. AllOver(f, w)
    BY <1>2, <1>3, AllFlat
  <2> QED  BY <2>1, Zenon DEF AllOver, Strung, w
<1>5. ASSUME NEW i \in 1 .. n PROVE All(f, w[i]) = IF u = t THEN <<v[i]>> ELSE <<>>
  <2> DEFINE x == Camera!TagValue(t, v[i])
             l == Lead(i)
             one == <<x>>
  <2>1. x \in S /\ x.tag = t /\ x.value = v[i]
    BY <1>1, TagIs, ItemIn
  <2>2. f[x] = IF u = t THEN <<v[i]>> ELSE <<>>
    <3>1. f[x] = IF x.tag = u THEN <<x.value>> ELSE <<>>
      BY <2>1 DEF PickOf
    <3> HIDE DEF f, x
    <3> QED  BY <2>1, <3>1
  <2>3. l \in Seq(S)
    BY LeadIs
  <2>4. w[i] = l \o one
    BY <1>1, <1>2
  <2>5. All(f, l) = o
    <3>1. CASE i = 1
      BY <3>1, AllOfNone DEF Lead
    <3>2. CASE i # 1
      <4> DEFINE y == Separator
      <4>1. y \in S /\ y.tag = 0 /\ u # 0
        BY SeparatorIs, TagIs
      <4>2. f[y] = o
        BY <4>1 DEF PickOf
      <4> HIDE DEF y, f
      <4>3. All(f, <<y>>) = o
        BY <4>2, AllOfOne
      <4> QED  BY <3>2, <4>3 DEF Lead, y
    <3> QED  BY <3>1, <3>2
  <2> HIDE DEF f, x, l, S, X, o
  <2>6. one \in Seq(S) /\ All(f, one) = f[x]
    BY <2>1, AllOfOne
  <2>7. Behind2(f, l, one)
    <3> HIDE DEF one
    <3> QED  BY <1>3, <2>3, <2>6, AllConcat
  <2>8. f[x] \in Seq(X)
    BY <1>3, <2>1 DEF Maps
  <2> HIDE DEF one
  <2>9. All(f, w[i]) = o \o f[x]
    BY <2>4, <2>5, <2>6, <2>7, Zenon DEF Behind2
  <2>10. o \o f[x] = f[x]
    BY <2>8, ConcatEmptySeq DEF o
  <2> QED  BY <2>2, <2>9, <2>10
<1>6. OfEach(f, w) = [i \in 1 .. n |-> All(f, w[i])]
  BY <1>2 DEF OfEach
<1> HIDE DEF f, w
<1>7. CASE u = t
  <2>1. OfEach(f, w) = [i \in 1 .. n |-> <<v[i]>>]
    BY <1>5, <1>6, <1>7
  <2>2. Flat(OfEach(f, w)) = v
    BY <2>1, FlatSingles
  <2> QED  BY <1>4, <1>7, <2>2 DEF f, s
<1>8. CASE u # t
  <2>1. OfEach(f, w) = [i \in 1 .. n |-> <<>>]
    BY <1>5, <1>6, <1>8
  <2>2. Flat(OfEach(f, w)) = <<>>
    BY <1>1, <2>1, FlatNone
  <2> QED  BY <1>4, <1>8, <2>2 DEF f, s
<1> QED  BY <1>7, <1>8

(* What is strung begins and ends with the tag. *)
EndsWith(t, J) == Len(J) # 0 => J[1].tag = t /\ J[Len(J)].tag = t

(* By the first and the last of the lists. *)
LEMMA StrungEnds ==
  ASSUME NEW t \in Tags1, NEW v \in Seq(FineValues)
  PROVE  EndsWith(t, Strung(Singles(t, v)))
<1> DEFINE s == Singles(t, v)
           w == WithSeparators(s)
           n == Len(v)
           S == ListItem
           Y == Seq(S)
           G(k) == Flat(SubSeq(w, 1, k))
           J == Strung(s)
<1>1. /\ s \in Seq(Lists) /\ Len(s) = n /\ n \in Nat
      /\ \A i \in 1 .. n : s[i] = <<Camera!TagValue(t, v[i])>> /\ v[i] \in FineValues
  BY SinglesAre
<1> HIDE DEF s
<1>2. w \in Seq(Seq(S)) /\ Len(w) = n /\ \A i \in 1 .. n : w[i] = Lead(i) \o s[i]
  BY <1>1, WithSeparatorsIs
<1>3. J = Flat(w)
  BY DEF Strung
<1> HIDE DEF w, J
<1>4. CASE n = 0
  <2>1. w = <<>>
    BY <1>2, <1>4, EmptySeq
  <2>2. J = <<>>
    BY <1>3, <2>1, FlatEmpty, Zenon
  <2>3. Len(J) = 0
    BY <2>2
  <2> QED  BY <2>3 DEF EndsWith, J, s
<1>5. CASE n # 0
  <2> DEFINE m == n - 1
  <2>1. m \in 0 .. n /\ m < n /\ m + 1 = n /\ 1 \in 1 .. n /\ n \in 1 .. n /\ 1 \in 0 .. n
          /\ 0 \in 0 .. n /\ 0 < n
    BY <1>1, <1>5
  <2> HIDE DEF m
  <2>2. \A i \in 1 .. n : Camera!TagValue(t, v[i]) \in S /\ Camera!TagValue(t, v[i]).tag = t
    BY <1>1, TagIs, ItemIn
  <2>3. J[1].tag = t
    <3> DEFINE x == Camera!TagValue(t, v[1])
               one == <<x>>
    <3>1. x \in S /\ x.tag = t /\ s[1] = one
      BY <1>1, <2>1, <2>2
    <3>2. w[1] = one
      <4>1. Lead(1) = <<>>
        BY DEF Lead
      <4>2. w[1] = Lead(1) \o s[1]
        BY <1>2, <2>1
      <4>3. one \in Seq(S)
        BY <3>1
      <4> HIDE DEF one
      <4>4. <<>> \o one = one
        BY <4>3, ConcatEmptySeq
      <4> QED  BY <3>1, <4>1, <4>2, <4>4, Zenon
    <3>3. G(1) = one
      <4>1. 0 \in 0 .. Len(w) /\ 0 < Len(w) /\ 0 + 1 = 1
        BY <1>2, <2>1
      <4>2. Flat(SubSeq(w, 1, 0 + 1)) = Flat(SubSeq(w, 1, 0)) \o w[0 + 1]
        BY <1>2, <4>1, FlatStep
      <4>3. one \in Seq(S)
        BY <3>1
      <4> HIDE DEF one
      <4>4. <<>> \o one = one
        BY <4>3, ConcatEmptySeq
      <4> QED  BY <3>2, <4>1, <4>2, <4>4, FlatFirst
    <3>4. PICK r \in Seq(S) : J = G(1) \o r
      <4>1. 1 \in 0 .. Len(w)
        BY <1>2, <2>1
      <4> QED  BY <1>2, <1>3, <4>1, FlatGoesOn
    <3> HIDE DEF x, S, G
    <3>5. (one \o r)[1] = x
      <4>1. one \o r = Before(x, r)
        BY Zenon DEF Before
      <4>2. Before(x, r)[1] = x
        BY <3>1, BeforeIs
      <4> QED  BY <4>1, <4>2, Zenon
    <3> QED  BY <3>1, <3>3, <3>4, <3>5, Zenon
  <2>4. J[Len(J)].tag = t
    <3> DEFINE x == Camera!TagValue(t, v[n])
               one == <<x>>
               A == G(m)
               l == Lead(n)
    <3>1. x \in S /\ x.tag = t /\ s[n] = one
      BY <1>1, <2>1, <2>2
    <3>2. J = A \o (l \o one)
      <4>1. Flat(SubSeq(w, 1, m + 1)) = A \o w[m + 1]
        BY <1>2, <2>1, FlatStep
      <4>2. w[n] = l \o one
        BY <1>2, <2>1, <3>1
      <4>3. SubSeq(w, 1, n) = w
        BY <1>2, SubSeqFull
      <4> QED  BY <1>3, <2>1, <4>1, <4>2, <4>3, Zenon
    <3>3. A \in Seq(S)
      <4>1. SubSeq(w, 1, m) \in Seq(Y)
        <5>1. w \in Seq(Y) /\ m \in 0 .. Len(w)
          BY <1>2, <2>1
        <5> HIDE DEF Y
        <5> QED  BY <5>1, Firsts
      <4> QED  BY <4>1, FlatType
    <3>4. l \in Seq(S) /\ one \in Seq(S) /\ Len(one) = 1 /\ one[1] = x
      BY <3>1, LeadIs
    <3>5. <<>> \in Seq(S)
      BY EmptySeq
    <3> DEFINE r == <<>>
    <3> HIDE DEF A, l, one, x, S
    <3>6. J = (A \o (l \o one)) \o r
      <4>1. A \o (l \o one) \in Seq(S)
        BY <3>3, <3>4, ConcatProperties
      <4>2. (A \o (l \o one)) \o r = A \o (l \o one)
        <5> DEFINE z == A \o (l \o one)
        <5> HIDE DEF z
        <5>1. z \in Seq(S)
          BY <4>1 DEF z
        <5>2. z \o r = z
          BY <5>1, ConcatEmptySeq
        <5> QED  BY <5>2 DEF z
      <4> QED  BY <3>2, <4>2, Zenon
    <3> HIDE DEF r
    <3>7. StandsAt(J, Len(A) + Len(l), one)
      BY <3>3, <3>4, <3>5, <3>6, Stands DEF r
    <3>8. Len(J) = Len(A) + Len(l) + 1
      <4>0. Len(one) = 1
        BY <3>4
      <4>1. l \o one \in Seq(S) /\ Len(l \o one) = Len(l) + Len(one)
        BY <3>4, ConcatProperties, Zenon
      <4>2. Len(A \o (l \o one)) = Len(A) + Len(l \o one)
        BY <3>3, <4>1, ConcatProperties, Zenon
      <4>3. Len(A) \in Nat /\ Len(l) \in Nat
        BY <3>3, <3>4, LenProperties
      <4> QED  BY <3>2, <4>0, <4>1, <4>2, <4>3
    <3>9. J[Len(A) + Len(l) + 1] = x
      <4>1. 1 \in 1 .. Len(one)
        BY <3>4
      <4> QED  BY <3>4, <3>7, <4>1 DEF StandsAt
    <3> QED  BY <3>1, <3>8, <3>9
  <2> QED  BY <2>3, <2>4 DEF EndsWith, J, s
<1> QED  BY <1>4, <1>5

(* One value alone. *)
LEMMA StrungOne ==
  ASSUME NEW t \in Tags1, NEW v \in FineValues
  PROVE  Strung(Singles(t, <<v>>)) = <<Camera!TagValue(t, v)>>
<1> DEFINE S == ListItem
           x == Camera!TagValue(t, v)
           one == <<x>>
           s == Singles(t, <<v>>)
           w == WithSeparators(s)
           X == FineValues
           z == <<v>>
<1>1. z \in Seq(X) /\ Len(z) = 1 /\ z[1] = v
  <2>1. v \in X
    OBVIOUS
  <2> HIDE DEF X
  <2> QED  BY <2>1
<1>2. x \in S
  BY TagIs, ItemIn
<1> HIDE DEF z, x
<1>3. s \in Seq(Lists) /\ Len(s) = 1 /\ s[1] = one
  <2>1. Singles(t, z) \in Seq(Lists) /\ Len(Singles(t, z)) = Len(z)
          /\ \A i \in 1 .. Len(z) : Singles(t, z)[i] = <<Camera!TagValue(t, z[i])>>
    BY <1>1, SinglesAre
  <2>2. s = Singles(t, z)
    BY Zenon DEF z
  <2> QED  BY <1>1, <2>1, <2>2 DEF x
<1> HIDE DEF s
<1>4. w \in Seq(Seq(S)) /\ Len(w) = 1 /\ w[1] = Lead(1) \o s[1]
  <2>1. /\ w \in Seq(Seq(S)) /\ Len(w) = Len(s)
        /\ \A i \in 1 .. Len(s) : w[i] = Lead(i) \o s[i]
    BY <1>3, WithSeparatorsIs
  <2>2. 1 \in 1 .. Len(s)
    BY <1>3
  <2> HIDE DEF w, S
  <2> QED  BY <1>3, <2>1, <2>2
<1>5. one \in Seq(S)
  BY <1>2
<1> HIDE DEF one, w, S
<1>6. w[1] = one
  <2>1. Lead(1) = <<>>
    BY DEF Lead
  <2>2. <<>> \o one = one
    BY <1>5, ConcatEmptySeq
  <2> QED  BY <1>3, <1>4, <2>1, <2>2, Zenon
<1>7. Alone(w, 1)
  BY <1>4 DEF Alone
<1>8. Flat(w) = w[1]
  <2>1. 1 \in 1 .. Len(w)
    BY <1>4
  <2> QED  BY <1>4, <1>7, <2>1, FlatOnly
<1> QED  BY <1>6, <1>8, Zenon DEF Strung, w, s, one, x

(* The list of a message: its fields one behind the other. *)

\* What a field is given.
FitsIn(type, x) ==
  /\ Camera!Values(type, x) \in Seq(FineValues)
  /\ type.is = "many" => \E s \in Seq(Lists) : x = OfEach(OfItem, s)

FieldFits(field, c) ==
  \/ c = <<>> /\ field.type.is # "series"
  \/ \E x : c = <<x>> /\ FitsIn(field.type, x)

Fits(F, c) ==
  /\ c = [i \in 1 .. Len(F) |-> c[i]]
  /\ \A i \in 1 .. Len(F) : FieldFits(F[i], c[i])

PartOfField(field, c) ==
  IF c = <<>> THEN <<>> ELSE Strung(Singles(field.tag, Camera!Values(field.type, c[1])))

FieldBytes(field, c) == IF c = <<>> THEN <<>> ELSE Camera!EncodeField(field, c[1])

FieldValues(field, c) == IF c = <<>> THEN <<>> ELSE Camera!Values(field.type, c[1])

(* A field is encoded as the bytes of its values, strung. *)
LEMMA FieldIs ==
  ASSUME NEW field, field.tag \in Tags1, NEW x, Camera!Values(field.type, x) \in Seq(FineValues)
  PROVE  Camera!EncodeField(field, x)
           = Laid(Strung(Singles(field.tag, Camera!Values(field.type, x))))
<1> DEFINE t == field.tag
           v == Camera!Values(field.type, x)
           s == Singles(t, v)
           e == [i \in 1 .. Len(v) |-> Camera!TagAndValue(t, v[i])]
<1>1. Camera!EncodeField(field, x) = Camera!JoinItems(e)
  BY Zenon DEF Camera!EncodeField
<1>2. t \in Tags1 /\ v \in Seq(FineValues)
  OBVIOUS
<1> HIDE DEF t, v
<1>3. s \in Seq(Lists) /\ OfEach(OfItem, s) = e
  BY <1>2, SinglesAre
<1> HIDE DEF s, e
<1>4. Camera!JoinItems(OfEach(OfItem, s)) = Laid(Strung(s))
  BY <1>3, JoinIs
<1> QED  BY <1>1, <1>3, <1>4, Zenon DEF s, t, v

(* What is known of the part of a field. *)
LEMMA PartIs ==
  ASSUME NEW field, field.tag \in Tags1, NEW c, FieldFits(field, c)
  PROVE  /\ PartOfField(field, c) \in Seq(ListItem) /\ Apart(PartOfField(field, c))
         /\ EndsWith(field.tag, PartOfField(field, c))
         /\ Laid(PartOfField(field, c)) = FieldBytes(field, c)
         /\ \A u \in Tags1 : All(PickOf(u), PartOfField(field, c))
                               = IF u = field.tag THEN FieldValues(field, c) ELSE <<>>
<1> DEFINE t == field.tag
           p == PartOfField(field, c)
           o == <<>>
<1>1. CASE c = <<>>
  <2>1. p = <<>> /\ FieldBytes(field, c) = <<>> /\ FieldValues(field, c) = <<>>
    BY <1>1 DEF PartOfField, FieldBytes, FieldValues
  <2> HIDE DEF p
  <2>2. Len(p) = 0 /\ p \in Seq(ListItem)
    BY <2>1, EmptySeq
  <2>3. Apart(p) /\ EndsWith(field.tag, p)
    BY <2>2 DEF Apart, EndsWith
  <2>4. Laid(p) = <<>>
    BY <2>1, LaidNone, Zenon
  <2>5. \A u \in Tags1 : All(PickOf(u), p) = <<>>
    BY <2>1, AllOfNone, Zenon
  <2> QED  BY <2>1, <2>2, <2>3, <2>4, <2>5 DEF p
<1>2. CASE c # <<>>
  <2>1. PICK x : c = <<x>> /\ FitsIn(field.type, x)
    BY <1>2 DEF FieldFits
  <2> DEFINE v == Camera!Values(field.type, x)
             s == Singles(t, v)
             J == Strung(s)
  <2>2. v \in Seq(FineValues)
    BY <2>1 DEF FitsIn
  <2>3. c[1] = x
    BY <2>1
  <2>4. FieldBytes(field, c) = Laid(J)
    <3>1. FieldBytes(field, c) = Camera!EncodeField(field, x)
      BY <1>2, <2>3, Zenon DEF FieldBytes
    <3>2. Camera!EncodeField(field, x) = Laid(J)
      BY <2>2, FieldIs
    <3> QED  BY <3>1, <3>2, Zenon
  <2>5. p = J /\ FieldValues(field, c) = v
    BY <1>2, <2>3, Zenon DEF PartOfField, FieldValues
  <2> HIDE DEF v, p
  <2>6. s \in Seq(Lists)
    BY <2>2, SinglesAre
  <2>7. J \in Seq(ListItem) /\ Apart(J)
    <3> HIDE DEF s
    <3> QED  BY <2>6, JoinIs, StrungApart
  <2>8. EndsWith(t, J)
    BY <2>2, StrungEnds
  <2>9. \A u \in Tags1 : All(PickOf(u), J) = IF u = t THEN v ELSE <<>>
    BY <2>2, StrungPicked
  <2> HIDE DEF J
  <2>10. p \in Seq(ListItem) /\ Apart(p) /\ EndsWith(t, p) /\ Laid(p) = FieldBytes(field, c)
    BY <2>4, <2>5, <2>7, <2>8, Zenon
  <2>11. \A u \in Tags1 : All(PickOf(u), p) = IF u = t THEN FieldValues(field, c) ELSE <<>>
    BY <2>5, <2>9, Zenon
  <2> QED  BY <2>10, <2>11 DEF p
<1> QED  BY <1>1, <1>2

(* A field's content comes back from its values. *)
LEMMA ContentBack ==
  ASSUME NEW field, NEW c, FieldFits(field, c)
  PROVE  Camera!Content(field, FieldValues(field, c)) = c
<1> DEFINE is == field.type.is
           o == <<>>
<1>0. Len(o) = 0 /\ 0 # 1
  OBVIOUS
<1>1. CASE c = <<>>
  <2>1. is # "series"
    <3>1. \A x : <<>> # <<x>>
      OBVIOUS
    <3> QED  BY <1>1, <3>1 DEF FieldFits
  <2>2. FieldValues(field, c) = o
    BY <1>1 DEF FieldValues
  <2>3. Len(FieldValues(field, c)) # 1
    BY <1>0, <2>2, Zenon
  <2> QED  BY <1>1, <2>1, <2>3, Zenon DEF Camera!Content
<1>2. CASE c # <<>>
  <2>1. PICK x : c = <<x>> /\ FitsIn(field.type, x)
    BY <1>2 DEF FieldFits
  <2>2. c[1] = x
    BY <2>1
  <2> DEFINE v == FieldValues(field, c)
             w == Camera!Values(field.type, x)
             one == <<x>>
  <2>3. v = w
    BY <1>2, <2>2, Zenon DEF FieldValues
  <2> HIDE DEF v, w
  <2>4. CASE is = "series"
    <3>1. w = x
      BY <2>4, Zenon DEF Camera!Values, w
    <3>2. Camera!Content(field, v) = <<v>>
      BY <2>4, Zenon DEF Camera!Content
    <3> QED  BY <2>1, <2>3, <3>1, <3>2, Zenon DEF v
  <2>5. CASE is = "many"
    <3> DEFINE j == Camera!JoinItems(x)
    <3>1. w = <<j>>
      BY <2>5, Zenon DEF Camera!Values, w
    <3>2. PICK s \in Seq(Lists) : x = OfEach(OfItem, s)
      BY <2>1, <2>5 DEF FitsIn
    <3>3. j = Laid(Strung(s))
      BY <3>2, JoinIs
    <3>4. Camera!SplitItems(j) = x
      BY <3>2, <3>3, SplitBack
    <3> HIDE DEF j
    <3>5. Len(v) = 1 /\ v[1] = j
      BY <2>3, <3>1
    <3>6. Camera!Content(field, v) = <<Camera!SplitItems(v[1])>>
      <4>1. is # "series"
        BY <2>5
      <4> QED  BY <2>5, <3>5, <4>1, Zenon DEF Camera!Content
    <3> QED  BY <2>1, <3>4, <3>5, <3>6, Zenon DEF v
  <2>6. CASE is # "series" /\ is # "many"
    <3>1. w = one
      BY <2>6, Zenon DEF Camera!Values, w
    <3>2. Len(v) = 1
      BY <2>3, <3>1
    <3>3. Camera!Content(field, v) = v
      BY <2>6, <3>2, Zenon DEF Camera!Content
    <3> QED  BY <2>1, <2>3, <3>1, <3>3, Zenon DEF v
  <2> QED  BY <2>4, <2>5, <2>6
<1> QED  BY <1>1, <1>2

\* A table of fields, as far as decoding depends on it.
Table(F) ==
  /\ Len(F) \in Nat
  /\ \A i \in 1 .. Len(F) : F[i].tag \in Tags1
  /\ \A i \in 1 .. Len(F) : \A j \in 1 .. Len(F) : i # j => F[i].tag # F[j].tag

PartsOf(F, c) == [i \in 1 .. Len(F) |-> PartOfField(F[i], c[i])]
MessageList(F, c) == Flat(PartsOf(F, c))

LEMMA PartsAre ==
  ASSUME NEW F, Table(F), NEW c, Fits(F, c)
  PROVE  /\ PartsOf(F, c) \in Seq(Seq(ListItem))
         /\ Len(PartsOf(F, c)) = Len(F) /\ Len(F) \in Nat
         /\ \A i \in 1 .. Len(F) :
              /\ F[i].tag \in Tags1 /\ FieldFits(F[i], c[i])
              /\ PartsOf(F, c)[i] = PartOfField(F[i], c[i])
              /\ Apart(PartsOf(F, c)[i]) /\ EndsWith(F[i].tag, PartsOf(F, c)[i])
              /\ Laid(PartsOf(F, c)[i]) = FieldBytes(F[i], c[i])
              /\ \A u \in Tags1 : All(PickOf(u), PartsOf(F, c)[i])
                                    = IF u = F[i].tag THEN FieldValues(F[i], c[i]) ELSE <<>>
<1> DEFINE n == Len(F)
           Z == Seq(ListItem)
           a(i) == PartOfField(F[i], c[i])
<1>1. n \in Nat /\ \A i \in 1 .. n : F[i].tag \in Tags1
  BY DEF Table
<1>2. \A i \in 1 .. n : FieldFits(F[i], c[i])
  BY DEF Fits
<1>3. ASSUME NEW i \in 1 .. n
      PROVE  /\ a(i) \in Z /\ Apart(a(i)) /\ EndsWith(F[i].tag, a(i))
             /\ Laid(a(i)) = FieldBytes(F[i], c[i])
             /\ \A u \in Tags1 : All(PickOf(u), a(i))
                                   = IF u = F[i].tag THEN FieldValues(F[i], c[i]) ELSE <<>>
  <2> DEFINE f == F[i]
             d == c[i]
  <2>1. f.tag \in Tags1 /\ FieldFits(f, d)
    BY <1>1, <1>2
  <2> HIDE DEF f, d
  <2>2. /\ PartOfField(f, d) \in Seq(ListItem) /\ Apart(PartOfField(f, d))
        /\ EndsWith(f.tag, PartOfField(f, d))
        /\ Laid(PartOfField(f, d)) = FieldBytes(f, d)
        /\ \A u \in Tags1 : All(PickOf(u), PartOfField(f, d))
                              = IF u = f.tag THEN FieldValues(f, d) ELSE <<>>
    BY <2>1, PartIs
  <2> QED  BY <2>2, Zenon DEF f, d
<1>4. PartsOf(F, c) = [i \in 1 .. n |-> a(i)]
  BY DEF PartsOf
<1>5. /\ PartsOf(F, c) \in Seq(Z) /\ Len(PartsOf(F, c)) = n
      /\ \A i \in 1 .. n : PartsOf(F, c)[i] = a(i)
  <2> HIDE DEF n, Z, a
  <2>1. [i \in 1 .. n |-> a(i)] \in Seq(Z) /\ Len([i \in 1 .. n |-> a(i)]) = n
        /\ \A i \in 1 .. n : [j \in 1 .. n |-> a(j)][i] = a(i)
    BY <1>1, <1>3
  <2> QED  BY <1>4, <2>1
<1> DEFINE p == PartsOf(F, c)
<1> SUFFICES ASSUME NEW i \in 1 .. n
             PROVE  /\ p[i] = a(i)
                    /\ Apart(p[i]) /\ EndsWith(F[i].tag, p[i])
                    /\ Laid(p[i]) = FieldBytes(F[i], c[i])
                    /\ \A u \in Tags1 :
                         All(PickOf(u), p[i])
                           = IF u = F[i].tag THEN FieldValues(F[i], c[i]) ELSE <<>>
  BY <1>1, <1>2, <1>5
<1>6. p[i] = a(i)
  BY <1>5
<1> HIDE DEF p, a
<1> QED  BY <1>3, <1>6, Zenon

(* The fields have different tags: no tag follows itself. *)
LEMMA MessageApart ==
  ASSUME NEW F, Table(F), NEW c, Fits(F, c)
  PROVE  MessageList(F, c) \in Seq(ListItem) /\ Apart(MessageList(F, c))
<1> DEFINE p == PartsOf(F, c)
           n == Len(F)
           S == ListItem
<1>1. /\ p \in Seq(Seq(S)) /\ Len(p) = n /\ n \in Nat
      /\ \A i \in 1 .. n : Apart(p[i]) /\ EndsWith(F[i].tag, p[i])
  BY PartsAre
<1> HIDE DEF p, S
<1>2. ASSUME NEW i \in 1 .. n, NEW j \in 1 .. n, i < j, Len(p[i]) # 0, Len(p[j]) # 0
      PROVE  p[i][Len(p[i])].tag # p[j][1].tag
  <2>1. p[i][Len(p[i])].tag = F[i].tag /\ p[j][1].tag = F[j].tag
    BY <1>1, <1>2 DEF EndsWith
  <2>2. i # j
    BY <1>1, <1>2
  <2>3. F[i].tag # F[j].tag
    BY <2>2 DEF Table
  <2> QED  BY <2>1, <2>3
<1>3. Parted(p)
  BY <1>1, <1>2 DEF Parted
<1>4. Apart(Flat(p)) /\ Flat(p) \in Seq(S)
  BY <1>1, <1>3, FlatApart, FlatType
<1> QED  BY <1>4 DEF MessageList, p, S

(* A message is encoded as the bytes of its list. *)
LEMMA EncodeIs ==
  ASSUME NEW F, Table(F), NEW c, Fits(F, c)
  PROVE  Camera!Encode(F, c) = Laid(MessageList(F, c))
<1> DEFINE p == PartsOf(F, c)
           n == Len(F)
           S == ListItem
           X == Octets
           g == OfItem
           b(i) == IF c[i] = <<>> THEN <<>> ELSE Camera!EncodeField(F[i], c[i][1])
<1>1. /\ p \in Seq(Seq(S)) /\ Len(p) = n /\ n \in Nat
      /\ \A i \in 1 .. n : Laid(p[i]) = FieldBytes(F[i], c[i])
  BY PartsAre
<1>2. Maps(g, S, Seq(X))
  BY OfItemMaps
<1> HIDE DEF p, S, X, g
<1>3. AllOver(g, p)
  BY <1>1, <1>2, AllFlat
<1>4. Laid(MessageList(F, c)) = Flat(OfEach(g, p))
  BY <1>3, Zenon DEF AllOver, Laid, MessageList, g, p
<1>5. OfEach(g, p) = [i \in 1 .. n |-> All(g, p[i])]
  BY <1>1 DEF OfEach
<1>6. ASSUME NEW i \in 1 .. n PROVE All(g, p[i]) = b(i)
  <2>1. All(g, p[i]) = Laid(p[i])
    BY Zenon DEF Laid, g
  <2>2. FieldBytes(F[i], c[i]) = b(i)
    BY Zenon DEF FieldBytes
  <2> QED  BY <1>1, <2>1, <2>2, Zenon
<1>7. Camera!Encode(F, c) = Flat([i \in 1 .. n |-> b(i)])
  <2>1. Camera!Encode(F, c) = Camera!FlattenSeq([i \in 1 .. n |-> b(i)])
    BY Zenon DEF Camera!Encode
  <2> HIDE DEF b
  <2> QED  BY <2>1, CameraFlat, Zenon
<1> HIDE DEF b
<1>8. [i \in 1 .. n |-> b(i)] = [i \in 1 .. n |-> All(g, p[i])]
  BY <1>6
<1> QED  BY <1>4, <1>5, <1>7, <1>8, Zenon

(* The values of a tag, in the message. *)
LEMMA ValuesFound ==
  ASSUME NEW F, Table(F), NEW c, Fits(F, c), NEW k \in 1 .. Len(F)
  PROVE  All(PickOf(F[k].tag), MessageList(F, c)) = FieldValues(F[k], c[k])
<1> DEFINE p == PartsOf(F, c)
           n == Len(F)
           S == ListItem
           X == FineValues
           u == F[k].tag
           f == PickOf(u)
           w == OfEach(f, p)
<1>1. /\ p \in Seq(Seq(S)) /\ Len(p) = n /\ n \in Nat /\ u \in Tags1
      /\ \A i \in 1 .. n :
           /\ All(f, p[i]) = IF u = F[i].tag THEN FieldValues(F[i], c[i]) ELSE <<>>
  BY PartsAre
<1>2. Maps(f, S, Seq(X))
  BY PickMaps
<1> HIDE DEF p, S, X, f
<1>3. AllOver(f, p) /\ w \in Seq(Seq(X)) /\ Len(w) = n /\ \A i \in 1 .. n : w[i] = All(f, p[i])
  BY <1>1, <1>2, AllFlat, OfEachType
<1>4. All(f, MessageList(F, c)) = Flat(w)
  BY <1>3, Zenon DEF AllOver, MessageList, p
<1> HIDE DEF w
<1>5. Alone(w, k)
  <2> SUFFICES ASSUME NEW i \in 1 .. n, i # k PROVE w[i] = <<>>
    BY <1>3 DEF Alone
  <2>1. u # F[i].tag
    BY DEF Table
  <2> QED  BY <1>1, <1>3, <2>1
<1>6. w[k] = FieldValues(F[k], c[k])
  BY <1>1, <1>3
<1>7. Flat(w) = w[k]
  <2>1. k \in 1 .. Len(w)
    BY <1>3
  <2> QED  BY <1>3, <1>5, <2>1, FlatOnly
<1> QED  BY <1>4, <1>6, <1>7, Zenon DEF f

(* A message comes back from its encoding. *)
LEMMA MessageBack ==
  ASSUME NEW F, Table(F), NEW c, Fits(F, c)
  PROVE  Camera!Decode(F, Camera!Encode(F, c)) = c
<1> DEFINE M == MessageList(F, c)
           data == Camera!Encode(F, c)
           n == Len(F)
           got(t) == Camera!FlattenSeq([i \in 1 .. Len(M) |->
                                          IF M[i].tag = t THEN <<M[i].value>> ELSE <<>>])
<1>1. M \in Seq(ListItem) /\ Apart(M)
  BY MessageApart
<1>2. Camera!Items(data) = M
  <2>1. data = Laid(M)
    BY EncodeIs
  <2> HIDE DEF data, M
  <2>2. Camera!Items(Laid(M)) = M
    BY <1>1, ItemsBack
  <2> QED  BY <2>1, <2>2, Zenon
<1> HIDE DEF M, data
<1>3. ~ \E i \in 1 .. Len(M) : M[i].tag = -1
  <2> SUFFICES ASSUME NEW i \in 1 .. Len(M) PROVE M[i].tag # -1
    OBVIOUS
  <2>1. M[i] \in ListItem
    BY <1>1, ElementOfSeq
  <2>2. M[i].tag \in Octets
    BY <2>1, ItemHas
  <2> DEFINE x == M[i].tag
  <2>3. x \in Nat
    BY <2>2, OctetIs
  <2> HIDE DEF x
  <2>4. x # -1
    BY <2>3
  <2> QED  BY <2>4 DEF x
<1>4. Camera!Decode(F, data) = [k \in 1 .. n |-> Camera!Content(F[k], got(F[k].tag))]
  BY <1>2, <1>3, Zenon DEF Camera!Decode
<1>5. ASSUME NEW k \in 1 .. n PROVE Camera!Content(F[k], got(F[k].tag)) = c[k]
  <2> DEFINE t == F[k].tag
             f == PickOf(t)
             e == [i \in 1 .. Len(M) |-> IF M[i].tag = t THEN <<M[i].value>> ELSE <<>>]
  <2>1. Each(f, M) = e
    <3>1. ASSUME NEW i \in 1 .. Len(M)
          PROVE  f[M[i]] = IF M[i].tag = t THEN <<M[i].value>> ELSE <<>>
      <4>1. M[i] \in ListItem
        BY <1>1, ElementOfSeq
      <4> QED  BY <4>1 DEF PickOf
    <3>2. Each(f, M) = [i \in 1 .. Len(M) |-> f[M[i]]]
      BY DEF Each
    <3> HIDE DEF f, t
    <3> QED  BY <3>1, <3>2
  <2>2. got(t) = All(f, M)
    <3>1. got(t) = Flat(e)
      <4>1. got(t) = Camera!FlattenSeq(e)
        OBVIOUS
      <4> HIDE DEF got, e
      <4> QED  BY <4>1, CameraFlat
    <3> HIDE DEF e, got, f
    <3> QED  BY <2>1, <3>1, Zenon DEF All
  <2>3. All(f, M) = FieldValues(F[k], c[k])
    BY ValuesFound DEF M
  <2>4. FieldFits(F[k], c[k])
    BY DEF Fits
  <2>5. Camera!Content(F[k], FieldValues(F[k], c[k])) = c[k]
    BY <2>4, ContentBack
  <2> HIDE DEF got
  <2> QED  BY <2>2, <2>3, <2>5, Zenon
<1> HIDE DEF got
<1>6. c = [k \in 1 .. n |-> c[k]]
  BY DEF Fits
<1>7. [k \in 1 .. n |-> Camera!Content(F[k], got(F[k].tag))] = [k \in 1 .. n |-> c[k]]
  BY <1>5
<1>8. Camera!Decode(F, data) = c
  BY <1>4, <1>6, <1>7, Zenon
<1> QED  BY <1>8 DEF data

(* Where each field has one value and one field is given, the message is a   *)
(* list that can be joined with others.                                      *)
LEMMA PlainList ==
  ASSUME NEW F, Table(F), NEW c, Fits(F, c), \A i \in 1 .. Len(F) : F[i].type.is # "series",
         NEW k \in 1 .. Len(F), c[k] # <<>>
  PROVE  MessageList(F, c) \in Lists
<1> DEFINE p == PartsOf(F, c)
           n == Len(F)
           S == ListItem
           M == MessageList(F, c)
<1>1. /\ p \in Seq(Seq(S)) /\ Len(p) = n /\ n \in Nat
      /\ \A i \in 1 .. n : /\ p[i] = PartOfField(F[i], c[i]) /\ F[i].tag \in Tags1
                           /\ FieldFits(F[i], c[i])
  BY PartsAre
<1>2. M \in Seq(S) /\ Apart(M)
  BY MessageApart
<1> HIDE DEF p
<1>3. M = Flat(p)
  BY DEF MessageList, p
<1> HIDE DEF M
<1>4. ASSUME NEW i \in 1 .. n
      PROVE  \/ c[i] = <<>> /\ Len(p[i]) = 0
             \/ c[i] # <<>> /\ Len(p[i]) = 1 /\ p[i][1].tag # 0
  <2> DEFINE t == F[i].tag
             type == F[i].type
  <2>1. CASE c[i] = <<>>
    <3>1. p[i] = <<>>
      BY <1>1, <2>1 DEF PartOfField
    <3> QED  BY <2>1, <3>1
  <2>2. CASE c[i] # <<>>
    <3>1. PICK x : c[i] = <<x>> /\ FitsIn(type, x)
      BY <1>1, <2>2 DEF FieldFits
    <3>2. c[i][1] = x
      BY <3>1
    <3> DEFINE v == Camera!Values(type, x)
               y == IF type.is = "many" THEN Camera!JoinItems(x) ELSE x
    <3>3. v = <<y>>
      <4>1. type.is # "series"
        OBVIOUS
      <4>2. CASE type.is = "many"
        <5>1. y = Camera!JoinItems(x)
          BY <4>2, Zenon
        <5> HIDE DEF y
        <5> QED  BY <4>2, <5>1, Zenon DEF Camera!Values
      <4>3. CASE type.is # "many"
        <5>1. y = x
          BY <4>3, Zenon
        <5> HIDE DEF y
        <5> QED  BY <4>1, <4>3, <5>1, Zenon DEF Camera!Values
      <4> QED  BY <4>2, <4>3
    <3>4. v \in Seq(FineValues)
      BY <3>1 DEF FitsIn
    <3> HIDE DEF v, y
    <3>5. y \in FineValues
      <4> DEFINE X == FineValues
      <4>1. v \in Seq(X)
        BY <3>4
      <4> HIDE DEF X
      <4>2. 1 \in 1 .. Len(v) /\ v[1] = y
        BY <3>3
      <4>3. v[1] \in X
        BY <4>1, <4>2, ElementOfSeq
      <4> QED  BY <4>2, <4>3 DEF X
    <3>6. p[i] = Strung(Singles(t, v))
      BY <1>1, <2>2, <3>2, Zenon DEF PartOfField, v
    <3>7. t \in Tags1
      BY <1>1
    <3> HIDE DEF t
    <3>8. Strung(Singles(t, <<y>>)) = <<Camera!TagValue(t, y)>>
      BY <3>5, <3>7, StrungOne
    <3> DEFINE z == Camera!TagValue(t, y)
    <3>9. z.tag = t /\ t # 0
      BY <3>5, <3>7, TagIs, ItemIn
    <3>10. p[i] = <<z>>
      BY <3>3, <3>6, <3>8, Zenon
    <3> HIDE DEF z
    <3>11. Len(p[i]) = 1 /\ p[i][1] = z
      BY <3>10
    <3> QED  BY <2>2, <3>9, <3>11
  <2> QED  BY <2>1, <2>2
<1>5. Len(M) # 0
  <2>1. Len(p[k]) # 0 /\ k \in 1 .. Len(p)
    BY <1>1, <1>4
  <2> HIDE DEF S
  <2> QED  BY <1>1, <1>3, <2>1, FlatSome
<1>6. \A j \in 1 .. Len(M) : M[j].tag # 0
  <2> SUFFICES ASSUME NEW j \in 1 .. Len(M) PROVE M[j].tag # 0
    OBVIOUS
  <2>1. ComesFrom(p, M)
    <3> HIDE DEF S
    <3> QED  BY <1>1, <1>3, FlatFrom
  <2>2. PICK i \in 1 .. Len(p) : \E m \in 1 .. Len(p[i]) : M[j] = p[i][m]
    BY <2>1 DEF ComesFrom
  <2>3. PICK m \in 1 .. Len(p[i]) : M[j] = p[i][m]
    BY <2>2
  <2>4. i \in 1 .. n
    BY <1>1
  <2>5. m = 1 /\ p[i][1].tag # 0
    <3> DEFINE l == Len(p[i])
    <3>1. m \in 1 .. l
      OBVIOUS
    <3>2. l = 0 \/ (l = 1 /\ p[i][1].tag # 0)
      BY <1>4, <2>4
    <3> HIDE DEF l
    <3>3. l # 0
      BY <3>1
    <3> QED  BY <3>1, <3>2, <3>3
  <2> QED  BY <2>3, <2>5
<1> QED  BY <1>2, <1>5, <1>6 DEF Lists, M

\* What composing relies on in the table of a class.
Plain(F) ==
  /\ \A i \in 1 .. Len(F) : F[i].type.is # "series"
  /\ \E i \in 1 .. Len(F) : F[i].always

Listed ==
  {"VideoStreamTier", "AudioStreamTier", "VideoStreamCapability", "SensorConfiguration", "Item",
   "BufferEvent", "ZonePolygon", "WebRTCICECandidate", "SFrameKeyData", "Number64",
   "MediaContainerConfiguration"}

TypeFits(field) ==
  \/ field.type.is = "bytes" /\ field.type.width \in Nat
  \/ field.type.is = "one"
  \/ field.type.is = "many" /\ field.type.of \in Listed
  \/ field.type.is = "series" /\ field.always

ClassFits(F) == Table(F) /\ \A i \in 1 .. Len(F) : TypeFits(F[i])

(* Which classes there are. *)
ClassNames ==
  {"VideoStreamTier", "AudioStreamTier", "SupportedVideoStreamTiers",
   "SupportedAudioStreamTiers", "VideoStreamCapability", "Dimensions", "SensorConfiguration",
   "Sensors", "CameraCapabilities", "ContributingSensors", "Item", "Flag", "Number64",
   "CameraKey", "BufferUploadCommand", "BufferActivityCommand", "BufferEventCommand",
   "BufferEvent", "SessionError", "BufferEventsResponse", "PublishingPoint", "ZonePolygon",
   "ZoneData", "CameraZones", "RTPStreamingControlWrite", "SFrameKeyData",
   "WebRTCICECandidate", "WebRTCSolicitOfferWrite", "WebRTCSolicitOfferResponse",
   "WebRTCProvideAnswerWrite", "WebRTCStatus", "WebRTCReofferWrite", "WebRTCReofferResponse",
   "WebRTCUpdateSessionWrite", "ClientCertificate", "CertificateStatus",
   "ContainerParameters", "MediaContainerConfiguration", "SupportedRecordingConfiguration",
   "VideoAttributes", "VideoParameters", "VideoCodecConfiguration", "SupportedVideo",
   "SelectedVideoParameters", "SelectedVideo", "AudioParameters", "AudioCodecConfiguration",
   "SupportedAudio", "SelectedAudioParameters", "SelectedAudio",
   "SelectedRecordingConfiguration"}

LEMMA ClassNamesAre == DOMAIN Camera!Classes = ClassNames
  BY DEF Camera!Classes, ClassNames

LEMMA NoneIsNoClass == "none" \notin DOMAIN Camera!Classes
  BY ClassNamesAre DEF ClassNames

(* Each kind of field is such, and has its tag. *)
LEMMA FieldsFit ==
  /\ \A t, w : w \in Nat => TypeFits(Camera!Field(t, Camera!Uint(w)))
  /\ \A t, w : w \in Nat => TypeFits(Camera!Optional(t, Camera!Uint(w)))
  /\ \A t : TypeFits(Camera!Field(t, Camera!Bytes))
  /\ \A t : TypeFits(Camera!Optional(t, Camera!Bytes))
  /\ \A t, c : TypeFits(Camera!Field(t, Camera!One(c)))
  /\ \A t, c : TypeFits(Camera!Optional(t, Camera!One(c)))
  /\ \A t, c : c \in Listed => TypeFits(Camera!Field(t, Camera!Many(c)))
  /\ \A t, c : c \in Listed => TypeFits(Camera!ManyIfAny(t, c))
  /\ \A t, c : TypeFits(Camera!Field(t, Camera!Series(c)))
  BY DEF TypeFits, Camera!Field, Camera!Optional, Camera!ManyIfAny, Camera!Uint, Camera!Bytes,
         Camera!One, Camera!Many, Camera!Series

LEMMA FieldTags ==
  \A t, type : /\ Camera!Field(t, type).tag = t /\ Camera!Optional(t, type).tag = t
               /\ Camera!ManyIfAny(t, type).tag = t
  BY DEF Camera!Field, Camera!Optional, Camera!ManyIfAny

(* The table of each is such. *)
LEMMA TablesFit == \A n \in DOMAIN Camera!Classes : ClassFits(Camera!Classes[n])
<1> USE FieldsFit, FieldTags DEF ClassFits, Table, Tags1, Listed
<1>1. ClassFits(Camera!VideoStreamTier)
  BY DEF Camera!VideoStreamTier
<1>2. ClassFits(Camera!AudioStreamTier)
  BY DEF Camera!AudioStreamTier
<1>3. ClassFits(Camera!SupportedVideoStreamTiers)
  BY DEF Camera!SupportedVideoStreamTiers
<1>4. ClassFits(Camera!SupportedAudioStreamTiers)
  BY DEF Camera!SupportedAudioStreamTiers
<1>5. ClassFits(Camera!VideoStreamCapability)
  BY DEF Camera!VideoStreamCapability
<1>6. ClassFits(Camera!Dimensions)
  BY DEF Camera!Dimensions
<1>7. ClassFits(Camera!SensorConfiguration)
  BY DEF Camera!SensorConfiguration
<1>8. ClassFits(Camera!Sensors)
  BY DEF Camera!Sensors
<1>9. ClassFits(Camera!CameraCapabilities)
  BY DEF Camera!CameraCapabilities
<1>10. ClassFits(Camera!ContributingSensors)
  BY DEF Camera!ContributingSensors
<1>11. ClassFits(Camera!Item)
  BY DEF Camera!Item
<1>12. ClassFits(Camera!Flag)
  BY DEF Camera!Flag
<1>13. ClassFits(Camera!Number64)
  BY DEF Camera!Number64
<1>14. ClassFits(Camera!CameraKey)
  BY DEF Camera!CameraKey
<1>15. ClassFits(Camera!BufferUploadCommand)
  BY DEF Camera!BufferUploadCommand
<1>16. ClassFits(Camera!BufferActivityCommand)
  BY DEF Camera!BufferActivityCommand
<1>17. ClassFits(Camera!BufferEventCommand)
  BY DEF Camera!BufferEventCommand
<1>18. ClassFits(Camera!BufferEvent)
  BY DEF Camera!BufferEvent
<1>19. ClassFits(Camera!SessionError)
  BY DEF Camera!SessionError
<1>20. ClassFits(Camera!BufferEventsResponse)
  BY DEF Camera!BufferEventsResponse
<1>21. ClassFits(Camera!PublishingPoint)
  BY DEF Camera!PublishingPoint
<1>22. ClassFits(Camera!ZonePolygon)
  BY DEF Camera!ZonePolygon
<1>23. ClassFits(Camera!ZoneData)
  BY DEF Camera!ZoneData
<1>24. ClassFits(Camera!CameraZones)
  BY DEF Camera!CameraZones
<1>25. ClassFits(Camera!RTPStreamingControlWrite)
  BY DEF Camera!RTPStreamingControlWrite
<1>26. ClassFits(Camera!SFrameKeyData)
  BY DEF Camera!SFrameKeyData
<1>27. ClassFits(Camera!WebRTCICECandidate)
  BY DEF Camera!WebRTCICECandidate
<1>28. ClassFits(Camera!WebRTCSolicitOfferWrite)
  BY DEF Camera!WebRTCSolicitOfferWrite
<1>29. ClassFits(Camera!WebRTCSolicitOfferResponse)
  BY DEF Camera!WebRTCSolicitOfferResponse
<1>30. ClassFits(Camera!WebRTCProvideAnswerWrite)
  BY DEF Camera!WebRTCProvideAnswerWrite
<1>31. ClassFits(Camera!WebRTCStatus)
  BY DEF Camera!WebRTCStatus
<1>32. ClassFits(Camera!WebRTCReofferWrite)
  BY DEF Camera!WebRTCReofferWrite
<1>33. ClassFits(Camera!WebRTCReofferResponse)
  BY DEF Camera!WebRTCReofferResponse
<1>34. ClassFits(Camera!WebRTCUpdateSessionWrite)
  BY DEF Camera!WebRTCUpdateSessionWrite
<1>35. ClassFits(Camera!ClientCertificate)
  BY DEF Camera!ClientCertificate
<1>36. ClassFits(Camera!CertificateStatus)
  BY DEF Camera!CertificateStatus
<1>37. ClassFits(Camera!ContainerParameters)
  BY DEF Camera!ContainerParameters
<1>38. ClassFits(Camera!MediaContainerConfiguration)
  BY DEF Camera!MediaContainerConfiguration
<1>39. ClassFits(Camera!SupportedRecordingConfiguration)
  BY DEF Camera!SupportedRecordingConfiguration
<1>40. ClassFits(Camera!VideoAttributes)
  BY DEF Camera!VideoAttributes
<1>41. ClassFits(Camera!VideoParameters)
  BY DEF Camera!VideoParameters
<1>42. ClassFits(Camera!VideoCodecConfiguration)
  BY DEF Camera!VideoCodecConfiguration
<1>43. ClassFits(Camera!SupportedVideo)
  BY DEF Camera!SupportedVideo
<1>44. ClassFits(Camera!SelectedVideoParameters)
  BY DEF Camera!SelectedVideoParameters
<1>45. ClassFits(Camera!SelectedVideo)
  BY DEF Camera!SelectedVideo
<1>46. ClassFits(Camera!AudioParameters)
  BY DEF Camera!AudioParameters
<1>47. ClassFits(Camera!AudioCodecConfiguration)
  BY DEF Camera!AudioCodecConfiguration
<1>48. ClassFits(Camera!SupportedAudio)
  BY DEF Camera!SupportedAudio
<1>49. ClassFits(Camera!SelectedAudioParameters)
  BY DEF Camera!SelectedAudioParameters
<1>50. ClassFits(Camera!SelectedAudio)
  BY DEF Camera!SelectedAudio
<1>51. ClassFits(Camera!SelectedRecordingConfiguration)
  BY DEF Camera!SelectedRecordingConfiguration
<1> HIDE FieldsFit, FieldTags DEF ClassFits
<1>0. \A n \in ClassNames : ClassFits(Camera!Classes[n])
  BY <1>1, <1>2, <1>3, <1>4, <1>5, <1>6, <1>7, <1>8, <1>9, <1>10, <1>11, <1>12, <1>13,
     <1>14, <1>15, <1>16, <1>17, <1>18, <1>19, <1>20, <1>21, <1>22, <1>23, <1>24, <1>25,
     <1>26, <1>27, <1>28, <1>29, <1>30, <1>31, <1>32, <1>33, <1>34, <1>35, <1>36, <1>37,
     <1>38, <1>39, <1>40, <1>41, <1>42, <1>43, <1>44, <1>45, <1>46, <1>47, <1>48, <1>49,
     <1>50, <1>51
     DEF ClassNames, Camera!Classes
<1> QED  BY <1>0, ClassNamesAre

(* Those of what is in lists have no list in several TLVs, and a field that *)
(* is always there.                                                         *)
LEMMA ListedArePlain == \A n \in Listed : Plain(Camera!Classes[n])
<1> USE DEF Plain, Camera!Field, Camera!Optional, Camera!Uint, Camera!Bytes, Camera!One,
            Camera!Many
<1>1. Plain(Camera!VideoStreamTier)
  BY DEF Camera!VideoStreamTier
<1>2. Plain(Camera!AudioStreamTier)
  BY DEF Camera!AudioStreamTier
<1>3. Plain(Camera!VideoStreamCapability)
  BY DEF Camera!VideoStreamCapability
<1>4. Plain(Camera!SensorConfiguration)
  BY DEF Camera!SensorConfiguration
<1>5. Plain(Camera!Item)
  BY DEF Camera!Item
<1>6. Plain(Camera!BufferEvent)
  BY DEF Camera!BufferEvent
<1>7. Plain(Camera!ZonePolygon)
  BY DEF Camera!ZonePolygon
<1>8. Plain(Camera!WebRTCICECandidate)
  BY DEF Camera!WebRTCICECandidate
<1>9. Plain(Camera!SFrameKeyData)
  BY DEF Camera!SFrameKeyData
<1>10. Plain(Camera!Number64)
  BY DEF Camera!Number64
<1>11. Plain(Camera!MediaContainerConfiguration)
  BY DEF Camera!MediaContainerConfiguration
<1> HIDE DEF Plain
<1> QED
  BY <1>1, <1>2, <1>3, <1>4, <1>5, <1>6, <1>7, <1>8, <1>9, <1>10, <1>11
     DEF Listed, Camera!Classes

(* The messages that have been composed. *)

\* What is known of one: a whole one comes back, and can be in a list.
MessageFits(n, m) ==
  m.whole => /\ m.bytes \in Seq(Octets)
             /\ Plain(Camera!Classes[n]) => \E L \in Lists : m.bytes = Laid(L)
             /\ Camera!Decode(Camera!Classes[n], m.bytes) = m.contents

ComposedFits(n) ==
  /\ n \in DOMAIN Camera!Classes
  /\ composed[n] = [k \in Camera!Copies |-> composed[n][k]]
  /\ \A k \in Camera!Copies : MessageFits(n, composed[n][k])

CameraOK ==
  /\ how.length \in Nat /\ how.items \in Nat
  /\ name = "none" => DOMAIN composed = {} /\ due = {}
  /\ \A n \in DOMAIN composed : ComposedFits(n)

LEMMA CopiesAre ==
  ASSUME CameraOK
  PROVE  \E N \in Nat \ {0} : Camera!Copies = 1 .. N /\ how.items \in 0 .. N
<1> DEFINE N == IF how.items = 0 THEN 1 ELSE how.items
<1>1. how.items \in Nat
  BY DEF CameraOK
<1>2. N \in Nat \ {0} /\ how.items \in 0 .. N
  BY <1>1
<1>3. Camera!Copies = 1 .. N
  BY Zenon DEF Camera!Copies
<1> QED  BY <1>2, <1>3

(* Those that go into a list. *)
FirstOnes(c) == SubSeq(composed[c], 1, how.items)

LEMMA FirstOnesFit ==
  ASSUME CameraOK, NEW c \in DOMAIN composed
  PROVE  /\ Len(FirstOnes(c)) \in Nat
         /\ \A i \in 1 .. Len(FirstOnes(c)) : MessageFits(c, FirstOnes(c)[i])
<1>1. PICK N \in Nat \ {0} : Camera!Copies = 1 .. N /\ how.items \in 0 .. N
  BY CopiesAre
<1> DEFINE s == composed[c]
           Z == {s[k] : k \in 1 .. N}
           m == how.items
           q == FirstOnes(c)
<1>2. s = [k \in 1 .. N |-> s[k]] /\ \A k \in 1 .. N : MessageFits(c, s[k])
  BY <1>1 DEF CameraOK, ComposedFits
<1>3. m \in 0 .. N /\ q = SubSeq(s, 1, m)
  BY <1>1 DEF FirstOnes
<1>4. \A k \in 1 .. N : s[k] \in Z
  OBVIOUS
<1> HIDE DEF s, Z, m, q
<1>5. s \in Seq(Z) /\ Len(s) = N
  <2> DEFINE g == [k \in 1 .. N |-> s[k]]
  <2>1. g \in Seq(Z) /\ Len(g) = N
    BY <1>4
  <2>2. s = g
    BY <1>2
  <2> HIDE DEF g
  <2> QED  BY <2>1, <2>2
<1>6. Len(q) = m /\ \A i \in 1 .. m : q[i] = s[i]
  <2>1. m \in 0 .. Len(s)
    BY <1>3, <1>5
  <2> QED  BY <1>3, <1>5, <2>1, Firsts
<1>7. ASSUME NEW i \in 1 .. Len(q) PROVE MessageFits(c, q[i])
  <2>1. i \in 1 .. m /\ i \in 1 .. N
    BY <1>3, <1>6
  <2> QED  BY <1>2, <1>6, <2>1
<1>8. Len(q) \in Nat
  BY <1>3, <1>6
<1> QED  BY <1>7, <1>8 DEF q

LEMMA FillerFits ==
  ASSUME NEW length \in Nat, NEW seed \in Nat
  PROVE  Camera!Filler(length, seed) \in Seq(Octets)
<1> DEFINE a(b) == (7 * b + 31 * seed) % 256
           X == Octets
<1>1. ASSUME NEW b \in 1 .. length PROVE a(b) \in X
  <2> DEFINE y == 7 * b + 31 * seed
  <2>1. y \in Nat
    OBVIOUS
  <2> HIDE DEF y
  <2>2. y % 256 \in 0 .. 255
    BY <2>1
  <2> QED  BY <2>2 DEF y, Octets
<1>2. Camera!Filler(length, seed) = [b \in 1 .. length |-> a(b)]
  BY DEF Camera!Filler
<1> HIDE DEF a, X
<1>3. [b \in 1 .. length |-> a(b)] \in Seq(X)
  BY <1>1
<1> QED  BY <1>2, <1>3 DEF X

LEMMA FineHere ==
  ASSUME NEW v
  PROVE  v \in FineValues <=> v \in Seq(Octets) /\ ~ Camera!IsLongMultiple(v)
  BY Zenon DEF FineValues

\* What is given to a field when the k-th message of a class is composed.
GivenFits(type, k, seed) ==
  LET q == Camera!Parts(type, k)
      x == Camera!Contained(type, q, seed)
  IN  Camera!IsWhole(type, q, x) => FitsIn(type, x)

(* Field type by field type. *)
LEMMA BytesGiven ==
  ASSUME CameraOK, NEW type, type.is = "bytes", type.width \in Nat, NEW k, NEW seed \in Nat
  PROVE  GivenFits(type, k, seed)
<1> DEFINE q == Camera!Parts(type, k)
           x == Camera!Contained(type, q, seed)
           l == IF type.width = 0 THEN how.length ELSE type.width
           o == <<x>>
<1>1. l \in Nat
  BY DEF CameraOK
<1>2. x = Camera!Filler(l, seed)
  BY Zenon DEF Camera!Contained
<1>3. x \in Seq(Octets)
  BY <1>1, <1>2, FillerFits
<1> HIDE DEF x
<1>4. Camera!Values(type, x) = o
  BY Zenon DEF Camera!Values
<1>5. ASSUME Camera!IsWhole(type, q, x) PROVE FitsIn(type, x)
  <2>1. \A i \in 1 .. Len(o) : ~ Camera!IsLongMultiple(o[i])
    BY <1>4, <1>5, Zenon DEF Camera!IsWhole
  <2>2. 1 \in 1 .. Len(o) /\ o[1] = x
    OBVIOUS
  <2>3. ~ Camera!IsLongMultiple(x)
    <3> HIDE DEF o
    <3> QED  BY <2>1, <2>2
  <2>4. x \in FineValues
    BY <1>3, <2>3, FineHere
  <2> DEFINE X == FineValues
  <2> HIDE DEF X
  <2>5. x \in X
    BY <2>4 DEF X
  <2>6. o \in Seq(X)
    BY <2>5
  <2>7. type.is # "many"
    OBVIOUS
  <2> QED  BY <1>4, <2>6, <2>7, Zenon DEF FitsIn, X
<1> QED  BY <1>5, Zenon DEF GivenFits, x

LEMMA OneGiven ==
  ASSUME CameraOK, NEW type, type.is = "one", type.of \in DOMAIN composed,
         NEW k \in Camera!Copies, NEW seed
  PROVE  GivenFits(type, k, seed)
<1> DEFINE q == Camera!Parts(type, k)
           m == composed[type.of][k]
           x == Camera!Contained(type, q, seed)
           o == <<x>>
<1>1. q = <<m>>
  BY Zenon DEF Camera!Parts
<1>2. Len(q) = 1 /\ q[1] = m
  BY <1>1
<1>3. x = q[1].bytes
  BY Zenon DEF Camera!Contained
<1>4. MessageFits(type.of, m)
  BY DEF CameraOK, ComposedFits
<1> HIDE DEF x, m, q
<1>5. Camera!Values(type, x) = o
  BY Zenon DEF Camera!Values
<1>6. ASSUME Camera!IsWhole(type, q, x) PROVE FitsIn(type, x)
  <2>1. \A i \in 1 .. Len(o) : ~ Camera!IsLongMultiple(o[i])
    BY <1>5, <1>6, Zenon DEF Camera!IsWhole
  <2>2. \A i \in 1 .. Len(q) : q[i].whole
    BY <1>6, Zenon DEF Camera!IsWhole
  <2>3. 1 \in 1 .. Len(o) /\ o[1] = x /\ 1 \in 1 .. Len(q)
    BY <1>2
  <2>4. ~ Camera!IsLongMultiple(x)
    <3> HIDE DEF o
    <3> QED  BY <2>1, <2>3
  <2>5. m.whole
    BY <1>2, <2>2, <2>3
  <2>6. x \in Seq(Octets)
    BY <1>2, <1>3, <1>4, <2>5 DEF MessageFits
  <2>7. x \in FineValues
    BY <2>4, <2>6, FineHere
  <2> DEFINE X == FineValues
  <2> HIDE DEF X
  <2>8. x \in X
    BY <2>7 DEF X
  <2>9. o \in Seq(X)
    BY <2>8
  <2>10. type.is # "many"
    OBVIOUS
  <2> QED  BY <1>5, <2>9, <2>10, Zenon DEF FitsIn, X
<1> QED  BY <1>6, Zenon DEF GivenFits, x, q

LEMMA SeriesGiven ==
  ASSUME CameraOK, NEW type, type.is = "series", type.of \in DOMAIN composed, NEW k, NEW seed
  PROVE  GivenFits(type, k, seed)
<1> DEFINE q == Camera!Parts(type, k)
           x == Camera!Contained(type, q, seed)
           n == Len(q)
<1>1. q = FirstOnes(type.of)
  BY Zenon DEF Camera!Parts, FirstOnes
<1>2. n \in Nat /\ \A i \in 1 .. n : MessageFits(type.of, q[i])
  BY <1>1, FirstOnesFit
<1>3. x = [i \in 1 .. n |-> q[i].bytes]
  BY Zenon DEF Camera!Contained
<1> HIDE DEF x, q
<1>4. Camera!Values(type, x) = x
  BY Zenon DEF Camera!Values
<1>5. ASSUME Camera!IsWhole(type, q, x) PROVE FitsIn(type, x)
  <2>1. \A i \in 1 .. Len(x) : ~ Camera!IsLongMultiple(x[i])
    BY <1>4, <1>5, Zenon DEF Camera!IsWhole
  <2>2. \A i \in 1 .. n : q[i].whole
    BY <1>5, Zenon DEF Camera!IsWhole
  <2> DEFINE X == FineValues
  <2>3. Len(x) = n /\ \A i \in 1 .. n : x[i] = q[i].bytes
    BY <1>2, <1>3
  <2>4. ASSUME NEW i \in 1 .. n PROVE q[i].bytes \in X
    <3>1. q[i].bytes \in Seq(Octets)
      BY <1>2, <2>2 DEF MessageFits
    <3>2. ~ Camera!IsLongMultiple(q[i].bytes)
      BY <2>1, <2>3
    <3> QED  BY <3>1, <3>2, FineHere
  <2> HIDE DEF X
  <2>5. [i \in 1 .. n |-> q[i].bytes] \in Seq(X)
    BY <1>2, <2>4
  <2>6. type.is # "many"
    OBVIOUS
  <2> QED  BY <1>3, <1>4, <2>5, <2>6, Zenon DEF FitsIn, X
<1> QED  BY <1>5, Zenon DEF GivenFits, x, q

LEMMA ManyGiven ==
  ASSUME CameraOK, NEW type, type.is = "many", type.of \in Listed, type.of \in DOMAIN composed,
         NEW k, NEW seed
  PROVE  GivenFits(type, k, seed)
<1> DEFINE q == Camera!Parts(type, k)
           x == Camera!Contained(type, q, seed)
           n == Len(q)
           j == Camera!JoinItems(x)
           o == <<j>>
<1>1. q = FirstOnes(type.of)
  BY Zenon DEF Camera!Parts, FirstOnes
<1>2. n \in Nat /\ \A i \in 1 .. n : MessageFits(type.of, q[i])
  BY <1>1, FirstOnesFit
<1>3. x = [i \in 1 .. n |-> q[i].bytes]
  BY Zenon DEF Camera!Contained
<1> HIDE DEF x, q
<1>4. Camera!Values(type, x) = o
  BY Zenon DEF Camera!Values
<1>5. ASSUME Camera!IsWhole(type, q, x) PROVE FitsIn(type, x)
  <2>1. \A i \in 1 .. Len(o) : ~ Camera!IsLongMultiple(o[i])
    BY <1>4, <1>5, Zenon DEF Camera!IsWhole
  <2>2. \A i \in 1 .. n : q[i].whole
    BY <1>5, Zenon DEF Camera!IsWhole
  <2>3. ASSUME NEW i \in 1 .. n PROVE \E L \in Lists : q[i].bytes = Laid(L)
    <3>1. Plain(Camera!Classes[type.of])
      BY ListedArePlain
    <3> QED  BY <1>2, <2>2, <3>1 DEF MessageFits
  <2> DEFINE l(i) == CHOOSE L \in Lists : q[i].bytes = Laid(L)
             s == [i \in 1 .. n |-> l(i)]
             Z == Lists
  <2>4. ASSUME NEW i \in 1 .. n PROVE l(i) \in Z /\ q[i].bytes = Laid(l(i))
    BY <2>3, Zenon
  <2> HIDE DEF l, Z
  <2>5. s \in Seq(Z) /\ Len(s) = n /\ \A i \in 1 .. n : s[i] = l(i)
    BY <1>2, <2>4
  <2> HIDE DEF s
  <2>6. x = OfEach(OfItem, s)
    <3>1. OfEach(OfItem, s) = [i \in 1 .. n |-> All(OfItem, s[i])]
      BY <2>5 DEF OfEach
    <3>2. ASSUME NEW i \in 1 .. n PROVE All(OfItem, s[i]) = q[i].bytes
      <4>1. Laid(l(i)) = All(OfItem, l(i))
        BY Zenon DEF Laid
      <4> QED  BY <2>4, <2>5, <4>1, Zenon
    <3> QED  BY <1>3, <3>1, <3>2
  <2>7. s \in Seq(Lists)
    BY <2>5 DEF Z
  <2>8. j \in Seq(Octets)
    <3>1. Strung(s) \in Seq(ListItem) /\ Camera!JoinItems(OfEach(OfItem, s)) = Laid(Strung(s))
      BY <2>7, JoinIs
    <3>2. Laid(Strung(s)) \in Seq(Octets)
      BY <3>1, LaidType
    <3> QED  BY <2>6, <3>1, <3>2, Zenon
  <2> HIDE DEF j
  <2>9. 1 \in 1 .. Len(o) /\ o[1] = j
    OBVIOUS
  <2>10. ~ Camera!IsLongMultiple(j)
    <3> HIDE DEF o
    <3> QED  BY <2>1, <2>9
  <2>11. j \in FineValues
    BY <2>8, <2>10, FineHere
  <2> DEFINE X == FineValues
  <2> HIDE DEF X
  <2>12. j \in X
    BY <2>11 DEF X
  <2>13. o \in Seq(X)
    BY <2>12
  <2> QED  BY <1>4, <2>6, <2>7, <2>13, Zenon DEF FitsIn, X
<1> QED  BY <1>5, Zenon DEF GivenFits, x, q

(* A message that is composed, of messages that are as they must be. *)
LEMMA MessageComposed ==
  ASSUME CameraOK, NEW n \in DOMAIN Camera!Classes, Camera!In(n) \subseteq DOMAIN composed,
         NEW k \in Camera!Copies
  PROVE  MessageFits(n, Camera!Message(n, k))
<1> DEFINE F == Camera!Classes[n]
           q(i) == Camera!Parts(F[i].type, k)
           x(i) == Camera!Contained(F[i].type, q(i), 10 * k + i)
           given(i) == Camera!Given(F[i])
           c == [i \in 1 .. Len(F) |-> IF given(i) THEN <<x(i)>> ELSE <<>>]
           m == Camera!Message(n, k)
<1>1. /\ m.contents = c /\ m.bytes = Camera!Encode(F, c)
      /\ m.whole = \A i \in 1 .. Len(F) : given(i) => Camera!IsWhole(F[i].type, q(i), x(i))
  <2> DEFINE b == Camera!Encode(F, c)
             w == \A i \in 1 .. Len(F) : given(i) => Camera!IsWhole(F[i].type, q(i), x(i))
  <2>1. m = [contents |-> c, bytes |-> b, whole |-> w]
    BY Zenon DEF Camera!Message
  <2> HIDE DEF m, c, b, w
  <2> QED  BY <2>1 DEF b, w
<1>2. ClassFits(F)
  BY TablesFit
<1> HIDE DEF F
<1>3. Table(F) /\ \A i \in 1 .. Len(F) : TypeFits(F[i])
  BY <1>2 DEF ClassFits
<1>4. Len(F) \in Nat
  BY <1>3 DEF Table
<1> SUFFICES ASSUME m.whole
             PROVE  /\ m.bytes \in Seq(Octets)
                    /\ Plain(F) => \E L \in Lists : m.bytes = Laid(L)
                    /\ Camera!Decode(F, m.bytes) = m.contents
  BY DEF MessageFits, F
<1>5. ASSUME NEW i \in 1 .. Len(F) PROVE GivenFits(F[i].type, k, 10 * k + i)
  <2> DEFINE type == F[i].type
             seed == 10 * k + i
  <2>1. seed \in Nat
    <3>1. PICK N \in Nat \ {0} : Camera!Copies = 1 .. N
      BY CopiesAre
    <3>2. k \in Nat /\ i \in Nat
      BY <1>4, <3>1
    <3> QED  BY <3>2
  <2>2. type.is # "bytes" => type.of \in DOMAIN composed
    <3> SUFFICES ASSUME type.is # "bytes" PROVE type.of \in DOMAIN composed
      OBVIOUS
    <3>1. F[i].type.of \in Camera!In(n)
      <4>1. i \in DOMAIN F
        BY <1>4
      <4> QED  BY <4>1, Zenon DEF Camera!In, F
    <3> QED  BY <3>1
  <2>3. TypeFits(F[i])
    BY <1>3
  <2> HIDE DEF seed
  <2>4. CASE type.is = "bytes"
    <3>1. type.width \in Nat
      BY <2>3, <2>4 DEF TypeFits
    <3> QED  BY <2>1, <2>4, <3>1, BytesGiven DEF seed
  <2>5. CASE type.is = "one"
    BY <2>2, <2>5, OneGiven DEF seed
  <2>6. CASE type.is = "many"
    <3>1. type.of \in Listed
      BY <2>3, <2>6 DEF TypeFits
    <3> QED  BY <2>2, <2>6, <3>1, ManyGiven DEF seed
  <2>7. CASE type.is = "series"
    BY <2>2, <2>7, SeriesGiven DEF seed
  <2> QED  BY <2>3, <2>4, <2>5, <2>6, <2>7 DEF TypeFits
<1>6. ASSUME NEW i \in 1 .. Len(F), given(i) PROVE FitsIn(F[i].type, x(i))
  <2>1. Camera!IsWhole(F[i].type, q(i), x(i))
    BY <1>1, <1>6
  <2> QED  BY <1>5, <2>1, Zenon DEF GivenFits
<1>7. \A i \in 1 .. Len(F) : F[i].always => given(i)
  BY Zenon DEF Camera!Given
<1> HIDE DEF given, x, m
<1>8. Fits(F, c)
  <2>1. \A i \in 1 .. Len(F) : c[i] = IF given(i) THEN <<x(i)>> ELSE <<>>
    OBVIOUS
  <2>2. c = [i \in 1 .. Len(F) |-> c[i]]
    OBVIOUS
  <2> HIDE DEF c
  <2>3. ASSUME NEW i \in 1 .. Len(F) PROVE FieldFits(F[i], c[i])
    <3>1. CASE given(i)
      <4>1. c[i] = <<x(i)>>
        BY <2>1, <3>1
      <4> QED  BY <1>6, <3>1, <4>1 DEF FieldFits
    <3>2. CASE ~ given(i)
      <4>1. c[i] = <<>> /\ ~ F[i].always
        BY <1>7, <2>1, <3>2
      <4>2. F[i].type.is # "series"
        BY <1>3, <4>1 DEF TypeFits
      <4> QED  BY <4>1, <4>2 DEF FieldFits
    <3> QED  BY <3>1, <3>2
  <2> QED  BY <2>2, <2>3 DEF Fits
<1>9. m.bytes = Laid(MessageList(F, c))
  BY <1>1, <1>3, <1>8, EncodeIs
<1>10. m.bytes \in Seq(Octets)
  BY <1>3, <1>8, <1>9, MessageApart, LaidType
<1>11. ASSUME Plain(F) PROVE \E L \in Lists : m.bytes = Laid(L)
  <2>1. \A i \in 1 .. Len(F) : F[i].type.is # "series"
    BY <1>11 DEF Plain
  <2>2. PICK i \in 1 .. Len(F) : F[i].always
    BY <1>11 DEF Plain
  <2>3. c[i] # <<>>
    <3>1. c[i] = <<x(i)>>
      BY <1>7, <2>2
    <3> QED  BY <3>1
  <2> HIDE DEF c
  <2>4. MessageList(F, c) \in Lists
    BY <1>3, <1>8, <2>1, <2>3, PlainList
  <2> QED  BY <1>9, <2>4
<1>12. Camera!Decode(F, m.bytes) = m.contents
  <2>1. Camera!Decode(F, Camera!Encode(F, c)) = c
    BY <1>3, <1>8, MessageBack
  <2> QED  BY <1>1, <2>1, Zenon
<1> QED  BY <1>10, <1>11, <1>12

LEMMA CameraInit == ASSUME Camera!Parameters, Camera!Init PROVE CameraOK
<1> DEFINE none == [n \in {} |-> <<>>]
           start == [length |-> 0, items |-> 0, present |-> {}]
<1>1. composed = none /\ how = start /\ due = {}
  BY DEF Camera!Init
<1>2. DOMAIN composed = {}
  BY <1>1
<1>3. how.length = 0 /\ how.items = 0
  BY <1>1
<1> QED  BY <1>1, <1>2, <1>3 DEF CameraOK

(* A message is chosen when there is none. *)
LEMMA CameraChoose ==
  ASSUME Camera!Parameters, CameraOK, name = "none", NEW n \in DOMAIN Camera!Classes,
         NEW length \in TextLengths, NEW count \in 0 .. MaxListed, NEW present,
         Camera!Choose(n, length, count, present)
  PROVE  CameraOK'
<1> DEFINE given == [length |-> length, items |-> count, present |-> present]
<1>1. how' = given /\ name' = n /\ composed' = composed
  BY DEF Camera!Choose
<1>2. length \in Nat /\ count \in Nat
  BY DEF Camera!Parameters
<1>3. how'.length \in Nat /\ how'.items \in Nat
  BY <1>1, <1>2
<1>4. name' # "none"
  BY <1>1, NoneIsNoClass
<1>5. DOMAIN composed' = {}
  BY <1>1 DEF CameraOK
<1>6. \A c \in DOMAIN composed' : ComposedFits(c)'
  BY <1>5
<1> QED  BY <1>3, <1>4, <1>6 DEF CameraOK

(* One is composed of those that are there. *)
LEMMA CameraCompose ==
  ASSUME CameraOK, NEW n \in DOMAIN Camera!Classes, Camera!Compose(n)
  PROVE  CameraOK'
<1> DEFINE new == [k \in Camera!Copies |-> Camera!Message(n, k)]
           D == DOMAIN composed \cup {n}
<1>1. /\ n \in due /\ Camera!In(n) \subseteq DOMAIN composed /\ name' = name /\ how' = how
      /\ composed' = [c \in D |-> IF c = n THEN new ELSE composed[c]]
  BY Zenon DEF Camera!Compose
<1>2. name # "none"
  BY <1>1 DEF CameraOK
<1>3. Camera!Copies' = Camera!Copies
  BY <1>1 DEF Camera!Copies
<1> DEFINE K == Camera!Copies
<1>4. \A k \in K : MessageFits(n, Camera!Message(n, k))
  BY <1>1, MessageComposed
<1>5. DOMAIN composed' = D
  BY <1>1
<1>6. ASSUME NEW c \in D
      PROVE  /\ c \in DOMAIN Camera!Classes
             /\ composed'[c] = [k \in K |-> composed'[c][k]]
             /\ \A k \in K : MessageFits(c, composed'[c][k])
  <2>1. composed'[c] = IF c = n THEN new ELSE composed[c]
    BY <1>1
  <2>2. CASE c = n
    <3>1. composed'[c] = new
      BY <2>1, <2>2
    <3>2. \A k \in K : new[k] = Camera!Message(n, k)
      OBVIOUS
    <3>3. new = [k \in K |-> new[k]]
      OBVIOUS
    <3> HIDE DEF new, K
    <3> QED  BY <1>4, <2>2, <3>1, <3>2, <3>3
  <2>3. CASE c # n
    <3>1. c \in DOMAIN composed /\ composed'[c] = composed[c]
      BY <2>1, <2>3
    <3>2. ComposedFits(c)
      BY <3>1 DEF CameraOK
    <3> QED  BY <3>1, <3>2 DEF ComposedFits
  <2> QED  BY <2>2, <2>3
<1> HIDE DEF K, D, new
<1>7. \A c \in DOMAIN composed' : ComposedFits(c)'
  <2> SUFFICES ASSUME NEW c \in D PROVE ComposedFits(c)'
    BY <1>5
  <2>1. Camera!Copies' = K
    BY <1>3 DEF K
  <2>2. \A k \in K : MessageFits(c, composed'[c][k])
    BY <1>6
  <2> QED  BY <1>6, <2>1, <2>2 DEF ComposedFits, MessageFits
<1>8. how'.length \in Nat /\ how'.items \in Nat
  BY <1>1 DEF CameraOK
<1> QED  BY <1>1, <1>2, <1>7, <1>8 DEF CameraOK

LEMMA CameraStep ==
  ASSUME Camera!Parameters, CameraOK, [Camera!Next]_<<name, how, due, composed>>
  PROVE  CameraOK'
<1>1. CASE Camera!Next
  <2>1. ASSUME name = "none",
               \E n \in DOMAIN Camera!Classes : \E present \in Camera!Presences(n) :
                 \E length \in TextLengths, count \in 0 .. MaxListed :
                   Camera!Choose(n, length, count, present)
        PROVE  CameraOK'
    BY <2>1, CameraChoose
  <2>2. ASSUME \E n \in DOMAIN Camera!Classes : Camera!Compose(n) PROVE CameraOK'
    BY <2>2, CameraCompose
  <2> QED  BY <1>1, <2>1, <2>2, Zenon DEF Camera!Next
<1>2. CASE UNCHANGED <<name, how, due, composed>>
  <2>1. name' = name /\ how' = how /\ due' = due /\ composed' = composed
    BY <1>2
  <2>2. Camera!Copies' = Camera!Copies
    BY <2>1 DEF Camera!Copies
  <2>3. \A n : ComposedFits(n) => ComposedFits(n)'
    BY <2>1, <2>2 DEF ComposedFits, MessageFits
  <2>4. \A n \in DOMAIN composed' : ComposedFits(n)'
    BY <2>1, <2>3 DEF CameraOK
  <2> QED  BY <2>1, <2>4 DEF CameraOK
<1> QED  BY <1>1, <1>2

LEMMA CameraComesBack == ASSUME CameraOK PROVE ConfigurationsComeBack
<1> SUFFICES ASSUME NEW n \in DOMAIN composed, NEW k \in DOMAIN composed[n],
                    composed[n][k].whole
             PROVE  Camera!Decode(Camera!Classes[n], composed[n][k].bytes)
                      = composed[n][k].contents
  BY Zenon DEF ConfigurationsComeBack, Camera!ConfigurationsComeBack
<1>1. ComposedFits(n)
  BY DEF CameraOK
<1>2. k \in Camera!Copies
  <2> DEFINE s == composed[n]
             K == Camera!Copies
  <2>1. s = [j \in K |-> s[j]]
    BY <1>1 DEF ComposedFits
  <2>2. k \in DOMAIN s
    OBVIOUS
  <2> HIDE DEF s, K
  <2>3. k \in K
    BY <2>1, <2>2
  <2> QED  BY <2>3 DEF K
<1>3. MessageFits(n, composed[n][k])
  BY <1>1, <1>2 DEF ComposedFits
<1> QED  BY <1>3 DEF MessageFits

(* The configurations, commands and events of cameras come back from their   *)
(* encoding: of any length of texts and keys, with any number of items in    *)
(* their lists, however deep a value is that is cut into fragments and       *)
(* whichever of the optional fields are there (hksv.py:176, :208;            *)
(* hksv_recording.py:107).                                                   *)
THEOREM CameraMessagesComeBack ==
  ASSUME Camera!Parameters
  PROVE  Camera!Spec => []ConfigurationsComeBack
<1>1. Camera!Init => CameraOK
  BY CameraInit
<1>2. CameraOK /\ [Camera!Next]_<<name, how, due, composed>> => CameraOK'
  BY CameraStep
<1>3. CameraOK => ConfigurationsComeBack
  BY CameraComesBack
<1> QED  BY <1>1, <1>2, <1>3, PTL DEF Camera!Spec, Camera!vars
=============================================================================
