------------------------- MODULE Advertisements_proofs -------------------------
(***************************************************************************)
(* For any keys, streams, ring of counters and number of packets that      *)
(* linger: a restart finds what the receiver knew, and an old packet tells *)
(* it nothing.  For any table of objects and any bytes: what one side      *)
(* writes is what the other reads.                                         *)
(***************************************************************************)
EXTENDS Advertisements, FiniteSetTheorems, SequenceTheorems, WellFoundedInduction, TLAPS

----------------------------------------------------------------------------
\* The bytes: induction, for a set in place of a predicate, and sequences
\* joined one after the other.

\* Induction over the naturals, for a set in place of a predicate.
LEMMA Upward ==
  ASSUME NEW S, 0 \in S, \A n \in Nat : n \in S => n + 1 \in S
  PROVE  \A n \in Nat : n \in S
<1> SUFFICES ASSUME Nat \ S # {} PROVE FALSE
  OBVIOUS
<1>1. PICK x \in Nat \ S : \A y \in Nat \ S : ~(<<y, x>> \in OpToRel(<, Nat))
  <2>1. IsWellFoundedOn(OpToRel(<, Nat), Nat)
    BY NatLessThanWellFounded
  <2> QED
    BY <2>1, WFMin
<1>2. x # 0
  OBVIOUS
<1>3. x - 1 \in Nat /\ x - 1 < x
  BY <1>2
<1>4. <<x - 1, x>> \in OpToRel(<, Nat)
  BY <1>3 DEF OpToRel
<1>5. x - 1 \in S
  BY <1>1, <1>3, <1>4
<1>6. (x - 1) + 1 \in S
  BY <1>3, <1>5
<1> QED
  BY <1>6

\* The same from the end of a sequence to its beginning.
LEMMA Downward ==
  ASSUME NEW N \in Nat, NEW S, N + 1 \in S, \A k \in 1..N : k + 1 \in S => k \in S
  PROVE  \A k \in 1..(N + 1) : k \in S
<1> DEFINE T == {d \in Nat : d <= N => N + 1 - d \in S}
<1>1. 0 \in T
  OBVIOUS
<1>2. ASSUME NEW d \in Nat, d \in T PROVE d + 1 \in T
  <2> SUFFICES ASSUME d + 1 <= N PROVE N + 1 - (d + 1) \in S
    OBVIOUS
  <2> DEFINE k == N + 1 - (d + 1)
  <2>1. k \in 1..N /\ k + 1 = N + 1 - d
    OBVIOUS
  <2>2. k + 1 \in S
    BY <1>2, <2>1
  <2> QED
    BY <2>1, <2>2
<1> HIDE DEF T
<1>3. \A d \in Nat : d \in T
  BY <1>1, <1>2, Upward
<1> TAKE k \in 1..(N + 1)
<1>4. N + 1 - k \in T /\ N + 1 - k \in Nat /\ N + 1 - k <= N /\ N + 1 - (N + 1 - k) = k
  BY <1>3
<1> QED
  BY <1>4 DEF T

\* Two sequences joined.
LEMMA Joined ==
  ASSUME NEW S, NEW a \in Seq(S), NEW b \in Seq(S), NEW c, c = a \o b
  PROVE  /\ c \in Seq(S) /\ Len(a) \in Nat /\ Len(b) \in Nat /\ Len(c) = Len(a) + Len(b)
         /\ \A i \in 1..Len(a) : c[i] = a[i] /\ i \in 1..Len(c)
         /\ \A i \in 1..Len(b) : c[Len(a) + i] = b[i] /\ Len(a) + i \in 1..Len(c)
<1>1. c \in Seq(S) /\ Len(c) = Len(a) + Len(b) /\ Len(a) \in Nat /\ Len(b) \in Nat
  BY ConcatProperties, LenProperties
<1>2. \A i \in 1..(Len(a) + Len(b)) : c[i] = IF i <= Len(a) THEN a[i] ELSE b[i - Len(a)]
  BY ConcatProperties
<1>3. ASSUME NEW i \in 1..Len(a) PROVE c[i] = a[i] /\ i \in 1..Len(c)
  <2>1. i \in 1..(Len(a) + Len(b)) /\ i <= Len(a)
    BY <1>1
  <2> QED
    BY <1>1, <1>2, <2>1
<1>4. ASSUME NEW i \in 1..Len(b) PROVE c[Len(a) + i] = b[i] /\ Len(a) + i \in 1..Len(c)
  <2>1. Len(a) + i \in 1..(Len(a) + Len(b)) /\ ~(Len(a) + i <= Len(a)) /\ (Len(a) + i) - Len(a) = i
    BY <1>1
  <2> QED
    BY <1>1, <1>2, <2>1
<1> QED
  BY <1>1, <1>3, <1>4

----------------------------------------------------------------------------
\* Sequences joined: flatten[i] is what the first i of them make.
Flat(seqs, f) == [i \in 1..Len(seqs) |-> IF i = 1 THEN seqs[i] ELSE f[i - 1] \o seqs[i]]

\* Nothing joined is nothing.
LEMMA FlattenEmpty == FlattenSeq(<<>>) = <<>>
BY DEF FlattenSeq

\* FlattenSeq is what its recursive function is at the last sequence, once
\* there is such a function.
LEMMA FlattenUnfolds ==
  ASSUME NEW seqs, NEW g, g = Flat(seqs, g), Len(seqs) # 0
  PROVE  \E f : f = Flat(seqs, f) /\ FlattenSeq(seqs) = f[Len(seqs)]
BY DEF FlattenSeq, Flat

\* The beginnings of what some sequences make, one for each number of them.
Beginnings(S, seqs, pre) ==
  /\ pre \in [0..Len(seqs) -> Seq(S)]
  /\ pre[0] = <<>> /\ pre[Len(seqs)] = FlattenSeq(seqs)
  /\ \A i \in 1..Len(seqs) : pre[i] = pre[i - 1] \o seqs[i]

\* There is one: it is built up from the first sequence.
LEMMA FlattenIsDefined ==
  ASSUME NEW S, NEW seqs \in Seq(Seq(S))
  PROVE  \E g : g = Flat(seqs, g)
<1> DEFINE N == Len(seqs)
           At(g, i) == IF i = 1 THEN seqs[i] ELSE g[i - 1] \o seqs[i]
           T == {n \in Nat : \E g : \A i \in 1..n : g[i] = At(g, i)}
<1>1. 0 \in T
  OBVIOUS
<1>2. ASSUME NEW n \in Nat, n \in T PROVE n + 1 \in T
  <2>1. PICK g : \A i \in 1..n : g[i] = At(g, i)
    BY <1>2
  <2> DEFINE h == [i \in 1..(n + 1) |-> IF i = n + 1 THEN At(g, i) ELSE g[i]]
  <2>2. ASSUME NEW i \in 1..(n + 1) PROVE h[i] = At(h, i)
    <3>1. i # 1 => i - 1 \in 1..n /\ i - 1 # n + 1
      OBVIOUS
    <3>2. i # 1 => h[i - 1] = g[i - 1]
      BY <3>1
    <3>3. h[i] = At(g, i)
      BY <2>1
    <3> QED
      BY <3>2, <3>3
  <2> HIDE DEF h, At
  <2> QED
    BY <2>2
<1>3. N \in Nat
  BY LenProperties
<1>4. N \in T
  <2> HIDE DEF T, N
  <2> QED
    BY <1>1, <1>2, <1>3, Upward
<1>5. PICK g : \A i \in 1..N : g[i] = At(g, i)
  BY <1>4
<1> DEFINE f == [i \in 1..N |-> g[i]]
<1>6. ASSUME NEW i \in 1..N PROVE f[i] = At(f, i)
  <2>1. i # 1 => i - 1 \in 1..N
    BY <1>3
  <2> QED
    BY <1>5, <2>1
<1>7. f = Flat(seqs, f)
  <2>1. f = [i \in 1..N |-> At(f, i)]
    <3> HIDE DEF At
    <3> QED
      BY <1>6
  <2> QED
    BY <2>1 DEF Flat
<1> QED
  BY <1>7

\* What is joined has a beginning for each number of sequences.
LEMMA FlattenHasBeginnings ==
  ASSUME NEW S, NEW seqs \in Seq(Seq(S))
  PROVE  \E pre : Beginnings(S, seqs, pre)
<1> DEFINE N == Len(seqs)
<1>1. N \in Nat /\ \A i \in 1..N : seqs[i] \in Seq(S)
  BY LenProperties, ElementOfSeq
<1>2. CASE N = 0
  <2> DEFINE pre == [i \in 0..0 |-> <<>>]
  <2>1. seqs = <<>>
    BY <1>2, EmptySeq
  <2>2. pre \in [0..N -> Seq(S)] /\ pre[0] = <<>>
    BY <1>2, EmptySeq
  <2>3. pre[Len(seqs)] = FlattenSeq(seqs)
    BY <1>2, <2>1, <2>2, FlattenEmpty
  <2>4. \A i \in 1..N : pre[i] = pre[i - 1] \o seqs[i]
    BY <1>2
  <2> HIDE DEF pre
  <2>5. Beginnings(S, seqs, pre)
    BY <2>2, <2>3, <2>4 DEF Beginnings
  <2> QED
    BY <2>5
<1>3. CASE N # 0
  <2>1. PICK f : f = Flat(seqs, f) /\ FlattenSeq(seqs) = f[N]
    BY <1>3, FlattenIsDefined, FlattenUnfolds
  <2>2. \A i \in 1..N : f[i] = IF i = 1 THEN seqs[i] ELSE f[i - 1] \o seqs[i]
    BY <2>1 DEF Flat
  <2> DEFINE pre == [i \in 0..N |-> IF i = 0 THEN <<>> ELSE f[i]]
  <2>3. ASSUME NEW i \in 1..N PROVE pre[i] = pre[i - 1] \o seqs[i]
    <3>1. i \in 0..N /\ i - 1 \in 0..N /\ i # 0
      BY <1>1
    <3>2. CASE i = 1
      <4>1. pre[i - 1] = <<>> /\ pre[i] = seqs[i]
        BY <2>2, <3>1, <3>2
      <4> QED
        BY <1>1, <4>1, ConcatEmptySeq
    <3>3. CASE i # 1
      <4>1. pre[i - 1] = f[i - 1] /\ pre[i] = f[i]
        BY <3>1, <3>3
      <4> QED
        BY <2>2, <3>3, <4>1
    <3> QED
      BY <3>2, <3>3
  <2>4. pre[0] = <<>> /\ pre[N] = FlattenSeq(seqs) /\ DOMAIN pre = 0..N
    BY <1>1, <1>3, <2>1
  <2>5. pre = [i \in 0..N |-> pre[i]]
    OBVIOUS
  <2> HIDE DEF pre
  <2> DEFINE T == {i \in Nat : i <= N => pre[i] \in Seq(S)}
  <2>6. 0 \in T
    BY <2>4, EmptySeq
  <2>7. ASSUME NEW i \in Nat, i \in T PROVE i + 1 \in T
    <3> SUFFICES ASSUME i + 1 <= N PROVE pre[i + 1] \in Seq(S)
      OBVIOUS
    <3>1. i + 1 \in 1..N /\ (i + 1) - 1 = i /\ pre[i] \in Seq(S)
      BY <1>1, <2>7
    <3>2. pre[i + 1] = pre[i] \o seqs[i + 1]
      BY <2>3, <3>1
    <3> QED
      BY <1>1, <3>1, <3>2, ConcatProperties
  <2> HIDE DEF T
  <2>8. \A i \in Nat : i \in T
    BY <2>6, <2>7, Upward
  <2>9. \A i \in 0..N : pre[i] \in Seq(S)
    BY <1>1, <2>8 DEF T
  <2>10. pre \in [0..N -> Seq(S)]
    BY <2>5, <2>9
  <2> QED
    BY <2>3, <2>4, <2>10 DEF Beginnings
<1> QED
  BY <1>2, <1>3

\* A beginning begins what all of them make.
LEMMA BeginningsBegin ==
  ASSUME NEW S, NEW seqs \in Seq(Seq(S)), NEW pre, Beginnings(S, seqs, pre),
         NEW i \in 0..Len(seqs)
  PROVE  /\ Len(pre[i]) <= Len(FlattenSeq(seqs))
         /\ \A j \in 1..Len(pre[i]) : FlattenSeq(seqs)[j] = pre[i][j]
<1> DEFINE N == Len(seqs)
           flat == FlattenSeq(seqs)
           Begins(k) == Len(pre[k]) <= Len(flat) /\ \A j \in 1..Len(pre[k]) : flat[j] = pre[k][j]
           T == {k \in 1..(N + 1) : Begins(k - 1)}
<1>1. N \in Nat /\ \A k \in 1..N : seqs[k] \in Seq(S)
  BY LenProperties, ElementOfSeq
<1>2. \A k \in 0..N : pre[k] \in Seq(S) /\ Len(pre[k]) \in Nat
  BY LenProperties DEF Beginnings
<1>3. pre[N] = flat
  BY DEF Beginnings
<1>4. N + 1 \in T
  <2>1. N \in 0..N /\ (N + 1) - 1 = N /\ N + 1 \in 1..(N + 1)
    BY <1>1
  <2>2. Begins(N)
    BY <1>2, <1>3, <2>1
  <2> HIDE DEF Begins
  <2> QED
    BY <2>1, <2>2
<1>5. ASSUME NEW k \in 1..N, k + 1 \in T PROVE k \in T
  <2>1. (k + 1) - 1 = k /\ k \in 0..N /\ k - 1 \in 0..N /\ k \in 1..(N + 1)
    BY <1>1
  <2>2. Begins(k)
    BY <1>5, <2>1
  <2>3. pre[k] = pre[k - 1] \o seqs[k]
    BY DEF Beginnings
  <2>4. PICK a, b, c : a = pre[k - 1] /\ b = seqs[k] /\ c = pre[k]
    OBVIOUS
  <2>5. a \in Seq(S) /\ b \in Seq(S) /\ c = a \o b
    BY <1>1, <1>2, <2>1, <2>3, <2>4
  <2>6. /\ Len(a) \in Nat /\ Len(b) \in Nat /\ Len(c) = Len(a) + Len(b)
        /\ \A j \in 1..Len(a) : c[j] = a[j] /\ j \in 1..Len(c)
    BY <2>5, Joined
  <2>7. Len(flat) \in Nat
    <3>1. N \in 0..N
      BY <1>1
    <3> QED
      BY <1>2, <1>3, <3>1
  <2>8. Len(c) <= Len(flat) /\ \A j \in 1..Len(c) : flat[j] = c[j]
    BY <2>2, <2>4
  <2> HIDE DEF flat
  <2>9. Len(a) <= Len(flat) /\ \A j \in 1..Len(a) : flat[j] = a[j]
    BY <2>6, <2>7, <2>8
  <2>10. Begins(k - 1)
    BY <2>4, <2>9
  <2> HIDE DEF Begins
  <2> QED
    BY <2>1, <2>10
<1>6. i + 1 \in 1..(N + 1) /\ (i + 1) - 1 = i
  BY <1>1
<1> HIDE DEF T
<1>7. i + 1 \in T
  BY <1>1, <1>4, <1>5, <1>6, Downward
<1> QED
  BY <1>6, <1>7 DEF T

\* Where each of the sequences is in what they make.
Placed(seqs, pre, k, s, e, m) ==
  /\ s = Len(pre[k - 1]) /\ e = Len(pre[k]) /\ m = Len(seqs[k])
  /\ e = s + m /\ e <= Len(FlattenSeq(seqs))
  /\ \A j \in 1..m : FlattenSeq(seqs)[s + j] = seqs[k][j]

\* Where each of the sequences stands in what is joined.
LEMMA FlattenPlaces ==
  ASSUME NEW S, NEW seqs \in Seq(Seq(S)), NEW pre, Beginnings(S, seqs, pre),
         NEW k \in 1..Len(seqs)
  PROVE  seqs[k] \in Seq(S) /\ \E s, e, m \in Nat : Placed(seqs, pre, k, s, e, m)
<1>1. Len(seqs) \in Nat /\ k \in 0..Len(seqs) /\ k - 1 \in 0..Len(seqs) /\ seqs[k] \in Seq(S)
  BY LenProperties, ElementOfSeq
<1>2. pre[k - 1] \in Seq(S) /\ pre[k] = pre[k - 1] \o seqs[k]
  BY <1>1 DEF Beginnings
<1>3. PICK a, b, c : a = pre[k - 1] /\ b = seqs[k] /\ c = pre[k]
  OBVIOUS
<1>4. a \in Seq(S) /\ b \in Seq(S) /\ c = a \o b
  BY <1>1, <1>2, <1>3
<1>5. PICK s, e, m \in Nat : s = Len(a) /\ e = Len(c) /\ m = Len(b)
  BY <1>4, Joined, LenProperties
<1>6. e = s + m /\ \A j \in 1..m : c[s + j] = b[j] /\ s + j \in 1..e
  BY <1>4, <1>5, Joined
<1>7. e <= Len(FlattenSeq(seqs)) /\ \A j \in 1..e : FlattenSeq(seqs)[j] = c[j]
  BY <1>1, <1>3, <1>5, BeginningsBegin
<1>8. \A j \in 1..m : FlattenSeq(seqs)[s + j] = b[j]
  BY <1>6, <1>7
<1>9. Placed(seqs, pre, k, s, e, m)
  BY <1>3, <1>5, <1>6, <1>7, <1>8 DEF Placed
<1> QED
  BY <1>1, <1>9

\* Sequences over a set make a sequence over it.
LEMMA FlattenIsASeq ==
  ASSUME NEW S, NEW seqs \in Seq(Seq(S))
  PROVE  FlattenSeq(seqs) \in Seq(S) /\ Len(FlattenSeq(seqs)) \in Nat
<1>1. PICK pre : Beginnings(S, seqs, pre)
  BY FlattenHasBeginnings
<1>2. Len(seqs) \in 0..Len(seqs)
  BY LenProperties
<1>3. FlattenSeq(seqs) \in Seq(S)
  BY <1>1, <1>2 DEF Beginnings
<1> QED
  BY <1>3, LenProperties

----------------------------------------------------------------------------
\* Objects.

Bytes == 0..255

\* What a sequence of bytes is made of.
LEMMA BytesOf ==
  ASSUME NEW p \in Seq(Bytes)
  PROVE  Len(p) \in Nat /\ \A i \in 1..Len(p) : p[i] \in 0..255
BY LenProperties, ElementOfSeq DEF Bytes

\* A length byte and a command byte announce at least one byte.
LEMMA LengthsArePositive ==
  \A n \in 0..255 : 1 + n \in Nat \ {0} /\ 2 + (n % 32) \in Nat \ {0}
OBVIOUS

\* What follows an object ID has a length.
LEMMA ValuesHaveALength ==
  ASSUME NEW p \in Seq(Bytes), NEW o \in 1..Len(p), p[o] \in DOMAIN MeasTypes, ~HasNoLength(p, o)
  PROVE  ValueLength(p, o) \in Nat \ {0}
<1>1. Len(p) \in Nat /\ \A i \in 1..Len(p) : p[i] \in 0..255
  BY BytesOf
<1>2. MeasTypes[p[o]].format \in LengthPrefixed \cup {"command", "unsigned", "signed"}
  BY MeasTypesAssumption
<1>3. MeasTypes[p[o]].length \in Nat \ {0}
  BY MeasTypesAssumption
<1>4. CASE MeasTypes[p[o]].format \in LengthPrefixed
  <2>1. o + 1 \in 1..Len(p)
    BY <1>1, <1>4 DEF HasNoLength
  <2>2. p[o + 1] \in 0..255
    BY <1>1, <2>1
  <2>3. PICK n \in 0..255 : n = p[o + 1]
    BY <2>2
  <2>4. ValueLength(p, o) = 1 + n
    BY <1>4, <2>3 DEF ValueLength, LengthPrefixed
  <2> QED
    BY <2>4, LengthsArePositive
<1>5. CASE MeasTypes[p[o]].format = "command"
  <2>1. o + 1 \in 1..Len(p)
    BY <1>1, <1>5 DEF HasNoLength
  <2>2. p[o + 1] \in 0..255
    BY <1>1, <2>1
  <2>3. PICK n \in 0..255 : n = p[o + 1]
    BY <2>2
  <2>4. ValueLength(p, o) = 2 + (n % 32)
    BY <1>5, <2>3 DEF ValueLength, LengthPrefixed
  <2> QED
    BY <2>4, LengthsArePositive
<1>6. CASE MeasTypes[p[o]].format \in {"unsigned", "signed"}
  <2>1. ValueLength(p, o) = MeasTypes[p[o]].length
    BY <1>6 DEF ValueLength, LengthPrefixed
  <2> QED
    BY <1>3, <2>1
<1> QED
  BY <1>2, <1>4, <1>5, <1>6

\* An object ID in front of some bytes, and taken off again.
LEMMA InFront ==
  ASSUME NEW S, NEW x \in S, NEW s \in Seq(S)
  PROVE  /\ <<x>> \o s \in Seq(S) /\ <<x>> \o s # <<>>
         /\ Len(<<x>> \o s) = 1 + Len(s) /\ Len(s) \in Nat
         /\ (<<x>> \o s)[1] = x
         /\ \A i \in 1..Len(s) : (<<x>> \o s)[1 + i] = s[i]
         /\ Tail(<<x>> \o s) = s
<1> DEFINE c == <<x>> \o s
<1>1. <<x>> \in Seq(S) /\ Len(<<x>>) = 1 /\ <<x>>[1] = x
  OBVIOUS
<1>2. /\ c \in Seq(S) /\ Len(s) \in Nat /\ Len(c) = Len(<<x>>) + Len(s)
      /\ \A i \in 1..Len(<<x>>) : c[i] = <<x>>[i] /\ i \in 1..Len(c)
      /\ \A i \in 1..Len(s) : c[Len(<<x>>) + i] = s[i] /\ Len(<<x>>) + i \in 1..Len(c)
  BY <1>1, Joined
<1>3. Len(c) = 1 + Len(s) /\ c[1] = x /\ \A i \in 1..Len(s) : c[1 + i] = s[i]
  BY <1>1, <1>2
<1>4. c # <<>>
  BY <1>2, <1>3
<1>5. Tail(c) = s
  <2> HIDE DEF c
  <2>1. /\ Tail(c) \in Seq(S) /\ Len(Tail(c)) = Len(c) - 1
        /\ \A i \in 1..Len(Tail(c)) : Tail(c)[i] = c[i + 1]
    BY <1>2, <1>4, HeadTailProperties
  <2>2. Len(Tail(c)) = Len(s)
    BY <1>2, <1>3, <2>1
  <2>3. ASSUME NEW i \in 1..Len(Tail(c)) PROVE Tail(c)[i] = s[i]
    <3>1. i + 1 = 1 + i
      OBVIOUS
    <3> QED
      BY <1>3, <2>1, <2>2, <3>1
  <2> QED
    BY <2>1, <2>2, <2>3, SeqEqual
<1> QED
  BY <1>2, <1>3, <1>4, <1>5

\* A sequence is its first element and what follows.
LEMMA FrontIsSplit ==
  ASSUME NEW S, NEW s \in Seq(S), s # <<>>
  PROVE  s = <<s[1]>> \o Tail(s) /\ Len(s) \in Nat \ {0} /\ Len(Tail(s)) = Len(s) - 1
<1>1. Len(s) \in Nat \ {0} /\ 1 \in 1..Len(s) /\ Len(s) \in 1..Len(s)
  BY EmptySeq
<1>2. SubSeq(s, 1, Len(s)) = <<s[1]>> \o SubSeq(s, 1 + 1, Len(s))
  BY <1>1, SubSeqRecursiveFirst
<1>3. SubSeq(s, 1, Len(s)) = s /\ Tail(s) = SubSeq(s, 2, Len(s))
  BY SubSeqFull, TailIsSubSeq
<1> QED
  BY <1>1, <1>2, <1>3, HeadTailProperties

\* For any table, object and bytes: decode_object takes what parseWrite takes,
\* calls another object what parseWrite calls a mismatch, and what it takes is
\* what encode_object makes of the value (protocol.py, BTHomeWritable.js).
THEOREM ParsersAgreeOnBytes ==
  ASSUME NEW id \in DOMAIN MeasTypes, NEW p \in Seq(Bytes)
  PROVE  /\ (DecodeObject(id, p).is = "value") = (ParseWrite(p, id) = "taken")
         /\ (DecodeObject(id, p).is = "stale") = (ParseWrite(p, id) = "objectid_mismatch")
         /\ DecodeObject(id, p).is = "value" => p = EncodeObject(id, DecodeObject(id, p).value)
<1> DEFINE read == DecodeObject(id, p)
<1>1. CASE p = <<>>
  <2>1. read.is = "broken" /\ ParseWrite(p, id) = "truncated"
    BY <1>1 DEF DecodeObject, ParseWrite, Refused
  <2> QED
    BY <2>1
<1>2. CASE p # <<>> /\ p[1] # id
  <2>1. read.is = "stale" /\ ParseWrite(p, id) = "objectid_mismatch"
    BY <1>2 DEF DecodeObject, ParseWrite, Refused
  <2> QED
    BY <2>1
<1>3. CASE p # <<>> /\ p[1] = id /\ HasNoLength(p, 1)
  <2>1. read.is = "broken" /\ ParseWrite(p, id) = "truncated"
    BY <1>3 DEF DecodeObject, ParseWrite, Refused
  <2> QED
    BY <2>1
<1>4. CASE p # <<>> /\ p[1] = id /\ ~HasNoLength(p, 1)
  <2>1. p = <<id>> \o Tail(p) /\ Len(p) \in Nat \ {0}
    BY <1>4, FrontIsSplit
  <2>2. 1 \in 1..Len(p)
    BY <2>1
  <2>3. ValueLength(p, 1) \in Nat \ {0}
    BY <1>4, <2>2, ValuesHaveALength
  <2>4. read = IF Len(p) # 1 + ValueLength(p, 1) THEN Refused("broken")
               ELSE [is |-> "value", value |-> Tail(p)]
    BY <1>4 DEF DecodeObject
  <2>5. ParseWrite(p, id) = IF Len(p) < 1 + ValueLength(p, 1) THEN "truncated"
                            ELSE IF Len(p) > 1 + ValueLength(p, 1) THEN "trailing_bytes"
                            ELSE "taken"
    BY <1>4 DEF ParseWrite
  <2>6. CASE Len(p) = 1 + ValueLength(p, 1)
    <3>1. read = [is |-> "value", value |-> Tail(p)] /\ ParseWrite(p, id) = "taken"
      BY <2>1, <2>3, <2>4, <2>5, <2>6
    <3> QED
      BY <2>1, <3>1 DEF EncodeObject
  <2>7. CASE Len(p) # 1 + ValueLength(p, 1)
    <3>1. read.is = "broken"
      BY <2>4, <2>7 DEF Refused
    <3>2. ParseWrite(p, id) \in {"truncated", "trailing_bytes"}
      BY <2>1, <2>3, <2>5, <2>7
    <3> QED
      BY <3>1, <3>2
  <2> QED
    BY <2>6, <2>7
<1> QED
  BY <1>1, <1>2, <1>3, <1>4

\* A value as long as its object says travels, for any object.
LEMMA AnObjectTravels ==
  ASSUME NEW id \in DOMAIN MeasTypes, NEW value \in Seq(Bytes),
         ~HasNoLength(EncodeObject(id, value), 1),
         Len(value) = ValueLength(EncodeObject(id, value), 1)
  PROVE  Travels(id, value)
<1> DEFINE p == EncodeObject(id, value)
<1>1. id \in Bytes
  BY MeasTypesAssumption DEF Bytes
<1>2. /\ p \in Seq(Bytes) /\ p # <<>> /\ p[1] = id
      /\ Len(p) = 1 + Len(value) /\ Len(value) \in Nat /\ Tail(p) = value
  BY <1>1, InFront DEF EncodeObject
<1>3. 1 \in 1..Len(p)
  BY <1>2
<1>4. Len(p) = 1 + ValueLength(p, 1) /\ ~HasNoLength(p, 1)
  BY <1>2
<1> HIDE DEF p
<1>5. ValueLength(p, 1) \in Nat \ {0}
  BY <1>2, <1>3, <1>4, ValuesHaveALength
<1>6. DecodeObject(id, p) = [is |-> "value", value |-> value]
  BY <1>2, <1>4 DEF DecodeObject
<1>7. ParseWrite(p, id) = "taken"
  BY <1>2, <1>4, <1>5 DEF ParseWrite
<1> QED
  BY <1>6, <1>7 DEF Travels, p

\* An object of a fixed length.
Fixed(id) == id \in DOMAIN MeasTypes /\ MeasTypes[id].format \in {"unsigned", "signed"}

\* The table says how long such an object is, whatever it carries.
LEMMA FixedObjects ==
  ASSUME NEW id, Fixed(id), NEW p, NEW o, p[o] = id
  PROVE  ~HasNoLength(p, o) /\ ValueLength(p, o) = MeasTypes[id].length
BY DEF Fixed, HasNoLength, ValueLength, LengthPrefixed

\* A value of the width the table has is read and written as it is.
LEMMA FixedTravels ==
  ASSUME NEW id, Fixed(id), NEW value \in Seq(Bytes), Len(value) = MeasTypes[id].length
  PROVE  Travels(id, value)
<1>1. id \in DOMAIN MeasTypes /\ id \in Bytes
  BY MeasTypesAssumption DEF Bytes, Fixed
<1>2. EncodeObject(id, value)[1] = id
  BY <1>1, InFront DEF EncodeObject
<1> QED
  BY <1>1, <1>2, FixedObjects, AnObjectTravels

\* The object of a light.
LEMMA TheLightIsAByte == Fixed(30) /\ MeasTypes[30].length = 1
BY TableAssumption DEF Fixed

\* What the bench sends to a light is refused for the reason it names, and the
\* light stays as it is.
LEMMA TheMatrixHolds == \A held : MatrixFailures(held) = {}
<1> TAKE held
<1> SUFFICES ASSUME NEW case \in RejectCases
             PROVE  ParseWrite(case[1], 30) = case[2] /\ HeldAfter(case[1], 30, held) = held
  BY DEF MatrixFailures
<1>1. ParseWrite(case[1], 30) = case[2] /\ case[2] # "taken"
  <2>1. CASE case = <<<<31, 1>>, "objectid_mismatch">>
    <3>1. <<31, 1>> # <<>> /\ <<31, 1>>[1] # 30
      OBVIOUS
    <3> QED
      BY <2>1, <3>1 DEF ParseWrite
  <2>2. CASE case = <<<<30>>, "truncated">>
    <3>1. <<30>> # <<>> /\ <<30>>[1] = 30 /\ Len(<<30>>) = 1
      OBVIOUS
    <3>2. ValueLength(<<30>>, 1) = 1
      BY <3>1, TheLightIsAByte, FixedObjects
    <3> QED
      BY <2>2, <3>1, <3>2 DEF ParseWrite
  <2>3. CASE case = <<<<>>, "truncated">>
    BY <2>3 DEF ParseWrite
  <2>4. CASE case = <<<<30, 1, 255, 2>>, "trailing_bytes">>
    <3> DEFINE p == <<30, 1, 255, 2>>
    <3>1. p # <<>> /\ p[1] = 30 /\ Len(p) = 4
      OBVIOUS
    <3>2. ValueLength(p, 1) = 1 /\ ~HasNoLength(p, 1)
      BY <3>1, TheLightIsAByte, FixedObjects
    <3>3. ParseWrite(p, 30) = "trailing_bytes"
      <4> HIDE DEF p
      <4> QED
        BY <3>1, <3>2 DEF ParseWrite
    <3> QED
      BY <2>4, <3>3
  <2> QED
    BY <2>1, <2>2, <2>3, <2>4 DEF RejectCases
<1> QED
  BY <1>1 DEF HeldAfter

\* The payloads TLC tries are bytes.
LEMMA PayloadsAreBytes ==
  ASSUME NEW p \in Payloads
  PROVE  p \in Seq(Bytes)
<1>1. PICK n \in 0..4 : p \in [1..n -> Alphabet]
  BY DEF Payloads
<1>2. \A i \in 1..n : p[i] \in Bytes
  BY <1>1, BytesAssumption DEF Bytes
<1>3. p \in [1..n -> Bytes] /\ n \in Nat
  BY <1>1, <1>2
<1> QED
  BY <1>3, SeqDef

\* What a run checks for the payloads it tries.
LEMMA TheParsersAgree == ParsersAgree
<1>1. ASSUME NEW id \in Writable, NEW p \in Payloads
      PROVE  LET read == DecodeObject(id, p) IN
             /\ (read.is = "value") = (ParseWrite(p, id) = "taken")
             /\ (read.is = "stale") = (ParseWrite(p, id) = "objectid_mismatch")
             /\ read.is = "value" => p = EncodeObject(id, read.value)
  <2>1. id \in DOMAIN MeasTypes
    BY DEF Writable
  <2> QED
    BY <2>1, PayloadsAreBytes, ParsersAgreeOnBytes
<1> QED
  BY <1>1, TheMatrixHolds DEF ParsersAgree

\* BothSidesParseAlike: the two parsers, written apart, agree on what a run tries.
THEOREM ReadsAndWritesAreParsedAlike == Spec => []BothSidesParseAlike
<1>1. BothSidesParseAlike
  BY TheParsersAgree DEF BothSidesParseAlike
<1> QED
  BY <1>1, PTL

----------------------------------------------------------------------------
\* The walk over a packet.  What it finds at a place depends on what it finds
\* further on.

WalkedAt(p, from, o) ==
  IF o > Len(p) THEN Found(<<>>, 0)
  ELSE IF p[o] = DeclarationId THEN Found(<<>>, o)
  ELSE IF p[o] \notin DOMAIN MeasTypes THEN Found(<<>>, 0)
  ELSE IF HasNoLength(p, o) \/ o + ValueLength(p, o) > Len(p)
  THEN Malformed
  ELSE LET end == o + ValueLength(p, o)
           rest == from[end + 1]
       IN IF rest.ok
          THEN Found(<<SubSeq(p, o, end)>> \o rest.objects, rest.at)
          ELSE Malformed

Walked(p, from) == [o \in 1..(Len(p) + 1) |-> WalkedAt(p, from, o)]

\* Two walks that agree further on agree here.
LEMMA WalkLooksAhead ==
  ASSUME NEW p \in Seq(Bytes), NEW o \in 1..(Len(p) + 1), NEW g, NEW h,
         \A i \in (o + 1)..(Len(p) + 1) : g[i] = h[i]
  PROVE  WalkedAt(p, g, o) = WalkedAt(p, h, o)
<1>1. Len(p) \in Nat
  BY BytesOf
<1>2. CASE \/ o > Len(p) \/ p[o] = DeclarationId \/ p[o] \notin DOMAIN MeasTypes
           \/ HasNoLength(p, o) \/ o + ValueLength(p, o) > Len(p)
  BY <1>2 DEF WalkedAt
<1>3. CASE ~(\/ o > Len(p) \/ p[o] = DeclarationId \/ p[o] \notin DOMAIN MeasTypes
             \/ HasNoLength(p, o) \/ o + ValueLength(p, o) > Len(p))
  <2>1. o \in 1..Len(p) /\ p[o] \in DOMAIN MeasTypes
    BY <1>1, <1>3
  <2>2. PICK n \in Nat \ {0} : n = ValueLength(p, o)
    BY <1>3, <2>1, ValuesHaveALength
  <2>3. (o + n) + 1 \in (o + 1)..(Len(p) + 1)
    BY <1>1, <1>3, <2>1, <2>2
  <2>4. g[(o + n) + 1] = h[(o + n) + 1]
    BY <2>3
  <2> QED
    BY <1>3, <2>2, <2>4 DEF WalkedAt
<1> QED
  BY <1>2, <1>3

\* There is a walk: it is built up from the end of the packet.
LEMMA WalkIsDefined ==
  ASSUME NEW p \in Seq(Bytes)
  PROVE  \E f : f = Walked(p, f)
<1> DEFINE N == Len(p)
           T == {k \in 1..(N + 1) : \E g : \A o \in k..(N + 1) : g[o] = WalkedAt(p, g, o)}
<1>1. N \in Nat
  BY BytesOf
<1>2. N + 1 \in T
  <2> DEFINE g == [o \in (N + 1)..(N + 1) |-> Found(<<>>, 0)]
  <2>1. ASSUME NEW o \in (N + 1)..(N + 1) PROVE g[o] = WalkedAt(p, g, o)
    BY <1>1 DEF WalkedAt
  <2> HIDE DEF g
  <2> QED
    BY <1>1, <2>1
<1>3. ASSUME NEW k \in 1..N, k + 1 \in T PROVE k \in T
  <2>1. PICK g : \A o \in (k + 1)..(N + 1) : g[o] = WalkedAt(p, g, o)
    BY <1>3
  <2> DEFINE h == [o \in k..(N + 1) |-> IF o = k THEN WalkedAt(p, g, k) ELSE g[o]]
  <2>2. \A o \in (k + 1)..(N + 1) : h[o] = g[o]
    BY <1>1
  <2>3. ASSUME NEW o \in k..(N + 1) PROVE h[o] = WalkedAt(p, h, o)
    <3>1. h[o] = WalkedAt(p, g, o)
      BY <1>1, <2>1
    <3>2. o \in 1..(Len(p) + 1) /\ \A i \in (o + 1)..(Len(p) + 1) : i \in (k + 1)..(N + 1)
      BY <1>1
    <3>3. \A i \in (o + 1)..(Len(p) + 1) : g[i] = h[i]
      BY <2>2, <3>2
    <3> HIDE DEF h
    <3> QED
      BY <3>1, <3>2, <3>3, WalkLooksAhead
  <2>4. k \in 1..(N + 1)
    BY <1>1
  <2> HIDE DEF h
  <2> QED
    BY <2>3, <2>4
<1> HIDE DEF T
<1>4. 1 \in T
  <2>1. \A k \in 1..(N + 1) : k \in T
    BY <1>1, <1>2, <1>3, Downward
  <2> QED
    BY <1>1, <2>1
<1>5. PICK g : \A o \in 1..(N + 1) : g[o] = WalkedAt(p, g, o)
  BY <1>4 DEF T
<1> DEFINE f == [o \in 1..(N + 1) |-> g[o]]
<1>6. ASSUME NEW o \in 1..(N + 1) PROVE f[o] = WalkedAt(p, f, o)
  <2>1. f[o] = WalkedAt(p, g, o)
    BY <1>5
  <2>2. \A i \in (o + 1)..(Len(p) + 1) : i \in 1..(N + 1)
    BY <1>1
  <2>3. \A i \in (o + 1)..(Len(p) + 1) : g[i] = f[i]
    BY <2>2
  <2> HIDE DEF f
  <2> QED
    BY <2>1, <2>3, WalkLooksAhead
<1>7. f = [o \in 1..(N + 1) |-> f[o]]
  OBVIOUS
<1> HIDE DEF f
<1>8. f = Walked(p, f)
  BY <1>6, <1>7 DEF Walked
<1> QED
  BY <1>8

\* SplitObjects is what that walk finds at the first byte.
LEMMA WalkUnfolds ==
  ASSUME NEW p \in Seq(Bytes)
  PROVE  \E f : /\ SplitObjects(p) = f[1]
                /\ \A o \in 1..(Len(p) + 1) : f[o] = WalkedAt(p, f, o)
<1>1. PICK g : g = Walked(p, g)
  BY WalkIsDefined
<1>2. \E f : f = Walked(p, f) /\ SplitObjects(p) = f[1]
  BY <1>1 DEF SplitObjects, Walked, WalkedAt
<1>3. PICK f : f = Walked(p, f) /\ SplitObjects(p) = f[1]
  BY <1>2
<1>4. \A o \in 1..(Len(p) + 1) : f[o] = WalkedAt(p, f, o)
  BY <1>3 DEF Walked
<1> QED
  BY <1>3, <1>4

----------------------------------------------------------------------------
\* A declaration is a part of the packet it was found in.

\* The walk ends on a declaration within the packet, or on none.
LEMMA WalkStaysInside ==
  ASSUME NEW p \in Seq(Bytes)
  PROVE  SplitObjects(p).at \in 0..Len(p)
<1>1. PICK N \in Nat : N = Len(p)
  BY BytesOf
<1>2. PICK f : /\ SplitObjects(p) = f[1]
               /\ \A o \in 1..(Len(p) + 1) : f[o] = WalkedAt(p, f, o)
  BY WalkUnfolds
<1> DEFINE Ends(k) == \A o \in k..(N + 1) : f[o].at \in 0..N
           T == {k \in 1..(N + 1) : Ends(k)}
<1>3. N + 1 \in T
  <2>1. N + 1 \in 1..(Len(p) + 1) /\ N + 1 > Len(p)
    BY <1>1
  <2>2. f[N + 1] = Found(<<>>, 0)
    BY <1>2, <2>1 DEF WalkedAt
  <2>3. f[N + 1].at = 0
    BY <2>2 DEF Found
  <2> QED
    BY <2>3
<1>4. ASSUME NEW k \in 1..N, k + 1 \in T PROVE k \in T
  <2>1. \A o \in (k + 1)..(N + 1) : f[o].at \in 0..N
    BY <1>4
  <2>2. f[k] = WalkedAt(p, f, k) /\ k \in 1..Len(p)
    BY <1>1, <1>2
  <2>3. f[k].at \in 0..N
    <3>1. CASE p[k] = DeclarationId
      <4>1. f[k] = Found(<<>>, k)
        BY <1>1, <2>2, <3>1 DEF WalkedAt
      <4> QED
        BY <4>1 DEF Found
    <3>2. CASE p[k] # DeclarationId /\ p[k] \notin DOMAIN MeasTypes
      <4>1. f[k] = Found(<<>>, 0)
        BY <1>1, <2>2, <3>2 DEF WalkedAt
      <4> QED
        BY <4>1 DEF Found
    <3>3. CASE /\ p[k] # DeclarationId /\ p[k] \in DOMAIN MeasTypes
               /\ HasNoLength(p, k) \/ k + ValueLength(p, k) > Len(p)
      <4>1. f[k] = Malformed
        BY <1>1, <2>2, <3>3 DEF WalkedAt
      <4> QED
        BY <4>1 DEF Malformed
    <3>4. CASE /\ p[k] # DeclarationId /\ p[k] \in DOMAIN MeasTypes
               /\ ~(HasNoLength(p, k) \/ k + ValueLength(p, k) > Len(p))
      <4>1. PICK n \in Nat \ {0} : n = ValueLength(p, k)
        BY <2>2, <3>4, ValuesHaveALength
      <4>2. (k + n) + 1 \in (k + 1)..(N + 1)
        BY <1>1, <3>4, <4>1
      <4>3. f[(k + n) + 1].at \in 0..N
        BY <2>1, <4>2
      <4>4. f[k].at \in {f[(k + n) + 1].at, Malformed.at}
        BY <1>1, <2>2, <3>4, <4>1 DEF WalkedAt, Found
      <4> QED
        BY <4>3, <4>4 DEF Malformed
    <3> QED
      BY <3>1, <3>2, <3>3, <3>4
  <2>4. \A o \in k..(N + 1) : o = k \/ o \in (k + 1)..(N + 1)
    OBVIOUS
  <2> QED
    BY <2>1, <2>3, <2>4
<1> HIDE DEF T
<1>5. 1 \in T
  <2>1. 1 \in 1..(N + 1)
    OBVIOUS
  <2> QED
    BY <1>3, <1>4, <2>1, Downward
<1>6. f[1].at \in 0..N
  BY <1>5 DEF T
<1> QED
  BY <1>1, <1>2, <1>6

\* Declaration.stored and restore: for any bytes heard, a declaration found in
\* them consists of bytes, and a restart finds it in the entry as it was.
THEOREM WhatIsStoredIsRestored ==
  ASSUME NEW p \in Seq(Bytes), NEW d, d = ParseDeclaration(p), d.is = "declaration"
  PROVE  d.layout \in Seq(Bytes) /\ Restore(Stored(d)) = d
<1> DEFINE walk == SplitObjects(p)
           first == walk.at + 2
           last == first + p[walk.at + 1] - 1
<1>1. PICK N \in Nat : N = Len(p)
  BY BytesOf
<1>2. walk.at \in 0..N
  BY <1>1, WalkStaysInside
<1>3. /\ walk.at # 0 /\ ~(first > Len(p) + 1) /\ ~(last > Len(p))
      /\ d = Declares(SubSeq(p, first, last), RevisionIn(walk.objects))
  BY DEF ParseDeclaration, Broken, Nothing
<1> DEFINE layout == SubSeq(p, first, last)
<1>4. PICK revision : d = Declares(layout, revision)
  BY <1>3
<1>5. layout \in Seq(Bytes)
  <2>1. PICK at \in Nat : at = walk.at /\ at <= N /\ first = at + 2
    BY <1>2
  <2>2. at + 1 \in 1..N /\ walk.at + 1 = at + 1
    <3> HIDE DEF walk
    <3> QED
      BY <1>1, <1>3, <2>1
  <2>3. p[at + 1] \in 0..255
    BY <1>1, <2>2, BytesOf
  <2>4. PICK m \in Nat : m = p[at + 1]
    <3>1. \A x \in 0..255 : x \in Nat
      OBVIOUS
    <3> QED
      BY <2>3, <3>1
  <2>5. last = at + 2 + m - 1
    <3>1. first = at + 2 /\ p[walk.at + 1] = m
      BY <2>1, <2>2, <2>4
    <3> HIDE DEF first, walk
    <3> QED
      BY <3>1
  <2> HIDE DEF first, last
  <2>6. first \in Int /\ last \in Int /\ first >= 1 /\ last <= N
    BY <1>1, <1>3, <2>1, <2>5
  <2>7. \A i \in first..last : i \in 1..N
    BY <2>6
  <2>8. \A i \in first..last : p[i] \in Bytes
    BY <1>1, <2>7, BytesOf DEF Bytes
  <2> QED
    BY <2>6, <2>8, SubSeqProperties
<1> HIDE DEF layout
<1>6. d.layout = layout /\ d.revision = revision
  BY <1>4 DEF Declares
<1>7. \A i \in 1..Len(layout) : layout[i] \in 0..255
  BY <1>5, BytesOf
<1>8. Stored(d).layout = layout /\ Stored(d).settings_revision = revision
  BY <1>6 DEF Stored
<1> QED
  BY <1>4, <1>5, <1>6, <1>7, <1>8 DEF Restore

----------------------------------------------------------------------------
\* A packet of whole objects, and a declaration behind them or nothing; q is
\* what arrived of it.
Packs(objects, q) ==
  LET flat == FlattenSeq(objects) IN
  /\ \A i \in 1..Len(q) : i <= Len(flat) => q[i] = flat[i]
  /\ Len(flat) < Len(q) => q[Len(flat) + 1] = DeclarationId

Objects == {os \in Seq(Seq(Bytes)) : \A i \in 1..Len(os) : IsObject(os[i])}

\* Two objects that begin alike are of one length.
LEMMA AlikeInLength ==
  ASSUME NEW p, NEW o, NEW q, NEW u, p[o] = q[u], p[o + 1] = q[u + 1]
  PROVE  ValueLength(p, o) = ValueLength(q, u)
BY DEF ValueLength

\* Two objects of a fixed width are of one length when they begin alike.
LEMMA FixedAlike ==
  ASSUME NEW p, NEW o, NEW q, NEW u, p[o] = q[u],
         MeasTypes[p[o]].format \notin LengthPrefixed \cup {"command"}
  PROVE  ValueLength(p, o) = ValueLength(q, u)
BY DEF ValueLength

\* One step of the walk: over a whole object to the next, or into the cut.
LEMMA WalkStep ==
  ASSUME NEW objects \in Objects, NEW pre, Beginnings(Bytes, objects, pre),
         NEW q \in Seq(Bytes), Packs(objects, q),
         NEW f, \A o \in 1..(Len(q) + 1) : f[o] = WalkedAt(q, f, o),
         NEW k \in 1..Len(objects), Len(pre[k - 1]) <= Len(q)
  PROVE  LET here == f[Len(pre[k - 1]) + 1]
             next == f[Len(pre[k]) + 1]
         IN IF Len(pre[k]) <= Len(q)
            THEN here = IF next.ok THEN Found(<<objects[k]>> \o next.objects, next.at)
                        ELSE Malformed
            ELSE ~here.ok \/ here.at = 0
<1> DEFINE flat == FlattenSeq(objects)
<1>1. PICK b : b = objects[k]
  OBVIOUS
<1>2. objects \in Seq(Seq(Bytes)) /\ IsObject(b) /\ b \in Seq(Bytes)
  BY <1>1, FlattenPlaces DEF Objects
<1>3. PICK s, e, m \in Nat :
        /\ s = Len(pre[k - 1]) /\ e = Len(pre[k]) /\ m = Len(b)
        /\ e = s + m /\ e <= Len(flat)
        /\ \A j \in 1..m : flat[s + j] = b[j]
  <2>1. \E s, e, m \in Nat : Placed(objects, pre, k, s, e, m)
    BY <1>2, FlattenPlaces
  <2> QED
    BY <1>1, <2>1 DEF Placed
<1>4. PICK n, l \in Nat : n = Len(q) /\ l = Len(flat)
  BY <1>2, BytesOf, FlattenIsASeq
<1>5. s <= n /\ e <= l
  BY <1>3, <1>4
<1>6. m # 0 /\ b[1] \in DOMAIN MeasTypes /\ b[1] # DeclarationId
  <2>1. Len(b) # 0
    BY <1>2, EmptySeq DEF IsObject
  <2> QED
    BY <1>2, <1>3, <2>1, MeasTypesAssumption DEF IsObject
<1>7. PICK v \in Nat : v = ValueLength(b, 1) /\ m = 1 + v
  <2>1. Len(b) = 1 + ValueLength(b, 1) /\ ~HasNoLength(b, 1)
    BY <1>2 DEF IsObject
  <2>2. 1 \in 1..Len(b)
    BY <1>3, <1>6
  <2>3. ValueLength(b, 1) \in Nat
    BY <1>2, <1>6, <2>1, <2>2, ValuesHaveALength
  <2> QED
    BY <1>3, <2>1, <2>3
<1>8. MeasTypes[b[1]].format \in LengthPrefixed \cup {"command"} => m # 1
  BY <1>2, <1>3 DEF IsObject, HasNoLength
<1>9. \A j \in 1..m : s + j <= n => q[s + j] = b[j]
  <2> SUFFICES ASSUME NEW j \in 1..m, s + j <= n PROVE q[s + j] = b[j]
    OBVIOUS
  <2>1. s + j \in 1..n /\ s + j <= l
    BY <1>3, <1>5
  <2>2. q[s + j] = flat[s + j]
    BY <1>4, <2>1 DEF Packs
  <2> QED
    BY <1>3, <2>2
<1>10. s + 1 \in 1..(n + 1) /\ f[s + 1] = WalkedAt(q, f, s + 1)
  BY <1>4, <1>5
<1> HIDE DEF flat
<1>11. CASE s = n
  <2>1. s + 1 > n /\ ~(e <= n)
    BY <1>3, <1>6, <1>11
  <2>2. f[s + 1] = Found(<<>>, 0)
    BY <1>4, <1>10, <2>1 DEF WalkedAt
  <2>3. f[s + 1].at = 0
    BY <2>2 DEF Found
  <2> QED
    BY <1>3, <1>4, <2>1, <2>3
<1>12. CASE s # n
  <2>1. s + 1 <= n /\ ~(s + 1 > n) /\ 1 \in 1..m
    BY <1>5, <1>6, <1>12
  <2>2. q[s + 1] = b[1]
    BY <1>9, <2>1
  <2>3. CASE HasNoLength(q, s + 1)
    <3>1. f[s + 1] = Malformed
      BY <1>4, <1>6, <1>10, <2>1, <2>2, <2>3 DEF WalkedAt
    <3>2. ~f[s + 1].ok
      BY <3>1 DEF Malformed
    <3>3. s + 1 = n /\ m # 1
      BY <1>4, <1>8, <2>2, <2>3 DEF HasNoLength
    <3>4. ~(e <= n)
      BY <1>3, <1>6, <3>3
    <3> QED
      BY <1>3, <1>4, <3>2, <3>4
  <2>4. CASE ~HasNoLength(q, s + 1)
    <3>1. ValueLength(q, s + 1) = v
      <4>1. CASE MeasTypes[b[1]].format \in LengthPrefixed \cup {"command"}
        <5>1. s + 1 # n
          BY <1>4, <2>2, <2>4, <4>1 DEF HasNoLength
        <5>2. 2 \in 1..m /\ s + 2 <= n /\ (s + 1) + 1 = s + 2 /\ 1 + 1 = 2
          BY <1>6, <1>8, <2>1, <4>1, <5>1
        <5>3. q[(s + 1) + 1] = b[1 + 1]
          BY <1>9, <5>2
        <5> QED
          BY <1>7, <2>2, <5>3, AlikeInLength
      <4>2. CASE MeasTypes[b[1]].format \notin LengthPrefixed \cup {"command"}
        BY <1>7, <2>2, <4>2, FixedAlike
      <4> QED
        BY <4>1, <4>2
    <3>2. (s + 1) + v = e
      <4>1. e = s + m /\ m = 1 + v
        BY <1>3, <1>7
      <4> QED
        BY <4>1
    <3>3. CASE e <= n
      <4>1. f[s + 1] = IF f[e + 1].ok
                       THEN Found(<<SubSeq(q, s + 1, e)>> \o f[e + 1].objects, f[e + 1].at)
                       ELSE Malformed
        <5>1. ~(e > n)
          BY <3>3
        <5> QED
          BY <1>4, <1>6, <1>10, <2>1, <2>2, <2>4, <3>1, <3>2, <5>1 DEF WalkedAt
      <4>2. SubSeq(q, s + 1, e) = b
        <5>1. s + 1 \in Int /\ e \in Int /\ \A i \in (s + 1)..e : i \in 1..n
          BY <3>3
        <5>2. PICK m0 \in Int : m0 = s + 1
          BY <5>1
        <5>3. \A i \in m0..e : q[i] \in Bytes
          BY <1>4, <5>1, <5>2, ElementOfSeq
        <5>4. e = s + m
          BY <1>3
        <5>5. m0 <= e
          BY <1>6, <5>2, <5>4
        <5> DEFINE c == SubSeq(q, m0, e)
        <5>6. /\ c \in Seq(Bytes) /\ Len(c) = e - m0 + 1
              /\ \A i \in 1..(e - m0 + 1) : c[i] = q[m0 + i - 1]
          BY <5>3, <5>5, SubSeqProperties
        <5> HIDE DEF c
        <5>7. Len(c) = m
          BY <5>2, <5>4, <5>6
        <5>8. ASSUME NEW i \in 1..m PROVE c[i] = b[i]
          <6>1. i \in 1..(e - m0 + 1) /\ m0 + i - 1 = s + i /\ s + i <= n
            BY <3>3, <5>2, <5>4
          <6> QED
            BY <1>9, <5>6, <6>1
        <5>9. c = b
          BY <1>2, <1>3, <5>6, <5>7, <5>8, SeqEqual
        <5> QED
          BY <5>2, <5>9 DEF c
      <4> QED
        BY <1>1, <1>3, <1>4, <3>3, <4>1, <4>2
    <3>4. CASE ~(e <= n)
      <4>1. e > n
        BY <3>4
      <4>2. f[s + 1] = Malformed
        BY <1>4, <1>6, <1>10, <2>1, <2>2, <2>4, <3>1, <3>2, <4>1 DEF WalkedAt
      <4>3. ~f[s + 1].ok
        BY <4>2 DEF Malformed
      <4> QED
        BY <1>3, <1>4, <3>4, <4>3
    <3> QED
      BY <3>3, <3>4
  <2> QED
    BY <2>3, <2>4
<1> QED
  BY <1>11, <1>12

\* What is found in whole objects, with a declaration behind them or without.
LEMMA WalkOfWhole ==
  ASSUME NEW objects \in Objects, NEW q \in Seq(Bytes), Packs(objects, q),
         NEW l, l = Len(FlattenSeq(objects)), l <= Len(q)
  PROVE  SplitObjects(q) = Found(objects, IF Len(q) = l THEN 0 ELSE l + 1)
<1>1. PICK f : /\ SplitObjects(q) = f[1]
               /\ \A o \in 1..(Len(q) + 1) : f[o] = WalkedAt(q, f, o)
  BY WalkUnfolds
<1>2. objects \in Seq(Seq(Bytes))
  BY DEF Objects
<1>3. PICK pre : Beginnings(Bytes, objects, pre)
  BY <1>2, FlattenHasBeginnings
<1>4. PICK n, N \in Nat : n = Len(q) /\ N = Len(objects)
  BY <1>2, LenProperties
<1>5. l \in Nat /\ l <= n
  BY <1>2, <1>4, FlattenIsASeq
<1>6. \A k \in 0..N : Len(pre[k]) \in Nat /\ Len(pre[k]) <= l
  BY <1>2, <1>3, <1>4, BeginningsBegin, LenProperties DEF Beginnings
<1> DEFINE at == IF n = l THEN 0 ELSE l + 1
           T == {k \in 1..(N + 1) : f[Len(pre[k - 1]) + 1] = Found(SubSeq(objects, k, N), at)}
<1>7. N + 1 \in T
  <2>1. Len(pre[(N + 1) - 1]) = l /\ N + 1 \in 1..(N + 1)
    BY <1>3, <1>4 DEF Beginnings
  <2>2. SubSeq(objects, N + 1, N) = <<>>
    BY SubSeqEmpty
  <2>3. l + 1 \in 1..(Len(q) + 1)
    BY <1>4, <1>5
  <2>4. f[l + 1] = WalkedAt(q, f, l + 1)
    BY <1>1, <2>3
  <2>5. CASE n = l
    <3>1. l + 1 > Len(q)
      BY <1>4, <1>5, <2>5
    <3>2. f[l + 1] = Found(<<>>, 0)
      BY <2>4, <3>1 DEF WalkedAt
    <3> QED
      BY <2>1, <2>2, <2>5, <3>2
  <2>6. CASE n # l
    <3>1. ~(l + 1 > Len(q)) /\ l < Len(q)
      BY <1>4, <1>5, <2>6
    <3>2. q[l + 1] = DeclarationId
      BY <3>1 DEF Packs
    <3>3. f[l + 1] = Found(<<>>, l + 1)
      BY <2>4, <3>1, <3>2 DEF WalkedAt
    <3> QED
      BY <2>1, <2>2, <2>6, <3>3
  <2> QED
    BY <2>5, <2>6
<1>8. ASSUME NEW k \in 1..N, k + 1 \in T PROVE k \in T
  <2>1. k \in 1..Len(objects) /\ k - 1 \in 0..N /\ k \in 0..N /\ (k + 1) - 1 = k /\ k \in 1..(N + 1)
    BY <1>4
  <2>2. Len(pre[k - 1]) <= Len(q) /\ Len(pre[k]) <= Len(q)
    BY <1>4, <1>5, <1>6, <2>1
  <2>3. f[Len(pre[k]) + 1] = Found(SubSeq(objects, k + 1, N), at)
    BY <1>8, <2>1
  <2>4. f[Len(pre[k - 1]) + 1] = IF f[Len(pre[k]) + 1].ok
                THEN Found(<<objects[k]>> \o f[Len(pre[k]) + 1].objects, f[Len(pre[k]) + 1].at)
                ELSE Malformed
    BY <1>1, <1>3, <2>1, <2>2, WalkStep
  <2>5. f[Len(pre[k - 1]) + 1] = Found(<<objects[k]>> \o SubSeq(objects, k + 1, N), at)
    BY <2>3, <2>4 DEF Found
  <2>6. N \in k..Len(objects)
    BY <1>4
  <2>7. SubSeq(objects, k, N) = <<objects[k]>> \o SubSeq(objects, k + 1, N)
    BY <1>2, <2>1, <2>6, SubSeqRecursiveFirst
  <2> HIDE DEF at
  <2> QED
    BY <2>1, <2>5, <2>7
<1> HIDE DEF T
<1>9. 1 \in T
  <2>1. 1 \in 1..(N + 1)
    BY <1>4
  <2> QED
    BY <1>4, <1>7, <1>8, <2>1, Downward
<1>10. f[Len(pre[1 - 1]) + 1] = Found(SubSeq(objects, 1, N), at)
  BY <1>9 DEF T
<1>11. Len(pre[1 - 1]) + 1 = 1
  <2>1. pre[1 - 1] = <<>>
    BY <1>3 DEF Beginnings
  <2> QED
    BY <2>1, EmptySeq
<1>12. SubSeq(objects, 1, N) = objects
  BY <1>2, <1>4, SubSeqFull
<1> QED
  BY <1>1, <1>4, <1>10, <1>11, <1>12

\* Objects that lost their end declare nothing.
LEMMA WalkOfCut ==
  ASSUME NEW objects \in Objects, NEW q \in Seq(Bytes), Packs(objects, q),
         Len(q) < Len(FlattenSeq(objects))
  PROVE  ~SplitObjects(q).ok \/ SplitObjects(q).at = 0
<1>1. PICK f : /\ SplitObjects(q) = f[1]
               /\ \A o \in 1..(Len(q) + 1) : f[o] = WalkedAt(q, f, o)
  BY WalkUnfolds
<1>2. objects \in Seq(Seq(Bytes))
  BY DEF Objects
<1>3. PICK pre : Beginnings(Bytes, objects, pre)
  BY <1>2, FlattenHasBeginnings
<1>4. PICK n, N, l \in Nat : n = Len(q) /\ N = Len(objects) /\ l = Len(FlattenSeq(objects))
  BY <1>2, LenProperties, FlattenIsASeq
<1> DEFINE FindsNone(k) == ~f[Len(pre[k - 1]) + 1].ok \/ f[Len(pre[k - 1]) + 1].at = 0
           T == {k \in 1..(N + 1) : Len(pre[k - 1]) <= n => FindsNone(k)}
<1>5. N + 1 \in T
  <2>1. Len(pre[(N + 1) - 1]) = l /\ N + 1 \in 1..(N + 1)
    BY <1>3, <1>4 DEF Beginnings
  <2>2. ~(l <= n)
    BY <1>4
  <2> HIDE DEF FindsNone
  <2> QED
    BY <2>1, <2>2
<1>6. ASSUME NEW k \in 1..N, k + 1 \in T PROVE k \in T
  <2>1. k \in 1..Len(objects) /\ (k + 1) - 1 = k /\ k \in 1..(N + 1)
    BY <1>4
  <2> SUFFICES ASSUME Len(pre[k - 1]) <= n PROVE FindsNone(k)
    BY <2>1
  <2> DEFINE here == f[Len(pre[k - 1]) + 1]
             next == f[Len(pre[k]) + 1]
  <2>2. IF Len(pre[k]) <= Len(q)
        THEN here = IF next.ok THEN Found(<<objects[k]>> \o next.objects, next.at) ELSE Malformed
        ELSE ~here.ok \/ here.at = 0
    BY <1>1, <1>3, <1>4, <2>1, WalkStep
  <2>3. CASE Len(pre[k]) <= Len(q)
    <3>1. ~next.ok \/ next.at = 0
      BY <1>4, <1>6, <2>1, <2>3
    <3> HIDE DEF here, next
    <3>2. ~here.ok \/ here.at = 0
      BY <2>2, <2>3, <3>1 DEF Found, Malformed
    <3> QED
      BY <3>2 DEF here
  <2>4. CASE ~(Len(pre[k]) <= Len(q))
    BY <2>2, <2>4
  <2> QED
    BY <2>3, <2>4
<1> HIDE DEF T
<1>7. 1 \in T
  <2>1. 1 \in 1..(N + 1)
    BY <1>4
  <2> QED
    BY <1>4, <1>5, <1>6, <2>1, Downward
<1>8. pre[1 - 1] = <<>> /\ Len(pre[1 - 1]) = 0
  <2>1. pre[1 - 1] = <<>>
    BY <1>3 DEF Beginnings
  <2> QED
    BY <2>1, EmptySeq
<1>9. FindsNone(1)
  <2>1. Len(pre[1 - 1]) <= n
    BY <1>4, <1>8
  <2> HIDE DEF FindsNone
  <2> QED
    BY <1>7, <2>1 DEF T
<1>10. Len(pre[1 - 1]) + 1 = 1
  BY <1>8
<1> QED
  BY <1>1, <1>9, <1>10

----------------------------------------------------------------------------
\* A declaration behind some objects.

\* What a declaration is made of.
LEMMA DeclarationBytes ==
  ASSUME NEW ids \in Seq(Bytes), Len(ids) \in 0..255
  PROVE  /\ EncodeDeclaration(ids) \in Seq(Bytes) /\ Len(ids) \in 0..255
         /\ Len(EncodeDeclaration(ids)) = 2 + Len(ids)
         /\ EncodeDeclaration(ids)[1] = DeclarationId
         /\ EncodeDeclaration(ids)[2] = Len(ids)
         /\ \A i \in 1..Len(ids) : EncodeDeclaration(ids)[2 + i] = ids[i]
<1>1. Len(ids) \in 0..255
  OBVIOUS
<1>2. PICK n \in Bytes : n = Len(ids)
  BY <1>1 DEF Bytes
<1> DEFINE a == <<DeclarationId, n>>
           c == EncodeDeclaration(ids)
<1>3. DeclarationId \in Bytes
  BY DEF DeclarationId, Bytes
<1>4. a \in Seq(Bytes) /\ Len(a) = 2 /\ a[1] = DeclarationId /\ a[2] = n
  BY <1>3
<1>5. c = a \o ids
  BY <1>2 DEF EncodeDeclaration
<1> HIDE DEF a, c
<1>6. /\ c \in Seq(Bytes) /\ Len(c) = Len(a) + Len(ids)
      /\ \A i \in 1..Len(a) : c[i] = a[i] /\ i \in 1..Len(c)
      /\ \A i \in 1..Len(ids) : c[Len(a) + i] = ids[i] /\ Len(a) + i \in 1..Len(c)
  <2>1. a \in Seq(Bytes) /\ c = a \o ids
    BY <1>4, <1>5
  <2> QED
    BY <2>1, Joined
<1>7. 1 \in 1..Len(a) /\ 2 \in 1..Len(a)
  BY <1>4
<1>8. c[1] = DeclarationId /\ c[2] = Len(ids) /\ Len(c) = 2 + Len(ids)
      /\ \A i \in 1..Len(ids) : c[2 + i] = ids[i]
  BY <1>2, <1>4, <1>6, <1>7
<1> QED
  BY <1>1, <1>6, <1>8 DEF c

\* What a packet of objects and a declaration holds, and what is left of it
\* when it is cut.
LEMMA PacksWhole ==
  ASSUME NEW objects \in Objects, NEW tail \in Seq(Bytes),
         tail # <<>> => tail[1] = DeclarationId,
         NEW data, data = FlattenSeq(objects) \o tail
  PROVE  /\ Packs(objects, data) /\ data \in Seq(Bytes) /\ Len(data) \in Nat
         /\ Len(data) = Len(FlattenSeq(objects)) + Len(tail)
         /\ \A i \in 1..Len(tail) : data[Len(FlattenSeq(objects)) + i] = tail[i]
<1> DEFINE flat == FlattenSeq(objects)
<1>1. flat \in Seq(Bytes)
  BY FlattenIsASeq DEF Objects
<1>2. data = flat \o tail
  OBVIOUS
<1> HIDE DEF flat
<1>3. /\ data \in Seq(Bytes)
      /\ Len(flat) \in Nat /\ Len(tail) \in Nat /\ Len(data) = Len(flat) + Len(tail)
      /\ \A i \in 1..Len(flat) : data[i] = flat[i] /\ i \in 1..Len(data)
      /\ \A i \in 1..Len(tail) : data[Len(flat) + i] = tail[i] /\ Len(flat) + i \in 1..Len(data)
  BY <1>1, <1>2, Joined
<1>4. \A i \in 1..Len(data) : i <= Len(flat) => data[i] = flat[i]
  BY <1>3
<1>5. ASSUME Len(flat) < Len(data) PROVE data[Len(flat) + 1] = DeclarationId
  <2>1. 1 \in 1..Len(tail)
    BY <1>3, <1>5
  <2>2. tail # <<>>
    BY <1>3, <1>5, EmptySeq
  <2> QED
    BY <1>3, <2>1, <2>2
<1>6. Packs(objects, data)
  BY <1>4, <1>5 DEF Packs, flat
<1>7. Len(data) \in Nat
  BY <1>3
<1> QED
  BY <1>3, <1>6, <1>7 DEF flat

\* What is cut from a packet packs the same objects.
LEMMA PacksCut ==
  ASSUME NEW objects \in Objects, NEW data \in Seq(Bytes), Packs(objects, data),
         NEW n \in 1..Len(data), NEW q, q = SubSeq(data, 1, n)
  PROVE  /\ q \in Seq(Bytes) /\ Len(q) = n /\ \A i \in 1..n : q[i] = data[i]
         /\ Packs(objects, q)
<1>1. Len(data) \in Nat /\ \A i \in 1..n : data[i] \in Bytes
  BY LenProperties, ElementOfSeq
<1>2. q \in Seq(Bytes) /\ Len(q) = n /\ \A i \in 1..(n - 1 + 1) : q[i] = data[1 + i - 1]
  <2>1. 1 \in Int /\ n \in Int /\ 1 <= n /\ n - 1 + 1 = n
    OBVIOUS
  <2> QED
    BY <1>1, <2>1, SubSeqProperties
<1>3. \A i \in 1..n : q[i] = data[i]
  <2> TAKE i \in 1..n
  <2>1. i \in 1..(n - 1 + 1) /\ 1 + i - 1 = i
    OBVIOUS
  <2> QED
    BY <1>2, <2>1
<1>4. PICK l \in Nat : l = Len(FlattenSeq(objects))
  BY FlattenIsASeq DEF Objects
<1>5. \A i \in 1..n : i <= l => q[i] = FlattenSeq(objects)[i]
  <2> TAKE i \in 1..n
  <2>1. i \in 1..Len(data)
    BY <1>1
  <2> QED
    BY <1>3, <1>4, <2>1 DEF Packs
<1>6. l < n => q[l + 1] = DeclarationId
  <2> HAVE l < n
  <2>1. l + 1 \in 1..n /\ l < Len(data)
    BY <1>1
  <2> QED
    BY <1>3, <1>4, <2>1 DEF Packs
<1> QED
  BY <1>2, <1>3, <1>4, <1>5, <1>6 DEF Packs

\* Objects and nothing behind them.
LEMMA SensorsDeclareNothing ==
  ASSUME NEW objects \in Objects
  PROVE  ParseDeclaration(FlattenSeq(objects)) = Nothing
<1> DEFINE flat == FlattenSeq(objects)
<1>1. flat \in Seq(Bytes) /\ Len(flat) \in Nat
  BY FlattenIsASeq DEF Objects
<1>2. Packs(objects, flat)
  BY <1>1 DEF Packs
<1>3. SplitObjects(flat) = Found(objects, 0)
  BY <1>1, <1>2, WalkOfWhole
<1> HIDE DEF flat
<1> QED
  BY <1>3 DEF ParseDeclaration, Found, flat

Declarable(ids) == ids \in Seq(Bytes) /\ Len(ids) \in 0..255

PacketOf(objects, ids) ==
  FlattenSeq(objects) \o (IF ids = <<>> THEN <<>> ELSE EncodeDeclaration(ids))

\* Objects and a declaration behind them: the entries, in order, and the
\* revision of the objects.
LEMMA DeclaredIsParsed ==
  ASSUME NEW objects \in Objects, NEW ids \in Seq(Bytes), Declarable(ids)
  PROVE  ParseDeclaration(FlattenSeq(objects) \o EncodeDeclaration(ids))
           = Declares(ids, RevisionIn(objects))
<1> DEFINE flat == FlattenSeq(objects)
           tail == EncodeDeclaration(ids)
           data == flat \o tail
<1>1. flat \in Seq(Bytes) /\ Len(flat) \in Nat
  BY FlattenIsASeq DEF Objects
<1>2. /\ tail \in Seq(Bytes) /\ Len(ids) \in Nat /\ Len(tail) = 2 + Len(ids)
      /\ tail[1] = DeclarationId /\ tail[2] = Len(ids)
      /\ \A i \in 1..Len(ids) : tail[2 + i] = ids[i]
  BY DeclarationBytes DEF Declarable
<1> HIDE DEF tail
<1>3. /\ Packs(objects, data) /\ data \in Seq(Bytes) /\ Len(data) \in Nat
      /\ Len(data) = Len(flat) + Len(tail)
      /\ \A i \in 1..Len(tail) : data[Len(flat) + i] = tail[i]
  BY <1>2, PacksWhole
<1> HIDE DEF flat
<1> HIDE DEF data
<1>4. PICK l, m, n \in Nat : l = Len(flat) /\ m = Len(ids) /\ n = Len(data) /\ n = l + 2 + m
  BY <1>1, <1>2, <1>3
<1>5. SplitObjects(data) = Found(objects, l + 1)
  <2>1. l <= Len(data) /\ Len(data) # l
    BY <1>4
  <2> QED
    BY <1>3, <1>4, <2>1, WalkOfWhole DEF flat
<1>6. data[l + 2] = m
  <2>1. 2 \in 1..Len(tail)
    BY <1>2
  <2> QED
    BY <1>2, <1>3, <1>4, <2>1
<1>7. SubSeq(data, l + 3, n) = ids
  <2>1. \A i \in (l + 3)..n : data[i] \in Bytes
    <3> TAKE i \in (l + 3)..n
    <3>1. i \in 1..n
      BY <1>4
    <3> QED
      BY <1>3, <1>4, <3>1, ElementOfSeq
  <2>2. PICK s \in Int : s = l + 3
    BY <1>4
  <2> DEFINE c == SubSeq(data, s, n)
  <2>3. /\ c \in Seq(Bytes) /\ Len(c) = IF s <= n THEN n - s + 1 ELSE 0
        /\ \A i \in 1..(n - s + 1) : c[i] = data[s + i - 1]
    BY <2>1, <2>2, SubSeqProperties
  <2> HIDE DEF c
  <2>4. Len(c) = m
    BY <1>4, <2>2, <2>3
  <2>5. ASSUME NEW i \in 1..m PROVE c[i] = ids[i]
    <3>1. i \in 1..(n - s + 1) /\ s + i - 1 = l + (2 + i)
      BY <1>4, <2>2
    <3>2. 2 + i \in 1..Len(tail)
      BY <1>2, <1>4
    <3>3. data[l + (2 + i)] = ids[i]
      BY <1>2, <1>3, <1>4, <3>2
    <3> QED
      BY <2>3, <3>1, <3>3
  <2>6. c = ids
    BY <1>4, <2>3, <2>4, <2>5, SeqEqual
  <2> QED
    BY <2>2, <2>6 DEF c
<1> DEFINE walk == SplitObjects(data)
<1>8. walk.ok /\ walk.at = l + 1 /\ walk.objects = objects
  BY <1>5 DEF Found
<1> HIDE DEF walk
<1>9. /\ walk.at # 0 /\ walk.at + 2 = l + 3 /\ data[walk.at + 1] = m
       /\ ~(l + 3 > Len(data) + 1) /\ ~(l + 3 + m - 1 > Len(data)) /\ l + 3 + m - 1 = n
  <2>1. walk.at + 1 = l + 2
    BY <1>4, <1>8
  <2> QED
    BY <1>4, <1>6, <1>8, <2>1
<1>10. ParseDeclaration(data) = Declares(ids, RevisionIn(objects))
  BY <1>7, <1>8, <1>9 DEF ParseDeclaration, walk
<1> QED
  BY <1>10 DEF data, flat, tail

\* What is cut declares nothing.
LEMMA CutDeclaresNothing ==
  ASSUME NEW objects \in Objects, NEW ids \in Seq(Bytes), Declarable(ids),
         NEW data, data = PacketOf(objects, ids), NEW n \in Nat, 0 < n, n < Len(data)
  PROVE  ParseDeclaration(SubSeq(data, 1, n)).layout = <<>>
<1> DEFINE flat == FlattenSeq(objects)
           tail == IF ids = <<>> THEN <<>> ELSE EncodeDeclaration(ids)
           q == SubSeq(data, 1, n)
<1>1. flat \in Seq(Bytes) /\ Len(flat) \in Nat
  BY FlattenIsASeq DEF Objects
<1>2. /\ tail \in Seq(Bytes) /\ Len(ids) \in Nat /\ Len(tail) \in Nat
      /\ tail # <<>> => /\ tail[1] = DeclarationId /\ tail[2] = Len(ids)
                        /\ Len(tail) = 2 + Len(ids)
      /\ tail = <<>> => Len(tail) = 0
  BY DeclarationBytes, EmptySeq DEF Declarable
<1>3. data = flat \o tail
  BY DEF PacketOf
<1> HIDE DEF tail
<1>4. Packs(objects, data)
  BY <1>2, <1>3, PacksWhole
<1>5. /\ data \in Seq(Bytes) /\ Len(data) = Len(flat) + Len(tail) /\ Len(data) \in Nat
      /\ \A i \in 1..Len(tail) : data[Len(flat) + i] = tail[i]
  BY <1>2, <1>3, PacksWhole
<1> HIDE DEF flat
<1>6. n \in 1..Len(data)
  BY <1>5
<1>7. q \in Seq(Bytes) /\ Len(q) = n /\ (\A i \in 1..n : q[i] = data[i]) /\ Packs(objects, q)
  BY <1>4, <1>5, <1>6, PacksCut
<1>8. PICK l, m, d \in Nat : l = Len(flat) /\ m = Len(ids) /\ d = Len(data) /\ n < d
  BY <1>1, <1>2, <1>5
<1> HIDE DEF q
<1> DEFINE walk == SplitObjects(q)
<1>9. ~walk.ok => ParseDeclaration(q) = Broken
  BY DEF ParseDeclaration
<1>10. walk.ok /\ walk.at = 0 => ParseDeclaration(q) = Nothing
  BY DEF ParseDeclaration
<1>11. Nothing.layout = <<>> /\ Broken.layout = <<>>
  BY DEF Nothing, Broken
<1>12. CASE n < l
  <2>1. ~walk.ok \/ walk.at = 0
    BY <1>7, <1>8, <1>12, WalkOfCut DEF flat
  <2> QED
    BY <1>9, <1>10, <1>11, <2>1 DEF q
<1>13. CASE ~(n < l)
  <2>1. walk = Found(objects, IF n = l THEN 0 ELSE l + 1)
    <3>1. n \in Nat /\ l \in Nat /\ Len(q) = n
      BY <1>5, <1>7
    <3>2. l <= Len(q)
      BY <1>13, <3>1
    <3> QED
      BY <1>7, <1>8, <3>2, WalkOfWhole DEF flat
  <2>2. CASE n = l
    <3>1. walk.ok /\ walk.at = 0
      BY <2>1, <2>2 DEF Found
    <3> QED
      BY <1>10, <1>11, <3>1 DEF q
  <2>3. CASE n # l
    <3>1. walk.ok /\ walk.at = l + 1
      BY <2>1, <2>3 DEF Found
    <3>2. d = l + Len(tail)
      BY <1>5, <1>8
    <3>3. tail # <<>>
      BY <1>2, <1>8, <1>13, <3>2
    <3>4. d = l + 2 + m /\ tail[2] = m
      <4>1. Len(tail) = 2 + m /\ tail[2] = m
        BY <1>2, <1>8, <3>3
      <4> QED
        BY <3>2, <4>1
    <3>5. CASE n = l + 1
      <4>1. walk.at # 0 /\ walk.at + 2 > Len(q) + 1
        <5>1. n = Len(q)
          BY <1>7
        <5> HIDE DEF walk
        <5> QED
          BY <3>1, <3>5, <5>1
      <4>2. ParseDeclaration(q) = Broken
        <5> HIDE DEF walk
        <5> QED
          BY <3>1, <4>1 DEF ParseDeclaration, walk
      <4> QED
        BY <1>11, <4>2 DEF q
    <3>6. CASE n # l + 1
      <4>1. 2 \in 1..Len(tail) /\ l + 2 \in 1..n
        BY <1>2, <1>8, <1>13, <2>3, <3>3, <3>6
      <4>2. q[l + 2] = m
        BY <1>5, <1>7, <1>8, <3>4, <4>1
      <4>3. walk.at # 0 /\ walk.at + 1 = l + 2 /\ walk.at + 2 + m - 1 > Len(q)
        <5>1. l + 2 + m > n /\ n = Len(q)
          BY <1>7, <1>8, <3>4
        <5> HIDE DEF walk
        <5> QED
          BY <3>1, <5>1
      <4>4. ParseDeclaration(q) = Broken
        <5>1. walk.at + 2 + q[walk.at + 1] - 1 > Len(q)
          BY <4>2, <4>3
        <5> HIDE DEF walk
        <5> QED
          BY <3>1, <4>3, <5>1 DEF ParseDeclaration, walk
      <4> QED
        BY <1>11, <4>4 DEF q
    <3> QED
      BY <3>5, <3>6
  <2> QED
    BY <2>2, <2>3
<1> QED
  BY <1>12, <1>13

----------------------------------------------------------------------------
\* Sorting rearranges.

\* A set of numbers has a least one.
LEMMA LeastOf ==
  ASSUME NEW S \in SUBSET Nat, S # {}
  PROVE  \E i \in S : \A j \in S : i <= j
<1>1. PICK i \in S : \A j \in S : ~(<<j, i>> \in OpToRel(<, Nat))
  <2>1. IsWellFoundedOn(OpToRel(<, Nat), Nat)
    BY NatLessThanWellFounded
  <2> QED
    BY <2>1, WFMin
<1>2. ASSUME NEW j \in S PROVE i <= j
  <2>1. i \in Nat /\ j \in Nat
    OBVIOUS
  <2>2. CASE j < i
    BY <1>1, <2>1, <2>2 DEF OpToRel
  <2> QED
    BY <2>1, <2>2
<1> QED
  BY <1>2

NotAfter(objects, i) ==
  {j \in 1..Len(objects) : \/ objects[j][1] < objects[i][1]
                           \/ objects[j][1] = objects[i][1] /\ j <= i}

\* stableSortByObjectId loses no object and invents none: the ranks are a
\* permutation.
LEMMA SortingRearranges ==
  ASSUME NEW objects, Len(objects) \in Nat, \A i \in 1..Len(objects) : objects[i][1] \in Int
  PROVE  /\ Len(SortedById(objects)) = Len(objects)
         /\ \A k \in 1..Len(objects) :
              \E i \in 1..Len(objects) : SortedById(objects)[k] = objects[i]
         /\ \A i \in 1..Len(objects) :
              \E k \in 1..Len(objects) : SortedById(objects)[k] = objects[i]
<1> DEFINE Rank(i) == Cardinality(NotAfter(objects, i))
<1>1. PICK N \in Nat : N = Len(objects)
  OBVIOUS
<1>2. IsFiniteSet(1..N) /\ Cardinality(1..N) = N
  <2>1. 1 \in Int /\ N \in Int
    OBVIOUS
  <2>2. /\ IsFiniteSet(1..N)
        /\ Cardinality(1..N) = IF 1 > N THEN 0 ELSE N - 1 + 1
    BY <2>1, FS_Interval
  <2> QED
    BY <2>2
<1>3. ASSUME NEW i \in 1..N
      PROVE  /\ NotAfter(objects, i) \in SUBSET (1..N) /\ i \in NotAfter(objects, i)
             /\ IsFiniteSet(NotAfter(objects, i)) /\ Rank(i) \in 1..N
  <2>1. NotAfter(objects, i) \in SUBSET (1..N) /\ i \in NotAfter(objects, i)
    BY <1>1 DEF NotAfter
  <2>2. IsFiniteSet(NotAfter(objects, i)) /\ Rank(i) <= N
    BY <1>2, <2>1, FS_Subset
  <2>3. Rank(i) \in Nat /\ Rank(i) # 0
    BY <2>1, <2>2, FS_CardinalityType, FS_EmptySet
  <2> QED
    BY <1>1, <2>1, <2>2, <2>3
<1>4. ASSUME NEW i \in 1..N, NEW j \in 1..N, i # j, i \in NotAfter(objects, j)
      PROVE  Rank(i) # Rank(j)
  <2>1. objects[i][1] \in Int /\ objects[j][1] \in Int /\ i \in Int /\ j \in Int
    BY <1>1
  <2>2. /\ objects[i][1] < objects[j][1] \/ (objects[i][1] = objects[j][1] /\ i < j)
    BY <1>4, <2>1 DEF NotAfter
  <2>3. j \notin NotAfter(objects, i)
    BY <2>1, <2>2 DEF NotAfter
  <2>4. NotAfter(objects, i) \subseteq NotAfter(objects, j)
    <3> SUFFICES ASSUME NEW a \in NotAfter(objects, i) PROVE a \in NotAfter(objects, j)
      OBVIOUS
    <3>1. a \in 1..N /\ a \in Int /\ objects[a][1] \in Int
      BY <1>1 DEF NotAfter
    <3>2. objects[a][1] < objects[i][1] \/ (objects[a][1] = objects[i][1] /\ a <= i)
      BY DEF NotAfter
    <3>3. objects[a][1] < objects[j][1] \/ (objects[a][1] = objects[j][1] /\ a <= j)
      BY <2>1, <2>2, <3>1, <3>2
    <3> QED
      BY <1>1, <3>1, <3>3 DEF NotAfter
  <2>5. NotAfter(objects, i) # NotAfter(objects, j)
    BY <1>3, <2>3
  <2> QED
    BY <1>3, <2>4, <2>5, FS_Subset
<1>5. ASSUME NEW i \in 1..N, NEW j \in 1..N, Rank(i) = Rank(j) PROVE i = j
  <2>1. objects[i][1] \in Int /\ objects[j][1] \in Int /\ i \in Int /\ j \in Int
    BY <1>1
  <2>2. i \in NotAfter(objects, j) \/ j \in NotAfter(objects, i)
    BY <1>1, <2>1 DEF NotAfter
  <2> HIDE DEF Rank
  <2> QED
    BY <1>4, <1>5, <2>2
<1> HIDE DEF Rank
<1> DEFINE f == [i \in 1..N |-> Rank(i)]
<1>6. f \in Injection(1..N, 1..N)
  BY <1>3, <1>5 DEF Injection, IsInjective
<1>7. f \in Surjection(1..N, 1..N)
  BY <1>2, <1>6, FS_Injection
<1>8. \A k \in 1..N : \E i \in 1..N : Rank(i) = k
  BY <1>7 DEF Surjection
<1>9. SortedById(objects) = [k \in 1..N |-> objects[CHOOSE i \in 1..N : Rank(i) = k]]
  BY <1>1 DEF SortedById, Rank, NotAfter
<1>10. ASSUME NEW k \in 1..N
       PROVE  \E i \in 1..N : Rank(i) = k /\ SortedById(objects)[k] = objects[i]
  <2> DEFINE i == CHOOSE j \in 1..N : Rank(j) = k
  <2>1. i \in 1..N /\ Rank(i) = k
    BY <1>8
  <2>2. SortedById(objects)[k] = objects[i]
    BY <1>9
  <2> HIDE DEF i
  <2> QED
    BY <2>1, <2>2
<1>11. ASSUME NEW i \in 1..N PROVE \E k \in 1..N : SortedById(objects)[k] = objects[i]
  <2>1. Rank(i) \in 1..N
    BY <1>3
  <2>2. PICK j \in 1..N : Rank(j) = Rank(i) /\ SortedById(objects)[Rank(i)] = objects[j]
    BY <1>10, <2>1
  <2> QED
    BY <1>5, <2>1, <2>2
<1>12. Len(SortedById(objects)) = N
  BY <1>9
<1> QED
  BY <1>1, <1>10, <1>11, <1>12

----------------------------------------------------------------------------
\* The packet of a device.

SensorLists == {ss \in Objects : \A i \in 1..Len(ss) : ss[i][1] # SettingsRevision}

RevisionBytes == {NoRevision} \cup Bytes

OwnRevision(revision) ==
  IF revision = NoRevision THEN <<>> ELSE <<<<SettingsRevision, revision>>>>

\* The module's own objects are whole.
LEMMA OwnObjects ==
  ASSUME NEW id \in {PacketId, SettingsRevision}, NEW b \in Bytes
  PROVE  <<id, b>> \in Seq(Bytes) /\ IsObject(<<id, b>>)
<1>1. id \in Bytes /\ id \in DOMAIN MeasTypes /\ Fixed(id) /\ MeasTypes[id].length = 1
  BY OwnObjectsAssumption, MeasTypesAssumption DEF Fixed, Bytes
<1> DEFINE o == <<id, b>>
<1>2. o \in Seq(Bytes) /\ o # <<>> /\ o[1] = id /\ Len(o) = 2
  BY <1>1
<1> HIDE DEF o
<1>3. ~HasNoLength(o, 1) /\ ValueLength(o, 1) = 1
  BY <1>1, <1>2, FixedObjects
<1>4. IsObject(o)
  BY <1>1, <1>2, <1>3 DEF IsObject, Bytes
<1> QED
  BY <1>2, <1>4 DEF o

\* What is in a sequence, in whatever order.
Members(s) == {s[i] : i \in 1..Len(s)}

\* What two lists have together.
LEMMA MembersJoin ==
  ASSUME NEW S, NEW a \in Seq(S), NEW b \in Seq(S)
  PROVE  a \o b \in Seq(S) /\ Members(a \o b) = Members(a) \cup Members(b)
<1>1. PICK c : c = a \o b
  OBVIOUS
<1>2. /\ c \in Seq(S) /\ Len(a) \in Nat /\ Len(b) \in Nat /\ Len(c) = Len(a) + Len(b)
      /\ \A i \in 1..Len(a) : c[i] = a[i] /\ i \in 1..Len(c)
      /\ \A i \in 1..Len(b) : c[Len(a) + i] = b[i] /\ Len(a) + i \in 1..Len(c)
  BY <1>1, Joined
<1>3. PICK m, n \in Nat : m = Len(a) /\ n = Len(b) /\ Len(c) = m + n
  BY <1>2
<1>4. ASSUME NEW i \in 1..(m + n) PROVE c[i] \in Members(a) \cup Members(b)
  <2>1. CASE i <= m
    BY <1>2, <1>3, <2>1 DEF Members
  <2>2. CASE ~(i <= m)
    <3>1. i - m \in 1..n /\ m + (i - m) = i
      BY <2>2
    <3> QED
      BY <1>2, <1>3, <3>1 DEF Members
  <2> QED
    BY <2>1, <2>2
<1>5. ASSUME NEW i \in 1..m PROVE a[i] \in Members(c)
  BY <1>2, <1>3 DEF Members
<1>6. ASSUME NEW i \in 1..n PROVE b[i] \in Members(c)
  BY <1>2, <1>3 DEF Members
<1>7. Members(c) = Members(a) \cup Members(b)
  BY <1>3, <1>4, <1>5, <1>6 DEF Members
<1> QED
  BY <1>1, <1>2, <1>7

\* What a list of one has.
LEMMA MembersOfOne == \A x : Members(<<x>>) = {x}
BY DEF Members

\* A list is one of whole objects when each of its members is.
LEMMA MembersOfObjects ==
  ASSUME NEW os \in Seq(Seq(Bytes))
  PROVE  os \in Objects <=> \A o \in Members(os) : IsObject(o)
BY DEF Objects, Members

RevisionAmong(members, revision) ==
  /\ \A o \in members : o[1] = SettingsRevision => o[2] = revision
  /\ (\E o \in members : o[1] = SettingsRevision) <=> revision # NoRevision

\* What planPacket lists is whole objects, with the revision it was given.
LEMMA TheObjectsOfAPacket ==
  ASSUME NEW ss \in SensorLists, NEW pid \in Bytes, NEW revision \in RevisionBytes,
         NEW objects, objects = <<<<PacketId, pid>>>> \o ss \o OwnRevision(revision)
  PROVE  objects \in Objects /\ RevisionAmong(Members(objects), revision)
<1> DEFINE first == <<<<PacketId, pid>>>>
           own == OwnRevision(revision)
           front == first \o ss
<1>1. /\ ss \in Seq(Seq(Bytes))
      /\ \A o \in Members(ss) : IsObject(o) /\ o[1] # SettingsRevision
  BY DEF SensorLists, Objects, Members
<1>2. <<PacketId, pid>> \in Seq(Bytes) /\ IsObject(<<PacketId, pid>>)
  BY OwnObjects
<1>3. first \in Seq(Seq(Bytes)) /\ Members(first) = {<<PacketId, pid>>}
  BY <1>2, MembersOfOne
<1>4. <<PacketId, pid>>[1] # SettingsRevision
  BY DEF PacketId, SettingsRevision
<1>5. /\ own \in Seq(Seq(Bytes)) /\ \A o \in Members(own) : IsObject(o)
      /\ RevisionAmong(Members(own), revision)
  <2>1. CASE revision = NoRevision
    <3>1. own = <<>> /\ Members(own) = {}
      BY <2>1 DEF OwnRevision, Members
    <3> QED
      BY <2>1, <3>1 DEF RevisionAmong
  <2>2. CASE revision # NoRevision
    <3>1. own = <<<<SettingsRevision, revision>>>> /\ revision \in Bytes
      BY <2>2 DEF OwnRevision, RevisionBytes
    <3>2. <<SettingsRevision, revision>> \in Seq(Bytes) /\ IsObject(<<SettingsRevision, revision>>)
      BY <3>1, OwnObjects
    <3>3. own \in Seq(Seq(Bytes)) /\ Members(own) = {<<SettingsRevision, revision>>}
      BY <3>1, <3>2, MembersOfOne
    <3>4. RevisionAmong(Members(own), revision)
      BY <2>2, <3>3 DEF RevisionAmong
    <3> QED
      BY <3>2, <3>3, <3>4
  <2> QED
    BY <2>1, <2>2
<1>6. objects = front \o own
  OBVIOUS
<1> HIDE DEF first, own
<1>7. front \in Seq(Seq(Bytes)) /\ Members(front) = Members(first) \cup Members(ss)
  BY <1>1, <1>3, MembersJoin
<1> HIDE DEF front
<1>8. objects \in Seq(Seq(Bytes)) /\ Members(objects) = Members(front) \cup Members(own)
  <2>1. /\ front \o own \in Seq(Seq(Bytes))
        /\ Members(front \o own) = Members(front) \cup Members(own)
    BY <1>5, <1>7, MembersJoin
  <2> QED
    BY <1>6, <2>1
<1>9. \A o \in Members(front) : IsObject(o) /\ o[1] # SettingsRevision
  BY <1>1, <1>2, <1>3, <1>4, <1>7
<1>10. objects \in Objects
  BY <1>5, <1>8, <1>9, MembersOfObjects
<1>11. RevisionAmong(Members(objects), revision)
  BY <1>5, <1>8, <1>9 DEF RevisionAmong
<1> QED
  BY <1>10, <1>11

\* Sorting keeps the objects, and the revision among them.
LEMMA SortedObjects ==
  ASSUME NEW objects \in Objects
  PROVE  SortedById(objects) \in Objects /\ Members(SortedById(objects)) = Members(objects)
<1>1. objects \in Seq(Seq(Bytes)) /\ \A i \in 1..Len(objects) : IsObject(objects[i])
  BY DEF Objects
<1>2. PICK N \in Nat : N = Len(objects)
  BY <1>1, LenProperties
<1>3. ASSUME NEW i \in 1..Len(objects) PROVE objects[i][1] \in Int
  <2>1. objects[i][1] \in DOMAIN MeasTypes
    BY <1>1 DEF IsObject
  <2>2. DOMAIN MeasTypes \subseteq 0..255
    BY MeasTypesAssumption
  <2>3. \A n \in 0..255 : n \in Int
    OBVIOUS
  <2> QED
    BY <2>1, <2>2, <2>3
<1> DEFINE sorted == SortedById(objects)
<1>4. /\ Len(sorted) = N
      /\ \A k \in 1..N : \E i \in 1..N : sorted[k] = objects[i]
      /\ \A i \in 1..N : \E k \in 1..N : sorted[k] = objects[i]
  BY <1>2, <1>3, SortingRearranges
<1>5. sorted = [k \in 1..N |-> sorted[k]]
  BY <1>2 DEF SortedById
<1> HIDE DEF sorted
<1>6. \A k \in 1..N : sorted[k] \in Seq(Bytes) /\ IsObject(sorted[k])
  BY <1>1, <1>2, <1>4, ElementOfSeq
<1>7. sorted \in Seq(Seq(Bytes))
  <2>1. sorted \in [1..N -> Seq(Bytes)]
    BY <1>5, <1>6
  <2> QED
    BY <2>1, SeqDef
<1>8. Members(sorted) = Members(objects)
  <2>1. Members(sorted) \subseteq Members(objects)
    BY <1>2, <1>4 DEF Members
  <2>2. Members(objects) \subseteq Members(sorted)
    BY <1>2, <1>4 DEF Members
  <2> QED
    BY <2>1, <2>2
<1> QED
  BY <1>4, <1>6, <1>7, <1>8 DEF Objects, sorted

\* A receiver finds that revision, wherever it was sorted to.
LEMMA TheRevisionIsFound ==
  ASSUME NEW objects \in Objects, NEW revision, RevisionAmong(Members(objects), revision)
  PROVE  RevisionIn(objects) = revision
<1> DEFINE at == {k \in 1..Len(objects) : objects[k][1] = SettingsRevision}
<1>1. Len(objects) \in Nat
  BY LenProperties DEF Objects
<1>2. RevisionIn(objects) = IF at = {} THEN NoRevision
                            ELSE objects[CHOOSE i \in at : \A j \in at : i <= j][2]
  BY DEF RevisionIn
<1>3. at = {} => revision = NoRevision
  BY DEF Members, RevisionAmong
<1>4. CASE at = {}
  BY <1>2, <1>3, <1>4
<1>5. CASE at # {}
  <2> DEFINE k == CHOOSE i \in at : \A j \in at : i <= j
  <2>1. at \in SUBSET Nat
    BY <1>1
  <2> HIDE DEF at
  <2>2. k \in at
    BY <1>5, <2>1, LeastOf
  <2> HIDE DEF k
  <2>3. objects[k][1] = SettingsRevision /\ objects[k] \in Members(objects)
    BY <2>2 DEF at, Members
  <2>4. objects[k][2] = revision
    BY <2>3 DEF RevisionAmong
  <2> QED
    BY <1>2, <1>5, <2>4 DEF k
<1> QED
  BY <1>4, <1>5

\* For any sensors, entries and revision the device accepts: what planPacket
\* assembles and sorts, parse_declaration reads as the entries in their order
\* with that revision; cut short anywhere, it declares nothing.
THEOREM APacketIsUnderstood ==
  ASSUME NEW ss \in SensorLists, NEW ids \in Seq(Bytes), NEW pid \in Bytes,
         NEW revision \in RevisionBytes,
         NEW data, data = ServiceData(ss, ids, pid, revision), data # PlanError
  PROVE  /\ ParseDeclaration(data) = IF ids = <<>> THEN Nothing ELSE Declares(ids, revision)
         /\ \A n \in 1..(Len(data) - 1) : ParseDeclaration(SubSeq(data, 1, n)).layout = <<>>
<1> DEFINE objects == <<<<PacketId, pid>>>> \o ss \o OwnRevision(revision)
           sorted == SortedById(objects)
           tail == IF ids = <<>> THEN <<>> ELSE EncodeDeclaration(ids)
<1>1. data = FlattenSeq(sorted) \o tail /\ MayBeDeclared(ids)
  <2>1. MayBeDeclared(ids) /\ data = BuildServiceData(sorted, tail, Budget)
    BY DEF ServiceData, OwnRevision
  <2>2. data = Assemble(sorted, tail)
    BY <2>1 DEF BuildServiceData
  <2> QED
    BY <2>1, <2>2 DEF Assemble
<1>2. objects \in Objects /\ RevisionAmong(Members(objects), revision)
  BY TheObjectsOfAPacket
<1> HIDE DEF objects
<1>3. sorted \in Objects /\ Members(sorted) = Members(objects)
  BY <1>2, SortedObjects
<1>4. RevisionIn(sorted) = revision
  BY <1>2, <1>3, TheRevisionIsFound
<1> HIDE DEF sorted
<1>5. Len(ids) \in 0..255
  <2>1. Len(ids) \in Nat
    BY BytesOf
  <2>2. Len(ids) <= 255
    BY <1>1 DEF MayBeDeclared
  <2>3. \A n \in Nat : n <= 255 => n \in 0..255
    OBVIOUS
  <2> QED
    BY <2>1, <2>2, <2>3
<1>6. Declarable(ids)
  BY <1>5 DEF Declarable
<1>7. ParseDeclaration(data) = IF ids = <<>> THEN Nothing ELSE Declares(ids, revision)
  <2>1. CASE ids = <<>>
    <3>1. FlattenSeq(sorted) \in Seq(Bytes)
      BY <1>3, FlattenIsASeq DEF Objects
    <3>2. data = FlattenSeq(sorted)
      BY <1>1, <2>1, <3>1, ConcatEmptySeq
    <3> QED
      BY <1>3, <2>1, <3>2, SensorsDeclareNothing
  <2>2. CASE ids # <<>>
    <3>1. data = FlattenSeq(sorted) \o EncodeDeclaration(ids)
      BY <1>1, <2>2
    <3> QED
      BY <1>3, <1>4, <1>6, <2>2, <3>1, DeclaredIsParsed
  <2> QED
    BY <2>1, <2>2
<1>8. ASSUME NEW n \in 1..(Len(data) - 1) PROVE ParseDeclaration(SubSeq(data, 1, n)).layout = <<>>
  <2>1. data = PacketOf(sorted, ids)
    BY <1>1 DEF PacketOf
  <2>2. Len(data) \in Nat
    <3>1. FlattenSeq(sorted) \in Seq(Bytes)
      BY <1>3, FlattenIsASeq DEF Objects
    <3>2. tail \in Seq(Bytes)
      BY <1>5, DeclarationBytes, EmptySeq
    <3>3. data \in Seq(Bytes)
      BY <1>1, <3>1, <3>2
    <3> QED
      BY <3>3
  <2>3. n \in Nat /\ 0 < n /\ n < Len(data)
    BY <2>2
  <2> QED
    BY <1>3, <1>6, <2>1, <2>3, CutDeclaresNothing
<1> QED
  BY <1>7, <1>8

\* What a run checks for the packets it tries.
LEMMA DeclarationsArrive == EveryDeclarationArrives
<1> SUFFICES ASSUME NEW planned \in PlannedPackets, planned[4] # PlanError
             PROVE  /\ ParseDeclaration(planned[4]) =
                         IF planned[2] = <<>> THEN Nothing ELSE Declares(planned[2], planned[3])
                    /\ \A n \in 1..(Len(planned[4]) - 1) :
                         ParseDeclaration(SubSeq(planned[4], 1, n)).layout = <<>>
  BY DEF EveryDeclarationArrives
<1>1. PICK ss \in Sensors, ids \in Layouts, rev \in {NoRevision, 0, 255} :
        planned = <<ss, ids, rev, ServiceData(ss, ids, 255, rev)>>
  BY DEF PlannedPackets
<1>2. ss \in SensorLists
  BY SensorsAssumption DEF SensorLists, Objects, Bytes
<1>3. ids \in Seq(Bytes)
  BY BytesAssumption DEF Bytes
<1>4. rev \in RevisionBytes /\ 255 \in Bytes
  BY DEF RevisionBytes, Bytes
<1>5. planned[2] = ids /\ planned[3] = rev /\ planned[4] = ServiceData(ss, ids, 255, rev)
  BY <1>1
<1> QED
  BY <1>2, <1>3, <1>4, <1>5, APacketIsUnderstood

----------------------------------------------------------------------------
\* Numbers.  sum[i] is what the first i bytes of a value are worth.

Sum(value, f) ==
  [i \in 0..Len(value) |-> IF i = 0 THEN 0 ELSE f[i - 1] + value[i] * 256 ^ (i - 1)]

\* There is such a sum: it is built up from the first byte.
LEMMA SumIsDefined ==
  ASSUME NEW value, Len(value) \in Nat
  PROVE  \E f : f = Sum(value, f)
<1> DEFINE N == Len(value)
           At(g, i) == IF i = 0 THEN 0 ELSE g[i - 1] + value[i] * 256 ^ (i - 1)
           T == {n \in Nat : \E g : \A i \in 0..n : g[i] = At(g, i)}
<1>1. 0 \in T
  <2> DEFINE g == [i \in 0..0 |-> 0]
  <2>1. \A i \in 0..0 : g[i] = At(g, i)
    OBVIOUS
  <2> HIDE DEF g, At
  <2> QED
    BY <2>1
<1>2. ASSUME NEW n \in Nat, n \in T PROVE n + 1 \in T
  <2>1. PICK g : \A i \in 0..n : g[i] = At(g, i)
    BY <1>2
  <2> DEFINE h == [i \in 0..(n + 1) |-> IF i = n + 1 THEN At(g, i) ELSE g[i]]
  <2>2. ASSUME NEW i \in 0..(n + 1) PROVE h[i] = At(h, i)
    <3>1. i # 0 => i - 1 \in 0..n /\ i - 1 \in 0..(n + 1) /\ i - 1 # n + 1
      OBVIOUS
    <3>2. i # 0 => h[i - 1] = g[i - 1]
      BY <3>1
    <3>3. h[i] = At(g, i)
      <4>1. i # n + 1 => i \in 0..n
        OBVIOUS
      <4> HIDE DEF At
      <4> QED
        BY <2>1, <4>1
    <3> HIDE DEF h
    <3> QED
      BY <3>2, <3>3
  <2> HIDE DEF h, At
  <2> QED
    BY <2>2
<1>3. N \in T
  <2> HIDE DEF T, N
  <2>1. \A n \in Nat : n \in T
    BY <1>1, <1>2, Upward
  <2> QED
    BY <2>1 DEF N
<1>4. PICK g : \A i \in 0..N : g[i] = At(g, i)
  BY <1>3
<1> DEFINE f == [i \in 0..N |-> g[i]]
<1>5. ASSUME NEW i \in 0..N PROVE f[i] = At(f, i)
  <2>1. i # 0 => i - 1 \in 0..N
    OBVIOUS
  <2>2. i # 0 => f[i - 1] = g[i - 1]
    BY <2>1
  <2>3. f[i] = At(g, i)
    BY <1>4
  <2> HIDE DEF f
  <2> QED
    BY <2>2, <2>3
<1>6. f = [i \in 0..N |-> At(f, i)]
  <2>1. f = [i \in 0..N |-> f[i]]
    OBVIOUS
  <2> HIDE DEF f, At
  <2> QED
    BY <1>5, <2>1
<1> HIDE DEF f
<1>7. f = Sum(value, f)
  BY <1>6 DEF Sum
<1> QED
  BY <1>7

AddsUp(f, value, n) == f[0] = 0 /\ \A i \in 1..n : f[i] = f[i - 1] + value[i] * 256 ^ (i - 1)

\* DecodeUnsigned is that sum over all bytes.
LEMMA SumUnfolds ==
  ASSUME NEW value, NEW id, NEW n \in Nat, n = Len(value)
  PROVE  \E f : DecodeUnsigned(value, id) = f[n] /\ AddsUp(f, value, n)
<1>1. PICK g : g = Sum(value, g)
  BY SumIsDefined
<1>2. \E f : f = Sum(value, f) /\ DecodeUnsigned(value, id) = f[n]
  BY <1>1 DEF DecodeUnsigned, Sum
<1>3. PICK f : f = Sum(value, f) /\ DecodeUnsigned(value, id) = f[n]
  BY <1>2
<1>4. f[0] = 0
  BY <1>3 DEF Sum
<1>5. ASSUME NEW i \in 1..n PROVE f[i] = f[i - 1] + value[i] * 256 ^ (i - 1)
  <2>1. i \in 0..n /\ i # 0
    OBVIOUS
  <2> QED
    BY <1>3, <2>1 DEF Sum
<1>6. AddsUp(f, value, n)
  BY <1>4, <1>5 DEF AddsUp
<1> QED
  BY <1>3, <1>6

\* The powers of the widths there are.
LEMMA Powers ==
  /\ 256 ^ 0 = 1 /\ 256 ^ 1 = 256 /\ 256 ^ 2 = 65536 /\ 256 ^ 3 = 16777216
  /\ 256 ^ 4 = 4294967296
  /\ 2 ^ 7 = 128 /\ 2 ^ 8 = 256 /\ 2 ^ 15 = 32768 /\ 2 ^ 16 = 65536
  /\ 2 ^ 23 = 8388608 /\ 2 ^ 24 = 16777216 /\ 2 ^ 31 = 2147483648 /\ 2 ^ 32 = 4294967296
OBVIOUS

Within(u, w) == u < 256 ^ w

\* The bytes of a number make the number again.
LEMMA LittleEndianIsUndone ==
  ASSUME NEW w \in 1..4, NEW u \in Nat, Within(u, w), NEW id
  PROVE  /\ LittleEndian(u, w) \in Seq(Bytes) /\ Len(LittleEndian(u, w)) = w
         /\ DecodeUnsigned(LittleEndian(u, w), id) = u
<1> DEFINE b == LittleEndian(u, w)
<1>1. PICK q1, q2, q3 \in Nat : q1 = u \div 256 /\ q2 = q1 \div 256 /\ q3 = q2 \div 256
  OBVIOUS
<1>2. u \div 1 = u /\ u \div 256 = q1 /\ u \div 65536 = q2 /\ u \div 16777216 = q3
  <2>1. \A x \in Nat : x \div 1 = x
    OBVIOUS
  <2>2. \A x \in Nat : x \div 65536 = (x \div 256) \div 256
    OBVIOUS
  <2>3. \A x \in Nat : x \div 16777216 = (x \div 65536) \div 256
    OBVIOUS
  <2> QED
    BY <1>1, <2>1, <2>2, <2>3
<1>3. /\ b = [i \in 1..w |-> (u \div 256 ^ (i - 1)) % 256]
      /\ Len(b) = w
  <2>1. b = [i \in 1..w |-> (u \div 256 ^ (i - 1)) % 256]
    BY DEF LittleEndian
  <2> HIDE DEF b
  <2>2. w \in Nat
    OBVIOUS
  <2>3. Len(b) = w
    BY <2>1, <2>2
  <2> QED
    BY <2>1, <2>3
<1>4. PICK b1, b2, b3, b4 \in 0..255 :
        b1 = u % 256 /\ b2 = q1 % 256 /\ b3 = q2 % 256 /\ b4 = q3 % 256
  <2>1. \A q \in Nat : q % 256 \in 0..255
    OBVIOUS
  <2>2. u % 256 \in 0..255 /\ q1 % 256 \in 0..255 /\ q2 % 256 \in 0..255 /\ q3 % 256 \in 0..255
    BY <2>1
  <2> QED
    BY <2>2, Zenon
<1>5. /\ 1 \in 1..w => b[1] = b1
      /\ 2 \in 1..w => b[2] = b2
      /\ 3 \in 1..w => b[3] = b3
      /\ 4 \in 1..w => b[4] = b4
  <2> HIDE DEF b
  <2>1. ASSUME 1 \in 1..w PROVE b[1] = b1
    <3>1. 256 ^ (1 - 1) = 1
      OBVIOUS
    <3>2. b[1] = (u \div 256 ^ (1 - 1)) % 256
      BY <1>3, <2>1
    <3> QED
      BY <1>2, <1>4, <3>1, <3>2
  <2>2. ASSUME 2 \in 1..w PROVE b[2] = b2
    <3>1. 256 ^ (2 - 1) = 256
      OBVIOUS
    <3>2. b[2] = (u \div 256 ^ (2 - 1)) % 256
      BY <1>3, <2>2
    <3> QED
      BY <1>2, <1>4, <3>1, <3>2
  <2>3. ASSUME 3 \in 1..w PROVE b[3] = b3
    <3>1. 256 ^ (3 - 1) = 65536
      OBVIOUS
    <3>2. b[3] = (u \div 256 ^ (3 - 1)) % 256
      BY <1>3, <2>3
    <3> QED
      BY <1>2, <1>4, <3>1, <3>2
  <2>4. ASSUME 4 \in 1..w PROVE b[4] = b4
    <3>1. 256 ^ (4 - 1) = 16777216
      OBVIOUS
    <3>2. b[4] = (u \div 256 ^ (4 - 1)) % 256
      BY <1>3, <2>4
    <3> QED
      BY <1>2, <1>4, <3>1, <3>2
  <2> QED
    BY <2>1, <2>2, <2>3, <2>4
<1> HIDE DEF b
<1>6. b \in Seq(Bytes)
  <2>1. \A i \in 1..w : b[i] \in Bytes
    <3> TAKE i \in 1..w
    <3>1. i \in {1, 2, 3, 4}
      OBVIOUS
    <3> QED
      BY <1>5, <3>1 DEF Bytes
  <2>2. b = [i \in 1..w |-> b[i]]
    BY <1>3
  <2>3. b \in [1..w -> Bytes] /\ w \in Nat
    BY <2>1, <2>2
  <2> QED
    BY <2>3, SeqDef
<1>7. PICK f : /\ DecodeUnsigned(b, id) = f[w] /\ f[0] = 0
               /\ \A i \in 1..w : f[i] = f[i - 1] + b[i] * 256 ^ (i - 1)
  <2>1. w \in Nat /\ w = Len(b)
    BY <1>3
  <2>2. PICK f : DecodeUnsigned(b, id) = f[w] /\ AddsUp(f, b, w)
    BY <2>1, SumUnfolds
  <2> QED
    BY <2>2 DEF AddsUp
<1>8. 1 \in 1..w => f[1] = b1
  <2> HAVE 1 \in 1..w
  <2>1. 1 - 1 = 0
    OBVIOUS
  <2>2. f[0] = 0
    BY <1>7
  <2>3. f[1] = f[1 - 1] + b[1] * 256 ^ (1 - 1)
    BY <1>7
  <2>4. 256 ^ (1 - 1) = 1
    OBVIOUS
  <2> QED
    BY <1>5, <2>1, <2>2, <2>3, <2>4
<1>9. 2 \in 1..w => f[2] = b1 + b2 * 256
  <2> HAVE 2 \in 1..w
  <2>1. 2 - 1 = 1 /\ 1 \in 1..w
    OBVIOUS
  <2>2. f[1] = b1
    BY <1>8, <2>1
  <2>3. f[2] = f[2 - 1] + b[2] * 256 ^ (2 - 1)
    BY <1>7
  <2>4. 256 ^ (2 - 1) = 256
    OBVIOUS
  <2> QED
    BY <1>5, <2>1, <2>2, <2>3, <2>4
<1>10. 3 \in 1..w => f[3] = b1 + b2 * 256 + b3 * 65536
  <2> HAVE 3 \in 1..w
  <2>1. 3 - 1 = 2 /\ 2 \in 1..w
    OBVIOUS
  <2>2. f[2] = b1 + b2 * 256
    BY <1>9, <2>1
  <2>3. f[3] = f[3 - 1] + b[3] * 256 ^ (3 - 1)
    BY <1>7
  <2>4. 256 ^ (3 - 1) = 65536
    OBVIOUS
  <2> QED
    BY <1>5, <2>1, <2>2, <2>3, <2>4
<1>11. 4 \in 1..w => f[4] = b1 + b2 * 256 + b3 * 65536 + b4 * 16777216
  <2> HAVE 4 \in 1..w
  <2>1. 4 - 1 = 3 /\ 3 \in 1..w
    OBVIOUS
  <2>2. f[3] = b1 + b2 * 256 + b3 * 65536
    BY <1>10, <2>1
  <2>3. f[4] = f[4 - 1] + b[4] * 256 ^ (4 - 1)
    BY <1>7
  <2>4. 256 ^ (4 - 1) = 16777216
    OBVIOUS
  <2> QED
    BY <1>5, <2>1, <2>2, <2>3, <2>4
<1>12. /\ u = b1 + 256 * q1 /\ q1 = b2 + 256 * q2
       /\ q2 = b3 + 256 * q3 /\ q3 = b4 + 256 * (q3 \div 256)
  BY <1>1, <1>4
<1>13. DecodeUnsigned(b, id) = u
  <2>1. CASE w = 1
    <3>1. u < 256
      BY <2>1, Powers DEF Within
    <3>2. u = b1
      BY <1>4, <3>1
    <3> QED
      BY <1>7, <1>8, <2>1, <3>2
  <2>2. CASE w = 2
    <3>1. u < 65536
      BY <2>2, Powers DEF Within
    <3>2. q2 = 0
      BY <1>2, <3>1
    <3>3. f[2] = b1 + b2 * 256
      BY <1>9, <2>2
    <3> QED
      BY <1>7, <1>12, <2>2, <3>2, <3>3
  <2>3. CASE w = 3
    <3>1. u < 16777216
      BY <2>3, Powers DEF Within
    <3>2. q3 = 0
      BY <1>2, <3>1
    <3>3. f[3] = b1 + b2 * 256 + b3 * 65536
      BY <1>10, <2>3
    <3> QED
      BY <1>7, <1>12, <2>3, <3>2, <3>3
  <2>4. CASE w = 4
    <3>1. u < 4294967296
      BY <2>4, Powers DEF Within
    <3>2. q3 = b4
      <4>1. q3 < 256
        BY <1>2, <3>1
      <4> QED
        BY <1>4, <4>1
    <3>3. f[4] = b1 + b2 * 256 + b3 * 65536 + b4 * 16777216
      BY <1>11, <2>4
    <3> QED
      BY <1>7, <1>12, <2>4, <3>2, <3>3
  <2>5. w \in {1, 2, 3, 4}
    OBVIOUS
  <2> QED
    BY <2>1, <2>2, <2>3, <2>4, <2>5
<1> QED
  BY <1>3, <1>6, <1>13 DEF b

\* Rounding finds a nearest step, and none beyond the bounds.
LEMMA RoundIsNearest ==
  ASSUME NEW halves \in Int
  PROVE  Round(halves) \in Int /\ 2 * Round(halves) - halves \in -1..1
<1>1. PICK below \in Int : below = halves \div 2
  OBVIOUS
<1>2. CASE halves % 2 = 0
  <2>1. halves = 2 * below
    BY <1>1, <1>2
  <2>2. Round(halves) = below
    BY <1>1, <1>2 DEF Round
  <2> QED
    BY <2>1, <2>2
<1>3. CASE halves % 2 # 0
  <2>1. halves = 2 * below + 1
    BY <1>1, <1>3
  <2>2. Round(halves) = IF below % 2 = 0 THEN below ELSE below + 1
    BY <1>1, <1>3 DEF Round
  <2>3. Round(halves) \in {below, below + 1}
    BY <2>2
  <2> QED
    BY <2>1, <2>3
<1> QED
  BY <1>2, <1>3

\* A number that its object holds arrives as the nearest step.
LEMMA RoundStaysWithin ==
  ASSUME NEW a \in Int, NEW b \in Int, NEW halves \in (2 * a)..(2 * b)
  PROVE  Round(halves) \in a..b
<1>1. PICK below \in Int : below = halves \div 2
  OBVIOUS
<1>2. CASE halves % 2 = 0
  <2>1. halves = 2 * below
    BY <1>1, <1>2
  <2>2. Round(halves) = below
    BY <1>1, <1>2 DEF Round
  <2>3. below \in a..b
    BY <2>1
  <2> QED
    BY <2>2, <2>3
<1>3. CASE halves % 2 # 0
  <2>1. halves = 2 * below + 1
    BY <1>1, <1>3
  <2>2. Round(halves) = IF below % 2 = 0 THEN below ELSE below + 1
    BY <1>1, <1>3 DEF Round
  <2>3. below \in a..b /\ below + 1 \in a..b
    BY <2>1
  <2> QED
    BY <2>2, <2>3
<1> QED
  BY <1>2, <1>3

\* Half of what an object of so many bytes tells apart, and its bounds.
IsHalf(h) == h \in {128, 32768, 8388608, 2147483648}

HalfRange(id, w, h) ==
  /\ 256 ^ w = 2 * h /\ 256 ^ w \div 2 = h
  /\ IsHalf(h)
  /\ Minimum(id) = IF Signed(id) THEN -h ELSE 0
  /\ Maximum(id) = IF Signed(id) THEN h - 1 ELSE 2 * h - 1

\* What an object of a width can hold.
LEMMA BoundsOfWidth ==
  ASSUME NEW id, NEW w \in 1..4, w = MeasTypes[id].length
  PROVE  \E h \in Nat : HalfRange(id, w, h)
<1>1. Bits(id) = IF Signed(id) THEN 8 * w - 1 ELSE 8 * w
  BY DEF Bits
<1>2. CASE w = 1
  <2>1. 256 ^ w = 256 /\ 2 ^ (8 * w) = 256 /\ 2 ^ (8 * w - 1) = 128
    BY <1>2
  <2> QED
    BY <1>1, <2>1 DEF Minimum, Maximum, HalfRange, IsHalf
<1>3. CASE w = 2
  <2>1. 256 ^ w = 65536 /\ 2 ^ (8 * w) = 65536 /\ 2 ^ (8 * w - 1) = 32768
    BY <1>3
  <2> QED
    BY <1>1, <2>1 DEF Minimum, Maximum, HalfRange, IsHalf
<1>4. CASE w = 3
  <2>1. 256 ^ w = 16777216 /\ 2 ^ (8 * w) = 16777216 /\ 2 ^ (8 * w - 1) = 8388608
    BY <1>4
  <2> QED
    BY <1>1, <2>1 DEF Minimum, Maximum, HalfRange, IsHalf
<1>5. CASE w = 4
  <2>1. 256 ^ w = 4294967296 /\ 2 ^ (8 * w) = 4294967296 /\ 2 ^ (8 * w - 1) = 2147483648
    BY <1>5
  <2> QED
    BY <1>1, <2>1 DEF Minimum, Maximum, HalfRange, IsHalf
<1>6. w \in {1, 2, 3, 4}
  OBVIOUS
<1> QED
  BY <1>2, <1>3, <1>4, <1>5, <1>6

IsResidue(u, r, m) == u = r % m /\ u < m /\ u = IF r < 0 THEN r + m ELSE r

\* The byte pattern of a signed number, by the size of its object.
LEMMA Residues ==
  ASSUME NEW h \in Nat, IsHalf(h), NEW m, m = 2 * h, NEW r \in Int, r >= -h, r < m
  PROVE  \E u \in Nat : IsResidue(u, r, m)
<1>1. CASE h = 128
  BY <1>1 DEF IsResidue
<1>2. CASE h = 32768
  BY <1>2 DEF IsResidue
<1>3. CASE h = 8388608
  BY <1>3 DEF IsResidue
<1>4. CASE h = 2147483648
  BY <1>4 DEF IsResidue
<1> QED
  BY <1>1, <1>2, <1>3, <1>4 DEF IsHalf

\* For any width of one to four bytes and any value a control lets through:
\* encode_scaled fits it, receiver and device read the same number back, and it
\* is one of the nearest to what was asked.
THEOREM NumbersArrive ==
  ASSUME NEW id, Fixed(id), MeasTypes[id].length \in 1..4, NEW halves \in Accepted(id)
  PROVE  LET bytes == EncodeScaled(halves, id) IN
         /\ Fits(halves, id)
         /\ DecodeScaled(bytes, id) = DeviceNumber(bytes, id)
         /\ 2 * DecodeScaled(bytes, id) - halves \in -1..1
<1>1. PICK w \in 1..4 : w = MeasTypes[id].length
  OBVIOUS
<1>2. PICK h \in Nat :
        /\ 256 ^ w = 2 * h /\ 256 ^ w \div 2 = h
        /\ IsHalf(h)
        /\ Minimum(id) = IF Signed(id) THEN -h ELSE 0
        /\ Maximum(id) = IF Signed(id) THEN h - 1 ELSE 2 * h - 1
  <2>1. \E h \in Nat : HalfRange(id, w, h)
    BY <1>1, BoundsOfWidth
  <2> QED
    BY <2>1 DEF HalfRange
<1>3. PICK a, b \in Int : a = Minimum(id) /\ b = Maximum(id)
  BY <1>2
<1>4. halves \in (2 * a)..(2 * b) /\ halves \in Int
  BY <1>3 DEF Accepted
<1>5. PICK r \in a..b : r = Round(halves) /\ 2 * r - halves \in -1..1
  BY <1>4, RoundStaysWithin, RoundIsNearest
<1>6. Fits(halves, id)
  BY <1>3, <1>5 DEF Fits
<1>7. PICK m \in Nat : m = 2 * h
  OBVIOUS
<1>8. PICK u \in Nat : u = r % m /\ u < m /\ u = IF r < 0 THEN r + m ELSE r
  <2>1. r \in Int /\ r >= -h /\ r < m
    BY <1>2, <1>3, <1>7
  <2>2. PICK u \in Nat : IsResidue(u, r, m)
    BY <1>2, <1>7, <2>1, Residues
  <2> QED
    BY <2>2 DEF IsResidue
<1> DEFINE bytes == EncodeScaled(halves, id)
<1>9. bytes = LittleEndian(u, w)
  BY <1>1, <1>2, <1>5, <1>7, <1>8 DEF EncodeScaled
<1>10. Len(bytes) = w /\ DecodeUnsigned(bytes, id) = u
  <2>1. u < 256 ^ w
    BY <1>2, <1>7, <1>8
  <2>2. Len(LittleEndian(u, w)) = w /\ DecodeUnsigned(LittleEndian(u, w), id) = u
    BY <2>1, LittleEndianIsUndone DEF Within
  <2> QED
    BY <1>9, <2>2
<1> HIDE DEF bytes
<1>11. 256 ^ Len(bytes) = m /\ 256 ^ Len(bytes) \div 2 = h
  BY <1>2, <1>7, <1>10
<1>12. DecodeScaled(bytes, id) = IF Signed(id) /\ u > b THEN u - m ELSE u
  BY <1>3, <1>10, <1>11 DEF DecodeScaled
<1>13. DeviceNumber(bytes, id) = IF Signed(id) /\ u >= h THEN u - m ELSE u
  BY <1>10, <1>11 DEF DeviceNumber
<1>14. DecodeScaled(bytes, id) = r
  <2>1. CASE Signed(id)
    BY <1>2, <1>3, <1>7, <1>8, <1>12, <2>1
  <2>2. CASE ~Signed(id)
    BY <1>2, <1>3, <1>7, <1>8, <1>12, <2>2
  <2> QED
    BY <2>1, <2>2
<1>15. DeviceNumber(bytes, id) = r
  <2>1. CASE Signed(id)
    BY <1>2, <1>3, <1>7, <1>8, <1>13, <2>1
  <2>2. CASE ~Signed(id)
    BY <1>2, <1>3, <1>7, <1>8, <1>13, <2>2
  <2> QED
    BY <2>1, <2>2
<1> QED
  BY <1>5, <1>6, <1>14, <1>15 DEF bytes

----------------------------------------------------------------------------
\* What is asked of a control: numbers, lengths, switches, events.

\* A number is an object of one to four bytes.
LEMMA NumericObjects ==
  ASSUME NEW id \in DOMAIN MeasTypes, Kind(id) = "numeric"
  PROVE  Fixed(id) /\ MeasTypes[id].length \in 1..4
<1>1. Fixed(id)
  BY TableAssumption DEF Fixed
<1>2. MeasTypes[id].length \in Nat \ {0}
  BY MeasTypesAssumption
<1>3. MeasTypes[id].format \notin LengthPrefixed
  BY <1>1 DEF Fixed, LengthPrefixed
<1>4. MeasTypes[id].length <= 4
  BY <1>3, TableAssumption
<1> QED
  BY <1>1, <1>2, <1>4

\* What a run checks for the numbers of its table.
LEMMA EveryNumberIsTheNearest == EveryNumberArrives
<1> SUFFICES ASSUME NEW id \in Numeric, NEW halves \in Accepted(id)
             PROVE  LET bytes == EncodeScaled(halves, id) IN
                    /\ Fits(halves, id)
                    /\ DecodeScaled(bytes, id) = DeviceNumber(bytes, id)
                    /\ 2 * DecodeScaled(bytes, id) - halves \in -1..1
  BY DEF EveryNumberArrives
<1>1. id \in DOMAIN MeasTypes /\ Kind(id) = "numeric"
  BY DEF Numeric
<1> QED
  BY <1>1, NumericObjects, NumbersArrive

\* The log tells when a write does not fit the link, and numbers always do.
LEMMA NoWriteIsCut == NoWriteIsCutInSilence
<1>1. ASSUME NEW length \in 1..300, NEW mtu \in {LeastMtu, 64, 131, 247},
             MtuNote(length, mtu) # "too large"
      PROVE  length + AttWriteOverhead <= mtu
  BY <1>1 DEF MtuNote, LeastMtu, AttWriteOverhead, DefaultMtuPayload, NoMtu, ComfortableMtu
<1>2. ASSUME NEW id \in Known, MeasTypes[id].format \notin LengthPrefixed
      PROVE  MtuNote(1 + MeasTypes[id].length + SealedBy, LeastMtu) = "nothing"
  <2>1. MeasTypes[id].length \in Nat /\ MeasTypes[id].length <= 4
    BY <1>2, TableAssumption, MeasTypesAssumption DEF Known
  <2>2. PICK n \in Nat : n = MeasTypes[id].length /\ n <= 4
    BY <2>1
  <2>3. 1 + n + SealedBy <= DefaultMtuPayload
    BY <2>2 DEF SealedBy, DefaultMtuPayload
  <2> QED
    BY <2>2, <2>3 DEF MtuNote
<1> QED
  BY <1>1, <1>2 DEF NoWriteIsCutInSilence

\* A switch.
LEMMA SwitchesAreUnderstood ==
  ASSUME NEW id \in Known, NEW on \in BOOLEAN, Kind(id) = "binary"
  PROVE  LET value == SwitchBytes(on) IN
         /\ Travels(id, value) /\ SwitchIsOn(value) = on
         /\ DeviceValue(value, Codec(id, FALSE), id) = on
<1> DEFINE value == SwitchBytes(on)
<1>1. Fixed(id) /\ MeasTypes[id].length = 1 /\ MeasTypes[id].format = "unsigned"
  BY TableAssumption DEF Fixed, Known
<1>2. /\ value \in Seq(Bytes) /\ Len(value) = 1
      /\ value[1] = IF on THEN 1 ELSE 0
  BY DEF SwitchBytes, Bytes
<1> HIDE DEF value
<1>3. Travels(id, value)
  BY <1>1, <1>2, FixedTravels
<1>4. (value[1] # 0) = on
  BY <1>2
<1>5. Codec(id, FALSE) = "binary"
  BY <1>1 DEF Codec
<1>6. DeviceValue(value, "binary", id) = on
  BY <1>4 DEF DeviceValue
<1> QED
  BY <1>3, <1>4, <1>5, <1>6 DEF SwitchIsOn, value

\* A button.
LEMMA EventsAreUnderstood ==
  ASSUME NEW id \in Known, NEW code \in EventValues(id)
  PROVE  LET value == EventPayload(id, code)
             atDevice == DeviceValue(value, Codec(id, TRUE), id)
         IN Travels(id, value) /\ code = IF id = Dimmer THEN atDevice[1] ELSE atDevice
<1>1. id \in {58, 60} /\ code \in Vocabulary[id]
  BY DEF EventValues
<1>2. Fixed(id) /\ MeasTypes[id].length = IF id = 58 THEN 1 ELSE 2
  BY <1>1, TableAssumption DEF Fixed
<1>3. code \in Bytes
  BY <1>1, TableAssumption, VocabularyAssumption DEF Bytes
<1>4. Codec(id, TRUE) = "event"
  BY <1>1 DEF Codec
<1>5. CASE id = 58
  <2> DEFINE value == <<code>>
  <2>1. EventPayload(id, code) = value
    BY <1>5 DEF EventPayload, Dimmer
  <2>2. value \in Seq(Bytes) /\ Len(value) = 1 /\ value[1] = code
    BY <1>3
  <2> HIDE DEF value
  <2>3. Travels(id, value)
    BY <1>2, <1>5, <2>2, FixedTravels
  <2>4. DeviceValue(value, "event", id) = code
    BY <2>2 DEF DeviceValue
  <2>5. id # Dimmer
    BY <1>5 DEF Dimmer
  <2> QED
    BY <1>4, <2>1, <2>3, <2>4, <2>5
<1>6. CASE id = 60
  <2> DEFINE value == <<code, 1>>
  <2>1. EventPayload(id, code) = value
    BY <1>6 DEF EventPayload, Dimmer
  <2>2. value \in Seq(Bytes) /\ Len(value) = 2 /\ value[1] = code
    BY <1>3 DEF Bytes
  <2> HIDE DEF value
  <2>3. Travels(id, value)
    <3>1. MeasTypes[id].length = Len(value)
      BY <1>2, <1>6, <2>2
    <3> QED
      BY <1>2, <2>2, <3>1, FixedTravels
  <2>4. DeviceValue(value, "event", id)[1] = code
    BY <2>2 DEF DeviceValue
  <2> QED
    BY <1>4, <1>6, <2>1, <2>3, <2>4 DEF Dimmer
<1> QED
  BY <1>1, <1>5, <1>6

\* A number of another width is not shown, and is not taken from a read.
LEMMA OtherWidthsAreNotShown ==
  ASSUME NEW id \in Known, NEW value \in Seq(Bytes), Kind(id) = "numeric"
  PROVE  (NumberShown(value, id) = <<>>) = (DecodeObject(id, <<id>> \o value).is # "value")
<1>1. Fixed(id) /\ MeasTypes[id].length \in Nat /\ id \in DOMAIN MeasTypes /\ id \in Bytes
  BY NumericObjects, MeasTypesAssumption DEF Known, Bytes
<1> DEFINE p == <<id>> \o value
<1>2. p # <<>> /\ p[1] = id /\ Len(p) = 1 + Len(value) /\ Len(value) \in Nat
  BY <1>1, InFront
<1> HIDE DEF p
<1>3. ~HasNoLength(p, 1) /\ ValueLength(p, 1) = MeasTypes[id].length
  BY <1>1, <1>2, FixedObjects
<1>4. PICK n, m \in Nat : n = Len(value) /\ m = MeasTypes[id].length /\ Len(p) = 1 + n
  BY <1>1, <1>2
<1>5. DecodeObject(id, p) = IF n # m THEN Refused("broken") ELSE [is |-> "value", value |-> Tail(p)]
  <2>1. (Len(p) # 1 + ValueLength(p, 1)) <=> n # m
    BY <1>3, <1>4
  <2> QED
    BY <1>1, <1>2, <1>3, <2>1 DEF DecodeObject
<1>6. (DecodeObject(id, p).is # "value") <=> n # m
  BY <1>5 DEF Refused
<1>7. (NumberShown(value, id) = <<>>) <=> n # m
  <2>1. NumberShown(value, id) = IF n = m THEN <<DecodeScaled(value, id)>> ELSE <<>>
    BY <1>4 DEF NumberShown
  <2>2. <<DecodeScaled(value, id)>> # <<>>
    OBVIOUS
  <2> QED
    BY <2>1, <2>2
<1> QED
  BY <1>6, <1>7 DEF p

\* What is offered has one control.
LEMMA TheOfferedAreControlled ==
  ASSUME NEW id \in Known, Offered(id), Kind(id) # "raw"
  PROVE  {1} = Switches(<<id>>) \cup Numbers(<<id>>) \cup Texts(<<id>>)
                 \cup {button[1] : button \in Buttons(<<id>>)}
<1> DEFINE layout == <<id>>
<1>1. Len(layout) = 1 /\ layout[1] = id
  OBVIOUS
<1> HIDE DEF layout
<1>2. OfferedOf(layout) = {1}
  BY <1>1 DEF OfferedOf
<1>3. \A kind : ControlsOf(layout, kind) = IF Kind(id) = kind THEN {1} ELSE {}
  BY <1>1, <1>2 DEF ControlsOf
<1>4. Kind(id) \in {"string", "binary", "event", "numeric"}
  <2>1. Kind(id) \in {"raw", "string", "binary", "event", "numeric", "meta"}
    <3>1. MeasTypes[id].shape \in {"binary", "sensor", "event", "other"}
      BY MeasTypesAssumption DEF Known
    <3>2. CASE MeasTypes[id].format \in LengthPrefixed
      BY <3>2 DEF Kind, LengthPrefixed
    <3>3. CASE MeasTypes[id].format \notin LengthPrefixed
      BY <3>1, <3>3 DEF Kind
    <3> QED
      BY <3>2, <3>3
  <2>2. Kind(id) # "meta"
    BY DEF Offered
  <2> QED
    BY <2>1, <2>2
<1>5. Kind(id) = "event" => \E code : code \in EventValues(id)
  <2> HAVE Kind(id) = "event"
  <2>1. id \in {58, CommandObject, 60} /\ id # CommandObject
    BY TableAssumption DEF Offered, ForbiddenEntries, Known
  <2>2. id \in {58, 60}
    BY <2>1
  <2>3. Vocabulary[id] # {}
    BY <2>2, TableAssumption
  <2> QED
    BY <2>2, <2>3 DEF EventValues
<1>6. {button[1] : button \in Buttons(layout)} = IF Kind(id) = "event" THEN {1} ELSE {}
  <2>1. CASE Kind(id) = "event"
    <3>1. Buttons(layout) = {1} \X EventValues(id)
      BY <1>1, <1>3, <2>1 DEF Buttons
    <3>2. PICK code : code \in EventValues(id)
      BY <1>5, <2>1
    <3>3. <<1, code>> \in Buttons(layout) /\ <<1, code>>[1] = 1
      BY <3>1, <3>2
    <3>4. \A button \in Buttons(layout) : button[1] = 1
      BY <3>1
    <3> QED
      BY <2>1, <3>3, <3>4
  <2>2. CASE Kind(id) # "event"
    <3>1. Buttons(layout) = {}
      BY <1>3, <2>2 DEF Buttons
    <3> QED
      BY <2>2, <3>1
  <2> QED
    BY <2>1, <2>2
<1>7. /\ Switches(layout) = IF Kind(id) = "binary" THEN {1} ELSE {}
      /\ Numbers(layout) = IF Kind(id) = "numeric" THEN {1} ELSE {}
      /\ Texts(layout) = IF Kind(id) = "string" THEN {1} ELSE {}
  BY <1>3 DEF Switches, Numbers, Texts
<1> QED
  BY <1>4, <1>6, <1>7 DEF layout

\* Of the entries of one object no two are called the same.
LEMMA InstancesAreNumbered ==
  ASSUME NEW layout \in Seq(Bytes), NEW j \in 1..Len(layout), NEW k \in 1..Len(layout),
         j < k, layout[j] = layout[k]
  PROVE  InstanceNumber(layout, j) \in 1..(InstanceNumber(layout, k) - 1)
<1> DEFINE same == {i \in 1..Len(layout) : layout[i] = layout[k]}
           Up(i) == {a \in same : a <= i}
<1>1. Len(layout) \in Nat
  BY LenProperties
<1>2. same = {i \in 1..Len(layout) : layout[i] = layout[j]}
  OBVIOUS
<1>3. IsFiniteSet(same) /\ Cardinality(same) \in Nat
  <2>1. IsFiniteSet(1..Len(layout)) /\ same \in SUBSET (1..Len(layout))
    BY <1>1, FS_Interval
  <2> QED
    BY <2>1, FS_Subset, FS_CardinalityType
<1>4. j \in same /\ k \in same /\ j \in Int /\ k \in Int /\ \A a \in same : a \in Int
  BY <1>1
<1> HIDE DEF same
<1>5. /\ Up(j) \in SUBSET Up(k) /\ k \in Up(k) /\ k \notin Up(j) /\ j \in Up(j)
      /\ Up(k) \in SUBSET same
  <2>1. \A a \in same : a <= j => a <= k
    BY <1>4
  <2>2. k <= k /\ j <= j /\ ~(k <= j)
    BY <1>4
  <2> QED
    BY <1>4, <2>1, <2>2
<1> HIDE DEF Up
<1>6. /\ IsFiniteSet(Up(k)) /\ IsFiniteSet(Up(j))
      /\ Cardinality(Up(j)) \in Nat /\ Cardinality(Up(k)) \in Nat
      /\ Cardinality(Up(k)) <= Cardinality(same)
  <2>1. IsFiniteSet(Up(k)) /\ Cardinality(Up(k)) <= Cardinality(same)
    BY <1>3, <1>5, FS_Subset
  <2>2. IsFiniteSet(Up(j))
    BY <1>5, <2>1, FS_Subset
  <2> QED
    BY <2>1, <2>2, FS_CardinalityType
<1>7. Cardinality(Up(j)) # 0
  BY <1>5, <1>6, FS_EmptySet
<1>8. Cardinality(Up(j)) <= Cardinality(Up(k)) /\ Cardinality(Up(j)) # Cardinality(Up(k))
  <2>1. Up(j) # Up(k)
    BY <1>5
  <2> QED
    BY <1>5, <1>6, <2>1, FS_Subset
<1>9. ~(Cardinality(same) < 2)
  BY <1>3, <1>6, <1>7, <1>8
<1>10. InstanceNumber(layout, j) = Cardinality(Up(j))
  BY <1>2, <1>9 DEF InstanceNumber, Up
<1>11. InstanceNumber(layout, k) = Cardinality(Up(k))
  BY <1>9 DEF InstanceNumber, Up, same
<1> QED
  BY <1>6, <1>7, <1>8, <1>10, <1>11

----------------------------------------------------------------------------
\* Texts.  What is read at a place depends on what is read further on.

Letters == 0..2047

SpeltAt(bytes, from, i) ==
  IF i > Len(bytes) THEN <<>>
  ELSE IF bytes[i] < 128 THEN <<bytes[i]>> \o from[i + 1]
  ELSE IF bytes[i] \in 194..223 /\ i < Len(bytes) /\ bytes[i + 1] \in 128..191
  THEN <<64 * (bytes[i] - 192) + bytes[i + 1] - 128>> \o from[i + 2]
  ELSE <<Replacement>> \o from[i + 1]

Spelt(bytes, from) == [i \in 1..(Len(bytes) + 1) |-> SpeltAt(bytes, from, i)]

\* Two readings that agree further on agree here.
LEMMA SpellingLooksAhead ==
  ASSUME NEW p, Len(p) \in Nat, NEW o \in 1..(Len(p) + 1), NEW g, NEW h,
         \A i \in (o + 1)..(Len(p) + 1) : g[i] = h[i]
  PROVE  SpeltAt(p, g, o) = SpeltAt(p, h, o)
<1>1. CASE o > Len(p)
  BY <1>1 DEF SpeltAt
<1>2. CASE ~(o > Len(p))
  <2>1. o + 1 \in (o + 1)..(Len(p) + 1) /\ (o < Len(p) => o + 2 \in (o + 1)..(Len(p) + 1))
    BY <1>2
  <2>2. g[o + 1] = h[o + 1] /\ (o < Len(p) => g[o + 2] = h[o + 2])
    BY <2>1
  <2> QED
    BY <1>2, <2>2 DEF SpeltAt
<1> QED
  BY <1>1, <1>2

\* There is a reading: it is built up from the end of the text.
LEMMA SpellingIsDefined ==
  ASSUME NEW p, Len(p) \in Nat
  PROVE  \E f : f = Spelt(p, f)
<1> DEFINE N == Len(p)
           T == {k \in 1..(N + 1) : \E g : \A o \in k..(N + 1) : g[o] = SpeltAt(p, g, o)}
<1>1. N + 1 \in T
  <2> DEFINE g == [o \in (N + 1)..(N + 1) |-> <<>>]
  <2>1. ASSUME NEW o \in (N + 1)..(N + 1) PROVE g[o] = SpeltAt(p, g, o)
    BY DEF SpeltAt
  <2> HIDE DEF g
  <2> QED
    BY <2>1
<1>2. ASSUME NEW k \in 1..N, k + 1 \in T PROVE k \in T
  <2>1. PICK g : \A o \in (k + 1)..(N + 1) : g[o] = SpeltAt(p, g, o)
    BY <1>2
  <2> DEFINE h == [o \in k..(N + 1) |-> IF o = k THEN SpeltAt(p, g, k) ELSE g[o]]
  <2>2. \A o \in (k + 1)..(N + 1) : h[o] = g[o]
    OBVIOUS
  <2>3. ASSUME NEW o \in k..(N + 1) PROVE h[o] = SpeltAt(p, h, o)
    <3>1. h[o] = SpeltAt(p, g, o)
      BY <2>1
    <3>2. o \in 1..(Len(p) + 1) /\ \A i \in (o + 1)..(Len(p) + 1) : i \in (k + 1)..(N + 1)
      OBVIOUS
    <3>3. \A i \in (o + 1)..(Len(p) + 1) : g[i] = h[i]
      BY <2>2, <3>2
    <3> HIDE DEF h
    <3> QED
      BY <3>1, <3>2, <3>3, SpellingLooksAhead
  <2>4. k \in 1..(N + 1)
    OBVIOUS
  <2> HIDE DEF h
  <2> QED
    BY <2>3, <2>4
<1> HIDE DEF T
<1>3. 1 \in T
  <2>1. \A k \in 1..(N + 1) : k \in T
    BY <1>1, <1>2, Downward
  <2> QED
    BY <2>1
<1>4. PICK g : \A o \in 1..(N + 1) : g[o] = SpeltAt(p, g, o)
  BY <1>3 DEF T
<1> DEFINE f == [o \in 1..(N + 1) |-> g[o]]
<1>5. ASSUME NEW o \in 1..(N + 1) PROVE f[o] = SpeltAt(p, f, o)
  <2>1. f[o] = SpeltAt(p, g, o)
    BY <1>4
  <2>2. \A i \in (o + 1)..(Len(p) + 1) : i \in 1..(N + 1)
    OBVIOUS
  <2>3. \A i \in (o + 1)..(Len(p) + 1) : g[i] = f[i]
    BY <2>2
  <2> HIDE DEF f
  <2> QED
    BY <2>1, <2>3, SpellingLooksAhead
<1>6. f = [o \in 1..(N + 1) |-> f[o]]
  OBVIOUS
<1> HIDE DEF f
<1>7. f = Spelt(p, f)
  BY <1>5, <1>6 DEF Spelt
<1> QED
  BY <1>7

\* Utf8Text is that reading at the first byte.
LEMMA SpellingUnfolds ==
  ASSUME NEW p, Len(p) \in Nat
  PROVE  \E f : /\ Utf8Text(p) = f[1]
                /\ \A o \in 1..(Len(p) + 1) : f[o] = SpeltAt(p, f, o)
<1>1. PICK g : g = Spelt(p, g)
  BY SpellingIsDefined
<1>2. \E f : f = Spelt(p, f) /\ Utf8Text(p) = f[1]
  BY <1>1 DEF Utf8Text, Spelt, SpeltAt
<1>3. PICK f : f = Spelt(p, f) /\ Utf8Text(p) = f[1]
  BY <1>2
<1>4. \A o \in 1..(Len(p) + 1) : f[o] = SpeltAt(p, f, o)
  BY <1>3 DEF Spelt
<1> QED
  BY <1>3, <1>4

\* A letter in bytes: one, or two.
OneByte(c, b) == c < 128 /\ b = <<c>>

TwoBytes(c, b) ==
  \E x \in 194..223, y \in 128..191 :
    ~(c < 128) /\ b = <<x, y>> /\ 64 * (x - 192) + y - 128 = c

\* A letter is one byte of 7 bits, or a leading byte and one that continues.
LEMMA ALetterInBytes ==
  ASSUME NEW c \in Letters
  PROVE  Utf8(c) \in Seq(Bytes) /\ (OneByte(c, Utf8(c)) \/ TwoBytes(c, Utf8(c)))
<1>1. c \in Nat /\ c <= 2047
  BY DEF Letters
<1>2. CASE c < 128
  <2>1. Utf8(c) = <<c>> /\ c \in Bytes
    BY <1>1, <1>2 DEF Utf8, Bytes
  <2> QED
    BY <1>2, <2>1 DEF OneByte
<1>3. CASE ~(c < 128)
  <2>1. PICK h, l \in Nat : h = c \div 64 /\ l = c % 64
    BY <1>1
  <2>2. h \in 2..31 /\ l \in 0..63 /\ 64 * h + l = c
    BY <1>1, <1>3, <2>1
  <2>3. 192 + h \in 194..223 /\ 128 + l \in 128..191
    BY <2>2
  <2>4. PICK x \in 194..223 : x = 192 + h
    BY <2>3
  <2>5. PICK y \in 128..191 : y = 128 + l
    BY <2>3
  <2>6. 64 * (x - 192) + y - 128 = c
    BY <2>2, <2>4, <2>5
  <2>7. Utf8(c) = <<x, y>>
    BY <1>3, <2>1, <2>4, <2>5 DEF Utf8
  <2>8. x \in Bytes /\ y \in Bytes
    BY DEF Bytes
  <2> QED
    BY <1>3, <2>6, <2>7, <2>8 DEF TwoBytes
<1> QED
  BY <1>2, <1>3

Spelling(text) == [i \in 1..Len(text) |-> Utf8(text[i])]

\* What a text is in bytes, letter by letter.
LEMMA SpellingIsASeq ==
  ASSUME NEW text \in Seq(Letters)
  PROVE  /\ Spelling(text) \in Seq(Seq(Bytes)) /\ Len(Spelling(text)) = Len(text)
         /\ Len(text) \in Nat
         /\ \A i \in 1..Len(text) : text[i] \in Letters /\ Spelling(text)[i] = Utf8(text[i])
<1>1. Len(text) \in Nat /\ \A i \in 1..Len(text) : text[i] \in Letters
  BY LenProperties, ElementOfSeq
<1>2. PICK n \in Nat : n = Len(text)
  BY <1>1
<1>3. Spelling(text) = [i \in 1..n |-> Utf8(text[i])]
  BY <1>2 DEF Spelling
<1>4. \A i \in 1..n : Utf8(text[i]) \in Seq(Bytes)
  BY <1>1, <1>2, ALetterInBytes
<1>5. Spelling(text) \in [1..n -> Seq(Bytes)]
  BY <1>3, <1>4
<1>6. Spelling(text) \in Seq(Seq(Bytes))
  BY <1>5, SeqDef
<1>7. Len(Spelling(text)) = n /\ \A i \in 1..n : Spelling(text)[i] = Utf8(text[i])
  BY <1>3
<1> QED
  BY <1>1, <1>2, <1>6, <1>7

\* What is spelt is read.
LEMMA SpeltIsRead ==
  ASSUME NEW text \in Seq(Letters)
  PROVE  Utf8Text(FlattenSeq(Spelling(text))) = text
<1> DEFINE seqs == Spelling(text)
           flat == FlattenSeq(seqs)
<1>1. PICK N \in Nat : N = Len(text)
  BY SpellingIsASeq
<1>2. /\ seqs \in Seq(Seq(Bytes)) /\ Len(seqs) = N
      /\ \A i \in 1..N : text[i] \in Letters /\ seqs[i] = Utf8(text[i])
  BY <1>1, SpellingIsASeq
<1> HIDE DEF seqs
<1>3. PICK pre : Beginnings(Bytes, seqs, pre)
  BY <1>2, FlattenHasBeginnings
<1>4. flat \in Seq(Bytes) /\ Len(flat) \in Nat
  BY <1>2, FlattenIsASeq
<1>5. PICK f : /\ Utf8Text(flat) = f[1]
               /\ \A o \in 1..(Len(flat) + 1) : f[o] = SpeltAt(flat, f, o)
  BY <1>4, SpellingUnfolds
<1>6. PICK n \in Nat : n = Len(flat)
  BY <1>4
<1> DEFINE T == {k \in 1..(N + 1) : f[Len(pre[k - 1]) + 1] = SubSeq(text, k, N)}
<1>7. N + 1 \in T
  <2>1. Len(pre[(N + 1) - 1]) = n /\ N + 1 \in 1..(N + 1)
    BY <1>2, <1>3, <1>6 DEF Beginnings
  <2>2. SubSeq(text, N + 1, N) = <<>>
    BY SubSeqEmpty
  <2>3. n + 1 \in 1..(Len(flat) + 1) /\ n + 1 > Len(flat)
    BY <1>6
  <2>4. f[n + 1] = <<>>
    BY <1>5, <2>3 DEF SpeltAt
  <2> QED
    BY <2>1, <2>2, <2>4
<1>8. ASSUME NEW k \in 1..N, k + 1 \in T PROVE k \in T
  <2>1. k \in 1..Len(seqs) /\ (k + 1) - 1 = k /\ k \in 1..(N + 1) /\ k \in 1..Len(text)
        /\ N \in k..Len(text)
    BY <1>1, <1>2
  <2>2. PICK c, b : c = text[k] /\ b = seqs[k]
    OBVIOUS
  <2>3. c \in Letters /\ (OneByte(c, b) \/ TwoBytes(c, b))
    BY <1>2, <2>1, <2>2, ALetterInBytes
  <2>4. PICK s, e, m \in Nat :
          /\ s = Len(pre[k - 1]) /\ e = Len(pre[k]) /\ m = Len(b)
          /\ e = s + m /\ e <= n
          /\ \A j \in 1..m : flat[s + j] = b[j]
    <3>1. seqs \in Seq(Seq(Bytes)) /\ k \in 1..Len(seqs)
      BY <1>2, <2>1
    <3>2. \E s, e, m \in Nat : Placed(seqs, pre, k, s, e, m)
      BY <1>3, <3>1, FlattenPlaces
    <3> QED
      BY <1>6, <2>2, <3>2 DEF Placed
  <2> HIDE DEF flat
  <2>5. f[s + 1] = <<c>> \o f[e + 1]
    <3>1. CASE OneByte(c, b)
      <4>1. b = <<c>> /\ c < 128
        BY <3>1 DEF OneByte
      <4>2. m = 1 /\ b[1] = c
        BY <2>4, <4>1
      <4>3. flat[s + 1] = c /\ e = s + 1
        BY <2>4, <4>2
      <4>4. s + 1 \in 1..(Len(flat) + 1) /\ ~(s + 1 > Len(flat))
        BY <1>6, <2>4, <4>3
      <4>5. f[s + 1] = SpeltAt(flat, f, s + 1)
        BY <1>5, <4>4
      <4> QED
        BY <4>1, <4>3, <4>4, <4>5 DEF SpeltAt
    <3>2. CASE TwoBytes(c, b)
      <4>1. PICK x \in 194..223, y \in 128..191 : b = <<x, y>> /\ 64 * (x - 192) + y - 128 = c
        BY <3>2 DEF TwoBytes
      <4>2. m = 2 /\ b[1] = x /\ b[2] = y
        BY <2>4, <4>1
      <4>3. flat[s + 1] = x /\ flat[s + 2] = y /\ e = s + 2
        BY <2>4, <4>2
      <4>4. /\ s + 1 \in 1..(Len(flat) + 1) /\ ~(s + 1 > Len(flat)) /\ s + 1 < Len(flat)
            /\ (s + 1) + 1 = s + 2 /\ (s + 1) + 2 = e + 1
        BY <1>6, <2>4, <4>3
      <4>5. f[s + 1] = SpeltAt(flat, f, s + 1)
        BY <1>5, <4>4
      <4>6. flat[(s + 1) + 1] = y /\ ~(flat[s + 1] < 128)
        BY <4>3, <4>4
      <4>7. f[s + 1] = <<64 * (x - 192) + y - 128>> \o f[(s + 1) + 2]
        BY <4>3, <4>4, <4>5, <4>6 DEF SpeltAt
      <4> QED
        BY <4>1, <4>4, <4>7
    <3> QED
      BY <2>3, <3>1, <3>2
  <2>6. f[e + 1] = SubSeq(text, k + 1, N)
    BY <1>8, <2>1, <2>4
  <2>7. SubSeq(text, k, N) = <<text[k]>> \o SubSeq(text, k + 1, N)
    BY <2>1, SubSeqRecursiveFirst
  <2>8. f[Len(pre[k - 1]) + 1] = SubSeq(text, k, N)
    BY <2>2, <2>4, <2>5, <2>6, <2>7
  <2> QED
    BY <2>1, <2>8
<1> HIDE DEF T
<1>9. 1 \in T
  <2>1. 1 \in 1..(N + 1)
    OBVIOUS
  <2> QED
    BY <1>7, <1>8, <2>1, Downward
<1>10. f[Len(pre[1 - 1]) + 1] = SubSeq(text, 1, N)
  BY <1>9 DEF T
<1>11. Len(pre[1 - 1]) + 1 = 1
  <2>1. pre[1 - 1] = <<>>
    BY <1>3 DEF Beginnings
  <2> QED
    BY <2>1, EmptySeq
<1>12. SubSeq(text, 1, N) = text
  BY <1>1, SubSeqFull
<1> QED
  BY <1>5, <1>10, <1>11, <1>12 DEF seqs

----------------------------------------------------------------------------
\* Texts as they are sent and refused, and every control.

\* Sequences of one or two elements each, joined.
LEMMA FlattenLength ==
  ASSUME NEW S, NEW seqs \in Seq(Seq(S)), NEW lo \in 1..3, NEW hi \in 1..3,
         NEW N \in Nat, N = Len(seqs), \A i \in 1..N : Len(seqs[i]) \in lo..hi
  PROVE  Len(FlattenSeq(seqs)) \in (lo * N)..(hi * N)
<1>1. PICK pre : Beginnings(S, seqs, pre)
  BY FlattenHasBeginnings
<1> DEFINE T == {i \in Nat : i <= N => Len(pre[i]) \in (lo * i)..(hi * i)}
<1>2. 0 \in T
  <2>1. Len(pre[0]) = 0
    BY <1>1, EmptySeq DEF Beginnings
  <2>2. lo * 0 = 0 /\ hi * 0 = 0
    OBVIOUS
  <2> QED
    BY <2>1, <2>2
<1>3. ASSUME NEW i \in Nat, i \in T PROVE i + 1 \in T
  <2> SUFFICES ASSUME i + 1 <= N PROVE Len(pre[i + 1]) \in (lo * (i + 1))..(hi * (i + 1))
    OBVIOUS
  <2>1. i + 1 \in 1..Len(seqs) /\ (i + 1) - 1 = i
    OBVIOUS
  <2>2. PICK s, e, m \in Nat : Placed(seqs, pre, i + 1, s, e, m)
    BY <1>1, <2>1, FlattenPlaces
  <2>3. s = Len(pre[i]) /\ e = Len(pre[i + 1]) /\ m = Len(seqs[i + 1]) /\ e = s + m
    BY <2>1, <2>2 DEF Placed
  <2>4. s \in (lo * i)..(hi * i)
    BY <1>3, <2>3
  <2>5. m \in lo..hi
    BY <2>1, <2>3
  <2>6. lo * (i + 1) = lo * i + lo /\ hi * (i + 1) = hi * i + hi
    <3>1. \A x \in 1..3 : x * (i + 1) = x * i + x
      OBVIOUS
    <3> QED
      BY <3>1
  <2>7. PICK a, b \in Int : a = lo * i /\ b = hi * i
    OBVIOUS
  <2>8. e \in (a + lo)..(b + hi)
    <3>1. e = s + m
      BY <2>3
    <3>2. a <= s /\ s <= b
      BY <2>4, <2>7
    <3>3. lo <= m /\ m <= hi /\ lo \in Int /\ hi \in Int
      BY <2>5
    <3> QED
      BY <3>1, <3>2, <3>3
  <2> QED
    BY <2>3, <2>6, <2>7, <2>8
<1> HIDE DEF T
<1>4. N \in T
  <2>1. \A n \in Nat : n \in T
    BY <1>2, <1>3, Upward
  <2> QED
    BY <2>1
<1>5. Len(pre[N]) \in (lo * N)..(hi * N)
  BY <1>4 DEF T
<1>6. pre[N] = FlattenSeq(seqs)
  BY <1>1 DEF Beginnings
<1> QED
  BY <1>5, <1>6

\* How long a text is in bytes.
IsLong(text, l) == Len(FlattenSeq(Spelling(text))) = l

\* A text of N letters is as long as N to 2 * N bytes.
LEMMA SpellingLength ==
  ASSUME NEW text \in Seq(Letters), NEW N \in Nat, N = Len(text)
  PROVE  \E l \in Nat :
           /\ IsLong(text, l) /\ l <= 2 * N
           /\ (\A i \in 1..N : text[i] < 128) => l = N
           /\ (\A i \in 1..N : ~(text[i] < 128)) => l = 2 * N
<1> DEFINE seqs == Spelling(text)
<1>1. /\ seqs \in Seq(Seq(Bytes)) /\ Len(seqs) = N
      /\ \A i \in 1..N : text[i] \in Letters /\ seqs[i] = Utf8(text[i])
  BY SpellingIsASeq
<1> HIDE DEF seqs
<1>2. ASSUME NEW i \in 1..N
      PROVE  /\ Len(seqs[i]) \in 1..2
             /\ text[i] < 128 => Len(seqs[i]) = 1
             /\ ~(text[i] < 128) => Len(seqs[i]) = 2
  <2>1. PICK c : c = text[i]
    OBVIOUS
  <2>2. c \in Letters /\ seqs[i] = Utf8(c)
    BY <1>1, <2>1
  <2>3. OneByte(c, seqs[i]) \/ TwoBytes(c, seqs[i])
    BY <2>2, ALetterInBytes
  <2>4. CASE OneByte(c, seqs[i])
    BY <2>1, <2>4 DEF OneByte
  <2>5. CASE TwoBytes(c, seqs[i])
    BY <2>1, <2>5 DEF TwoBytes
  <2> QED
    BY <2>3, <2>4, <2>5
<1>3. PICK l : l = Len(FlattenSeq(seqs))
  OBVIOUS
<1>4. l \in (1 * N)..(2 * N)
  <2>1. 1 \in 1..3 /\ 2 \in 1..3 /\ \A i \in 1..N : Len(seqs[i]) \in 1..2
    BY <1>2
  <2> QED
    BY <1>1, <1>3, <2>1, FlattenLength
<1>5. ASSUME \A i \in 1..N : text[i] < 128 PROVE l = N
  <2>1. \A i \in 1..N : Len(seqs[i]) \in 1..1
    BY <1>2, <1>5
  <2>2. l \in (1 * N)..(1 * N)
    BY <1>1, <1>3, <2>1, FlattenLength
  <2> QED
    BY <2>2
<1>6. ASSUME \A i \in 1..N : ~(text[i] < 128) PROVE l = 2 * N
  <2>1. \A i \in 1..N : Len(seqs[i]) \in 2..2
    BY <1>2, <1>6
  <2>2. l \in (2 * N)..(2 * N)
    BY <1>1, <1>3, <2>1, FlattenLength
  <2> QED
    BY <2>2
<1>7. l \in Nat /\ l <= 2 * N
  BY <1>4
<1>8. IsLong(text, l)
  BY <1>3 DEF seqs, IsLong
<1> QED
  BY <1>5, <1>6, <1>7, <1>8

\* A text that has a length byte arrives, whatever its letters.
TextArrives(text) ==
  LET value == EncodeText(text)
      atDevice == DeviceValue(value, Codec(83, FALSE), 83)
  IN /\ Travels(83, value) /\ TextShown(value) = text
     /\ TextShown(TextObject(atDevice)) = text

\* For any text of letters up to U+07FF whose UTF-8 a length byte can count:
\* async_set_value's bytes are taken, shown as the text that was typed, and
\* shown so again when the device sends back what it holds.
THEOREM TextsArrive ==
  ASSUME NEW text \in Seq(Letters), NEW n \in 0..MaxLength, IsLong(text, n)
  PROVE  TextArrives(text)
<1> DEFINE body == FlattenSeq(Spelling(text))
<1>1. n \in Bytes /\ n = Len(body)
  BY DEF MaxLength, Bytes, IsLong
<1>2. n \in Nat /\ n <= 255
  BY DEF MaxLength
<1>3. body \in Seq(Bytes) /\ Utf8Text(body) = text
  BY SpellingIsASeq, FlattenIsASeq, SpeltIsRead
<1> DEFINE value == <<n>> \o body
<1>4. EncodeText(text) = value
  <2>1. FlattenSeq([i \in 1..Len(text) |-> Utf8(text[i])]) = body
    BY DEF Spelling
  <2>2. ~(Len(body) > MaxLength)
    BY <1>1, <1>2 DEF MaxLength
  <2> HIDE DEF body
  <2> QED
    BY <1>1, <2>1, <2>2 DEF EncodeText
<1> HIDE DEF body
<1>5. value \in Seq(Bytes) /\ Len(value) = 1 + n /\ value[1] = n /\ Tail(value) = body
  BY <1>1, <1>3, InFront
<1> HIDE DEF value
<1>6. 83 \in DOMAIN MeasTypes /\ MeasTypes[83].format = "string" /\ 83 \in Bytes
  BY TableAssumption DEF Bytes
<1> DEFINE p == EncodeObject(83, value)
<1>7. Len(p) = 2 + n /\ p[1] = 83 /\ p[1 + 1] = n
  <2>1. 1 \in 1..Len(value)
    BY <1>2, <1>5
  <2>2. /\ Len(<<83>> \o value) = 1 + Len(value) /\ (<<83>> \o value)[1] = 83
        /\ \A i \in 1..Len(value) : (<<83>> \o value)[1 + i] = value[i]
    BY <1>5, <1>6, InFront
  <2> QED
    BY <1>2, <1>5, <2>1, <2>2 DEF EncodeObject
<1> HIDE DEF p
<1>8. ~HasNoLength(p, 1)
  BY <1>2, <1>7 DEF HasNoLength
<1>9. ValueLength(p, 1) = Len(value)
  BY <1>5, <1>6, <1>7 DEF ValueLength, LengthPrefixed
<1>10. Travels(83, value)
  BY <1>5, <1>6, <1>8, <1>9, AnObjectTravels DEF p
<1>11. TextShown(value) = text
  BY <1>3, <1>5 DEF TextShown
<1>12. Codec(83, FALSE) = "text"
  BY <1>6 DEF Codec, Kind, LengthPrefixed
<1>13. DeviceValue(value, "text", 83) = body
  BY <1>5 DEF DeviceValue
<1>14. TextObject(body) = value
  BY <1>1 DEF TextObject, value
<1> QED
  BY <1>4, <1>10, <1>11, <1>12, <1>13, <1>14 DEF TextArrives

\* A function on 1..n is a sequence.
LEMMA AFunctionIsASeq ==
  ASSUME NEW S, NEW n \in Nat, NEW t, t \in [1..n -> S]
  PROVE  t \in Seq(S) /\ Len(t) = n
OBVIOUS

\* Texts of one letter only, of one byte or of two.
LEMMA SameLetterLength ==
  ASSUME NEW n \in Nat, NEW c \in Letters, NEW t, t = [i \in 1..n |-> c]
  PROVE  /\ t \in Seq(Letters)
         /\ c < 128 => IsLong(t, n)
         /\ ~(c < 128) => \A m \in Nat : m = 2 * n => IsLong(t, m)
<1>1. t \in Seq(Letters) /\ Len(t) = n /\ \A i \in 1..n : t[i] = c
  <2>1. t \in [1..n -> Letters]
    OBVIOUS
  <2> QED
    BY <2>1, AFunctionIsASeq
<1>2. PICK l \in Nat :
        /\ IsLong(t, l) /\ l <= 2 * n
        /\ (\A i \in 1..n : t[i] < 128) => l = n
        /\ (\A i \in 1..n : ~(t[i] < 128)) => l = 2 * n
  BY <1>1, SpellingLength
<1>3. (c < 128 => l = n) /\ (~(c < 128) => l = 2 * n)
  BY <1>1, <1>2
<1> QED
  BY <1>1, <1>2, <1>3

\* A short text fits a length byte.
LEMMA ShortTextLength ==
  ASSUME NEW t \in Seq(Letters), NEW n \in 0..127, n = Len(t)
  PROVE  \E l \in 0..MaxLength : IsLong(t, l)
<1>1. n \in Nat
  OBVIOUS
<1>2. PICK l \in Nat : IsLong(t, l) /\ l <= 2 * n
  BY <1>1, SpellingLength
<1>3. l \in 0..255
  <2>1. n <= 127
    <3>1. \A x \in 0..127 : x <= 127
      OBVIOUS
    <3> QED
      BY <3>1
  <2>2. l >= 0 /\ l <= 255
    BY <1>1, <1>2, <2>1
  <2> QED
    BY <2>2
<1>4. l \in 0..MaxLength
  BY <1>3 DEF MaxLength
<1> QED
  BY <1>2, <1>4

\* The texts TLC tries are such texts.
LEMMA SampleTextsArrive == \A text \in SampleTexts : TextArrives(text)
<1> TAKE text \in SampleTexts
<1>1. CASE \/ text = <<>> \/ text = <<72>> \/ text = <<127, 128, 233, 2047>>
  <2>1. text \in Seq(Letters)
    <3>1. 72 \in Letters /\ 127 \in Letters /\ 128 \in Letters /\ 233 \in Letters
          /\ 2047 \in Letters
      BY DEF Letters
    <3>2. <<>> \in Seq(Letters) /\ <<72>> \in Seq(Letters)
          /\ <<127, 128, 233, 2047>> \in Seq(Letters)
      BY <3>1
    <3>3. CASE text = <<>>
      BY <3>2, <3>3
    <3>4. CASE text = <<72>>
      BY <3>2, <3>4
    <3>5. CASE text = <<127, 128, 233, 2047>>
      BY <3>2, <3>5
    <3> QED
      BY <1>1, <3>3, <3>4, <3>5
  <2>2. PICK n \in 0..127 : n = Len(text)
    <3>1. 0 \in 0..127 /\ 1 \in 0..127 /\ 4 \in 0..127
      OBVIOUS
    <3>2. Len(text) = 0 \/ Len(text) = 1 \/ Len(text) = 4
      BY <1>1
    <3> QED
      BY <3>1, <3>2
  <2>3. PICK l \in 0..MaxLength : IsLong(text, l)
    BY <2>1, <2>2, ShortTextLength
  <2> QED
    BY <2>1, <2>3, TextsArrive
<1>2. CASE text = [i \in 1..255 |-> 120]
  <2>1. 120 \in Letters /\ 120 < 128 /\ 255 \in Nat /\ 255 \in 0..MaxLength
    BY DEF Letters, MaxLength
  <2>2. text \in Seq(Letters) /\ IsLong(text, 255)
    BY <1>2, <2>1, SameLetterLength
  <2> QED
    BY <2>1, <2>2, TextsArrive
<1>3. CASE text = [i \in 1..127 |-> 233]
  <2>1. 233 \in Letters /\ ~(233 < 128) /\ 254 \in 0..MaxLength
    BY DEF Letters, MaxLength
  <2>2. PICK n, m \in Nat : n = 127 /\ m = 2 * n /\ m = 254
    OBVIOUS
  <2>3. PICK c \in Letters : ~(c < 128) /\ text = [i \in 1..n |-> c]
    BY <1>3, <2>1, <2>2
  <2>4. text \in Seq(Letters) /\ (m = 2 * n => IsLong(text, m))
    BY <2>3, SameLetterLength
  <2> QED
    BY <2>1, <2>2, <2>4, TextsArrive
<1> QED
  BY <1>1, <1>2, <1>3 DEF SampleTexts

\* A text longer than a length byte says is refused, not cut.
LEMMA LongTextsAreRefused == \A text \in LongTexts : EncodeText(text) = TooLong
<1> TAKE text \in LongTexts
<1>1. IsLong(text, 256)
  <2>1. CASE text = [i \in 1..256 |-> 120]
    <3>1. 120 \in Letters /\ 120 < 128 /\ 256 \in Nat
      BY DEF Letters
    <3> QED
      BY <2>1, <3>1, SameLetterLength
  <2>2. CASE text = [i \in 1..128 |-> 233]
    <3>1. 233 \in Letters /\ ~(233 < 128)
      BY DEF Letters
    <3>2. PICK n, m \in Nat : n = 128 /\ m = 2 * n /\ m = 256
      OBVIOUS
    <3>3. PICK c \in Letters : ~(c < 128) /\ text = [i \in 1..n |-> c]
      BY <2>2, <3>1, <3>2
    <3>4. m = 2 * n => IsLong(text, m)
      BY <3>3, SameLetterLength
    <3> QED
      BY <3>2, <3>4
  <2> QED
    BY <2>1, <2>2 DEF LongTexts
<1> DEFINE body == FlattenSeq(Spelling(text))
<1>2. FlattenSeq([i \in 1..Len(text) |-> Utf8(text[i])]) = body
  BY DEF Spelling
<1>3. Len(body) > MaxLength
  BY <1>1 DEF IsLong, MaxLength
<1> HIDE DEF body
<1> QED
  BY <1>2, <1>3 DEF EncodeText

\* What a run checks for the controls it tries.
LEMMA ControlsAreUnderstood == EveryControlIsUnderstood
<1>1. \A id \in Known, on \in BOOLEAN : Kind(id) = "binary" =>
        LET value == SwitchBytes(on) IN
        /\ Travels(id, value) /\ SwitchIsOn(value) = on
        /\ DeviceValue(value, Codec(id, FALSE), id) = on
  BY SwitchesAreUnderstood
<1>2. \A id \in Known : \A code \in EventValues(id) :
        LET value == EventPayload(id, code)
            atDevice == DeviceValue(value, Codec(id, TRUE), id)
        IN Travels(id, value) /\ code = IF id = Dimmer THEN atDevice[1] ELSE atDevice
  BY EventsAreUnderstood
<1>3. \A text \in SampleTexts :
        LET value == EncodeText(text)
            atDevice == DeviceValue(value, Codec(83, FALSE), 83)
        IN /\ Travels(83, value) /\ TextShown(value) = text
           /\ TextShown(TextObject(atDevice)) = text
  BY SampleTextsArrive DEF TextArrives
<1>4. \A text \in LongTexts : EncodeText(text) = TooLong
  BY LongTextsAreRefused
<1>5. \A id \in Known, value \in Payloads : Kind(id) = "numeric" =>
        (NumberShown(value, id) = <<>>) = (DecodeObject(id, <<id>> \o value).is # "value")
  BY PayloadsAreBytes, OtherWidthsAreNotShown
<1>6. \A id \in Known : Offered(id) /\ Kind(id) # "raw" =>
        {1} = Switches(<<id>>) \cup Numbers(<<id>>) \cup Texts(<<id>>)
                \cup {button[1] : button \in Buttons(<<id>>)}
  BY TheOfferedAreControlled
<1>7. \A layout \in Layouts : \A j, k \in 1..Len(layout) :
        j < k /\ layout[j] = layout[k] =>
          InstanceNumber(layout, j) \in 1..(InstanceNumber(layout, k) - 1)
  <2>1. \A layout \in Layouts : layout \in Seq(Bytes)
    BY BytesAssumption DEF Bytes
  <2> QED
    BY <2>1, InstancesAreNumbered
<1> QED
  BY <1>1, <1>2, <1>3, <1>4, <1>5, <1>6, <1>7 DEF EveryControlIsUnderstood

\* BytesMeanTheSame: declarations, numbers, switches, events and texts arrive
\* as they were meant, in every state of the receiver that asks.
THEOREM WhatIsSentIsWhatWasMeant == Spec => []BytesMeanTheSame
<1>1. MeaningsAgree
  BY DeclarationsArrive, EveryNumberIsTheNearest, ControlsAreUnderstood, NoWriteIsCut
     DEF MeaningsAgree
<1>2. BytesMeanTheSame
  BY <1>1 DEF BytesMeanTheSame
<1> QED
  BY <1>2, PTL

----------------------------------------------------------------------------
\* The fixtures: what they are made of.

\* What the fixtures are made of.
OneByteObjects == {0, 1, 16, 30, 58, 87, 101}
TwoByteObjects == {2, 3, 20}

FixtureObject(o) == o \in Seq(Bytes) /\ IsObject(o) /\ Len(o) \in 1..3

\* An object that is taken as a write, too.
Taken(o, id) == FixtureObject(o) /\ ParseWrite(o, id) = "taken"

\* What the table says of the objects of the fixtures.
LEMMA FixtureIds ==
  /\ \A id \in OneByteObjects : Fixed(id) /\ MeasTypes[id].length = 1
  /\ \A id \in TwoByteObjects : Fixed(id) /\ MeasTypes[id].length = 2
  /\ \A id \in {16, 20, 30, 58, 83, 87} : Offered(id)
  /\ \A id \in {0, 59, 153} : ~Offered(id)
<1>1. ASSUME NEW id \in OneByteObjects PROVE Fixed(id) /\ MeasTypes[id].length = 1
  BY FixtureTableAssumption, TableAssumption DEF OneByteObjects, Fixed
<1>2. ASSUME NEW id \in TwoByteObjects PROVE Fixed(id) /\ MeasTypes[id].length = 2
  BY FixtureTableAssumption DEF TwoByteObjects, Fixed
<1>3. ASSUME NEW id \in {16, 20, 30, 58, 83, 87} PROVE Offered(id)
  <2>1. id \notin ForbiddenEntries
    BY DEF ForbiddenEntries, PacketId, CommandObject, DeclarationId, SettingsRevision
  <2>2. id \in DOMAIN MeasTypes
    BY FixtureTableAssumption, TableAssumption
  <2>3. CASE id = 83
    BY <2>1, <2>2, <2>3, TableAssumption DEF Offered, Kind, LengthPrefixed
  <2>4. CASE id \in {30, 58}
    BY <2>1, <2>2, <2>4, TableAssumption DEF Offered
  <2>5. CASE id \in {16, 20, 87}
    BY <2>1, <2>2, <2>5, FixtureTableAssumption DEF Offered, Kind, LengthPrefixed
  <2> QED
    BY <2>3, <2>4, <2>5
<1>4. ASSUME NEW id \in {0, 59, 153} PROVE ~Offered(id)
  BY FixtureTableAssumption DEF Offered, ForbiddenEntries, PacketId, CommandObject
<1> QED
  BY <1>1, <1>2, <1>3, <1>4

\* An object of the width the table has is whole, and taken as a write.
LEMMA SizedObjects ==
  ASSUME NEW id, Fixed(id), NEW m \in 1..2, m = MeasTypes[id].length,
         NEW o \in Seq(Bytes), o # <<>>, o[1] = id, Len(o) = 1 + m
  PROVE  FixtureObject(o) /\ ParseWrite(o, id) = "taken"
<1>1. id \in DOMAIN MeasTypes
  BY DEF Fixed
<1>2. ~HasNoLength(o, 1) /\ ValueLength(o, 1) = m
  BY FixedObjects
<1>3. Len(o) \in 1..3
  OBVIOUS
<1>4. IsObject(o)
  BY <1>1, <1>2 DEF IsObject, Bytes
<1>5. ParseWrite(o, id) = "taken"
  BY <1>2 DEF ParseWrite
<1> QED
  BY <1>3, <1>4, <1>5 DEF FixtureObject

\* Objects of one byte.
LEMMA SmallObjects ==
  ASSUME NEW id \in OneByteObjects, NEW b \in Bytes
  PROVE  Taken(<<id, b>>, id)
<1>1. Fixed(id) /\ MeasTypes[id].length = 1
  BY FixtureIds
<1>2. id \in Bytes
  BY DEF OneByteObjects, Bytes
<1> DEFINE o == <<id, b>>
<1>3. o \in Seq(Bytes) /\ o # <<>> /\ o[1] = id /\ Len(o) = 1 + 1
  BY <1>2
<1> HIDE DEF o
<1>4. FixtureObject(o) /\ ParseWrite(o, id) = "taken"
  BY <1>1, <1>3, SizedObjects
<1> QED
  BY <1>4 DEF o, Taken

\* Objects made of a value.
LEMMA ObjectsOfAValue ==
  ASSUME NEW id \in Bytes, Fixed(id), NEW b \in Seq(Bytes), NEW m \in 1..2,
         m = MeasTypes[id].length, m = Len(b)
  PROVE  Taken(EncodeObject(id, b), id)
<1> DEFINE o == EncodeObject(id, b)
<1>1. /\ o \in Seq(Bytes) /\ o # <<>>
      /\ o[1] = id /\ Len(o) = 1 + Len(b)
  BY InFront DEF EncodeObject
<1> HIDE DEF o
<1>2. FixtureObject(o) /\ ParseWrite(o, id) = "taken"
  BY <1>1, SizedObjects
<1> QED
  BY <1>2 DEF o, Taken

\* A number in two bytes.
LEMMA TwoBytesOf ==
  ASSUME NEW u \in Nat, u < 65536
  PROVE  LittleEndian(u, 2) \in Seq(Bytes) /\ Len(LittleEndian(u, 2)) = 2
<1>1. PICK w \in 1..4, v \in Nat : w = 2 /\ v = u /\ v < 256 ^ w
  <2>1. u \in Nat /\ u < 256 ^ 2 /\ 2 \in 1..4
    BY Powers
  <2> QED
    BY <2>1
<1>2. LittleEndian(v, w) \in Seq(Bytes) /\ Len(LittleEndian(v, w)) = w
  BY <1>1, LittleEndianIsUndone DEF Within
<1> QED
  BY <1>1, <1>2

\* Objects of two bytes.
LEMMA LargeObjects ==
  ASSUME NEW id \in TwoByteObjects, NEW u \in Nat, u < 65536
  PROVE  Taken(EncodeObject(id, LittleEndian(u, 2)), id)
<1> DEFINE b == LittleEndian(u, 2)
<1>1. b \in Seq(Bytes) /\ 2 = Len(b)
  BY TwoBytesOf
<1> HIDE DEF b
<1>2. \A i \in TwoByteObjects : Fixed(i) /\ MeasTypes[i].length = 2
  BY FixtureIds
<1>3. id \in Bytes /\ Fixed(id) /\ 2 = MeasTypes[id].length /\ 2 \in 1..2
  BY <1>2 DEF TwoByteObjects, Bytes
<1>4. Taken(EncodeObject(id, b), id)
  BY <1>1, <1>3, ObjectsOfAValue
<1> QED
  BY <1>4 DEF b

\* The text of the fixtures.
LEMMA ATextIsTaken == ParseWrite(Text(5), 83) = "taken"
<1>1. PICK n, t : n \in Nat /\ n = 5 /\ t = [i \in 1..n |-> 104] /\ Text(5) = <<83, 5>> \o t
  BY DEF Text
<1>2. t \in Seq(Bytes) /\ Len(t) = 5
  <2>1. t \in [1..n -> Bytes]
    BY <1>1 DEF Bytes
  <2> QED
    BY <1>1, <2>1, AFunctionIsASeq
<1>3. <<83, 5>> \in Seq(Bytes) /\ Len(<<83, 5>>) = 2
  BY DEF Bytes
<1> DEFINE a == <<83, 5>>
           c == Text(5)
<1>4. a \in Seq(Bytes) /\ Len(a) = 2 /\ a[1] = 83 /\ a[2] = 5 /\ c = a \o t
  BY <1>1, <1>3
<1> HIDE DEF a, c
<1>5. /\ c \in Seq(Bytes) /\ Len(c) = Len(a) + Len(t)
      /\ \A i \in 1..Len(a) : c[i] = a[i] /\ i \in 1..Len(c)
  <2>1. a \in Seq(Bytes) /\ t \in Seq(Bytes) /\ c = a \o t
    BY <1>2, <1>4
  <2> QED
    BY <2>1, Joined
<1>6. 1 \in 1..Len(a) /\ 2 \in 1..Len(a)
  BY <1>4
<1>7. Len(c) = 7 /\ c[1] = 83 /\ c[1 + 1] = 5 /\ c # <<>>
  BY <1>2, <1>4, <1>5, <1>6
<1>8. ~HasNoLength(c, 1) /\ ValueLength(c, 1) = 6
  BY <1>7, TableAssumption DEF HasNoLength, ValueLength, LengthPrefixed
<1>9. ParseWrite(c, 83) = "taken"
  BY <1>7, <1>8 DEF ParseWrite
<1> QED
  BY <1>9 DEF c

----------------------------------------------------------------------------
\* What is asked of a fixture.

FewObjects(objects) ==
  /\ objects \in Seq(Seq(Bytes)) /\ Len(objects) \in 0..3
  /\ \A i \in 1..Len(objects) : FixtureObject(objects[i])

FewEntries(ids) == ids \in Seq(Bytes) /\ Len(ids) \in 0..12

AreTaken(writes, ids) == \A w \in writes : ParseWrite(w[2], ids[w[1]]) = "taken"

\* How long the objects of a fixture are together.
LEMMA FixtureLength ==
  ASSUME NEW objects, FewObjects(objects)
  PROVE  /\ objects \in Objects /\ objects \in Seq(Seq(Bytes))
         /\ \E l \in 0..9 : l = Len(FlattenSeq(objects)) /\ Len(objects) <= l
<1>1. objects \in Objects /\ objects \in Seq(Seq(Bytes))
  BY DEF FewObjects, Objects, FixtureObject
<1>2. PICK n \in 0..3 : n = Len(objects)
  BY DEF FewObjects
<1>3. PICK lo \in 1..3, hi \in 1..3, N \in Nat : lo = 1 /\ hi = 3 /\ N = n
  OBVIOUS
<1>4. \A i \in 1..N : Len(objects[i]) \in lo..hi
  BY <1>2, <1>3 DEF FewObjects, FixtureObject
<1>5. PICK l : l = Len(FlattenSeq(objects))
  OBVIOUS
<1>6. l \in (lo * N)..(hi * N)
  BY <1>2, <1>1, <1>3, <1>4, <1>5, FlattenLength
<1>7. l \in n..(3 * n)
  BY <1>3, <1>6
<1>8. l \in 0..9 /\ n <= l
  <2>1. \A k \in 0..3 : \A x \in k..(3 * k) : x \in 0..9 /\ k <= x
    OBVIOUS
  <2> QED
    BY <1>7, <2>1
<1> QED
  BY <1>2, <1>1, <1>5, <1>8

\* What FixturesAreRead asks of a receiver of one fixture, and that it fits.
FixtureHolds(f) ==
  LET parsed == ParseDeclaration(FixtureData(f)) IN
  /\ (parsed.is = "declaration") = (f.entries # NoEntries)
  /\ OfferedOf(parsed.layout) = f.offered
  /\ \A w \in f.writes : ParseWrite(w[2], parsed.layout[w[1]]) = "taken"
  /\ ~(Len(FixtureData(f)) + 1 > ServiceDataBudget)

\* What marks a fixture without entries is no list of entries.
LEMMA EntriesAreSome == \A ids \in Seq(Bytes) : ids # NoEntries
<1> SUFFICES ASSUME NEW ids \in Seq(Bytes), ids = NoEntries PROVE FALSE
  OBVIOUS
<1>1. 1 \in 1..Len(ids) /\ ids[1] = -1
  BY DEF NoEntries
<1>2. ids[1] \in Bytes
  BY <1>1
<1> QED
  BY <1>1, <1>2 DEF Bytes

\* A fixture that declares entries, whatever they are.
LEMMA DeclaredFixture ==
  ASSUME NEW objects, FewObjects(objects),
         NEW ids, FewEntries(ids),
         NEW offered, offered = OfferedOf(ids),
         NEW writes, AreTaken(writes, ids)
  PROVE  FixtureHolds(Fixture(objects, ids, offered, writes))
<1> DEFINE f == Fixture(objects, ids, offered, writes)
           flat == FlattenSeq(objects)
           tail == EncodeDeclaration(ids)
<1>1. ids \in Seq(Bytes) /\ \E m \in 0..12 : m = Len(ids)
  BY DEF FewEntries
<1> PICK m \in 0..12 : m = Len(ids)
  BY <1>1
<1>2. objects \in Objects /\ objects \in Seq(Seq(Bytes))
  BY FixtureLength
<1>3. PICK l \in 0..9 : l = Len(flat)
  BY FixtureLength
<1>4. f.objects = objects /\ f.entries = ids /\ f.offered = offered /\ f.writes = writes
  BY DEF Fixture
<1>5. FixtureData(f) = flat \o tail
  BY <1>1, <1>4, EntriesAreSome DEF FixtureData
<1>6. Len(ids) \in 0..255
  <2>1. \A x \in 0..12 : x \in 0..255
    OBVIOUS
  <2> QED
    BY <2>1
<1>7. ParseDeclaration(flat \o tail) = Declares(ids, RevisionIn(objects))
  BY <1>1, <1>2, <1>6, DeclaredIsParsed DEF Declarable
<1>8. tail \in Seq(Bytes) /\ Len(tail) = 2 + m
  BY <1>1, <1>6, DeclarationBytes
<1>9. flat \in Seq(Bytes)
  BY <1>2, FlattenIsASeq
<1> HIDE DEF f, flat, tail
<1>10. Len(flat \o tail) = l + (2 + m)
  <2>1. Len(flat \o tail) = Len(flat) + Len(tail)
    <3>1. flat \in Seq(Bytes) /\ tail \in Seq(Bytes)
      BY <1>8, <1>9
    <3> QED
      BY <3>1
  <2> QED
    BY <1>3, <1>8, <2>1
<1>11. ~(Len(FixtureData(f)) + 1 > ServiceDataBudget)
  <2>1. ~(l + (2 + m) + 1 > 24)
    <3>1. \A x \in 0..9, y \in 0..12 : ~(x + (2 + y) + 1 > 24)
      OBVIOUS
    <3> QED
      BY <3>1
  <2>2. ServiceDataBudget = 24
    BY DEF ServiceDataBudget
  <2> QED
    BY <1>5, <1>10, <2>1, <2>2
<1> DEFINE parsed == ParseDeclaration(FixtureData(f))
<1>12. parsed.is = "declaration" /\ parsed.layout = ids
  BY <1>5, <1>7 DEF Declares
<1> HIDE DEF parsed
<1>13. f.entries # NoEntries
  BY <1>1, <1>4, EntriesAreSome
<1>14. OfferedOf(parsed.layout) = f.offered
       /\ \A w \in f.writes : ParseWrite(w[2], parsed.layout[w[1]]) = "taken"
  BY <1>4, <1>12 DEF AreTaken
<1> QED
  BY <1>11, <1>12, <1>13, <1>14 DEF FixtureHolds, parsed, f

\* A fixture that declares nothing.
LEMMA SensorFixture ==
  ASSUME NEW objects, FewObjects(objects)
  PROVE  FixtureHolds(Fixture(objects, NoEntries, {}, {}))
<1> DEFINE f == Fixture(objects, NoEntries, {}, {})
           flat == FlattenSeq(objects)
<1>1. objects \in Objects /\ objects \in Seq(Seq(Bytes))
  BY FixtureLength
<1>2. PICK l \in 0..9 : l = Len(flat)
  BY FixtureLength
<1>3. f.objects = objects /\ f.entries = NoEntries /\ f.offered = {} /\ f.writes = {}
  BY DEF Fixture
<1>4. flat \in Seq(Bytes)
  BY <1>1, FlattenIsASeq
<1>5. ParseDeclaration(flat) = Nothing
  BY <1>1, SensorsDeclareNothing
<1> HIDE DEF f, flat
<1>6. FixtureData(f) = flat
  <2>1. flat \o <<>> = flat
    BY <1>4
  <2> QED
    BY <1>3, <2>1 DEF FixtureData, flat
<1>7. ~(Len(FixtureData(f)) + 1 > ServiceDataBudget)
  <2>1. \A x \in 0..9 : ~(x + 1 > 24)
    OBVIOUS
  <2>2. ServiceDataBudget = 24
    BY DEF ServiceDataBudget
  <2> QED
    BY <1>2, <1>6, <2>1, <2>2
<1>8. ParseDeclaration(FixtureData(f)).is = "nothing"
      /\ ParseDeclaration(FixtureData(f)).layout = <<>>
  BY <1>5, <1>6 DEF Nothing
<1>9. OfferedOf(<<>>) = {}
  BY DEF OfferedOf
<1> QED
  BY <1>3, <1>7, <1>8, <1>9 DEF FixtureHolds, f

\* Packets of one, two and three objects.
LEMMA OneObject ==
  ASSUME NEW a, FixtureObject(a)
  PROVE  FewObjects(<<a>>)
BY DEF FewObjects, FixtureObject

LEMMA TwoObjects ==
  ASSUME NEW a, FixtureObject(a), NEW b, FixtureObject(b)
  PROVE  FewObjects(<<a, b>>)
BY DEF FewObjects, FixtureObject

LEMMA ThreeObjects ==
  ASSUME NEW a, FixtureObject(a), NEW b, FixtureObject(b), NEW c, FixtureObject(c)
  PROVE  FewObjects(<<a, b, c>>)
BY DEF FewObjects, FixtureObject

\* What the packets and the writes of the fixtures are made of.
LEMMA ThePartsOfFixtures ==
  /\ \A n \in Bytes : FixtureObject(Pid(n)) /\ FixtureObject(Battery(n))
  /\ \A u \in Nat : u < 65536 => FixtureObject(Temperature(u)) /\ FixtureObject(Humidity(u))
  /\ \A c \in {20, 22} : ParseWrite(Target(c), 87) = "taken"
  /\ ParseWrite(Moisture(6000), 20) = "taken"
<1>1. ASSUME NEW n \in Bytes PROVE FixtureObject(Pid(n)) /\ FixtureObject(Battery(n))
  BY SmallObjects DEF Pid, Battery, OneByteObjects, Taken
<1>2. ASSUME NEW u \in Nat, u < 65536
      PROVE  FixtureObject(Temperature(u)) /\ FixtureObject(Humidity(u))
  <2>1. 2 \in TwoByteObjects /\ 3 \in TwoByteObjects
    BY DEF TwoByteObjects
  <2>2. FixtureObject(EncodeObject(2, LittleEndian(u, 2)))
    BY <1>2, <2>1, LargeObjects DEF Taken
  <2>3. FixtureObject(EncodeObject(3, LittleEndian(u, 2)))
    BY <1>2, <2>1, LargeObjects DEF Taken
  <2> QED
    BY <2>2, <2>3 DEF Temperature, Humidity, EncodeObject
<1>3. ASSUME NEW c \in {20, 22} PROVE ParseWrite(Target(c), 87) = "taken"
  <2>1. 87 \in OneByteObjects /\ c \in Bytes /\ c % 256 = c
    BY DEF OneByteObjects, Bytes
  <2>2. ParseWrite(<<87, c>>, 87) = "taken"
    BY <2>1, SmallObjects DEF Taken
  <2> QED
    BY <2>1, <2>2 DEF Target
<1>4. ParseWrite(Moisture(6000), 20) = "taken"
  <2>1. 20 \in TwoByteObjects /\ 6000 \in Nat /\ 6000 < 65536
    BY DEF TwoByteObjects
  <2>2. ParseWrite(EncodeObject(20, LittleEndian(6000, 2)), 20) = "taken"
    BY <2>1, LargeObjects DEF Taken
  <2> QED
    BY <2>2 DEF Moisture, EncodeObject
<1> QED
  BY <1>1, <1>2, <1>3, <1>4

\* Which packets of objects there are.
LEMMA TheFixturesObjects ==
  /\ FewObjects(<<Pid(9), Battery(97)>>) /\ FewObjects(<<Pid(9), Temperature(2500), <<101, 3>>>>)
  /\ FewObjects(<<Pid(9)>>) /\ FewObjects(<<Pid(3), Battery(88)>>) /\ FewObjects(<<Pid(1)>>)
  /\ FewObjects(<<Pid(5)>>) /\ FewObjects(<<Pid(1), Battery(74)>>) /\ FewObjects(<<Pid(11)>>)
  /\ FewObjects(<<Pid(2), Temperature(2210), Humidity(5500)>>)
  /\ FewObjects(<<Battery(50), Temperature(2000)>>) /\ FewObjects(<<Pid(1), Battery(60)>>)
  /\ FewObjects(<<Pid(1), Battery(97)>>)
<1>1. \A n \in Bytes : FixtureObject(Pid(n)) /\ FixtureObject(Battery(n))
  BY ThePartsOfFixtures
<1>2. \A u \in Nat : u < 65536 => FixtureObject(Temperature(u)) /\ FixtureObject(Humidity(u))
  BY ThePartsOfFixtures
<1>3. FixtureObject(<<101, 3>>)
  <2>1. 101 \in OneByteObjects /\ 3 \in Bytes
    BY DEF OneByteObjects, Bytes
  <2> QED
    BY <2>1, SmallObjects DEF Taken
<1>4. \A n \in {1, 2, 3, 5, 9, 11, 50, 60, 74, 88, 97} : n \in Bytes
  BY DEF Bytes
<1>5. FixtureObject(Temperature(2500)) /\ FixtureObject(Temperature(2210))
      /\ FixtureObject(Temperature(2000)) /\ FixtureObject(Humidity(5500))
  <2>1. /\ 2500 \in Nat /\ 2500 < 65536 /\ 2210 \in Nat /\ 2210 < 65536
        /\ 2000 \in Nat /\ 2000 < 65536 /\ 5500 \in Nat /\ 5500 < 65536
    OBVIOUS
  <2> QED
    BY <1>2, <2>1
<1>6. \A n \in {1, 2, 3, 5, 9, 11, 50, 60, 74, 88, 97} :
        FixtureObject(Pid(n)) /\ FixtureObject(Battery(n))
  BY <1>1, <1>4
<1>7. FewObjects(<<Pid(9)>>) /\ FewObjects(<<Pid(1)>>) /\ FewObjects(<<Pid(5)>>)
      /\ FewObjects(<<Pid(11)>>)
  BY <1>6, OneObject
<1>8. FewObjects(<<Pid(9), Battery(97)>>) /\ FewObjects(<<Pid(3), Battery(88)>>)
      /\ FewObjects(<<Pid(1), Battery(74)>>)
  BY <1>6, TwoObjects
<1>9. FewObjects(<<Pid(1), Battery(60)>>) /\ FewObjects(<<Pid(1), Battery(97)>>)
      /\ FewObjects(<<Battery(50), Temperature(2000)>>)
  BY <1>5, <1>6, TwoObjects
<1>10. FewObjects(<<Pid(9), Temperature(2500), <<101, 3>>>>)
  BY <1>3, <1>5, <1>6, ThreeObjects
<1>11. FewObjects(<<Pid(2), Temperature(2210), Humidity(5500)>>)
  BY <1>5, <1>6, ThreeObjects
<1> QED
  BY <1>7, <1>8, <1>9, <1>10, <1>11

\* Twelve lights, or more.
LEMMA LightsAreEntries ==
  ASSUME NEW n \in Nat
  PROVE  /\ [i \in 1..n |-> 30] \in Seq(Bytes) /\ Len([i \in 1..n |-> 30]) = n
         /\ OfferedOf([i \in 1..n |-> 30]) = 1..n
<1> DEFINE ids == [i \in 1..n |-> 30]
<1>1. ids \in [1..n -> Bytes] /\ \A i \in 1..n : ids[i] = 30
  BY DEF Bytes
<1> HIDE DEF ids
<1>2. ids \in Seq(Bytes) /\ Len(ids) = n
  BY <1>1, AFunctionIsASeq
<1>3. OfferedOf(ids) = 1..n
  <2>1. Offered(30)
    BY FixtureIds
  <2> QED
    BY <1>1, <1>2, <2>1 DEF OfferedOf
<1> QED
  BY <1>2, <1>3 DEF ids

\* Entries and writes, listed.
LEMMA NoWrites == \A ids : AreTaken({}, ids)
BY DEF AreTaken

IsEntry(ids, k, id) == ids[k] = id

IsTaken(v, id) == ParseWrite(v, id) = "taken"

\* One write that is taken, and more of them.
LEMMA AWrite ==
  ASSUME NEW ids, NEW k, NEW id, IsEntry(ids, k, id), NEW v, IsTaken(v, id)
  PROVE  AreTaken({<<k, v>>}, ids)
<1>1. ParseWrite(v, ids[k]) = "taken"
  BY DEF IsEntry, IsTaken
<1>2. ASSUME NEW w \in {<<k, v>>} PROVE w[1] = k /\ w[2] = v
  BY <1>2
<1> QED
  BY <1>1, <1>2 DEF AreTaken

LEMMA MoreWrites ==
  ASSUME NEW ids, NEW some, AreTaken(some, ids), NEW others, AreTaken(others, ids),
         NEW all, all = some \cup others
  PROVE  AreTaken(all, ids)
BY DEF AreTaken

\* What is written to the fixtures is taken.
LEMMA TheFixturesWrites ==
  /\ IsTaken(<<30, 0>>, 30) /\ IsTaken(<<30, 1>>, 30)
  /\ IsTaken(Target(20), 87) /\ IsTaken(Target(22), 87)
  /\ IsTaken(<<16, 1>>, 16)
  /\ IsTaken(<<58, 1>>, 58) /\ IsTaken(<<58, 4>>, 58)
  /\ IsTaken(Moisture(6000), 20) /\ IsTaken(Text(5), 83)
<1>1. /\ 16 \in OneByteObjects /\ 58 \in OneByteObjects /\ 30 \in OneByteObjects
      /\ 0 \in Bytes /\ 1 \in Bytes /\ 4 \in Bytes
  BY DEF OneByteObjects, Bytes
<1>2. /\ IsTaken(<<16, 1>>, 16) /\ IsTaken(<<58, 1>>, 58) /\ IsTaken(<<58, 4>>, 58)
      /\ IsTaken(<<30, 0>>, 30) /\ IsTaken(<<30, 1>>, 30)
  BY <1>1, SmallObjects DEF Taken, IsTaken
<1>3. \A c \in {20, 22} : ParseWrite(Target(c), 87) = "taken"
  BY ThePartsOfFixtures
<1>4. IsTaken(Target(20), 87) /\ IsTaken(Target(22), 87)
  BY <1>3 DEF IsTaken
<1>5. IsTaken(Moisture(6000), 20) /\ IsTaken(Text(5), 83)
  BY ThePartsOfFixtures, ATextIsTaken DEF IsTaken
<1> QED
  BY <1>2, <1>4, <1>5

\* The fixtures that declare entries, one by one.
LEMMA AFan ==
  FixtureHolds(Fixture(<<Pid(9), Battery(97)>>, <<30>>, {1},
                       {<<1, Light(TRUE)>>, <<1, Light(FALSE)>>}))
<1> DEFINE ids == <<30>>
           writes == {<<1, Light(TRUE)>>, <<1, Light(FALSE)>>}
           objects == <<Pid(9), Battery(97)>>
           offered == {1}
<1>1. FewEntries(ids) /\ offered = OfferedOf(ids)
  <2>1. ids[1] = 30 /\ Len(ids) = 1
    OBVIOUS
  <2>2. Offered(30)
    BY FixtureIds
  <2>3. ids \in Seq(Bytes)
    <3>1. 30 \in Bytes
      BY DEF Bytes
    <3> QED
      BY <3>1
  <2> HIDE DEF ids
  <2>4. 1..Len(ids) = {1} /\ Len(ids) \in 0..12
    BY <2>1
  <2>5. offered = OfferedOf(ids)
    BY <2>1, <2>2, <2>4 DEF OfferedOf
  <2> QED
    BY <2>3, <2>4, <2>5 DEF FewEntries
<1>2. AreTaken(writes, ids)
  <2>1. AreTaken({<<1, Light(TRUE)>>}, ids)
    <3>1. IsEntry(ids, 1, 30)
      BY DEF IsEntry
    <3> HIDE DEF ids
    <3>2. AreTaken({<<1, <<30, 1>>>>}, ids)
      BY <3>1, TheFixturesWrites, AWrite
    <3> QED
      BY <3>2 DEF Light
  <2>2. AreTaken({<<1, Light(FALSE)>>}, ids)
    <3>1. IsEntry(ids, 1, 30)
      BY DEF IsEntry
    <3> HIDE DEF ids
    <3>2. AreTaken({<<1, <<30, 0>>>>}, ids)
      BY <3>1, TheFixturesWrites, AWrite
    <3> QED
      BY <3>2 DEF Light
  <2> DEFINE first == {<<1, Light(TRUE)>>}
             then == {<<1, Light(FALSE)>>}
  <2>3. writes = first \cup then
    OBVIOUS
  <2> HIDE DEF ids, writes, first, then
  <2> QED
    BY <2>1, <2>2, <2>3, MoreWrites DEF first, then
<1>3. FewObjects(objects)
  BY TheFixturesObjects
<1> HIDE DEF ids, writes, objects, offered
<1>4. FixtureHolds(Fixture(objects, ids, offered, writes))
  BY <1>1, <1>2, <1>3, DeclaredFixture
<1> QED
  BY <1>4 DEF ids, writes, objects, offered

LEMMA AThermostat ==
  FixtureHolds(Fixture(<<Pid(9), Temperature(2500), <<101, 3>>>>, <<16, 87>>, {1, 2},
                       {<<2, Target(22)>>, <<1, <<16, 1>>>>, <<2, Target(20)>>}))
<1> DEFINE ids == <<16, 87>>
           writes == {<<2, Target(22)>>, <<1, <<16, 1>>>>, <<2, Target(20)>>}
           objects == <<Pid(9), Temperature(2500), <<101, 3>>>>
           offered == {1, 2}
<1>1. FewEntries(ids) /\ offered = OfferedOf(ids)
  <2>1. ids[1] = 16 /\ ids[2] = 87 /\ Len(ids) = 2
    OBVIOUS
  <2>2. Offered(16) /\ Offered(87)
    BY FixtureIds
  <2>3. ids \in Seq(Bytes)
    <3>1. 16 \in Bytes /\ 87 \in Bytes
      BY DEF Bytes
    <3> QED
      BY <3>1
  <2> HIDE DEF ids
  <2>4. 1..Len(ids) = {1, 2} /\ Len(ids) \in 0..12
    BY <2>1
  <2>5. offered = OfferedOf(ids)
    BY <2>1, <2>2, <2>4 DEF OfferedOf
  <2> QED
    BY <2>3, <2>4, <2>5 DEF FewEntries
<1>2. AreTaken(writes, ids)
  <2>1. AreTaken({<<2, Target(22)>>}, ids)
    <3>1. IsEntry(ids, 2, 87)
      BY DEF IsEntry
    <3> HIDE DEF ids
    <3> QED
      BY <3>1, TheFixturesWrites, AWrite
  <2>2. AreTaken({<<1, <<16, 1>>>>}, ids)
    <3>1. IsEntry(ids, 1, 16)
      BY DEF IsEntry
    <3> HIDE DEF ids
    <3> QED
      BY <3>1, TheFixturesWrites, AWrite
  <2>3. AreTaken({<<2, Target(20)>>}, ids)
    <3>1. IsEntry(ids, 2, 87)
      BY DEF IsEntry
    <3> HIDE DEF ids
    <3> QED
      BY <3>1, TheFixturesWrites, AWrite
  <2> DEFINE first == {<<2, Target(22)>>}
             then == {<<1, <<16, 1>>>>}
             last == {<<2, Target(20)>>}
  <2>4. writes = (first \cup then) \cup last
    OBVIOUS
  <2> HIDE DEF ids, writes, first, then, last
  <2>5. AreTaken(first \cup then, ids)
    BY <2>1, <2>2, MoreWrites DEF first, then
  <2> QED
    BY <2>3, <2>4, <2>5, MoreWrites DEF last
<1>3. FewObjects(objects)
  BY TheFixturesObjects
<1> HIDE DEF ids, writes, objects, offered
<1>4. FixtureHolds(Fixture(objects, ids, offered, writes))
  BY <1>1, <1>2, <1>3, DeclaredFixture
<1> QED
  BY <1>4 DEF ids, writes, objects, offered

LEMMA ThreeEntries ==
  FixtureHolds(Fixture(<<Pid(9)>>, <<30, 30, 83>>, {1, 2, 3},
                       {<<2, Light(FALSE)>>, <<3, Text(5)>>}))
<1> DEFINE ids == <<30, 30, 83>>
           writes == {<<2, Light(FALSE)>>, <<3, Text(5)>>}
           objects == <<Pid(9)>>
           offered == {1, 2, 3}
<1>1. FewEntries(ids) /\ offered = OfferedOf(ids)
  <2>1. ids[1] = 30 /\ ids[2] = 30 /\ ids[3] = 83 /\ Len(ids) = 3
    OBVIOUS
  <2>2. Offered(30) /\ Offered(83)
    BY FixtureIds
  <2>3. ids \in Seq(Bytes)
    <3>1. 30 \in Bytes /\ 83 \in Bytes
      BY DEF Bytes
    <3> QED
      BY <3>1
  <2> HIDE DEF ids
  <2>4. 1..Len(ids) = {1, 2, 3} /\ Len(ids) \in 0..12
    BY <2>1
  <2>5. offered = OfferedOf(ids)
    BY <2>1, <2>2, <2>4 DEF OfferedOf
  <2> QED
    BY <2>3, <2>4, <2>5 DEF FewEntries
<1>2. AreTaken(writes, ids)
  <2>1. AreTaken({<<2, Light(FALSE)>>}, ids)
    <3>1. IsEntry(ids, 2, 30)
      BY DEF IsEntry
    <3> HIDE DEF ids
    <3>2. AreTaken({<<2, <<30, 0>>>>}, ids)
      BY <3>1, TheFixturesWrites, AWrite
    <3> QED
      BY <3>2 DEF Light
  <2>2. AreTaken({<<3, Text(5)>>}, ids)
    <3>1. IsEntry(ids, 3, 83)
      BY DEF IsEntry
    <3> HIDE DEF ids
    <3> QED
      BY <3>1, TheFixturesWrites, AWrite
  <2> DEFINE first == {<<2, Light(FALSE)>>}
             then == {<<3, Text(5)>>}
  <2>3. writes = first \cup then
    OBVIOUS
  <2> HIDE DEF ids, writes, first, then
  <2> QED
    BY <2>1, <2>2, <2>3, MoreWrites DEF first, then
<1>3. FewObjects(objects)
  BY TheFixturesObjects
<1> HIDE DEF ids, writes, objects, offered
<1>4. FixtureHolds(Fixture(objects, ids, offered, writes))
  BY <1>1, <1>2, <1>3, DeclaredFixture
<1> QED
  BY <1>4 DEF ids, writes, objects, offered

LEMMA AButton ==
  FixtureHolds(Fixture(<<Pid(9)>>, <<58>>, {1},
                       {<<1, <<58, 1>>>>, <<1, <<58, 4>>>>}))
<1> DEFINE ids == <<58>>
           writes == {<<1, <<58, 1>>>>, <<1, <<58, 4>>>>}
           objects == <<Pid(9)>>
           offered == {1}
<1>1. FewEntries(ids) /\ offered = OfferedOf(ids)
  <2>1. ids[1] = 58 /\ Len(ids) = 1
    OBVIOUS
  <2>2. Offered(58)
    BY FixtureIds
  <2>3. ids \in Seq(Bytes)
    <3>1. 58 \in Bytes
      BY DEF Bytes
    <3> QED
      BY <3>1
  <2> HIDE DEF ids
  <2>4. 1..Len(ids) = {1} /\ Len(ids) \in 0..12
    BY <2>1
  <2>5. offered = OfferedOf(ids)
    BY <2>1, <2>2, <2>4 DEF OfferedOf
  <2> QED
    BY <2>3, <2>4, <2>5 DEF FewEntries
<1>2. AreTaken(writes, ids)
  <2>1. AreTaken({<<1, <<58, 1>>>>}, ids)
    <3>1. IsEntry(ids, 1, 58)
      BY DEF IsEntry
    <3> HIDE DEF ids
    <3> QED
      BY <3>1, TheFixturesWrites, AWrite
  <2>2. AreTaken({<<1, <<58, 4>>>>}, ids)
    <3>1. IsEntry(ids, 1, 58)
      BY DEF IsEntry
    <3> HIDE DEF ids
    <3> QED
      BY <3>1, TheFixturesWrites, AWrite
  <2> DEFINE first == {<<1, <<58, 1>>>>}
             then == {<<1, <<58, 4>>>>}
  <2>3. writes = first \cup then
    OBVIOUS
  <2> HIDE DEF ids, writes, first, then
  <2> QED
    BY <2>1, <2>2, <2>3, MoreWrites DEF first, then
<1>3. FewObjects(objects)
  BY TheFixturesObjects
<1> HIDE DEF ids, writes, objects, offered
<1>4. FixtureHolds(Fixture(objects, ids, offered, writes))
  BY <1>1, <1>2, <1>3, DeclaredFixture
<1> QED
  BY <1>4 DEF ids, writes, objects, offered

LEMMA APot ==
  FixtureHolds(Fixture(<<Pid(3), Battery(88)>>, <<20>>, {1},
                       {<<1, Moisture(6000)>>}))
<1> DEFINE ids == <<20>>
           writes == {<<1, Moisture(6000)>>}
           objects == <<Pid(3), Battery(88)>>
           offered == {1}
<1>1. FewEntries(ids) /\ offered = OfferedOf(ids)
  <2>1. ids[1] = 20 /\ Len(ids) = 1
    OBVIOUS
  <2>2. Offered(20)
    BY FixtureIds
  <2>3. ids \in Seq(Bytes)
    <3>1. 20 \in Bytes
      BY DEF Bytes
    <3> QED
      BY <3>1
  <2> HIDE DEF ids
  <2>4. 1..Len(ids) = {1} /\ Len(ids) \in 0..12
    BY <2>1
  <2>5. offered = OfferedOf(ids)
    BY <2>1, <2>2, <2>4 DEF OfferedOf
  <2> QED
    BY <2>3, <2>4, <2>5 DEF FewEntries
<1>2. AreTaken(writes, ids)
  <2>1. AreTaken({<<1, Moisture(6000)>>}, ids)
    <3>1. IsEntry(ids, 1, 20)
      BY DEF IsEntry
    <3> HIDE DEF ids
    <3> QED
      BY <3>1, TheFixturesWrites, AWrite
  <2> QED
    BY <2>1
<1>3. FewObjects(objects)
  BY TheFixturesObjects
<1> HIDE DEF ids, writes, objects, offered
<1>4. FixtureHolds(Fixture(objects, ids, offered, writes))
  BY <1>1, <1>2, <1>3, DeclaredFixture
<1> QED
  BY <1>4 DEF ids, writes, objects, offered

LEMMA TwelveLights ==
  FixtureHolds(Fixture(<<Pid(1)>>, [i \in 1..12 |-> 30], 1..12,
                       {<<10, Light(TRUE)>>, <<12, Light(TRUE)>>}))
<1> DEFINE ids == [i \in 1..12 |-> 30]
           writes == {<<10, Light(TRUE)>>, <<12, Light(TRUE)>>}
           objects == <<Pid(1)>>
           offered == 1..12
<1>1. FewEntries(ids) /\ offered = OfferedOf(ids)
  <2>1. PICK n \in Nat : n = 12
    OBVIOUS
  <2>2. ids = [i \in 1..n |-> 30] /\ offered = 1..n /\ n \in 0..12
    BY <2>1
  <2>3. ids \in Seq(Bytes) /\ Len(ids) = n /\ offered = OfferedOf(ids)
    BY <2>2, LightsAreEntries
  <2> HIDE DEF ids, offered
  <2> QED
    BY <2>2, <2>3 DEF FewEntries
<1>2. AreTaken(writes, ids)
  <2>1. AreTaken({<<10, Light(TRUE)>>}, ids)
    <3>1. IsEntry(ids, 10, 30)
      BY DEF IsEntry
    <3> HIDE DEF ids
    <3>2. AreTaken({<<10, <<30, 1>>>>}, ids)
      BY <3>1, TheFixturesWrites, AWrite
    <3> QED
      BY <3>2 DEF Light
  <2>2. AreTaken({<<12, Light(TRUE)>>}, ids)
    <3>1. IsEntry(ids, 12, 30)
      BY DEF IsEntry
    <3> HIDE DEF ids
    <3>2. AreTaken({<<12, <<30, 1>>>>}, ids)
      BY <3>1, TheFixturesWrites, AWrite
    <3> QED
      BY <3>2 DEF Light
  <2> DEFINE first == {<<10, Light(TRUE)>>}
             then == {<<12, Light(TRUE)>>}
  <2>3. writes = first \cup then
    OBVIOUS
  <2> HIDE DEF ids, writes, first, then
  <2> QED
    BY <2>1, <2>2, <2>3, MoreWrites DEF first, then
<1>3. FewObjects(objects)
  BY TheFixturesObjects
<1> HIDE DEF ids, writes, objects, offered
<1>4. FixtureHolds(Fixture(objects, ids, offered, writes))
  BY <1>1, <1>2, <1>3, DeclaredFixture
<1> QED
  BY <1>4 DEF ids, writes, objects, offered

LEMMA AnUnknownEntry ==
  FixtureHolds(Fixture(<<Pid(5)>>, <<30, 153, 30>>, {1, 3},
                       {<<3, Light(TRUE)>>}))
<1> DEFINE ids == <<30, 153, 30>>
           writes == {<<3, Light(TRUE)>>}
           objects == <<Pid(5)>>
           offered == {1, 3}
<1>1. FewEntries(ids) /\ offered = OfferedOf(ids)
  <2>1. ids[1] = 30 /\ ids[2] = 153 /\ ids[3] = 30 /\ Len(ids) = 3
    OBVIOUS
  <2>2. Offered(30) /\ ~Offered(153)
    BY FixtureIds
  <2>3. ids \in Seq(Bytes)
    <3>1. 30 \in Bytes /\ 153 \in Bytes
      BY DEF Bytes
    <3> QED
      BY <3>1
  <2> HIDE DEF ids
  <2>4. 1..Len(ids) = {1, 2, 3} /\ Len(ids) \in 0..12
    BY <2>1
  <2>5. offered = OfferedOf(ids)
    BY <2>1, <2>2, <2>4 DEF OfferedOf
  <2> QED
    BY <2>3, <2>4, <2>5 DEF FewEntries
<1>2. AreTaken(writes, ids)
  <2>1. AreTaken({<<3, Light(TRUE)>>}, ids)
    <3>1. IsEntry(ids, 3, 30)
      BY DEF IsEntry
    <3> HIDE DEF ids
    <3>2. AreTaken({<<3, <<30, 1>>>>}, ids)
      BY <3>1, TheFixturesWrites, AWrite
    <3> QED
      BY <3>2 DEF Light
  <2> QED
    BY <2>1
<1>3. FewObjects(objects)
  BY TheFixturesObjects
<1> HIDE DEF ids, writes, objects, offered
<1>4. FixtureHolds(Fixture(objects, ids, offered, writes))
  BY <1>1, <1>2, <1>3, DeclaredFixture
<1> QED
  BY <1>4 DEF ids, writes, objects, offered

LEMMA ARotation ==
  FixtureHolds(Fixture(<<Pid(1), Battery(74)>>, <<30>>, {1},
                       {<<1, Light(TRUE)>>}))
<1> DEFINE ids == <<30>>
           writes == {<<1, Light(TRUE)>>}
           objects == <<Pid(1), Battery(74)>>
           offered == {1}
<1>1. FewEntries(ids) /\ offered = OfferedOf(ids)
  <2>1. ids[1] = 30 /\ Len(ids) = 1
    OBVIOUS
  <2>2. Offered(30)
    BY FixtureIds
  <2>3. ids \in Seq(Bytes)
    <3>1. 30 \in Bytes
      BY DEF Bytes
    <3> QED
      BY <3>1
  <2> HIDE DEF ids
  <2>4. 1..Len(ids) = {1} /\ Len(ids) \in 0..12
    BY <2>1
  <2>5. offered = OfferedOf(ids)
    BY <2>1, <2>2, <2>4 DEF OfferedOf
  <2> QED
    BY <2>3, <2>4, <2>5 DEF FewEntries
<1>2. AreTaken(writes, ids)
  <2>1. AreTaken({<<1, Light(TRUE)>>}, ids)
    <3>1. IsEntry(ids, 1, 30)
      BY DEF IsEntry
    <3> HIDE DEF ids
    <3>2. AreTaken({<<1, <<30, 1>>>>}, ids)
      BY <3>1, TheFixturesWrites, AWrite
    <3> QED
      BY <3>2 DEF Light
  <2> QED
    BY <2>1
<1>3. FewObjects(objects)
  BY TheFixturesObjects
<1> HIDE DEF ids, writes, objects, offered
<1>4. FixtureHolds(Fixture(objects, ids, offered, writes))
  BY <1>1, <1>2, <1>3, DeclaredFixture
<1> QED
  BY <1>4 DEF ids, writes, objects, offered

LEMMA NoEntry ==
  FixtureHolds(Fixture(<<Pid(1), Battery(60)>>, <<>>, {},
                       {}))
<1> DEFINE ids == <<>>
           writes == {}
           objects == <<Pid(1), Battery(60)>>
           offered == {}
<1>1. FewEntries(ids) /\ offered = OfferedOf(ids)
  BY DEF OfferedOf, FewEntries
<1>2. AreTaken(writes, ids)
  BY NoWrites
<1>3. FewObjects(objects)
  BY TheFixturesObjects
<1> HIDE DEF ids, writes, objects, offered
<1>4. FixtureHolds(Fixture(objects, ids, offered, writes))
  BY <1>1, <1>2, <1>3, DeclaredFixture
<1> QED
  BY <1>4 DEF ids, writes, objects, offered

LEMMA AForbiddenCommand ==
  FixtureHolds(Fixture(<<Pid(11)>>, <<30, 59, 30>>, {1, 3},
                       {}))
<1> DEFINE ids == <<30, 59, 30>>
           writes == {}
           objects == <<Pid(11)>>
           offered == {1, 3}
<1>1. FewEntries(ids) /\ offered = OfferedOf(ids)
  <2>1. ids[1] = 30 /\ ids[2] = 59 /\ ids[3] = 30 /\ Len(ids) = 3
    OBVIOUS
  <2>2. Offered(30) /\ ~Offered(59)
    BY FixtureIds
  <2>3. ids \in Seq(Bytes)
    <3>1. 30 \in Bytes /\ 59 \in Bytes
      BY DEF Bytes
    <3> QED
      BY <3>1
  <2> HIDE DEF ids
  <2>4. 1..Len(ids) = {1, 2, 3} /\ Len(ids) \in 0..12
    BY <2>1
  <2>5. offered = OfferedOf(ids)
    BY <2>1, <2>2, <2>4 DEF OfferedOf
  <2> QED
    BY <2>3, <2>4, <2>5 DEF FewEntries
<1>2. AreTaken(writes, ids)
  BY NoWrites
<1>3. FewObjects(objects)
  BY TheFixturesObjects
<1> HIDE DEF ids, writes, objects, offered
<1>4. FixtureHolds(Fixture(objects, ids, offered, writes))
  BY <1>1, <1>2, <1>3, DeclaredFixture
<1> QED
  BY <1>4 DEF ids, writes, objects, offered

LEMMA AForbiddenPacketId ==
  FixtureHolds(Fixture(<<Pid(1)>>, <<0, 30>>, {2},
                       {}))
<1> DEFINE ids == <<0, 30>>
           writes == {}
           objects == <<Pid(1)>>
           offered == {2}
<1>1. FewEntries(ids) /\ offered = OfferedOf(ids)
  <2>1. ids[1] = 0 /\ ids[2] = 30 /\ Len(ids) = 2
    OBVIOUS
  <2>2. ~Offered(0) /\ Offered(30)
    BY FixtureIds
  <2>3. ids \in Seq(Bytes)
    <3>1. 0 \in Bytes /\ 30 \in Bytes
      BY DEF Bytes
    <3> QED
      BY <3>1
  <2> HIDE DEF ids
  <2>4. 1..Len(ids) = {1, 2} /\ Len(ids) \in 0..12
    BY <2>1
  <2>5. offered = OfferedOf(ids)
    BY <2>1, <2>2, <2>4 DEF OfferedOf
  <2> QED
    BY <2>3, <2>4, <2>5 DEF FewEntries
<1>2. AreTaken(writes, ids)
  BY NoWrites
<1>3. FewObjects(objects)
  BY TheFixturesObjects
<1> HIDE DEF ids, writes, objects, offered
<1>4. FixtureHolds(Fixture(objects, ids, offered, writes))
  BY <1>1, <1>2, <1>3, DeclaredFixture
<1> QED
  BY <1>4 DEF ids, writes, objects, offered

\* The fixtures that declare nothing.
LEMMA SensorFixturesHold ==
  /\ FixtureHolds(Fixture(<<Pid(2), Temperature(2210), Humidity(5500)>>, NoEntries, {}, {}))
  /\ FixtureHolds(Fixture(<<Battery(50), Temperature(2000)>>, NoEntries, {}, {}))
BY TheFixturesObjects, SensorFixture

\* All of them.
LEMMA EveryFixtureHolds ==
  \A f \in DeclaredFixtures \cup OtherFixtures \cup ForbiddenFixtures : FixtureHolds(f)
<1>1. \A f \in DeclaredFixtures : FixtureHolds(f)
  BY AFan, AThermostat, ThreeEntries, AButton, APot, TwelveLights DEF DeclaredFixtures
<1>2. \A f \in OtherFixtures : FixtureHolds(f)
  BY AnUnknownEntry, ARotation, SensorFixturesHold, NoEntry DEF OtherFixtures
<1>3. \A f \in ForbiddenFixtures : FixtureHolds(f)
  BY AForbiddenCommand, AForbiddenPacketId DEF ForbiddenFixtures
<1> QED
  BY <1>1, <1>2, <1>3

\* Twenty-five lights fit no packet.
LEMMA TheOverflowOverflows == Len(FixtureData(OverflowFixture)) + 1 > ServiceDataBudget
<1>1. PICK n \in Nat : n = 25
  OBVIOUS
<1> DEFINE ids == [i \in 1..n |-> 30]
           objects == <<Pid(1), Battery(97)>>
           flat == FlattenSeq(objects)
           tail == EncodeDeclaration(ids)
<1>2. ids \in Seq(Bytes) /\ Len(ids) = n
  BY LightsAreEntries
<1>3. FewObjects(objects)
  BY TheFixturesObjects
<1>4. PICK l \in 0..9 : l = Len(flat) /\ objects \in Seq(Seq(Bytes))
  BY <1>3, FixtureLength
<1>5. /\ OverflowFixture.objects = objects /\ OverflowFixture.entries = ids
  BY <1>1 DEF OverflowFixture, Fixture
<1> HIDE DEF ids, objects
<1>6. Len(ids) \in 0..255
  BY <1>1, <1>2
<1>7. tail \in Seq(Bytes) /\ Len(tail) = 2 + n
  BY <1>2, <1>6, DeclarationBytes
<1>8. flat \in Seq(Bytes)
  BY <1>4, FlattenIsASeq
<1>9. FixtureData(OverflowFixture) = flat \o tail
  BY <1>2, <1>5, EntriesAreSome DEF FixtureData
<1> HIDE DEF flat, tail
<1>10. Len(flat \o tail) = l + (2 + n)
  <2>1. flat \in Seq(Bytes) /\ tail \in Seq(Bytes)
    BY <1>7, <1>8
  <2>2. Len(flat \o tail) = Len(flat) + Len(tail)
    BY <2>1
  <2> QED
    BY <1>4, <1>7, <2>2
<1>11. l + (2 + n) + 1 > 24
  <2>1. \A x \in 0..9 : x + (2 + 25) + 1 > 24
    OBVIOUS
  <2> QED
    BY <1>1, <1>4, <2>1
<1>12. ServiceDataBudget = 24
  BY DEF ServiceDataBudget
<1> QED
  BY <1>9, <1>10, <1>11, <1>12

\* What stands behind a declaration is not read.
LEMMA MisplacedBytes ==
  /\ MisplacedFixture \in Seq(Bytes) /\ Len(MisplacedFixture) = 7
  /\ MisplacedFixture[1] = 0 /\ MisplacedFixture[2] = 1 /\ MisplacedFixture[3] = 255
  /\ MisplacedFixture[4] = 1 /\ MisplacedFixture[5] = 30 /\ MisplacedFixture[7] = 97
<1> DEFINE a == <<0, 1>>
           b == <<255, 1, 30>>
           c == a \o b
           last == <<1, 97>>
           d == c \o last
<1>1. c = a \o b /\ d = c \o last
  OBVIOUS
<1>2. d = MisplacedFixture
  BY DEF MisplacedFixture, Pid, Battery
<1>3. 0 \in Bytes /\ 1 \in Bytes /\ 255 \in Bytes /\ 30 \in Bytes /\ 97 \in Bytes
  BY DEF Bytes
<1>4. a \in Seq(Bytes) /\ Len(a) = 2 /\ a[1] = 0 /\ a[2] = 1
  BY <1>3
<1>5. b \in Seq(Bytes) /\ Len(b) = 3 /\ b[1] = 255 /\ b[2] = 1 /\ b[3] = 30
  BY <1>3
<1>6. last \in Seq(Bytes) /\ Len(last) = 2 /\ last[2] = 97
  BY <1>3
<1> HIDE DEF a, b, c, d, last
<1>7. /\ c \in Seq(Bytes) /\ Len(c) = Len(a) + Len(b)
      /\ \A i \in 1..Len(a) : c[i] = a[i]
      /\ \A i \in 1..Len(b) : c[Len(a) + i] = b[i]
  <2>1. a \in Seq(Bytes) /\ b \in Seq(Bytes) /\ c = a \o b
    BY <1>1, <1>4, <1>5
  <2> QED
    BY <2>1, Joined
<1>8. /\ d \in Seq(Bytes) /\ Len(d) = Len(c) + Len(last)
      /\ \A i \in 1..Len(c) : d[i] = c[i]
      /\ \A i \in 1..Len(last) : d[Len(c) + i] = last[i]
  <2>1. c \in Seq(Bytes) /\ last \in Seq(Bytes) /\ d = c \o last
    BY <1>1, <1>6, <1>7
  <2> QED
    BY <2>1, Joined
<1>9. Len(c) = 5 /\ Len(d) = 7
  BY <1>4, <1>5, <1>6, <1>7, <1>8
<1>10. c[1] = 0 /\ c[2] = 1
  <2>1. 1 \in 1..Len(a) /\ 2 \in 1..Len(a)
    BY <1>4
  <2> QED
    BY <1>4, <1>7, <2>1
<1>11. c[3] = 255 /\ c[4] = 1 /\ c[5] = 30
  <2>1. /\ 1 \in 1..Len(b) /\ 2 \in 1..Len(b) /\ 3 \in 1..Len(b)
        /\ Len(a) + 1 = 3 /\ Len(a) + 2 = 4 /\ Len(a) + 3 = 5
    BY <1>4, <1>5
  <2>2. c[Len(a) + 1] = b[1] /\ c[Len(a) + 2] = b[2] /\ c[Len(a) + 3] = b[3]
    BY <1>7, <2>1
  <2> QED
    BY <1>5, <2>1, <2>2
<1>12. d[1] = 0 /\ d[2] = 1 /\ d[3] = 255 /\ d[4] = 1 /\ d[5] = 30
  <2>1. 1 \in 1..Len(c) /\ 2 \in 1..Len(c) /\ 3 \in 1..Len(c) /\ 4 \in 1..Len(c) /\ 5 \in 1..Len(c)
    BY <1>9
  <2> QED
    BY <1>8, <1>10, <1>11, <2>1
<1>13. d[7] = 97
  <2>1. 2 \in 1..Len(last) /\ Len(c) + 2 = 7
    BY <1>6, <1>9
  <2> QED
    BY <1>6, <1>8, <2>1
<1> QED
  BY <1>2, <1>8, <1>9, <1>12, <1>13

\* A part of one byte.
LEMMA OneByteOf ==
  ASSUME NEW q \in Seq(Bytes), NEW i \in 1..Len(q), NEW x, x = q[i]
  PROVE  SubSeq(q, i, i) = <<x>>
<1> DEFINE c == SubSeq(q, i, i)
<1>1. /\ i \in Int /\ q[i] \in Bytes /\ \A k \in i..i : q[k] \in Bytes
  BY ElementOfSeq
<1>2. /\ c \in Seq(Bytes) /\ Len(c) = IF i <= i THEN i - i + 1 ELSE 0
      /\ \A k \in 1..(i - i + 1) : c[k] = q[i + k - 1]
  BY <1>1, SubSeqProperties
<1> HIDE DEF c
<1>3. i - i + 1 = 1 /\ i <= i /\ i + 1 - 1 = i /\ 1 \in 1..1
  BY <1>1
<1>4. c \in Seq(Bytes) /\ Len(c) = 1 /\ c[1] = x
  BY <1>2, <1>3
<1>5. <<x>> \in Seq(Bytes) /\ Len(<<x>>) = 1 /\ <<x>>[1] = x
  BY <1>1
<1>6. c = <<x>>
  <2>1. \A k \in 1..Len(c) : c[k] = <<x>>[k]
    BY <1>4, <1>5
  <2> QED
    BY <1>4, <1>5, <2>1, SeqEqual
<1> QED
  BY <1>6 DEF c

\* One sequence, joined, is itself.
LEMMA TheOnlyOne ==
  ASSUME NEW S, NEW objects \in Seq(Seq(S)), Len(objects) = 1
  PROVE  FlattenSeq(objects) = objects[1]
<1>1. PICK pre : Beginnings(S, objects, pre)
  BY FlattenHasBeginnings
<1>2. 1 \in 1..Len(objects) /\ objects[1] \in Seq(S)
  OBVIOUS
<1>3. pre[0] = <<>> /\ pre[1] = FlattenSeq(objects) /\ pre[1] = pre[0] \o objects[1]
  <2>1. 1 - 1 = 0
    OBVIOUS
  <2> QED
    BY <1>1, <1>2, <2>1 DEF Beginnings
<1>4. <<>> \o objects[1] = objects[1]
  BY <1>2
<1> QED
  BY <1>3, <1>4

\* The first declaration counts, and nothing behind it.
LEMMA TheMisplacedIsDropped == ParseDeclaration(MisplacedFixture).layout = <<30>>
<1> DEFINE q == MisplacedFixture
           objects == <<Pid(1)>>
<1>1. /\ q \in Seq(Bytes) /\ Len(q) = 7
      /\ q[1] = 0 /\ q[2] = 1 /\ q[3] = 255 /\ q[4] = 1 /\ q[5] = 30
  BY MisplacedBytes
<1>2. FewObjects(objects)
  BY TheFixturesObjects
<1>3. Len(objects) = 1 /\ objects[1] = <<0, 1>>
  BY DEF Pid
<1> HIDE DEF q, objects
<1> DEFINE flat == FlattenSeq(objects)
<1>4. objects \in Objects /\ objects \in Seq(Seq(Bytes))
  BY <1>2, FixtureLength
<1>5. flat = <<0, 1>>
  BY <1>3, <1>4, TheOnlyOne
<1>6. Len(flat) = 2 /\ flat[1] = 0 /\ flat[2] = 1
  BY <1>5
<1>7. PICK l \in Nat : l = Len(flat) /\ l = 2 /\ flat[1] = 0 /\ flat[2] = 1
  BY <1>6
<1>8. Packs(objects, q)
  <2>1. \A i \in 1..Len(q) : i <= l => q[i] = flat[i]
    <3> TAKE i \in 1..Len(q)
    <3> HAVE i <= l
    <3>1. i \in Int /\ 1 <= i /\ i <= 2
      BY <1>1, <1>7
    <3>2. i = 1 \/ i = 2
      BY <3>1
    <3> QED
      BY <1>1, <1>7, <3>2
  <2> HIDE DEF flat
  <2>2. q[l + 1] = DeclarationId
    BY <1>1, <1>7 DEF DeclarationId
  <2> QED
    BY <1>7, <2>1, <2>2 DEF Packs, flat
<1>9. SplitObjects(q).ok /\ SplitObjects(q).at = 3
  <2>1. l <= Len(q) /\ Len(q) # l /\ l + 1 = 3
    BY <1>1, <1>7
  <2>2. SplitObjects(q) = Found(objects, IF Len(q) = l THEN 0 ELSE l + 1)
    <3>1. l = Len(FlattenSeq(objects)) /\ l <= Len(q) /\ q \in Seq(Bytes)
      BY <1>1, <1>7, <2>1
    <3> QED
      BY <1>4, <1>8, <3>1, WalkOfWhole
  <2>3. SplitObjects(q) = Found(objects, 3)
    BY <2>1, <2>2
  <2> QED
    BY <2>3 DEF Found
<1> DEFINE walk == SplitObjects(q)
<1>10. walk.ok /\ walk.at # 0 /\ walk.at + 2 = 5 /\ q[walk.at + 1] = 1
  BY <1>1, <1>9
<1>11. ~(5 > 7 + 1) /\ ~(5 + 1 - 1 > 7) /\ 5 + 1 - 1 = 5
  OBVIOUS
<1>12. ParseDeclaration(q).layout = SubSeq(q, 5, 5)
  <2> HIDE DEF walk
  <2>1. ParseDeclaration(q) = Declares(SubSeq(q, 5, 5), RevisionIn(walk.objects))
    BY <1>1, <1>10, <1>11 DEF ParseDeclaration, walk
  <2> QED
    BY <2>1 DEF Declares
<1>13. SubSeq(q, 5, 5) = <<30>>
  <2>1. 5 \in 1..Len(q)
    BY <1>1
  <2> QED
    BY <1>1, <2>1, OneByteOf
<1> QED
  BY <1>12, <1>13 DEF q

\* What the codec makes of a fixture it does not refuse is what is written of it.
LEMMA AFixtureIsRebuilt ==
  ASSUME NEW f, FixtureHolds(f), f.entries # NoEntries => MayBeDeclared(f.entries)
  PROVE  Rebuilt(f) = FixtureData(f)
<1>1. ~(Len(FixtureData(f)) + 1 > ServiceDataBudget)
  BY DEF FixtureHolds
<1> DEFINE decl == IF f.entries = NoEntries THEN <<>> ELSE EncodeDeclaration(f.entries)
<1>2. Assemble(f.objects, decl) = FixtureData(f)
  BY DEF Assemble, FixtureData
<1>3. Rebuilt(f) = BuildServiceData(f.objects, decl, ServiceDataBudget)
  BY DEF Rebuilt
<1> HIDE DEF decl
<1> QED
  BY <1>1, <1>2, <1>3 DEF BuildServiceData

\* What a fixture is made of.
LEMMA PartsOfAFixture ==
  ASSUME NEW objects, NEW ids, NEW offered, NEW writes
  PROVE  /\ Fixture(objects, ids, offered, writes).objects = objects
         /\ Fixture(objects, ids, offered, writes).entries = ids
BY DEF Fixture

\* Short lists of entries, none of them forbidden, and lists of lights.
LEMMA ShortListsMayBeDeclared ==
  ASSUME NEW a, a \notin ForbiddenEntries, NEW b, b \notin ForbiddenEntries,
         NEW c, c \notin ForbiddenEntries
  PROVE  MayBeDeclared(<<>>) /\ MayBeDeclared(<<a>>) /\ MayBeDeclared(<<a, b>>)
         /\ MayBeDeclared(<<a, b, c>>)
<1>1. MayBeDeclared(<<>>)
  BY DEF MayBeDeclared
<1>2. MayBeDeclared(<<a>>)
  BY DEF MayBeDeclared
<1>3. MayBeDeclared(<<a, b>>)
  BY DEF MayBeDeclared
<1>4. MayBeDeclared(<<a, b, c>>)
  BY DEF MayBeDeclared
<1> QED
  BY <1>1, <1>2, <1>3, <1>4

LEMMA TwelveMayBeDeclared == MayBeDeclared([i \in 1..12 |-> 30])
<1> DEFINE ids == [i \in 1..12 |-> 30]
<1>1. Len(ids) = 12 /\ \A i \in 1..12 : ids[i] = 30
  BY LightsAreEntries
<1>2. 30 \notin ForbiddenEntries
  BY DEF ForbiddenEntries, PacketId, CommandObject, DeclarationId, SettingsRevision
<1> HIDE DEF ids
<1>3. Len(ids) <= 255
  BY <1>1
<1> QED
  BY <1>1, <1>2, <1>3 DEF MayBeDeclared, ids

\* The entries of the legal fixtures, and of the forbidden ones.
LEMMA LegalEntries ==
  \A f \in DeclaredFixtures \cup OtherFixtures :
    f.entries = NoEntries \/ MayBeDeclared(f.entries)
<1> DEFINE lists == {<<30>>, <<16, 87>>, <<30, 30, 83>>, <<58>>, <<20>>,
                     [i \in 1..12 |-> 30], <<30, 153, 30>>, <<>>}
<1>1. \A id \in {16, 20, 30, 58, 83, 87, 153} : id \notin ForbiddenEntries
  BY DEF ForbiddenEntries, PacketId, CommandObject, DeclarationId, SettingsRevision
<1>2. MayBeDeclared(<<30>>) /\ MayBeDeclared(<<58>>) /\ MayBeDeclared(<<20>>)
      /\ MayBeDeclared(<<>>)
  BY <1>1, ShortListsMayBeDeclared
<1>3. MayBeDeclared(<<16, 87>>) /\ MayBeDeclared(<<30, 30, 83>>)
      /\ MayBeDeclared(<<30, 153, 30>>)
  BY <1>1, ShortListsMayBeDeclared
<1>4. \A ids \in lists : MayBeDeclared(ids)
  BY <1>2, <1>3, TwelveMayBeDeclared
<1>5. \A f \in DeclaredFixtures : f.entries \in lists
  BY PartsOfAFixture DEF DeclaredFixtures
<1>6. \A f \in OtherFixtures : f.entries = NoEntries \/ f.entries \in lists
  BY PartsOfAFixture DEF OtherFixtures
<1> HIDE DEF lists
<1> QED
  BY <1>4, <1>5, <1>6

LEMMA ForbiddenIsRefused == \A f \in ForbiddenFixtures : Rebuilt(f) = PlanError
<1>1. ~MayBeDeclared(<<30, 59, 30>>)
  <2>1. 2 \in 1..Len(<<30, 59, 30>>) /\ <<30, 59, 30>>[2] = 59
    OBVIOUS
  <2>2. 59 \in ForbiddenEntries
    BY DEF ForbiddenEntries, CommandObject
  <2> QED
    BY <2>1, <2>2 DEF MayBeDeclared
<1>2. ~MayBeDeclared(<<0, 30>>)
  <2>1. 1 \in 1..Len(<<0, 30>>) /\ <<0, 30>>[1] = 0
    OBVIOUS
  <2>2. 0 \in ForbiddenEntries
    BY DEF ForbiddenEntries, PacketId
  <2> QED
    BY <2>1, <2>2 DEF MayBeDeclared
<1>3. <<30, 59, 30>> # NoEntries /\ <<0, 30>> # NoEntries
  BY DEF NoEntries
<1>4. \A f \in ForbiddenFixtures : f.entries = <<30, 59, 30>> \/ f.entries = <<0, 30>>
  BY PartsOfAFixture DEF ForbiddenFixtures
<1> QED
  BY <1>1, <1>2, <1>3, <1>4 DEF Rebuilt

LEMMA OverflowIsRefused == Rebuilt(OverflowFixture) = PlanError
<1>1. OverflowFixture.entries # NoEntries
  <2>1. OverflowFixture.entries = [i \in 1..25 |-> 30]
    BY PartsOfAFixture DEF OverflowFixture
  <2>2. [i \in 1..25 |-> 30] \in Seq(Bytes)
    BY LightsAreEntries
  <2> QED
    BY <2>1, <2>2, EntriesAreSome
<1>2. Assemble(OverflowFixture.objects, EncodeDeclaration(OverflowFixture.entries))
        = FixtureData(OverflowFixture)
  BY <1>1 DEF Assemble, FixtureData
<1> QED
  BY <1>1, <1>2, TheOverflowOverflows DEF Rebuilt, BuildServiceData

\* With its declaration in place the misplaced fixture is another packet.
LEMMA TheDeclarationIsLast == Rebuilt(WellPlaced) \notin {PlanError, MisplacedFixture}
<1> DEFINE ids == <<30>>
           objects == <<Pid(1), Battery(97)>>
           flat == FlattenSeq(objects)
           tail == EncodeDeclaration(ids)
<1>1. FewEntries(ids) /\ {1} = OfferedOf(ids) /\ Len(ids) = 1 /\ ids[1] = 30
  <2>1. ids[1] = 30 /\ Len(ids) = 1
    OBVIOUS
  <2>2. Offered(30)
    BY FixtureIds
  <2>3. ids \in Seq(Bytes)
    <3>1. 30 \in Bytes
      BY DEF Bytes
    <3> QED
      BY <3>1
  <2> HIDE DEF ids
  <2>4. 1..Len(ids) = {1} /\ Len(ids) \in 0..12
    BY <2>1
  <2>5. {1} = OfferedOf(ids)
    BY <2>1, <2>2, <2>4 DEF OfferedOf
  <2> QED
    BY <2>1, <2>3, <2>4, <2>5 DEF FewEntries
<1>2. FewObjects(objects)
  BY TheFixturesObjects
<1>3. FixtureHolds(WellPlaced)
  <2>1. AreTaken({}, ids)
    BY NoWrites
  <2> HIDE DEF ids, objects
  <2>2. FixtureHolds(Fixture(objects, ids, {1}, {}))
    BY <1>1, <1>2, <2>1, DeclaredFixture
  <2> QED
    BY <2>2 DEF WellPlaced, ids, objects
<1>4. WellPlaced.objects = objects /\ WellPlaced.entries = ids
  BY PartsOfAFixture DEF WellPlaced
<1>5. MayBeDeclared(ids)
  <2>1. 30 \notin ForbiddenEntries
    BY DEF ForbiddenEntries, PacketId, CommandObject, DeclarationId, SettingsRevision
  <2> QED
    BY <2>1, ShortListsMayBeDeclared
<1>6. /\ tail \in Seq(Bytes) /\ Len(tail) = 3 /\ tail[3] = 30
  <2> HIDE DEF ids
  <2>1. ids \in Seq(Bytes) /\ Len(ids) \in 0..255 /\ 1 \in 1..Len(ids)
    BY <1>1 DEF FewEntries
  <2>2. tail \in Seq(Bytes) /\ Len(tail) = 2 + Len(ids) /\ tail[2 + 1] = ids[1]
    BY <2>1, DeclarationBytes
  <2> HIDE DEF tail
  <2>3. 2 + 1 = 3
    OBVIOUS
  <2> QED
    BY <1>1, <2>2, <2>3
<1>7. ids \in Seq(Bytes) /\ flat \in Seq(Bytes)
  BY <1>1, <1>2, FixtureLength, FlattenIsASeq DEF FewEntries
<1> HIDE DEF ids, objects, flat, tail
<1>8. Rebuilt(WellPlaced) = flat \o tail
  <2>1. Rebuilt(WellPlaced) = FixtureData(WellPlaced)
    BY <1>3, <1>4, <1>5, AFixtureIsRebuilt
  <2> QED
    BY <1>4, <1>7, <2>1, EntriesAreSome DEF FixtureData, flat, tail
<1>9. PICK packet : packet = flat \o tail
  OBVIOUS
<1>10. /\ packet \in Seq(Bytes) /\ Len(flat) \in Nat /\ Len(packet) = Len(flat) + 3
       /\ packet[Len(flat) + 3] = 30
  <2>1. 3 \in 1..Len(tail)
    BY <1>6
  <2>2. /\ packet \in Seq(Bytes) /\ Len(flat) \in Nat
        /\ Len(packet) = Len(flat) + Len(tail)
        /\ \A i \in 1..Len(tail) : packet[Len(flat) + i] = tail[i]
    <3>1. flat \in Seq(Bytes) /\ tail \in Seq(Bytes) /\ packet = flat \o tail
      BY <1>6, <1>7, <1>9
    <3> QED
      BY <3>1, Joined
  <2>3. packet[Len(flat) + 3] = tail[3]
    BY <2>1, <2>2
  <2> QED
    BY <1>6, <2>2, <2>3
<1>11. packet # PlanError
  <2>1. Len(<<>>) = 0
    OBVIOUS
  <2>2. Len(packet) # 0
    BY <1>10
  <2> QED
    BY <2>1, <2>2 DEF PlanError
<1>12. packet # MisplacedFixture
  <2>1. SUFFICES ASSUME packet = MisplacedFixture PROVE FALSE
    OBVIOUS
  <2>2. Len(packet) = 7 /\ packet[7] = 97
    BY <2>1, MisplacedBytes
  <2>3. Len(flat) + 3 = 7
    BY <1>10, <2>2
  <2> QED
    BY <1>10, <2>2, <2>3
<1> QED
  BY <1>8, <1>9, <1>11, <1>12

\* The advertising fixtures, at both ends.
LEMMA TheFixturesAreRead == FixturesAreRead
<1>1. \A f \in DeclaredFixtures \cup OtherFixtures : Rebuilt(f) = FixtureData(f)
  BY EveryFixtureHolds, LegalEntries, AFixtureIsRebuilt
<1>2. \A f \in ForbiddenFixtures \cup {OverflowFixture} : Rebuilt(f) = PlanError
  BY ForbiddenIsRefused, OverflowIsRefused
<1>3. \A f \in DeclaredFixtures \cup OtherFixtures \cup ForbiddenFixtures : FixtureHolds(f)
  BY EveryFixtureHolds
<1> QED
  BY <1>1, <1>2, <1>3, TheDeclarationIsLast, TheMisplacedIsDropped
  DEF FixturesAreRead, FixtureHolds

----------------------------------------------------------------------------
\* Sealed vectors.

Holds(v) == Judged(v) = v.accept

\* When a vector is judged as it says.
LEMMA AcceptedOnes ==
  ASSUME NEW v, v.accept = TRUE, v.last = NoRevision \/ Ahead(v.frame.counter, v.last),
         Opens(v.frame, Bindkey, Mac, v.info)
  PROVE  Holds(v)
BY DEF Holds, Judged

LEMMA RefusedOnes ==
  ASSUME NEW v, v.accept = FALSE,
         \/ ~(v.last = NoRevision \/ Ahead(v.frame.counter, v.last))
         \/ ~Opens(v.frame, Bindkey, Mac, v.info)
  PROVE  Holds(v)
BY DEF Holds, Judged

\* A frame opens under the key and the nonce it was sealed with, and no others.
LEMMA WhatOpens ==
  ASSUME NEW plain, NEW key, NEW mac, NEW info, NEW counter, NEW frame,
         frame = Seal(plain, key, mac, info, counter)
  PROVE  /\ Opens(frame, key, mac, info) /\ frame.counter = counter
         /\ \A other : other # key => ~Opens(frame, other, mac, info)
         /\ \A other : other # info => ~Opens(frame, key, mac, other)
         /\ ~Opens(Spoilt(frame), key, mac, info)
BY DEF Opens, Seal, Spoilt, Nonce

\* The same of what the vectors seal.
LEMMA WhatIsSealedOpens ==
  ASSUME NEW info, NEW c
  PROVE  /\ Opens(Sealed(info, c), Bindkey, Mac, info) /\ Sealed(info, c).counter = c
         /\ \A other : other # info => ~Opens(Sealed(info, c), Bindkey, Mac, other)
         /\ ~Opens(Spoilt(Sealed(info, c)), Bindkey, Mac, info)
BY WhatOpens DEF Sealed

\* Of two counters on the ring of the vectors, which is the newer.
LEMMA TheVectorsCounters == Ahead(5, 2) /\ ~Ahead(2, 2) /\ ~Ahead(1, 2)
BY DEF Ahead, Top

\* The vectors of one direction, read in it and in another.
LEMMA SameDirection ==
  ASSUME NEW info, NEW c, NEW v, v = Vector(info, Sealed(info, c), TRUE)
  PROVE  Holds(v)
<1>1. v.info = info /\ v.frame = Sealed(info, c) /\ v.accept = TRUE /\ v.last = NoRevision
  BY DEF Vector
<1>2. Opens(v.frame, Bindkey, Mac, v.info)
  <2>1. v.info = info /\ v.frame = Sealed(info, c)
    BY <1>1
  <2>2. Opens(Sealed(info, c), Bindkey, Mac, info)
    BY WhatIsSealedOpens
  <2> QED
    BY <2>1, <2>2
<1> QED
  BY <1>1, <1>2, AcceptedOnes

\* A payload of one direction does not open in another.
LEMMA AnotherDirection ==
  ASSUME NEW info, NEW as, info # as, NEW c, NEW v, v = Vector(info, Sealed(as, c), FALSE)
  PROVE  Holds(v)
<1>1. v.info = info /\ v.frame = Sealed(as, c) /\ v.accept = FALSE
  BY DEF Vector
<1>2. ~Opens(v.frame, Bindkey, Mac, v.info)
  <2>1. v.info = info /\ v.frame = Sealed(as, c)
    BY <1>1
  <2>2. ~Opens(Sealed(as, c), Bindkey, Mac, info)
    BY WhatIsSealedOpens
  <2> QED
    BY <2>1, <2>2
<1> QED
  BY <1>1, <1>2, RefusedOnes

\* A counter is judged before the seal.
LEMMA AfterAnother ==
  ASSUME NEW c, NEW accept, NEW v,
         (accept = TRUE /\ Ahead(c, 2)) \/ (accept = FALSE /\ ~Ahead(c, 2)),
         v = [Vector(Write, Sealed(Write, c), accept) EXCEPT !.last = 2]
  PROVE  Holds(v)
<1>1. /\ v.info = Write /\ v.frame = Sealed(Write, c) /\ v.accept = accept /\ v.last = 2
  BY DEF Vector
<1>2. v.frame.counter = c /\ Opens(v.frame, Bindkey, Mac, v.info)
  BY <1>1, WhatIsSealedOpens
<1>3. 2 # NoRevision
  BY DEF NoRevision
<1>4. CASE accept = TRUE /\ Ahead(c, 2)
  <2>1. v.accept = TRUE /\ Ahead(v.frame.counter, v.last)
    BY <1>1, <1>2, <1>4
  <2> QED
    BY <1>2, <2>1, AcceptedOnes
<1>5. CASE accept = FALSE /\ ~Ahead(c, 2)
  <2>1. v.accept = FALSE /\ ~(v.last = NoRevision \/ Ahead(v.frame.counter, v.last))
    BY <1>1, <1>2, <1>3, <1>5
  <2> QED
    BY <2>1, RefusedOnes
<1> QED
  BY <1>4, <1>5

\* The vectors, by their verdicts.
LEMMA TheAccepted == \A v \in AcceptedVectors : Holds(v)
<1> DEFINE InTheirOwn == {Vector(info, Sealed(info, c), TRUE) :
                     info \in {Advertising, Write}, c \in {0, 1, 2, Top}}
           Reads == {Vector(Read, Sealed(Read, c), TRUE) : c \in {3, 4}}
           Late == {[Vector(Write, Sealed(Write, 2 + Far), TRUE) EXCEPT !.last = 2]}
<1>1. AcceptedVectors = InTheirOwn \cup Reads \cup Late
  BY DEF AcceptedVectors
<1> HIDE DEF InTheirOwn, Reads, Late
<1> TAKE v \in AcceptedVectors
<1>2. CASE v \in InTheirOwn
  <2>1. PICK info, c : v = Vector(info, Sealed(info, c), TRUE)
    BY <1>2 DEF InTheirOwn, Vector
  <2> QED
    BY <2>1, SameDirection
<1>3. CASE v \in Reads
  <2>1. PICK c \in {3, 4} : v = Vector(Read, Sealed(Read, c), TRUE)
    BY <1>3 DEF Reads, Vector
  <2> QED
    BY <2>1, SameDirection
<1>4. CASE v \in Late
  <2>1. 2 + Far = 5
    BY DEF Far
  <2>2. v = [Vector(Write, Sealed(Write, 5), TRUE) EXCEPT !.last = 2]
    BY <1>4, <2>1 DEF Late
  <2> QED
    BY <2>2, TheVectorsCounters, AfterAnother
<1> QED
  BY <1>1, <1>2, <1>3, <1>4

LEMMA TheCrossed == \A v \in CrossedVectors : Holds(v)
<1> TAKE v \in CrossedVectors
<1>1. Write # Read /\ Write # Advertising
  BY DEF Write, Read, Advertising
<1>2. CASE v = Vector(Write, Sealed(Advertising, 1), FALSE)
  BY <1>1, <1>2, AnotherDirection
<1>3. CASE v = Vector(Advertising, Sealed(Write, 1), FALSE)
  BY <1>1, <1>3, AnotherDirection
<1>4. CASE v = Vector(Write, Sealed(Read, 3), FALSE)
  BY <1>1, <1>4, AnotherDirection
<1> QED
  BY <1>2, <1>3, <1>4 DEF CrossedVectors

LEMMA TheRefused == \A v \in RefusedVectors : Holds(v)
<1> TAKE v \in RefusedVectors
<1>1. CASE v \in {[Vector(Write, Sealed(Write, c), FALSE) EXCEPT !.last = 2] : c \in {2, 1}}
  <2>1. PICK c \in {2, 1} : v = [Vector(Write, Sealed(Write, c), FALSE) EXCEPT !.last = 2]
    BY <1>1
  <2>2. ~Ahead(c, 2)
    BY TheVectorsCounters
  <2> QED
    BY <2>1, <2>2, AfterAnother
<1>2. CASE v = Vector(Write, Seal(<<1>>, WrongBindkey, Mac, Write, 5), FALSE)
  <2>1. v.info = Write /\ v.accept = FALSE /\ v.frame = Seal(<<1>>, WrongBindkey, Mac, Write, 5)
    BY <1>2 DEF Vector
  <2>2. Bindkey # WrongBindkey
    BY DEF Bindkey, WrongBindkey
  <2>3. ~Opens(v.frame, Bindkey, Mac, v.info)
    BY <2>1, <2>2, WhatOpens
  <2> QED
    BY <2>1, <2>3, RefusedOnes
<1>3. CASE v = Vector(Write, Spoilt(Sealed(Write, 6)), FALSE)
  <2>1. v.info = Write /\ v.accept = FALSE /\ v.frame = Spoilt(Sealed(Write, 6))
    BY <1>3 DEF Vector
  <2>2. ~Opens(v.frame, Bindkey, Mac, v.info)
    BY <2>1, WhatIsSealedOpens
  <2> QED
    BY <2>1, <2>2, RefusedOnes
<1> QED
  BY <1>1, <1>2, <1>3 DEF RefusedVectors

\* Every vector is judged as it says.
LEMMA TheVectorsAreJudged == VectorsAreJudged
BY TheAccepted, TheCrossed, TheRefused DEF VectorsAreJudged, Holds

\* FixturesAreUnderstood: the device's codec makes the packets that
\* gen_advertising_fixtures.py writes down as legal and refuses the forbidden
\* and the long ones; the receiver reads from each what it lists, save the
\* description of declaration-not-last, and the device takes its writes; and
\* the payloads of gen_test_vectors.py open, under a symbolic cipher, exactly
\* where their verdicts say so.
THEOREM TheFilesAreTrueOfBoth == Spec => []FixturesAreUnderstood
<1>1. FixturesHold
  BY TheFixturesAreRead, TheVectorsAreJudged DEF FixturesHold
<1>2. FixturesAreUnderstood
  BY <1>1 DEF FixturesAreUnderstood
<1> QED
  BY <1>2, PTL
----------------------------------------------------------------------------
\* What is said of a device, and what an entry keeps of it.

Plains == Streams \cup {SensorsOnly}
Declarations == {d \in {Said[s] : s \in Plains} : d.is = "declaration"}
Revisions == {NoRevision} \cup {Said[s].revision : s \in Plains}

LEMMA SaidIsParsed ==
  ASSUME NEW s \in Plains
  PROVE  Said[s] = ParseDeclaration(s)
BY DEF Said, Plains

\* What is a declaration is stored and restored without loss.
LEMMA DeclarationsAreRemembered ==
  ASSUME NEW d \in Declarations
  PROVE  Stored(d) # None /\ Restore(Stored(d)) = d
<1>1. PICK s \in Plains : d = ParseDeclaration(s) /\ d.is = "declaration"
  BY SaidIsParsed DEF Declarations
<1>2. s \in Seq(Bytes) /\ Stored(d) # None
  BY <1>1, StreamsAssumption DEF Plains, Bytes
<1> QED
  BY <1>1, <1>2, WhatIsStoredIsRestored

----------------------------------------------------------------------------
\* What the state is made of.

Counters == 0..(Ring - 1)
Senders == Keys \cup {NoKey}
Addresses == {d[2] : d \in Devices} \cup {<<>>}

Nonces ==
  {Nonce(Identity, Info(sleepy, carried), counter) :
     sleepy \in BOOLEAN, carried \in Addresses, counter \in Counters}

Frames ==
  [plain : Plains, key : Senders \cup {"foreign"}, nonce : Nonces, counter : Counters,
   whole : BOOLEAN]

Packets == [sealed : BOOLEAN, sleepy : BOOLEAN, carried : Addresses, frame : Frames]

Coordinators ==
  [verified : {None, "yes", "no"}, failures : 0..2, counter : Counters,
   sealed : {None, "sealed", "clear"}, sleepy : BOOLEAN,
   declaration : {Unheard} \cup Declarations, revision : Revisions,
   heard : {None} \cup Packets]

EntryStates ==
  [key : Senders, sleepy : BOOLEAN, declaration : {None} \cup {Stored(d) : d \in Declarations}]

AdvertisementsTypeOK ==
  /\ device \in [key : Senders, counter : Counters, stream : Streams, sleepy : BOOLEAN,
                 carried : Addresses]
  /\ air \in Seq(Packets)
  /\ ha \in Coordinators /\ entry \in EntryStates
  /\ flow \in {None} \cup Packets
  /\ newest \in 0..Len(air)

\* The receiver's counter is not behind the newest packet it has taken.
NewestIsCounted == newest # 0 => ha.counter >= air[newest].frame.counter

HearingInv == AdvertisementsTypeOK /\ ARestartForgetsNothing /\ NewestIsCounted

LEMMA RingFacts == Ring \in Nat /\ Ring > 1 /\ 0 \in Counters /\ Ring - 1 \in Counters
<1>1. Ring \in Nat /\ Ceiling \in 1..(Ring - 1)
  BY AdvertisementsAssumption
<1> QED
  BY <1>1 DEF Counters

LEMMA PacketIsOne ==
  ASSUME NEW key \in Senders \cup {"foreign"}, NEW counter \in Counters, NEW stream \in Plains,
         NEW sleepy \in BOOLEAN, NEW carried \in Addresses
  PROVE  Packet(key, counter, stream, sleepy, carried) \in Packets
<1>1. Nonce(Identity, Info(sleepy, carried), counter) \in Nonces
  BY DEF Nonces
<1>2. Seal(stream, key, Identity, Info(sleepy, carried), counter) \in Frames
  BY <1>1 DEF Seal, Frames
<1> QED
  BY <1>2 DEF Packet, Packets

LEMMA StraysArePackets == 
  /\ Stray \in Packets /\ Short \in Packets
  /\ Stray.frame.counter = Ring - 1 /\ Short.frame.counter = Ring - 1
<1>1. Stray \in Packets
  BY RingFacts, PacketIsOne DEF Stray, Addresses, Plains
<1>2. Stray.frame.counter = Ring - 1
  BY DEF Stray, Packet, Seal
<1>3. Stray.frame \in Frames
  BY <1>1 DEF Packets
<1>4. Spoilt(Stray.frame) \in Frames
  BY <1>3 DEF Spoilt, Frames
<1>5. Short \in Packets
  BY <1>1, <1>4 DEF Short, Packets
<1>6. Short.frame.counter = Stray.frame.counter
  <2>1. Spoilt(Stray.frame).counter = Stray.frame.counter
    BY <1>3 DEF Spoilt, Frames
  <2>2. Short.frame = Spoilt(Stray.frame)
    BY <1>1 DEF Short, Packets
  <2> QED
    BY <2>1, <2>2
<1> QED
  BY <1>1, <1>2, <1>5, <1>6

----------------------------------------------------------------------------
\* One advertisement, heard by a coordinator.

LEMMA NothingIsNoDeclaration == Unheard \notin Declarations /\ NoRevision \in Revisions
BY DEF Unheard, Nothing, Declarations, Revisions

\* A coordinator whose key has just opened a packet of counter n.
Right(c, n) == [c EXCEPT !.verified = "yes", !.failures = 0, !.counter = n]

LEMMA RightKey ==
  ASSUME NEW c \in Coordinators, NEW n \in Counters
  PROVE  /\ Right(c, n) \in Coordinators
         /\ Right(c, n).declaration = c.declaration /\ Right(c, n).revision = c.revision
         /\ Right(c, n).sleepy = c.sleepy /\ Right(c, n).counter = n
<1>1. PICK none \in 0..2 : none = 0
  OBVIOUS
<1>2. Right(c, n) = [c EXCEPT !.verified = "yes", !.failures = none, !.counter = n]
  BY <1>1 DEF Right
<1> QED
  BY <1>2 DEF Coordinators

LEMMA WrongKey ==
  ASSUME NEW c \in Coordinators
  PROVE  /\ Failed(c) \in Coordinators
         /\ Failed(c).declaration = c.declaration /\ Failed(c).revision = c.revision
         /\ Failed(c).sleepy = c.sleepy /\ Failed(c).counter = c.counter
<1>1. PICK n : n = IF c.failures < 2 THEN c.failures + 1 ELSE 2
  OBVIOUS
<1>2. n \in 0..2
  BY <1>1 DEF Coordinators
<1>3. Failed(c) = [c EXCEPT !.verified = "no", !.failures = n]
  BY <1>1 DEF Failed
<1> QED
  BY <1>2, <1>3 DEF Coordinators

\* Opening a packet, or failing to, touches neither the declaration nor the
\* revision; the counter follows the packets that open.
LEMMA OpenedFacts ==
  ASSUME NEW c \in Coordinators, NEW p \in Packets,
         NEW outcome \in {"clear", "failed", "old", "opened"}
  PROVE  /\ Opened(NoticeSleepy(c, p), p, outcome) \in Coordinators
         /\ Opened(NoticeSleepy(c, p), p, outcome).declaration = c.declaration
         /\ Opened(NoticeSleepy(c, p), p, outcome).revision = c.revision
         /\ Opened(NoticeSleepy(c, p), p, outcome).sleepy = p.sleepy
         /\ Opened(NoticeSleepy(c, p), p, outcome).counter =
              IF outcome = "opened" THEN p.frame.counter ELSE c.counter
<1> DEFINE noticed == NoticeSleepy(c, p)
           told == [noticed EXCEPT !.sealed = IF p.sealed THEN "sealed" ELSE "clear"]
<1>0. p.sleepy \in BOOLEAN /\ p.frame.counter \in Counters
  BY DEF Packets, Frames
<1>1. noticed \in Coordinators /\ noticed = [c EXCEPT !.heard = p, !.sleepy = p.sleepy]
  BY <1>0 DEF NoticeSleepy, Coordinators
<1>2. /\ noticed.declaration = c.declaration /\ noticed.revision = c.revision
      /\ noticed.sleepy = p.sleepy /\ noticed.counter = c.counter
  BY <1>1 DEF Coordinators
<1>7. Opened(NoticeSleepy(c, p), p, outcome) = Opened(noticed, p, outcome)
  OBVIOUS
<1> HIDE DEF noticed
<1>3. /\ told \in Coordinators
      /\ told.declaration = noticed.declaration /\ told.revision = noticed.revision
      /\ told.sleepy = noticed.sleepy /\ told.counter = noticed.counter
  BY <1>1 DEF Coordinators
<1>4. CASE outcome = "opened"
  <2> HIDE DEF told
  <2>1. Opened(noticed, p, outcome) =
          Right(told, p.frame.counter)
    BY <1>4, Zenon DEF Opened, told, Right
  <2>2. p.frame.counter \in Counters /\ told \in Coordinators
    BY <1>0, <1>3
  <2>3. /\ Opened(noticed, p, outcome) \in Coordinators
        /\ Opened(noticed, p, outcome).declaration = told.declaration
        /\ Opened(noticed, p, outcome).revision = told.revision
        /\ Opened(noticed, p, outcome).sleepy = told.sleepy
        /\ Opened(noticed, p, outcome).counter = p.frame.counter
    BY <2>1, <2>2, RightKey
  <2> QED
    BY <1>2, <1>3, <1>4, <1>7, <2>3
<1>5. CASE outcome = "failed"
  <2> HIDE DEF told
  <2>1. Opened(noticed, p, outcome) = Failed(told)
    BY <1>5, Zenon DEF Opened, told
  <2> QED
    BY <1>2, <1>3, <1>5, <1>7, <2>1, WrongKey
<1>6. CASE outcome \in {"clear", "old"}
  <2> HIDE DEF told
  <2>1. Opened(noticed, p, outcome) = told
    BY <1>6, Zenon DEF Opened, told
  <2> QED
    BY <1>2, <1>3, <1>6, <1>7, <2>1
<1> QED
  BY <1>4, <1>5, <1>6

\* A declaration that is learnt is one of what is said; nothing else is.
LEMMA LearntFacts ==
  ASSUME NEW c \in Coordinators, NEW s \in Plains
  PROVE  /\ Learnt(c, Said[s]) \in Coordinators
         /\ Learnt(c, Said[s]).sleepy = c.sleepy /\ Learnt(c, Said[s]).counter = c.counter
         /\ \/ Learnt(c, Said[s]).declaration = c.declaration
            \/ Learnt(c, Said[s]).declaration \in Declarations
<1> DEFINE parsed == Said[s]
           revision == IF parsed.revision = NoRevision THEN c.revision ELSE parsed.revision
<1>1. revision \in Revisions
  BY DEF Revisions, Coordinators
<1>2. CASE parsed.is # "declaration"
  BY <1>2 DEF Learnt
<1>3. CASE parsed.is = "declaration"
  <2>1. parsed \in Declarations
    BY <1>3 DEF Declarations
  <2>2. Learnt(c, parsed) = [c EXCEPT !.declaration = parsed, !.revision = revision]
    BY <1>3, Zenon DEF Learnt
  <2> HIDE DEF parsed, revision
  <2>3. /\ Learnt(c, parsed) \in Coordinators
        /\ Learnt(c, parsed).sleepy = c.sleepy /\ Learnt(c, parsed).counter = c.counter
        /\ Learnt(c, parsed).declaration \in Declarations
    BY <1>1, <2>1, <2>2 DEF Coordinators
  <2> QED
    BY <2>3 DEF parsed
<1> QED
  BY <1>2, <1>3

\* What the entry is handed is what the coordinator has.
LEMMA KeptFacts ==
  ASSUME NEW c \in Coordinators, NEW e \in EntryStates, NEW p \in Packets,
         Remembered(e) = c.declaration, e.sleepy = c.sleepy,
         NEW declaration \in {c.declaration} \cup Declarations
  PROVE  /\ Kept(c, e, p, declaration) \in EntryStates
         /\ Remembered(Kept(c, e, p, declaration)) = declaration
         /\ Kept(c, e, p, declaration).sleepy = p.sleepy
         /\ Kept(c, e, p, declaration).key = e.key
<1> DEFINE sleepy == SleepyKept(c, e, p)
           kept == IF declaration # Unheard /\ WorthKeeping(c.declaration, declaration)
                   THEN Stored(declaration) ELSE e.declaration
<1>1. sleepy = p.sleepy /\ p.sleepy \in BOOLEAN
  BY DEF SleepyKept, Packets
<1>2. kept \in {None} \cup {Stored(d) : d \in Declarations}
  BY DEF EntryStates, Coordinators, WorthKeeping
<1>3. (IF kept = None THEN Unheard ELSE Restore(kept)) = declaration
  <2>1. CASE declaration # Unheard /\ WorthKeeping(c.declaration, declaration)
    <3>1. declaration \in Declarations /\ kept = Stored(declaration)
      BY <2>1 DEF WorthKeeping
    <3> QED
      BY <3>1, DeclarationsAreRemembered
  <2>2. CASE ~(declaration # Unheard /\ WorthKeeping(c.declaration, declaration))
    <3>1. declaration = c.declaration /\ kept = e.declaration
      BY <2>2, NothingIsNoDeclaration DEF WorthKeeping
    <3> QED
      BY <3>1 DEF Remembered
  <2> QED
    BY <2>1, <2>2
<1>4. Kept(c, e, p, declaration) = [e EXCEPT !.sleepy = sleepy, !.declaration = kept]
  BY DEF Kept
<1> HIDE DEF sleepy, kept
<1>5. /\ Kept(c, e, p, declaration) \in EntryStates
      /\ Kept(c, e, p, declaration).declaration = kept
      /\ Kept(c, e, p, declaration).sleepy = sleepy
      /\ Kept(c, e, p, declaration).key = e.key
  BY <1>1, <1>2, <1>4 DEF EntryStates
<1> QED
  BY <1>1, <1>3, <1>5 DEF Remembered

\* async_handle_advertisement keeps the two in step.
LEMMA AbsorbFacts ==
  ASSUME NEW c \in Coordinators, NEW e \in EntryStates, NEW p \in Packets,
         Remembered(e) = c.declaration, e.sleepy = c.sleepy, Absorb(c, e, p)
  PROVE  /\ ha' \in Coordinators /\ entry' \in EntryStates
         /\ ARestartForgetsNothing'
         /\ Outcome(c, p, e.key) \in {"clear", "failed", "old", "opened"}
         /\ ha'.counter = IF Outcome(c, p, e.key) = "opened" THEN p.frame.counter ELSE c.counter
         /\ Outcome(c, p, e.key) \in {"failed", "old"} =>
              ha'.declaration = c.declaration /\ ha'.revision = c.revision
<1> DEFINE outcome == Outcome(c, p, e.key)
           after == Opened(NoticeSleepy(c, p), p, outcome)
<1>1. outcome \in {"clear", "failed", "old", "opened"}
  BY DEF Outcome
<1>2. /\ ha' = IF outcome \in {"clear", "opened"} THEN Learnt(after, Said[p.frame.plain]) ELSE after
      /\ entry' = Kept(c, e, p, ha'.declaration)
  BY DEF Absorb
<1> HIDE DEF outcome
<1>3. /\ after \in Coordinators /\ after.declaration = c.declaration
      /\ after.revision = c.revision /\ after.sleepy = p.sleepy
      /\ after.counter = IF outcome = "opened" THEN p.frame.counter ELSE c.counter
  BY <1>1, OpenedFacts
<1> HIDE DEF after
<1>4. p.frame.plain \in Plains
  BY DEF Packets, Frames
<1>5. /\ ha' \in Coordinators /\ ha'.sleepy = p.sleepy /\ ha'.counter = after.counter
      /\ ha'.declaration \in {c.declaration} \cup Declarations
  BY <1>2, <1>3, <1>4, LearntFacts
<1>6. PICK declaration \in {c.declaration} \cup Declarations : declaration = ha'.declaration
  BY <1>5
<1>7. /\ entry' \in EntryStates /\ Remembered(entry') = declaration /\ entry'.sleepy = p.sleepy
  BY <1>2, <1>6, KeptFacts
<1>8. ARestartForgetsNothing'
  BY <1>5, <1>6, <1>7 DEF ARestartForgetsNothing, Remembered
<1>9. outcome \in {"failed", "old"} => ha'.declaration = c.declaration /\ ha'.revision = c.revision
  BY <1>2, <1>3
<1> QED
  BY <1>1, <1>3, <1>5, <1>7, <1>8, <1>9 DEF outcome

----------------------------------------------------------------------------
\* Whatever a device and its entry do keeps the two in step.

\* What an entry was left with is a declaration, or nothing yet.
LEMMA RememberedFacts ==
  ASSUME NEW e \in EntryStates
  PROVE  Remembered(e) \in {Unheard} \cup Declarations
<1>1. CASE e.declaration = None
  BY <1>1 DEF Remembered
<1>2. CASE e.declaration # None
  <2>1. PICK d \in Declarations : e.declaration = Stored(d)
    BY <1>2 DEF EntryStates
  <2> QED
    BY <1>2, <2>1, DeclarationsAreRemembered DEF Remembered
<1> QED
  BY <1>1, <1>2

\* A coordinator that setup makes has what its entry remembers.
LEMMA CoordinatorFacts ==
  ASSUME NEW e \in EntryStates
  PROVE  /\ Coordinator(e) \in Coordinators
         /\ Coordinator(e).declaration = Remembered(e) /\ Coordinator(e).sleepy = e.sleepy
<1>1. e.sleepy \in BOOLEAN
  BY DEF EntryStates
<1>2. PICK declaration \in {Unheard} \cup Declarations : declaration = Remembered(e)
  BY RememberedFacts
<1>3. PICK none \in (0..2) \cap Counters : none = 0
  BY RingFacts
<1>4. NoRevision \in Revisions
  BY NothingIsNoDeclaration
<1>5. Coordinator(e) =
        [verified |-> None, failures |-> none, counter |-> none, sealed |-> None,
         sleepy |-> e.sleepy, declaration |-> declaration,
         revision |-> NoRevision, heard |-> None]
  BY <1>2, <1>3 DEF Coordinator
<1> QED
  BY <1>1, <1>2, <1>4, <1>5 DEF Coordinators

LEMMA Start == Init => HearingInv
<1> SUFFICES ASSUME Init PROVE HearingInv
  OBVIOUS
<1>1. PICK d \in Devices :
        /\ device = [key |-> d[1], counter |-> 0, stream |-> CHOOSE s \in Streams : TRUE,
                     sleepy |-> FALSE, carried |-> d[2]]
        /\ air = <<>> /\ newest = 0 /\ changes = 0 /\ flow = None
        /\ entry = [key |-> d[1], sleepy |-> FALSE, declaration |-> None]
        /\ ha = Coordinator(entry)
  BY DEF Init
<1>2. d[1] \in Senders /\ d[2] \in Addresses
  BY AdvertisementsAssumption DEF Senders, Addresses
<1>3. (CHOOSE s \in Streams : TRUE) \in Streams
  BY StreamsAssumption
<1>4. device \in [key : Senders, counter : Counters, stream : Streams, sleepy : BOOLEAN,
                  carried : Addresses]
  BY <1>1, <1>2, <1>3, RingFacts
<1>5. entry \in EntryStates
  BY <1>1, <1>2 DEF EntryStates
<1>6. /\ ha \in Coordinators
      /\ ha.declaration = Remembered(entry) /\ ha.sleepy = entry.sleepy
  BY <1>1, <1>5, CoordinatorFacts
<1>7. air \in Seq(Packets) /\ newest \in 0..Len(air)
  BY <1>1
<1> QED
  BY <1>1, <1>4, <1>5, <1>6, <1>7
     DEF HearingInv, AdvertisementsTypeOK, ARestartForgetsNothing, NewestIsCounted

LEMMA DeviceStates ==
  ASSUME HearingInv
  PROVE  /\ device.key \in Senders /\ device.counter \in Counters /\ device.stream \in Streams
         /\ device.sleepy \in BOOLEAN /\ device.carried \in Addresses
BY DEF HearingInv, AdvertisementsTypeOK

\* What lingers moves up a place as the oldest falls silent.
LEMMA SendsKeep ==
  ASSUME HearingInv, NEW stream \in Plains, DeviceSends(stream)
  PROVE  HearingInv'
<1> DEFINE next == (device.counter + 1) % Ring
           packet == Packet(device.key, next, stream, device.sleepy, device.carried)
           sent == Append(air, packet)
           gone == IF Len(sent) > Window THEN 1 ELSE 0
<1>1. /\ device' = [device EXCEPT !.counter = next]
      /\ air' = SubSeq(sent, 1 + gone, Len(sent))
      /\ newest' = IF newest > gone THEN newest - gone ELSE 0
      /\ UNCHANGED <<ha, entry, flow, changes>>
  BY DEF DeviceSends
<1>2. next \in Counters
  BY DeviceStates, RingFacts DEF Counters
<1> HIDE DEF next
<1>3. packet \in Packets
  BY <1>2, DeviceStates, PacketIsOne
<1> HIDE DEF packet
<1>4. air \in Seq(Packets) /\ newest \in 0..Len(air) /\ Len(air) \in Nat
  BY DEF HearingInv, AdvertisementsTypeOK
<1>5. /\ sent \in Seq(Packets) /\ Len(sent) = Len(air) + 1
      /\ \A i \in 1..Len(air) : sent[i] = air[i]
  BY <1>3, <1>4
<1> HIDE DEF sent
<1>6. gone \in 0..1
  BY DEF gone
<1> HIDE DEF gone
<1>7. /\ air' \in Seq(Packets) /\ Len(air') = Len(air) + 1 - gone
      /\ \A i \in 1..(Len(air) + 1 - gone) : air'[i] = sent[i + gone]
  BY <1>1, <1>4, <1>5, <1>6
<1>8. newest' \in 0..Len(air')
  BY <1>1, <1>4, <1>6, <1>7
<1>9. NewestIsCounted'
  <2> SUFFICES ASSUME newest' # 0 PROVE ha'.counter >= air'[newest'].frame.counter
    BY DEF NewestIsCounted
  <2>1. newest > gone /\ newest' = newest - gone
    BY <1>1, <1>6
  <2>2. air'[newest'] = air[newest]
    BY <2>1, <1>4, <1>5, <1>6, <1>7
  <2>3. ha.counter >= air[newest].frame.counter
    BY <2>1, <1>4, <1>6 DEF HearingInv, NewestIsCounted
  <2> QED
    BY <1>1, <2>2, <2>3
<1>10. device' \in [key : Senders, counter : Counters, stream : Streams, sleepy : BOOLEAN,
                    carried : Addresses]
  BY <1>1, <1>2 DEF HearingInv, AdvertisementsTypeOK
<1>11. ARestartForgetsNothing'
  BY <1>1 DEF HearingInv, ARestartForgetsNothing, Remembered
<1> QED
  BY <1>1, <1>7, <1>8, <1>9, <1>10, <1>11 DEF HearingInv, AdvertisementsTypeOK

LEMMA ChangesKeep == HearingInv /\ DeviceChanges => HearingInv'
<1> SUFFICES ASSUME HearingInv, DeviceChanges PROVE HearingInv'
  OBVIOUS
<1> DEFINE DeviceTypes == [key : Senders, counter : Counters, stream : Streams,
                           sleepy : BOOLEAN, carried : Addresses]
<1>1. device \in DeviceTypes /\ 0 \in Counters
  BY RingFacts DEF HearingInv, AdvertisementsTypeOK
<1>2. device' \in DeviceTypes
  <2>1. CASE \E s \in Streams \ {device.stream} : device' = [device EXCEPT !.stream = s]
    BY <1>1, <2>1
  <2>2. CASE \E k \in (Keys \cup {NoKey}) \ {device.key} :
               device' = [device EXCEPT !.key = k, !.counter = 0]
    BY <1>1, <2>2 DEF Senders
  <2>3. CASE device' = [device EXCEPT !.sleepy = ~@]
    BY <1>1, <2>3
  <2>4. CASE device' = [device EXCEPT !.counter = 0]
    BY <1>1, <2>4
  <2> QED
    BY <2>1, <2>2, <2>3, <2>4 DEF DeviceChanges
<1>3. UNCHANGED <<air, ha, entry, flow, newest>>
  BY DEF DeviceChanges
<1> QED
  BY <1>2, <1>3
     DEF HearingInv, AdvertisementsTypeOK, ARestartForgetsNothing, NewestIsCounted, Remembered

----------------------------------------------------------------------------
\* Packets that are heard, now and by a coordinator that setup made.

LEMMA HearingFacts ==
  ASSUME HearingInv, NEW p \in Packets, HearPacket(p)
  PROVE  /\ ha' \in Coordinators /\ entry' \in EntryStates /\ ARestartForgetsNothing'
         /\ flow' \in {None} \cup Packets
         /\ ha'.counter =
              IF Outcome(ha, p, entry.key) = "opened" THEN p.frame.counter ELSE ha.counter
         /\ Outcome(ha, p, entry.key) \in {"failed", "old"} =>
              ha'.declaration = ha.declaration /\ ha'.revision = ha.revision
<1>1. /\ ha \in Coordinators /\ entry \in EntryStates /\ flow \in {None} \cup Packets
      /\ Remembered(entry) = ha.declaration /\ entry.sleepy = ha.sleepy
  BY DEF HearingInv, AdvertisementsTypeOK, ARestartForgetsNothing
<1>2. Absorb(ha, entry, p)
  BY DEF HearPacket
<1>3. flow' = p \/ flow' = flow
  BY DEF HearPacket
<1> QED
  BY <1>1, <1>2, <1>3, AbsorbFacts

\* What is taken is the newest since, or not behind it.
LEMMA HearKeeps ==
  ASSUME HearingInv, NEW i \in 1..Len(air), Hear(i)
  PROVE  HearingInv'
<1> DEFINE outcome == Outcome(ha, air[i], entry.key)
<1>1. /\ HearPacket(air[i]) /\ UNCHANGED <<device, air, changes>>
      /\ newest' = IF outcome = "failed" THEN 0
                   ELSE IF outcome = "opened" /\ (i > newest \/ air[i].frame.counter < ha.counter)
                   THEN i ELSE newest
  BY DEF Hear
<1>2. air \in Seq(Packets) /\ newest \in 0..Len(air) /\ Len(air) \in Nat /\ ha \in Coordinators
  BY DEF HearingInv, AdvertisementsTypeOK
<1>3. air[i] \in Packets
  BY <1>2
<1>4. /\ ha' \in Coordinators /\ entry' \in EntryStates /\ ARestartForgetsNothing'
      /\ flow' \in {None} \cup Packets
      /\ ha'.counter = IF outcome = "opened" THEN air[i].frame.counter ELSE ha.counter
  BY <1>1, <1>3, HearingFacts
<1> HIDE DEF outcome
<1>5. newest' \in 0..Len(air')
  BY <1>1, <1>2
<1>6. /\ ha.counter \in Int /\ air[i].frame.counter \in Int
      /\ \A j \in 1..Len(air) : air[j].frame.counter \in Int
  <2>1. Counters \subseteq Int
    BY RingFacts DEF Counters
  <2>2. ha.counter \in Counters
    BY <1>2 DEF Coordinators
  <2>3. \A p \in Packets : p.frame.counter \in Counters
    BY DEF Packets, Frames
  <2>4. \A j \in 1..Len(air) : air[j] \in Packets
    BY <1>2
  <2> QED
    BY <2>1, <2>2, <2>3, <2>4
<1>7. NewestIsCounted'
  <2> SUFFICES ASSUME newest' # 0 PROVE ha'.counter >= air[newest'].frame.counter
    BY <1>1 DEF NewestIsCounted
  <2>1. CASE outcome = "opened" /\ (i > newest \/ air[i].frame.counter < ha.counter)
    BY <1>1, <1>4, <1>6, <2>1
  <2>2. CASE ~(outcome = "opened" /\ (i > newest \/ air[i].frame.counter < ha.counter))
    <3>1. newest' = newest /\ newest # 0
      BY <1>1, <2>2
    <3>2. ha.counter >= air[newest].frame.counter
      BY <3>1 DEF HearingInv, NewestIsCounted
    <3>3. ha'.counter >= ha.counter
      BY <1>4, <1>6, <2>2
    <3> QED
      BY <1>2, <1>4, <1>6, <3>1, <3>2, <3>3
  <2> QED
    BY <2>1, <2>2
<1>8. device' = device /\ air' = air
  BY <1>1
<1> QED
  BY <1>4, <1>5, <1>7, <1>8 DEF HearingInv, AdvertisementsTypeOK

\* A stray packet is none of the device's, but if it were taken its counter
\* would be behind none.
LEMMA StrayKeeps ==
  ASSUME HearingInv, NEW p \in {Stray, Short}, HearAStray(p)
  PROVE  HearingInv'
<1> DEFINE outcome == Outcome(ha, p, entry.key)
<1>1. /\ HearPacket(p) /\ newest' = IF outcome = "failed" THEN 0 ELSE newest
      /\ device' = device /\ air' = air
  BY DEF HearAStray
<1>2. p \in Packets /\ p.frame.counter = Ring - 1
  BY StraysArePackets
<1>3. /\ ha' \in Coordinators /\ entry' \in EntryStates /\ ARestartForgetsNothing'
      /\ flow' \in {None} \cup Packets
      /\ ha'.counter = IF outcome = "opened" THEN p.frame.counter ELSE ha.counter
  BY <1>1, <1>2, HearingFacts
<1> HIDE DEF outcome
<1>4. air \in Seq(Packets) /\ newest \in 0..Len(air)
  BY DEF HearingInv, AdvertisementsTypeOK
<1>5. newest' \in 0..Len(air')
  BY <1>1, <1>4
<1>6. NewestIsCounted'
  <2> SUFFICES ASSUME newest' # 0 PROVE ha'.counter >= air[newest'].frame.counter
    BY <1>1 DEF NewestIsCounted
  <2>1. newest' = newest /\ newest # 0
    BY <1>1
  <2>2. ha.counter >= air[newest].frame.counter
    BY <2>1 DEF HearingInv, NewestIsCounted
  <2>3. air[newest] \in Packets
    BY <1>4, <2>1
  <2>4. air[newest].frame.counter \in 0..(Ring - 1)
    BY <2>3 DEF Packets, Frames, Counters
  <2>5. Ring - 1 >= air[newest].frame.counter
    BY <2>4, RingFacts
  <2> QED
    BY <1>2, <1>3, <2>1, <2>2, <2>5
<1> QED
  BY <1>1, <1>3, <1>5, <1>6 DEF HearingInv, AdvertisementsTypeOK

\* What setup makes of the entry, and of the packet heard last.
LEMMA SetupKeeps ==
  ASSUME HearingInv, NEW e \in EntryStates, Setup(e), flow' \in {None} \cup Packets
  PROVE  HearingInv'
<1>1. ha \in Coordinators /\ air \in Seq(Packets)
  BY DEF HearingInv, AdvertisementsTypeOK
<1>2. /\ Coordinator(e) \in Coordinators
      /\ Remembered(e) = Coordinator(e).declaration /\ e.sleepy = Coordinator(e).sleepy
  BY CoordinatorFacts
<1>3. newest' = 0 /\ device' = device /\ air' = air
  BY DEF Setup
<1>4. /\ ha' \in Coordinators /\ entry' \in EntryStates /\ ARestartForgetsNothing'
  <2>1. CASE ha.heard = None
    <3>1. ha' = Coordinator(e) /\ entry' = e
      BY <2>1 DEF Setup
    <3> QED
      BY <1>2, <3>1 DEF ARestartForgetsNothing, Remembered
  <2>2. CASE ha.heard # None
    <3>1. ha.heard \in Packets
      BY <1>1, <2>2 DEF Coordinators
    <3>2. Absorb(Coordinator(e), e, ha.heard)
      BY <2>2 DEF Setup
    <3> QED
      BY <1>2, <3>1, <3>2, AbsorbFacts
  <2> QED
    BY <2>1, <2>2
<1>5. NewestIsCounted' /\ newest' \in 0..Len(air')
  BY <1>1, <1>3 DEF NewestIsCounted
<1> QED
  BY <1>3, <1>4, <1>5 DEF HearingInv, AdvertisementsTypeOK

\* A step of the receiver, of the device or of the flow.
LEMMA HearingIsKept == HearingInv /\ [Next]_vars => HearingInv'
<1> SUFFICES ASSUME HearingInv, [Next]_vars PROVE HearingInv'
  OBVIOUS
<1>0. entry \in EntryStates /\ flow \in {None} \cup Packets
  BY DEF HearingInv, AdvertisementsTypeOK
<1>1. CASE \E s \in {device.stream, SensorsOnly} : DeviceSends(s)
  <2>1. {device.stream, SensorsOnly} \subseteq Plains
    BY DeviceStates DEF Plains
  <2> QED
    BY <1>1, <2>1, SendsKeep
<1>2. CASE DeviceChanges
  BY <1>2, ChangesKeep
<1>3. CASE Reload
  <2>1. Setup(entry) /\ flow' \in {None} \cup Packets
    BY <1>3 DEF Reload
  <2> QED
    BY <1>0, <2>1, SetupKeeps
<1>4. CASE FlowIsDismissed
  <2>1. flow' = None /\ UNCHANGED <<device, air, ha, entry, newest>>
    BY <1>4 DEF FlowIsDismissed
  <2> QED
    BY <2>1
       DEF HearingInv, AdvertisementsTypeOK, ARestartForgetsNothing, NewestIsCounted, Remembered
<1>5. CASE \E i \in 1..Len(air) : Hear(i)
  BY <1>5, HearKeeps
<1>6. CASE \E p \in {Stray, Short} : HearAStray(p)
  BY <1>6, StrayKeeps
<1>7. CASE \E k \in Keys : FlowTakesKey(k)
  <2>1. PICK k \in Keys : FlowTakesKey(k)
    BY <1>7
  <2>2. flow' \in {None} \cup Packets
    BY <2>1 DEF FlowTakesKey
  <2>3. [entry EXCEPT !.key = k] \in EntryStates
    BY <1>0 DEF EntryStates, Senders
  <2>4. \/ Setup([entry EXCEPT !.key = k])
        \/ UNCHANGED <<device, air, ha, entry, newest>>
    BY <2>1 DEF FlowTakesKey
  <2>5. CASE Setup([entry EXCEPT !.key = k])
    BY <2>2, <2>3, <2>5, SetupKeeps
  <2>6. CASE UNCHANGED <<device, air, ha, entry, newest>>
    BY <2>2, <2>6
       DEF HearingInv, AdvertisementsTypeOK, ARestartForgetsNothing, NewestIsCounted, Remembered
  <2> QED
    BY <2>4, <2>5, <2>6
<1>8. CASE \E k \in Keys \cup {NoKey} : Reconfigure(k)
  <2>1. PICK k \in Keys \cup {NoKey} : Reconfigure(k)
    BY <1>8
  <2>2. [entry EXCEPT !.key = k] \in EntryStates
    BY <1>0 DEF EntryStates, Senders
  <2>3. Setup([entry EXCEPT !.key = k]) /\ flow' \in {None} \cup Packets
    BY <1>0, <2>1 DEF Reconfigure
  <2> QED
    BY <2>2, <2>3, SetupKeeps
<1>9. CASE UNCHANGED vars
  BY <1>9
     DEF vars, HearingInv, AdvertisementsTypeOK, ARestartForgetsNothing, NewestIsCounted,
         Remembered
<1> QED
  BY <1>1, <1>2, <1>3, <1>4, <1>5, <1>6, <1>7, <1>8, <1>9 DEF Next

\* The receiver's state is well formed, and never behind what it has taken,
\* for any streams, ring and number of packets that linger.
THEOREM HearingIsSound == Spec => []HearingInv
<1> QED
  BY Start, HearingIsKept, PTL DEF Spec

\* A restart finds the declaration the receiver had, and whether its device
\* sleeps, whatever was heard and asked before (coordinator.py's _absorb hands
\* the entry what changed).
THEOREM TheEntryRemembers == Spec => []ARestartForgetsNothing
<1>1. HearingInv => ARestartForgetsNothing
  BY DEF HearingInv
<1> QED
  BY <1>1, HearingIsSound, PTL

\* One packet, older than the newest that was taken under the same counter,
\* says nothing that is learnt (_counter_increased).
LEMMA AnOldPacketTellsNothing ==
  ASSUME HearingInv, NEW i \in 1..(newest - 1), Hear(i), ha.verified = "yes", air[i].sealed,
         air[i].frame.counter >= Ceiling, air[newest].frame.counter > air[i].frame.counter
  PROVE  ha'.declaration = ha.declaration /\ ha'.revision = ha.revision
<1>1. /\ air \in Seq(Packets) /\ newest \in 1..Len(air) /\ i \in 1..Len(air)
      /\ ha.counter >= air[newest].frame.counter /\ ha \in Coordinators
  BY DEF HearingInv, AdvertisementsTypeOK, NewestIsCounted
<1>2. air[i] \in Packets /\ air[newest] \in Packets
  BY <1>1
<1>3. /\ ha.counter \in Int /\ air[i].frame.counter \in Int /\ air[newest].frame.counter \in Int
      /\ Ceiling \in Int
  <2>1. Counters \subseteq Int
    BY RingFacts DEF Counters
  <2>2. ha.counter \in Counters
    BY <1>1 DEF Coordinators
  <2>3. \A p \in Packets : p.frame.counter \in Counters
    BY DEF Packets, Frames
  <2>4. Ring \in Nat /\ Ceiling \in 1..(Ring - 1)
    BY AdvertisementsAssumption
  <2>5. Ceiling \in Int
    BY <2>4
  <2> QED
    BY <1>2, <2>1, <2>2, <2>3, <2>5
<1>4. ha.counter > air[i].frame.counter
  BY <1>1, <1>3
<1>5. ~(air[i].frame.counter >= ha.counter) /\ ~(air[i].frame.counter < Ceiling)
  BY <1>3, <1>4
<1>6. CounterIncreased(ha, air[i]) => ~air[i].frame.whole
  BY <1>5 DEF CounterIncreased
<1>7. ~air[i].frame.whole => ~PacketOpens(air[i], entry.key)
  BY DEF PacketOpens, Opens
<1>8. Outcome(ha, air[i], entry.key) \in {"failed", "old"}
  BY <1>6, <1>7 DEF Outcome
<1>9. HearPacket(air[i])
  BY DEF Hear
<1> QED
  BY <1>2, <1>8, <1>9, HearingFacts

\* However many packets linger, and in whatever order they are heard, one that
\* was sent before a packet already taken is no news.
THEOREM LatePacketsAreNoNews == Spec => OldPacketsAreNoNews
<1> DEFINE NoNews ==
      \A i \in 1..(newest - 1) :
        /\ Hear(i) /\ ha.verified = "yes" /\ air[i].sealed
        /\ air[i].frame.counter >= Ceiling
        /\ air[newest].frame.counter > air[i].frame.counter
        => ha'.declaration = ha.declaration /\ ha'.revision = ha.revision
<1>1. HearingInv => NoNews
  BY AnOldPacketTellsNothing
<1>2. HearingInv /\ [Next]_vars => [NoNews]_vars
  BY <1>1
<1>3. Spec => [][NoNews]_vars
  BY <1>2, HearingIsSound, PTL DEF Spec
<1> QED
  BY <1>3 DEF OldPacketsAreNoNews

===============================================================================
