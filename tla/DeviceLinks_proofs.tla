-------------------------- MODULE DeviceLinks_proofs --------------------------
(***************************************************************************)
(* For every set of callers, every limit and every number of timers: no    *)
(* slot is lost or counted twice, no slot is left idle beside a queue, and *)
(* nobody who waits is forgotten.                                          *)
(*                                                                         *)
(* The three need each other.  A slot is accounted for when it is handed   *)
(* to a queued caller only if that caller owns none yet, so the queue may  *)
(* hold none but waiting and cancelled callers; and draining fills every   *)
(* free slot only if no caller stands in the queue twice.                  *)
(*                                                                         *)
(* The links of all devices use the slots as the slots allow, so what is   *)
(* proved of the slots holds of them; and no slot is given to a task that  *)
(* has not its device's turn.                                              *)
(***************************************************************************)
EXTENDS DeviceLinks, FiniteSetTheorems, SequenceTheorems, FunctionTheorems, TLAPS

\* The callers in a queue, and that none of them is in it twice.
Els(q) == {q[i] : i \in 1..Len(q)}

Distinct(q) == \A i, j \in 1..Len(q) : q[i] = q[j] => i = j

OwnersIn(p) == {c \in Callers : p[c] \in {"admitted", "revoked", "holding"}}

\* Whoever is queued is waiting, or was until it was cancelled; whoever is
\* waiting is queued; nobody is queued twice.
QueueInv(u, o, p) ==
  /\ Distinct(u) /\ Distinct(o)
  /\ \A c \in Els(u) \cup Els(o) : p[c] \in {"waiting", "cancelled"}
  /\ \A c \in Callers : p[c] = "waiting" => c \in Els(u) \cup Els(o)

\* From p to q, who is let in stood in the line, and nobody before it goes on
\* waiting.
LetInInOrder(line, p, q) ==
  \A c \in OwnersIn(q) \ OwnersIn(p) :
    /\ \E i \in 1..Len(line) : line[i] = c
    /\ \A i, j \in 1..Len(line) : i < j /\ line[j] = c => q[line[i]] # "waiting"

IInv == /\ TypeOK
        /\ QueueInv(urgent, ordinary, pc)
        /\ SlotsAccountedFor
        /\ HoldOffHasATimer
        /\ NoSlotLeftIdle

----------------------------------------------------------------------------
\* A set of naturals that is not empty has a least element.
LEMMA LeastOf ==
  ASSUME NEW T, T \subseteq Nat, T # {}
  PROVE  \E x \in T : \A y \in T : x <= y
<1> DEFINE R == OpToRel(<, Nat)
<1>1. PICK x \in T : \A y \in T : ~(<<y, x>> \in R)
  <2>1. IsWellFoundedOn(R, Nat)
    BY NatLessThanWellFounded
  <2> QED
    BY <2>1, WFMin
<1>2. ASSUME NEW y \in T PROVE x <= y
  <2>1. <<y, x>> \in R <=> y < x
    BY DEF OpToRel
  <2>2. ~(y < x)
    BY <1>1, <2>1
  <2>3. x \in Nat /\ y \in Nat
    OBVIOUS
  <2> QED
    BY <2>2, <2>3
<1> QED
  BY <1>2

\* What joining the back of a queue does to it.
LEMMA AppendFacts ==
  ASSUME NEW S, NEW q \in Seq(S), NEW c \in S, Distinct(q), c \notin Els(q)
  PROVE  /\ Append(q, c) \in Seq(S)
         /\ Distinct(Append(q, c))
         /\ Els(Append(q, c)) = Els(q) \cup {c}
BY DEF Distinct, Els

\* What taking one's waiter out of a queue does to it.
LEMMA WithoutFacts ==
  ASSUME NEW S, NEW q \in Seq(S), NEW c, Distinct(q)
  PROVE  /\ Without(q, c) \in Seq(S)
         /\ Distinct(Without(q, c))
         /\ Els(Without(q, c)) = Els(q) \ {c}
         /\ q = <<>> => Without(q, c) = <<>>
<1>1. CASE ~\E i \in 1..Len(q) : q[i] = c
  BY <1>1 DEF Without, Els
<1>2. CASE \E i \in 1..Len(q) : q[i] = c
  <2> DEFINE i == CHOOSE i \in 1..Len(q) : q[i] = c
             front == SubSeq(q, 1, i - 1)
             back == SubSeq(q, i + 1, Len(q))
             w == front \o back
  <2>1. i \in 1..Len(q) /\ q[i] = c
    BY <1>2
  <2>2. Without(q, c) = w
    BY <1>2 DEF Without
  <2> HIDE DEF i
  <2>8. /\ front \in Seq(S) /\ Len(front) = i - 1
        /\ \A j \in 1..(i - 1) : front[j] = q[j]
    BY <2>1, SubSeqProperties
  <2>9. /\ back \in Seq(S) /\ Len(back) = Len(q) - i
        /\ \A j \in 1..(Len(q) - i) : back[j] = q[i + j]
    BY <2>1, SubSeqProperties
  <2> HIDE DEF front, back
  <2>10. /\ w \in Seq(S) /\ Len(w) = Len(front) + Len(back)
        /\ \A j \in 1..(Len(front) + Len(back)) :
             w[j] = IF j <= Len(front) THEN front[j] ELSE back[j - Len(front)]
    BY <2>8, <2>9, ConcatProperties, Zenon
  <2> HIDE DEF w
  <2>3. w \in Seq(S) /\ Len(w) = Len(q) - 1
    BY <2>1, <2>8, <2>9, <2>10
  <2>4. \A j \in 1..Len(w) : w[j] = IF j < i THEN q[j] ELSE q[j + 1]
    <3> SUFFICES ASSUME NEW j \in 1..Len(w)
                 PROVE  w[j] = IF j < i THEN q[j] ELSE q[j + 1]
      OBVIOUS
    <3>3. j \in 1..(Len(front) + Len(back))
      BY <2>10
    <3>4. w[j] = IF j <= Len(front) THEN front[j] ELSE back[j - Len(front)]
      BY <3>3, <2>10
    <3>5. j \in Nat /\ i \in Nat /\ Len(front) = i - 1
      BY <2>1, <2>8, <3>3
    <3>1. CASE j < i
      <4>1. j <= Len(front) /\ j \in 1..(i - 1)
        BY <3>1, <3>3, <3>5
      <4> QED
        BY <3>1, <3>4, <4>1, <2>8
    <3>2. CASE ~(j < i)
      <4>1. w[j] = back[j - Len(front)]
        BY <3>2, <3>4, <3>5
      <4>2. j - Len(front) \in 1..(Len(q) - i) /\ i + (j - Len(front)) = j + 1
        BY <3>2, <2>1, <2>3, <2>8
      <4> QED
        BY <3>2, <4>1, <4>2, <2>9
    <3> QED
      BY <3>1, <3>2
  <2>5. Distinct(w)
    BY <2>1, <2>3, <2>4 DEF Distinct
  <2>6. Els(w) = Els(q) \ {c}
    <3>1. ASSUME NEW d \in Els(w) PROVE d \in Els(q) \ {c}
      BY <2>1, <2>3, <2>4 DEF Els, Distinct
    <3>2. ASSUME NEW d \in Els(q) \ {c} PROVE d \in Els(w)
      <4>1. PICK j \in 1..Len(q) : q[j] = d /\ j # i
        BY <2>1 DEF Els
      <4>2. CASE j < i
        BY <4>1, <4>2, <2>1, <2>3, <2>4 DEF Els
      <4>3. CASE j > i
        <5>1. j - 1 \in 1..Len(w) /\ w[j - 1] = d
          BY <4>1, <4>3, <2>1, <2>3, <2>4
        <5> QED
          BY <5>1 DEF Els
      <4> QED
        BY <4>1, <4>2, <4>3, <2>1
    <3> QED
      BY <3>1, <3>2
  <2> QED
    BY <2>1, <2>2, <2>3, <2>5, <2>6
<1> QED
  BY <1>1, <1>2

----------------------------------------------------------------------------
\* The loop of _admit reaches a prefix of the line, passes no more live waiters
\* than there are free slots, and stops before the end of the line only when
\* they have used the free slots up.
LEMMA ReachedIsAPrefix ==
  ASSUME NEW line \in Seq(Callers), NEW free \in Int, NEW p
  PROVE  LET k == Cardinality(Reached(line, free, p))
         IN  /\ k \in 0..Len(line)
             /\ Reached(line, free, p) = 1..k
             /\ k < Len(line) =>
                  Cardinality({j \in 1..k : p[line[j]] = "waiting"}) >= free
             /\ k > 0 =>
                  Cardinality({j \in 1..k : p[line[j]] = "waiting"}) <= free
<1> DEFINE R == Reached(line, free, p)
           L == Len(line)
           A(i) == LiveAhead(line, i, p)
           Out == (1..L) \ R
           k == Cardinality(R)
           W == {j \in 1..k : p[line[j]] = "waiting"}
<1> SUFFICES /\ k \in 0..L /\ R = 1..k /\ (k < L => Cardinality(W) >= free)
             /\ k > 0 => Cardinality(W) <= free
  OBVIOUS
<1>1. \A i \in 1..L : IsFiniteSet(A(i)) /\ Cardinality(A(i)) \in Nat
  <2> SUFFICES ASSUME NEW i \in 1..L
               PROVE  IsFiniteSet(A(i)) /\ Cardinality(A(i)) \in Nat
    OBVIOUS
  <2>1. IsFiniteSet(1..(i - 1)) /\ A(i) \in SUBSET (1..(i - 1))
    BY FS_Interval DEF LiveAhead
  <2> QED
    BY <2>1, FS_Subset, FS_CardinalityType
<1>2. \A i, j \in 1..L : i < j => Cardinality(A(i)) <= Cardinality(A(j))
  <2> SUFFICES ASSUME NEW i \in 1..L, NEW j \in 1..L, i < j
               PROVE  Cardinality(A(i)) <= Cardinality(A(j))
    OBVIOUS
  <2>1. A(i) \in SUBSET A(j)
    BY DEF LiveAhead
  <2> QED
    BY <2>1, <1>1, FS_Subset
<1>e. k \in 1..L /\ k \in R => Cardinality(W) <= free
  <2> SUFFICES ASSUME k \in 1..L, k \in R PROVE Cardinality(W) <= free
    OBVIOUS
  <2>1. Cardinality(A(k)) < free /\ IsFiniteSet(A(k)) /\ Cardinality(A(k)) \in Nat
    BY <1>1 DEF Reached
  <2>2. W \in SUBSET (A(k) \cup {k}) /\ k \notin A(k)
    BY DEF LiveAhead
  <2>3. IsFiniteSet(A(k) \cup {k}) /\ Cardinality(A(k) \cup {k}) = Cardinality(A(k)) + 1
    BY <2>1, <2>2, FS_AddElement
  <2> HIDE DEF W
  <2>4. Cardinality(W) <= Cardinality(A(k) \cup {k}) /\ IsFiniteSet(W)
    BY <2>2, <2>3, FS_Subset
  <2>5. Cardinality(W) \in Nat
    BY <2>4, FS_CardinalityType
  <2> QED
    BY <2>1, <2>3, <2>4, <2>5
<1>3. CASE Out = {}
  <2>1. R = 1..L
    BY <1>3 DEF Reached
  <2>2. L \in Nat
    OBVIOUS
  <2>3. Cardinality(1..L) = L
    BY <2>2, FS_Interval
  <2>4. k = L
    BY <2>1, <2>3
  <2> HIDE DEF W
  <2> QED
    BY <2>1, <2>2, <2>4, <1>e
<1>4. CASE Out # {}
  <2>1. PICK m \in Out : \A y \in Out : m <= y
    <3>1. Out \subseteq Nat
      OBVIOUS
    <3> QED
      BY <3>1, <1>4, LeastOf
  <2>2. m \in 1..L /\ ~(Cardinality(A(m)) < free)
    BY <2>1 DEF Reached
  <2>3. R = 1..(m - 1)
    <3>1. ASSUME NEW j \in R PROVE j \in 1..(m - 1)
      <4>1. j \in 1..L /\ Cardinality(A(j)) < free
        BY DEF Reached
      <4>2. ~(m < j)
        BY <4>1, <2>2, <1>1, <1>2
      <4>3. j # m
        BY <4>1, <2>2
      <4> QED
        BY <4>1, <4>2, <4>3, <2>2
    <3>2. ASSUME NEW j \in 1..(m - 1) PROVE j \in R
      BY <2>1, <2>2
    <3> QED
      BY <3>1, <3>2
  <2>4. k = m - 1
    <3>1. Cardinality(1..(m - 1)) = m - 1
      BY <2>2, FS_Interval
    <3> QED
      BY <2>3, <3>1
  <2>5. A(m) = W
    BY <2>4 DEF LiveAhead
  <2>6. Cardinality(A(m)) >= free
    BY <2>2, <1>1
  <2>7. Cardinality(W) >= free
    BY <2>5, <2>6
  <2> HIDE DEF W
  <2> QED
    BY <2>2, <2>3, <2>4, <2>7, <1>e
<1> QED
  BY <1>3, <1>4

\* What popping the first k callers does to a queue.
LEMMA PoppingFacts ==
  ASSUME NEW S, NEW q \in Seq(S), NEW k \in Nat, Distinct(q)
  PROVE  /\ AfterPopping(q, k) \in Seq(S)
         /\ Distinct(AfterPopping(q, k))
         /\ Els(AfterPopping(q, k)) = {q[i] : i \in (k + 1)..Len(q)}
<1> DEFINE r == SubSeq(q, k + 1, Len(q))
           n == IF k < Len(q) THEN Len(q) - k ELSE 0
<1>1. r = AfterPopping(q, k)
  BY DEF AfterPopping
<1>2. \A i \in (k + 1)..Len(q) : q[i] \in S
  OBVIOUS
<1>3. /\ r \in Seq(S) /\ Len(r) = n
      /\ \A i \in 1..n : r[i] = q[k + i]
  BY <1>2, SubSeqProperties
<1> HIDE DEF r
<1>4. Distinct(r)
  BY <1>3 DEF Distinct
<1>5. Els(r) = {q[i] : i \in (k + 1)..Len(q)}
  <2>1. ASSUME NEW c \in Els(r) PROVE c \in {q[i] : i \in (k + 1)..Len(q)}
    <3>1. PICK i \in 1..n : c = r[i]
      BY <1>3 DEF Els
    <3>2. c = q[k + i] /\ k + i \in (k + 1)..Len(q)
      BY <3>1, <1>3
    <3> QED
      BY <3>2
  <2>2. ASSUME NEW i \in (k + 1)..Len(q) PROVE q[i] \in Els(r)
    <3>1. i - k \in 1..n /\ k + (i - k) = i
      OBVIOUS
    <3>2. r[i - k] = q[i]
      BY <3>1, <1>3
    <3> QED
      BY <3>1, <3>2, <1>3 DEF Els
  <2> QED
    BY <2>1, <2>2
<1> QED
  BY <1>1, <1>3, <1>4, <1>5

\* Draining keeps the queues in order, gives each slot to one caller and no
\* more slots than are free, leaves nobody queued beside a free slot, and
\* leaves nobody waiting who was ahead of a caller that is let in.
LEMMA DrainFacts ==
  ASSUME NEW u \in Seq(Commands), NEW o \in Seq(Callers \ Commands),
         NEW n \in Int, NEW p \in [Callers -> Places], NEW free \in Int,
         QueueInv(u, o, p), n = Cardinality(OwnersIn(p)),
         Drain(u, o, n, p, free)
  PROVE  /\ urgent' \in Seq(Commands) /\ ordinary' \in Seq(Callers \ Commands)
         /\ pc' \in [Callers -> Places]
         /\ QueueInv(urgent', ordinary', pc')
         /\ inFlight' \in Nat
         /\ inFlight' = Cardinality(OwnersIn(pc'))
         /\ Line' # <<>> => inFlight' >= n + free
         /\ OwnersIn(pc') # OwnersIn(p) => n < inFlight' /\ inFlight' <= n + free
         /\ LetInInOrder(u \o o, p, pc')
<1> DEFINE line == u \o o
           L == Len(line)
           R == Reached(line, free, p)
           k == Cardinality(R)
           in == LetIn(line, free, p)
           W == {j \in 1..k : p[line[j]] = "waiting"}
<1>1. /\ urgent' = AfterPopping(u, k)
      /\ ordinary' = IF k > Len(u) THEN AfterPopping(o, k - Len(u)) ELSE o
      /\ inFlight' = n + Cardinality(in)
      /\ pc' = [c \in Callers |-> IF c \in in THEN "admitted" ELSE p[c]]
  BY DEF Drain
<1>2. u \in Seq(Callers) /\ o \in Seq(Callers)
  BY CallersAssumption
<1>3. /\ line \in Seq(Callers) /\ L = Len(u) + Len(o)
      /\ \A i \in 1..(Len(u) + Len(o)) :
           line[i] = IF i <= Len(u) THEN u[i] ELSE o[i - Len(u)]
  BY <1>2, ConcatProperties, Zenon
<1> HIDE DEF line
<1>4. /\ k \in 0..L /\ R = 1..k /\ (k < L => Cardinality(W) >= free)
      /\ k > 0 => Cardinality(W) <= free
  BY <1>3, ReachedIsAPrefix
<1>5. in = {c \in Callers : p[c] = "waiting" /\ \E i \in 1..k : line[i] = c}
  BY <1>4 DEF LetIn
<1> HIDE DEF k, R, in
<1>6. \A i \in 1..Len(u) : i \in 1..L /\ line[i] = u[i] /\ u[i] \in Commands
  BY <1>3
<1>7. \A i \in 1..Len(o) : /\ Len(u) + i \in 1..L
                           /\ line[Len(u) + i] = o[i]
                           /\ o[i] \in Callers \ Commands
  <2> SUFFICES ASSUME NEW i \in 1..Len(o)
               PROVE  /\ Len(u) + i \in 1..L
                      /\ line[Len(u) + i] = o[i]
                      /\ o[i] \in Callers \ Commands
    OBVIOUS
  <2>1. /\ Len(u) + i \in 1..(Len(u) + Len(o)) /\ ~(Len(u) + i <= Len(u))
        /\ (Len(u) + i) - Len(u) = i
    OBVIOUS
  <2> QED
    BY <2>1, <1>3
<1>8. \A i \in 1..L : \/ i \in 1..Len(u) /\ line[i] = u[i]
                      \/ i - Len(u) \in 1..Len(o) /\ line[i] = o[i - Len(u)]
  BY <1>3
<1>9. \A i, j \in 1..L : line[i] = line[j] => i = j
  <2> SUFFICES ASSUME NEW i \in 1..L, NEW j \in 1..L, line[i] = line[j]
               PROVE  i = j
    OBVIOUS
  <2>1. Distinct(u) /\ Distinct(o)
    BY DEF QueueInv
  <2>2. CASE i \in 1..Len(u) /\ j \in 1..Len(u)
    BY <2>1, <2>2, <1>6 DEF Distinct
  <2>3. CASE i \in 1..Len(u) /\ j \notin 1..Len(u)
    BY <2>3, <1>6, <1>7, <1>8
  <2>4. CASE i \notin 1..Len(u) /\ j \in 1..Len(u)
    <3>1. line[j] \in Commands
      BY <2>4, <1>6
    <3>2. i - Len(u) \in 1..Len(o) /\ line[i] = o[i - Len(u)]
      BY <2>4, <1>8
    <3>3. line[i] \notin Commands
      BY <3>2
    <3> QED
      BY <3>1, <3>3
  <2>5. CASE i \notin 1..Len(u) /\ j \notin 1..Len(u)
    <3>1. /\ i - Len(u) \in 1..Len(o) /\ line[i] = o[i - Len(u)]
          /\ j - Len(u) \in 1..Len(o) /\ line[j] = o[j - Len(u)]
      BY <2>5, <1>8
    <3>2. i - Len(u) = j - Len(u)
      BY <3>1, <2>1 DEF Distinct
    <3> QED
      BY <3>2
  <2> QED
    BY <2>2, <2>3, <2>4, <2>5
<1>10. Els(u) \cup Els(o) = {line[i] : i \in 1..L}
  <2>1. ASSUME NEW c \in Els(u) \cup Els(o) PROVE c \in {line[i] : i \in 1..L}
    BY <1>6, <1>7 DEF Els
  <2>2. ASSUME NEW i \in 1..L PROVE line[i] \in Els(u) \cup Els(o)
    BY <1>8 DEF Els
  <2> QED
    BY <2>1, <2>2
\* The queues that are left.
<1>11. /\ urgent' \in Seq(Commands) /\ Distinct(urgent')
       /\ Els(urgent') = {u[i] : i \in (k + 1)..Len(u)}
  <2>1. k \in Nat /\ Distinct(u)
    BY <1>4 DEF QueueInv
  <2> QED
    BY <2>1, <1>1, PoppingFacts
<1> DEFINE d == IF k > Len(u) THEN k - Len(u) ELSE 0
<1>12. /\ ordinary' \in Seq(Callers \ Commands) /\ Distinct(ordinary')
       /\ Els(ordinary') = {o[i] : i \in (d + 1)..Len(o)}
  <2>1. CASE k > Len(u)
    <3>1. k - Len(u) \in Nat /\ d = k - Len(u)
      BY <2>1, <1>4
    <3>2. ordinary' = AfterPopping(o, k - Len(u))
      BY <2>1, <1>1
    <3> HIDE DEF d
    <3> QED
      BY <3>1, <3>2, PoppingFacts DEF QueueInv
  <2>2. CASE ~(k > Len(u))
    BY <2>2, <1>1 DEF QueueInv, Els
  <2> QED
    BY <2>1, <2>2
<1>13. Els(urgent') \cup Els(ordinary') = {line[i] : i \in (k + 1)..L}
  <2>1. ASSUME NEW c \in Els(urgent') PROVE c \in {line[i] : i \in (k + 1)..L}
    BY <1>4, <1>6, <1>11
  <2>2. ASSUME NEW c \in Els(ordinary') PROVE c \in {line[i] : i \in (k + 1)..L}
    <3>1. PICK i \in (d + 1)..Len(o) : c = o[i]
      BY <1>12
    <3>2. Len(u) + i \in (k + 1)..L /\ line[Len(u) + i] = c
      BY <3>1, <1>3, <1>4, <1>7
    <3> QED
      BY <3>2
  <2>3. ASSUME NEW i \in (k + 1)..L
        PROVE  line[i] \in Els(urgent') \cup Els(ordinary')
    <3>1. CASE i <= Len(u)
      <4>1. line[i] = u[i] /\ i \in (k + 1)..Len(u)
        BY <3>1, <1>3, <1>4
      <4> QED
        BY <4>1, <1>11
    <3>2. CASE ~(i <= Len(u))
      <4>1. line[i] = o[i - Len(u)] /\ i - Len(u) \in (d + 1)..Len(o)
        BY <3>2, <1>3, <1>4
      <4> QED
        BY <4>1, <1>12
    <3> QED
      BY <3>1, <3>2
  <2> QED
    BY <2>1, <2>2, <2>3
<1>14. pc' \in [Callers -> Places]
  BY <1>1 DEF Places
<1>15. QueueInv(urgent', ordinary', pc')
  <2>1. ASSUME NEW c \in Els(urgent') \cup Els(ordinary')
        PROVE  pc'[c] \in {"waiting", "cancelled"}
    <3>1. PICK i \in (k + 1)..L : c = line[i]
      BY <1>13
    <3>2. i \in 1..L /\ c \in Callers
      BY <3>1, <1>3, <1>4
    <3>3. c \notin in
      BY <3>1, <3>2, <1>4, <1>5, <1>9
    <3>4. p[c] \in {"waiting", "cancelled"}
      BY <3>1, <3>2, <1>10 DEF QueueInv
    <3> QED
      BY <3>2, <3>3, <3>4, <1>1
  <2>2. ASSUME NEW c \in Callers, pc'[c] = "waiting"
        PROVE  c \in Els(urgent') \cup Els(ordinary')
    <3>1. c \notin in /\ p[c] = "waiting"
      BY <2>2, <1>1
    <3>2. PICK i \in 1..L : c = line[i]
      BY <3>1, <1>10 DEF QueueInv
    <3>3. i \in (k + 1)..L
      BY <3>1, <3>2, <1>4, <1>5
    <3> QED
      BY <3>2, <3>3, <1>13
  <2> QED
    BY <2>1, <2>2, <1>11, <1>12 DEF QueueInv
\* The slots that are given.
<1>16. IsFiniteSet(OwnersIn(p)) /\ IsFiniteSet(in)
  <2>1. OwnersIn(p) \in SUBSET Callers /\ in \in SUBSET Callers
    BY <1>5 DEF OwnersIn
  <2> QED
    BY <2>1, CallersAssumption, FS_Subset
<1>17. OwnersIn(p) \cap in = {} /\ OwnersIn(pc') = OwnersIn(p) \cup in
  BY <1>1, <1>5 DEF OwnersIn
<1>18. /\ Cardinality(OwnersIn(pc')) = n + Cardinality(in)
       /\ n \in Nat /\ Cardinality(in) \in Nat
  <2>1. Cardinality(OwnersIn(p) \cap in) = 0
    BY <1>17, FS_EmptySet
  <2>2. Cardinality(OwnersIn(p)) \in Nat /\ Cardinality(in) \in Nat
    BY <1>16, FS_CardinalityType
  <2>3. Cardinality(OwnersIn(p) \cup in)
          = Cardinality(OwnersIn(p)) + Cardinality(in) - Cardinality(OwnersIn(p) \cap in)
    BY <1>16, FS_Union
  <2> QED
    BY <2>1, <2>2, <2>3, <1>17
<1>19. Cardinality(in) = Cardinality(W)
  <2> DEFINE f == [j \in W |-> line[j]]
  <2>1. IsFiniteSet(W)
    <3>1. W \in SUBSET (1..k)
      OBVIOUS
    <3>2. IsFiniteSet(1..k)
      BY <1>4, FS_Interval
    <3> HIDE DEF W
    <3> QED
      BY <3>1, <3>2, FS_Subset
  <2>2. W \subseteq 1..L
    BY <1>4
  <2>3. f \in Bijection(W, in)
    <3>1. f \in [W -> in]
      BY <2>2, <1>3, <1>4, <1>5
    <3>2. \A i, j \in W : f[i] = f[j] => i = j
      BY <2>2, <1>9
    <3>3. \A c \in in : \E j \in W : f[j] = c
      BY <1>5
    <3> QED
      BY <3>1, <3>2, <3>3, Fun_IsBij
  <2>4. ExistsBijection(W, in)
    BY <2>3 DEF ExistsBijection
  <2> QED
    BY <2>1, <2>4, FS_Bijection
<1>20. Line' # <<>> => inFlight' >= n + free
  <2> SUFFICES ASSUME Line' # <<>> PROVE inFlight' >= n + free
    OBVIOUS
  <2>1. urgent' # <<>> \/ ordinary' # <<>>
    BY <1>11, <1>12 DEF Line
  <2>2. PICK c : c \in Els(urgent') \cup Els(ordinary')
    <3>1. \A q \in Seq(Callers) : q # <<>> => q[1] \in Els(q)
      BY DEF Els
    <3>2. urgent' \in Seq(Callers) /\ ordinary' \in Seq(Callers)
      BY <1>11, <1>12, CallersAssumption
    <3> QED
      BY <2>1, <3>1, <3>2
  <2>3. k < L
    BY <2>2, <1>3, <1>4, <1>13
  <2>4. Cardinality(in) >= free
    BY <2>3, <1>4, <1>19
  <2> QED
    BY <2>4, <1>1, <1>18
<1>21. OwnersIn(pc') # OwnersIn(p) => n < inFlight' /\ inFlight' <= n + free
  <2> SUFFICES ASSUME OwnersIn(pc') # OwnersIn(p)
               PROVE  n < inFlight' /\ inFlight' <= n + free
    OBVIOUS
  <2>1. in # {}
    BY <1>17
  <2>2. k > 0
    BY <2>1, <1>4, <1>5
  <2>3. Cardinality(in) # 0
    BY <2>1, <1>16, FS_EmptySet
  <2>4. Cardinality(in) <= free
    BY <2>2, <1>4, <1>19
  <2> HIDE DEF W
  <2> QED
    BY <2>3, <2>4, <1>1, <1>18
<1>22. ASSUME NEW c \in OwnersIn(pc') \ OwnersIn(p)
       PROVE  /\ \E i \in 1..L : line[i] = c
              /\ \A i, j \in 1..L : i < j /\ line[j] = c => pc'[line[i]] # "waiting"
  <2>1. c \in in
    BY <1>17, <1>22
  <2>2. PICK m \in 1..k : line[m] = c
    BY <2>1, <1>5
  <2>3. m \in 1..L
    BY <1>4
  <2>4. ASSUME NEW i \in 1..L, NEW j \in 1..L, i < j, line[j] = c
        PROVE  pc'[line[i]] # "waiting"
    <3>1. i \in 1..k /\ line[i] \in Callers
      BY <2>2, <2>3, <2>4, <1>3, <1>4, <1>9
    <3>2. p[line[i]] = "waiting" => line[i] \in in
      BY <3>1, <1>5
    <3> QED
      BY <3>1, <3>2, <1>1
  <2> QED
    BY <2>2, <2>3, <2>4
<1>23. LetInInOrder(u \o o, p, pc')
  BY <1>22 DEF line, LetInInOrder
<1>24. inFlight' \in Nat /\ inFlight' = Cardinality(OwnersIn(pc'))
  BY <1>1, <1>18
<1> QED
  BY <1>11, <1>12, <1>14, <1>15, <1>20, <1>21, <1>23, <1>24, Zenon
----------------------------------------------------------------------------
\* The lowest of some requests is one of them.
LEMMA LowestIsARequest ==
  ASSUME NEW S \in SUBSET Nat, S # {}
  PROVE  LowestOf(S) \in S
<1>1. \E l \in S : \A m \in S : l <= m
  BY LeastOf
<1> QED
  BY <1>1 DEF LowestOf

\* A caller that gives its slot up leaves the queues as they are and one
\* slot fewer in use.
LEMMA GivingUpFacts ==
  ASSUME IInv, NEW c \in Owners
  PROVE  LET p == [pc EXCEPT ![c] = "away"]
         IN  /\ p \in [Callers -> Places]
             /\ QueueInv(urgent, ordinary, p)
             /\ inFlight > 0
             /\ inFlight - 1 = Cardinality(OwnersIn(p))
<1> DEFINE p == [pc EXCEPT ![c] = "away"]
<1>1. c \in Callers /\ pc[c] \in {"admitted", "revoked", "holding"}
  BY DEF Owners
<1>2. pc \in [Callers -> Places]
  BY DEF IInv, TypeOK
<1>3. p \in [Callers -> Places]
  BY <1>2 DEF Places
<1>4. QueueInv(urgent, ordinary, p)
  <2>1. QueueInv(urgent, ordinary, pc)
    BY DEF IInv
  <2>2. Els(urgent) \cup Els(ordinary) \subseteq Callers
    BY CallersAssumption DEF IInv, TypeOK, Els
  <2>3. c \notin Els(urgent) \cup Els(ordinary)
    BY <1>1, <2>1 DEF QueueInv
  <2> QED
    BY <1>1, <1>2, <2>1, <2>2, <2>3 DEF QueueInv
<1>5. OwnersIn(p) = Owners \ {c}
  BY <1>1, <1>2 DEF Owners, OwnersIn
<1>6. IsFiniteSet(Owners)
  <2>1. Owners \in SUBSET Callers
    BY DEF Owners
  <2> QED
    BY <2>1, CallersAssumption, FS_Subset
<1>7. inFlight > 0 /\ inFlight - 1 = Cardinality(OwnersIn(p))
  <2>1. IsFiniteSet(Owners \ {c}) /\ Cardinality(Owners \ {c}) = Cardinality(Owners) - 1
    BY <1>6, FS_RemoveElement
  <2>2. Cardinality(Owners \ {c}) \in Nat /\ Cardinality(Owners) \in Nat
    BY <2>1, <1>6, FS_CardinalityType
  <2>3. inFlight = Cardinality(Owners)
    BY DEF IInv, SlotsAccountedFor
  <2> QED
    <3> HIDE DEF p
    <3>1. Cardinality(OwnersIn(p)) = Cardinality(Owners) - 1
      BY <2>1, <1>5
    <3> QED
      BY <2>1, <2>2, <2>3, <3>1
<1> QED
  BY <1>3, <1>4, <1>7

\* Any step that drains the queue from a sound state leaves a sound one,
\* provided a hold-off has its timer.
LEMMA AdmitKeepsInv ==
  ASSUME IInv, NEW n \in Nat, NEW l \in 1..MaxLimit,
         NEW p \in [Callers -> Places], NEW held \in BOOLEAN,
         QueueInv(urgent, ordinary, p), n = Cardinality(OwnersIn(p)),
         Admit(urgent, ordinary, n, l, p, held),
         limit' = l, heldOff' = held, timers' \in Nat,
         held => timers' > 0,
         asked' \in [Entries -> 0..MaxLimit]
  PROVE  IInv'
<1> DEFINE free == IF held THEN 0 ELSE l - n
<1>1. free \in Int /\ Drain(urgent, ordinary, n, p, free)
  BY LimitAssumption DEF Admit
<1>2. urgent \in Seq(Commands) /\ ordinary \in Seq(Callers \ Commands)
  BY DEF IInv, TypeOK
<1> HIDE DEF free
<1>3. /\ urgent' \in Seq(Commands) /\ ordinary' \in Seq(Callers \ Commands)
      /\ pc' \in [Callers -> Places]
      /\ QueueInv(urgent', ordinary', pc')
      /\ inFlight' \in Nat
      /\ inFlight' = Cardinality(OwnersIn(pc'))
      /\ Line' # <<>> => inFlight' >= n + free
  <2>1. n \in Int
    OBVIOUS
  <2> QED
    BY <1>1, <1>2, <2>1, DrainFacts, Zenon
<1>4. TypeOK'
  BY <1>3 DEF TypeOK
<1>5. SlotsAccountedFor'
  BY <1>3 DEF SlotsAccountedFor, Owners, OwnersIn
<1>6. HoldOffHasATimer'
  BY DEF HoldOffHasATimer
<1>7. NoSlotLeftIdle'
  <2>1. CASE held
    BY <2>1 DEF NoSlotLeftIdle
  <2>2. CASE ~held
    <3>1. Line' # <<>> => inFlight' >= l
      BY <2>2, <1>3, LimitAssumption DEF free
    <3> QED
      BY <3>1, <1>3, LimitAssumption DEF NoSlotLeftIdle
  <2> QED
    BY <2>1, <2>2
<1> QED
  BY <1>3, <1>4, <1>5, <1>6, <1>7 DEF IInv
\* A caller gives its slot up and the queue is drained.
LEMMA GiveUpKeepsInv ==
  ASSUME IInv, NEW c \in Owners, NEW held \in BOOLEAN,
         Admit(urgent, ordinary, inFlight - 1, limit, [pc EXCEPT ![c] = "away"], held),
         UNCHANGED <<limit, asked>>, heldOff' = held, timers' \in Nat,
         held => timers' > 0
  PROVE  IInv'
<1> DEFINE p == [pc EXCEPT ![c] = "away"]
           n == inFlight - 1
<1>1. /\ p \in [Callers -> Places] /\ QueueInv(urgent, ordinary, p)
      /\ inFlight > 0 /\ n = Cardinality(OwnersIn(p))
  BY GivingUpFacts, Zenon
<1>2. /\ n \in Nat /\ limit \in 1..MaxLimit /\ limit' = limit
      /\ asked' \in [Entries -> 0..MaxLimit]
  BY <1>1 DEF IInv, TypeOK
<1>3. Admit(urgent, ordinary, n, limit, p, held)
  OBVIOUS
<1> HIDE DEF p, n
<1> QED
  BY <1>1, <1>2, <1>3, AdmitKeepsInv

----------------------------------------------------------------------------
\* The bookkeeping invariant holds at the start and every step keeps it.
LEMMA InitInv == Init => IInv
<1> SUFFICES ASSUME Init PROVE IInv
  OBVIOUS
<1> USE DEF Init
<1>1. TypeOK
  <2>1. 0 \in 0..MaxLimit /\ DefaultLimit \in 1..MaxLimit
    BY LimitAssumption
  <2>2. urgent \in Seq(Commands) /\ ordinary \in Seq(Callers \ Commands)
    BY EmptySeq
  <2>3. asked \in [Entries -> 0..MaxLimit] /\ pc \in [Callers -> Places]
    BY <2>1 DEF Places
  <2> QED
    BY <2>1, <2>2, <2>3 DEF TypeOK
<1>2. QueueInv(urgent, ordinary, pc)
  BY DEF QueueInv, Distinct, Els
<1>3. SlotsAccountedFor
  <2>1. Owners = {}
    BY DEF Owners
  <2> QED
    BY <2>1, FS_EmptySet DEF SlotsAccountedFor
<1>4. HoldOffHasATimer /\ NoSlotLeftIdle
  BY DEF HoldOffHasATimer, NoSlotLeftIdle, Line
<1> QED
  BY <1>1, <1>2, <1>3, <1>4 DEF IInv

\* Taking a slot at once, or joining the back of a queue, from outside both.
LEMMA EnterKeepsInv ==
  ASSUME IInv, NEW c \in Callers, pc[c] \in {"away", "cooling"}, Enter(c),
         UNCHANGED <<limit, heldOff, timers, asked>>
  PROVE  IInv'
<1> USE DEF IInv
<1>1. c \notin Els(urgent) \cup Els(ordinary)
  BY DEF QueueInv
<1>2. Els(urgent) \cup Els(ordinary) \subseteq Callers
  BY CallersAssumption DEF TypeOK, Els
<1>3. IsFiniteSet(Owners) /\ c \notin Owners
  <2>1. Owners \in SUBSET Callers
    BY DEF Owners
  <2>2. c \notin Owners
    BY DEF Owners
  <2> QED
    BY <2>1, <2>2, CallersAssumption, FS_Subset
<1>4. CASE Line = <<>> /\ inFlight < limit
  <2>1. TakeSlot(c)
    BY <1>4 DEF Enter
  <2>2. TypeOK'
    BY <2>1 DEF TakeSlot, TypeOK, Places
  <2>3. QueueInv(urgent', ordinary', pc')
    BY <2>1, <1>1, <1>2 DEF TakeSlot, QueueInv, TypeOK
  <2>4. SlotsAccountedFor'
    <3>1. Owners' = Owners \cup {c}
      BY <2>1 DEF TakeSlot, Owners, TypeOK
    <3>2. Cardinality(Owners \cup {c}) = Cardinality(Owners) + 1
      BY <1>3, FS_AddElement
    <3> QED
      BY <2>1, <3>1, <3>2 DEF TakeSlot, SlotsAccountedFor
  <2>5. HoldOffHasATimer' /\ NoSlotLeftIdle'
    BY <1>4, <2>1 DEF TakeSlot, HoldOffHasATimer, NoSlotLeftIdle, Line
  <2> QED
    BY <2>2, <2>3, <2>4, <2>5
<1>5. CASE ~(Line = <<>> /\ inFlight < limit)
  <2>1. JoinQueue(c)
    BY <1>5 DEF Enter
  <2>2. pc' = [pc EXCEPT ![c] = "waiting"] /\ inFlight' = inFlight
    BY <2>1 DEF JoinQueue
  <2>3. CASE c \in Commands
    <3>1. urgent' = Append(urgent, c) /\ ordinary' = ordinary
      BY <2>1, <2>3 DEF JoinQueue
    <3>2. /\ urgent' \in Seq(Commands) /\ Distinct(urgent')
          /\ Els(urgent') = Els(urgent) \cup {c}
      BY <2>3, <3>1, <1>1, AppendFacts DEF QueueInv, TypeOK
    <3>3. QueueInv(urgent', ordinary', pc')
      BY <2>2, <3>1, <3>2, <1>2 DEF QueueInv, TypeOK
    <3> QED
      BY <2>2, <3>1, <3>2, <3>3, <1>5, <1>3
         DEF TypeOK, Places, SlotsAccountedFor, Owners, HoldOffHasATimer,
             NoSlotLeftIdle
  <2>4. CASE c \notin Commands
    <3>1. ordinary' = Append(ordinary, c) /\ urgent' = urgent
      BY <2>1, <2>4 DEF JoinQueue
    <3>2. /\ ordinary' \in Seq(Callers \ Commands) /\ Distinct(ordinary')
          /\ Els(ordinary') = Els(ordinary) \cup {c}
      BY <2>4, <3>1, <1>1, AppendFacts DEF QueueInv, TypeOK
    <3>3. QueueInv(urgent', ordinary', pc')
      BY <2>2, <3>1, <3>2, <1>2 DEF QueueInv, TypeOK
    <3> QED
      BY <2>2, <3>1, <3>2, <3>3, <1>5, <1>3
         DEF TypeOK, Places, SlotsAccountedFor, Owners, HoldOffHasATimer,
             NoSlotLeftIdle
  <2> QED
    BY <2>3, <2>4
<1> QED
  BY <1>4, <1>5
\* A queued caller leaves its queue.
LEMMA LeaveKeepsInv ==
  ASSUME IInv, NEW c \in Callers, LeaveQueue(c)
  PROVE  IInv'
<1> USE DEF IInv
<1>1. /\ pc[c] = "cancelled" /\ pc' = [pc EXCEPT ![c] = "away"]
      /\ UNCHANGED <<limit, inFlight, heldOff, timers, asked>>
  BY DEF LeaveQueue
<1>2. /\ urgent' \in Seq(Commands) /\ Distinct(urgent')
      /\ Els(urgent') = IF c \in Commands THEN Els(urgent) \ {c} ELSE Els(urgent)
      /\ urgent = <<>> => urgent' = <<>>
  BY WithoutFacts DEF LeaveQueue, QueueInv, TypeOK
<1>3. /\ ordinary' \in Seq(Callers \ Commands) /\ Distinct(ordinary')
      /\ Els(ordinary') = IF c \in Commands THEN Els(ordinary)
                                            ELSE Els(ordinary) \ {c}
      /\ ordinary = <<>> => ordinary' = <<>>
  BY WithoutFacts DEF LeaveQueue, QueueInv, TypeOK
<1>4. TypeOK'
  BY <1>1, <1>2, <1>3 DEF TypeOK, Places
<1>5. QueueInv(urgent', ordinary', pc')
  <2>1. Els(urgent) \subseteq Commands /\ Els(ordinary) \subseteq Callers \ Commands
    BY DEF TypeOK, Els
  <2>2. Els(urgent') \cup Els(ordinary') = (Els(urgent) \cup Els(ordinary)) \ {c}
    BY <2>1, <1>2, <1>3
  <2>3. pc' = [d \in Callers |-> IF d = c THEN "away" ELSE pc[d]]
    BY <1>1 DEF TypeOK
  <2> QED
    BY <2>1, <2>2, <2>3, <1>2, <1>3, CallersAssumption DEF QueueInv
<1>6. SlotsAccountedFor'
  <2>1. Owners' = Owners
    BY <1>1 DEF Owners, TypeOK
  <2> QED
    BY <2>1, <1>1 DEF SlotsAccountedFor
<1>7. HoldOffHasATimer' /\ NoSlotLeftIdle'
  <2>1. Line = <<>> => Line' = <<>>
    <3>1. Line = <<>> => urgent = <<>> /\ ordinary = <<>>
      BY DEF Line, TypeOK
    <3> QED
      BY <3>1, <1>2, <1>3 DEF Line
  <2> QED
    BY <2>1, <1>1 DEF HoldOffHasATimer, NoSlotLeftIdle
<1> QED
  BY <1>4, <1>5, <1>6, <1>7

\* A step that moves a caller about without touching queues, slots or timers.
LEMMA MoveKeepsInv ==
  ASSUME IInv, NEW c \in Callers, NEW to \in Places,
         pc' = [pc EXCEPT ![c] = to],
         UNCHANGED <<limit, inFlight, urgent, ordinary, heldOff, timers, asked>>,
         \/ pc[c] \in {"away", "cooling"} /\ to \in {"away", "cooling"}
         \/ pc[c] = "waiting" /\ to = "cancelled"
         \/ pc[c] = "admitted" /\ to \in {"holding", "revoked"}
  PROVE  IInv'
<1> USE DEF IInv
<1>1. pc' = [d \in Callers |-> IF d = c THEN to ELSE pc[d]]
  BY DEF TypeOK
<1>2. TypeOK'
  BY <1>1 DEF TypeOK
<1>3. QueueInv(urgent', ordinary', pc')
  <2>1. Els(urgent) \cup Els(ordinary) \subseteq Callers
    BY CallersAssumption DEF TypeOK, Els
  <2> QED
    BY <2>1, <1>1 DEF QueueInv
<1>4. SlotsAccountedFor'
  <2>1. Owners' = Owners
    BY <1>1 DEF Owners
  <2> QED
    BY <2>1 DEF SlotsAccountedFor
<1> QED
  BY <1>2, <1>3, <1>4 DEF HoldOffHasATimer, NoSlotLeftIdle, Line

\* Moving the cap.
LEMMA ResizeKeepsInv ==
  ASSUME IInv, NEW l \in 1..MaxLimit, Resize(l), UNCHANGED <<heldOff, timers>>,
         asked' \in [Entries -> 0..MaxLimit]
  PROVE  IInv'
<1>1. CASE l = limit
  BY <1>1 DEF Resize, IInv, TypeOK, SlotsAccountedFor, Owners, HoldOffHasATimer,
              NoSlotLeftIdle, Line
<1>2. CASE l # limit
  <2>1. Admit(urgent, ordinary, inFlight, l, pc, heldOff) /\ limit' = l
    BY <1>2 DEF Resize
  <2>2. /\ inFlight = Cardinality(OwnersIn(pc)) /\ inFlight \in Nat
        /\ heldOff' = heldOff /\ heldOff \in BOOLEAN
        /\ timers' \in Nat /\ (heldOff => timers' > 0)
        /\ pc \in [Callers -> Places] /\ QueueInv(urgent, ordinary, pc)
    BY DEF IInv, TypeOK, SlotsAccountedFor, Owners, OwnersIn, HoldOffHasATimer
  <2> QED
    BY <2>1, <2>2, AdmitKeepsInv
<1> QED
  BY <1>1, <1>2

\* The requests on record are limits in the allowed range.
LEMMA RequestsInRange ==
  ASSUME NEW a \in [Entries -> 0..MaxLimit]
  PROVE  /\ Requests(a) \subseteq 1..MaxLimit
         /\ Requests(a) # {} => LowestOf(Requests(a)) \in 1..MaxLimit
<1>1. Requests(a) \subseteq 1..MaxLimit
  BY LimitAssumption DEF Requests
<1>2. Requests(a) \in SUBSET Nat
  BY <1>1, LimitAssumption
<1> QED
  BY <1>1, <1>2, LowestIsARequest
LEMMA NextInv == IInv /\ [Next]_vars => IInv'
<1> SUFFICES ASSUME IInv, [Next]_vars PROVE IInv'
  OBVIOUS
<1>a. /\ pc \in [Callers -> Places] /\ asked \in [Entries -> 0..MaxLimit]
      /\ limit \in 1..MaxLimit /\ inFlight \in Nat /\ timers \in Nat
      /\ heldOff \in BOOLEAN /\ QueueInv(urgent, ordinary, pc)
      /\ inFlight = Cardinality(OwnersIn(pc))
      /\ heldOff => timers > 0
  BY DEF IInv, TypeOK, SlotsAccountedFor, Owners, OwnersIn, HoldOffHasATimer
<1>1. ASSUME NEW c \in Callers, Acquire(c) PROVE IInv'
  <2>1. CASE heldOff
    <3>1. pc' = [pc EXCEPT ![c] = "cooling"] /\ pc[c] = "away"
      BY <1>1, <2>1 DEF Acquire
    <3>2. UNCHANGED <<limit, inFlight, urgent, ordinary, heldOff, timers, asked>>
      BY <1>1, <2>1 DEF Acquire
    <3>3. "cooling" \in Places
      BY DEF Places
    <3> QED
      BY <3>1, <3>2, <3>3, MoveKeepsInv
  <2>2. CASE ~heldOff
    BY <1>1, <2>2, EnterKeepsInv DEF Acquire
  <2> QED
    BY <2>1, <2>2
<1>2. ASSUME NEW c \in Callers, Wake(c) PROVE IInv'
  BY <1>2, EnterKeepsInv DEF Wake
<1>3. ASSUME NEW c \in Callers, Return(c) PROVE IInv'
  <2>1. "holding" \in Places
    BY DEF Places
  <2> QED
    BY <1>3, <2>1, MoveKeepsInv DEF Return
<1>4. ASSUME NEW c \in Callers, Cancel(c) PROVE IInv'
  <2>1. "away" \in Places /\ "cancelled" \in Places /\ "revoked" \in Places
    BY DEF Places
  <2>2. UNCHANGED <<limit, inFlight, urgent, ordinary, heldOff, timers, asked>>
    BY <1>4 DEF Cancel
  <2>3. CASE pc[c] = "cooling" /\ pc' = [pc EXCEPT ![c] = "away"]
    BY <2>1, <2>2, <2>3, MoveKeepsInv
  <2>4. CASE pc[c] = "waiting" /\ pc' = [pc EXCEPT ![c] = "cancelled"]
    BY <2>1, <2>2, <2>4, MoveKeepsInv
  <2>5. CASE pc[c] = "admitted" /\ pc' = [pc EXCEPT ![c] = "revoked"]
    BY <2>1, <2>2, <2>5, MoveKeepsInv
  <2> QED
    BY <1>4, <2>3, <2>4, <2>5 DEF Cancel
<1>5. ASSUME NEW c \in Callers, LeaveQueue(c) PROVE IInv'
  BY <1>5, LeaveKeepsInv
<1>b. ASSUME NEW c \in Callers, pc[c] \in {"revoked", "holding"}
      PROVE  c \in Owners /\ inFlight > 0
  <2>1. c \in Owners
    BY <1>b DEF Owners
  <2> QED
    BY <2>1, GivingUpFacts
<1>6. ASSUME NEW c \in Callers, HandOn(c) PROVE IInv'
  <2>1. /\ Admit(urgent, ordinary, inFlight - 1, limit, [pc EXCEPT ![c] = "away"], heldOff)
        /\ UNCHANGED <<limit, heldOff, timers, asked>> /\ pc[c] = "revoked"
    BY <1>6 DEF HandOn
  <2> QED
    BY <2>1, <1>a, <1>b, GiveUpKeepsInv
<1>7. ASSUME NEW c \in Callers, Release(c) PROVE IInv'
  <2>1. pc[c] = "holding" /\ UNCHANGED <<limit, heldOff, timers, asked>>
    BY <1>7 DEF Release
  <2>2. (IF inFlight > 0 THEN inFlight - 1 ELSE inFlight) = inFlight - 1
    BY <2>1, <1>b
  <2>3. Admit(urgent, ordinary, inFlight - 1, limit, [pc EXCEPT ![c] = "away"], heldOff)
    BY <1>7, <2>2 DEF Release
  <2> QED
    BY <2>1, <2>3, <1>a, <1>b, GiveUpKeepsInv
<1>8. ASSUME NEW c \in Callers, HostIsFull(c) PROVE IInv'
  <2>1. /\ pc[c] = "holding" /\ UNCHANGED <<limit, asked>>
        /\ heldOff' = TRUE /\ timers' \in Nat /\ timers' > 0
    BY <1>8, <1>a, TimersAssumption DEF HostIsFull
  <2>2. (IF inFlight > 0 THEN inFlight - 1 ELSE inFlight) = inFlight - 1
    BY <2>1, <1>b
  <2>3. Admit(urgent, ordinary, inFlight - 1, limit, [pc EXCEPT ![c] = "away"], TRUE)
    BY <1>8, <2>2 DEF HostIsFull
  <2> QED
    BY <2>1, <2>3, <1>a, <1>b, GiveUpKeepsInv
<1>9. ASSUME HoldOffEnds PROVE IInv'
  BY <1>9 DEF HoldOffEnds, IInv, TypeOK, SlotsAccountedFor, Owners,
              HoldOffHasATimer, NoSlotLeftIdle, Line
<1>10. ASSUME Resume PROVE IInv'
  <2>1. /\ Admit(urgent, ordinary, inFlight, limit, pc, heldOff)
        /\ UNCHANGED <<limit, heldOff, asked>>
        /\ ~heldOff /\ timers' \in Nat
    BY <1>10, <1>a DEF Resume
  <2> QED
    BY <2>1, <1>a, AdmitKeepsInv
<1>11. ASSUME NEW e \in Entries, NEW l \in 1..MaxLimit, RegisterRequest(e, l)
       PROVE  IInv'
  <2>1. /\ asked' = [asked EXCEPT ![e] = l]
        /\ Resize(LowestOf(Requests(asked'))) /\ UNCHANGED <<heldOff, timers>>
    BY <1>11 DEF RegisterRequest
  <2>2. asked' \in [Entries -> 0..MaxLimit] /\ asked'[e] > 0
    BY <2>1, <1>a, LimitAssumption
  <2>3. Requests(asked') # {}
    BY <2>2 DEF Requests
  <2>4. LowestOf(Requests(asked')) \in 1..MaxLimit
    BY <2>2, <2>3, RequestsInRange
  <2> QED
    BY <2>1, <2>2, <2>4, ResizeKeepsInv
<1>12. ASSUME NEW e \in Entries, WithdrawRequest(e) PROVE IInv'
  <2> DEFINE l == IF Requests(asked') = {} THEN DefaultLimit
                                           ELSE LowestOf(Requests(asked'))
  <2>1. /\ asked' = [asked EXCEPT ![e] = 0]
        /\ Resize(l) /\ UNCHANGED <<heldOff, timers>>
    BY <1>12 DEF WithdrawRequest
  <2>2. asked' \in [Entries -> 0..MaxLimit]
    BY <2>1, <1>a, LimitAssumption
  <2>3. l \in 1..MaxLimit
    BY <2>2, RequestsInRange, LimitAssumption
  <2> HIDE DEF l
  <2> QED
    BY <2>1, <2>2, <2>3, ResizeKeepsInv
<1>13. ASSUME UNCHANGED vars PROVE IInv'
  BY <1>13 DEF vars, IInv, TypeOK, QueueInv, SlotsAccountedFor, Owners,
               HoldOffHasATimer, NoSlotLeftIdle, Line
<1> QED
  BY <1>1, <1>2, <1>3, <1>4, <1>5, <1>6, <1>7, <1>8, <1>9, <1>10, <1>11, <1>12,
     <1>13 DEF Next

LEMMA SpecInv == Spec => []IInv
BY InitInv, NextInv, PTL DEF Spec

----------------------------------------------------------------------------
\* The state of the gate stays well formed.
THEOREM SlotsTypeOK == Spec => []TypeOK
<1>1. IInv => TypeOK
  BY DEF IInv
<1> QED
  BY <1>1, SpecInv, PTL

\* _in_flight is the number of callers that owe a release, whatever is
\* cancelled at whichever moment: no slot of the host is ever lost.
THEOREM NoSlotIsLost == Spec => []SlotsAccountedFor
<1>1. IInv => SlotsAccountedFor
  BY DEF IInv
<1> QED
  BY <1>1, SpecInv, PTL

\* While anybody is queued beside a free slot, a timer is armed that will
\* drain the queue.
THEOREM NoSlotIsLeftIdle == Spec => []NoSlotLeftIdle
<1>1. IInv => NoSlotLeftIdle
  BY DEF IInv
<1> QED
  BY <1>1, SpecInv, PTL

----------------------------------------------------------------------------
\* Who is let in, and when.

\* The cap in force is one that every entry has agreed to.
CapIsAgreed == \A e \in Entries : asked[e] > 0 => limit <= asked[e]

LEMMA LowestIsLowest ==
  ASSUME NEW a \in [Entries -> 0..MaxLimit], NEW e \in Entries, a[e] > 0
  PROVE  LowestOf(Requests(a)) <= a[e]
<1>1. Requests(a) \in SUBSET Nat /\ a[e] \in Requests(a)
  BY LimitAssumption DEF Requests
<1>2. \E l \in Requests(a) : \A m \in Requests(a) : l <= m
  BY <1>1, LeastOf
<1>3. \A m \in Requests(a) : LowestOf(Requests(a)) <= m
  BY <1>2 DEF LowestOf
<1> QED
  BY <1>1, <1>3

LEMMA CapStaysAgreed == TypeOK /\ CapIsAgreed /\ [Next]_vars => CapIsAgreed'
<1> SUFFICES ASSUME TypeOK, CapIsAgreed, [Next]_vars PROVE CapIsAgreed'
  OBVIOUS
<1>1. CASE UNCHANGED <<limit, asked>>
  BY <1>1 DEF CapIsAgreed
<1>2. ASSUME NEW l, Resize(l) PROVE limit' = l
  BY <1>2 DEF Resize
<1>3. ASSUME NEW e \in Entries, NEW l \in 1..MaxLimit, RegisterRequest(e, l)
      PROVE  CapIsAgreed'
  <2>1. asked' \in [Entries -> 0..MaxLimit] /\ limit' = LowestOf(Requests(asked'))
    BY <1>2, <1>3, LimitAssumption DEF RegisterRequest, TypeOK
  <2> QED
    BY <2>1, LowestIsLowest DEF CapIsAgreed
<1>4. ASSUME NEW e \in Entries, WithdrawRequest(e)
      PROVE  CapIsAgreed'
  <2>1. asked' \in [Entries -> 0..MaxLimit]
    BY <1>4, LimitAssumption DEF WithdrawRequest, TypeOK
  <2>2. limit' = IF Requests(asked') = {} THEN DefaultLimit ELSE LowestOf(Requests(asked'))
    BY <1>2, <1>4 DEF WithdrawRequest
  <2>3. ASSUME NEW d \in Entries, asked'[d] > 0
        PROVE  limit' <= asked'[d]
    <3>1. asked'[d] \in Requests(asked')
      BY <2>3 DEF Requests
    <3> QED
      BY <2>1, <2>2, <2>3, <3>1, LowestIsLowest
  <2> QED
    BY <2>3 DEF CapIsAgreed
<1> QED
  BY <1>1, <1>3, <1>4
     DEF Next, vars, Acquire, Wake, Return, Cancel, LeaveQueue, HandOn, Release, HostIsFull,
         HoldOffEnds, Resume

\* What is claimed of one step.
InStep ==
  /\ Owners' \ Owners # {} => ~heldOff /\ ~heldOff' /\ inFlight' <= limit'
  /\ OvertakingStep

LEMMA NobodyNewIsFair ==
  ASSUME Owners' \subseteq Owners
  PROVE  InStep
BY DEF InStep, OvertakingStep

\* A step that drains the queue lets in no more than the cap, none through a
\* hold-off, and nobody past those who go on waiting.
LEMMA AdmitIsFair ==
  ASSUME IInv, NEW n \in Nat, NEW l \in 1..MaxLimit,
         NEW p \in [Callers -> Places], NEW held \in BOOLEAN,
         QueueInv(urgent, ordinary, p), n = Cardinality(OwnersIn(p)),
         Admit(urgent, ordinary, n, l, p, held),
         OwnersIn(p) \subseteq Owners, limit' = l, heldOff' = held, heldOff => held
  PROVE  InStep
<1> DEFINE free == IF held THEN 0 ELSE l - n
<1>1. free \in Int /\ Drain(urgent, ordinary, n, p, free) /\ n \in Int
  BY LimitAssumption DEF Admit
<1>2. urgent \in Seq(Commands) /\ ordinary \in Seq(Callers \ Commands)
  BY DEF IInv, TypeOK
<1>3. free = IF held THEN 0 ELSE l - n
  OBVIOUS
<1> HIDE DEF free
<1>4. /\ inFlight' \in Nat
      /\ OwnersIn(pc') # OwnersIn(p) => n < inFlight' /\ inFlight' <= n + free
      /\ LetInInOrder(urgent \o ordinary, p, pc')
  BY <1>1, <1>2, DrainFacts, Zenon
<1>5. Owners' = OwnersIn(pc')
  BY DEF Owners, OwnersIn
<1>6. Owners' \ Owners # {} => ~heldOff /\ ~heldOff' /\ inFlight' <= limit'
  <2> SUFFICES ASSUME Owners' \ Owners # {}
               PROVE  ~heldOff /\ ~heldOff' /\ inFlight' <= limit'
    OBVIOUS
  <2>1. n < inFlight' /\ inFlight' <= n + free
    BY <1>4, <1>5
  <2>2. ~held
    BY <1>3, <1>4, <2>1
  <2>3. inFlight' <= l
    BY <1>3, <1>4, <2>1, <2>2, LimitAssumption
  <2> QED
    BY <2>2, <2>3
<1>7. ASSUME NEW c \in Owners' \ Owners, NEW d \in Callers, AheadOf(c, d)
      PROVE  pc'[d] # "waiting"
  <2>1. c \in OwnersIn(pc') \ OwnersIn(p)
    BY <1>5, <1>7
  <2>2. \E i \in 1..Len(Line) : Line[i] = c
    BY <1>4, <2>1, Zenon DEF Line, LetInInOrder
  <2>3. \A i, j \in 1..Len(Line) : i < j /\ Line[j] = c => pc'[Line[i]] # "waiting"
    BY <1>4, <2>1, Zenon DEF Line, LetInInOrder
  <2> QED
    BY <1>7, <2>2, <2>3 DEF AheadOf
<1>8. OvertakingStep
  BY <1>7 DEF OvertakingStep
<1> QED
  BY <1>6, <1>8 DEF InStep

LEMMA EnterIsFair ==
  ASSUME IInv, NEW c \in Callers, pc[c] \in {"away", "cooling"}, Enter(c), ~heldOff,
         UNCHANGED <<limit, heldOff>>
  PROVE  InStep
<1>1. pc \in [Callers -> Places] /\ inFlight \in Nat /\ limit \in Nat
  BY LimitAssumption DEF IInv, TypeOK
<1>2. CASE Line = <<>> /\ inFlight < limit
  <2>1. inFlight' = inFlight + 1
    BY <1>2 DEF Enter, TakeSlot
  <2>2. inFlight' <= limit'
    BY <1>1, <1>2, <2>1
  <2>3. \A d, e \in Callers : ~AheadOf(d, e)
    BY <1>2 DEF AheadOf
  <2>4. OvertakingStep
    BY <2>3 DEF OvertakingStep, Owners
  <2> QED
    BY <2>2, <2>4 DEF InStep
<1>3. CASE ~(Line = <<>> /\ inFlight < limit)
  <2>1. Owners' \subseteq Owners
    BY <1>1, <1>3 DEF Enter, JoinQueue, Owners
  <2> QED
    BY <2>1, NobodyNewIsFair
<1> QED
  BY <1>2, <1>3

LEMMA GiveUpIsFair ==
  ASSUME IInv, NEW c \in Owners, NEW held \in BOOLEAN,
         Admit(urgent, ordinary, inFlight - 1, limit, [pc EXCEPT ![c] = "away"], held),
         UNCHANGED limit, heldOff' = held, heldOff => held
  PROVE  InStep
<1> DEFINE p == [pc EXCEPT ![c] = "away"]
           n == inFlight - 1
<1>1. /\ p \in [Callers -> Places] /\ QueueInv(urgent, ordinary, p)
      /\ inFlight > 0 /\ n = Cardinality(OwnersIn(p))
  BY GivingUpFacts, Zenon
<1>2. n \in Nat /\ limit \in 1..MaxLimit /\ pc \in [Callers -> Places]
  BY <1>1 DEF IInv, TypeOK
<1>3. Admit(urgent, ordinary, n, limit, p, held)
  OBVIOUS
<1>4. OwnersIn(p) \subseteq Owners
  BY <1>2 DEF OwnersIn, Owners
<1> HIDE DEF p, n
<1> QED
  BY <1>1, <1>2, <1>3, <1>4, AdmitIsFair

LEMMA StepIsFair ==
  ASSUME IInv, Next
  PROVE  InStep
<1>a. /\ pc \in [Callers -> Places] /\ inFlight \in Nat /\ heldOff \in BOOLEAN
      /\ limit \in 1..MaxLimit
      /\ QueueInv(urgent, ordinary, pc) /\ inFlight = Cardinality(OwnersIn(pc))
      /\ OwnersIn(pc) \subseteq Owners
  BY DEF IInv, TypeOK, SlotsAccountedFor, Owners, OwnersIn
<1>b. ASSUME NEW c \in Callers, pc[c] \in {"revoked", "holding"}
      PROVE  c \in Owners /\ (IF inFlight > 0 THEN inFlight - 1 ELSE inFlight) = inFlight - 1
  <2>1. c \in Owners
    BY <1>b DEF Owners
  <2> QED
    BY <2>1, GivingUpFacts
<1>1. ASSUME NEW c \in Callers, Acquire(c) \/ Wake(c) PROVE InStep
  <2>1. CASE heldOff
    <3>1. Owners' \subseteq Owners
      BY <1>1, <1>a, <2>1 DEF Acquire, Wake, Owners
    <3> QED
      BY <3>1, NobodyNewIsFair
  <2>2. CASE ~heldOff
    BY <1>1, <2>2, EnterIsFair DEF Acquire, Wake
  <2> QED
    BY <2>1, <2>2
<1>2. ASSUME NEW c \in Callers, Return(c) \/ Cancel(c) \/ LeaveQueue(c) PROVE InStep
  <2>1. Owners' \subseteq Owners
    BY <1>2, <1>a DEF Return, Cancel, LeaveQueue, Owners
  <2> QED
    BY <2>1, NobodyNewIsFair
<1>3. ASSUME NEW c \in Callers, HandOn(c) PROVE InStep
  <2>1. /\ Admit(urgent, ordinary, inFlight - 1, limit, [pc EXCEPT ![c] = "away"], heldOff)
        /\ UNCHANGED <<limit, heldOff>> /\ pc[c] = "revoked"
    BY <1>3 DEF HandOn
  <2> QED
    BY <2>1, <1>a, <1>b, GiveUpIsFair
<1>4. ASSUME NEW c \in Callers, Release(c) PROVE InStep
  <2>1. pc[c] = "holding" /\ UNCHANGED <<limit, heldOff>>
    BY <1>4 DEF Release
  <2>2. Admit(urgent, ordinary, inFlight - 1, limit, [pc EXCEPT ![c] = "away"], heldOff)
    BY <1>4, <1>b, <2>1 DEF Release
  <2> QED
    BY <2>1, <2>2, <1>a, <1>b, GiveUpIsFair
<1>5. ASSUME NEW c \in Callers, HostIsFull(c) PROVE InStep
  <2>1. pc[c] = "holding" /\ UNCHANGED limit /\ heldOff' = TRUE
    BY <1>5 DEF HostIsFull
  <2>2. Admit(urgent, ordinary, inFlight - 1, limit, [pc EXCEPT ![c] = "away"], TRUE)
    BY <1>5, <1>b, <2>1 DEF HostIsFull
  <2> QED
    BY <2>1, <2>2, <1>b, GiveUpIsFair
<1>6. ASSUME HoldOffEnds PROVE InStep
  <2>1. Owners' \subseteq Owners
    BY <1>6 DEF HoldOffEnds, Owners
  <2> QED
    BY <2>1, NobodyNewIsFair
<1>7. ASSUME Resume PROVE InStep
  BY <1>7, <1>a, AdmitIsFair DEF Resume
<1>8. ASSUME NEW l, Resize(l), UNCHANGED heldOff, limit' \in 1..MaxLimit PROVE InStep
  <2>1. CASE l = limit
    <3>1. Owners' \subseteq Owners
      BY <1>8, <2>1 DEF Resize, Owners
    <3> QED
      BY <3>1, NobodyNewIsFair
  <2>2. CASE l # limit
    BY <1>8, <2>2, <1>a, AdmitIsFair DEF Resize
  <2> QED
    BY <2>1, <2>2
<1>9. ASSUME NEW e \in Entries,
             WithdrawRequest(e) \/ \E l \in 1..MaxLimit : RegisterRequest(e, l)
      PROVE  InStep
  <2>1. limit' \in 1..MaxLimit
    BY NextInv, <1>9 DEF Next, IInv, TypeOK
  <2> QED
    BY <1>8, <1>9, <2>1 DEF WithdrawRequest, RegisterRequest
<1> QED
  BY <1>1, <1>2, <1>3, <1>4, <1>5, <1>6, <1>7, <1>9 DEF Next

\* Whoever is given a slot finds the host open, and leaves no more slots in
\* use than any entry has agreed to (acquire, _admit, _resize).
THEOREM TheCapIsRespected == Spec => AdmissionRespectsTheCap
<1>1. IInv /\ CapIsAgreed /\ [Next]_vars => [AdmissionStep]_vars
  <2> SUFFICES ASSUME IInv, CapIsAgreed, Next
               PROVE  AdmissionStep
    OBVIOUS
  <2>1. CapIsAgreed' /\ IInv' /\ InStep
    BY CapStaysAgreed, NextInv, StepIsFair DEF IInv
  <2>2. /\ Cardinality(Owners') = inFlight' /\ inFlight' \in Nat /\ limit' \in Nat
        /\ asked' \in [Entries -> 0..MaxLimit]
    BY <2>1, LimitAssumption DEF IInv, SlotsAccountedFor, TypeOK
  <2>3. Owners' \ Owners # {} => ~heldOff /\ ~heldOff' /\ Cardinality(Owners') <= limit'
    BY <2>1, <2>2 DEF InStep
  <2>4. ASSUME NEW e \in Entries, asked'[e] > 0, Cardinality(Owners') <= limit'
        PROVE  Cardinality(Owners') <= asked'[e]
    <3>1. limit' <= asked'[e] /\ asked'[e] \in Nat
      BY <2>1, <2>2, <2>4, LimitAssumption DEF CapIsAgreed
    <3>2. inFlight' <= limit'
      BY <2>2, <2>4
    <3>3. inFlight' <= asked'[e]
      BY <2>2, <3>1, <3>2
    <3> QED
      BY <2>2, <3>3
  <2> QED
    BY <2>3, <2>4 DEF AdmissionStep
<1>2. Init => CapIsAgreed
  BY DEF Init, CapIsAgreed
<1>3. IInv => TypeOK
  BY DEF IInv
<1> QED
  BY <1>1, <1>2, <1>3, CapStaysAgreed, SpecInv, PTL DEF Spec, AdmissionRespectsTheCap

\* Commands go before housekeeping, and each queue is first in, first out:
\* when a caller is given a slot, nobody who goes on waiting was ahead of it.
THEOREM NobodyIsOvertaken == Spec => NobodyOvertakes
<1>1. IInv /\ [Next]_vars => [OvertakingStep]_vars
  BY StepIsFair DEF InStep
<1> QED
  BY <1>1, SpecInv, PTL DEF Spec, NobodyOvertakes

----------------------------------------------------------------------------
\* The links.

\* Every step of the links is a step of the slots or leaves them alone.
LEMMA LinkStepIsASlotStep == [LinkNext]_linkVars => [Next]_vars
<1> SUFFICES ASSUME [LinkNext]_linkVars PROVE Next \/ UNCHANGED vars
  OBVIOUS
<1>1. ASSUME NEW c \in Callers, Ask(c) PROVE Next \/ UNCHANGED vars
  BY <1>1 DEF Ask, Next
<1>2. ASSUME NEW c \in Callers, GetTheTurn(c) PROVE Next \/ UNCHANGED vars
  BY <1>2 DEF GetTheTurn, Next
<1>3. ASSUME NEW c \in Callers, LeaveTheLine(c) PROVE Next \/ UNCHANGED vars
  BY <1>3 DEF LeaveTheLine
<1>4. ASSUME NEW c \in Callers, MovesOn(c) PROVE Next \/ UNCHANGED vars
  BY <1>4 DEF MovesOn, Next
<1>5. ASSUME NEW c \in Callers, IsCancelled(c) PROVE Next \/ UNCHANGED vars
  BY <1>5 DEF IsCancelled, Next
<1>6. ASSUME NEW c \in Callers, Disconnects(c) PROVE Next \/ UNCHANGED vars
  BY <1>6 DEF Disconnects, Next
<1>7. ASSUME NEW c \in Callers, ConnectFindsTheHostFull(c) PROVE Next \/ UNCHANGED vars
  BY <1>7 DEF ConnectFindsTheHostFull, Next
<1>8. ASSUME HostMoves PROVE Next \/ UNCHANGED vars
  BY <1>8 DEF HostMoves, OptionsForm, Next
<1>9. ASSUME UNCHANGED linkVars PROVE Next \/ UNCHANGED vars
  BY <1>9 DEF linkVars
<1> QED
  BY <1>1, <1>2, <1>3, <1>4, <1>5, <1>6, <1>7, <1>8, <1>9 DEF LinkNext

\* The composition implements the slots' own specification.
THEOREM LinksImplementTheSlots == LinkSpec => Spec
<1>1. LinkInit => Init
  BY DEF LinkInit
<1> QED
  BY <1>1, LinkStepIsASlotStep, PTL DEF LinkSpec, Spec

\* With the locks of any number of devices in front of them, no slot is lost,
\* whatever is cancelled where.
THEOREM NoLinkLosesASlot == LinkSpec => []SlotsAccountedFor
BY LinksImplementTheSlots, NoSlotIsLost, PTL

\* And none is left idle beside a queue that no timer will drain.
THEOREM NoLinkIdlesASlot == LinkSpec => []NoSlotLeftIdle
BY LinksImplementTheSlots, NoSlotIsLeftIdle, PTL

\* And none is let in past the cap, through a hold-off or out of turn.
THEOREM LinksRespectTheCap == LinkSpec => AdmissionRespectsTheCap
BY LinksImplementTheSlots, TheCapIsRespected, PTL

THEOREM NoLinkOvertakes == LinkSpec => NobodyOvertakes
BY LinksImplementTheSlots, NobodyIsOvertaken, PTL

----------------------------------------------------------------------------
\* Who is in the slots has his device's turn.

TurnInv == /\ turn \in [Devices -> Seq(Callers)]
           /\ SlotsGoToWhoeverHasTheTurn

\* The gate lets in those who wait at it.
LEMMA AdmitBringsNobody ==
  ASSUME NEW u, NEW o, NEW n, NEW l, NEW p, NEW held, Admit(u, o, n, l, p, held)
  PROVE  \A x \in Callers : pc'[x] # "away" => p[x] # "away"
BY DEF Admit, Drain, LetIn

\* Only acquire() brings a caller to the slots.
LEMMA StepBringsNobody ==
  ASSUME TypeOK, NEW c \in Callers,
         \/ Wake(c) \/ Return(c) \/ LeaveQueue(c) \/ HandOn(c)
         \/ Cancel(c) \/ Release(c) \/ HostIsFull(c)
  PROVE  \A x \in Callers : pc'[x] # "away" => pc[x] # "away"
<1>a. pc \in [Callers -> Places]
  BY DEF TypeOK
<1>1. CASE Wake(c)
  BY <1>1, <1>a DEF Wake, Enter, TakeSlot, JoinQueue
<1>2. CASE Return(c) \/ LeaveQueue(c) \/ Cancel(c)
  BY <1>2, <1>a DEF Return, LeaveQueue, Cancel
<1>3. ASSUME NEW n, NEW held, Admit(urgent, ordinary, n, limit, [pc EXCEPT ![c] = "away"], held)
      PROVE  \A x \in Callers : pc'[x] # "away" => pc[x] # "away"
  <2>1. \A x \in Callers : pc'[x] # "away" => [pc EXCEPT ![c] = "away"][x] # "away"
    BY <1>3, AdmitBringsNobody
  <2> QED
    BY <2>1, <1>a
<1>4. CASE HandOn(c) \/ Release(c) \/ HostIsFull(c)
  BY <1>4, <1>3 DEF HandOn, Release, HostIsFull
<1> QED
  BY <1>1, <1>2, <1>4

LEMMA HostBringsNobody ==
  ASSUME TypeOK, HostMoves
  PROVE  \A x \in Callers : pc'[x] # "away" => pc[x] # "away"
<1>1. CASE HoldOffEnds
  BY <1>1 DEF HoldOffEnds
<1>2. CASE Resume
  BY <1>2, AdmitBringsNobody DEF Resume
<1>3. ASSUME NEW l, Resize(l)
      PROVE  \A x \in Callers : pc'[x] # "away" => pc[x] # "away"
  BY <1>3, AdmitBringsNobody DEF Resize
<1>4. CASE \E e \in Entries : WithdrawRequest(e) \/ \E l \in OptionsForm : RegisterRequest(e, l)
  BY <1>4, <1>3 DEF WithdrawRequest, RegisterRequest
<1> QED
  BY <1>1, <1>2, <1>4 DEF HostMoves, OptionsForm

\* acquire() moves its own caller only.
LEMMA AcquireMovesOne ==
  ASSUME TypeOK, NEW c \in Callers, Acquire(c)
  PROVE  \A x \in Callers \ {c} : pc'[x] = pc[x]
BY DEF TypeOK, Acquire, Enter, TakeSlot, JoinQueue

\* Whoever leaves the line without being its head leaves the head in place.
LEMMA WithoutKeepsTheHead ==
  ASSUME NEW S, NEW q \in Seq(S), NEW x, q # <<>>, Head(q) # x
  PROVE  Without(q, x) # <<>> /\ Head(Without(q, x)) = Head(q)
<1>1. CASE ~\E i \in 1..Len(q) : q[i] = x
  BY <1>1 DEF Without
<1>2. CASE \E i \in 1..Len(q) : q[i] = x
  <2> DEFINE i == CHOOSE i \in 1..Len(q) : q[i] = x
  <2>1. i \in 1..Len(q) /\ q[i] = x
    BY <1>2
  <2>2. Without(q, x) = SubSeq(q, 1, i - 1) \o SubSeq(q, i + 1, Len(q))
    BY <1>2 DEF Without
  <2> HIDE DEF i
  <2>3. i \in 2..Len(q)
    BY <2>1
  <2> DEFINE front == SubSeq(q, 1, i - 1)
             back == SubSeq(q, i + 1, Len(q))
  <2>4. front \in Seq(S) /\ Len(front) = i - 1 /\ front[1] = q[1]
    BY <2>3
  <2>5. back \in Seq(S)
    BY <2>3
  <2>6. Without(q, x) = front \o back
    BY <2>2
  <2> HIDE DEF front, back
  <2>7. front \o back \in Seq(S) /\ Len(front \o back) >= 1 /\ (front \o back)[1] = front[1]
    BY <2>3, <2>4, <2>5
  <2> QED
    BY <2>4, <2>6, <2>7
<1> QED
  BY <1>1, <1>2

LEMMA WithoutIsASequence ==
  ASSUME NEW S, NEW q \in Seq(S), NEW x
  PROVE  Without(q, x) \in Seq(S)
<1>1. CASE \E i \in 1..Len(q) : q[i] = x
  <2> DEFINE i == CHOOSE i \in 1..Len(q) : q[i] = x
  <2>1. i \in 1..Len(q)
    BY <1>1
  <2>2. Without(q, x) = SubSeq(q, 1, i - 1) \o SubSeq(q, i + 1, Len(q))
    BY <1>1 DEF Without
  <2> HIDE DEF i
  <2>3. SubSeq(q, 1, i - 1) \in Seq(S) /\ SubSeq(q, i + 1, Len(q)) \in Seq(S)
    BY <2>1
  <2> QED
    BY <2>2, <2>3
<1> QED
  BY <1>1 DEF Without

\* A task on its way takes nobody else's turn with it.
LEMMA LeavingKeepsTurnInv ==
  ASSUME TurnInv, NEW c \in Callers, HasTheTurn(c), LeaveTheTurn(c),
         \A x \in Callers : pc'[x] # "away" => pc[x] # "away"
  PROVE  TurnInv'
<1> DEFINE d == DeviceOf[c]
<1>1. d \in Devices /\ turn[d] \in Seq(Callers) /\ turn[d] # <<>> /\ Head(turn[d]) = c
  BY DevicesAssumption DEF TurnInv, HasTheTurn
<1>2. turn' \in [Devices -> Seq(Callers)]
  BY <1>1 DEF LeaveTheTurn, TurnInv
<1>3. ASSUME NEW x \in Callers, pc'[x] # "away" PROVE HasTheTurn(x)'
  <2>1. HasTheTurn(x)
    BY <1>3 DEF TurnInv, SlotsGoToWhoeverHasTheTurn
  <2>2. CASE x = c
    BY <2>1, <2>2, <1>3 DEF LeaveTheTurn, HasTheTurn
  <2>3. CASE x # c
    <3>1. DeviceOf[x] # d
      BY <2>1, <2>3, <1>1 DEF HasTheTurn
    <3>2. turn'[DeviceOf[x]] = turn[DeviceOf[x]]
      BY <3>1, <1>1, DevicesAssumption DEF LeaveTheTurn, TurnInv
    <3> QED
      BY <2>1, <3>2 DEF HasTheTurn
  <2> QED
    BY <2>2, <2>3
<1> QED
  BY <1>2, <1>3 DEF TurnInv, SlotsGoToWhoeverHasTheTurn

LEMMA TurnStep == TypeOK /\ TurnInv /\ [LinkNext]_linkVars => TurnInv'
<1> SUFFICES ASSUME TypeOK, TurnInv, [LinkNext]_linkVars PROVE TurnInv'
  OBVIOUS
<1>a. /\ turn \in [Devices -> Seq(Callers)]
      /\ \A x \in Callers : pc[x] # "away" => HasTheTurn(x)
      /\ \A x \in Callers : DeviceOf[x] \in Devices
  BY DevicesAssumption DEF TurnInv, SlotsGoToWhoeverHasTheTurn
<1>1. ASSUME NEW c \in Callers, Ask(c) PROVE TurnInv'
  <2>1. turn' = [turn EXCEPT ![DeviceOf[c]] = Append(@, c)]
    BY <1>1 DEF Ask, JoinTheLine
  <2>2. turn' \in [Devices -> Seq(Callers)]
    BY <2>1, <1>a
  <2>3. ASSUME NEW x \in Callers, HasTheTurn(x) PROVE HasTheTurn(x)'
    <3>1. CASE DeviceOf[x] # DeviceOf[c]
      BY <2>1, <2>3, <3>1, <1>a DEF HasTheTurn
    <3>2. CASE DeviceOf[x] = DeviceOf[c]
      <4>1. turn[DeviceOf[c]] \in Seq(Callers) /\ turn[DeviceOf[c]] # <<>>
        BY <2>3, <3>2, <1>a DEF HasTheTurn
      <4>2. turn'[DeviceOf[x]] = Append(turn[DeviceOf[c]], c)
        BY <2>1, <3>2, <1>a
      <4>3. Head(Append(turn[DeviceOf[c]], c)) = Head(turn[DeviceOf[c]])
        BY <4>1
      <4> QED
        BY <2>3, <3>2, <4>1, <4>2, <4>3 DEF HasTheTurn
    <3> QED
      BY <3>1, <3>2
  <2>4. CASE turn[DeviceOf[c]] = <<>>
    <3>1. Acquire(c) /\ HasTheTurn(c)'
      BY <1>1, <2>1, <2>4, <1>a DEF Ask, HasTheTurn
    <3> QED
      BY <2>2, <2>3, <3>1, <1>a, AcquireMovesOne DEF TurnInv, SlotsGoToWhoeverHasTheTurn
  <2>5. CASE turn[DeviceOf[c]] # <<>>
    <3>1. pc' = pc
      BY <1>1, <2>5 DEF Ask, vars
    <3> QED
      BY <2>2, <2>3, <3>1, <1>a DEF TurnInv, SlotsGoToWhoeverHasTheTurn
  <2> QED
    BY <2>4, <2>5
<1>2. ASSUME NEW c \in Callers, GetTheTurn(c) PROVE TurnInv'
  BY <1>2, <1>a, AcquireMovesOne DEF GetTheTurn, TurnInv, SlotsGoToWhoeverHasTheTurn, HasTheTurn
<1>3. ASSUME NEW c \in Callers, LeaveTheLine(c) PROVE TurnInv'
  <2>1. /\ pc[c] = "away" /\ pc' = pc
        /\ turn' = [turn EXCEPT ![DeviceOf[c]] = Without(@, c)]
    BY <1>3 DEF LeaveTheLine, vars
  <2>2. ASSUME NEW q \in Seq(Callers) PROVE Without(q, c) \in Seq(Callers)
    BY <2>2, WithoutIsASequence
  <2>3. turn' \in [Devices -> Seq(Callers)]
    BY <2>1, <2>2, <1>a
  <2>4. ASSUME NEW x \in Callers, pc[x] # "away" PROVE HasTheTurn(x)'
    <3>1. HasTheTurn(x) /\ x # c
      BY <2>1, <2>4, <1>a
    <3>2. turn[DeviceOf[x]] \in Seq(Callers)
      BY <1>a
    <3>3. Without(turn[DeviceOf[x]], c) # <<>> /\ Head(Without(turn[DeviceOf[x]], c)) = x
      BY <3>1, <3>2, WithoutKeepsTheHead DEF HasTheTurn
    <3> QED
      BY <2>1, <3>1, <3>3, <1>a DEF HasTheTurn
  <2> QED
    BY <2>1, <2>3, <2>4 DEF TurnInv, SlotsGoToWhoeverHasTheTurn
<1>4. ASSUME NEW c \in Callers,
             MovesOn(c) \/ IsCancelled(c) \/ Disconnects(c) \/ ConnectFindsTheHostFull(c)
      PROVE  TurnInv'
  <2>1. HasTheTurn(c) /\ LeaveTheTurn(c)
    BY <1>4 DEF MovesOn, IsCancelled, Disconnects, ConnectFindsTheHostFull
  <2>2. \/ Wake(c) \/ Return(c) \/ LeaveQueue(c) \/ HandOn(c)
        \/ Cancel(c) \/ Release(c) \/ HostIsFull(c)
    BY <1>4 DEF MovesOn, IsCancelled, Disconnects, ConnectFindsTheHostFull
  <2> QED
    BY <2>1, <2>2, StepBringsNobody, LeavingKeepsTurnInv
<1>5. ASSUME HostMoves PROVE TurnInv'
  <2>1. turn' = turn
    BY <1>5 DEF HostMoves, OptionsForm
  <2> QED
    BY <2>1, <1>5, <1>a, HostBringsNobody DEF TurnInv, SlotsGoToWhoeverHasTheTurn, HasTheTurn
<1>6. ASSUME UNCHANGED linkVars PROVE TurnInv'
  BY <1>6, <1>a DEF linkVars, vars, TurnInv, SlotsGoToWhoeverHasTheTurn, HasTheTurn
<1> QED
  BY <1>1, <1>2, <1>3, <1>4, <1>5, <1>6 DEF LinkNext

\* Two locks, always in this order: nobody waits for a slot, or has one,
\* without the turn of its device.
THEOREM TurnsComeBeforeSlots == LinkSpec => []SlotsGoToWhoeverHasTheTurn
<1>1. LinkInit => TurnInv
  BY DEF LinkInit, Init, TurnInv, SlotsGoToWhoeverHasTheTurn
<1>2. LinkSpec => []TypeOK
  BY LinksImplementTheSlots, SlotsTypeOK, PTL
<1>3. TurnInv => SlotsGoToWhoeverHasTheTurn
  BY DEF TurnInv
<1> QED
  BY <1>1, <1>2, <1>3, TurnStep, PTL DEF LinkSpec
=============================================================================
