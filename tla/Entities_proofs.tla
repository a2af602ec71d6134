---------------------------- MODULE Entities_proofs ----------------------------
(***************************************************************************)
(* For any commands, entries, controls and layouts: a device receives its  *)
(* commands in the order they were queued, the queue takes the steps       *)
(* async_write promises, and a control shows its newest command.           *)
(***************************************************************************)
EXTENDS Entities, FiniteSetTheorems, WellFoundedInduction, TLAPS

----------------------------------------------------------------------------
\* What a list keeps.

\* Of some naturals, one is the least.
LEMMA LeastNatural ==
  ASSUME NEW T, T \subseteq Nat, T # {}
  PROVE  \E n \in T : \A m \in T : n <= m
<1>1. PICK n \in T : \A m \in T : ~ (<<m, n>> \in OpToRel(<, Nat))
  BY NatLessThanWellFounded, WFMin
<1>2. \A m \in T : ~ (m < n)
  BY <1>1 DEF OpToRel
<1> QED
  BY <1>2

UpTo(positions, i) == {k \in positions : k <= i}

LEMMA PositionsAreFinite ==
  ASSUME NEW positions, positions \subseteq Nat, IsFiniteSet(positions), NEW i
  PROVE  /\ Cardinality(positions) \in Nat
         /\ IsFiniteSet(UpTo(positions, i)) /\ Cardinality(UpTo(positions, i)) \in Nat
         /\ Cardinality(UpTo(positions, i)) <= Cardinality(positions)
<1>1. UpTo(positions, i) \in SUBSET positions
  BY DEF UpTo
<1> QED
  BY <1>1, FS_Subset, FS_CardinalityType

\* The more positions precede one, the higher it is.
LEMMA RankGrows ==
  ASSUME NEW positions, positions \subseteq Nat, IsFiniteSet(positions),
         NEW i \in positions, NEW j \in positions, i < j
  PROVE  Cardinality(UpTo(positions, i)) < Cardinality(UpTo(positions, j))
<1>1. UpTo(positions, i) \in SUBSET UpTo(positions, j)
  <2>1. \A k \in positions : k \in Nat
    OBVIOUS
  <2>2. \A k \in positions : k <= i => k <= j
    BY <2>1
  <2>3. \A k : k \in UpTo(positions, i) => k \in UpTo(positions, j)
    BY <2>2 DEF UpTo
  <2> QED
    BY <2>3
<1>2. j \in UpTo(positions, j) /\ j \notin UpTo(positions, i)
  BY DEF UpTo
<1>3. /\ Cardinality(UpTo(positions, i)) <= Cardinality(UpTo(positions, j))
      /\ Cardinality(UpTo(positions, i)) # Cardinality(UpTo(positions, j))
  BY <1>1, <1>2, PositionsAreFinite, FS_Subset
<1>4. /\ Cardinality(UpTo(positions, i)) \in Nat
      /\ Cardinality(UpTo(positions, j)) \in Nat
  BY PositionsAreFinite
<1> QED
  BY <1>3, <1>4

\* There is an n-th position for every n up to their number.
LEMMA NthExists ==
  ASSUME NEW positions, positions \subseteq Nat, IsFiniteSet(positions),
         NEW j \in 1..Cardinality(positions)
  PROVE  /\ Nth(positions, j) \in positions
         /\ Cardinality(UpTo(positions, Nth(positions, j))) = j
<1> DEFINE Rank(i) == Cardinality(UpTo(positions, i))
           missing == {m \in 1..Cardinality(positions) : \A i \in positions : Rank(i) # m}
<1>1. Cardinality(positions) \in Nat
  BY FS_CardinalityType
<1>2. positions # {}
  BY <1>1, FS_EmptySet
<1>3. missing = {}
  <2> SUFFICES ASSUME missing # {} PROVE FALSE
    OBVIOUS
  <2>1. PICK m \in missing : \A k \in missing : m <= k
    <3>1. missing \subseteq Nat
      BY <1>1
    <3> QED
      BY <3>1, LeastNatural
  <2>2. CASE m = 1
    <3>1. PICK i \in positions : \A k \in positions : i <= k
      BY <1>2, LeastNatural
    <3>2. \A k \in positions : k <= i <=> k = i
      <4>1. \A k \in positions : k \in Nat
        OBVIOUS
      <4> QED
        BY <3>1, <4>1
    <3>3. UpTo(positions, i) = {i}
      BY <3>2 DEF UpTo
    <3> QED
      BY <2>1, <2>2, <3>3, FS_Singleton
  <2>3. CASE m # 1
    <3>1. m - 1 \in 1..Cardinality(positions) /\ m - 1 \notin missing
      BY <1>1, <2>1, <2>3
    <3>2. PICK i \in positions : Rank(i) = m - 1
      BY <3>1
    <3> DEFINE above == {k \in positions : k > i}
    <3>3. above # {}
      <4> SUFFICES ASSUME above = {} PROVE FALSE
        OBVIOUS
      <4>1. \A k \in positions : k \in Nat /\ ~(k > i)
        OBVIOUS
      <4>2. \A k \in positions : k <= i
        BY <4>1
      <4>3. UpTo(positions, i) = positions
        BY <4>2 DEF UpTo
      <4> QED
        BY <1>1, <2>1, <3>2, <4>3
    <3>4. PICK next \in above : \A k \in above : next <= k
      <4>1. above \subseteq Nat
        OBVIOUS
      <4> HIDE DEF above
      <4> QED
        BY <3>3, <4>1, LeastNatural
    <3>5. /\ UpTo(positions, next) = UpTo(positions, i) \cup {next}
          /\ next \notin UpTo(positions, i)
      <4>1. next \in positions /\ next > i /\ \A k \in positions : k > i => next <= k
        BY <3>4
      <4>2. \A k \in positions : k \in Nat
        OBVIOUS
      <4>3. \A k \in positions : k <= next <=> (k <= i \/ k = next)
        BY <4>1, <4>2
      <4>4. ~(next <= i)
        BY <4>1, <4>2
      <4> QED
        BY <4>1, <4>3, <4>4 DEF UpTo
    <3>6. Rank(next) = m - 1 + 1
      BY <3>2, <3>5, PositionsAreFinite, FS_AddElement
    <3> QED
      BY <1>1, <2>1, <3>6
  <2> QED
    BY <2>2, <2>3
<1>4. \E i \in positions : Rank(i) = j
  BY <1>3
<1> QED
  BY <1>4 DEF Nth, UpTo

\* What is kept is what is in the set, in the order it had: each kept element
\* has its place in the list, and later ones have later places.
LEMMA KeptFacts ==
  ASSUME NEW S, NEW s \in Seq(S), NEW A
  PROVE  /\ Kept(s, A) \in Seq(S)
         /\ \E at \in [1..Len(Kept(s, A)) -> 1..Len(s)] :
              /\ \A n \in 1..Len(Kept(s, A)) :
                   Kept(s, A)[n] = s[at[n]] /\ Kept(s, A)[n] \in A
              /\ \A m, n \in 1..Len(Kept(s, A)) : m < n => at[m] < at[n]
         /\ \A i \in 1..Len(s) : s[i] \in A =>
              \E n \in 1..Len(Kept(s, A)) : Kept(s, A)[n] = s[i]
<1> DEFINE positions == {i \in 1..Len(s) : s[i] \in A}
           size == Cardinality(positions)
           at == [n \in 1..size |-> Nth(positions, n)]
           t == [n \in 1..size |-> s[Nth(positions, n)]]
<1>1. Kept(s, A) = t
  BY DEF Kept
<1>2. positions \subseteq Nat /\ IsFiniteSet(positions) /\ size \in Nat
  <2>1. Len(s) \in Nat /\ positions \in SUBSET (1..Len(s))
    OBVIOUS
  <2> HIDE DEF positions
  <2>2. IsFiniteSet(1..Len(s))
    BY <2>1, FS_Interval
  <2>3. IsFiniteSet(positions)
    BY <2>1, <2>2, FS_Subset
  <2> QED
    BY <2>1, <2>3, FS_CardinalityType
<1> HIDE DEF positions
<1>3. ASSUME NEW n \in 1..size
      PROVE  Nth(positions, n) \in positions /\ Cardinality(UpTo(positions, Nth(positions, n))) = n
  BY <1>2, NthExists
<1>4. \A i \in positions : i \in 1..Len(s) /\ s[i] \in A /\ s[i] \in S
  BY DEF positions
<1>5. t \in Seq(S) /\ Len(t) = size
  <2>1. \A n \in 1..size : s[Nth(positions, n)] \in S
    BY <1>3, <1>4
  <2> HIDE DEF size
  <2> QED
    BY <1>2, <2>1
<1>6. at \in [1..size -> 1..Len(s)]
  BY <1>3, <1>4
<1>7. ASSUME NEW m \in 1..size, NEW n \in 1..size, m < n
      PROVE  at[m] < at[n]
  <2>1. at[m] \in positions /\ at[n] \in positions /\ at[m] \in Int /\ at[n] \in Int
    BY <1>3, <1>4
  <2>2. Cardinality(UpTo(positions, at[m])) = m /\ Cardinality(UpTo(positions, at[n])) = n
    BY <1>3
  <2>3. at[n] < at[m] => n < m
    BY <1>2, <2>1, <2>2, RankGrows
  <2>4. at[n] # at[m]
    BY <1>7, <2>2
  <2> HIDE DEF at
  <2> QED
    BY <1>2, <1>7, <2>1, <2>3, <2>4
<1>8. ASSUME NEW i \in 1..Len(s), s[i] \in A
      PROVE  \E n \in 1..size : t[n] = s[i]
  <2>1. i \in positions
    BY <1>8 DEF positions
  <2> DEFINE n == Cardinality(UpTo(positions, i))
  <2>2. n \in 1..size
    <3>1. n \in Nat /\ n <= size
      BY <1>2, PositionsAreFinite
    <3>2. n # 0
      <4>1. i \in UpTo(positions, i)
        BY <2>1 DEF UpTo
      <4> QED
        BY <1>2, <4>1, PositionsAreFinite, FS_EmptySet
    <3> QED
      BY <1>2, <3>1, <3>2
  <2>3. Nth(positions, n) \in positions /\ Cardinality(UpTo(positions, Nth(positions, n))) = n
    BY <1>3, <2>2
  <2>4. Nth(positions, n) = i
    <3> HIDE DEF n
    <3>1. Nth(positions, n) \in 1..Len(s)
      BY <1>4, <2>3
    <3>2. Cardinality(UpTo(positions, i)) = n /\ n \in Nat
      BY <1>2, <2>2 DEF n
    <3>3. \A j \in positions :
            j < i => Cardinality(UpTo(positions, j)) < Cardinality(UpTo(positions, i))
      BY <1>2, <2>1, RankGrows
    <3>4. \A j \in positions :
            i < j => Cardinality(UpTo(positions, i)) < Cardinality(UpTo(positions, j))
      BY <1>2, <2>1, RankGrows
    <3>5. ~(Nth(positions, n) < i) /\ ~(i < Nth(positions, n))
      BY <2>3, <3>2, <3>3, <3>4
    <3> QED
      BY <1>2, <3>1, <3>5
  <2> QED
    BY <2>2, <2>4
<1> HIDE DEF t, at
<1>9. \A n \in 1..size : t[n] = s[at[n]] /\ t[n] \in A
  BY <1>3, <1>4 DEF t, at
<1> QED
  BY <1>1, <1>5, <1>6, <1>7, <1>8, <1>9

----------------------------------------------------------------------------
\* The lock's queue, in which nobody stands twice.

Distinct(s) == \A i, j \in 1..Len(s) : s[i] = s[j] => i = j

Tasks == Commands \cup {Flush}

\* Of the commands of control x in a list, c is the last.
IsLast(c, x, s) ==
  \A i, j \in 1..Len(s) :
    s[i] = c /\ s[j] \in Commands /\ ControlOf[s[j]] = x => j <= i

LEMMA TailIsDistinct ==
  ASSUME NEW s \in Seq(Tasks), s # <<>>, Distinct(s)
  PROVE  /\ Tail(s) \in Seq(Tasks) /\ Distinct(Tail(s)) /\ Head(s) \in Tasks
         /\ \A y : InSeq(y, Tail(s)) <=> InSeq(y, s) /\ y # Head(s)
<1>1. /\ Tail(s) \in Seq(Tasks) /\ Len(Tail(s)) = Len(s) - 1 /\ Len(s) \in Nat \ {0}
      /\ Head(s) \in Tasks /\ Head(s) = s[1]
  OBVIOUS
<1>2. \A i \in 1..Len(s) - 1 : Tail(s)[i] = s[i + 1]
  OBVIOUS
<1>3. Distinct(Tail(s))
  BY <1>1, <1>2 DEF Distinct
<1>4. ASSUME NEW y, InSeq(y, Tail(s))
      PROVE  InSeq(y, s) /\ y # Head(s)
  BY <1>1, <1>2, <1>4 DEF InSeq, Distinct
<1>5. ASSUME NEW y, InSeq(y, s), y # Head(s)
      PROVE  InSeq(y, Tail(s))
  <2>1. PICK i \in 1..Len(s) : s[i] = y
    BY <1>5 DEF InSeq
  <2>2. i - 1 \in 1..Len(s) - 1 /\ Tail(s)[i - 1] = y
    BY <1>1, <1>2, <1>5, <2>1
  <2> QED
    BY <1>1, <2>2 DEF InSeq
<1> QED
  BY <1>1, <1>3, <1>4, <1>5

LEMMA AppendIsDistinct ==
  ASSUME NEW s \in Seq(Tasks), Distinct(s), NEW x \in Tasks, ~InSeq(x, s)
  PROVE  /\ Append(s, x) \in Seq(Tasks) /\ Distinct(Append(s, x))
         /\ \A y : InSeq(y, Append(s, x)) <=> InSeq(y, s) \/ y = x
<1>1. /\ Append(s, x) \in Seq(Tasks) /\ Len(Append(s, x)) = Len(s) + 1
      /\ Append(s, x)[Len(s) + 1] = x /\ Len(s) \in Nat
      /\ \A i \in 1..Len(s) : Append(s, x)[i] = s[i]
  OBVIOUS
<1>2. \A i \in 1..Len(s) + 1 : i \in 1..Len(s) \/ i = Len(s) + 1
  BY <1>1
<1> QED
  BY <1>1, <1>2 DEF Distinct, InSeq

LEMMA WithoutIsDistinct ==
  ASSUME NEW s \in Seq(Tasks), Distinct(s), NEW x \in Tasks
  PROVE  /\ Without(s, x) \in Seq(Tasks) /\ Distinct(Without(s, x))
         /\ \A y \in Tasks : InSeq(y, Without(s, x)) <=> InSeq(y, s) /\ y # x
         /\ \A c, z : IsLast(c, z, s) => IsLast(c, z, Without(s, x))
<1> DEFINE others == Tasks \ {x}
           t == Kept(s, others)
<1>0. Without(s, x) = t
  BY DEF Without, Tasks
<1> HIDE DEF others
<1>1. t \in Seq(Tasks) /\ Len(s) \in Nat
  BY KeptFacts
<1>2. PICK at \in [1..Len(t) -> 1..Len(s)] :
        /\ \A n \in 1..Len(t) : t[n] = s[at[n]] /\ t[n] \in others
        /\ \A m, n \in 1..Len(t) : m < n => at[m] < at[n]
  BY KeptFacts
<1>3. \A i \in 1..Len(s) : s[i] \in others => \E n \in 1..Len(t) : t[n] = s[i]
  BY KeptFacts
<1> HIDE DEF t
<1>4. \A n \in 1..Len(t) : at[n] \in 1..Len(s) /\ at[n] \in Int /\ n \in Int
  BY <1>1, <1>2
<1>5. Distinct(t)
  <2> SUFFICES ASSUME NEW m \in 1..Len(t), NEW n \in 1..Len(t), t[m] = t[n], m # n
               PROVE  FALSE
    BY DEF Distinct
  <2>1. at[m] = at[n]
    <3>1. s[at[m]] = s[at[n]] /\ at[m] \in 1..Len(s) /\ at[n] \in 1..Len(s)
      BY <1>2, <1>4
    <3> QED
      BY <3>1 DEF Distinct
  <2>2. m < n \/ n < m
    BY <1>4
  <2> QED
    BY <1>2, <1>4, <2>1, <2>2
<1>6. \A y \in Tasks : InSeq(y, t) <=> InSeq(y, s) /\ y # x
  BY <1>2, <1>3, <1>4 DEF InSeq, others
<1>7. ASSUME NEW c, NEW z, IsLast(c, z, s)
      PROVE  IsLast(c, z, t)
  <2> SUFFICES ASSUME NEW i \in 1..Len(t), NEW j \in 1..Len(t),
                      t[i] = c, t[j] \in Commands, ControlOf[t[j]] = z
               PROVE  j <= i
    BY DEF IsLast
  <2>1. at[j] <= at[i]
    BY <1>2, <1>4, <1>7 DEF IsLast
  <2>2. ~(i < j)
    BY <1>2, <1>4, <2>1
  <2> QED
    BY <1>4, <2>2
<1> QED
  BY <1>0, <1>1, <1>5, <1>6, <1>7 DEF t

\* The last of a control's commands in a list is so in what follows its head,
\* and before the flush task.
LEMMA LastStaysLast ==
  ASSUME NEW s \in Seq(Tasks), NEW c \in Commands, NEW z, IsLast(c, z, s)
  PROVE  /\ s # <<>> => IsLast(c, z, Tail(s))
         /\ IsLast(c, z, Append(s, Flush))
<1>1. Len(s) \in Nat
  OBVIOUS
<1>2. ASSUME s # <<>>
      PROVE  IsLast(c, z, Tail(s))
  <2>1. Len(Tail(s)) = Len(s) - 1 /\ \A i \in 1..Len(s) - 1 : Tail(s)[i] = s[i + 1]
    BY <1>2
  <2>2. \A i \in 1..Len(s) - 1 : i + 1 \in 1..Len(s)
    BY <1>1
  <2> HIDE DEF IsLast
  <2> SUFFICES ASSUME NEW i \in 1..Len(Tail(s)), NEW j \in 1..Len(Tail(s)), Tail(s)[i] = c,
                      Tail(s)[j] \in Commands, ControlOf[Tail(s)[j]] = z
               PROVE  j <= i
    BY DEF IsLast
  <2>3. j + 1 <= i + 1
    BY <2>1, <2>2 DEF IsLast
  <2> QED
    BY <1>1, <2>1, <2>3
<1>3. IsLast(c, z, Append(s, Flush))
  <2>1. /\ Len(Append(s, Flush)) = Len(s) + 1 /\ Append(s, Flush)[Len(s) + 1] = Flush
        /\ \A i \in 1..Len(s) : Append(s, Flush)[i] = s[i]
    BY DEF Tasks
  <2>2. \A i \in 1..Len(s) + 1 : i \in 1..Len(s) \/ i = Len(s) + 1
    BY <1>1
  <2> QED
    BY <2>1, <2>2, CommandsAssumption DEF IsLast
<1> QED
  BY <1>2, <1>3

----------------------------------------------------------------------------
\* The order of queueing.

InOrder(s, at) == \A i, j \in 1..Len(s) : i < j => at[s[i]] < at[s[j]]

LEMMA KeptInOrder ==
  ASSUME NEW S, NEW s \in Seq(S), NEW A, NEW at, InOrder(s, at)
  PROVE  /\ Kept(s, A) \in Seq(S) /\ InOrder(Kept(s, A), at)
         /\ \A n \in 1..Len(Kept(s, A)) : Kept(s, A)[n] \in A /\ InSeq(Kept(s, A)[n], s)
<1> DEFINE t == Kept(s, A)
<1>1. PICK place \in [1..Len(t) -> 1..Len(s)] :
        /\ \A n \in 1..Len(t) : t[n] = s[place[n]] /\ t[n] \in A
        /\ \A m, n \in 1..Len(t) : m < n => place[m] < place[n]
  BY KeptFacts
<1>2. t \in Seq(S)
  BY KeptFacts
<1> HIDE DEF t
<1>3. InOrder(t, at)
  <2> SUFFICES ASSUME NEW m \in 1..Len(t), NEW n \in 1..Len(t), m < n
               PROVE  at[t[m]] < at[t[n]]
    BY DEF InOrder
  <2>1. /\ place[m] \in 1..Len(s) /\ place[n] \in 1..Len(s) /\ place[m] < place[n]
        /\ t[m] = s[place[m]] /\ t[n] = s[place[n]]
    BY <1>1
  <2> QED
    BY <2>1 DEF InOrder
<1> QED
  BY <1>1, <1>2, <1>3 DEF t, InSeq

LEMMA AppendInOrder ==
  ASSUME NEW S, NEW s \in Seq(S), NEW x \in S, NEW at, InOrder(s, at),
         \A i \in 1..Len(s) : at[s[i]] < at[x]
  PROVE  InOrder(Append(s, x), at)
<1>1. /\ Len(Append(s, x)) = Len(s) + 1 /\ Append(s, x)[Len(s) + 1] = x
      /\ Len(s) \in Nat /\ \A i \in 1..Len(s) : Append(s, x)[i] = s[i]
  OBVIOUS
<1>2. \A i \in 1..Len(s) + 1 : i \in 1..Len(s) \/ i = Len(s) + 1
  BY <1>1
<1> QED
  BY <1>1, <1>2 DEF InOrder

LEMMA TailInOrder ==
  ASSUME NEW S, NEW s \in Seq(S), s # <<>>, NEW at, InOrder(s, at)
  PROVE  /\ Tail(s) \in Seq(S) /\ Head(s) \in S /\ Head(s) = s[1] /\ 1 \in 1..Len(s)
         /\ InOrder(Tail(s), at)
         /\ \A i \in 1..Len(Tail(s)) : /\ i + 1 \in 1..Len(s) /\ Tail(s)[i] = s[i + 1]
                                       /\ at[Head(s)] < at[Tail(s)[i]]
<1>1. /\ Tail(s) \in Seq(S) /\ Len(Tail(s)) = Len(s) - 1 /\ Len(s) \in Nat \ {0}
      /\ Head(s) \in S /\ Head(s) = s[1]
  OBVIOUS
<1>2. \A i \in 1..Len(s) - 1 : Tail(s)[i] = s[i + 1] /\ i + 1 \in 1..Len(s) /\ 1 < i + 1
  BY <1>1
<1>3. InOrder(Tail(s), at)
  BY <1>1, <1>2 DEF InOrder
<1> QED
  BY <1>1, <1>2, <1>3 DEF InOrder

----------------------------------------------------------------------------
\* The queue.

\* The command in hand is what the flush task writes; a caller that asked for
\* the lock stands in its queue, and is not queued yet; a command that was
\* acknowledged has no caller waiting.
TaskAndLock ==
  /\ current # None <=> flush \in {"writing", "acked"}
  /\ InSeq(Flush, lockQ) <=> flush \in {"locking", "finishing"}
  /\ \A c \in Commands : InSeq(c, lockQ) <=> call[c] = "locking"
  /\ \A c \in Commands : call[c] \in {"unissued", "locking"} => queuedAt[c] = 0
  /\ flush = "acked" => call[current] # "awaiting"

\* What was sent, the command in hand and what is pending are one line, in
\* the order of queueing, and a new command goes behind them all.
OneLine ==
  /\ \A c \in Commands : queuedAt[c] <= Cardinality(Issued)
  /\ \A i \in 1..Len(sent) : queuedAt[sent[i]] > 0
  /\ \A i \in 1..Len(pending) : queuedAt[pending[i]] > 0
  /\ current # None => queuedAt[current] > 0
  /\ SentInOrder
  /\ \A i, j \in 1..Len(pending) : i < j => queuedAt[pending[i]] < queuedAt[pending[j]]
  /\ \A i \in 1..Len(sent), j \in 1..Len(pending) :
       queuedAt[sent[i]] < queuedAt[pending[j]]
  /\ current # None => \A j \in 1..Len(pending) : queuedAt[current] < queuedAt[pending[j]]
  /\ flush = "writing" => \A i \in 1..Len(sent) : queuedAt[sent[i]] < queuedAt[current]

----------------------------------------------------------------------------
\* The controls.

Running(x) == {c \in Commands : ControlOf[c] = x /\ apply[c] = "running"}

EntitiesTypeOK ==
  /\ apply \in [Commands -> {"not called", "running", "returned", "cancelled"}]
  /\ inFlight \in [Controls -> Commands \cup {None}]
  /\ writes \in [Controls -> Nat]

\* A control counts at least the commands that are on their way; what it shows
\* is a command of its own, and the last of those that wait for the lock.
NewestIsShown ==
  /\ \A x \in Controls : Cardinality(Running(x)) <= writes[x]
  /\ \A c \in Commands : apply[c] = "running" /\ queuedAt[c] = 0 => call[c] = "locking"
  /\ \A x \in Controls :
       inFlight[x] # None => ControlOf[inFlight[x]] = x /\ IsLast(inFlight[x], x, lockQ)
  /\ ShowsTheNewest

----------------------------------------------------------------------------
\* The queue keeps its line.

QueueInv == TypeOK /\ TaskAndLock /\ OneLine

LEMMA SettleFacts ==
  ASSUME call \in [Commands -> Calls], NEW cs, NEW told \in Calls \ {"unissued", "locking", "awaiting"}
  PROVE  /\ Settle(cs, told) \in [Commands -> Calls]
         /\ \A c \in Commands :
              /\ Settle(cs, told)[c] \in {"unissued", "locking"} <=> call[c] \in {"unissued", "locking"}
              /\ Settle(cs, told)[c] = "locking" <=> call[c] = "locking"
              /\ Settle(cs, told)[c] = "awaiting" <=> call[c] = "awaiting" /\ c \notin cs
  BY DEF Settle, Calls

\* Somebody new is behind everybody.
LEMMA NewIsLast ==
  ASSUME queuedAt \in [Commands -> Nat], NEW c \in Commands, queuedAt[c] = 0,
         \A d \in Commands : queuedAt[d] <= Cardinality(Issued),
         queuedAt' = [queuedAt EXCEPT ![c] = Cardinality(Issued) + 1]
  PROVE  /\ queuedAt' \in [Commands -> Nat]
         /\ queuedAt'[c] > 0 /\ \A d \in Commands \ {c} : queuedAt'[d] = queuedAt[d]
         /\ \A d \in Commands \ {c} : queuedAt'[d] < queuedAt'[c]
         /\ \A d \in Commands : queuedAt'[d] <= Cardinality(Issued')
<1>1. IsFiniteSet(Issued)
  <2>1. Issued \in SUBSET Commands
    BY DEF Issued
  <2> QED
    BY <2>1, FS_Subset, CommandsAssumption
<1>2. Cardinality(Issued) \in Nat
  BY <1>1, FS_CardinalityType
<1>3. Issued' = Issued \cup {c} /\ c \notin Issued
  BY <1>2 DEF Issued
<1>4. Cardinality(Issued') = Cardinality(Issued) + 1
  BY <1>1, <1>3, FS_AddElement
<1> QED
  BY <1>2, <1>4

LEMMA EnqueueKeepsQueue ==
  ASSUME QueueInv, NEW c \in Commands, call[c] \in {"unissued", "locking"},
         NEW q \in Seq(Tasks), Distinct(q),
         \A y \in Tasks : InSeq(y, q) <=> InSeq(y, lockQ) /\ y # c,
         Enqueue(c, q)
  PROVE  QueueInv'
<1> DEFINE others == Commands \ Superseded(c)
           p == Kept(pending, others)
<1> USE DEF QueueInv
<1>1. /\ queuedAt[c] = 0 /\ pending \in Seq(Commands) /\ InOrder(pending, queuedAt)
      /\ sent \in Seq(Commands) /\ current \in Commands \cup {None}
  BY DEF TaskAndLock, OneLine, TypeOK, InOrder
<1>2. /\ queuedAt' \in [Commands -> Nat]
      /\ queuedAt'[c] > 0 /\ \A d \in Commands \ {c} : queuedAt'[d] = queuedAt[d]
      /\ \A d \in Commands \ {c} : queuedAt'[d] < queuedAt'[c]
      /\ \A d \in Commands : queuedAt'[d] <= Cardinality(Issued')
  BY <1>1, NewIsLast DEF TypeOK, OneLine, Enqueue
<1>3. /\ p \in Seq(Commands) /\ InOrder(p, queuedAt)
      /\ \A n \in 1..Len(p) : \E i \in 1..Len(pending) : p[n] = pending[i]
  <2> HIDE DEF others
  <2>1. p \in Seq(Commands) /\ InOrder(p, queuedAt)
    BY <1>1, KeptInOrder
  <2>2. \A n \in 1..Len(p) : InSeq(p[n], pending)
    BY <1>1, KeptInOrder
  <2> QED
    BY <2>1, <2>2 DEF InSeq
<1>4. pending' = Append(p, c) /\ UNCHANGED <<current, sent>>
  BY DEF Enqueue, AppendBehind
<1> HIDE DEF p
<1>5. /\ \A i \in 1..Len(pending) : pending[i] \in Commands \ {c} /\ queuedAt[pending[i]] > 0
      /\ \A i \in 1..Len(sent) : sent[i] \in Commands \ {c} /\ queuedAt[sent[i]] > 0
      /\ current # None => current \in Commands \ {c} /\ queuedAt[current] > 0
  BY <1>1 DEF OneLine
<1>6. \A n \in 1..Len(p) : p[n] \in Commands \ {c} /\ queuedAt'[p[n]] = queuedAt[p[n]]
  BY <1>2, <1>3, <1>5
<1>7. /\ pending' \in Seq(Commands) /\ Len(pending') = Len(p) + 1 /\ Len(p) \in Nat
      /\ pending'[Len(p) + 1] = c /\ \A i \in 1..Len(p) : pending'[i] = p[i]
  BY <1>3, <1>4
<1>8. \A i \in 1..Len(pending') : i \in 1..Len(p) \/ i = Len(p) + 1
  BY <1>7
<1>9. OneLine'
  <2>1. \A i \in 1..Len(sent) : queuedAt'[sent[i]] = queuedAt[sent[i]]
    BY <1>2, <1>5
  <2>2. current # None => queuedAt'[current] = queuedAt[current]
    BY <1>2, <1>5
  <2>3. ASSUME NEW j \in 1..Len(pending')
        PROVE  \/ pending'[j] = c
               \/ \E i \in 1..Len(pending) :
                    pending'[j] = pending[i] /\ queuedAt'[pending'[j]] = queuedAt[pending[i]]
    <3>1. CASE j \in 1..Len(p)
      BY <1>3, <1>6, <1>7, <3>1
    <3> QED
      BY <1>7, <1>8, <3>1
  <2>4. InOrder(pending', queuedAt')
    <3>1. InOrder(p, queuedAt')
      BY <1>3, <1>6 DEF InOrder
    <3>2. \A n \in 1..Len(p) : queuedAt'[p[n]] < queuedAt'[c]
      BY <1>2, <1>6
    <3> QED
      BY <1>3, <1>4, <3>1, <3>2, AppendInOrder
  <2>5. SentInOrder'
    BY <1>4, <2>1 DEF OneLine, SentInOrder
  <2>6. ASSUME NEW i \in 1..Len(sent), NEW j \in 1..Len(pending')
        PROVE  queuedAt'[sent[i]] < queuedAt'[pending'[j]]
    BY <1>2, <1>5, <2>1, <2>3 DEF OneLine
  <2>7. ASSUME current # None, NEW j \in 1..Len(pending')
        PROVE  queuedAt'[current] < queuedAt'[pending'[j]]
    BY <1>2, <1>5, <2>2, <2>3, <2>7 DEF OneLine
  <2>8. flush' = "writing" => flush = "writing"
    BY DEF Enqueue, StartFlush
  <2>9. \A i \in 1..Len(pending') : queuedAt'[pending'[i]] > 0
    BY <1>2, <2>3 DEF OneLine
  <2>10. flush = "writing" => current # None
    BY DEF TaskAndLock
  <2>11. flush' = "writing" => \A i \in 1..Len(sent) : queuedAt'[sent[i]] < queuedAt'[current]
    BY <2>1, <2>2, <2>8, <2>10 DEF OneLine
  <2>12. /\ \A i \in 1..Len(sent) : queuedAt'[sent[i]] > 0
         /\ current # None => queuedAt'[current] > 0
    BY <1>5, <2>1, <2>2
  <2> QED
    BY <1>2, <1>4, <2>4, <2>5, <2>6, <2>7, <2>9, <2>11, <2>12 DEF OneLine, InOrder
<1>10. /\ lockQ' \in Seq(Tasks) /\ Distinct(lockQ') /\ flush' \in Stages
       /\ \A y \in Commands : InSeq(y, lockQ') <=> InSeq(y, q)
       /\ InSeq(Flush, lockQ') <=> flush' \in {"locking", "finishing"}
       /\ current # None <=> flush' \in {"writing", "acked"}
       /\ flush' = "acked" => flush = "acked"
  <2>1. ~InSeq(Flush, q) <=> flush \notin {"locking", "finishing"}
    BY CommandsAssumption DEF Tasks, TaskAndLock
  <2>2. CASE flush = "none"
    <3>1. flush' = "locking" /\ lockQ' = Append(q, Flush)
      BY <2>2 DEF Enqueue, StartFlush
    <3> QED
      BY <2>1, <2>2, <3>1, AppendIsDistinct, CommandsAssumption DEF Tasks, TaskAndLock, Stages
  <2>3. CASE flush # "none"
    <3>1. flush' = flush /\ lockQ' = q
      BY <2>3 DEF Enqueue, StartFlush
    <3> QED
      BY <2>1, <3>1 DEF TaskAndLock, TypeOK
  <2> QED
    BY <2>2, <2>3
<1>11. /\ call' \in [Commands -> Calls] /\ call'[c] = "awaiting"
       /\ \A d \in Commands \ {c} :
            /\ call'[d] = "locking" <=> call[d] = "locking"
            /\ call'[d] \in {"unissued", "locking"} <=> call[d] \in {"unissued", "locking"}
            /\ call'[d] = "awaiting" => call[d] = "awaiting"
  <2>1. call' = [Settle(Superseded(c), "ok") EXCEPT ![c] = "awaiting"]
    BY DEF Enqueue
  <2>2. call \in [Commands -> Calls] /\ "ok" \in Calls \ {"unissued", "locking", "awaiting"}
    BY DEF TypeOK, Calls
  <2>3. "awaiting" \in Calls
    BY DEF Calls
  <2> QED
    BY <2>1, <2>2, <2>3, SettleFacts
<1>12. TaskAndLock'
  <2>1. \A d \in Commands : InSeq(d, lockQ') <=> call'[d] = "locking"
    BY <1>10, <1>11 DEF TaskAndLock, Tasks
  <2>2. \A d \in Commands : call'[d] \in {"unissued", "locking"} => queuedAt'[d] = 0
    BY <1>2, <1>11 DEF TaskAndLock
  <2>3. flush' = "acked" => call'[current] # "awaiting"
    BY <1>5, <1>10, <1>11 DEF TaskAndLock
  <2> QED
    BY <1>4, <1>10, <2>1, <2>2, <2>3 DEF TaskAndLock
<1>13. TypeOK'
  BY <1>1, <1>2, <1>4, <1>7, <1>10, <1>11 DEF TypeOK, Distinct, Tasks
<1> QED
  BY <1>9, <1>12, <1>13

\* The command in hand joins what was sent at its end.
LEMMA SentKeepsOrder ==
  ASSUME QueueInv, flush = "writing", NEW s \in {sent, Append(sent, current)}
  PROVE  /\ s \in Seq(Commands) /\ InOrder(s, queuedAt)
         /\ \A i \in 1..Len(s) : queuedAt[s[i]] > 0
         /\ \A i \in 1..Len(s), j \in 1..Len(pending) : queuedAt[s[i]] < queuedAt[pending[j]]
<1>1. /\ current \in Commands /\ current # None /\ sent \in Seq(Commands)
      /\ InOrder(sent, queuedAt)
      /\ \A i \in 1..Len(sent) : queuedAt[sent[i]] < queuedAt[current]
  BY DEF QueueInv, TypeOK, TaskAndLock, OneLine, SentInOrder, InOrder
<1>2. CASE s = sent
  BY <1>1, <1>2 DEF QueueInv, OneLine
<1>3. CASE s = Append(sent, current)
  <2>1. InOrder(s, queuedAt)
    BY <1>1, <1>3, AppendInOrder
  <2>2. /\ s \in Seq(Commands) /\ Len(s) = Len(sent) + 1 /\ Len(sent) \in Nat
        /\ s[Len(sent) + 1] = current /\ \A i \in 1..Len(sent) : s[i] = sent[i]
    BY <1>1, <1>3
  <2>3. \A i \in 1..Len(s) : s[i] = current \/ \E k \in 1..Len(sent) : s[i] = sent[k]
    <3>1. \A i \in 1..Len(s) : i \in 1..Len(sent) \/ i = Len(sent) + 1
      BY <2>2
    <3> QED
      BY <2>2, <3>1
  <2>4. ASSUME NEW i \in 1..Len(s)
        PROVE  queuedAt[s[i]] > 0
    BY <1>1, <2>3 DEF QueueInv, OneLine
  <2>5. ASSUME NEW i \in 1..Len(s), NEW j \in 1..Len(pending)
        PROVE  queuedAt[s[i]] < queuedAt[pending[j]]
    BY <1>1, <2>3 DEF QueueInv, OneLine
  <2> QED
    BY <2>1, <2>2, <2>4, <2>5
<1> QED
  BY <1>2, <1>3

\* The callers are as before, but for some that are told.
CallersAreTold ==
  /\ call' \in [Commands -> Calls]
  /\ \A c \in Commands :
       /\ call'[c] \in {"unissued", "locking"} <=> call[c] \in {"unissued", "locking"}
       /\ call'[c] = "locking" <=> call[c] = "locking"
       /\ call'[c] = "awaiting" => call[c] = "awaiting"

LEMMA SettlingTells ==
  ASSUME QueueInv,
         \/ UNCHANGED call
         \/ \E cs : call' = Settle(cs, "ok")
         \/ \E cs : call' = Settle(cs, "failed")
         \/ \E cs : call' = Settle(cs, "stopped")
  PROVE  CallersAreTold
<1>1. call \in [Commands -> Calls] /\ {"ok", "failed", "stopped"} \subseteq Calls
  BY DEF QueueInv, TypeOK, Calls
<1>2. CASE UNCHANGED call
  BY <1>1, <1>2 DEF CallersAreTold
<1>3. ASSUME NEW told \in {"ok", "failed", "stopped"}, NEW cs, call' = Settle(cs, told)
      PROVE  CallersAreTold
  <2>1. told \in Calls \ {"unissued", "locking", "awaiting"}
    BY <1>1
  <2> QED
    BY <1>1, <1>3, <2>1, SettleFacts DEF CallersAreTold
<1> QED
  BY <1>2, <1>3

\* The flush task takes the head of the line, or finds none.
LEMMA LoopTopKeepsQueue ==
  ASSUME QueueInv, CallersAreTold, UNCHANGED queuedAt,
         sent' \in Seq(Commands), InOrder(sent', queuedAt),
         \A i \in 1..Len(sent') : queuedAt[sent'[i]] > 0,
         \A i \in 1..Len(sent'), j \in 1..Len(pending) :
           queuedAt[sent'[i]] < queuedAt[pending[j]],
         NEW q \in Seq(Tasks), Distinct(q),
         \A y \in Tasks : InSeq(y, q) <=> InSeq(y, lockQ) /\ y # Flush,
         LoopTop(q)
  PROVE  QueueInv'
<1> USE DEF QueueInv
<1>1. /\ pending \in Seq(Commands) /\ InOrder(pending, queuedAt)
      /\ \A i \in 1..Len(pending) : queuedAt[pending[i]] > 0
      /\ None \notin Commands /\ Flush \notin Commands /\ ~InSeq(Flush, q)
  BY CommandsAssumption DEF TypeOK, OneLine, InOrder, Tasks
<1>2. \A c \in Commands : InSeq(c, q) <=> call'[c] = "locking"
  BY CommandsAssumption DEF CallersAreTold, TaskAndLock, Tasks
<1>3. \A c \in Commands : call'[c] \in {"unissued", "locking"} => queuedAt'[c] = 0
  BY DEF CallersAreTold, TaskAndLock
<1>4. Issued' = Issued
  BY DEF Issued
<1>5. CASE pending # <<>>
  <2>1. /\ current' = Head(pending) /\ pending' = Tail(pending)
        /\ flush' = "writing" /\ lockQ' = q
    BY <1>5 DEF LoopTop
  <2>2. /\ pending' \in Seq(Commands) /\ current' \in Commands
        /\ current' = pending[1] /\ 1 \in 1..Len(pending)
        /\ InOrder(pending', queuedAt)
        /\ \A i \in 1..Len(pending') : /\ i + 1 \in 1..Len(pending)
                                       /\ pending'[i] = pending[i + 1]
                                       /\ queuedAt[current'] < queuedAt[pending'[i]]
    BY <1>1, <1>5, <2>1, TailInOrder
  <2>3. TypeOK'
    BY <2>1, <2>2 DEF TypeOK, CallersAreTold, Stages, Distinct, Tasks
  <2>4. TaskAndLock'
    BY <1>1, <1>2, <1>3, <2>1, <2>2 DEF TaskAndLock
  <2>5. OneLine'
    BY <1>1, <1>4, <2>1, <2>2 DEF OneLine, InOrder, SentInOrder
  <2> QED
    BY <2>3, <2>4, <2>5
<1>6. CASE pending = <<>>
  <2>1. current' = None /\ pending' = pending
    BY <1>6 DEF LoopTop
  <2>2. \/ flush' = "none" /\ lockQ' = q
        \/ flush' = "finishing" /\ lockQ' = Append(q, Flush)
    BY <1>6 DEF LoopTop
  <2>3. /\ lockQ' \in Seq(Tasks) /\ Distinct(lockQ')
        /\ \A c \in Commands : InSeq(c, lockQ') <=> InSeq(c, q)
        /\ InSeq(Flush, lockQ') <=> flush' = "finishing"
        /\ flush' \in {"none", "finishing"}
    <3>1. CASE flush' = "none" /\ lockQ' = q
      BY <1>1, <3>1
    <3>2. CASE flush' = "finishing" /\ lockQ' = Append(q, Flush)
      <4>1. Flush \in Tasks
        BY DEF Tasks
      <4>2. /\ Append(q, Flush) \in Seq(Tasks) /\ Distinct(Append(q, Flush))
            /\ \A y : InSeq(y, Append(q, Flush)) <=> InSeq(y, q) \/ y = Flush
        BY <1>1, <4>1, AppendIsDistinct
      <4> QED
        BY <1>1, <3>2, <4>2
    <3> QED
      BY <2>2, <3>1, <3>2
  <2>4. TypeOK'
    BY <1>1, <2>1, <2>3 DEF TypeOK, CallersAreTold, Stages, Distinct, Tasks
  <2>5. TaskAndLock'
    BY <1>2, <1>3, <2>1, <2>3 DEF TaskAndLock
  <2>6. OneLine'
    BY <1>1, <1>4, <2>1, <2>3 DEF OneLine, InOrder, SentInOrder
  <2> QED
    BY <2>4, <2>5, <2>6
<1> QED
  BY <1>5, <1>6

\* What the flush task finds when it has the lock it asked for.
LEMMA FlushAtTheHead ==
  ASSUME QueueInv, lockQ # <<>>, Head(lockQ) = Flush
  PROVE  /\ Tail(lockQ) \in Seq(Tasks) /\ Distinct(Tail(lockQ))
         /\ \A y : InSeq(y, Tail(lockQ)) <=> InSeq(y, lockQ) /\ y # Flush
<1>1. lockQ \in Seq(Tasks) /\ Distinct(lockQ)
  BY DEF QueueInv, TypeOK, Tasks, Distinct
<1> QED
  BY <1>1, TailIsDistinct

LEMMA EmptyLock ==
  ASSUME QueueInv, lockQ = <<>>
  PROVE  /\ <<>> \in Seq(Tasks) /\ Distinct(<<>>)
         /\ \A y : ~InSeq(y, <<>>) /\ ~InSeq(y, lockQ)
  BY DEF Distinct, InSeq

\* The task that empties the queue, or goes for the lock to do so.
LEMMA StrandKeepsQueue ==
  ASSUME QueueInv, CallersAreTold, UNCHANGED <<queuedAt, sent>>,
         current' = None, flush' \in {"none", "finishing", "locking"},
         pending' = <<>> \/ pending' = pending,
         lockQ' \in Seq(Tasks), Distinct(lockQ'),
         \A c \in Commands : InSeq(c, lockQ') <=> InSeq(c, lockQ),
         InSeq(Flush, lockQ') <=> flush' \in {"finishing", "locking"}
  PROVE  QueueInv'
<1> USE DEF QueueInv
<1>1. pending' \in Seq(Commands) /\ (pending' = pending \/ Len(pending') = 0)
  <2>1. pending \in Seq(Commands)
    BY DEF TypeOK
  <2>2. CASE pending' = <<>>
    BY <2>2
  <2> QED
    BY <2>1, <2>2
<1>2. TypeOK'
  BY <1>1 DEF TypeOK, CallersAreTold, Stages, Distinct, Tasks
<1>3. TaskAndLock'
  BY DEF TaskAndLock, CallersAreTold
<1>4. OneLine'
  <2>1. Issued' = Issued
    BY DEF Issued
  <2>2. CASE pending' = pending
    BY <2>1, <2>2 DEF OneLine, SentInOrder
  <2>3. CASE Len(pending') = 0
    BY <2>1, <2>3 DEF OneLine, SentInOrder
  <2> QED
    BY <1>1, <2>2, <2>3
<1> QED
  BY <1>2, <1>3, <1>4

\* What a step does to the queue: those of its own actions, or nothing.
QueueNext ==
  \/ \E c \in Commands : Issue(c) \/ WriterRuns(c) \/ CancelCaller(c)
  \/ FlushRuns \/ FlushEnds \/ Acknowledge \/ WriteEnds \/ CancelFlush
  \/ UNCHANGED queue

LEMMA StepsAreQueueSteps == [Next]_vars => QueueNext
  BY DEF Next, vars, LayoutHeard, Applied, Settled, Cancelled, WriterGoesOn, Acknowledged,
         WriteIsOver, FlushGoesOn, FlushIsOver, FlushIsCancelled, QueueNext

LEMMA InitQueue == EntitiesInit => QueueInv
<1> SUFFICES ASSUME EntitiesInit PROVE QueueInv
  OBVIOUS
<1>1. Init
  BY DEF EntitiesInit
<1>2. Issued = {}
  BY <1>1 DEF Init, Issued
<1>3. Cardinality(Issued) = 0
  BY <1>2, FS_EmptySet
<1>4. TypeOK
  BY <1>1 DEF Init, TypeOK, Calls, Stages
<1>5. TaskAndLock
  BY <1>1 DEF Init, TaskAndLock, InSeq
<1>6. OneLine
  BY <1>1, <1>3 DEF Init, OneLine, SentInOrder
<1> QED
  BY <1>4, <1>5, <1>6 DEF QueueInv

LEMMA CallersKeepQueue ==
  ASSUME QueueInv, NEW c \in Commands, Issue(c) \/ WriterRuns(c) \/ CancelCaller(c)
  PROVE  QueueInv'
<1>1. lockQ \in Seq(Tasks) /\ Distinct(lockQ)
  BY DEF QueueInv, TypeOK, Tasks, Distinct
<1>2. c \in Tasks /\ c # Flush /\ Flush \in Tasks
  BY CommandsAssumption DEF Tasks
<1>3. CASE Issue(c)
  <2>1. call[c] = "unissued" /\ ~InSeq(c, lockQ)
    BY <1>3 DEF Issue, QueueInv, TaskAndLock
  <2>2. CASE lockQ = <<>>
    <3>1. Enqueue(c, <<>>)
      BY <1>3, <2>2 DEF Issue
    <3> QED
      BY <2>1, <2>2, <3>1, EmptyLock, EnqueueKeepsQueue
  <2>3. CASE lockQ # <<>>
    <3>1. /\ call' = [call EXCEPT ![c] = "locking"]
          /\ lockQ' = Append(lockQ, c)
          /\ UNCHANGED <<pending, queuedAt, flush, current, sent, abandoned>>
      BY <1>3, <2>3 DEF Issue
    <3>2. /\ lockQ' \in Seq(Tasks) /\ Distinct(lockQ')
          /\ \A y : InSeq(y, lockQ') <=> InSeq(y, lockQ) \/ y = c
      BY <1>1, <1>2, <2>1, <3>1, AppendIsDistinct
    <3>3. TypeOK'
      BY <3>1, <3>2 DEF QueueInv, TypeOK, Calls, Tasks, Distinct
    <3>4. TaskAndLock'
      <4>1. call \in [Commands -> Calls]
        BY DEF QueueInv, TypeOK
      <4> QED
        BY <1>2, <2>1, <3>1, <3>2, <4>1 DEF QueueInv, TaskAndLock
    <3>5. OneLine'
      BY <3>1 DEF QueueInv, OneLine, SentInOrder, Issued
    <3> QED
      BY <3>3, <3>4, <3>5 DEF QueueInv
  <2> QED
    BY <2>2, <2>3
<1>4. CASE WriterRuns(c)
  <2>1. lockQ # <<>> /\ Head(lockQ) = c /\ Enqueue(c, Tail(lockQ))
    BY <1>4 DEF WriterRuns
  <2>2. /\ Tail(lockQ) \in Seq(Tasks) /\ Distinct(Tail(lockQ))
        /\ \A y : InSeq(y, Tail(lockQ)) <=> InSeq(y, lockQ) /\ y # c
    BY <1>1, <2>1, TailIsDistinct
  <2>3. InSeq(c, lockQ)
    BY <1>1, <2>1 DEF InSeq
  <2>4. call[c] = "locking"
    BY <2>3 DEF QueueInv, TaskAndLock
  <2> QED
    BY <2>1, <2>2, <2>4, EnqueueKeepsQueue
<1>5. CASE CancelCaller(c)
  <2>1. /\ call[c] \in {"locking", "awaiting"}
        /\ call' = [call EXCEPT ![c] = "gone"]
        /\ lockQ' = Without(lockQ, c)
        /\ UNCHANGED <<pending, queuedAt, flush, current, sent, abandoned>>
    BY <1>5 DEF CancelCaller
  <2>2. /\ lockQ' \in Seq(Tasks) /\ Distinct(lockQ')
        /\ \A y \in Tasks : InSeq(y, lockQ') <=> InSeq(y, lockQ) /\ y # c
    BY <1>1, <1>2, <2>1, WithoutIsDistinct
  <2>3. TypeOK'
    BY <2>1, <2>2 DEF QueueInv, TypeOK, Calls, Tasks, Distinct
  <2>4. TaskAndLock'
    <3>1. call \in [Commands -> Calls]
      BY DEF QueueInv, TypeOK
    <3> QED
      BY <1>2, <2>1, <2>2, <3>1 DEF QueueInv, TaskAndLock, Tasks
  <2>5. OneLine'
    BY <2>1 DEF QueueInv, OneLine, SentInOrder, Issued
  <2> QED
    BY <2>3, <2>4, <2>5 DEF QueueInv
<1> QED
  BY <1>3, <1>4, <1>5

LEMMA FlushKeepsQueue ==
  ASSUME QueueInv, FlushRuns \/ FlushEnds \/ Acknowledge \/ WriteEnds \/ CancelFlush
  PROVE  QueueInv'
<1>1. lockQ \in Seq(Tasks) /\ Distinct(lockQ) /\ sent \in Seq(Commands) /\ InOrder(sent, queuedAt)
  BY DEF QueueInv, TypeOK, Tasks, Distinct, OneLine, SentInOrder, InOrder
<1>2. Flush \in Tasks /\ \A c \in Commands : c # Flush
  BY CommandsAssumption DEF Tasks
<1>3. /\ \A i \in 1..Len(sent) : queuedAt[sent[i]] > 0
      /\ \A i \in 1..Len(sent), j \in 1..Len(pending) : queuedAt[sent[i]] < queuedAt[pending[j]]
  BY DEF QueueInv, OneLine
<1>4. CASE FlushRuns
  <2>1. /\ lockQ # <<>> /\ Head(lockQ) = Flush /\ LoopTop(Tail(lockQ))
        /\ UNCHANGED <<call, queuedAt, sent>>
    BY <1>4 DEF FlushRuns
  <2> QED
    BY <1>1, <1>3, <2>1, FlushAtTheHead, SettlingTells, LoopTopKeepsQueue
<1>5. CASE FlushEnds
  <2>1. /\ flush = "finishing" /\ lockQ # <<>> /\ Head(lockQ) = Flush
        /\ call' = Settle(Queued, "stopped") /\ pending' = <<>>
        /\ flush' = "none" /\ lockQ' = Tail(lockQ)
        /\ UNCHANGED <<queuedAt, current, sent, abandoned>>
    BY <1>5 DEF FlushEnds, Strand
  <2>2. CallersAreTold
    BY <2>1, SettlingTells
  <2>3. /\ lockQ' \in Seq(Tasks) /\ Distinct(lockQ')
        /\ \A y : InSeq(y, lockQ') <=> InSeq(y, lockQ) /\ y # Flush
    BY <2>1, FlushAtTheHead
  <2>4. current' = None
    BY <2>1 DEF QueueInv, TaskAndLock
  <2> QED
    BY <1>2, <2>1, <2>2, <2>3, <2>4, StrandKeepsQueue
<1>6. CASE Acknowledge
  <2>1. /\ flush = "writing" /\ sent' = Append(sent, current)
        /\ call' = Settle({current}, "ok") /\ flush' = "acked"
        /\ UNCHANGED <<pending, queuedAt, lockQ, current, abandoned>>
    BY <1>6 DEF Acknowledge
  <2>2. CallersAreTold
    BY <2>1, SettlingTells
  <2>3. /\ sent' \in Seq(Commands) /\ InOrder(sent', queuedAt)
        /\ \A i \in 1..Len(sent') : queuedAt[sent'[i]] > 0
        /\ \A i \in 1..Len(sent'), j \in 1..Len(pending) :
             queuedAt[sent'[i]] < queuedAt[pending[j]]
    BY <2>1, SentKeepsOrder
  <2>4. call'[current] # "awaiting"
    <3>1. current \in Commands
      BY <2>1 DEF QueueInv, TypeOK, TaskAndLock
    <3>2. call \in [Commands -> Calls]
      BY DEF QueueInv, TypeOK
    <3> QED
      BY <2>1, <3>1, <3>2 DEF Settle
  <2>5. TypeOK'
    BY <2>1, <2>2, <2>3 DEF QueueInv, TypeOK, CallersAreTold, Stages
  <2>6. TaskAndLock'
    BY <2>1, <2>2, <2>4 DEF QueueInv, TaskAndLock, CallersAreTold
  <2>7. OneLine'
    BY <2>1, <2>3 DEF QueueInv, OneLine, SentInOrder, InOrder, Issued
  <2> QED
    BY <2>5, <2>6, <2>7 DEF QueueInv
<1>7. CASE WriteEnds
  <2>1. /\ flush \in {"acked", "writing"} /\ UNCHANGED <<queuedAt, abandoned>>
        /\ ~InSeq(Flush, lockQ)
    BY <1>7 DEF WriteEnds, QueueInv, TaskAndLock
  <2>2. CallersAreTold
    BY <1>7, SettlingTells DEF WriteEnds
  <2>3. /\ sent' \in Seq(Commands) /\ InOrder(sent', queuedAt)
        /\ \A i \in 1..Len(sent') : queuedAt[sent'[i]] > 0
        /\ \A i \in 1..Len(sent'), j \in 1..Len(pending) :
             queuedAt[sent'[i]] < queuedAt[pending[j]]
    <3>1. CASE flush = "acked" /\ sent' = sent
      BY <1>1, <1>3, <3>1
    <3>2. CASE flush = "writing" /\ sent' \in {sent, Append(sent, current)}
      BY <3>2, SentKeepsOrder
    <3> QED
      BY <1>7, <3>1, <3>2 DEF WriteEnds
  <2>4. CASE lockQ = <<>>
    <3>1. LoopTop(<<>>)
      BY <1>7, <2>4 DEF WriteEnds
    <3>2. <<>> \in Seq(Tasks) /\ Distinct(<<>>) /\ \A y : InSeq(y, <<>>) <=> InSeq(y, lockQ) /\ y # Flush
      BY <2>4, EmptyLock
    <3> QED
      BY <2>1, <2>2, <2>3, <3>1, <3>2, LoopTopKeepsQueue
  <2>5. CASE lockQ # <<>>
    <3>1. /\ flush' = "locking" /\ lockQ' = Append(lockQ, Flush)
          /\ current' = None /\ UNCHANGED pending
      BY <1>7, <2>5 DEF WriteEnds
    <3>2. /\ lockQ' \in Seq(Tasks) /\ Distinct(lockQ')
          /\ \A y : InSeq(y, lockQ') <=> InSeq(y, lockQ) \/ y = Flush
      BY <1>1, <1>2, <2>1, <3>1, AppendIsDistinct
    <3>3. TypeOK'
      BY <2>1, <2>2, <2>3, <3>1, <3>2 DEF QueueInv, TypeOK, CallersAreTold, Stages, Tasks, Distinct
    <3>4. TaskAndLock'
      BY <1>2, <2>1, <2>2, <3>1, <3>2 DEF QueueInv, TaskAndLock, CallersAreTold
    <3>5. OneLine'
      BY <2>1, <2>3, <3>1 DEF QueueInv, OneLine, SentInOrder, InOrder, Issued
    <3> QED
      BY <3>3, <3>4, <3>5 DEF QueueInv
  <2> QED
    BY <2>4, <2>5
<1>8. CASE CancelFlush
  <2> DEFINE q == Without(lockQ, Flush)
  <2>1. current' = None /\ flush # "none" /\ UNCHANGED <<queuedAt, sent>>
    BY <1>8 DEF CancelFlush
  <2>2. /\ q \in Seq(Tasks) /\ Distinct(q)
        /\ \A y \in Tasks : InSeq(y, q) <=> InSeq(y, lockQ) /\ y # Flush
    BY <1>1, <1>2, WithoutIsDistinct
  <2> HIDE DEF q
  <2>3. \A c \in Commands : InSeq(c, q) <=> InSeq(c, lockQ)
    BY <1>2, <2>2 DEF Tasks
  <2>4. ~InSeq(Flush, q)
    BY <1>2, <2>2
  <2>5. CASE flush = "finishing"
    <3>1. flush' = "none" /\ lockQ' = q /\ UNCHANGED <<call, pending>>
      BY <1>8, <2>5 DEF CancelFlush, q
    <3> QED
      BY <2>1, <2>2, <2>3, <2>4, <3>1, SettlingTells, StrandKeepsQueue
  <2>6. CASE flush # "finishing"
    <3>1. Finish(q)
      BY <1>8, <2>6 DEF CancelFlush, q
    <3>2. CASE q = <<>>
      <4>1. /\ call' = Settle(Queued, "stopped") /\ pending' = <<>>
            /\ flush' = "none" /\ lockQ' = q
        BY <3>1, <3>2 DEF Finish, Strand
      <4> QED
        BY <2>1, <2>2, <2>3, <2>4, <4>1, SettlingTells, StrandKeepsQueue
    <3>3. CASE q # <<>>
      <4>1. flush' = "finishing" /\ lockQ' = Append(q, Flush) /\ UNCHANGED <<call, pending>>
        BY <3>1, <3>3 DEF Finish
      <4>2. /\ lockQ' \in Seq(Tasks) /\ Distinct(lockQ')
            /\ \A y : InSeq(y, lockQ') <=> InSeq(y, q) \/ y = Flush
        BY <1>2, <2>2, <2>4, <4>1, AppendIsDistinct
      <4> QED
        BY <1>2, <2>1, <2>3, <4>1, <4>2, SettlingTells, StrandKeepsQueue
    <3> QED
      BY <3>2, <3>3
  <2> QED
    BY <2>5, <2>6
<1> QED
  BY <1>4, <1>5, <1>6, <1>7, <1>8

LEMMA QueueIsKept == Spec => []QueueInv
<1>1. QueueInv /\ [Next]_vars => QueueInv'
  <2> SUFFICES ASSUME QueueInv, QueueNext PROVE QueueInv'
    BY StepsAreQueueSteps
  <2>1. CASE UNCHANGED queue
    BY <2>1 DEF queue, QueueInv, TypeOK, TaskAndLock, OneLine, SentInOrder, Issued
  <2> QED
    BY <2>1, CallersKeepQueue, FlushKeepsQueue DEF QueueNext
<1> QED
  BY <1>1, InitQueue, PTL DEF Spec

\* The device receives commands in the order they were queued, each once at
\* most: of the values that replace one another, the callers that give up and
\* a flush task that is cancelled and started again, none puts an older
\* command after a newer one.
THEOREM CommandsArriveInOrder == Spec => []SentInOrder
<1>1. QueueInv => SentInOrder
  BY DEF QueueInv, OneLine
<1> QED
  BY <1>1, QueueIsKept, PTL

----------------------------------------------------------------------------
\* A control shows its newest command.

ControlsInv == EntitiesTypeOK /\ NewestIsShown

\* Older(c, d), after the step.
OlderThen(c, d) ==
  queuedAt'[c] # 0 /\ (queuedAt'[d] = 0 \/ queuedAt'[c] < queuedAt'[d])

\* Who joins the lock's queue is the last there, for its own control.
LEMMA LastWhenItJoins ==
  ASSUME NEW s \in Seq(Tasks), NEW c \in Commands, ~InSeq(c, s), NEW z
  PROVE  IsLast(c, z, Append(s, c))
<1>1. /\ Len(s) \in Nat /\ Len(Append(s, c)) = Len(s) + 1
      /\ \A i \in 1..Len(s) : Append(s, c)[i] = s[i]
  BY DEF Tasks
<1>2. \A i \in 1..Len(s) + 1 : i \in Nat /\ i <= Len(s) + 1 /\ (i \in 1..Len(s) \/ i = Len(s) + 1)
  BY <1>1
<1>3. \A i \in 1..Len(s) : s[i] # c
  BY DEF InSeq
<1> QED
  BY <1>1, <1>2, <1>3 DEF IsLast

\* Whoever joins for another control leaves the last where it is.
LEMMA LastWhenAnotherJoins ==
  ASSUME NEW s \in Seq(Tasks), NEW c \in Commands, NEW d, NEW z, IsLast(d, z, s),
         ControlOf[c] # z
  PROVE  IsLast(d, z, Append(s, c))
<1>1. /\ Len(s) \in Nat /\ Len(Append(s, c)) = Len(s) + 1 /\ Append(s, c)[Len(s) + 1] = c
      /\ \A i \in 1..Len(s) : Append(s, c)[i] = s[i]
  BY DEF Tasks
<1>2. \A i \in 1..Len(s) + 1 : i \in Nat /\ i <= Len(s) + 1 /\ (i \in 1..Len(s) \/ i = Len(s) + 1)
  BY <1>1
<1> SUFFICES ASSUME NEW i \in 1..Len(s) + 1, NEW j \in 1..Len(s) + 1,
                    Append(s, c)[i] = d, Append(s, c)[j] \in Commands,
                    ControlOf[Append(s, c)[j]] = z
             PROVE  j <= i
  BY <1>1 DEF IsLast
<1>3. j \in 1..Len(s)
  BY <1>1, <1>2
<1>4. CASE i \in 1..Len(s)
  BY <1>1, <1>3, <1>4 DEF IsLast
<1> QED
  BY <1>1, <1>2, <1>3, <1>4

\* Steps that leave the controls alone, and the order of queueing.
LEMMA ControlsStand ==
  ASSUME ControlsInv, UNCHANGED <<controls, queuedAt>>,
         \A c \in Commands : call[c] = "locking" => call'[c] = "locking",
         \A c \in Commands, z \in Controls : IsLast(c, z, lockQ) => IsLast(c, z, lockQ')
  PROVE  ControlsInv'
<1>1. /\ UNCHANGED <<apply, inFlight, writes, queuedAt>>
      /\ \A x : Running(x)' = Running(x)
  BY DEF controls, Running
<1>2. EntitiesTypeOK'
  BY <1>1 DEF ControlsInv, EntitiesTypeOK
<1>3. \A x \in Controls : Cardinality(Running(x)') <= writes'[x]
  BY <1>1 DEF ControlsInv, NewestIsShown
<1>4. \A c \in Commands : apply'[c] = "running" /\ queuedAt'[c] = 0 => call'[c] = "locking"
  BY <1>1 DEF ControlsInv, NewestIsShown
<1>5. \A x \in Controls :
        inFlight'[x] # None => ControlOf[inFlight'[x]] = x /\ IsLast(inFlight'[x], x, lockQ')
  BY <1>1 DEF ControlsInv, NewestIsShown, EntitiesTypeOK
<1>6. ShowsTheNewest'
  BY <1>1 DEF ControlsInv, NewestIsShown, ShowsTheNewest, Older, OlderThen
<1> QED
  BY <1>2, <1>3, <1>4, <1>5, <1>6 DEF ControlsInv, NewestIsShown, Running, IsLast

\* Who runs for a control, when one more command is given to it or one is done.
LEMMA RunningIsFinite ==
  ASSUME NEW x
  PROVE  IsFiniteSet(Running(x)) /\ Cardinality(Running(x)) \in Nat
<1>1. Running(x) \in SUBSET Commands
  BY DEF Running
<1> QED
  BY <1>1, FS_Subset, FS_CardinalityType, CommandsAssumption

\* What happens to the commands, and to who waits for the lock, when c is queued.
LEMMA EnqueueFacts ==
  ASSUME QueueInv, NEW c \in Commands, call[c] \in {"unissued", "locking"}, NEW q, Enqueue(c, q)
  PROVE  /\ queuedAt' \in [Commands -> Nat] /\ queuedAt'[c] > 0
         /\ \A d \in Commands \ {c} :
              /\ queuedAt'[d] = queuedAt[d] /\ queuedAt'[d] < queuedAt'[c]
              /\ call[d] = "locking" => call'[d] = "locking"
         /\ lockQ' \in {q, Append(q, Flush)}
<1>1. /\ queuedAt \in [Commands -> Nat] /\ queuedAt[c] = 0 /\ call \in [Commands -> Calls]
      /\ \A d \in Commands : queuedAt[d] <= Cardinality(Issued)
  BY DEF QueueInv, TypeOK, TaskAndLock, OneLine
<1>2. /\ queuedAt' = [queuedAt EXCEPT ![c] = Cardinality(Issued) + 1]
      /\ call' = [Settle(Superseded(c), "ok") EXCEPT ![c] = "awaiting"]
  BY DEF Enqueue
<1>3. lockQ' \in {q, Append(q, Flush)}
  BY DEF Enqueue, StartFlush
<1>4. "ok" \in Calls \ {"unissued", "locking", "awaiting"}
  BY DEF Calls
<1>5. ASSUME NEW d \in Commands \ {c}, call[d] = "locking"
      PROVE  call'[d] = "locking"
  BY <1>1, <1>2, <1>4, <1>5, SettleFacts
<1> QED
  BY <1>1, <1>2, <1>3, <1>5, NewIsLast

\* A command is given to its control.
LEMMA AppliedShowsTheNewest ==
  ASSUME QueueInv, ControlsInv, NEW c \in Commands, Applied(c)
  PROVE  ControlsInv'
<1> DEFINE x == ControlOf[c]
<1>1. x \in Controls /\ \A d \in Commands : ControlOf[d] \in Controls
  BY DEF Controls
<1>2. /\ apply[c] = "not called" /\ apply' = [apply EXCEPT ![c] = "running"]
      /\ inFlight' = [inFlight EXCEPT ![x] = IF c \in Events THEN None ELSE c]
      /\ writes' = [writes EXCEPT ![x] = @ + 1] /\ Issue(c)
  BY DEF Applied
<1> HIDE DEF x
<1>3. /\ apply \in [Commands -> {"not called", "running", "returned", "cancelled"}]
      /\ inFlight \in [Controls -> Commands \cup {None}] /\ writes \in [Controls -> Nat]
      /\ None \notin Commands
  BY CommandsAssumption DEF ControlsInv, EntitiesTypeOK
<1>4. EntitiesTypeOK'
  <2>1. apply' \in [Commands -> {"not called", "running", "returned", "cancelled"}]
    BY <1>2, <1>3
  <2>2. inFlight' \in [Controls -> Commands \cup {None}]
    BY <1>2, <1>3
  <2>3. writes' \in [Controls -> Nat]
    <3>1. writes[x] + 1 \in Nat
      <4>1. writes \in [Controls -> Nat] /\ x \in Controls
        BY <1>1, <1>3
      <4>2. writes[x] \in Nat
        BY <4>1
      <4> QED
        BY <4>2
    <3>2. writes' = [writes EXCEPT ![x] = writes[x] + 1]
      BY <1>2
    <3> QED
      BY <1>3, <3>1, <3>2
  <2> QED
    BY <2>1, <2>2, <2>3 DEF EntitiesTypeOK
<1>a. \A d \in Commands \ {c} : apply'[d] = apply[d]
  BY <1>2, <1>3
<1>5. ASSUME NEW y \in Controls
      PROVE  Cardinality(Running(y)') <= writes'[y]
  <2>1. Cardinality(Running(y)) <= writes[y] /\ writes[y] \in Nat
    BY <1>3 DEF ControlsInv, NewestIsShown
  <2>2. CASE y = x
    <3>1. Running(y)' = Running(y) \cup {c} /\ c \notin Running(y)
      BY <1>2, <1>3, <2>2 DEF Running, x
    <3>2. Cardinality(Running(y)') = Cardinality(Running(y)) + 1
      BY <3>1, RunningIsFinite, FS_AddElement
    <3>3. writes'[y] = writes[y] + 1
      BY <1>1, <1>2, <1>3, <2>2
    <3>4. Cardinality(Running(y)) \in Nat
      BY RunningIsFinite
    <3> QED
      BY <2>1, <3>2, <3>3, <3>4
  <2>3. CASE y # x
    <3>1. Running(y)' = Running(y)
      BY <1>2, <1>3, <2>3 DEF Running, x
    <3> QED
      BY <1>2, <1>3, <2>1, <2>3, <3>1
  <2> QED
    BY <2>2, <2>3
<1>6. /\ call[c] = "unissued" /\ queuedAt[c] = 0 /\ ~InSeq(c, lockQ)
      /\ lockQ \in Seq(Tasks) /\ Distinct(lockQ) /\ queuedAt \in [Commands -> Nat]
  <2>1. call[c] = "unissued"
    BY <1>2 DEF Issue
  <2> QED
    BY <2>1 DEF QueueInv, TaskAndLock, TypeOK, Tasks, Distinct
<1>7. \A d \in Commands : apply[d] = "running" /\ queuedAt[d] = 0 => InSeq(d, lockQ)
  BY DEF ControlsInv, NewestIsShown, QueueInv, TaskAndLock
<1>8. /\ \A d \in Commands \ {c} : queuedAt'[d] = queuedAt[d]
      /\ \A d \in Commands :
           apply'[d] = "running" /\ queuedAt'[d] = 0 => call'[d] = "locking"
      /\ \A d \in Commands :
           apply'[d] = "running" /\ ControlOf[d] = x => ~OlderThen(c, d)
      /\ IsLast(c, x, lockQ')
      /\ \A y \in Controls \ {x}, d \in Commands \ {c} :
           IsLast(d, y, lockQ) => IsLast(d, y, lockQ')
  <2>1. CASE lockQ = <<>>
    <3>1. Enqueue(c, <<>>)
      BY <1>2, <2>1 DEF Issue
    <3>2. /\ queuedAt' \in [Commands -> Nat] /\ queuedAt'[c] > 0
          /\ \A d \in Commands \ {c} : queuedAt'[d] = queuedAt[d] /\ queuedAt'[d] < queuedAt'[c]
          /\ \A d \in Commands \ {c} : call[d] = "locking" => call'[d] = "locking"
          /\ lockQ' \in {<<>>, Append(<<>>, Flush)}
      BY <1>6, <3>1, EnqueueFacts
    <3>3. \A d \in Commands \ {c} : apply'[d] = "running" => queuedAt'[d] > 0
      <4>1. \A d \in Commands : ~InSeq(d, lockQ)
        BY <2>1 DEF InSeq
      <4> QED
        BY <1>a, <1>6, <1>7, <3>2, <4>1
    <3>4. \A d \in Commands : apply'[d] = "running" => ~OlderThen(c, d)
      BY <3>2, <3>3 DEF OlderThen
    <3>5. \A d \in Commands : \A y : IsLast(d, y, lockQ')
      <4>1. \A i \in 1..Len(lockQ') : lockQ'[i] = Flush
        BY <3>2
      <4> QED
        BY <4>1, CommandsAssumption DEF IsLast
    <3> QED
      BY <3>2, <3>3, <3>4, <3>5
  <2>2. CASE lockQ # <<>>
    <3>1. /\ call' = [call EXCEPT ![c] = "locking"] /\ lockQ' = Append(lockQ, c)
          /\ queuedAt' = queuedAt
      BY <1>2, <2>2 DEF Issue
    <3>2. \A d \in Commands \ {c} :
            apply'[d] = "running" /\ queuedAt[d] = 0 => call'[d] = "locking"
      <4>1. \A d \in Commands \ {c} : call'[d] = call[d]
        BY <3>1 DEF QueueInv, TypeOK
      <4> QED
        BY <1>a, <4>1 DEF ControlsInv, NewestIsShown
    <3>3. call'[c] = "locking"
      BY <3>1 DEF QueueInv, TypeOK
    <3>4. \A d \in Commands : ~OlderThen(c, d)
      BY <1>6, <3>1 DEF OlderThen
    <3>5. IsLast(c, x, lockQ')
      BY <1>6, <3>1, LastWhenItJoins
    <3>6. \A y \in Controls \ {x}, d \in Commands \ {c} :
            IsLast(d, y, lockQ) => IsLast(d, y, lockQ')
      BY <1>6, <3>1, LastWhenAnotherJoins DEF x
    <3> QED
      BY <3>1, <3>2, <3>3, <3>4, <3>5, <3>6
  <2> QED
    BY <2>1, <2>2
<1>9. ASSUME NEW y \in Controls, inFlight'[y] # None
      PROVE  ControlOf[inFlight'[y]] = y /\ IsLast(inFlight'[y], y, lockQ')
  <2>1. CASE y = x
    <3>1. inFlight'[y] = c
      BY <1>2, <1>3, <1>9, <2>1
    <3> QED
      BY <1>8, <2>1, <3>1 DEF x
  <2>2. CASE y # x
    <3>1. inFlight'[y] = inFlight[y]
      BY <1>2, <1>3, <2>2
    <3>2. inFlight[y] \in Commands /\ ControlOf[inFlight[y]] = y /\ IsLast(inFlight[y], y, lockQ)
      BY <1>3, <1>9, <3>1 DEF ControlsInv, NewestIsShown
    <3> QED
      BY <1>8, <2>2, <3>1, <3>2 DEF x
  <2> QED
    BY <2>1, <2>2
<1>10. ShowsTheNewest'
  <2> SUFFICES ASSUME NEW d \in Commands \ Events, apply'[d] = "running"
               PROVE  /\ inFlight'[ControlOf[d]] # None
                      /\ ~OlderThen(inFlight'[ControlOf[d]], d)
    BY DEF ShowsTheNewest, Older, OlderThen
  <2>1. CASE ControlOf[d] = x
    <3>1. c \notin Events
      BY <2>1, ControlsAssumption DEF x
    <3>2. inFlight'[x] = c
      BY <1>1, <1>2, <1>3, <3>1
    <3> QED
      BY <1>3, <1>8, <2>1, <3>2
  <2>2. CASE ControlOf[d] # x
    <3> DEFINE e == inFlight[ControlOf[d]]
    <3>1. d # c /\ apply[d] = "running"
      BY <1>2, <1>3, <2>2 DEF x
    <3>2. inFlight'[ControlOf[d]] = e
      BY <1>1, <1>2, <1>3, <2>2
    <3>3. e \in Commands /\ e # None /\ ~Older(e, d)
      BY <1>1, <1>3, <3>1 DEF ControlsInv, NewestIsShown, ShowsTheNewest
    <3>4. e # c
      BY <1>1, <2>2, <3>3 DEF ControlsInv, NewestIsShown, x
    <3> HIDE DEF e
    <3>5. ~OlderThen(e, d)
      BY <1>8, <3>1, <3>3, <3>4 DEF Older, OlderThen
    <3> QED
      BY <3>2, <3>3, <3>5
  <2> QED
    BY <2>1, <2>2
<1> QED
  BY <1>4, <1>5, <1>8, <1>9, <1>10 DEF ControlsInv, NewestIsShown, Running, IsLast

\* A command that waited for the lock is queued.
LEMMA WriterShowsTheNewest ==
  ASSUME QueueInv, ControlsInv, NEW c \in Commands, WriterGoesOn(c)
  PROVE  ControlsInv'
<1>1. /\ lockQ # <<>> /\ Head(lockQ) = c /\ Enqueue(c, Tail(lockQ))
      /\ UNCHANGED <<apply, inFlight, writes>>
  BY DEF WriterGoesOn, WriterRuns, controls
<1>2. /\ lockQ \in Seq(Tasks) /\ Distinct(lockQ) /\ queuedAt \in [Commands -> Nat]
      /\ InSeq(c, lockQ) /\ lockQ[1] = c /\ 1 \in 1..Len(lockQ)
  BY <1>1 DEF QueueInv, TypeOK, Tasks, Distinct, InSeq
<1>3. call[c] = "locking" /\ queuedAt[c] = 0
  BY <1>2 DEF QueueInv, TaskAndLock
<1>4. /\ queuedAt' \in [Commands -> Nat] /\ queuedAt'[c] > 0
      /\ \A d \in Commands \ {c} : queuedAt'[d] = queuedAt[d] /\ queuedAt'[d] < queuedAt'[c]
      /\ \A d \in Commands \ {c} : call[d] = "locking" => call'[d] = "locking"
      /\ lockQ' \in {Tail(lockQ), Append(Tail(lockQ), Flush)}
  BY <1>1, <1>3, EnqueueFacts
<1>5. /\ Tail(lockQ) \in Seq(Tasks)
      /\ \A d \in Commands : \A y : IsLast(d, y, lockQ) => IsLast(d, y, lockQ')
  <2>1. Tail(lockQ) \in Seq(Tasks)
    BY <1>1, <1>2, TailIsDistinct
  <2>2. ASSUME NEW d \in Commands, NEW y, IsLast(d, y, lockQ)
        PROVE  IsLast(d, y, lockQ')
    BY <1>1, <1>2, <1>4, <2>1, <2>2, LastStaysLast
  <2> QED
    BY <2>1, <2>2
<1>6. \A d \in Commands : ControlOf[d] \in Controls
  BY DEF Controls
<1>7. \A d \in Commands : apply[d] = "running" /\ queuedAt[d] = 0 => InSeq(d, lockQ)
  BY DEF ControlsInv, NewestIsShown, QueueInv, TaskAndLock
<1>8. ShowsTheNewest'
  <2> SUFFICES ASSUME NEW d \in Commands \ Events, apply'[d] = "running"
               PROVE  /\ inFlight'[ControlOf[d]] # None
                      /\ ~OlderThen(inFlight'[ControlOf[d]], d)
    BY DEF ShowsTheNewest, Older, OlderThen
  <2> DEFINE e == inFlight[ControlOf[d]]
  <2>1. /\ e \in Commands /\ e # None /\ ControlOf[e] = ControlOf[d] /\ ~Older(e, d)
        /\ IsLast(e, ControlOf[d], lockQ)
    BY <1>1, <1>6 DEF ControlsInv, EntitiesTypeOK, NewestIsShown, ShowsTheNewest
  <2>2. inFlight'[ControlOf[d]] = e
    BY <1>1
  <2> HIDE DEF e
  <2>3. CASE e = c
    <3>1. ASSUME d # c PROVE queuedAt[d] # 0
      <4> SUFFICES ASSUME queuedAt[d] = 0 PROVE FALSE
        OBVIOUS
      <4>1. PICK j \in 1..Len(lockQ) : lockQ[j] = d
        BY <1>1, <1>7 DEF InSeq
      <4>2. j <= 1
        BY <1>2, <2>1, <2>3, <4>1 DEF IsLast
      <4> QED
        BY <1>2, <3>1, <4>1, <4>2
    <3> QED
      BY <1>4, <2>1, <2>2, <2>3, <3>1 DEF Older, OlderThen
  <2>4. CASE e # c
    <3>1. d = c => queuedAt[e] = 0
      BY <1>2, <1>3, <2>1 DEF Older, OlderThen
    <3> QED
      BY <1>4, <2>1, <2>2, <2>4, <3>1 DEF Older, OlderThen
  <2> QED
    BY <2>3, <2>4
<1>9. EntitiesTypeOK'
  BY <1>1 DEF ControlsInv, EntitiesTypeOK
<1>10. \A y \in Controls : Cardinality(Running(y)') <= writes'[y]
  <2>1. \A y : Running(y)' = Running(y)
    BY <1>1 DEF Running
  <2> QED
    BY <1>1, <2>1 DEF ControlsInv, NewestIsShown
<1>11. \A d \in Commands : apply'[d] = "running" /\ queuedAt'[d] = 0 => call'[d] = "locking"
  BY <1>1, <1>4 DEF ControlsInv, NewestIsShown
<1>12. \A y \in Controls :
        inFlight'[y] # None => ControlOf[inFlight'[y]] = y /\ IsLast(inFlight'[y], y, lockQ')
  BY <1>1, <1>5 DEF ControlsInv, EntitiesTypeOK, NewestIsShown
<1> QED
  BY <1>8, <1>9, <1>10, <1>11, <1>12 DEF ControlsInv, NewestIsShown, Running, IsLast

\* async_apply goes on: what the control shows goes when nothing is left.
LEMMA SettledShowsTheNewest ==
  ASSUME QueueInv, ControlsInv, NEW c \in Commands, Settled(c)
  PROVE  ControlsInv'
<1> DEFINE x == ControlOf[c]
           left == IF writes[x] = 0 THEN 0 ELSE writes[x] - 1
<1>1. /\ x \in Controls /\ \A d \in Commands : ControlOf[d] \in Controls
      /\ writes[x] \in Nat
  BY DEF Controls, ControlsInv, EntitiesTypeOK
<1>2. /\ apply[c] = "running" /\ apply' = [apply EXCEPT ![c] = "returned"]
      /\ writes' = [writes EXCEPT ![x] = left]
      /\ inFlight' = [inFlight EXCEPT ![x] = IF left = 0 THEN None ELSE inFlight[x]]
      /\ UNCHANGED <<call, queuedAt, lockQ>>
  BY DEF Settled, Release, queue
<1>3. c \in Running(x) /\ Running(x)' = Running(x) \ {c} /\ left \in Nat
  <2>1. left \in Nat
    BY <1>1
  <2> HIDE DEF left
  <2>2. apply \in [Commands -> {"not called", "running", "returned", "cancelled"}]
    BY DEF ControlsInv, EntitiesTypeOK
  <2>3. \A d \in Commands : apply'[d] = "running" <=> apply[d] = "running" /\ d # c
    BY <1>2, <2>2
  <2>4. c \in Running(x) /\ Running(x)' = Running(x) \ {c}
    BY <1>2, <2>3 DEF Running
  <2> QED
    BY <2>1, <2>4
<1>4. Cardinality(Running(x)') = Cardinality(Running(x)) - 1
  BY <1>3, RunningIsFinite, FS_RemoveElement
<1>5. Cardinality(Running(x)') <= left
  <2>1. Cardinality(Running(x)) <= writes[x]
    BY <1>1 DEF ControlsInv, NewestIsShown
  <2> QED
    BY <1>1, <1>4, <2>1, RunningIsFinite
<1>6. left = 0 => Running(x)' = {}
  <2>1. IsFiniteSet(Running(x)')
    BY <1>3, RunningIsFinite, FS_RemoveElement
  <2>2. left = 0 => Cardinality(Running(x)') = 0
    <3>1. Cardinality(Running(x)') \in Nat
      BY <2>1, FS_CardinalityType
    <3> QED
      BY <1>5, <3>1
  <2> QED
    BY <2>1, <2>2, FS_EmptySet
<1> HIDE DEF x, left
<1>7. EntitiesTypeOK'
  BY <1>1, <1>2, <1>3 DEF ControlsInv, EntitiesTypeOK
<1>8. ASSUME NEW y \in Controls
      PROVE  Cardinality(Running(y)') <= writes'[y]
  <2>1. CASE y = x
    BY <1>2, <1>5, <2>1 DEF ControlsInv, EntitiesTypeOK
  <2>2. CASE y # x
    <3>1. Running(y)' = Running(y)
      BY <1>2, <2>2 DEF Running, x, ControlsInv, EntitiesTypeOK
    <3> QED
      BY <1>2, <2>2, <3>1 DEF ControlsInv, EntitiesTypeOK, NewestIsShown
  <2> QED
    BY <2>1, <2>2
<1>9. \A d \in Commands : apply'[d] = "running" => apply[d] = "running"
  BY <1>2 DEF ControlsInv, EntitiesTypeOK
<1>10. \A y \in Controls : inFlight'[y] # None => inFlight'[y] = inFlight[y]
  BY <1>2 DEF ControlsInv, EntitiesTypeOK
<1>11. ASSUME NEW d \in Commands \ Events, apply'[d] = "running"
       PROVE  inFlight'[ControlOf[d]] = inFlight[ControlOf[d]]
  <2>1. CASE ControlOf[d] = x
    <3>1. d \in Running(x)'
      BY <1>11, <2>1 DEF Running
    <3> QED
      BY <1>1, <1>2, <1>6, <2>1, <3>1 DEF ControlsInv, EntitiesTypeOK
  <2>2. CASE ControlOf[d] # x
    BY <1>1, <1>2, <2>2 DEF ControlsInv, EntitiesTypeOK
  <2> QED
    BY <2>1, <2>2
<1>12. ShowsTheNewest'
  <2> SUFFICES ASSUME NEW d \in Commands \ Events, apply'[d] = "running"
               PROVE  /\ inFlight'[ControlOf[d]] # None
                      /\ ~OlderThen(inFlight'[ControlOf[d]], d)
    BY DEF ShowsTheNewest, Older, OlderThen
  <2> QED
    BY <1>2, <1>9, <1>11 DEF ControlsInv, NewestIsShown, ShowsTheNewest, Older, OlderThen
<1>13. \A d \in Commands : apply'[d] = "running" /\ queuedAt'[d] = 0 => call'[d] = "locking"
  BY <1>2, <1>9 DEF ControlsInv, NewestIsShown
<1>14. \A y \in Controls :
        inFlight'[y] # None => ControlOf[inFlight'[y]] = y /\ IsLast(inFlight'[y], y, lockQ')
  BY <1>2, <1>10 DEF ControlsInv, NewestIsShown
<1> QED
  BY <1>7, <1>8, <1>12, <1>13, <1>14 DEF ControlsInv, NewestIsShown, Running, IsLast

\* A service call is cancelled: nothing is settled.
LEMMA CancelledShowsTheNewest ==
  ASSUME QueueInv, ControlsInv, NEW c \in Commands, Cancelled(c)
  PROVE  ControlsInv'
<1>1. /\ apply[c] = "running" /\ apply' = [apply EXCEPT ![c] = "cancelled"]
      /\ UNCHANGED <<inFlight, writes>>
      /\ CancelCaller(c) \/ UNCHANGED queue
  BY DEF Cancelled
<1>2. apply \in [Commands -> {"not called", "running", "returned", "cancelled"}]
  BY DEF ControlsInv, EntitiesTypeOK
<1>3. /\ queuedAt' = queuedAt
      /\ \A d \in Commands \ {c} : call'[d] = call[d]
      /\ \A d \in Commands : \A y : IsLast(d, y, lockQ) => IsLast(d, y, lockQ')
  <2>1. CASE UNCHANGED queue
    BY <2>1 DEF queue
  <2>2. CASE CancelCaller(c)
    <3>1. /\ call' = [call EXCEPT ![c] = "gone"] /\ lockQ' = Without(lockQ, c)
          /\ queuedAt' = queuedAt /\ call \in [Commands -> Calls]
          /\ lockQ \in Seq(Tasks) /\ Distinct(lockQ) /\ c \in Tasks
      BY <2>2 DEF CancelCaller, QueueInv, TypeOK, Tasks, Distinct
    <3>2. \A d, y : IsLast(d, y, lockQ) => IsLast(d, y, lockQ')
      BY <3>1, WithoutIsDistinct
    <3> QED
      BY <3>1, <3>2
  <2> QED
    BY <1>1, <2>1, <2>2
<1>4. \A d \in Commands : apply'[d] = "running" => apply[d] = "running" /\ d # c
  BY <1>1, <1>2
<1>5. EntitiesTypeOK'
  BY <1>1, <1>2 DEF ControlsInv, EntitiesTypeOK
<1>6. ASSUME NEW y \in Controls
      PROVE  Cardinality(Running(y)') <= writes'[y]
  <2>1. Running(y)' \in SUBSET Running(y)
    BY <1>4 DEF Running
  <2>2. /\ Cardinality(Running(y)') <= Cardinality(Running(y))
        /\ IsFiniteSet(Running(y)')
    BY <2>1, RunningIsFinite, FS_Subset
  <2>3. Cardinality(Running(y)') \in Nat
    BY <2>2, FS_CardinalityType
  <2>4. Cardinality(Running(y)) <= writes[y] /\ writes'[y] = writes[y] /\ writes[y] \in Nat
    BY <1>1 DEF ControlsInv, EntitiesTypeOK, NewestIsShown
  <2> QED
    BY <2>2, <2>3, <2>4, RunningIsFinite
<1>7. \A d \in Commands : apply'[d] = "running" /\ queuedAt'[d] = 0 => call'[d] = "locking"
  BY <1>3, <1>4 DEF ControlsInv, NewestIsShown
<1>8. \A y \in Controls :
        inFlight'[y] # None => ControlOf[inFlight'[y]] = y /\ IsLast(inFlight'[y], y, lockQ')
  BY <1>1, <1>3 DEF ControlsInv, EntitiesTypeOK, NewestIsShown
<1>9. ShowsTheNewest'
  BY <1>1, <1>3, <1>4 DEF ControlsInv, NewestIsShown, ShowsTheNewest, Older, OlderThen
<1> QED
  BY <1>5, <1>6, <1>7, <1>8, <1>9 DEF ControlsInv, NewestIsShown, Running, IsLast

\* What the flush task does to the lock's queue, and whom it tells.
LEMMA FlushAndTheLock ==
  ASSUME QueueInv, FlushRuns \/ FlushEnds \/ Acknowledge \/ WriteEnds \/ CancelFlush
  PROVE  /\ queuedAt' = queuedAt
         /\ \A c \in Commands : call[c] = "locking" => call'[c] = "locking"
         /\ \A c \in Commands : \A y : IsLast(c, y, lockQ) => IsLast(c, y, lockQ')
<1>1. lockQ \in Seq(Tasks) /\ Distinct(lockQ) /\ Flush \in Tasks
  BY DEF QueueInv, TypeOK, Tasks, Distinct
<1>2. queuedAt' = queuedAt
  BY DEF FlushRuns, FlushEnds, Acknowledge, WriteEnds, CancelFlush
<1>3. CallersAreTold
  BY SettlingTells DEF FlushRuns, FlushEnds, Strand, Acknowledge, WriteEnds, CancelFlush, Finish
<1>4. ASSUME NEW q \in Seq(Tasks), lockQ' \in {q, Append(q, Flush)},
             \A c, y : IsLast(c, y, lockQ) => IsLast(c, y, q)
      PROVE  \A c \in Commands : \A y : IsLast(c, y, lockQ) => IsLast(c, y, lockQ')
  BY <1>4, LastStaysLast
<1>5. ASSUME lockQ # <<>>, Head(lockQ) = Flush, lockQ' \in {Tail(lockQ), Append(Tail(lockQ), Flush)}
      PROVE  \A c \in Commands : \A y : IsLast(c, y, lockQ) => IsLast(c, y, lockQ')
  <2>1. Tail(lockQ) \in Seq(Tasks)
    BY <1>1, <1>5, TailIsDistinct
  <2> QED
    BY <1>1, <1>5, <2>1, LastStaysLast
<1>6. ASSUME lockQ' \in {Without(lockQ, Flush), Append(Without(lockQ, Flush), Flush)}
      PROVE  \A c \in Commands : \A y : IsLast(c, y, lockQ) => IsLast(c, y, lockQ')
  <2>1. /\ Without(lockQ, Flush) \in Seq(Tasks)
        /\ \A c, y : IsLast(c, y, lockQ) => IsLast(c, y, Without(lockQ, Flush))
    BY <1>1, WithoutIsDistinct
  <2> QED
    BY <1>4, <1>6, <2>1
<1>7. CASE FlushRuns
  BY <1>2, <1>3, <1>5, <1>7 DEF FlushRuns, LoopTop, CallersAreTold
<1>8. CASE FlushEnds
  BY <1>2, <1>3, <1>5, <1>8 DEF FlushEnds, CallersAreTold
<1>9. CASE Acknowledge
  BY <1>2, <1>3, <1>9 DEF Acknowledge, CallersAreTold
<1>10. CASE WriteEnds
  <2>1. lockQ' \in {lockQ, Append(lockQ, Flush)}
    BY <1>10 DEF WriteEnds, LoopTop
  <2> QED
    BY <1>1, <1>2, <1>3, <1>4, <2>1 DEF CallersAreTold
<1>11. CASE CancelFlush
  <2>1. lockQ' \in {Without(lockQ, Flush), Append(Without(lockQ, Flush), Flush)}
    BY <1>11 DEF CancelFlush, Finish
  <2> QED
    BY <1>2, <1>3, <1>6, <2>1 DEF CallersAreTold
<1> QED
  BY <1>7, <1>8, <1>9, <1>10, <1>11

LEMMA ControlsAreKept == Spec => []ControlsInv
<1>1. EntitiesInit => ControlsInv
  <2> SUFFICES ASSUME EntitiesInit PROVE ControlsInv
    OBVIOUS
  <2>1. /\ apply = [c \in Commands |-> "not called"] /\ inFlight = [x \in Controls |-> None]
        /\ writes = [x \in Controls |-> 0]
    BY DEF EntitiesInit
  <2>2. \A x : Running(x) = {}
    BY <2>1 DEF Running
  <2>3. EntitiesTypeOK
    BY <2>1 DEF EntitiesTypeOK
  <2>4. \A x \in Controls : Cardinality(Running(x)) <= writes[x]
    <3>1. \A x : Cardinality(Running(x)) = 0
      BY <2>2, FS_EmptySet
    <3>2. \A x \in Controls : writes[x] = 0
      BY <2>1
    <3> QED
      BY <3>1, <3>2
  <2> QED
    BY <2>1, <2>3, <2>4 DEF ControlsInv, NewestIsShown, ShowsTheNewest
<1>2. QueueInv /\ ControlsInv /\ [Next]_vars => ControlsInv'
  <2> SUFFICES ASSUME QueueInv, ControlsInv, [Next]_vars PROVE ControlsInv'
    OBVIOUS
  <2>1. ASSUME NEW l \in Layouts, LayoutHeard(l)
        PROVE  ControlsInv'
    BY <2>1, ControlsStand DEF LayoutHeard, queue
  <2>2. ASSUME NEW c \in Commands, Applied(c) \/ Settled(c) \/ Cancelled(c) \/ WriterGoesOn(c)
        PROVE  ControlsInv'
    BY <2>2, AppliedShowsTheNewest, SettledShowsTheNewest, CancelledShowsTheNewest,
       WriterShowsTheNewest
  <2>3. CASE Acknowledged \/ WriteIsOver \/ FlushGoesOn \/ FlushIsOver \/ FlushIsCancelled
    <3>1. /\ FlushRuns \/ FlushEnds \/ Acknowledge \/ WriteEnds \/ CancelFlush
          /\ UNCHANGED controls
      BY <2>3 DEF Acknowledged, WriteIsOver, FlushGoesOn, FlushIsOver, FlushIsCancelled
    <3> QED
      BY <3>1, FlushAndTheLock, ControlsStand
  <2>4. CASE UNCHANGED vars
    BY <2>4, ControlsStand DEF vars, queue
  <2> QED
    BY <2>1, <2>2, <2>3, <2>4 DEF Next
<1> QED
  BY <1>1, <1>2, QueueIsKept, PTL DEF Spec

\* While any command of a control is on its way, the control shows the value
\* of the newest, whichever of its commands are replaced, answered, refused or
\* given up first, and however many wait for the lock.
THEOREM NewestCommandIsShown == Spec => []ShowsTheNewest
<1>1. ControlsInv => ShowsTheNewest
  BY DEF ControlsInv, NewestIsShown
<1> QED
  BY <1>1, ControlsAreKept, PTL

----------------------------------------------------------------------------
\* The queue takes the steps async_write promises.

\* Told by the queue, told by the promise.
LEMMA AnswersFollowCalls ==
  ASSUME call \in [Commands -> Calls]
  PROVE  /\ Answers \in [Commands -> {"unasked", "open"} \cup Calls]
         /\ \A c \in Commands :
              /\ Answers[c] = "unasked" <=> call[c] \in {"unissued", "locking"}
              /\ Answers[c] = "open" <=> call[c] = "awaiting"
              /\ call[c] \notin {"unissued", "locking", "awaiting"} => Answers[c] = call[c]
  BY DEF Answers, Calls

LEMMA AnswerOfOne ==
  ASSUME NEW c \in Commands
  PROVE  /\ Answers[c] = IF call[c] \in {"unissued", "locking"} THEN "unasked"
                         ELSE IF call[c] = "awaiting" THEN "open" ELSE call[c]
         /\ Answers'[c] = IF call'[c] \in {"unissued", "locking"} THEN "unasked"
                          ELSE IF call'[c] = "awaiting" THEN "open" ELSE call'[c]
  BY DEF Answers

LEMMA SettledIsTold ==
  ASSUME QueueInv, NEW cs, NEW told \in {"ok", "failed", "stopped"}, call' = Settle(cs, told)
  PROVE  Answers' = Promise!Told(cs, told)
<1>1. call \in [Commands -> Calls] /\ call' \in [Commands -> Calls]
  BY SettleFacts DEF QueueInv, TypeOK, Calls
<1>2. ASSUME NEW c \in Commands
      PROVE  Answers'[c] = IF c \in cs /\ Answers[c] = "open" THEN told ELSE Answers[c]
  <2>1. call'[c] = IF c \in cs /\ call[c] = "awaiting" THEN told ELSE call[c]
    BY DEF Settle
  <2> QED
    BY <1>1, <2>1, AnswerOfOne DEF Calls
<1>3. Answers' = [c \in Commands |-> Answers'[c]]
  BY DEF Answers
<1> HIDE DEF Answers
<1> QED
  BY <1>2, <1>3 DEF Promise!Told

\* The promise keeps of a list what the queue keeps: one definition, seen from
\* two modules.
LEMMA SameKept == \A s, S : Promise!Kept(s, S) = Kept(s, S)
<1>1. \A T, n : Promise!Nth(T, n) = Nth(T, n)
  BY DEF Nth, Promise!Nth, Cardinality, Promise!Cardinality
<1> QED
  BY <1>1, Zenon DEF Kept, Promise!Kept, Cardinality, Promise!Cardinality

LEMMA QueueingIsAccepting ==
  ASSUME QueueInv, NEW c \in Commands, call[c] \in {"unissued", "locking"}, NEW q, Enqueue(c, q)
  PROVE  Promise!Accept(c)
<1>1. call \in [Commands -> Calls]
  BY DEF QueueInv, TypeOK
<1>2. /\ call' = [Settle(Superseded(c), "ok") EXCEPT ![c] = "awaiting"]
      /\ pending' = AppendBehind(c, Superseded(c))
      /\ StartFlush(q) /\ UNCHANGED current
  BY DEF Enqueue
<1>3. Superseded(c) = Promise!Replaced(c)
  BY DEF Superseded, Queued, InSeq, Promise!Replaced
<1>4. pending' = Append(Promise!Kept(pending, Commands \ Promise!Replaced(c)), c)
  BY <1>2, <1>3, SameKept DEF AppendBehind
<1>5. Answers' = [Promise!Told(Promise!Replaced(c), "ok") EXCEPT ![c] = "open"]
  <2> DEFINE gone == Superseded(c)
  <2>1. /\ \A d \in Commands : Answers'[d] = IF d = c THEN "open"
                                       ELSE IF d \in gone /\ Answers[d] = "open" THEN "ok"
                                       ELSE Answers[d]
        /\ Answers' = [d \in Commands |-> Answers'[d]]
    <3>1. \A d \in Commands :
            call'[d] = IF d = c THEN "awaiting"
                       ELSE IF d \in gone /\ call[d] = "awaiting" THEN "ok" ELSE call[d]
      BY <1>2 DEF Settle
    <3> HIDE DEF gone
    <3>2. \A d \in Commands : Answers'[d] = IF d = c THEN "open"
                                        ELSE IF d \in gone /\ Answers[d] = "open" THEN "ok"
                                        ELSE Answers[d]
      BY <1>1, <3>1, AnswerOfOne DEF Calls
    <3>3. Answers' = [d \in Commands |-> Answers'[d]]
      BY DEF Answers
    <3> QED
      BY <3>2, <3>3
  <2> HIDE DEF gone
  <2>2. Answers' = [Promise!Told(gone, "ok") EXCEPT ![c] = "open"]
    BY <2>1 DEF Promise!Told
  <2> QED
    BY <1>3, <2>2 DEF gone
<1>6. Answers[c] = "unasked"
  BY <1>1, AnswersFollowCalls
<1>7. Serving' = TRUE
  BY <1>2 DEF StartFlush, Serving
<1> QED
  BY <1>2, <1>4, <1>5, <1>6, <1>7, Zenon DEF Promise!Accept

\* A caller that waits for the lock, and one that gives up.
LEMMA CallersKeepThePromise ==
  ASSUME QueueInv, NEW c \in Commands, Issue(c) \/ WriterRuns(c) \/ CancelCaller(c)
  PROVE  Promise!Next \/ UNCHANGED Promise!vars
<1>1. call \in [Commands -> Calls] /\ lockQ \in Seq(Tasks)
  BY DEF QueueInv, TypeOK, Tasks
<1>2. CASE Issue(c) /\ lockQ = <<>>
  <2>1. Promise!Accept(c)
    BY <1>2, QueueingIsAccepting DEF Issue
  <2> QED
    BY <2>1 DEF Promise!Next
<1>3. CASE Issue(c) /\ lockQ # <<>>
  <2>1. call[c] = "unissued" /\ call' = [call EXCEPT ![c] = "locking"]
        /\ UNCHANGED <<pending, flush, current>>
    BY <1>3 DEF Issue
  <2>2. Answers' = Answers
    BY <1>1, <2>1 DEF Answers, Calls
  <2> QED
    BY <2>1, <2>2 DEF Promise!vars, Serving
<1>4. CASE WriterRuns(c)
  <2>1. lockQ # <<>> /\ Head(lockQ) = c /\ Enqueue(c, Tail(lockQ))
    BY <1>4 DEF WriterRuns
  <2>2. InSeq(c, lockQ)
    BY <1>1, <2>1 DEF InSeq
  <2>3. Promise!Accept(c)
    BY <2>1, <2>2, QueueingIsAccepting DEF QueueInv, TaskAndLock
  <2> QED
    BY <2>3 DEF Promise!Next
<1>5. CASE CancelCaller(c)
  <2>1. /\ call[c] \in {"locking", "awaiting"} /\ call' = [call EXCEPT ![c] = "gone"]
        /\ UNCHANGED <<pending, flush, current>>
    BY <1>5 DEF CancelCaller
  <2>2. Answers[c] \in {"unasked", "open"}
    BY <1>1, <2>1, AnswersFollowCalls
  <2>3. Answers' = [Answers EXCEPT ![c] = "gone"]
    BY <1>1, <2>1 DEF Answers
  <2>4. Serving' = Serving
    BY <2>1 DEF Serving
  <2>5. Promise!Leave(c)
    BY <2>1, <2>2, <2>3, <2>4 DEF Promise!Leave
  <2> QED
    BY <2>5 DEF Promise!Next
<1> QED
  BY <1>2, <1>3, <1>4, <1>5

\* The flush task at the top of its loop.
LEMMA TakingKeepsThePromise ==
  ASSUME QueueInv, FlushRuns
  PROVE  Promise!Next \/ UNCHANGED Promise!vars
<1>1. /\ flush = "locking" /\ LoopTop(Tail(lockQ)) /\ UNCHANGED call
      /\ current = None /\ pending \in Seq(Commands)
  BY DEF FlushRuns, QueueInv, TaskAndLock, TypeOK
<1>2. Answers' = Answers /\ Serving = TRUE
  BY <1>1 DEF Answers, Serving
<1>3. CASE pending # <<>>
  <2>1. current' = Head(pending) /\ pending' = Tail(pending) /\ flush' = "writing"
    BY <1>1, <1>3 DEF LoopTop
  <2>2. Serving' = Serving
    BY <1>1, <2>1 DEF Serving
  <2>3. Promise!Begin
    BY <1>1, <1>2, <1>3, <2>1, <2>2 DEF Promise!Begin, Promise!TakeNext
  <2> QED
    BY <2>3 DEF Promise!Next
<1>4. CASE pending = <<>>
  <2>1. /\ current' = None /\ pending' = pending
        /\ flush' \in {"none", "finishing"}
    BY <1>1, <1>4 DEF LoopTop
  <2>2. CASE flush' = "finishing"
    <3>1. Serving' = Serving
      BY <1>1, <2>2 DEF Serving
    <3> QED
      BY <1>1, <1>2, <2>1, <3>1 DEF Promise!vars
  <2>3. CASE flush' = "none"
    <3>1. Serving' = FALSE
      BY <2>3 DEF Serving
    <3>2. Answers' = Promise!Told({pending[i] : i \in 1..Len(pending)}, "stopped")
      <4>1. {pending[i] : i \in 1..Len(pending)} = {}
        BY <1>4
      <4>2. Promise!Told({}, "stopped") = [c \in Commands |-> Answers[c]]
        BY DEF Promise!Told
      <4>3. Answers = [c \in Commands |-> Answers[c]]
        BY DEF Answers
      <4> QED
        BY <1>2, <4>1, <4>2, <4>3
    <3>3. Promise!Stop
      BY <1>1, <1>2, <1>4, <2>1, <3>1, <3>2, Zenon DEF Promise!Stop
    <3> QED
      BY <3>3 DEF Promise!Next
  <2> QED
    BY <2>1, <2>2, <2>3
<1> QED
  BY <1>3, <1>4

\* The flush task while it holds a command, at its end, and cancelled.
LEMMA WritingKeepsThePromise ==
  ASSUME QueueInv, Acknowledge \/ WriteEnds
  PROVE  Promise!Next
<1>1. /\ flush \in {"writing", "acked"} /\ current \in Commands /\ current # None
      /\ call \in [Commands -> Calls] /\ Serving = TRUE
  BY CommandsAssumption DEF Acknowledge, WriteEnds, QueueInv, TaskAndLock, TypeOK, Serving
<1>2. CASE Acknowledge
  <2>1. Answers' = Promise!Told({current}, "ok")
    BY <1>2, SettledIsTold DEF Acknowledge
  <2>2. Serving' = Serving /\ UNCHANGED <<pending, current>>
    BY <1>2 DEF Acknowledge, Serving
  <2>3. Promise!Deliver
    BY <1>1, <2>1, <2>2 DEF Promise!Deliver
  <2> QED
    BY <2>3 DEF Promise!Next
<1>3. CASE WriteEnds
  <2>1. Answers' = Promise!Told({current}, "failed")
    <3>1. CASE flush = "acked" /\ UNCHANGED call
      <4>1. Answers[current] # "open"
        BY <1>1, <3>1, AnswersFollowCalls DEF QueueInv, TaskAndLock
      <4>2. Answers' = Answers /\ Answers = [c \in Commands |-> Answers[c]]
        BY <3>1 DEF Answers
      <4>3. Promise!Told({current}, "failed") = [c \in Commands |-> Answers[c]]
        BY <4>1 DEF Promise!Told
      <4> QED
        BY <4>2, <4>3
    <3>2. CASE call' = Settle({current}, "failed")
      BY <3>2, SettledIsTold
    <3> QED
      BY <1>3, <3>1, <3>2 DEF WriteEnds
  <2>2. \/ Promise!TakeNext
        \/ current' = None /\ UNCHANGED pending /\ Serving' \in {Serving, pending # <<>>}
    <3>1. CASE lockQ = <<>> /\ pending # <<>>
      <4>1. current' = Head(pending) /\ pending' = Tail(pending) /\ flush' = "writing"
        BY <1>3, <3>1 DEF WriteEnds, LoopTop
      <4>2. Serving' = Serving
        BY <1>1, <4>1 DEF Serving
      <4> QED
        BY <3>1, <4>1, <4>2 DEF Promise!TakeNext
    <3>2. CASE lockQ = <<>> /\ pending = <<>>
      <4>1. current' = None /\ UNCHANGED pending /\ flush' = "none"
        BY <1>3, <3>2 DEF WriteEnds, LoopTop
      <4>2. Serving' = FALSE
        BY <4>1 DEF Serving
      <4>3. (pending # <<>>) = FALSE
        BY <3>2
      <4> QED
        BY <4>1, <4>2, <4>3
    <3>3. CASE lockQ # <<>>
      <4>1. current' = None /\ UNCHANGED pending /\ flush' = "locking"
        BY <1>3, <3>3 DEF WriteEnds
      <4>2. Serving' = Serving
        BY <1>1, <4>1 DEF Serving
      <4> QED
        BY <4>1, <4>2
    <3> QED
      BY <3>1, <3>2, <3>3
  <2>3. Promise!End
    BY <1>1, <2>1, <2>2, Zenon DEF Promise!End
  <2> QED
    BY <2>3 DEF Promise!Next
<1> QED
  BY <1>2, <1>3

LEMMA StrandingIsStopping ==
  ASSUME QueueInv, Strand
  PROVE  /\ Answers' = Promise!Told({pending[i] : i \in 1..Len(pending)}, "stopped")
         /\ pending' = <<>>
<1>1. Queued = {pending[i] : i \in 1..Len(pending)}
  <2>1. \A i \in 1..Len(pending) : pending[i] \in Commands
    BY DEF QueueInv, TypeOK
  <2> QED
    BY <2>1 DEF Queued, InSeq
<1> QED
  BY <1>1, SettledIsTold DEF Strand

LEMMA EndingKeepsThePromise ==
  ASSUME QueueInv, FlushEnds \/ CancelFlush
  PROVE  Promise!Next
<1>1. Serving = TRUE
  BY DEF Serving, FlushEnds, CancelFlush
<1>2. CASE FlushEnds
  <2>1. current = None /\ current' = None /\ Serving' = FALSE
    BY <1>2 DEF FlushEnds, QueueInv, TaskAndLock, Serving
  <2>2. /\ Answers' = Promise!Told({pending[i] : i \in 1..Len(pending)}, "stopped")
        /\ pending' = <<>>
    BY <1>2, StrandingIsStopping DEF FlushEnds
  <2>3. Promise!Stop
    BY <1>1, <2>1, <2>2, Zenon DEF Promise!Stop
  <2> QED
    BY <2>3 DEF Promise!Next
<1>3. CASE CancelFlush
  <2>1. current' = None /\ Serving' \in BOOLEAN
    BY <1>3 DEF CancelFlush, Serving
  <2>2. CASE UNCHANGED <<call, pending>>
    <3>1. Answers' = Answers /\ UNCHANGED pending
      BY <2>2 DEF Answers
    <3>2. Promise!Abandon
      BY <1>1, <2>1, <3>1, Zenon DEF Promise!Abandon
    <3> QED
      BY <3>2 DEF Promise!Next
  <2>3. CASE Strand /\ flush' = "none"
    <3>1. Serving' = FALSE
      BY <2>3 DEF Serving
    <3>2. /\ Answers' = Promise!Told({pending[i] : i \in 1..Len(pending)}, "stopped")
          /\ pending' = <<>>
      BY <2>3, StrandingIsStopping
    <3>3. Promise!Abandon
      BY <1>1, <2>1, <3>1, <3>2, Zenon DEF Promise!Abandon
    <3> QED
      BY <3>3 DEF Promise!Next
  <2>4. UNCHANGED <<call, pending>> \/ (Strand /\ flush' = "none")
    BY <1>3 DEF CancelFlush, Finish
  <2> QED
    BY <2>2, <2>3, <2>4
<1> QED
  BY <1>2, <1>3

\* The queue keeps the promise of async_write, as far as safety goes: it takes
\* commands one at a time in the order they came, a newer value replaces a
\* queued one for the same entry, and a caller is told what became of its
\* command, with the lock, the flush task and its cancellation in between.
THEOREM TheQueueKeepsItsPromise == Spec => Promise!Safety
<1>1. EntitiesInit => Promise!Init
  <2> SUFFICES ASSUME EntitiesInit PROVE Promise!Init
    OBVIOUS
  <2>1. Init
    BY DEF EntitiesInit
  <2>2. Answers = [c \in Commands |-> "unasked"] /\ Serving = FALSE
    BY <2>1 DEF Init, Answers, Serving
  <2> QED
    BY <2>1, <2>2, Zenon DEF Init, Promise!Init
<1>2. QueueInv /\ [Next]_vars => [Promise!Next]_(Promise!vars)
  <2> SUFFICES ASSUME QueueInv, QueueNext PROVE Promise!Next \/ UNCHANGED Promise!vars
    BY StepsAreQueueSteps
  <2>1. CASE UNCHANGED queue
    BY <2>1 DEF queue, Promise!vars, Answers, Serving
  <2> QED
    BY <2>1, CallersKeepThePromise, TakingKeepsThePromise, WritingKeepsThePromise,
       EndingKeepsThePromise DEF QueueNext
<1> QED
  BY <1>1, <1>2, QueueIsKept, PTL DEF Spec, Promise!Safety
=============================================================================
