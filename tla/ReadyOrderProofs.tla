-------------------------- MODULE ReadyOrderProofs --------------------------
(***************************************************************************)
(* What the orders of ReadyOrder preserve: an insertion, a resort, an      *)
(* import or a selection rearranges processes and neither drops nor        *)
(* duplicates one; there is one such order (ArrangedOnce), and the binary  *)
(* search of the code finds it (InsertionIsStableSort).  In between, sums  *)
(* over finite sets of processes or places.                                *)
(***************************************************************************)
EXTENDS ReadyOrder, FiniteSetTheorems, SequenceTheorems, TLAPS

(* Before orders the positions I linearly. *)
LinearOn(Before, I) ==
  /\ \A i \in I : <<i, i>> \notin Before
  /\ \A i, j \in I : i # j => <<i, j>> \in Before \/ <<j, i>> \in Before
  /\ \A i, j, k \in I : <<i, j>> \in Before /\ <<j, k>> \in Before
                          => <<i, k>> \in Before

(* The number of predecessors of a position is different for each          *)
(* position, and every number below Cardinality(I) is one of them.         *)
LEMMA RankIsBijective ==
  ASSUME NEW I, IsFiniteSet(I), NEW Before, LinearOn(Before, I)
  PROVE  /\ Cardinality(I) \in Nat
         /\ \A i \in I : Cardinality(Preceding(I, Before, i)) \in 0 .. Cardinality(I) - 1
         /\ \A i, j \in I : Cardinality(Preceding(I, Before, i)) =
                            Cardinality(Preceding(I, Before, j)) => i = j
         /\ \A k \in 0 .. Cardinality(I) - 1 :
              \E i \in I : Cardinality(Preceding(I, Before, i)) = k
<1> DEFINE rank == [i \in I |-> Cardinality(Preceding(I, Before, i))]
           n == Cardinality(I)
<1>1. n \in Nat
  BY FS_CardinalityType
<1>2. ASSUME NEW i \in I
      PROVE  /\ IsFiniteSet(Preceding(I, Before, i))
             /\ rank[i] \in 0 .. n - 1
  <2>1. Preceding(I, Before, i) \in SUBSET I /\ i \notin Preceding(I, Before, i)
    BY DEF Preceding, LinearOn
  <2>2. /\ IsFiniteSet(Preceding(I, Before, i))
        /\ Cardinality(Preceding(I, Before, i)) <= n
        /\ n = Cardinality(Preceding(I, Before, i)) => I = Preceding(I, Before, i)
    BY <2>1, FS_Subset
  <2>3. Cardinality(Preceding(I, Before, i)) \in Nat
    BY <2>2, FS_CardinalityType
  <2> QED BY <1>1, <2>1, <2>2, <2>3
<1>3. ASSUME NEW i \in I, NEW j \in I, <<i, j>> \in Before
      PROVE  rank[i] < rank[j]
  <2>1. Preceding(I, Before, i) \in SUBSET Preceding(I, Before, j)
    BY <1>3 DEF Preceding, LinearOn
  <2>2. i \in Preceding(I, Before, j) /\ i \notin Preceding(I, Before, i)
    BY <1>3 DEF Preceding, LinearOn
  <2>3. /\ rank[i] <= rank[j]
        /\ rank[j] = rank[i] => Preceding(I, Before, j) = Preceding(I, Before, i)
    BY <1>2, <2>1, FS_Subset
  <2>4. rank[i] \in Nat /\ rank[j] \in Nat
    BY <1>1, <1>2
  <2> QED BY <2>2, <2>3, <2>4
<1>4. \A i, j \in I : rank[i] = rank[j] => i = j
  <2> SUFFICES ASSUME NEW i \in I, NEW j \in I, i # j PROVE rank[i] # rank[j]
    OBVIOUS
  <2>1. rank[i] \in Nat /\ rank[j] \in Nat
    BY <1>1, <1>2
  <2>2. rank[i] < rank[j] \/ rank[j] < rank[i]
    BY <1>3 DEF LinearOn
  <2> QED BY <2>1, <2>2
<1>5. rank \in Injection(I, 0 .. n - 1)
  <2>1. rank \in [I -> 0 .. n - 1]
    BY <1>2
  <2> QED BY <1>4, <2>1 DEF Injection, IsInjective
<1>6. IsFiniteSet(0 .. n - 1) /\ Cardinality(0 .. n - 1) = n
  <2>1. n - 1 \in Int /\ 0 \in Int /\ (n - 1) - 0 + 1 = n /\ (0 > n - 1 => n = 0)
    BY <1>1
  <2> HIDE DEF n
  <2> QED
    BY <2>1, FS_Interval
<1>7. rank \in Surjection(I, 0 .. n - 1)
  BY <1>5, <1>6, FS_Injection
<1>8. \A k \in 0 .. n - 1 : \E i \in I : rank[i] = k
  BY <1>7 DEF Surjection
<1> QED BY <1>1, <1>2, <1>4, <1>8

(* Ranked lists s at exactly the positions I, each once. *)
LEMMA RankedRearranges ==
  ASSUME NEW s, NEW I, IsFiniteSet(I), NEW Before, LinearOn(Before, I)
  PROVE  LET r == Ranked(s, I, Before)
         IN /\ Cardinality(I) \in Nat
            /\ r \in Seq({s[i] : i \in I})
            /\ Range(r) = {s[i] : i \in I}
            /\ (\A i, j \in I : s[i] = s[j] => i = j) => IsInjective(r)
<1> DEFINE n == Cardinality(I)
           Rank(i) == Cardinality(Preceding(I, Before, i))
           At(k) == CHOOSE i \in I : Rank(i) = k - 1
           r == Ranked(s, I, Before)
<1>1. n \in Nat
  BY FS_CardinalityType
<1>2. \A k \in 1 .. n : At(k) \in I /\ Rank(At(k)) = k - 1
  <2> SUFFICES ASSUME NEW k \in 1 .. n PROVE \E i \in I : Rank(i) = k - 1
    OBVIOUS
  <2>1. k - 1 \in 0 .. n - 1
    BY <1>1
  <2> QED BY <2>1, RankIsBijective
<1>3. r = [k \in 1 .. n |-> s[At(k)]]
  BY DEF Ranked
<1>4. r \in Seq({s[i] : i \in I})
  <2>1. \A k \in 1 .. n : s[At(k)] \in {s[i] : i \in I}
    BY <1>2
  <2>2. r \in [1 .. n -> {s[i] : i \in I}]
    BY <1>3, <2>1
  <2> QED BY <1>1, <2>2
<1>5. ASSUME NEW i \in I PROVE \E k \in 1 .. n : At(k) = i
  <2>1. Rank(i) \in 0 .. n - 1
    BY RankIsBijective
  <2>2. Rank(i) + 1 \in 1 .. n /\ (Rank(i) + 1) - 1 = Rank(i)
    BY <1>1, <2>1
  <2>3. At(Rank(i) + 1) \in I /\ Rank(At(Rank(i) + 1)) = Rank(i)
    BY <1>2, <2>2
  <2>4. At(Rank(i) + 1) = i
    BY <2>3, RankIsBijective
  <2> QED BY <2>2, <2>4
<1>6. Range(r) = {s[i] : i \in I}
  <2>1. \A x \in Range(r) : x \in {s[i] : i \in I}
    BY <1>2, <1>3 DEF Range
  <2>2. ASSUME NEW i \in I PROVE s[i] \in Range(r)
    <3>1. PICK k \in 1 .. n : At(k) = i
      BY <1>5
    <3>2. r[k] = s[i] /\ k \in DOMAIN r
      BY <1>3, <3>1
    <3> QED
      BY <3>2 DEF Range
  <2> QED BY <2>1, <2>2
<1>7. ASSUME \A i, j \in I : s[i] = s[j] => i = j
      PROVE  IsInjective(r)
  <2> SUFFICES ASSUME NEW k \in 1 .. n, NEW m \in 1 .. n, s[At(k)] = s[At(m)]
               PROVE  k = m
    BY <1>3 DEF IsInjective
  <2>1. At(k) = At(m)
    BY <1>2, <1>7
  <2>2. k - 1 = m - 1
    BY <1>2, <2>1
  <2> QED BY <1>1, <2>2
<1> QED BY <1>1, <1>4, <1>6, <1>7

(* An earlier place in the result means an earlier position in the order.  *)
LEMMA RankedInOrder ==
  ASSUME NEW s, NEW I, IsFiniteSet(I), NEW Before, LinearOn(Before, I)
  PROVE  \A k, m \in 1 .. Cardinality(I) :
           k < m => \E i, j \in I : /\ Ranked(s, I, Before)[k] = s[i]
                                    /\ Ranked(s, I, Before)[m] = s[j]
                                    /\ <<i, j>> \in Before
<1> SUFFICES ASSUME NEW k \in 1 .. Cardinality(I), NEW m \in 1 .. Cardinality(I),
                    k < m
             PROVE  \E i, j \in I : /\ Ranked(s, I, Before)[k] = s[i]
                                    /\ Ranked(s, I, Before)[m] = s[j]
                                    /\ <<i, j>> \in Before
  OBVIOUS
<1> DEFINE n == Cardinality(I)
           Rank(i) == Cardinality(Preceding(I, Before, i))
           At(q) == CHOOSE i \in I : Rank(i) = q - 1
<1>1. n \in Nat
  BY FS_CardinalityType
<1>2. \A q \in 1 .. n : At(q) \in I /\ Rank(At(q)) = q - 1
  <2> SUFFICES ASSUME NEW q \in 1 .. n PROVE \E i \in I : Rank(i) = q - 1
    OBVIOUS
  <2>1. q - 1 \in 0 .. n - 1
    BY <1>1
  <2> QED BY <2>1, RankIsBijective
<1>3. /\ Ranked(s, I, Before)[k] = s[At(k)]
      /\ Ranked(s, I, Before)[m] = s[At(m)]
  BY DEF Ranked
<1>4. At(k) # At(m)
  BY <1>1, <1>2
<1>5. <<At(m), At(k)>> \notin Before
  <2> SUFFICES ASSUME <<At(m), At(k)>> \in Before PROVE FALSE
    OBVIOUS
  <2>1. Preceding(I, Before, At(m)) \in SUBSET Preceding(I, Before, At(k))
    BY <1>2 DEF Preceding, LinearOn
  <2>2. Preceding(I, Before, At(k)) \in SUBSET I
    BY DEF Preceding
  <2>3. Rank(At(m)) <= Rank(At(k))
    BY <2>1, <2>2, FS_Subset
  <2> QED BY <1>1, <1>2, <2>3
<1> QED BY <1>2, <1>3, <1>4, <1>5 DEF LinearOn
-----------------------------------------------------------------------------
(* A comparator that std::lower_bound accepts. *)
StrictWeakOrder(Less) ==
  /\ \A p \in PID : <<p, p>> \notin Less
  /\ \A p, q, r \in PID : <<p, q>> \in Less /\ <<q, r>> \in Less => <<p, r>> \in Less
  /\ \A p, q, r \in PID : <<p, r>> \in Less => <<p, q>> \in Less \/ <<q, r>> \in Less

(* cmp_priority is one. *)
LEMMA PriorityLessIsWeakOrder ==
  ASSUME NEW tbl \in [PID -> PCB]
  PROVE  StrictWeakOrder(PriorityLess(tbl))
<1>1. \A p \in PID : tbl[p].priority \in Int /\ tbl[p].arrival \in Int
  BY DEF PCB, Tick
<1>2. \A p, q \in PID :
        <<p, q>> \in PriorityLess(tbl) <=>
          \/ tbl[p].priority < tbl[q].priority
          \/ tbl[p].priority = tbl[q].priority /\ tbl[p].arrival < tbl[q].arrival
  BY DEF PriorityLess
<1> QED BY <1>1, <1>2 DEF StrictWeakOrder

(* So is cmp_sjf. *)
LEMMA ShorterLessIsWeakOrder ==
  ASSUME NEW tbl \in [PID -> PCB]
  PROVE  StrictWeakOrder(ShorterLess(tbl))
<1>1. \A p \in PID : tbl[p].remaining \in Int /\ tbl[p].arrival \in Int
  BY DEF PCB, Tick
<1>2. \A p, q \in PID :
        <<p, q>> \in ShorterLess(tbl) <=>
          \/ tbl[p].remaining < tbl[q].remaining
          \/ tbl[p].remaining = tbl[q].remaining /\ tbl[p].arrival < tbl[q].arrival
  BY DEF ShorterLess
<1> QED BY <1>1, <1>2 DEF StrictWeakOrder

(* The positions of a sequence ordered by a comparator, then by position,  *)
(* are ordered linearly.                                                   *)
LEMMA SortedBeforeIsLinear ==
  ASSUME NEW s \in Seq(PID), NEW Less, StrictWeakOrder(Less)
  PROVE  LinearOn(SortedBefore(s, Less), DOMAIN s)
<1>1. \A i \in DOMAIN s : s[i] \in PID /\ i \in Int
  <2>1. DOMAIN s = 1 .. Len(s) /\ Len(s) \in Nat
    BY LenProperties
  <2>2. \A i \in 1 .. Len(s) : s[i] \in PID
    BY ElementOfSeq
  <2>3. \A i \in 1 .. Len(s) : i \in Int
    BY <2>1
  <2> QED BY <2>1, <2>2, <2>3
<1>2. \A i, j \in DOMAIN s :
        <<i, j>> \in SortedBefore(s, Less) <=>
          <<s[i], s[j]>> \in Less \/ (<<s[j], s[i]>> \notin Less /\ i < j)
  BY DEF SortedBefore
<1>3. ASSUME NEW i \in DOMAIN s PROVE <<i, i>> \notin SortedBefore(s, Less)
  <2>1. <<s[i], s[i]>> \notin Less
    BY <1>1 DEF StrictWeakOrder
  <2>2. ~(i < i)
    BY <1>1
  <2> QED BY <1>2, <2>1, <2>2
<1>4. ASSUME NEW i \in DOMAIN s, NEW j \in DOMAIN s, i # j
      PROVE  \/ <<i, j>> \in SortedBefore(s, Less)
             \/ <<j, i>> \in SortedBefore(s, Less)
  <2>1. i < j \/ j < i
    BY <1>1, <1>4
  <2> QED BY <1>2, <2>1
<1>5. ASSUME NEW i \in DOMAIN s, NEW j \in DOMAIN s, NEW k \in DOMAIN s,
             <<i, j>> \in SortedBefore(s, Less), <<j, k>> \in SortedBefore(s, Less)
      PROVE  <<i, k>> \in SortedBefore(s, Less)
  <2>1. \/ <<s[i], s[j]>> \in Less
        \/ <<s[j], s[i]>> \notin Less /\ i < j
    BY <1>2, <1>5
  <2>2. \/ <<s[j], s[k]>> \in Less
        \/ <<s[k], s[j]>> \notin Less /\ j < k
    BY <1>2, <1>5
  <2>3. s[i] \in PID /\ s[j] \in PID /\ s[k] \in PID
    BY <1>1
  <2>4. i < j /\ j < k => i < k
    BY <1>1
  <2>5. \/ <<s[i], s[k]>> \in Less
        \/ <<s[k], s[i]>> \notin Less /\ i < k
    BY <2>1, <2>2, <2>3, <2>4 DEF StrictWeakOrder
  <2> QED BY <1>2, <2>5
<1> QED BY <1>3, <1>4, <1>5 DEF LinearOn

(* The domain of a sequence is finite and its elements are its range. *)
LEMMA SeqFacts ==
  ASSUME NEW s \in Seq(PID)
  PROVE  /\ IsFiniteSet(DOMAIN s) /\ Cardinality(DOMAIN s) = Len(s)
         /\ DOMAIN s = 1 .. Len(s) /\ Len(s) \in Nat
         /\ Range(s) = {s[i] : i \in DOMAIN s} /\ Range(s) \subseteq PID
<1>1. DOMAIN s = 1 .. Len(s) /\ Len(s) \in Nat
  BY LenProperties
<1>2. IsFiniteSet(1 .. Len(s)) /\ Cardinality(1 .. Len(s)) = Len(s)
  BY <1>1, FS_Interval
<1>3. Range(s) = {s[i] : i \in DOMAIN s} /\ Range(s) \subseteq PID
  BY <1>1, ElementOfSeq DEF Range
<1> QED BY <1>1, <1>2, <1>3

(* A stable sort permutes its argument, *)
LEMMA StableSortRearranges ==
  ASSUME NEW s \in Seq(PID), NEW Less, StrictWeakOrder(Less)
  PROVE  /\ StableSort(s, Less) \in Seq(PID)
         /\ Range(StableSort(s, Less)) = Range(s)
         /\ IsInjective(s) => IsInjective(StableSort(s, Less))
<1>1. LinearOn(SortedBefore(s, Less), DOMAIN s) /\ IsFiniteSet(DOMAIN s)
  BY SortedBeforeIsLinear, SeqFacts
<1>2. /\ StableSort(s, Less) \in Seq({s[i] : i \in DOMAIN s})
      /\ Range(StableSort(s, Less)) = {s[i] : i \in DOMAIN s}
      /\ IsInjective(s) => IsInjective(StableSort(s, Less))
  BY <1>1, RankedRearranges DEF StableSort, IsInjective
<1>3. {s[i] : i \in DOMAIN s} = Range(s) /\ Range(s) \subseteq PID
  BY SeqFacts
<1> QED BY <1>2, <1>3, SeqMonotonic

(* and its result is arranged by the comparator, equals as they were; *)
Ahead(s, Less, x, y) ==
  \E i, j \in DOMAIN s : x = s[i] /\ y = s[j] /\ <<i, j>> \in SortedBefore(s, Less)
Arranged(r, s, Less) ==
  \A k, m \in DOMAIN r : k < m => Ahead(s, Less, r[k], r[m])
LEMMA StableSortArranges ==
  ASSUME NEW s \in Seq(PID), NEW Less, StrictWeakOrder(Less)
  PROVE  Arranged(StableSort(s, Less), s, Less)
<1> DEFINE I == DOMAIN s
           B == SortedBefore(s, Less)
           r == StableSort(s, Less)
<1>1. LinearOn(B, I) /\ IsFiniteSet(I)
  BY SortedBeforeIsLinear, SeqFacts
<1>2. r = Ranked(s, I, B)
  BY DEF StableSort
<1>3. DOMAIN Ranked(s, I, B) = 1 .. Cardinality(I)
  BY DEF Ranked
<1>4. \A k, m \in DOMAIN r : k < m => Ahead(s, Less, r[k], r[m])
  <2> HIDE DEF r, I, B
  <2>1. \A k, m \in 1 .. Cardinality(I) :
          k < m => \E i, j \in I : /\ Ranked(s, I, B)[k] = s[i]
                                   /\ Ranked(s, I, B)[m] = s[j]
                                   /\ <<i, j>> \in B
    BY <1>1, RankedInOrder
  <2>2. ASSUME NEW k \in DOMAIN r, NEW m \in DOMAIN r, k < m
        PROVE  \E i, j \in I : r[k] = s[i] /\ r[m] = s[j] /\ <<i, j>> \in B
    <3>1. k \in 1 .. Cardinality(I) /\ m \in 1 .. Cardinality(I)
      BY <1>2, <1>3
    <3>2. \E i, j \in I : /\ Ranked(s, I, B)[k] = s[i]
                          /\ Ranked(s, I, B)[m] = s[j]
                          /\ <<i, j>> \in B
      BY <2>1, <2>2, <3>1
    <3> QED BY <1>2, <3>2
  <2> QED
    BY <2>2 DEF Ahead, I, B
<1> QED
  BY <1>4 DEF Arranged

(* in particular it is sorted. *)
LEMMA StableSortSorts ==
  ASSUME NEW s \in Seq(PID), NEW Less, StrictWeakOrder(Less)
  PROVE  SortedBy(StableSort(s, Less), Less)
<1> DEFINE r == StableSort(s, Less)
<1>1. ASSUME NEW k \in DOMAIN r, NEW m \in DOMAIN r, k < m
      PROVE  <<r[m], r[k]>> \notin Less
  <2>1. PICK i \in DOMAIN s, j \in DOMAIN s :
          r[k] = s[i] /\ r[m] = s[j] /\ <<i, j>> \in SortedBefore(s, Less)
    <3>1. Arranged(r, s, Less)
      BY StableSortArranges
    <3> HIDE DEF r
    <3>2. Ahead(s, Less, r[k], r[m])
      BY <1>1, <3>1 DEF Arranged
    <3> QED BY <3>2 DEF Ahead
  <2>2. s[i] \in PID /\ s[j] \in PID
    BY SeqFacts, ElementOfSeq
  <2>3. \/ <<s[i], s[j]>> \in Less
        \/ <<s[j], s[i]>> \notin Less
    BY <2>1 DEF SortedBefore
  <2> QED BY <2>1, <2>2, <2>3 DEF StrictWeakOrder
<1> QED BY <1>1 DEF SortedBy
-----------------------------------------------------------------------------
(* A queue of processes without duplicates whose elements are the set S.   *)
Lists(q, S) == q \in Seq(PID) /\ IsInjective(q) /\ Range(q) = S

(* Such a queue is as long as the set is large. *)
LEMMA ListLength ==
  ASSUME NEW q, NEW S, Lists(q, S)
  PROVE  IsFiniteSet(S) /\ Len(q) = Cardinality(S) /\ Len(q) \in Nat
<1>1. q \in Seq(PID) /\ IsInjective(q) /\ Range(q) = S
  BY DEF Lists
<1>2. /\ IsFiniteSet(DOMAIN q) /\ Cardinality(DOMAIN q) = Len(q) /\ Len(q) \in Nat
      /\ DOMAIN q = 1 .. Len(q) /\ q \in [1 .. Len(q) -> PID]
  BY <1>1, SeqFacts, LenProperties
<1>3. q \in Bijection(DOMAIN q, S)
  BY <1>1, <1>2 DEF Bijection, Injection, Surjection, IsInjective, Range
<1>4. ExistsBijection(DOMAIN q, S)
  BY <1>3 DEF ExistsBijection
<1> QED BY <1>2, <1>4, FS_Bijection

(* push_back on a FIFO queue. *)
LEMMA AppendLists ==
  ASSUME NEW q, NEW S, Lists(q, S), NEW p \in PID, p \notin S
  PROVE  Lists(Append(q, p), S \cup {p})
<1>1. q \in Seq(PID) /\ IsInjective(q) /\ Range(q) = S
  BY DEF Lists
<1>2. DOMAIN q = 1 .. Len(q) /\ Len(q) \in Nat
  BY <1>1, LenProperties
<1> DEFINE r == Append(q, p)
<1>3. /\ r \in Seq(PID) /\ Len(r) = Len(q) + 1
      /\ \A i \in 1 .. Len(q) : r[i] = q[i]
      /\ r[Len(q) + 1] = p
  BY <1>1, AppendProperties
<1>4. DOMAIN r = 1 .. Len(q) + 1
  BY <1>3, LenProperties
<1> HIDE DEF r
<1>5. \A i \in 1 .. Len(q) : r[i] \in S /\ r[i] # p
  BY <1>1, <1>2, <1>3 DEF Range
<1>6. IsInjective(r)
  <2> SUFFICES ASSUME NEW i \in 1 .. Len(q) + 1, NEW j \in 1 .. Len(q) + 1,
                      r[i] = r[j]
               PROVE  i = j
    BY <1>4 DEF IsInjective
  <2>1. CASE i \in 1 .. Len(q) /\ j \in 1 .. Len(q)
    BY <1>1, <1>2, <1>3, <2>1 DEF IsInjective
  <2>2. CASE i = Len(q) + 1 \/ j = Len(q) + 1
    BY <1>2, <1>3, <1>5, <2>2
  <2> QED BY <1>2, <2>1, <2>2
<1>7. Range(r) = S \cup {p}
  <2>1. \A x \in Range(r) : x \in S \cup {p}
    BY <1>2, <1>3, <1>4, <1>5 DEF Range
  <2>2. \A x \in S : x \in Range(r)
    <3> SUFFICES ASSUME NEW x \in S PROVE x \in Range(r)
      OBVIOUS
    <3>1. PICK i \in 1 .. Len(q) : q[i] = x
      BY <1>1, <1>2 DEF Range
    <3> QED BY <1>2, <1>3, <1>4, <3>1 DEF Range
  <2>3. p \in Range(r)
    BY <1>2, <1>3, <1>4 DEF Range
  <2> QED BY <2>1, <2>2, <2>3
<1> QED BY <1>3, <1>6, <1>7 DEF Lists, r

(* pop_front. *)
LEMMA TailLists ==
  ASSUME NEW q, NEW S, Lists(q, S), q # <<>>
  PROVE  Head(q) \in S /\ Lists(Tail(q), S \ {Head(q)})
<1>1. q \in Seq(PID) /\ IsInjective(q) /\ Range(q) = S
  BY DEF Lists
<1>2. DOMAIN q = 1 .. Len(q) /\ Len(q) \in Nat \ {0}
  BY <1>1, LenProperties, EmptySeq
<1> DEFINE r == Tail(q)
<1>3. /\ r \in Seq(PID) /\ Len(r) = Len(q) - 1
      /\ \A i \in 1 .. Len(r) : r[i] = q[i + 1]
  BY <1>1, HeadTailProperties
<1>4. DOMAIN r = 1 .. Len(q) - 1
  BY <1>3, LenProperties
<1>5. Head(q) = q[1]
  BY <1>1
<1> HIDE DEF r
<1>6. Head(q) \in S
  BY <1>1, <1>2, <1>5 DEF Range
<1>7. IsInjective(r)
  <2> SUFFICES ASSUME NEW i \in 1 .. Len(q) - 1, NEW j \in 1 .. Len(q) - 1,
                      r[i] = r[j]
               PROVE  i = j
    BY <1>4 DEF IsInjective
  <2>1. i + 1 \in DOMAIN q /\ j + 1 \in DOMAIN q /\ q[i + 1] = q[j + 1]
    BY <1>2, <1>3
  <2>2. i + 1 = j + 1
    BY <1>1, <2>1 DEF IsInjective
  <2> QED BY <1>2, <2>2
<1>8. Range(r) = S \ {Head(q)}
  <2>1. ASSUME NEW i \in 1 .. Len(q) - 1 PROVE r[i] \in S \ {Head(q)}
    <3>1. i + 1 \in DOMAIN q /\ 1 \in DOMAIN q /\ i + 1 # 1
      BY <1>2
    <3>2. r[i] = q[i + 1]
      BY <1>3
    <3> QED BY <1>1, <1>5, <3>1, <3>2 DEF Range, IsInjective
  <2>2. ASSUME NEW x \in S \ {Head(q)} PROVE x \in Range(r)
    <3>1. PICK i \in 1 .. Len(q) : q[i] = x
      BY <1>1, <1>2 DEF Range
    <3>2. i - 1 \in 1 .. Len(q) - 1
      BY <1>2, <1>5, <3>1
    <3>3. r[i - 1] = x
      BY <1>2, <1>3, <3>1, <3>2
    <3> QED BY <1>4, <3>2, <3>3 DEF Range
  <2> QED BY <1>4, <2>1, <2>2 DEF Range
<1> QED BY <1>3, <1>6, <1>7, <1>8 DEF Lists, r

(* Appending a drained queue to one that has none of its processes. *)
LEMMA ConcatLists ==
  ASSUME NEW q, NEW S, Lists(q, S), NEW r, NEW T, Lists(r, T), S \cap T = {}
  PROVE  Lists(q \o r, S \cup T)
<1>1. /\ q \in Seq(PID) /\ IsInjective(q) /\ Range(q) = S
      /\ r \in Seq(PID) /\ IsInjective(r) /\ Range(r) = T
  BY DEF Lists
<1>2. /\ DOMAIN q = 1 .. Len(q) /\ Len(q) \in Nat
      /\ DOMAIN r = 1 .. Len(r) /\ Len(r) \in Nat
  BY <1>1, LenProperties
<1> DEFINE c == q \o r
<1>3. /\ c \in Seq(PID) /\ Len(c) = Len(q) + Len(r)
      /\ \A i \in 1 .. Len(q) + Len(r) :
           c[i] = IF i <= Len(q) THEN q[i] ELSE r[i - Len(q)]
  BY <1>1, ConcatProperties
<1>4. DOMAIN c = 1 .. Len(q) + Len(r)
  BY <1>3, LenProperties
<1>5. Range(c) = S \cup T
  BY <1>1, RangeConcatenation
<1> HIDE DEF c
<1>6. IsInjective(c)
  <2> SUFFICES ASSUME NEW i \in 1 .. Len(q) + Len(r), NEW j \in 1 .. Len(q) + Len(r),
                      c[i] = c[j]
               PROVE  i = j
    BY <1>4 DEF IsInjective
  <2>1. ASSUME NEW k \in 1 .. Len(q) + Len(r), k <= Len(q)
        PROVE  k \in DOMAIN q /\ c[k] = q[k] /\ c[k] \in S
    BY <1>1, <1>2, <1>3, <2>1 DEF Range
  <2>2. ASSUME NEW k \in 1 .. Len(q) + Len(r), ~(k <= Len(q))
        PROVE  k - Len(q) \in DOMAIN r /\ c[k] = r[k - Len(q)] /\ c[k] \in T
    <3>1. k - Len(q) \in DOMAIN r
      BY <1>2, <2>2
    <3>2. c[k] = r[k - Len(q)]
      BY <1>3, <2>2
    <3> QED BY <1>1, <3>1, <3>2 DEF Range
  <2>3. CASE i <= Len(q) /\ j <= Len(q)
    BY <1>1, <2>1, <2>3 DEF IsInjective
  <2>4. CASE ~(i <= Len(q)) /\ ~(j <= Len(q))
    <3>1. i - Len(q) = j - Len(q)
      BY <1>1, <2>2, <2>4 DEF IsInjective
    <3> QED BY <1>2, <3>1
  <2>5. CASE i <= Len(q) /\ ~(j <= Len(q))
    BY <2>1, <2>2, <2>5
  <2>6. CASE ~(i <= Len(q)) /\ j <= Len(q)
    BY <2>1, <2>2, <2>6
  <2> QED BY <2>3, <2>4, <2>5, <2>6
<1> QED BY <1>3, <1>5, <1>6 DEF Lists, c

LEMMA ReverseLists ==
  ASSUME NEW q, NEW S, Lists(q, S)
  PROVE  Lists(Reverse(q), S)
<1>1. q \in Seq(PID) /\ IsInjective(q) /\ Range(q) = S
  BY DEF Lists
<1>2. DOMAIN q = 1 .. Len(q) /\ Len(q) \in Nat
  BY <1>1, LenProperties
<1> DEFINE n == Len(q)
           r == Reverse(q)
<1>3. r = [i \in 1 .. n |-> q[(n - i) + 1]]
  BY DEF Reverse
<1>4. \A i \in 1 .. n : (n - i) + 1 \in DOMAIN q
  BY <1>2
<1>5. \A i \in 1 .. n : q[(n - i) + 1] \in S /\ q[(n - i) + 1] \in PID
  BY <1>1, <1>2, <1>4, ElementOfSeq DEF Range
<1>6. r \in Seq(PID)
  BY <1>2, <1>3, <1>5
<1>7. IsInjective(r)
  <2> SUFFICES ASSUME NEW i \in 1 .. n, NEW j \in 1 .. n,
                      q[(n - i) + 1] = q[(n - j) + 1]
               PROVE  i = j
    BY <1>3 DEF IsInjective
  <2>1. (n - i) + 1 = (n - j) + 1
    BY <1>1, <1>4 DEF IsInjective
  <2> QED BY <1>2, <2>1
<1>8. Range(r) = S
  <2>1. \A x \in Range(r) : x \in S
    BY <1>3, <1>5 DEF Range
  <2>2. ASSUME NEW x \in S PROVE x \in Range(r)
    <3>1. PICK i \in 1 .. n : q[i] = x
      BY <1>1, <1>2 DEF Range
    <3>2. (n - i) + 1 \in 1 .. n /\ (n - ((n - i) + 1)) + 1 = i
      BY <1>2
    <3>3. r[(n - i) + 1] = x
      BY <1>3, <3>1, <3>2
    <3> QED BY <1>3, <3>2, <3>3 DEF Range
  <2> QED BY <2>1, <2>2
<1> QED BY <1>6, <1>7, <1>8 DEF Lists
-----------------------------------------------------------------------------
(* push, resort and import_queue on a sorted queue: nothing is lost or     *)
(* duplicated,                                                             *)
LEMMA InsertAllLists ==
  ASSUME NEW E, NEW S, Lists(E, S), NEW D, NEW T, Lists(D, T), S \cap T = {},
         NEW Less, StrictWeakOrder(Less)
  PROVE  Lists(InsertAll(E, D, Less), T \cup S)
<1>1. Lists(Reverse(D) \o E, T \cup S)
  BY ReverseLists, ConcatLists
<1> QED BY <1>1, StableSortRearranges DEF Lists, InsertAll

(* and the queue is sorted again. *)
LEMMA InsertAllSorts ==
  ASSUME NEW E, NEW S, Lists(E, S), NEW D, NEW T, Lists(D, T), S \cap T = {},
         NEW Less, StrictWeakOrder(Less)
  PROVE  SortedBy(InsertAll(E, D, Less), Less)
<1>1. Lists(Reverse(D) \o E, T \cup S)
  BY ReverseLists, ConcatLists
<1> QED BY <1>1, StableSortSorts DEF Lists, InsertAll

LEMMA EmptyLists == Lists(<<>>, {})
<1>1. <<>> \in Seq(PID) /\ DOMAIN <<>> = {}
  BY EmptySeq, LenProperties
<1> QED BY <1>1 DEF Lists, IsInjective, Range

LEMMA SingletonLists ==
  ASSUME NEW p \in PID
  PROVE  Lists(<<p>>, {p})
<1>1. Lists(Append(<<>>, p), {} \cup {p})
  BY EmptyLists, AppendLists
<1>2. Append(<<>>, p) = <<p>>
  OBVIOUS
<1> QED BY <1>1, <1>2

(* Selecting keeps exactly the selected processes, *)
LEMMA SelectInLists ==
  ASSUME NEW q, NEW S, Lists(q, S), NEW T
  PROVE  Lists(SelectIn(q, T), S \cap T)
<1>1. q \in Seq(PID) /\ IsInjective(q) /\ Range(q) = S
  BY DEF Lists
<1> DEFINE I == {i \in DOMAIN q : q[i] \in T}
           B == PositionBefore(q)
<1>2. DOMAIN q = 1 .. Len(q) /\ Len(q) \in Nat /\ IsFiniteSet(DOMAIN q)
  BY <1>1, SeqFacts
<1>3. IsFiniteSet(I)
  BY <1>2, FS_Subset
<1>4. LinearOn(B, I)
  <2>1. \A i \in I : i \in DOMAIN q /\ i \in Int
    BY <1>2
  <2>2. \A i, j \in DOMAIN q : <<i, j>> \in B <=> i < j
    BY DEF PositionBefore
  <2> QED BY <2>1, <2>2 DEF LinearOn
<1>5. \A i, j \in I : q[i] = q[j] => i = j
  BY <1>1 DEF IsInjective
<1>6. {q[i] : i \in I} = S \cap T
  BY <1>1 DEF Range
<1>7. SelectIn(q, T) = Ranked(q, I, B)
  BY DEF SelectIn
<1> HIDE DEF I, B
<1>8. /\ Ranked(q, I, B) \in Seq(S \cap T)
      /\ Range(Ranked(q, I, B)) = S \cap T
      /\ IsInjective(Ranked(q, I, B))
  BY <1>3, <1>4, <1>5, <1>6, RankedRearranges
<1>9. S \cap T \subseteq PID
  BY <1>1, SeqFacts
<1> QED BY <1>7, <1>8, <1>9, SeqMonotonic DEF Lists

(* in the order they had. *)
LEMMA SelectInOrder ==
  ASSUME NEW q \in Seq(PID), NEW T
  PROVE  \A k, m \in DOMAIN SelectIn(q, T) :
           k < m => \E i, j \in DOMAIN q : /\ i < j /\ SelectIn(q, T)[k] = q[i]
                                          /\ SelectIn(q, T)[m] = q[j]
<1> DEFINE I == {i \in DOMAIN q : q[i] \in T}
           B == PositionBefore(q)
<1>1. DOMAIN q = 1 .. Len(q) /\ Len(q) \in Nat /\ IsFiniteSet(DOMAIN q)
  BY SeqFacts
<1>2. IsFiniteSet(I)
  BY <1>1, FS_Subset
<1>3. \A i, j \in DOMAIN q : <<i, j>> \in B <=> i < j
  BY DEF PositionBefore
<1>4. LinearOn(B, I)
  <2>1. \A i \in I : i \in DOMAIN q /\ i \in Int
    BY <1>1
  <2> QED BY <1>3, <2>1 DEF LinearOn
<1>5. I \subseteq DOMAIN q
  OBVIOUS
<1>6. SelectIn(q, T) = Ranked(q, I, B)
  BY DEF SelectIn
<1>7. DOMAIN Ranked(q, I, B) = 1 .. Cardinality(I)
  BY DEF Ranked
<1>8. \A i, j \in I : <<i, j>> \in B => i \in DOMAIN q /\ j \in DOMAIN q /\ i < j
  BY <1>3
<1> DEFINE n == Cardinality(I)
           r == Ranked(q, I, B)
<1> HIDE DEF I, B
<1>9. n \in Nat
  BY <1>2, FS_CardinalityType
<1>10. \A k, m \in 1 .. Cardinality(I) :
          k < m => \E i, j \in I : /\ Ranked(q, I, B)[k] = q[i]
                                   /\ Ranked(q, I, B)[m] = q[j]
                                   /\ <<i, j>> \in B
  <2> HIDE DEF n, r
  <2> QED
    BY <1>2, <1>4, RankedInOrder
<1>11. \A k, m \in 1 .. n : k < m => \E i, j \in DOMAIN q : i < j /\ r[k] = q[i] /\ r[m] = q[j]
  <2> SUFFICES ASSUME NEW k \in 1 .. n, NEW m \in 1 .. n, k < m
               PROVE  \E i, j \in DOMAIN q : i < j /\ r[k] = q[i] /\ r[m] = q[j]
    OBVIOUS
  <2>1. \E i, j \in I : r[k] = q[i] /\ r[m] = q[j] /\ <<i, j>> \in B
    BY <1>10, ZenonT(30)
  <2> QED BY <1>8, <2>1
<1> QED BY <1>6, <1>7, <1>11
-----------------------------------------------------------------------------
(* A sorted queue that loses its front, some others or all is sorted. *)
LEMMA AheadIsStrict ==
  ASSUME NEW s \in Seq(PID), IsInjective(s), NEW Less, StrictWeakOrder(Less), NEW x, NEW y
  PROVE  ~(Ahead(s, Less, x, y) /\ Ahead(s, Less, y, x))
<1>1. LinearOn(SortedBefore(s, Less), DOMAIN s)
  BY SortedBeforeIsLinear
<1>2. SUFFICES ASSUME Ahead(s, Less, x, y), Ahead(s, Less, y, x) PROVE FALSE
  OBVIOUS
<1>3. PICK i \in DOMAIN s, j \in DOMAIN s :
        x = s[i] /\ y = s[j] /\ <<i, j>> \in SortedBefore(s, Less)
  BY <1>2 DEF Ahead
<1>4. <<j, i>> \in SortedBefore(s, Less)
  BY <1>2, <1>3 DEF Ahead, IsInjective
<1> QED
  BY <1>1, <1>3, <1>4 DEF LinearOn

(* A process has as many others in front of it as the order says, *)
LEMMA ArrangedPosition ==
  ASSUME NEW s \in Seq(PID), IsInjective(s), NEW Less, StrictWeakOrder(Less),
         NEW q, NEW S, Lists(q, S), Arranged(q, s, Less), NEW k \in DOMAIN q
  PROVE  Cardinality({y \in S : Ahead(s, Less, y, q[k])}) = k - 1
<1> DEFINE P == {y \in S : Ahead(s, Less, y, q[k])}
           front == [i \in 1 .. k - 1 |-> q[i]]
<1>1. /\ q \in Seq(PID) /\ IsInjective(q) /\ S = {q[i] : i \in DOMAIN q}
      /\ DOMAIN q = 1 .. Len(q) /\ Len(q) \in Nat /\ k \in 1 .. Len(q)
  BY SeqFacts DEF Lists
<1>2. \A i \in 1 .. k - 1 : i \in DOMAIN q /\ i < k /\ q[i] \in P
  BY <1>1 DEF Arranged
<1>3. \A y \in P : \E i \in 1 .. k - 1 : y = q[i]
  <2> SUFFICES ASSUME NEW y \in P PROVE \E i \in 1 .. k - 1 : y = q[i]
    OBVIOUS
  <2>1. PICK i \in DOMAIN q : y = q[i]
    BY <1>1
  <2>2. ~Ahead(s, Less, q[k], y) /\ y # q[k]
    BY AheadIsStrict
  <2>3. ~(k < i) /\ k # i
    BY <2>1, <2>2 DEF Arranged
  <2> QED
    BY <1>1, <2>1, <2>3
<1>4. front \in Bijection(1 .. k - 1, P)
  <2> HIDE DEF P
  <2>1. front \in [1 .. k - 1 -> P]
    BY <1>2
  <2>2. IsInjective(front)
    BY <1>1, <1>2 DEF IsInjective
  <2>3. \A y \in P : \E i \in 1 .. k - 1 : front[i] = y
    BY <1>3
  <2> QED
    BY <2>1, <2>2, <2>3 DEF Bijection, Injection, Surjection
<1>5. ExistsBijection(1 .. k - 1, P)
  BY <1>4 DEF ExistsBijection
<1>6. k - 1 \in Nat
  BY <1>1
<1>7. IsFiniteSet(1 .. k - 1) /\ Cardinality(1 .. k - 1) = k - 1
  BY <1>6, FS_Interval
<1> QED
  BY <1>5, <1>7, FS_Bijection

(* so that there is one arrangement. *)
LEMMA ArrangedOnce ==
  ASSUME NEW s \in Seq(PID), IsInjective(s), NEW Less, StrictWeakOrder(Less), NEW S,
         NEW q, Lists(q, S), Arranged(q, s, Less),
         NEW r, Lists(r, S), Arranged(r, s, Less)
  PROVE  q = r
<1>1. Len(q) = Len(r) /\ q \in Seq(PID) /\ r \in Seq(PID)
  BY ListLength DEF Lists
<1>2. DOMAIN q = 1 .. Len(q) /\ DOMAIN r = 1 .. Len(q) /\ Range(q) = Range(r)
  BY <1>1, SeqFacts DEF Lists
<1>3. ASSUME NEW k \in DOMAIN q PROVE q[k] = r[k]
  <2>1. PICK m \in DOMAIN r : q[k] = r[m]
    BY <1>2 DEF Range
  <2>2. /\ Cardinality({y \in S : Ahead(s, Less, y, q[k])}) = k - 1
        /\ Cardinality({y \in S : Ahead(s, Less, y, r[m])}) = m - 1
    <3> DEFINE Place(x) == Cardinality({y \in S : Ahead(s, Less, y, x)})
    <3>1. Place(q[k]) = k - 1
      BY ArrangedPosition
    <3>2. Place(r[m]) = m - 1
      BY <2>1, ArrangedPosition
    <3> QED BY <3>1, <3>2
  <2>3. k \in Int /\ m \in Int
    BY <1>1, <1>2, LenProperties
  <2>4. k = m
    BY <2>1, <2>2, <2>3
  <2> QED
    BY <2>1, <2>4
<1> QED
  BY <1>1, <1>2, <1>3, SeqEqual

LEMMA TailSorted ==
  ASSUME NEW s \in Seq(PID), s # <<>>, NEW Less, SortedBy(s, Less)
  PROVE  SortedBy(Tail(s), Less)
<1>1. Len(s) \in Nat \ {0} /\ DOMAIN s = 1 .. Len(s)
  BY LenProperties, EmptySeq
<1>2. /\ Tail(s) \in Seq(PID) /\ Len(Tail(s)) = Len(s) - 1
      /\ \A i \in 1 .. Len(Tail(s)) : Tail(s)[i] = s[i + 1]
  BY HeadTailProperties
<1>3. DOMAIN Tail(s) = 1 .. Len(s) - 1
  BY <1>2, LenProperties
<1> QED
  BY <1>1, <1>2, <1>3 DEF SortedBy

LEMMA SelectInSorted ==
  ASSUME NEW s \in Seq(PID), NEW T, NEW Less, SortedBy(s, Less)
  PROVE  SortedBy(SelectIn(s, T), Less)
BY SelectInOrder DEF SortedBy

LEMMA EmptySorted == ASSUME NEW Less PROVE SortedBy(<<>>, Less)
BY EmptyLists, EmptySeq, LenProperties DEF SortedBy
-----------------------------------------------------------------------------
(* Sums over finite sets, for the modules that count.                      *)
(* What holds of 0 and, with a number, of the next one, holds of all. *)
LEMMA NatSetInduction ==
  ASSUME NEW T, 0 \in T, \A n \in Nat : n \in T => n + 1 \in T
  PROVE  \A n \in Nat : n \in T
<1> DEFINE B == {n \in Nat : n \notin T}
<1>1. SUFFICES ASSUME B # {} PROVE FALSE
  OBVIOUS
<1>2. \E x \in B : \A y \in B : ~ (<<y, x>> \in OpToRel(<, Nat))
  <2>1. B \subseteq Nat
    OBVIOUS
  <2> HIDE DEF B
  <2> QED
    BY <1>1, <2>1, NatLessThanWellFounded, WFMin, Zenon
<1>3. PICK x \in B : \A y \in B : ~ (y < x)
  BY <1>2 DEF OpToRel
<1>4. x \in Nat /\ x # 0
  OBVIOUS
<1>5. x - 1 \in Nat /\ x - 1 \notin B
  BY <1>3, <1>4
<1> QED
  BY <1>4, <1>5

(* f is the recursive function behind the sum of the values of w over S:   *)
(* it sums each subset by picking its elements one after the other.        *)
Pick(s) == CHOOSE x \in s : TRUE
Sums(f, w, S) ==
  f = [s \in SUBSET S |-> IF s = {} THEN 0 ELSE w[Pick(s)] + f[s \ {Pick(s)}]]

LEMMA Picked ==
  ASSUME NEW s, s # {}
  PROVE  Pick(s) \in s
BY DEF Pick

(* There is one: built for the subsets of at most n elements, for every n. *)
LEMMA SumsExist ==
  ASSUME NEW S, IsFiniteSet(S), NEW w
  PROVE  \E f : Sums(f, w, S)
<1> DEFINE D(n) == {s \in SUBSET S : Cardinality(s) <= n}
           Upto(f, n) == f = [s \in D(n) |-> IF s = {} THEN 0 ELSE w[Pick(s)] + f[s \ {Pick(s)}]]
           T == {n \in Nat : \E f : Upto(f, n)}
<1>1. \A s \in SUBSET S : /\ IsFiniteSet(s) /\ Cardinality(s) \in Nat
                          /\ Cardinality(s) <= Cardinality(S)
  BY FS_Subset, FS_CardinalityType
<1>2. \A s \in SUBSET S : s # {} => /\ Cardinality(s \ {Pick(s)}) = Cardinality(s) - 1
                                    /\ s \ {Pick(s)} \in SUBSET S
  BY <1>1, Picked, FS_RemoveElement
<1>3. 0 \in T
  <2>1. \A s \in D(0) : s = {}
    BY <1>1, FS_EmptySet
  <2>2. Upto([s \in D(0) |-> 0], 0)
    BY <2>1
  <2> QED
    BY <2>2
<1>4. ASSUME NEW n \in Nat, n \in T PROVE n + 1 \in T
  <2>1. PICK f : Upto(f, n)
    BY <1>4
  <2> DEFINE g == [s \in D(n + 1) |-> IF s = {} THEN 0 ELSE w[Pick(s)] + f[s \ {Pick(s)}]]
  <2>2. \A s \in D(n) : s \in D(n + 1) /\ g[s] = f[s]
    <3>1. \A s \in D(n) : s \in D(n + 1)
      BY <1>1
    <3>2. \A s \in D(n) : f[s] = IF s = {} THEN 0 ELSE w[Pick(s)] + f[s \ {Pick(s)}]
      BY <2>1
    <3> QED
      BY <3>1, <3>2
  <2>3. \A s \in D(n + 1) : s # {} => s \ {Pick(s)} \in D(n)
    BY <1>1, <1>2
  <2>4. \A s \in D(n + 1) : g[s] = IF s = {} THEN 0 ELSE w[Pick(s)] + g[s \ {Pick(s)}]
    <3> SUFFICES ASSUME NEW s \in D(n + 1), s # {} PROVE g[s] = w[Pick(s)] + g[s \ {Pick(s)}]
      OBVIOUS
    <3>1. g[s \ {Pick(s)}] = f[s \ {Pick(s)}]
      BY <2>2, <2>3
    <3>2. g[s] = w[Pick(s)] + f[s \ {Pick(s)}]
      OBVIOUS
    <3> HIDE DEF g, D
    <3> QED
      BY <3>1, <3>2
  <2>5. Upto(g, n + 1)
    <3> DEFINE h == [s \in D(n + 1) |-> IF s = {} THEN 0 ELSE w[Pick(s)] + g[s \ {Pick(s)}]]
    <3>1. \A s \in D(n + 1) : g[s] = h[s]
      BY <2>4
    <3>2. g = h
      BY <3>1
    <3> QED
      BY <3>2
  <2> HIDE DEF g, Upto
  <2>6. \E h : Upto(h, n + 1)
    BY <2>5
  <2> QED
    BY <2>6
<1>5. Cardinality(S) \in T
  <2> HIDE DEF T
  <2>1. \A n \in Nat : n \in T
    BY <1>3, <1>4, NatSetInduction
  <2> QED
    BY <1>1, <2>1
<1>6. D(Cardinality(S)) = SUBSET S
  BY <1>1
<1> HIDE DEF D
<1> QED
  BY <1>5, <1>6 DEF Sums

(* The sums of values that are integers are integers, and a value that is  *)
(* d more for one x and the same for the others makes the sum d more.      *)
LEMMA SumChanges ==
  ASSUME NEW S, IsFiniteSet(S), NEW w \in [S -> Int], NEW v \in [S -> Int],
         NEW f, Sums(f, w, S), NEW g, Sums(g, v, S),
         NEW x \in S, NEW d \in Int, v[x] = w[x] + d, \A y \in S \ {x} : v[y] = w[y]
  PROVE  f[S] \in Int /\ g[S] = f[S] + d
<1> DEFINE Good(s) == f[s] \in Int /\ g[s] = f[s] + (IF x \in s THEN d ELSE 0)
           T == {n \in Nat : \A s \in SUBSET S : Cardinality(s) = n => Good(s)}
<1>1. \A s \in SUBSET S : /\ f[s] = IF s = {} THEN 0 ELSE w[Pick(s)] + f[s \ {Pick(s)}]
                          /\ g[s] = IF s = {} THEN 0 ELSE v[Pick(s)] + g[s \ {Pick(s)}]
  BY DEF Sums
<1>2. \A s \in SUBSET S : IsFiniteSet(s) /\ Cardinality(s) \in Nat
  BY FS_Subset, FS_CardinalityType
<1>3. 0 \in T
  <2>1. \A s \in SUBSET S : Cardinality(s) = 0 => s = {}
    BY <1>2, FS_EmptySet
  <2>2. {} \in SUBSET S
    OBVIOUS
  <2>3. f[{}] = 0 /\ g[{}] = 0
    BY <1>1, <2>2
  <2>4. (IF x \in {} THEN d ELSE 0) = 0
    OBVIOUS
  <2>5. Good({})
    BY <2>3, <2>4
  <2> HIDE DEF Good
  <2> QED
    BY <2>1, <2>5
<1>4. ASSUME NEW n \in Nat, n \in T PROVE n + 1 \in T
  <2> SUFFICES ASSUME NEW s \in SUBSET S, Cardinality(s) = n + 1 PROVE Good(s)
    OBVIOUS
  <2> DEFINE y == Pick(s)
             r == s \ {y}
  <2>1. s # {} /\ y \in s /\ y \in S
    <3>1. s # {}
      <4>1. Cardinality({}) = 0
        BY FS_EmptySet
      <4>2. n + 1 # 0
        OBVIOUS
      <4> QED
        BY <4>1, <4>2, Zenon
    <3>2. y \in s
      BY <3>1, Picked
    <3> QED
      BY <3>1, <3>2
  <2>2. r \in SUBSET S /\ Cardinality(r) = n
    BY <1>2, <2>1, FS_RemoveElement
  <2>3. Good(r)
    BY <1>4, <2>2
  <2>4. f[s] = w[y] + f[r] /\ g[s] = v[y] + g[r] /\ w[y] \in Int /\ v[y] \in Int
    BY <1>1, <2>1
  <2>5. x \in s <=> (x = y \/ x \in r)
    BY <2>1
  <2>6. x = y => x \notin r
    OBVIOUS
  <2>7. v[y] = w[y] + (IF x = y THEN d ELSE 0)
    BY <2>1
  <2> HIDE DEF y, r
  <2> QED
    BY <2>3, <2>4, <2>5, <2>6, <2>7
<1>5. \A n \in Nat : n \in T
  <2> HIDE DEF T
  <2> QED
    BY <1>3, <1>4, NatSetInduction
<1>6. Good(S)
  BY <1>2, <1>5
<1> QED
  BY <1>6

(* Equal values, equal sums *)
LEMMA SumSame ==
  ASSUME NEW S, IsFiniteSet(S), NEW w \in [S -> Int],
         NEW f, Sums(f, w, S), NEW g, Sums(g, w, S)
  PROVE  f[S] \in Int /\ g[S] = f[S]
<1>1. CASE S = {}
  BY <1>1 DEF Sums
<1>2. CASE \E x \in S : TRUE
  <2> PICK x \in S : TRUE
    BY <1>2
  <2>2. f[S] \in Int /\ g[S] = f[S] + 0
    <3>1. w[x] = w[x] + 0 /\ 0 \in Int /\ \A y \in S \ {x} : w[y] = w[y]
      OBVIOUS
    <3> QED
      BY <3>1, SumChanges
  <2> QED
    BY <2>2
<1> QED
  BY <1>1, <1>2

LEMMA SumIsZero ==
  ASSUME NEW S, IsFiniteSet(S), NEW f, Sums(f, [x \in S |-> 0], S)
  PROVE  f[S] = 0
<1> DEFINE w == [x \in S |-> 0]
           z == [s \in SUBSET S |-> 0]
<1>1. Sums(z, w, S)
  <2>1. \A s \in SUBSET S : s # {} => w[Pick(s)] = 0 /\ z[s \ {Pick(s)}] = 0
    BY Picked
  <2>2. \A s \in SUBSET S : z[s] = IF s = {} THEN 0 ELSE w[Pick(s)] + z[s \ {Pick(s)}]
    BY <2>1
  <2> QED
    BY <2>2 DEF Sums
<1>2. w \in [S -> Int] /\ z[S] = 0
  OBVIOUS
<1> HIDE DEF w, z
<1> QED
  BY <1>1, <1>2, SumSame DEF w

(* SumFunction of the library is such a sum ... *)
LEMMA SumIsSums ==
  ASSUME NEW S, IsFiniteSet(S), NEW w, DOMAIN w = S
  PROVE  \E f : Sums(f, w, S) /\ SumFunction(w) = f[S]
<1> DEFINE Iter(f) == f = [s \in SUBSET S |->
                             IF s = {} THEN 0
                             ELSE w[CHOOSE x \in s : TRUE] + f[s \ {CHOOSE x \in s : TRUE}]]
<1>1. \A f : Iter(f) <=> Sums(f, w, S)
  BY DEF Sums, Pick
<1>2. SumFunction(w) = (CHOOSE f : Iter(f))[S]
  BY DEF SumFunction, SumFunctionOnSet, FoldFunctionOnSet, MapThenFoldSet
<1> HIDE DEF Iter
<1>3. \E f : Iter(f)
  BY <1>1, SumsExist
<1>4. Iter(CHOOSE f : Iter(f))
  BY <1>3, Zenon
<1> QED
  BY <1>1, <1>2, <1>4

(* ... hence an integer, zero if all values are, and changed by as much as *)
(* one of them.                                                            *)
LEMMA SumIsInt ==
  ASSUME NEW S, IsFiniteSet(S), NEW w \in [S -> Int]
  PROVE  SumFunction(w) \in Int
BY SumIsSums, SumSame
LEMMA SumOfZeros ==
  ASSUME NEW S, IsFiniteSet(S)
  PROVE  SumFunction([x \in S |-> 0]) = 0
<1> DEFINE w == [x \in S |-> 0]
<1>1. DOMAIN w = S
  OBVIOUS
<1>2. PICK f : Sums(f, w, S) /\ SumFunction(w) = f[S]
  <2> HIDE DEF w
  <2> QED
    BY <1>1, SumIsSums
<1> QED
  BY <1>2, SumIsZero
LEMMA SumMoves ==
  ASSUME NEW S, IsFiniteSet(S), NEW w \in [S -> Int], NEW v \in [S -> Int],
         NEW x \in S, NEW d \in Int, v[x] = w[x] + d, \A y \in S \ {x} : v[y] = w[y]
  PROVE  SumFunction(v) = SumFunction(w) + d
<1>1. PICK f : Sums(f, w, S) /\ SumFunction(w) = f[S]
  BY SumIsSums
<1>2. PICK g : Sums(g, v, S) /\ SumFunction(v) = g[S]
  BY SumIsSums
<1> QED
  BY <1>1, <1>2, SumChanges

(* What holds of {} and of a set if it does without its picked element     *)
(* holds of all subsets of a finite set.                                   *)
LEMMA SubsetInduction ==
  ASSUME NEW S, IsFiniteSet(S), NEW G, {} \in G,
         \A s \in SUBSET S : s # {} /\ s \ {Pick(s)} \in G => s \in G
  PROVE  S \in G
<1> DEFINE T == {n \in Nat : \A s \in SUBSET S : Cardinality(s) = n => s \in G}
<1>1. \A s \in SUBSET S : IsFiniteSet(s) /\ Cardinality(s) \in Nat
  BY FS_Subset, FS_CardinalityType
<1>2. 0 \in T
  BY <1>1, FS_EmptySet
<1>3. ASSUME NEW n \in Nat, n \in T PROVE n + 1 \in T
  <2> SUFFICES ASSUME NEW s \in SUBSET S, Cardinality(s) = n + 1 PROVE s \in G
    OBVIOUS
  <2>1. s # {}
    <3>1. Cardinality({}) = 0 /\ n + 1 # 0
      BY FS_EmptySet
    <3> QED
      BY <3>1, Zenon
  <2>2. s \ {Pick(s)} \in SUBSET S /\ Cardinality(s \ {Pick(s)}) = n
    BY <1>1, <2>1, Picked, FS_RemoveElement
  <2>3. s \ {Pick(s)} \in G
    BY <1>3, <2>2
  <2> QED
    BY <2>1, <2>3
<1>4. \A n \in Nat : n \in T
  <2> HIDE DEF T
  <2> QED
    BY <1>2, <1>3, NatSetInduction
<1> QED
  BY <1>1, <1>4

(* Values that add up have sums that do, *)
LEMMA SumsAdd ==
  ASSUME NEW S, IsFiniteSet(S), NEW u \in [S -> Int], NEW v \in [S -> Int],
         NEW w \in [S -> Int], \A x \in S : w[x] = u[x] + v[x]
  PROVE  SumFunction(w) = SumFunction(u) + SumFunction(v)
<1>1. PICK f : Sums(f, u, S) /\ SumFunction(u) = f[S]
  BY SumIsSums
<1>2. PICK g : Sums(g, v, S) /\ SumFunction(v) = g[S]
  BY SumIsSums
<1>3. PICK h : Sums(h, w, S) /\ SumFunction(w) = h[S]
  BY SumIsSums
<1> DEFINE G == {s \in SUBSET S : f[s] \in Int /\ g[s] \in Int /\ h[s] = f[s] + g[s]}
<1>4. {} \in G
  BY <1>1, <1>2, <1>3 DEF Sums
<1>5. ASSUME NEW s \in SUBSET S, s # {}, s \ {Pick(s)} \in G PROVE s \in G
  <2>1. Pick(s) \in S
    BY <1>5, Picked
  <2>2. /\ f[s] = u[Pick(s)] + f[s \ {Pick(s)}]
        /\ g[s] = v[Pick(s)] + g[s \ {Pick(s)}]
        /\ h[s] = w[Pick(s)] + h[s \ {Pick(s)}]
    BY <1>1, <1>2, <1>3, <1>5 DEF Sums
  <2>3. /\ u[Pick(s)] \in Int /\ v[Pick(s)] \in Int
        /\ w[Pick(s)] = u[Pick(s)] + v[Pick(s)]
    BY <2>1
  <2> QED
    BY <1>5, <2>2, <2>3
<1>6. S \in G
  <2> HIDE DEF G
  <2> QED
    BY <1>4, <1>5, SubsetInduction
<1> QED
  BY <1>1, <1>2, <1>3, <1>6

(* and values that are at most as large have a sum that is. *)
LEMMA SumsGrow ==
  ASSUME NEW S, IsFiniteSet(S), NEW u \in [S -> Int], NEW v \in [S -> Int],
         \A x \in S : u[x] <= v[x]
  PROVE  SumFunction(u) <= SumFunction(v)
<1>1. PICK f : Sums(f, u, S) /\ SumFunction(u) = f[S]
  BY SumIsSums
<1>2. PICK g : Sums(g, v, S) /\ SumFunction(v) = g[S]
  BY SumIsSums
<1> DEFINE G == {s \in SUBSET S : f[s] \in Int /\ g[s] \in Int /\ f[s] <= g[s]}
<1>3. {} \in G
  BY <1>1, <1>2 DEF Sums
<1>4. ASSUME NEW s \in SUBSET S, s # {}, s \ {Pick(s)} \in G PROVE s \in G
  <2>1. Pick(s) \in S
    BY <1>4, Picked
  <2>2. /\ f[s] = u[Pick(s)] + f[s \ {Pick(s)}]
        /\ g[s] = v[Pick(s)] + g[s \ {Pick(s)}]
    BY <1>1, <1>2, <1>4 DEF Sums
  <2>3. u[Pick(s)] \in Int /\ v[Pick(s)] \in Int /\ u[Pick(s)] <= v[Pick(s)]
    BY <2>1
  <2> QED
    BY <1>4, <2>2, <2>3
<1>5. S \in G
  <2> HIDE DEF G
  <2> QED
    BY <1>3, <1>4, SubsetInduction
<1> QED
  BY <1>1, <1>2, <1>5

(* The entries of a table add up to the same by rows as by columns. *)
Column(a, S, y) == [x \in S |-> a[x][y]]
LEMMA SumsSwap ==
  ASSUME NEW S, IsFiniteSet(S), NEW a \in [S -> [S -> Int]]
  PROVE  SumFunction([x \in S |-> SumFunction(a[x])])
           = SumFunction([y \in S |-> SumFunction(Column(a, S, y))])
<1> DEFINE R == [x \in S |-> SumFunction(a[x])]
           h == [y \in S |-> CHOOSE g : /\ Sums(g, Column(a, S, y), S)
                                        /\ SumFunction(Column(a, S, y)) = g[S]]
           C(s) == [y \in S |-> h[y][s]]
<1>1. \A x \in S : a[x] \in [S -> Int]
  OBVIOUS
<1>2. R \in [S -> Int]
  BY <1>1, SumIsInt
<1>3. ASSUME NEW y \in S
      PROVE  Sums(h[y], Column(a, S, y), S) /\ SumFunction(Column(a, S, y)) = h[y][S]
  <2>1. DOMAIN Column(a, S, y) = S
    BY DEF Column
  <2>2. \E g : Sums(g, Column(a, S, y), S) /\ SumFunction(Column(a, S, y)) = g[S]
    BY <2>1, SumIsSums
  <2> QED
    BY <2>2
<1>4. PICK f : Sums(f, R, S) /\ SumFunction(R) = f[S]
  BY <1>2, SumIsSums
<1> HIDE DEF h, R
<1> DEFINE G == {s \in SUBSET S : C(s) \in [S -> Int] /\ f[s] = SumFunction(C(s))}
<1>5. {} \in G
  <2>1. \A y \in S : h[y][{}] = 0
    BY <1>3 DEF Sums
  <2>2. C({}) = [y \in S |-> 0] /\ f[{}] = 0
    BY <1>4, <2>1 DEF Sums
  <2>3. SumFunction([y \in S |-> 0]) = 0
    BY SumOfZeros
  <2> QED
    BY <2>2, <2>3
<1>6. ASSUME NEW s \in SUBSET S, s # {}, s \ {Pick(s)} \in G PROVE s \in G
  <2> DEFINE x == Pick(s)
             r == s \ {x}
  <2>1. x \in S /\ r \in SUBSET S
    BY <1>6, Picked
  <2>2. \A y \in S : h[y][s] = a[x][y] + h[y][r]
    <3> SUFFICES ASSUME NEW y \in S PROVE h[y][s] = a[x][y] + h[y][r]
      OBVIOUS
    <3>1. h[y][s] = Column(a, S, y)[x] + h[y][r]
      BY <1>3, <1>6 DEF Sums
    <3> QED
      BY <2>1, <3>1 DEF Column
  <2>3. f[s] = R[x] + f[r] /\ R[x] = SumFunction(a[x])
    BY <1>4, <1>6, <2>1 DEF Sums, R
  <2> HIDE DEF x, r
  <2>4. /\ C(r) \in [S -> Int] /\ C(s) \in [S -> Int]
        /\ \A y \in S : C(s)[y] = a[x][y] + C(r)[y]
    <3>1. C(r) \in [S -> Int]
      BY <1>6 DEF x, r
    <3>2. \A y \in S : h[y][r] \in Int /\ a[x][y] \in Int
      BY <1>1, <2>1, <3>1
    <3> QED
      BY <2>2, <3>1, <3>2
  <2> HIDE DEF C
  <2>5. SumFunction(C(s)) = SumFunction(a[x]) + SumFunction(C(r))
    BY <1>1, <2>1, <2>4, SumsAdd
  <2> QED
    BY <1>6, <2>3, <2>4, <2>5 DEF x, r
<1>7. S \in G
  <2> HIDE DEF G
  <2> QED
    BY <1>5, <1>6, SubsetInduction
<1>8. C(S) = [y \in S |-> SumFunction(Column(a, S, y))]
  BY <1>3
<1> QED
  BY <1>4, <1>7, <1>8 DEF R

(* A table added to its mirror image. *)
TableSum(a, S) == SumFunction([x \in S |-> SumFunction(a[x])])
LEMMA MirrorSum ==
  ASSUME NEW S, IsFiniteSet(S), NEW a \in [S -> [S -> Int]], NEW b \in [S -> [S -> Int]],
         \A x, y \in S : b[x][y] = a[x][y] + a[y][x]
  PROVE  TableSum(a, S) \in Int /\ TableSum(b, S) = 2 * TableSum(a, S)
<1> DEFINE R == [x \in S |-> SumFunction(a[x])]
           C == [x \in S |-> SumFunction(Column(a, S, x))]
           B == [x \in S |-> SumFunction(b[x])]
<1>1. \A x \in S : /\ a[x] \in [S -> Int] /\ b[x] \in [S -> Int]
                   /\ Column(a, S, x) \in [S -> Int]
  BY DEF Column
<1>2. R \in [S -> Int] /\ C \in [S -> Int] /\ B \in [S -> Int]
  BY <1>1, SumIsInt
<1>3. \A u, v, w \in [S -> Int] :
        (\A x \in S : w[x] = u[x] + v[x])
          => SumFunction(w) = SumFunction(u) + SumFunction(v)
  BY SumsAdd, ZenonT(30)
<1>4. \A x \in S : B[x] = R[x] + C[x]
  <2> SUFFICES ASSUME NEW x \in S PROVE SumFunction(b[x]) = SumFunction(a[x]) + SumFunction(Column(a, S, x))
    OBVIOUS
  <2>1. \A y \in S : b[x][y] = a[x][y] + Column(a, S, x)[y]
    BY DEF Column
  <2> QED
    BY <1>1, <1>3, <2>1
<1>5. SumFunction(R) = SumFunction(C)
  BY SumsSwap
<1>6. /\ TableSum(a, S) = SumFunction(R) /\ TableSum(b, S) = SumFunction(B)
  BY DEF TableSum
<1> HIDE DEF R, C, B
<1>7. SumFunction(B) = SumFunction(R) + SumFunction(C)
  BY <1>2, <1>3, <1>4
<1>8. SumFunction(R) \in Int
  BY <1>2, SumIsInt
<1> QED
  BY <1>5, <1>6, <1>7, <1>8
-----------------------------------------------------------------------------
(* Where std::lower_bound puts p in a sorted queue: behind what is less     *)
(* than it, in front of the rest.                                           *)
Splits(s, p, Less, from, to, k) ==
  /\ k \in from .. to
  /\ \A i \in from .. k - 1 : <<s[i], p>> \in Less
  /\ \A i \in k .. to - 1 : <<s[i], p>> \notin Less
Found(s, p, Less, r, k) == Splits(s, p, Less, r[1], r[1] + r[2], k)
SearchRanges(s) == {r \in (1 .. Len(s) + 1) \X (0 .. Len(s)) : r[1] + r[2] <= Len(s) + 1}
Half(s, p, Less, r) ==
  IF <<s[r[1] + r[2] \div 2], p>> \in Less
  THEN <<r[1] + r[2] \div 2 + 1, r[2] - r[2] \div 2 - 1>>
  ELSE <<r[1], r[2] \div 2>>

(* In a sorted queue what follows an element not less than p is not less. *)
LEMMA NotLessFollows ==
  ASSUME NEW s \in Seq(PID), NEW Less, StrictWeakOrder(Less), SortedBy(s, Less),
         NEW p \in PID, NEW i \in DOMAIN s, NEW j \in DOMAIN s, i <= j
  PROVE  <<s[j], p>> \in Less => <<s[i], p>> \in Less
<1>1. s[i] \in PID /\ s[j] \in PID /\ i \in Int /\ j \in Int
  BY SeqFacts, ElementOfSeq
<1>2. CASE i = j
  BY <1>2
<1>3. CASE i < j
  <2>1. <<s[j], s[i]>> \notin Less
    BY <1>3 DEF SortedBy
  <2> QED BY <1>1, <2>1 DEF StrictWeakOrder
<1> QED BY <1>1, <1>2, <1>3

LEMMA FoundOnce ==
  ASSUME NEW s \in Seq(PID), NEW p, NEW Less, NEW r \in SearchRanges(s),
         NEW k, Found(s, p, Less, r, k), NEW m, Found(s, p, Less, r, m)
  PROVE  k = m
<1> DEFINE from == r[1]
           to == r[1] + r[2]
<1>1. from \in Int /\ to \in Int
  BY SeqFacts DEF SearchRanges
<1>2. Splits(s, p, Less, from, to, k) /\ Splits(s, p, Less, from, to, m)
  BY DEF Found
<1> HIDE DEF from, to
<1>3. ASSUME NEW x, NEW y, Splits(s, p, Less, from, to, x), Splits(s, p, Less, from, to, y)
      PROVE  x \in Int /\ y \in Int /\ ~(x < y)
  <2>1. x \in from .. to /\ y \in from .. to
    BY <1>3 DEF Splits
  <2>2. x \in Int /\ y \in Int
    BY <1>1, <2>1
  <2>3. ASSUME x < y PROVE FALSE
    <3>1. x \in from .. y - 1 /\ x \in x .. to - 1
      BY <1>1, <2>1, <2>3
    <3>2. <<s[x], p>> \in Less
      BY <1>3, <3>1 DEF Splits
    <3>3. <<s[x], p>> \notin Less
      BY <1>3, <3>1 DEF Splits
    <3> QED BY <3>2, <3>3
  <2> QED BY <2>2, <2>3
<1>4. k \in Int /\ m \in Int /\ ~(k < m)
  BY <1>2, <1>3
<1>5. ~(m < k)
  BY <1>2, <1>3
<1> QED BY <1>4, <1>5

(* The half that the search goes on with has the same answer. *)
LEMMA HalfFinds ==
  ASSUME NEW s \in Seq(PID), NEW Less, StrictWeakOrder(Less), SortedBy(s, Less),
         NEW p \in PID, NEW r \in SearchRanges(s), r[2] # 0
  PROVE  /\ Half(s, p, Less, r) \in SearchRanges(s)
         /\ Half(s, p, Less, r)[2] < r[2]
         /\ \A k : Found(s, p, Less, Half(s, p, Less, r), k) => Found(s, p, Less, r, k)
<1> DEFINE h == r[2] \div 2
           mid == r[1] + h
           end == r[1] + r[2]
<1>1. Len(s) \in Nat /\ DOMAIN s = 1 .. Len(s)
  BY SeqFacts
<1>2. r[1] \in 1 .. Len(s) + 1 /\ r[2] \in 0 .. Len(s) /\ end <= Len(s) + 1
  BY DEF SearchRanges
<1>3. h \in Nat /\ h < r[2]
  <2>1. r[2] \in Nat /\ r[2] > 0
    BY <1>1, <1>2
  <2> QED BY <2>1
<1>4. mid = r[1] + h /\ end = r[1] + r[2] /\ r[1] \in Int /\ r[2] \in Int
  BY <1>2
<1> HIDE DEF h, mid, end
<1>5. mid \in Int /\ end \in Int /\ r[1] <= mid /\ mid < end /\ end <= Len(s) + 1
  BY <1>2, <1>3, <1>4
<1>6. mid \in DOMAIN s
  BY <1>1, <1>2, <1>5
<1>7. /\ mid + 1 \in 1 .. Len(s) + 1 /\ r[2] - h - 1 \in 0 .. Len(s)
      /\ r[2] - h - 1 < r[2] /\ (mid + 1) + (r[2] - h - 1) = end
  <2>1. mid + 1 \in 1 .. Len(s) + 1
    BY <1>1, <1>2, <1>5
  <2>2. r[2] - h - 1 \in 0 .. Len(s) /\ r[2] - h - 1 < r[2]
    BY <1>1, <1>2, <1>3
  <2>3. (mid + 1) + (r[2] - h - 1) = end
    <3> DEFINE l == r[2]
               a == r[1]
    <3>1. a \in Int /\ l \in Int /\ h \in Int /\ mid = a + h /\ end = a + l
      BY <1>3, <1>4
    <3>2. (mid + 1) + (l - h - 1) = end
      <4> HIDE DEF a, l
      <4> QED BY <3>1
    <3> QED BY <3>2
  <2> QED BY <2>1, <2>2, <2>3
<1>8. /\ h \in 0 .. Len(s) /\ mid <= Len(s) + 1
  BY <1>1, <1>2, <1>3, <1>5
<1>9. CASE <<s[mid], p>> \in Less
  <2>1. Half(s, p, Less, r) = <<mid + 1, r[2] - h - 1>>
    BY <1>9 DEF Half, h, mid
  <2>2. Half(s, p, Less, r) \in SearchRanges(s) /\ Half(s, p, Less, r)[2] < r[2]
    BY <1>4, <1>5, <1>7, <2>1 DEF SearchRanges
  <2>3. ASSUME NEW k, Found(s, p, Less, <<mid + 1, r[2] - h - 1>>, k)
        PROVE  Found(s, p, Less, r, k)
    <3>1. /\ k \in mid + 1 .. end
          /\ \A i \in mid + 1 .. k - 1 : <<s[i], p>> \in Less
          /\ \A i \in k .. end - 1 : <<s[i], p>> \notin Less
      <4> DEFINE q == <<mid + 1, r[2] - h - 1>>
      <4>1. q[1] = mid + 1 /\ q[2] = r[2] - h - 1
        OBVIOUS
      <4>2. Splits(s, p, Less, q[1], q[1] + q[2], k)
        BY <2>3 DEF Found
      <4>3. Splits(s, p, Less, mid + 1, end, k)
        BY <1>7, <4>1, <4>2
      <4> QED BY <4>3 DEF Splits
    <3>2. ASSUME NEW i \in r[1] .. k - 1 PROVE <<s[i], p>> \in Less
      <4>1. CASE i <= mid
        <5>1. i \in DOMAIN s
          BY <1>1, <1>2, <1>5, <4>1
        <5> QED BY <1>6, <1>9, <4>1, <5>1, NotLessFollows
      <4>2. CASE i > mid
        <5>1. i \in mid + 1 .. k - 1
          BY <1>4, <1>5, <3>1, <4>2
        <5> QED BY <3>1, <5>1
      <4> QED BY <1>4, <1>5, <3>1, <4>1, <4>2
    <3>3. k \in r[1] .. end
      BY <1>1, <1>2, <1>4, <1>5, <3>1
    <3> QED BY <3>1, <3>2, <3>3 DEF Found, Splits, end
  <2> QED BY <2>1, <2>2, <2>3
<1>10. CASE <<s[mid], p>> \notin Less
  <2>1. Half(s, p, Less, r) = <<r[1], h>>
    BY <1>10 DEF Half, h, mid
  <2>2. Half(s, p, Less, r) \in SearchRanges(s) /\ Half(s, p, Less, r)[2] < r[2]
    BY <1>2, <1>3, <1>4, <1>8, <2>1 DEF SearchRanges
  <2>3. ASSUME NEW k, Found(s, p, Less, <<r[1], h>>, k)
        PROVE  Found(s, p, Less, r, k)
    <3>1. /\ k \in r[1] .. mid
          /\ \A i \in r[1] .. k - 1 : <<s[i], p>> \in Less
          /\ \A i \in k .. mid - 1 : <<s[i], p>> \notin Less
      <4> DEFINE q == <<r[1], h>>
      <4>1. q[1] = r[1] /\ q[2] = h
        OBVIOUS
      <4>2. Splits(s, p, Less, q[1], q[1] + q[2], k)
        BY <2>3 DEF Found
      <4>3. Splits(s, p, Less, r[1], mid, k)
        BY <1>4, <4>1, <4>2
      <4> QED BY <4>3 DEF Splits
    <3>2. ASSUME NEW i \in k .. end - 1 PROVE <<s[i], p>> \notin Less
      <4>1. CASE i >= mid
        <5>1. i \in DOMAIN s
          BY <1>1, <1>2, <1>5, <3>1, <4>1
        <5> QED BY <1>6, <1>10, <4>1, <5>1, NotLessFollows
      <4>2. CASE i < mid
        <5>1. i \in k .. mid - 1
          BY <1>4, <1>5, <3>1, <4>2
        <5> QED BY <3>1, <5>1
      <4> QED BY <1>4, <1>5, <3>1, <4>1, <4>2
    <3>3. k \in r[1] .. end
      BY <1>4, <1>5, <3>1
    <3> QED BY <3>1, <3>2, <3>3 DEF Found, Splits, end
  <2> QED BY <2>1, <2>2, <2>3
<1> QED BY <1>9, <1>10

(* Every range has an answer, *)
LEMMA FoundSomewhere ==
  ASSUME NEW s \in Seq(PID), NEW Less, StrictWeakOrder(Less), SortedBy(s, Less),
         NEW p \in PID, NEW r \in SearchRanges(s)
  PROVE  \E k : Found(s, p, Less, r, k)
<1> DEFINE T == {n \in Nat : \A q \in SearchRanges(s) :
                               q[2] <= n => \E k : Found(s, p, Less, q, k)}
<1>1. \A q \in SearchRanges(s) : q[1] \in Nat /\ q[2] \in Nat
  BY SeqFacts DEF SearchRanges
<1>2. \A q \in SearchRanges(s) : q[2] = 0 => Found(s, p, Less, q, q[1])
  BY <1>1 DEF Found, Splits
<1>3. 0 \in T
  BY <1>1, <1>2
<1>4. ASSUME NEW n \in Nat, n \in T PROVE n + 1 \in T
  <2> SUFFICES ASSUME NEW q \in SearchRanges(s), q[2] <= n + 1, q[2] # 0
               PROVE  \E k : Found(s, p, Less, q, k)
    BY <1>2
  <2>1. /\ Half(s, p, Less, q) \in SearchRanges(s)
        /\ Half(s, p, Less, q)[2] < q[2]
        /\ \A k : Found(s, p, Less, Half(s, p, Less, q), k) => Found(s, p, Less, q, k)
    BY HalfFinds
  <2>2. Half(s, p, Less, q)[2] <= n
    BY <1>1, <2>1
  <2> QED BY <1>4, <2>1, <2>2
<1>5. \A n \in Nat : n \in T
  <2> HIDE DEF T
  <2> QED BY <1>3, <1>4, NatSetInduction
<1> QED BY <1>1, <1>5

(* and the search returns it. *)
LEMMA LowerBoundSplits ==
  ASSUME NEW s \in Seq(PID), NEW Less, StrictWeakOrder(Less), SortedBy(s, Less),
         NEW p \in PID
  PROVE  Found(s, p, Less, <<1, Len(s)>>, LowerBound(s, p, Less))
<1> DEFINE R == SearchRanges(s)
           Fnd(r, k) == Found(s, p, Less, r, k)
           H(r) == Half(s, p, Less, r)
           Solves(f) == f = [r \in R |-> IF r[2] = 0 THEN r[1] ELSE f[H(r)]]
           search == CHOOSE f : Solves(f)
           w == [r \in R |-> CHOOSE k : Fnd(r, k)]
<1>1. LowerBound(s, p, Less) = search[<<1, Len(s)>>]
  <2> DEFINE F == CHOOSE f : f = [r \in SearchRanges(s) |->
                IF r[2] = 0 THEN r[1]
                ELSE LET mid == r[1] + r[2] \div 2
                     IN IF <<s[mid], p>> \in Less
                        THEN f[<<mid + 1, r[2] - r[2] \div 2 - 1>>]
                        ELSE f[<<r[1], r[2] \div 2>>]]
  <2>1. LowerBound(s, p, Less) = F[<<1, Len(s)>>]
    BY DEF LowerBound, SearchRanges
  <2>2. ASSUME NEW f
        PROVE  Solves(f) <=> f = [r \in SearchRanges(s) |->
                IF r[2] = 0 THEN r[1]
                ELSE LET mid == r[1] + r[2] \div 2
                     IN IF <<s[mid], p>> \in Less
                        THEN f[<<mid + 1, r[2] - r[2] \div 2 - 1>>]
                        ELSE f[<<r[1], r[2] \div 2>>]]
    BY DEF Half
  <2>3. F = search
    BY <2>2
  <2> QED BY <2>1, <2>3
<1>2. \A r \in R : r[1] \in Nat /\ r[2] \in Nat
  BY SeqFacts DEF SearchRanges
<1>3. \A r \in R : Fnd(r, w[r])
  BY FoundSomewhere
<1>4. ASSUME NEW r \in R, r[2] = 0 PROVE Fnd(r, r[1])
  BY <1>2, <1>4 DEF Found, Splits
<1>5. ASSUME NEW r \in R, r[2] # 0
      PROVE  H(r) \in R /\ H(r)[2] < r[2] /\ \A k : Fnd(H(r), k) => Fnd(r, k)
  BY <1>5, HalfFinds
<1>6. ASSUME NEW r \in R, NEW k, Fnd(r, k) PROVE w[r] = k
  BY <1>3, <1>6, FoundOnce
<1>7. Solves(w)
  <2>1. ASSUME NEW r \in R PROVE w[r] = IF r[2] = 0 THEN r[1] ELSE w[H(r)]
    <3>1. CASE r[2] = 0
      <4> HIDE DEF w, Fnd
      <4> QED BY <1>4, <1>6, <3>1
    <3>2. CASE r[2] # 0
      <4> HIDE DEF w, Fnd, H
      <4> QED BY <1>3, <1>5, <1>6, <3>2
    <3> QED BY <3>1, <3>2
  <2>2. w = [r \in R |-> w[r]]
    OBVIOUS
  <2> HIDE DEF w, R, H
  <2> QED BY <2>1, <2>2
<1>8. Solves(search)
  <2> HIDE DEF Solves, w
  <2> QED BY <1>7
<1>9. \A r \in R : search[r] = IF r[2] = 0 THEN r[1] ELSE search[H(r)]
  <2> HIDE DEF search, H
  <2> QED BY <1>8
<1> HIDE DEF search, H, Fnd, R
<1> DEFINE T == {n \in Nat : \A r \in R : r[2] <= n => Fnd(r, search[r])}
<1>10. 0 \in T
  BY <1>2, <1>4, <1>9
<1>11. ASSUME NEW n \in Nat, n \in T PROVE n + 1 \in T
  <2> SUFFICES ASSUME NEW r \in R, r[2] <= n + 1, r[2] # 0 PROVE Fnd(r, search[r])
    BY <1>2, <1>4, <1>9
  <2>1. H(r) \in R /\ H(r)[2] < r[2] /\ \A k : Fnd(H(r), k) => Fnd(r, k)
    BY <1>5
  <2>2. Fnd(H(r), search[H(r)])
    BY <1>2, <1>11, <2>1
  <2> QED BY <1>9, <2>1, <2>2
<1>12. \A n \in Nat : n \in T
  <2> HIDE DEF T
  <2> QED BY <1>10, <1>11, NatSetInduction
<1>13. <<1, Len(s)>> \in R /\ Len(s) \in Nat
  BY SeqFacts DEF SearchRanges, R
<1>14. Fnd(<<1, Len(s)>>, search[<<1, Len(s)>>])
  BY <1>12, <1>13
<1> QED
  BY <1>1, <1>14 DEF Fnd
-----------------------------------------------------------------------------
(* The queue with p in front of it, *)
LEMMA FrontElements ==
  ASSUME NEW s \in Seq(PID), NEW p \in PID
  PROVE  /\ <<p>> \o s \in Seq(PID) /\ DOMAIN (<<p>> \o s) = 1 .. Len(s) + 1
         /\ (<<p>> \o s)[1] = p
         /\ \A i \in DOMAIN s : (<<p>> \o s)[i + 1] = s[i]
         /\ \A i \in 2 .. Len(s) + 1 : i - 1 \in DOMAIN s /\ (<<p>> \o s)[i] = s[i - 1]
<1> DEFINE t == <<p>> \o s
<1>1. <<p>> \in Seq(PID) /\ Len(<<p>>) = 1 /\ <<p>>[1] = p
  OBVIOUS
<1>2. Len(s) \in Nat /\ DOMAIN s = 1 .. Len(s)
  BY SeqFacts
<1>3. /\ t \in Seq(PID) /\ Len(t) = 1 + Len(s)
      /\ \A i \in 1 .. 1 + Len(s) : t[i] = IF i <= 1 THEN <<p>>[i] ELSE s[i - 1]
  BY <1>1, ConcatProperties
<1>4. DOMAIN t = 1 .. Len(s) + 1
  BY <1>2, <1>3, LenProperties
<1> HIDE DEF t
<1>5. t[1] = p
  BY <1>1, <1>2, <1>3
<1>6. ASSUME NEW i \in DOMAIN s PROVE t[i + 1] = s[i]
  BY <1>2, <1>3
<1>7. ASSUME NEW i \in 2 .. Len(s) + 1 PROVE i - 1 \in DOMAIN s /\ t[i] = s[i - 1]
  BY <1>2, <1>3
<1> QED
  BY <1>3, <1>4, <1>5, <1>6, <1>7 DEF t

LEMMA FrontLists ==
  ASSUME NEW s, NEW S, Lists(s, S), NEW p \in PID \ S
  PROVE  Lists(<<p>> \o s, S \cup {p})
<1>1. Lists(<<p>> \o s, {p} \cup S)
  BY SingletonLists, ConcatLists
<1>2. {p} \cup S = S \cup {p}
  OBVIOUS
<1> QED BY <1>1, <1>2

(* orders those behind it as before, and p by the comparator alone. *)
LEMMA AheadInFront ==
  ASSUME NEW s \in Seq(PID), NEW p \in PID, NEW Less, NEW i \in DOMAIN s
  PROVE  /\ <<s[i], p>> \in Less => Ahead(<<p>> \o s, Less, s[i], p)
         /\ <<s[i], p>> \notin Less => Ahead(<<p>> \o s, Less, p, s[i])
         /\ \A j \in DOMAIN s :
              \/ <<s[i], s[j]>> \in Less
              \/ <<s[j], s[i]>> \notin Less /\ i < j
              => Ahead(<<p>> \o s, Less, s[i], s[j])
<1> DEFINE t == <<p>> \o s
<1>1. /\ DOMAIN t = 1 .. Len(s) + 1 /\ t[1] = p /\ \A j \in DOMAIN s : t[j + 1] = s[j]
      /\ DOMAIN s = 1 .. Len(s) /\ Len(s) \in Nat
  BY FrontElements, SeqFacts
<1> HIDE DEF t
<1>2. \A j \in DOMAIN s : j + 1 \in DOMAIN t /\ 1 \in DOMAIN t /\ 1 < j + 1
  BY <1>1
<1>3. ASSUME NEW k \in DOMAIN t, NEW m \in DOMAIN t,
             \/ <<t[k], t[m]>> \in Less
             \/ <<t[m], t[k]>> \notin Less /\ k < m
      PROVE  Ahead(t, Less, t[k], t[m])
  BY <1>3 DEF Ahead, SortedBefore
<1>4. <<s[i], p>> \in Less => Ahead(t, Less, s[i], p)
  BY <1>1, <1>2, <1>3
<1>5. <<s[i], p>> \notin Less => Ahead(t, Less, p, s[i])
  BY <1>1, <1>2, <1>3
<1>6. ASSUME NEW j \in DOMAIN s,
             \/ <<s[i], s[j]>> \in Less
             \/ <<s[j], s[i]>> \notin Less /\ i < j
      PROVE  Ahead(t, Less, s[i], s[j])
  <2>1. i < j => i + 1 < j + 1
    BY <1>1
  <2>2. t[i + 1] = s[i] /\ t[j + 1] = s[j] /\ i + 1 \in DOMAIN t /\ j + 1 \in DOMAIN t
    BY <1>1, <1>2
  <2>3. \/ <<t[i + 1], t[j + 1]>> \in Less
        \/ <<t[j + 1], t[i + 1]>> \notin Less /\ i + 1 < j + 1
    BY <1>6, <2>1, <2>2
  <2>4. Ahead(t, Less, t[i + 1], t[j + 1])
    BY <1>3, <2>2, <2>3
  <2> QED BY <2>2, <2>4
<1> QED
  BY <1>4, <1>5, <1>6 DEF t

(* The queue with p inserted at a position. *)
Inserts(q, s, k, p) ==
  /\ q \in Seq(PID)
  /\ DOMAIN q = 1 .. Len(s) + 1
  /\ \A i \in 1 .. k - 1 : q[i] = s[i]
  /\ q[k] = p
  /\ \A i \in k + 1 .. Len(s) + 1 : q[i] = s[i - 1]
LEMMA InsertAtElements ==
  ASSUME NEW s \in Seq(PID), NEW p \in PID, NEW k \in 1 .. Len(s) + 1
  PROVE  Inserts(InsertAt(s, k, p), s, k, p)
<1> DEFINE a == SubSeq(s, 1, k - 1)
           b == SubSeq(s, k, Len(s))
           ap == a \o <<p>>
           q == ap \o b
<1>1. Len(s) \in Nat /\ DOMAIN s = 1 .. Len(s) /\ k \in Int
  BY SeqFacts
<1>2. \A i \in 1 .. Len(s) : s[i] \in PID
  BY ElementOfSeq
<1>3. /\ a \in Seq(PID) /\ Len(a) = k - 1 /\ \A i \in 1 .. k - 1 : a[i] = s[i]
  <2>1. \A i \in 1 .. k - 1 : s[i] \in PID
    BY <1>1, <1>2
  <2>2. /\ SubSeq(s, 1, k - 1) \in Seq(PID)
        /\ Len(SubSeq(s, 1, k - 1)) = IF 1 <= k - 1 THEN k - 1 - 1 + 1 ELSE 0
        /\ \A i \in 1 .. k - 1 - 1 + 1 : SubSeq(s, 1, k - 1)[i] = s[1 + i - 1]
    BY <1>1, <2>1, SubSeqProperties
  <2> QED BY <1>1, <2>2
<1>4. /\ b \in Seq(PID) /\ Len(b) = Len(s) - k + 1
      /\ \A i \in 1 .. Len(s) - k + 1 : b[i] = s[k + i - 1]
  <2>1. \A i \in k .. Len(s) : s[i] \in PID
    BY <1>1, <1>2
  <2>2. /\ SubSeq(s, k, Len(s)) \in Seq(PID)
        /\ Len(SubSeq(s, k, Len(s))) = IF k <= Len(s) THEN Len(s) - k + 1 ELSE 0
        /\ \A i \in 1 .. Len(s) - k + 1 : SubSeq(s, k, Len(s))[i] = s[k + i - 1]
    BY <1>1, <2>1, SubSeqProperties
  <2> QED BY <1>1, <2>2
<1> HIDE DEF a, b
<1>5. <<p>> \in Seq(PID) /\ Len(<<p>>) = 1 /\ <<p>>[1] = p
  OBVIOUS
<1>6. /\ ap \in Seq(PID) /\ Len(ap) = k
      /\ \A i \in 1 .. k - 1 : ap[i] = s[i]
      /\ ap[k] = p
  <2>1. /\ ap \in Seq(PID) /\ Len(ap) = Len(a) + 1
        /\ \A i \in 1 .. Len(a) + 1 : ap[i] = IF i <= Len(a) THEN a[i] ELSE <<p>>[i - Len(a)]
    BY <1>3, <1>5, ConcatProperties
  <2> HIDE DEF ap
  <2>2. \A i \in 1 .. k : ap[i] = IF i <= k - 1 THEN a[i] ELSE <<p>>[i - (k - 1)]
    BY <1>1, <1>3, <2>1
  <2>3. k - (k - 1) = 1 /\ k \in 1 .. k /\ ~(k <= k - 1)
    BY <1>1
  <2>4. ap[k] = p
    BY <1>5, <2>2, <2>3
  <2>5. \A i \in 1 .. k - 1 : ap[i] = s[i]
    BY <1>1, <1>3, <2>2
  <2> QED BY <1>1, <1>3, <2>1, <2>4, <2>5
<1> HIDE DEF ap
<1>7. /\ q \in Seq(PID) /\ Len(q) = k + Len(b)
      /\ \A i \in 1 .. k + Len(b) : q[i] = IF i <= k THEN ap[i] ELSE b[i - k]
  BY <1>4, <1>6, ConcatProperties
<1>8. Len(q) = Len(s) + 1
  BY <1>1, <1>4, <1>7
<1>9. DOMAIN q = 1 .. Len(s) + 1
  BY <1>7, <1>8, LenProperties
<1>10. q = InsertAt(s, k, p)
  BY DEF InsertAt, a, b, ap
<1> HIDE DEF q
<1>11. \A i \in 1 .. Len(s) + 1 : q[i] = IF i <= k THEN ap[i] ELSE b[i - k]
  BY <1>1, <1>4, <1>7
<1>12. q[k] = p /\ \A i \in 1 .. k - 1 : q[i] = s[i]
  BY <1>1, <1>6, <1>11
<1>13. ASSUME NEW i \in k + 1 .. Len(s) + 1 PROVE q[i] = s[i - 1]
  <2>1. i \in 1 .. Len(s) + 1 /\ ~(i <= k) /\ i - k \in 1 .. Len(s) - k + 1 /\ k + (i - k) - 1 = i - 1
    BY <1>1
  <2> QED BY <1>4, <1>11, <2>1
<1> QED
  BY <1>7, <1>9, <1>10, <1>12, <1>13 DEF Inserts
(* Nothing is lost or duplicated by it. *)
LEMMA InsertAtLists ==
  ASSUME NEW s, NEW S, Lists(s, S), NEW p \in PID \ S, NEW k \in 1 .. Len(s) + 1
  PROVE  Lists(InsertAt(s, k, p), S \cup {p})
<1> DEFINE q == InsertAt(s, k, p)
<1>1. s \in Seq(PID) /\ IsInjective(s) /\ S = {s[i] : i \in DOMAIN s}
  BY SeqFacts DEF Lists
<1>2. Len(s) \in Nat /\ DOMAIN s = 1 .. Len(s) /\ k \in Int
  BY <1>1, SeqFacts
<1>3. /\ q \in Seq(PID) /\ DOMAIN q = 1 .. Len(s) + 1
      /\ \A i \in 1 .. k - 1 : q[i] = s[i]
      /\ q[k] = p
      /\ \A i \in k + 1 .. Len(s) + 1 : q[i] = s[i - 1]
  <2>1. Inserts(q, s, k, p)
    BY <1>1, InsertAtElements
  <2> HIDE DEF q
  <2> QED BY <2>1 DEF Inserts
<1>4. Range(q) = {q[i] : i \in DOMAIN q}
  BY <1>3, SeqFacts
<1> HIDE DEF q
<1>5. ASSUME NEW i \in DOMAIN q
      PROVE  \/ i < k /\ i \in DOMAIN s /\ q[i] = s[i]
             \/ i = k /\ q[i] = p
             \/ k < i /\ i - 1 \in DOMAIN s /\ q[i] = s[i - 1]
  <2>1. CASE i < k
    BY <1>2, <1>3, <2>1
  <2>2. CASE i = k
    BY <1>3, <2>2
  <2>3. CASE k < i
    <3>1. i \in k + 1 .. Len(s) + 1 /\ i - 1 \in 1 .. Len(s)
      BY <1>2, <1>3, <2>3
    <3> QED BY <1>2, <1>3, <2>3, <3>1
  <2>4. i \in Int
    BY <1>3
  <2> QED BY <1>2, <2>1, <2>2, <2>3, <2>4
<1>6. ASSUME NEW j \in DOMAIN s PROVE \E i \in DOMAIN q : q[i] = s[j]
  <2>1. CASE j < k
    <3>1. j \in 1 .. k - 1 /\ j \in DOMAIN q
      BY <1>2, <1>3, <2>1
    <3> QED BY <1>3, <3>1
  <2>2. CASE k <= j
    <3>1. j + 1 \in k + 1 .. Len(s) + 1 /\ (j + 1) - 1 = j /\ j + 1 \in DOMAIN q
      BY <1>2, <1>3, <2>2
    <3>2. q[j + 1] = s[j]
      BY <1>3, <3>1
    <3> QED BY <3>1, <3>2
  <2> QED BY <1>2, <2>1, <2>2
<1>7. \A j \in DOMAIN s : s[j] # p
  BY <1>1
<1>8. IsInjective(q)
  <2> SUFFICES ASSUME NEW i \in DOMAIN q, NEW j \in DOMAIN q, q[i] = q[j] PROVE i = j
    BY DEF IsInjective
  <2>1. i \in Int /\ j \in Int
    BY <1>3
  <2>2. \A x, y \in DOMAIN s : s[x] = s[y] => x = y
    BY <1>1 DEF IsInjective
  <2>3. CASE i = k \/ j = k
    BY <1>5, <1>7, <2>3
  <2>4. CASE i < k /\ j < k
    BY <1>5, <2>1, <2>2, <2>4, <1>2
  <2>5. CASE i < k /\ k < j
    <3>1. i = j - 1
      BY <1>2, <1>5, <2>1, <2>2, <2>5
    <3> QED BY <1>2, <2>1, <2>5, <3>1
  <2>6. CASE k < i /\ j < k
    <3>1. j = i - 1
      BY <1>2, <1>5, <2>1, <2>2, <2>6
    <3> QED BY <1>2, <2>1, <2>6, <3>1
  <2>7. CASE k < i /\ k < j
    <3>1. i - 1 = j - 1
      BY <1>2, <1>5, <2>1, <2>2, <2>7
    <3> QED BY <2>1, <3>1
  <2> QED BY <1>2, <2>1, <2>3, <2>4, <2>5, <2>6, <2>7
<1>9. k \in DOMAIN q
  BY <1>2, <1>3
<1>10. \A x \in Range(q) : x \in S \cup {p}
  BY <1>1, <1>4, <1>5
<1>11. \A x \in S \cup {p} : x \in Range(q)
  BY <1>1, <1>3, <1>4, <1>6, <1>9
<1> QED
  BY <1>3, <1>8, <1>10, <1>11 DEF Lists, q

(* An insertion at the position that std::lower_bound finds in a sorted     *)
(* queue is the stable sort with p in front.                                *)
LEMMA InsertionSorts ==
  ASSUME NEW s, NEW S, Lists(s, S), NEW Less, StrictWeakOrder(Less), SortedBy(s, Less),
         NEW p \in PID \ S
  PROVE  InsertAt(s, LowerBound(s, p, Less), p) = StableSort(<<p>> \o s, Less)
<1> DEFINE k == LowerBound(s, p, Less)
           q == InsertAt(s, k, p)
           t == <<p>> \o s
<1>1. s \in Seq(PID) /\ Len(s) \in Nat /\ DOMAIN s = 1 .. Len(s)
  BY SeqFacts DEF Lists
<1>2. Found(s, p, Less, <<1, Len(s)>>, k)
  BY <1>1, LowerBoundSplits
<1> HIDE DEF k
<1>3. /\ k \in 1 .. Len(s) + 1 /\ k \in Int
      /\ \A i \in 1 .. k - 1 : <<s[i], p>> \in Less
      /\ \A i \in k .. Len(s) : <<s[i], p>> \notin Less
  <2>1. /\ k \in 1 .. 1 + Len(s)
        /\ \A i \in 1 .. k - 1 : <<s[i], p>> \in Less
        /\ \A i \in k .. 1 + Len(s) - 1 : <<s[i], p>> \notin Less
    BY <1>2 DEF Found, Splits
  <2> QED BY <1>1, <2>1
<1>4. /\ q \in Seq(PID) /\ DOMAIN q = 1 .. Len(s) + 1
      /\ \A i \in 1 .. k - 1 : q[i] = s[i]
      /\ q[k] = p
      /\ \A i \in k + 1 .. Len(s) + 1 : q[i] = s[i - 1]
  <2>1. p \in PID
    OBVIOUS
  <2>2. Inserts(q, s, k, p)
    BY <1>1, <1>3, <2>1, InsertAtElements
  <2> HIDE DEF q
  <2> QED BY <2>2 DEF Inserts
<1>5. Lists(q, S \cup {p})
  BY <1>3, InsertAtLists
<1>6. Lists(t, S \cup {p})
  BY FrontLists
<1>7. \A i \in DOMAIN s : /\ <<s[i], p>> \in Less => Ahead(t, Less, s[i], p)
                          /\ <<s[i], p>> \notin Less => Ahead(t, Less, p, s[i])
  BY <1>1, AheadInFront
<1>8. ASSUME NEW i \in DOMAIN s, NEW j \in DOMAIN s, i < j
      PROVE  Ahead(t, Less, s[i], s[j])
  <2>1. <<s[j], s[i]>> \notin Less
    BY <1>8 DEF SortedBy
  <2> QED BY <1>1, <1>8, <2>1, AheadInFront
<1> HIDE DEF q, t
<1>9. ASSUME NEW i \in DOMAIN q, NEW j \in DOMAIN q, i < j
      PROVE  Ahead(t, Less, q[i], q[j])
  <2>1. i \in Int /\ j \in Int
    BY <1>4
  <2>2. CASE j < k
    <3>1. i \in 1 .. k - 1 /\ j \in 1 .. k - 1 /\ i \in DOMAIN s /\ j \in DOMAIN s
      BY <1>1, <1>3, <1>4, <1>9, <2>2
    <3> QED BY <1>4, <1>8, <1>9, <3>1
  <2>3. CASE j = k
    <3>1. i \in 1 .. k - 1 /\ i \in DOMAIN s
      BY <1>1, <1>3, <1>4, <1>9, <2>3
    <3> QED BY <1>3, <1>4, <1>7, <2>3, <3>1
  <2>4. CASE i < k /\ k < j
    <3>1. i \in 1 .. k - 1 /\ i \in DOMAIN s /\ j \in k + 1 .. Len(s) + 1
          /\ j - 1 \in DOMAIN s /\ i < j - 1
      BY <1>1, <1>3, <1>4, <1>9, <2>4
    <3>2. Ahead(t, Less, s[i], s[j - 1])
      BY <1>8, <3>1
    <3> QED BY <1>4, <3>1, <3>2
  <2>5. CASE i = k
    <3>1. j \in k + 1 .. Len(s) + 1 /\ j - 1 \in DOMAIN s /\ j - 1 \in k .. Len(s)
      BY <1>1, <1>3, <1>4, <1>9, <2>5
    <3>2. Ahead(t, Less, p, s[j - 1])
      BY <1>3, <1>7, <3>1
    <3> QED BY <1>4, <2>5, <3>1, <3>2
  <2>6. CASE k < i
    <3>1. i \in k + 1 .. Len(s) + 1 /\ i - 1 \in DOMAIN s
          /\ j \in k + 1 .. Len(s) + 1 /\ j - 1 \in DOMAIN s /\ i - 1 < j - 1
      BY <1>1, <1>3, <1>4, <1>9, <2>6
    <3>2. Ahead(t, Less, s[i - 1], s[j - 1])
      BY <1>8, <3>1
    <3> QED BY <1>4, <3>1, <3>2
  <2> QED BY <1>3, <1>9, <2>1, <2>2, <2>3, <2>4, <2>5, <2>6
<1>10. Arranged(q, t, Less)
  BY <1>9 DEF Arranged
<1>11. Arranged(StableSort(t, Less), t, Less) /\ Lists(StableSort(t, Less), S \cup {p})
  BY <1>6, StableSortArranges, StableSortRearranges DEF Lists
<1>12. t \in Seq(PID) /\ IsInjective(t)
  BY <1>6 DEF Lists
<1>13. q = StableSort(t, Less)
  BY <1>5, <1>10, <1>11, <1>12, ArrangedOnce
<1> QED
  BY <1>13 DEF q, t, k

(* Sorting what is behind p first makes no difference. *)
LEMMA SortBehind ==
  ASSUME NEW s, NEW S, Lists(s, S), NEW Less, StrictWeakOrder(Less), NEW p \in PID \ S
  PROVE  StableSort(<<p>> \o StableSort(s, Less), Less) = StableSort(<<p>> \o s, Less)
<1> DEFINE a == StableSort(s, Less)
           t == <<p>> \o s
           u == <<p>> \o a
           r == StableSort(u, Less)
<1>1. s \in Seq(PID) /\ IsInjective(s) /\ Range(s) = S
  BY DEF Lists
<1>2. Lists(a, S) /\ Arranged(a, s, Less)
  BY <1>1, StableSortRearranges, StableSortArranges DEF Lists
<1> HIDE DEF a
<1>3. /\ a \in Seq(PID) /\ DOMAIN a = 1 .. Len(a) /\ Len(a) \in Nat
      /\ Range(a) = {a[i] : i \in DOMAIN a} /\ Range(s) = {s[i] : i \in DOMAIN s}
      /\ Range(a) = Range(s) /\ DOMAIN s = 1 .. Len(s) /\ Len(s) \in Nat
  BY <1>1, <1>2, SeqFacts DEF Lists
<1>4. Lists(t, S \cup {p}) /\ Lists(u, S \cup {p})
  BY <1>2, FrontLists
<1>5. \A i \in DOMAIN s :
        /\ <<s[i], p>> \in Less => Ahead(t, Less, s[i], p)
        /\ <<s[i], p>> \notin Less => Ahead(t, Less, p, s[i])
        /\ \A j \in DOMAIN s :
             \/ <<s[i], s[j]>> \in Less
             \/ <<s[j], s[i]>> \notin Less /\ i < j
             => Ahead(t, Less, s[i], s[j])
  BY <1>1, AheadInFront
<1>6. /\ DOMAIN u = 1 .. Len(a) + 1 /\ u[1] = p
      /\ \A i \in 2 .. Len(a) + 1 : i - 1 \in DOMAIN a /\ u[i] = a[i - 1]
  BY <1>3, FrontElements
<1> HIDE DEF t, u
<1>7. ASSUME NEW x, NEW y, Ahead(s, Less, x, y) PROVE Ahead(t, Less, x, y)
  <2>1. PICK i \in DOMAIN s, j \in DOMAIN s :
          x = s[i] /\ y = s[j] /\ <<i, j>> \in SortedBefore(s, Less)
    BY <1>7 DEF Ahead
  <2>2. \/ <<s[i], s[j]>> \in Less
        \/ <<s[j], s[i]>> \notin Less /\ i < j
    BY <2>1 DEF SortedBefore
  <2> QED BY <1>5, <2>1, <2>2
<1>8. ASSUME NEW x, NEW y, Ahead(u, Less, x, y) PROVE Ahead(t, Less, x, y)
  <2>1. PICK i \in DOMAIN u, j \in DOMAIN u :
          x = u[i] /\ y = u[j] /\ <<i, j>> \in SortedBefore(u, Less)
    BY <1>8 DEF Ahead
  <2>2. /\ i \in 1 .. Len(a) + 1 /\ j \in 1 .. Len(a) + 1
        /\ \/ <<x, y>> \in Less
           \/ <<y, x>> \notin Less /\ i < j
    BY <1>6, <2>1 DEF SortedBefore
  <2>3. \A z \in Range(a) : /\ z \in PID /\ \E m \in DOMAIN s : z = s[m]
    BY <1>1, <1>3, SeqFacts
  <2>4. CASE i = 1
    <3>1. x = p
      BY <1>6, <2>1, <2>4
    <3>2. j # 1
      <4> SUFFICES ASSUME j = 1 PROVE FALSE
        OBVIOUS
      <4>1. y = p /\ ~(i < j)
        BY <1>6, <2>1, <2>4
      <4>2. <<p, p>> \in Less
        BY <2>2, <3>1, <4>1
      <4> QED BY <4>2 DEF StrictWeakOrder
    <3>3. j \in 2 .. Len(a) + 1
      BY <1>3, <2>2, <3>2
    <3>4. y \in Range(a)
      BY <1>3, <1>6, <2>1, <3>3
    <3>5. <<y, x>> \notin Less
      BY <2>2, <2>3, <3>1, <3>4 DEF StrictWeakOrder
    <3> QED BY <1>5, <2>3, <3>1, <3>4, <3>5
  <2>5. CASE i # 1 /\ j = 1
    <3>1. y = p /\ i \in 2 .. Len(a) + 1 /\ ~(i < j)
      BY <1>3, <1>6, <2>1, <2>2, <2>5
    <3>2. x \in Range(a) /\ <<x, y>> \in Less
      BY <1>3, <1>6, <2>1, <2>2, <3>1
    <3> QED BY <1>5, <2>3, <3>1, <3>2
  <2>6. CASE i # 1 /\ j # 1
    <3>1. i \in 2 .. Len(a) + 1 /\ j \in 2 .. Len(a) + 1
      BY <1>3, <2>2, <2>6
    <3>2. /\ i - 1 \in DOMAIN a /\ x = a[i - 1]
          /\ j - 1 \in DOMAIN a /\ y = a[j - 1]
      BY <1>6, <2>1, <3>1
    <3>3. CASE <<x, y>> \in Less
      <4>1. PICK m \in DOMAIN s, n \in DOMAIN s : x = s[m] /\ y = s[n]
        <5>1. x \in Range(a) /\ y \in Range(a)
          BY <1>3, <3>2
        <5> QED BY <2>3, <5>1
      <4> QED BY <1>5, <3>3, <4>1
    <3>4. CASE i < j
      <4>1. i - 1 < j - 1
        BY <3>1, <3>4
      <4>2. Ahead(s, Less, x, y)
        BY <1>2, <3>2, <4>1 DEF Arranged
      <4> QED BY <1>7, <4>2
    <3> QED BY <2>2, <3>3, <3>4
  <2> QED BY <2>4, <2>5, <2>6
<1>9. Lists(r, S \cup {p}) /\ Arranged(r, u, Less)
  BY <1>4, StableSortArranges, StableSortRearranges DEF Lists
<1> HIDE DEF r
<1>10. Arranged(r, t, Less)
  BY <1>8, <1>9 DEF Arranged
<1>11. Arranged(StableSort(t, Less), t, Less) /\ Lists(StableSort(t, Less), S \cup {p})
  BY <1>4, StableSortArranges, StableSortRearranges DEF Lists
<1>12. t \in Seq(PID) /\ IsInjective(t)
  BY <1>4 DEF Lists
<1>13. r = StableSort(t, Less)
  BY <1>9, <1>10, <1>11, <1>12, ArrangedOnce
<1> QED
  BY <1>13 DEF r, u, t, a

(* A sorted queue is its own stable sort. *)
LEMMA SortedSortsToItself ==
  ASSUME NEW s, NEW S, Lists(s, S), NEW Less, StrictWeakOrder(Less), SortedBy(s, Less)
  PROVE  StableSort(s, Less) = s
<1>1. s \in Seq(PID) /\ IsInjective(s)
  BY DEF Lists
<1>2. Arranged(s, s, Less)
  BY DEF Arranged, Ahead, SortedBefore, SortedBy
<1>3. Arranged(StableSort(s, Less), s, Less) /\ Lists(StableSort(s, Less), S)
  BY <1>1, StableSortArranges, StableSortRearranges DEF Lists
<1> QED
  BY <1>1, <1>2, <1>3, ArrangedOnce
(* The first elements of D, *)
LEMMA Firsts ==
  ASSUME NEW D, NEW T, Lists(D, T), NEW k \in 0 .. Len(D)
  PROVE  /\ SubSeq(D, 1, k) \in Seq(PID) /\ Len(SubSeq(D, 1, k)) = k
         /\ \A i \in 1 .. k : SubSeq(D, 1, k)[i] = D[i]
         /\ Lists(SubSeq(D, 1, k), {D[i] : i \in 1 .. k})
<1> DEFINE d == SubSeq(D, 1, k)
<1>1. /\ D \in Seq(PID) /\ IsInjective(D) /\ DOMAIN D = 1 .. Len(D) /\ Len(D) \in Nat
      /\ k \in Nat
  BY SeqFacts DEF Lists
<1>2. \A i \in 1 .. k : i \in DOMAIN D /\ D[i] \in PID
  BY <1>1, ElementOfSeq
<1>3. d \in Seq(PID) /\ Len(d) = k /\ \A i \in 1 .. k : d[i] = D[i]
  <2>1. /\ SubSeq(D, 1, k) \in Seq(PID)
        /\ Len(SubSeq(D, 1, k)) = IF 1 <= k THEN k - 1 + 1 ELSE 0
        /\ \A i \in 1 .. k - 1 + 1 : SubSeq(D, 1, k)[i] = D[1 + i - 1]
    BY <1>1, <1>2, SubSeqProperties
  <2> QED BY <1>1, <2>1
<1> HIDE DEF d
<1>4. DOMAIN d = 1 .. k /\ Range(d) = {d[i] : i \in DOMAIN d}
  BY <1>3, LenProperties, SeqFacts
<1>5. IsInjective(d)
  BY <1>1, <1>2, <1>3, <1>4 DEF IsInjective
<1>6. Range(d) = {D[i] : i \in 1 .. k}
  BY <1>3, <1>4
<1> QED
  BY <1>3, <1>5, <1>6 DEF Lists, d

(* and what reversing them makes of the next. *)
LEMMA ReverseNext ==
  ASSUME NEW D, NEW T, Lists(D, T), NEW k \in 0 .. Len(D) - 1
  PROVE  Reverse(SubSeq(D, 1, k + 1)) = <<D[k + 1]>> \o Reverse(SubSeq(D, 1, k))
<1> DEFINE d == SubSeq(D, 1, k)
           e == SubSeq(D, 1, k + 1)
           r == <<D[k + 1]>> \o Reverse(d)
<1>1. D \in Seq(PID) /\ DOMAIN D = 1 .. Len(D) /\ Len(D) \in Nat /\ k \in Nat
  BY SeqFacts DEF Lists
<1>2. k \in 0 .. Len(D) /\ k + 1 \in 0 .. Len(D) /\ k + 1 \in DOMAIN D
  BY <1>1
<1>3. D[k + 1] \in PID
  BY <1>1, <1>2, ElementOfSeq
<1>4. /\ d \in Seq(PID) /\ Len(d) = k /\ \A i \in 1 .. k : d[i] = D[i]
      /\ Lists(d, {D[i] : i \in 1 .. k})
  BY <1>2, Firsts
<1>5. /\ e \in Seq(PID) /\ Len(e) = k + 1 /\ \A i \in 1 .. k + 1 : e[i] = D[i]
      /\ Lists(e, {D[i] : i \in 1 .. k + 1})
  BY <1>2, Firsts
<1> HIDE DEF d, e
<1>6. /\ Reverse(d) \in Seq(PID) /\ Reverse(d) = [i \in 1 .. k |-> d[(k - i) + 1]]
      /\ Reverse(e) \in Seq(PID)
      /\ Reverse(e) = [i \in 1 .. k + 1 |-> e[(k + 1 - i) + 1]]
  <2>1. Reverse(d) \in Seq(PID) /\ Reverse(e) \in Seq(PID)
    BY <1>4, <1>5, ReverseLists DEF Lists
  <2>2. Reverse(d) = [i \in 1 .. k |-> d[(k - i) + 1]]
    BY <1>4 DEF Reverse
  <2>3. Reverse(e) = [i \in 1 .. k + 1 |-> e[(k + 1 - i) + 1]]
    BY <1>5 DEF Reverse
  <2> QED BY <2>1, <2>2, <2>3
<1>7. Len(Reverse(d)) = k /\ Len(Reverse(e)) = k + 1
  BY <1>1, <1>6, LenProperties
<1>8. /\ r \in Seq(PID) /\ DOMAIN r = 1 .. k + 1 /\ r[1] = D[k + 1]
      /\ \A i \in 2 .. k + 1 : r[i] = Reverse(d)[i - 1]
  BY <1>3, <1>6, <1>7, FrontElements
<1> HIDE DEF r
<1>9. Len(r) = k + 1
  BY <1>1, <1>8, LenProperties
<1>10. ASSUME NEW i \in 1 .. k + 1 PROVE Reverse(e)[i] = r[i]
  <2>1. Reverse(e)[i] = D[(k + 1 - i) + 1]
    <3>1. (k + 1 - i) + 1 \in 1 .. k + 1
      BY <1>1
    <3> QED BY <1>5, <1>6, <3>1
  <2>2. CASE i = 1
    <3>1. (k + 1 - i) + 1 = k + 1
      BY <1>1, <2>2
    <3> QED BY <1>8, <2>1, <2>2, <3>1
  <2>3. CASE i # 1
    <3>1. /\ i \in 2 .. k + 1 /\ i - 1 \in 1 .. k
          /\ (k - (i - 1)) + 1 \in 1 .. k /\ (k - (i - 1)) + 1 = (k + 1 - i) + 1
      BY <1>1, <2>3
    <3>2. r[i] = d[(k - (i - 1)) + 1]
      BY <1>6, <1>8, <3>1
    <3> QED BY <1>4, <2>1, <3>1, <3>2
  <2> QED BY <2>2, <2>3
<1>11. Reverse(e) = r
  BY <1>6, <1>7, <1>8, <1>9, <1>10, SeqEqual
<1> QED
  BY <1>11 DEF r, d, e

(* The insertions that the code makes, each at the position that its search *)
(* in the halves of the queue finds, leave the order that the modules       *)
(* define with one stable sort, for every sorted queue, every list of       *)
(* processes that are not in it and every comparator that std::lower_bound  *)
(* accepts (ReadyQueue::push, resort and import_queue).                     *)
THEOREM InsertionIsStableSort ==
  ASSUME NEW E, NEW S, Lists(E, S), NEW D, NEW T, Lists(D, T), S \cap T = {},
         NEW Less, StrictWeakOrder(Less), SortedBy(E, Less)
  PROVE  InsertOneByOne(E, D, Less) = InsertAll(E, D, Less)
<1> DEFINE K == 0 .. Len(D)
           Insert(q, p) == InsertAt(q, LowerBound(q, p, Less), p)
           Solves(f) == f = [k \in K |-> IF k = 0 THEN E ELSE Insert(f[k - 1], D[k])]
           after == CHOOSE f : Solves(f)
           first(k) == SubSeq(D, 1, k)
           w == [k \in K |-> InsertAll(E, first(k), Less)]
<1>1. /\ D \in Seq(PID) /\ IsInjective(D) /\ DOMAIN D = 1 .. Len(D) /\ Len(D) \in Nat
      /\ T = {D[i] : i \in DOMAIN D} /\ E \in Seq(PID) /\ Range(E) = S
  BY SeqFacts DEF Lists
<1>2. InsertOneByOne(E, D, Less) = after[Len(D)]
  BY DEF InsertOneByOne
<1>3. w[0] = E
  <2>1. 0 \in K
    BY <1>1
  <2>2. first(0) = <<>>
    BY SubSeqEmpty
  <2>3. Reverse(<<>>) = <<>>
    <3>1. Reverse(<<>>) = [i \in 1 .. 0 |-> <<>>[(0 - i) + 1]]
      BY EmptySeq DEF Reverse
    <3> QED BY <3>1
  <2>4. <<>> \o E = E
    BY <1>1, ConcatEmptySeq
  <2>5. StableSort(E, Less) = E
    BY SortedSortsToItself
  <2>6. InsertAll(E, <<>>, Less) = E
    BY <2>3, <2>4, <2>5 DEF InsertAll
  <2> HIDE DEF first, K
  <2> QED BY <2>1, <2>2, <2>6
<1>4. ASSUME NEW k \in 0 .. Len(D) - 1
      PROVE  w[k + 1] = Insert(w[k], D[k + 1])
  <2> DEFINE d == first(k)
             p == D[k + 1]
             U == {D[i] : i \in 1 .. k}
             s == Reverse(d) \o E
  <2>1. k \in K /\ k + 1 \in K /\ k + 1 \in DOMAIN D /\ k \in Nat
    BY <1>1
  <2>2. Lists(d, U)
    BY <2>1, Firsts
  <2>3. p \in PID /\ p \notin U /\ p \notin S /\ S \cap U = {}
    <3>1. p \in PID /\ p \in T
      BY <1>1, <2>1, ElementOfSeq
    <3>2. \A i \in 1 .. k : i \in DOMAIN D /\ i # k + 1
      BY <1>1, <2>1
    <3>3. p \notin U
      BY <1>1, <2>1, <3>2 DEF IsInjective
    <3>4. U \subseteq T
      BY <1>1, <3>2
    <3> QED BY <3>1, <3>3, <3>4
  <2>4. Reverse(first(k + 1)) = <<p>> \o Reverse(d)
    BY ReverseNext
  <2> HIDE DEF d, p, U
  <2>5. Lists(Reverse(d), U) /\ Lists(s, U \cup S)
    BY <2>2, <2>3, ReverseLists, ConcatLists
  <2>6. (<<p>> \o Reverse(d)) \o E = <<p>> \o s
    <3>1. <<p>> \in Seq(PID) /\ Reverse(d) \in Seq(PID)
      BY <2>3, <2>5 DEF Lists
    <3> QED BY <1>1, <3>1, ConcatAssociative
  <2>7. w[k] = StableSort(s, Less) /\ w[k + 1] = StableSort(<<p>> \o s, Less)
    <3>1. w[k] = InsertAll(E, d, Less) /\ w[k + 1] = InsertAll(E, first(k + 1), Less)
      BY <2>1 DEF d
    <3> HIDE DEF first, w
    <3> QED BY <2>4, <2>6, <3>1 DEF InsertAll
  <2> HIDE DEF s, w
  <2>8. s \in Seq(PID) /\ p \in PID \ (U \cup S)
    BY <2>3, <2>5 DEF Lists
  <2>9. Lists(w[k], U \cup S) /\ SortedBy(w[k], Less)
    BY <2>5, <2>7, <2>8, StableSortRearranges, StableSortSorts DEF Lists
  <2>10. StableSort(<<p>> \o w[k], Less) = StableSort(<<p>> \o s, Less)
    BY <2>5, <2>7, <2>8, SortBehind
  <2>11. Insert(w[k], p) = StableSort(<<p>> \o w[k], Less)
    BY <2>8, <2>9, InsertionSorts
  <2> QED BY <2>7, <2>10, <2>11 DEF p
<1> HIDE DEF Insert
<1>5. Solves(w)
  <2>1. ASSUME NEW k \in K PROVE w[k] = IF k = 0 THEN E ELSE Insert(w[k - 1], D[k])
    <3> HIDE DEF w
    <3>1. CASE k = 0
      BY <1>3, <3>1
    <3>2. CASE k # 0
      <4>1. k - 1 \in 0 .. Len(D) - 1 /\ (k - 1) + 1 = k
        BY <1>1, <3>2
      <4>2. w[(k - 1) + 1] = Insert(w[k - 1], D[(k - 1) + 1])
        BY <1>4, <4>1
      <4> QED BY <3>2, <4>1, <4>2
    <3> QED BY <3>1, <3>2
  <2>2. w = [k \in K |-> w[k]]
    OBVIOUS
  <2> HIDE DEF w, K
  <2> QED BY <2>1, <2>2
<1> HIDE DEF w
<1>6. Solves(after)
  <2> HIDE DEF Solves
  <2> QED BY <1>5
<1>7. \A k \in K : after[k] = IF k = 0 THEN E ELSE Insert(after[k - 1], D[k])
  <2> HIDE DEF after, K
  <2> QED BY <1>6
<1> HIDE DEF after
<1> DEFINE M == {n \in Nat : n \in K => after[n] = w[n]}
<1>8. 0 \in M
  BY <1>1, <1>3, <1>7
<1>9. ASSUME NEW n \in Nat, n \in M PROVE n + 1 \in M
  <2> SUFFICES ASSUME n + 1 \in K PROVE after[n + 1] = w[n + 1]
    OBVIOUS
  <2>1. n \in K /\ n \in 0 .. Len(D) - 1 /\ (n + 1) - 1 = n /\ n + 1 # 0
    BY <1>1
  <2>2. after[n + 1] = Insert(after[n], D[n + 1])
    BY <1>7, <2>1
  <2>3. after[n] = w[n]
    BY <1>9, <2>1
  <2> QED BY <1>4, <2>1, <2>2, <2>3
<1>10. \A n \in Nat : n \in M
  <2> HIDE DEF M
  <2> QED BY <1>8, <1>9, NatSetInduction
<1>11. after[Len(D)] = w[Len(D)]
  BY <1>1, <1>10
<1>12. w[Len(D)] = InsertAll(E, D, Less)
  <2>1. SubSeq(D, 1, Len(D)) = D
    BY <1>1, SubSeqFull
  <2>2. Len(D) \in K
    BY <1>1
  <2> QED BY <2>1, <2>2 DEF w
<1> QED
  BY <1>2, <1>11, <1>12

=============================================================================
