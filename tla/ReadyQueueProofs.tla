-------------------------- MODULE ReadyQueueProofs --------------------------
(***************************************************************************)
(* ReadyQueueApi for any number of threads, any set of processes and any   *)
(* keys: no push is without a wakeup, and the queue implements the         *)
(* contract of its header (QueueContract).                                 *)
(***************************************************************************)
EXTENDS ReadyQueueApi, ReadyOrderProofs

(* The mutex is held between two steps only by a thread that has found the *)
(* predicate of its wait false and has not yet blocked, so that it is      *)
(* still false when the thread does.                                       *)
MutexHeld == \A u \in User : at[u] = "tested" <=> mutex = u
TestedInVain == \A u \in User : at[u] = "tested" => items = <<>> /\ ~shut

(* The blocking call a thread is in follows from where it is. *)
Calls ==
  \A u \in User :
    /\ call[u] = "none" <=> at[u] \in {"out", "notifyOne", "notifyAll"}
    /\ at[u] = "late" => call[u] = "pop_for"

(* A process is in the queue once, in somebody's hands or dropped. *)
Stored == Lists(items, PID \ (held \cup dropped)) /\ held \cap dropped = {}
ItemsSorted == order # "FIFO" => SortedBy(items, Less)

QueueInv ==
  /\ QueueTypeOK /\ MutexHeld /\ TestedInVain /\ Calls
  /\ Stored /\ ItemsSorted /\ NoWakeupLost
-----------------------------------------------------------------------------
LEMMA LessIsWeakOrder ==
  ASSUME order \in {"SJF", "PRIORITY"}
  PROVE  StrictWeakOrder(Less)
<1>1. Table \in [PID -> PCB]
  BY QueueAssumption
<1>2. Less = ShorterLess(Table) \/ Less = PriorityLess(Table)
  BY DEF Less
<1> QED
  BY <1>1, <1>2, ShorterLessIsWeakOrder, PriorityLessIsWeakOrder

(* A sequence lists its own elements when none of them occurs twice. *)
LEMMA BatchLists ==
  ASSUME QueueTypeOK, NEW D \in Batches
  PROVE  Lists(D, Range(D)) /\ Range(D) \subseteq held
<1>1. PICK n \in 0 .. MAX_BATCH : D \in [1 .. n -> held]
  BY DEF Batches
<1>2. n \in Nat /\ held \subseteq PID
  BY QueueAssumption DEF QueueTypeOK
<1>3. D \in Seq(PID)
  BY <1>1, <1>2
<1>4. IsInjective(D)
  BY DEF Batches, IsInjective
<1> QED
  BY <1>1, <1>3, <1>4 DEF Lists, Range

LEMMA PushedLists ==
  ASSUME QueueTypeOK, NEW p \in held
  PROVE  Lists(<<p>>, Range(<<p>>)) /\ Range(<<p>>) = {p}
<1>1. p \in PID
  BY DEF QueueTypeOK
<1> QED
  BY <1>1, SingletonLists DEF Lists

(* push and push_all put the new processes among the others. *)
LEMMA InsertedLists ==
  ASSUME QueueInv, NEW D, NEW T, Lists(D, T), T \subseteq held
  PROVE  /\ Lists(Inserted(D), (PID \ (held \cup dropped)) \cup T)
         /\ Len(Inserted(D)) = Len(items) + Len(D)
         /\ order # "FIFO" => SortedBy(Inserted(D), Less)
<1> DEFINE S == PID \ (held \cup dropped)
<1>1. Lists(items, S) /\ S \cap T = {} /\ order \in QueueOrder
  BY DEF QueueInv, Stored, QueueTypeOK
<1>2. order # "FIFO" => order \in {"SJF", "PRIORITY"}
  BY <1>1 DEF QueueOrder
<1> HIDE DEF S
<1>3. Lists(Inserted(D), S \cup T)
  <2>1. CASE order = "FIFO"
    BY <1>1, <2>1, ConcatLists DEF Inserted
  <2>2. CASE order # "FIFO"
    <3>1. Lists(InsertAll(items, D, Less), T \cup S)
      BY <1>1, <1>2, <2>2, LessIsWeakOrder, InsertAllLists
    <3>2. T \cup S = S \cup T /\ Inserted(D) = InsertAll(items, D, Less)
      BY <2>2 DEF Inserted
    <3> QED
      BY <3>1, <3>2
  <2> QED
    BY <2>1, <2>2
<1>4. order # "FIFO" => SortedBy(Inserted(D), Less)
  BY <1>1, <1>2, LessIsWeakOrder, InsertAllSorts DEF Inserted
<1>5. Len(Inserted(D)) = Len(items) + Len(D)
  <2>1. /\ IsFiniteSet(S) /\ Len(items) = Cardinality(S)
        /\ IsFiniteSet(T) /\ Len(D) = Cardinality(T)
        /\ Len(Inserted(D)) = Cardinality(S \cup T)
    BY <1>1, <1>3, ListLength
  <2>2. Cardinality(S \cap T) = 0
    BY <1>1, FS_EmptySet
  <2>3. /\ Cardinality(S) \in Nat /\ Cardinality(T) \in Nat
        /\ Cardinality(S \cup T) = Cardinality(S) + Cardinality(T) - Cardinality(S \cap T)
    BY <2>1, FS_Union, FS_CardinalityType
  <2> QED
    BY <2>1, <2>2, <2>3
<1> QED
  BY <1>3, <1>4, <1>5 DEF S

(* A take, from the front. *)
LEMMA FrontTaken ==
  ASSUME QueueInv, items # <<>>
  PROVE  /\ Head(items) \in PID \ (held \cup dropped)
         /\ Lists(Tail(items), PID \ ((held \cup {Head(items)}) \cup dropped))
         /\ Len(Tail(items)) = Len(items) - 1 /\ Len(items) \in Nat
         /\ order # "FIFO" => SortedBy(Tail(items), Less)
<1>1. Lists(items, PID \ (held \cup dropped)) /\ items \in Seq(PID)
  BY DEF QueueInv, Stored, Lists
<1>2. /\ Head(items) \in PID \ (held \cup dropped)
      /\ Lists(Tail(items), (PID \ (held \cup dropped)) \ {Head(items)})
  BY <1>1, TailLists
<1>3. (PID \ (held \cup dropped)) \ {Head(items)} = PID \ ((held \cup {Head(items)}) \cup dropped)
  OBVIOUS
<1>4. order # "FIFO" => SortedBy(Tail(items), Less)
  BY <1>1, TailSorted DEF QueueInv, ItemsSorted
<1>5. Len(Tail(items)) = Len(items) - 1 /\ Len(items) \in Nat
  BY <1>1, HeadTailProperties, LenProperties
<1> QED
  BY <1>2, <1>3, <1>4, <1>5

(* remove takes one out, wherever it is. *)
LEMMA OneRemoved ==
  ASSUME QueueInv, NEW p \in Range(items)
  PROVE  LET r == SelectIn(items, PID \ {p})
         IN /\ p \in PID \ (held \cup dropped)
            /\ Lists(r, PID \ ((held \cup {p}) \cup dropped))
            /\ Len(r) <= Len(items)
            /\ order # "FIFO" => SortedBy(r, Less)
<1> DEFINE r == SelectIn(items, PID \ {p})
           S == PID \ (held \cup dropped)
<1>1. Lists(items, S) /\ items \in Seq(PID) /\ p \in S
  BY DEF QueueInv, Stored, Lists
<1>2. Lists(r, S \cap (PID \ {p}))
  BY <1>1, SelectInLists
<1>3. S \cap (PID \ {p}) = PID \ ((held \cup {p}) \cup dropped)
  OBVIOUS
<1>4. order # "FIFO" => SortedBy(r, Less)
  BY <1>1, SelectInSorted DEF QueueInv, ItemsSorted
<1> HIDE DEF r, S
<1>5. Len(r) <= Len(items)
  <2>1. /\ IsFiniteSet(S) /\ Len(items) = Cardinality(S)
        /\ Len(r) = Cardinality(S \cap (PID \ {p}))
    BY <1>1, <1>2, ListLength
  <2> QED
    BY <2>1, FS_Subset
<1> QED
  BY <1>1, <1>2, <1>3, <1>4, <1>5 DEF r, S

(* resort rearranges. *)
LEMMA SortedAgain ==
  ASSUME QueueInv
  PROVE  LET r == IF order = "FIFO" THEN items ELSE InsertAll(<<>>, items, Less)
         IN /\ Lists(r, PID \ (held \cup dropped))
            /\ Len(r) = Len(items)
            /\ order # "FIFO" => SortedBy(r, Less)
<1> DEFINE S == PID \ (held \cup dropped)
<1>1. Lists(items, S) /\ order \in QueueOrder
  BY DEF QueueInv, QueueTypeOK, Stored
<1> HIDE DEF S
<1>2. CASE order = "FIFO"
  BY <1>1, <1>2 DEF S
<1>3. CASE order # "FIFO"
  <2> DEFINE r == InsertAll(<<>>, items, Less)
  <2>1. StrictWeakOrder(Less)
    BY <1>1, <1>3, LessIsWeakOrder DEF QueueOrder
  <2>2. Lists(<<>>, {}) /\ {} \cap S = {} /\ S \cup {} = S
    BY EmptyLists
  <2>3. Lists(r, S \cup {}) /\ SortedBy(r, Less)
    BY <1>1, <2>1, <2>2, InsertAllLists, InsertAllSorts
  <2> HIDE DEF r
  <2>4. Len(r) = Len(items)
    BY <1>1, <2>2, <2>3, ListLength
  <2> QED
    BY <1>3, <2>2, <2>3, <2>4 DEF r, S
<1> QED
  BY <1>2, <1>3
-----------------------------------------------------------------------------
(* Moving a thread keeps the set of places. *)
LEMMA GoTyped ==
  ASSUME QueueTypeOK, NEW u \in User, NEW place \in Places, Go(u, place)
  PROVE  /\ at' \in [User -> Places]
         /\ \A w \in User : at'[w] = IF w = u THEN place ELSE at[w]
BY DEF QueueTypeOK, Go

LEMMA OnTheWayFinite ==
  ASSUME NEW a
  PROVE  LET W == {u \in User : a[u] \in {"notifyOne", "test"}}
         IN IsFiniteSet(W) /\ Cardinality(W) \in Nat
BY QueueAssumption, FS_Subset, FS_CardinalityType

LEMMA OnTheWayCounted ==
  /\ IsFiniteSet(OnTheWay)
  /\ Cardinality(OnTheWay) \in Nat /\ Cardinality(OnTheWay)' \in Nat
BY OnTheWayFinite DEF OnTheWay

(* What keeps wakeups coming: nobody that notifies all goes away, nobody   *)
(* new is blocked, and the queue grows by no more elements than threads    *)
(* set out.                                                                *)
LEMMA WakeupsKept ==
  ASSUME NoWakeupLost, Len(items) \in Nat, Len(items)' \in Nat,
         \A u \in User : at[u] = "notifyAll" => at'[u] = "notifyAll",
         Blocked' \subseteq Blocked,
         shut' = shut,
         Len(items)' - Len(items) <= Cardinality(OnTheWay)' - Cardinality(OnTheWay)
  PROVE  NoWakeupLost'
BY OnTheWayCounted DEF NoWakeupLost, Blocked

(* One more, one less, one for another. *)
LEMMA OneMoreOnTheWay ==
  ASSUME NEW u \in User, u \notin OnTheWay, OnTheWay' = OnTheWay \cup {u}
  PROVE  Cardinality(OnTheWay)' = Cardinality(OnTheWay) + 1
BY OnTheWayCounted, FS_AddElement

LEMMA OneLessOnTheWay ==
  ASSUME NEW u \in User, u \in OnTheWay, OnTheWay' = OnTheWay \ {u}
  PROVE  Cardinality(OnTheWay)' = Cardinality(OnTheWay) - 1
BY OnTheWayCounted, FS_RemoveElement
-----------------------------------------------------------------------------
LEMMA LessSame == order' = order => Less' = Less
BY DEF Less

LEMMA QueueInitInv == QueueInit => QueueInv
<1> SUFFICES ASSUME QueueInit PROVE QueueInv
  OBVIOUS
<1>1. QueueTypeOK
  BY EmptySeq DEF QueueInit, QueueTypeOK, Places
<1>2. MutexHeld /\ TestedInVain /\ Calls /\ NoWakeupLost
  BY QueueAssumption DEF QueueInit, MutexHeld, TestedInVain, Calls, NoWakeupLost, Blocked
<1>3. Stored
  <2>1. PID \ (held \cup dropped) = {}
    BY DEF QueueInit
  <2> QED
    BY <2>1, EmptyLists DEF QueueInit, Stored
<1>4. ItemsSorted
  BY EmptySorted DEF QueueInit, ItemsSorted
<1> QED
  BY <1>1, <1>2, <1>3, <1>4 DEF QueueInv

(* push and push_all; after the shutdown they drop what they are given. *)
LEMMA OfferedInv ==
  ASSUME QueueInv, NEW u \in User, NEW D, Lists(D, Range(D)), Range(D) \subseteq held,
         NEW place \in {"notifyOne", "notifyAll"}, Offered(u, D, place),
         place = "notifyOne" => Len(D) = 1
  PROVE  QueueInv'
<1>1. QueueTypeOK /\ order' = order /\ shut' = shut /\ mutex' = mutex /\ call' = call
  BY DEF QueueInv, Offered
<1>2. at[u] = "out" /\ mutex = NoUser /\ held' = held \ Range(D)
  BY DEF Offered, Locked
<1>3. CASE shut
  <2>1. /\ dropped' = dropped \cup Range(D) /\ items' = items /\ at' = at
        /\ held' \cup dropped' = held \cup dropped
    BY <1>2, <1>3 DEF Offered
  <2>2. QueueTypeOK'
    BY <1>1, <1>2, <2>1 DEF QueueTypeOK
  <2>3. MutexHeld' /\ TestedInVain' /\ Calls' /\ NoWakeupLost'
    BY <1>1, <2>1 DEF QueueInv, MutexHeld, TestedInVain, Calls, NoWakeupLost, Blocked, OnTheWay
  <2>4. Stored'
    BY <1>2, <2>1 DEF QueueInv, Stored
  <2>5. ItemsSorted'
    BY <1>1, <2>1, LessSame DEF QueueInv, ItemsSorted
  <2> QED
    BY <2>2, <2>3, <2>4, <2>5 DEF QueueInv
<1>4. CASE ~shut
  <2>1. items' = Inserted(D) /\ dropped' = dropped /\ Go(u, place) /\ place \in Places
    BY <1>4 DEF Offered, Places
  <2>2. /\ at' \in [User -> Places]
        /\ \A w \in User : at'[w] = IF w = u THEN place ELSE at[w]
    BY <1>1, <2>1, GoTyped
  <2>3. /\ Lists(items', (PID \ (held \cup dropped)) \cup Range(D))
        /\ Len(items') = Len(items) + Len(D)
        /\ order # "FIFO" => SortedBy(items', Less)
    BY <2>1, InsertedLists
  <2>4. PID \ (held' \cup dropped') = (PID \ (held \cup dropped)) \cup Range(D)
    BY <1>1, <1>2, <2>1 DEF QueueInv, QueueTypeOK, Stored
  <2>5. Stored' /\ items' \in Seq(PID)
    BY <1>2, <2>1, <2>3, <2>4 DEF QueueInv, Stored, Lists
  <2>6. ItemsSorted'
    BY <1>1, <2>3, LessSame DEF ItemsSorted
  <2>7. QueueTypeOK'
    BY <1>1, <1>2, <2>1, <2>2, <2>5 DEF QueueTypeOK
  <2>8. MutexHeld' /\ TestedInVain'
    BY <1>1, <1>2, <2>2, QueueAssumption DEF QueueInv, MutexHeld, TestedInVain
  <2>9. Calls'
    BY <1>1, <1>2, <2>2 DEF QueueInv, Calls
  <2>10. NoWakeupLost'
    <3>1. CASE place = "notifyAll"
      BY <2>2, <3>1 DEF NoWakeupLost
    <3>2. CASE place = "notifyOne"
      <4>1. Len(items) \in Nat /\ Len(items)' \in Nat /\ Len(items)' <= Len(items) + 1
        <5>1. Len(items) \in Nat /\ Len(items') \in Nat
          BY <1>1, <2>5, LenProperties DEF QueueTypeOK
        <5>2. Len(D) = 1
          BY <3>2
        <5>3. Len(items') = Len(items) + 1
          BY <2>3, <5>2
        <5> QED
          BY <5>1, <5>3
      <4>2. u \notin OnTheWay /\ OnTheWay' = OnTheWay \cup {u}
        BY <1>2, <2>2, <3>2 DEF OnTheWay
      <4>3. Cardinality(OnTheWay)' = Cardinality(OnTheWay) + 1
        BY <4>2, OneMoreOnTheWay
      <4>4. /\ \A w \in User : at[w] = "notifyAll" => at'[w] = "notifyAll"
            /\ Blocked' \subseteq Blocked
        BY <1>2, <2>2, <3>2 DEF Blocked
      <4>5. Len(items)' - Len(items) <= Cardinality(OnTheWay)' - Cardinality(OnTheWay)
        BY <4>1, <4>3, OnTheWayCounted
      <4> QED
        BY <1>1, <4>1, <4>4, <4>5, WakeupsKept DEF QueueInv
    <3> QED
      BY <3>1, <3>2
  <2> QED
    BY <2>5, <2>6, <2>7, <2>8, <2>9, <2>10 DEF QueueInv
<1> QED
  BY <1>3, <1>4

(* A step that leaves the queue as it is. *)
LEMMA QueueSame ==
  ASSUME QueueInv, UNCHANGED <<order, items, held, dropped>>
  PROVE  Stored' /\ ItemsSorted' /\ Len(items) \in Nat /\ Len(items)' \in Nat
BY LessSame, LenProperties DEF QueueInv, QueueTypeOK, Stored, ItemsSorted

(* notify_one hands the way to the predicate on to a blocked thread. *)
LEMMA NotifyOneInv ==
  ASSUME QueueInv, NEW u \in User, NotifyOne(u)
  PROVE  QueueInv'
<1>1. /\ UNCHANGED <<order, items, shut, mutex, call, held, dropped>>
      /\ QueueTypeOK /\ at[u] = "notifyOne" /\ at \in [User -> Places]
  BY DEF QueueInv, QueueTypeOK, NotifyOne
<1>2. Stored' /\ ItemsSorted' /\ Len(items) \in Nat /\ Len(items)' \in Nat
  BY <1>1, QueueSame
<1>3. CASE Blocked = {} /\ Go(u, "out")
  <2>1. /\ at' \in [User -> Places]
        /\ \A v \in User : at'[v] = IF v = u THEN "out" ELSE at[v]
    BY <1>1, <1>3, GoTyped DEF Places
  <2>2. QueueTypeOK' /\ MutexHeld' /\ TestedInVain' /\ Calls'
    BY <1>1, <2>1 DEF QueueInv, QueueTypeOK, MutexHeld, TestedInVain, Calls
  <2>3. NoWakeupLost'
    BY <1>3, <2>1 DEF NoWakeupLost, Blocked
  <2> QED
    BY <1>2, <2>2, <2>3 DEF QueueInv
<1>4. ASSUME NEW w \in Blocked, at' = [at EXCEPT ![u] = "out", ![w] = "test"]
      PROVE  QueueInv'
  <2>1. w \in User /\ at[w] = "blocked" /\ w # u
    BY <1>1 DEF Blocked
  <2>2. /\ at' \in [User -> Places]
        /\ \A v \in User : at'[v] = IF v = u THEN "out" ELSE IF v = w THEN "test" ELSE at[v]
    BY <1>1, <1>4, <2>1 DEF Places
  <2>3. QueueTypeOK' /\ MutexHeld' /\ TestedInVain' /\ Calls'
    BY <1>1, <2>1, <2>2 DEF QueueInv, QueueTypeOK, MutexHeld, TestedInVain, Calls
  <2>4. Cardinality(OnTheWay)' = Cardinality(OnTheWay)
    <3>1. /\ u \in OnTheWay /\ w \notin OnTheWay
          /\ OnTheWay' = (OnTheWay \ {u}) \cup {w}
      BY <1>1, <2>1, <2>2 DEF OnTheWay
    <3>2. IsFiniteSet(OnTheWay) /\ Cardinality(OnTheWay) \in Nat
      BY OnTheWayCounted
    <3>3. /\ IsFiniteSet(OnTheWay \ {u})
          /\ Cardinality(OnTheWay \ {u}) = Cardinality(OnTheWay) - 1
      BY <3>1, <3>2, FS_RemoveElement
    <3>4. Cardinality((OnTheWay \ {u}) \cup {w}) = Cardinality(OnTheWay \ {u}) + 1
      BY <3>1, <3>3, FS_AddElement
    <3> QED
      BY <3>1, <3>2, <3>3, <3>4
  <2>5. /\ \A v \in User : at[v] = "notifyAll" => at'[v] = "notifyAll"
        /\ Blocked' \subseteq Blocked
    BY <1>1, <2>1, <2>2 DEF Blocked
  <2>6. Len(items)' - Len(items) <= Cardinality(OnTheWay)' - Cardinality(OnTheWay)
    BY <1>1, <1>2, <2>4, OnTheWayCounted
  <2>7. NoWakeupLost'
    BY <1>1, <1>2, <2>5, <2>6, WakeupsKept DEF QueueInv
  <2> QED
    BY <1>2, <2>3, <2>7 DEF QueueInv
<1> QED
  BY <1>3, <1>4 DEF NotifyOne

(* notify_all leaves nobody blocked. *)
LEMMA NotifyAllInv ==
  ASSUME QueueInv, NEW u \in User, NotifyAll(u)
  PROVE  QueueInv'
<1>1. /\ UNCHANGED <<order, items, shut, mutex, call, held, dropped>>
      /\ at[u] = "notifyAll" /\ at \in [User -> Places]
  BY DEF QueueInv, QueueTypeOK, NotifyAll
<1>2. Stored' /\ ItemsSorted'
  BY <1>1, QueueSame
<1>3. /\ at' \in [User -> Places]
      /\ \A v \in User : at'[v] = IF v = u THEN "out"
                                  ELSE IF at[v] = "blocked" THEN "test" ELSE at[v]
  BY <1>1 DEF NotifyAll, Blocked, Places
<1>4. QueueTypeOK' /\ MutexHeld' /\ TestedInVain' /\ Calls'
  BY <1>1, <1>3 DEF QueueInv, QueueTypeOK, MutexHeld, TestedInVain, Calls
<1>5. NoWakeupLost'
  BY <1>1, <1>3 DEF NoWakeupLost, Blocked
<1> QED
  BY <1>2, <1>4, <1>5 DEF QueueInv

(* pop and pop_for go to the test; so does a spurious wakeup. *)
LEMMA GoToTest ==
  ASSUME QueueInv, NEW u \in User, at[u] \in {"out", "blocked"}, Go(u, "test"),
         UNCHANGED <<order, items, shut, mutex, held, dropped>>,
         call' \in [User -> {"none", "pop", "pop_for"}],
         call'[u] # "none", \A w \in User \ {u} : call'[w] = call[w]
  PROVE  QueueInv'
<1>1. Stored' /\ ItemsSorted' /\ Len(items) \in Nat /\ Len(items)' \in Nat
  BY QueueSame
<1>2. /\ at' \in [User -> Places]
      /\ \A w \in User : at'[w] = IF w = u THEN "test" ELSE at[w]
  BY GoTyped DEF QueueInv, Places
<1>3. QueueTypeOK' /\ MutexHeld' /\ TestedInVain' /\ Calls'
  BY <1>2 DEF QueueInv, QueueTypeOK, MutexHeld, TestedInVain, Calls
<1>4. Cardinality(OnTheWay)' = Cardinality(OnTheWay) + 1
  <2>1. u \notin OnTheWay /\ OnTheWay' = OnTheWay \cup {u}
    BY <1>2 DEF OnTheWay
  <2> QED
    BY <2>1, OneMoreOnTheWay
<1>5. /\ \A w \in User : at[w] = "notifyAll" => at'[w] = "notifyAll"
      /\ Blocked' \subseteq Blocked
  BY <1>2 DEF Blocked
<1>6. Len(items)' - Len(items) <= Cardinality(OnTheWay)' - Cardinality(OnTheWay)
  BY <1>1, <1>4, OnTheWayCounted
<1>7. NoWakeupLost'
  BY <1>1, <1>5, <1>6, WakeupsKept DEF QueueInv
<1> QED
  BY <1>1, <1>3, <1>7 DEF QueueInv

(* Taking the front, if there is one. *)
LEMMA TakeStores ==
  ASSUME QueueInv, TakeOrNothing, UNCHANGED <<order, dropped>>
  PROVE  /\ Stored' /\ ItemsSorted' /\ items' \in Seq(PID) /\ held' \subseteq PID
         /\ Len(items) \in Nat /\ Len(items)' \in Nat
         /\ IF items = <<>> THEN items' = <<>> /\ Len(items)' = Len(items)
                            ELSE Len(items)' = Len(items) - 1
<1>1. CASE items = <<>>
  <2>1. UNCHANGED <<order, items, held, dropped>>
    BY <1>1 DEF TakeOrNothing
  <2> QED
    BY <1>1, <2>1, QueueSame DEF QueueInv, QueueTypeOK
<1>2. CASE items # <<>>
  <2>1. items' = Tail(items) /\ held' = held \cup {Head(items)}
    BY <1>2 DEF TakeOrNothing, TakeFront
  <2>2. /\ Head(items) \in PID \ (held \cup dropped)
        /\ Lists(Tail(items), PID \ ((held \cup {Head(items)}) \cup dropped))
        /\ Len(Tail(items)) = Len(items) - 1 /\ Len(items) \in Nat
        /\ order # "FIFO" => SortedBy(Tail(items), Less)
    BY <1>2, FrontTaken
  <2>3. Stored' /\ items' \in Seq(PID)
    BY <2>1, <2>2 DEF QueueInv, Stored, Lists
  <2>4. ItemsSorted' /\ held' \subseteq PID
    BY <2>1, <2>2, LessSame DEF QueueInv, QueueTypeOK, ItemsSorted
  <2>5. Len(items)' \in Nat /\ Len(items)' = Len(items) - 1
    BY <2>1, <2>2, <2>3, LenProperties
  <2> QED
    BY <1>2, <2>2, <2>3, <2>4, <2>5
<1> QED
  BY <1>1, <1>2

(* The test of a wait: it takes a process and the thread is no longer on   *)
(* its way, or it finds the queue empty and the mutex stays locked.        *)
LEMMA TestInv ==
  ASSUME QueueInv, NEW u \in User, Test(u)
  PROVE  QueueInv'
<1>1. /\ UNCHANGED <<order, shut, dropped>> /\ at[u] = "test" /\ mutex = NoUser
      /\ QueueTypeOK /\ at \in [User -> Places] /\ u # NoUser
      /\ call \in [User -> {"none", "pop", "pop_for"}]
  BY QueueAssumption DEF QueueInv, QueueTypeOK, Test, Locked
<1>2. u \in OnTheWay
  BY <1>1 DEF OnTheWay
<1>3. CASE Awaited
  <2>1. TakeOrNothing /\ Return(u) /\ mutex' = mutex
    BY <1>3 DEF Test
  <2>2. /\ Stored' /\ ItemsSorted' /\ items' \in Seq(PID) /\ held' \subseteq PID
        /\ Len(items) \in Nat /\ Len(items)' \in Nat
        /\ IF items = <<>> THEN items' = <<>> /\ Len(items)' = Len(items)
                           ELSE Len(items)' = Len(items) - 1
    BY <1>1, <2>1, TakeStores
  <2>3. /\ at' \in [User -> Places] /\ call' \in [User -> {"none", "pop", "pop_for"}]
        /\ \A w \in User : at'[w] = IF w = u THEN "out" ELSE at[w]
        /\ \A w \in User : call'[w] = IF w = u THEN "none" ELSE call[w]
    BY <1>1, <2>1, GoTyped DEF Return, Places
  <2>4. QueueTypeOK' /\ MutexHeld' /\ TestedInVain' /\ Calls'
    BY <1>1, <2>1, <2>2, <2>3
       DEF QueueInv, QueueTypeOK, MutexHeld, TestedInVain, Calls
  <2>5. OnTheWay' = OnTheWay \ {u} /\ Blocked' = Blocked
    BY <1>1, <2>3 DEF OnTheWay, Blocked
  <2>6. Cardinality(OnTheWay)' = Cardinality(OnTheWay) - 1
    BY <1>2, <2>5, OneLessOnTheWay
  <2>7. /\ \A w \in User : at[w] = "notifyAll" => at'[w] = "notifyAll"
        /\ (\A w \in User : at'[w] # "notifyAll") => \A w \in User : at[w] # "notifyAll"
    BY <1>1, <2>3
  <2>8. NoWakeupLost'
    <3>1. CASE items = <<>>
      <4>1. shut
        BY <1>3, <3>1 DEF Awaited
      <4> QED
        BY <2>5, <2>7, <4>1 DEF QueueInv, NoWakeupLost
    <3>2. CASE items # <<>>
      <4>1. Len(items)' - Len(items) <= Cardinality(OnTheWay)' - Cardinality(OnTheWay)
        BY <2>2, <2>6, <3>2, OnTheWayCounted
      <4> QED
        BY <1>1, <2>2, <2>5, <2>7, <4>1, WakeupsKept DEF QueueInv
    <3> QED
      BY <3>1, <3>2
  <2> QED
    BY <2>2, <2>4, <2>8 DEF QueueInv
<1>4. CASE ~Awaited
  <2>1. Go(u, "tested") /\ mutex' = u /\ UNCHANGED <<items, held, call>>
    BY <1>4 DEF Test
  <2>2. Stored' /\ ItemsSorted' /\ items = <<>> /\ ~shut
    BY <1>1, <1>4, <2>1, QueueSame DEF Awaited
  <2>3. /\ at' \in [User -> Places]
        /\ \A w \in User : at'[w] = IF w = u THEN "tested" ELSE at[w]
    BY <1>1, <2>1, GoTyped DEF Places
  <2>4. QueueTypeOK' /\ MutexHeld' /\ TestedInVain' /\ Calls'
    BY <1>1, <2>1, <2>2, <2>3, QueueAssumption
       DEF QueueInv, QueueTypeOK, MutexHeld, TestedInVain, Calls
  <2>5. NoWakeupLost'
    BY <1>1, <2>1, <2>2, EmptySeq, OnTheWayCounted DEF NoWakeupLost
  <2> QED
    BY <2>2, <2>4, <2>5 DEF QueueInv
<1> QED
  BY <1>3, <1>4

(* The queue is still empty and open when the thread blocks. *)
LEMMA BlockInv ==
  ASSUME QueueInv, NEW u \in User, Block(u)
  PROVE  QueueInv'
<1>1. /\ UNCHANGED <<order, items, shut, call, held, dropped>> /\ mutex' = NoUser
      /\ QueueTypeOK /\ Go(u, "blocked") /\ at[u] = "tested" /\ mutex = u /\ u # NoUser
      /\ items = <<>> /\ ~shut
  BY QueueAssumption DEF QueueInv, Block, MutexHeld, TestedInVain
<1>2. Stored' /\ ItemsSorted'
  BY <1>1, QueueSame
<1>3. /\ at' \in [User -> Places]
      /\ \A w \in User : at'[w] = IF w = u THEN "blocked" ELSE at[w]
  BY <1>1, GoTyped DEF Places
<1>4. QueueTypeOK' /\ MutexHeld' /\ TestedInVain' /\ Calls'
  BY <1>1, <1>3, QueueAssumption
     DEF QueueInv, QueueTypeOK, MutexHeld, TestedInVain, Calls
<1>5. NoWakeupLost'
  BY <1>1, EmptySeq, OnTheWayCounted DEF NoWakeupLost
<1> QED
  BY <1>2, <1>4, <1>5 DEF QueueInv

LEMMA TimeoutInv ==
  ASSUME QueueInv, NEW u \in User, Timeout(u)
  PROVE  QueueInv'
<1>1. /\ UNCHANGED <<order, items, shut, mutex, call, held, dropped>>
      /\ QueueTypeOK /\ Go(u, "late") /\ at[u] = "blocked" /\ call[u] = "pop_for"
  BY DEF QueueInv, Timeout
<1>2. Stored' /\ ItemsSorted' /\ Len(items) \in Nat /\ Len(items)' \in Nat
  BY <1>1, QueueSame
<1>3. /\ at' \in [User -> Places]
      /\ \A w \in User : at'[w] = IF w = u THEN "late" ELSE at[w]
  BY <1>1, GoTyped DEF Places
<1>4. QueueTypeOK' /\ MutexHeld' /\ TestedInVain' /\ Calls'
  BY <1>1, <1>3 DEF QueueInv, QueueTypeOK, MutexHeld, TestedInVain, Calls
<1>5. OnTheWay' = OnTheWay /\ Blocked' \subseteq Blocked
  BY <1>1, <1>3 DEF OnTheWay, Blocked
<1>6. Len(items)' - Len(items) <= Cardinality(OnTheWay)' - Cardinality(OnTheWay)
  BY <1>1, <1>2, <1>5, OnTheWayCounted
<1>7. NoWakeupLost'
  BY <1>1, <1>2, <1>3, <1>5, <1>6, WakeupsKept DEF QueueInv
<1> QED
  BY <1>2, <1>4, <1>7 DEF QueueInv

(* The last test after a deadline. *)
LEMMA LastTestInv ==
  ASSUME QueueInv, NEW u \in User, LastTest(u)
  PROVE  QueueInv'
<1>1. /\ UNCHANGED <<order, shut, mutex, dropped>> /\ TakeOrNothing /\ Return(u)
      /\ QueueTypeOK /\ at[u] = "late" /\ mutex = NoUser
      /\ call \in [User -> {"none", "pop", "pop_for"}]
  BY DEF QueueInv, QueueTypeOK, LastTest, Locked
<1>2. /\ Stored' /\ ItemsSorted' /\ items' \in Seq(PID) /\ held' \subseteq PID
      /\ Len(items) \in Nat /\ Len(items)' \in Nat
      /\ IF items = <<>> THEN items' = <<>> /\ Len(items)' = Len(items)
                         ELSE Len(items)' = Len(items) - 1
  BY <1>1, TakeStores
<1>3. /\ at' \in [User -> Places] /\ call' \in [User -> {"none", "pop", "pop_for"}]
      /\ \A w \in User : at'[w] = IF w = u THEN "out" ELSE at[w]
      /\ \A w \in User : call'[w] = IF w = u THEN "none" ELSE call[w]
  BY <1>1, GoTyped DEF Return, Places
<1>4. QueueTypeOK' /\ MutexHeld' /\ TestedInVain' /\ Calls'
  BY <1>1, <1>2, <1>3 DEF QueueInv, QueueTypeOK, MutexHeld, TestedInVain, Calls
<1>5. OnTheWay' = OnTheWay /\ Blocked' = Blocked
  BY <1>1, <1>3 DEF OnTheWay, Blocked
<1>6. Len(items)' - Len(items) <= Cardinality(OnTheWay)' - Cardinality(OnTheWay)
  BY <1>1, <1>2, <1>5, OnTheWayCounted
<1>7. NoWakeupLost'
  BY <1>1, <1>2, <1>3, <1>5, <1>6, WakeupsKept DEF QueueInv
<1> QED
  BY <1>2, <1>4, <1>7 DEF QueueInv

(* A critical section that does not wait and moves no thread. *)
LEMMA AtOnce ==
  ASSUME QueueInv, UNCHANGED <<order, shut, mutex, at, call, dropped>>,
         mutex = NoUser, held' \subseteq PID, Stored', ItemsSorted',
         Len(items)' <= Len(items)
  PROVE  QueueInv'
<1>1. items' \in Seq(PID)
  BY DEF Stored, Lists
<1>2. Len(items) \in Nat /\ Len(items)' \in Nat
  BY <1>1, LenProperties DEF QueueInv, QueueTypeOK
<1>3. QueueTypeOK' /\ MutexHeld' /\ Calls'
  BY <1>1 DEF QueueInv, QueueTypeOK, MutexHeld, Calls
<1>4. TestedInVain'
  BY QueueAssumption DEF QueueInv, MutexHeld, TestedInVain
<1>5. OnTheWay' = OnTheWay /\ Blocked' = Blocked
  BY DEF OnTheWay, Blocked
<1>6. Len(items)' - Len(items) <= Cardinality(OnTheWay)' - Cardinality(OnTheWay)
  BY <1>2, <1>5, OnTheWayCounted
<1>7. NoWakeupLost'
  BY <1>2, <1>5, <1>6, WakeupsKept DEF QueueInv
<1> QED
  BY <1>3, <1>4, <1>7 DEF QueueInv

LEMMA TryPopInv ==
  ASSUME QueueInv, NEW u \in User, TryPop(u)
  PROVE  QueueInv'
<1>1. /\ UNCHANGED <<order, shut, mutex, at, call, dropped>> /\ mutex = NoUser
      /\ items # <<>> /\ TakeOrNothing
  BY DEF TryPop, Locked, TakeOrNothing
<1>2. /\ Stored' /\ ItemsSorted' /\ held' \subseteq PID
      /\ Len(items) \in Nat /\ Len(items)' = Len(items) - 1
  BY <1>1, TakeStores
<1> QED
  BY <1>1, <1>2, AtOnce

LEMMA RemoveInv ==
  ASSUME QueueInv, NEW u \in User, NEW p \in PID, RemovePid(u, p)
  PROVE  QueueInv'
<1>1. /\ UNCHANGED <<order, shut, mutex, at, call, dropped>> /\ mutex = NoUser
      /\ p \in Range(items)
      /\ items' = SelectIn(items, PID \ {p}) /\ held' = held \cup {p}
  BY DEF RemovePid, Locked
<1>2. /\ p \in PID \ (held \cup dropped)
      /\ Lists(items', PID \ ((held \cup {p}) \cup dropped))
      /\ Len(items') <= Len(items)
      /\ order # "FIFO" => SortedBy(items', Less)
  BY <1>1, OneRemoved
<1>3. Stored' /\ ItemsSorted' /\ held' \subseteq PID
  BY <1>1, <1>2, LessSame DEF QueueInv, QueueTypeOK, Stored, ItemsSorted
<1> QED
  BY <1>1, <1>2, <1>3, AtOnce

LEMMA ResortInv ==
  ASSUME QueueInv, NEW u \in User, Resort(u)
  PROVE  QueueInv'
<1>1. /\ UNCHANGED <<order, shut, mutex, at, call, held, dropped>> /\ mutex = NoUser
      /\ items' = IF order = "FIFO" THEN items ELSE InsertAll(<<>>, items, Less)
  BY DEF Resort, Locked
<1>2. /\ Lists(items', PID \ (held \cup dropped))
      /\ Len(items') = Len(items)
      /\ order # "FIFO" => SortedBy(items', Less)
  BY <1>1, SortedAgain
<1>3. Stored' /\ ItemsSorted' /\ held' \subseteq PID
  BY <1>1, <1>2, LessSame DEF QueueInv, QueueTypeOK, Stored, ItemsSorted
<1>4. Len(items)' <= Len(items)
  BY <1>2, LenProperties DEF QueueInv, QueueTypeOK
<1> QED
  BY <1>1, <1>3, <1>4, AtOnce

LEMMA CloseInv ==
  ASSUME QueueInv, NEW u \in User, CloseQueue(u)
  PROVE  QueueInv'
<1>1. /\ UNCHANGED <<order, items, mutex, call, held, dropped>> /\ mutex = NoUser
      /\ QueueTypeOK /\ Go(u, "notifyAll") /\ shut' = TRUE /\ at[u] = "out"
  BY DEF QueueInv, CloseQueue, Locked
<1>2. Stored' /\ ItemsSorted'
  BY <1>1, QueueSame
<1>3. /\ at' \in [User -> Places]
      /\ \A w \in User : at'[w] = IF w = u THEN "notifyAll" ELSE at[w]
  BY <1>1, GoTyped DEF Places
<1>4. QueueTypeOK' /\ MutexHeld' /\ TestedInVain' /\ Calls'
  BY <1>1, <1>3, QueueAssumption
     DEF QueueInv, QueueTypeOK, MutexHeld, TestedInVain, Calls
<1>5. NoWakeupLost'
  BY <1>3 DEF NoWakeupLost
<1> QED
  BY <1>2, <1>4, <1>5 DEF QueueInv

LEMMA StutterInv ==
  ASSUME QueueInv, UNCHANGED queueVars
  PROVE  QueueInv'
<1>1. UNCHANGED <<order, items, shut, mutex, at, call, held, dropped>>
  BY DEF queueVars
<1>2. Stored' /\ ItemsSorted'
  BY <1>1, QueueSame
<1>3. OnTheWay' = OnTheWay
  BY <1>1 DEF OnTheWay
<1>4. QueueTypeOK' /\ MutexHeld' /\ TestedInVain' /\ Calls' /\ NoWakeupLost'
  BY <1>1, <1>3
     DEF QueueInv, QueueTypeOK, MutexHeld, TestedInVain, Calls, NoWakeupLost, Blocked
<1> QED
  BY <1>2, <1>4 DEF QueueInv

LEMMA QueueStepInv == QueueInv /\ [QueueNext]_queueVars => QueueInv'
<1> SUFFICES ASSUME QueueInv, [QueueNext]_queueVars PROVE QueueInv'
  OBVIOUS
<1>1. CASE UNCHANGED queueVars
  BY <1>1, StutterInv
<1>2. ASSUME NEW u \in User, NEW p \in held, Push(u, p) PROVE QueueInv'
  <2>1. Lists(<<p>>, Range(<<p>>)) /\ Range(<<p>>) \subseteq held /\ Len(<<p>>) = 1
    BY PushedLists DEF QueueInv
  <2> QED
    BY <1>2, <2>1, OfferedInv DEF Push
<1>3. ASSUME NEW u \in User, NEW D \in Batches, PushAll(u, D) PROVE QueueInv'
  <2>1. Lists(D, Range(D)) /\ Range(D) \subseteq held
    BY BatchLists DEF QueueInv
  <2> QED
    BY <1>3, <2>1, OfferedInv DEF PushAll
<1>4. ASSUME NEW u \in User, NEW c \in {"pop", "pop_for"}, Ask(u, c) PROVE QueueInv'
  <2>1. /\ at[u] = "out" /\ Go(u, "test") /\ UNCHANGED <<order, items, shut, mutex, held, dropped>>
        /\ call' \in [User -> {"none", "pop", "pop_for"}]
        /\ call'[u] # "none" /\ \A w \in User \ {u} : call'[w] = call[w]
    BY <1>4 DEF Ask, QueueInv, QueueTypeOK
  <2> QED
    BY <2>1, GoToTest
<1>5. ASSUME NEW u \in User, WakeSpuriously(u) PROVE QueueInv'
  <2>1. /\ at[u] = "blocked" /\ Go(u, "test")
        /\ UNCHANGED <<order, items, shut, mutex, held, dropped>>
        /\ call' \in [User -> {"none", "pop", "pop_for"}]
        /\ call'[u] # "none" /\ \A w \in User \ {u} : call'[w] = call[w]
    BY <1>5 DEF WakeSpuriously, QueueInv, QueueTypeOK, Calls
  <2> QED
    BY <2>1, GoToTest
<1>6. ASSUME NEW u \in User, NotifyOne(u) \/ NotifyAll(u) PROVE QueueInv'
  BY <1>6, NotifyOneInv, NotifyAllInv
<1>7. ASSUME NEW u \in User, Test(u) \/ Block(u) \/ Timeout(u) \/ LastTest(u) PROVE QueueInv'
  BY <1>7, TestInv, BlockInv, TimeoutInv, LastTestInv
<1>8. ASSUME NEW u \in User, TryPop(u) \/ Resort(u) \/ CloseQueue(u) PROVE QueueInv'
  BY <1>8, TryPopInv, ResortInv, CloseInv
<1>9. ASSUME NEW u \in User, NEW p \in PID, RemovePid(u, p) PROVE QueueInv'
  BY <1>9, RemoveInv
<1> QED
  BY <1>1, <1>2, <1>3, <1>4, <1>5, <1>6, <1>7, <1>8, <1>9 DEF QueueNext

LEMMA AlwaysQueueInv == QueueSpec => []QueueInv
BY QueueInitInv, QueueStepInv, PTL DEF QueueSpec

(* ReadyQueueApi!NoWakeupLost: whatever threads push, pop, time out, are   *)
(* woken spuriously, remove, re-sort or shut down in whatever order, no    *)
(* thread stays blocked for want of a notification.                        *)
THEOREM NoPushIsMissed == QueueSpec => []NoWakeupLost
BY AlwaysQueueInv, PTL DEF QueueInv

(* The items that push, push_all and resort leave are those that the code's *)
(* insertions leave, one after the other at the position that               *)
(* std::lower_bound finds.                                                  *)
InsertsBySearch ==
  order # "FIFO" =>
    /\ \A D \in Batches : Inserted(D) = InsertOneByOne(items, D, Less)
    /\ InsertAll(<<>>, items, Less) = InsertOneByOne(<<>>, items, Less)

(* The queue of a thread that holds the mutex is sorted whenever an         *)
(* insertion starts, so that a binary search puts every process where the   *)
(* order of ReadyQueueApi has it (ReadyQueue::insert_ordered).              *)
THEOREM PushesBySearch == QueueSpec => []InsertsBySearch
<1>1. ASSUME QueueInv PROVE InsertsBySearch
  <2> SUFFICES ASSUME order # "FIFO"
               PROVE  /\ \A D \in Batches : Inserted(D) = InsertOneByOne(items, D, Less)
                      /\ InsertAll(<<>>, items, Less) = InsertOneByOne(<<>>, items, Less)
    BY DEF InsertsBySearch
  <2> DEFINE S == PID \ (held \cup dropped)
  <2>1. Lists(items, S) /\ SortedBy(items, Less) /\ order \in {"SJF", "PRIORITY"} /\ QueueTypeOK
    BY <1>1 DEF QueueInv, Stored, ItemsSorted, QueueTypeOK, QueueOrder
  <2>2. StrictWeakOrder(Less)
    BY <2>1, LessIsWeakOrder
  <2>3. ASSUME NEW D \in Batches PROVE Inserted(D) = InsertOneByOne(items, D, Less)
    <3>1. Lists(D, Range(D)) /\ Range(D) \subseteq held
      BY <2>1, BatchLists
    <3>2. S \cap Range(D) = {}
      BY <3>1
    <3> HIDE DEF S
    <3>3. InsertOneByOne(items, D, Less) = InsertAll(items, D, Less)
      BY <2>1, <2>2, <3>1, <3>2, InsertionIsStableSort
    <3> QED BY <3>3 DEF Inserted
  <2>4. InsertOneByOne(<<>>, items, Less) = InsertAll(<<>>, items, Less)
    <3> HIDE DEF S
    <3>1. {} \cap S = {}
      OBVIOUS
    <3> QED BY <2>1, <2>2, <3>1, EmptyLists, EmptySorted, InsertionIsStableSort
  <2> QED BY <2>3, <2>4
<1> QED
  BY <1>1, AlwaysQueueInv, PTL
-----------------------------------------------------------------------------
(* The order of a queue without duplicates, as pairs of processes. *)
LEMMA OrderByPosition ==
  ASSUME NEW s \in Seq(PID), IsInjective(s)
  PROVE  \A i, j \in DOMAIN s : <<s[i], s[j]>> \in OrderOf(s) <=> i < j
<1> SUFFICES ASSUME NEW i \in DOMAIN s, NEW j \in DOMAIN s
             PROVE  <<s[i], s[j]>> \in OrderOf(s) <=> i < j
  OBVIOUS
<1>1. ASSUME i < j PROVE <<s[i], s[j]>> \in OrderOf(s)
  <2>1. <<i, j>> \in PositionBefore(s)
    BY <1>1 DEF PositionBefore
  <2> QED
    BY <2>1 DEF OrderOf
<1>2. ASSUME <<s[i], s[j]>> \in OrderOf(s) PROVE i < j
  <2>1. PICK ij \in PositionBefore(s) : <<s[i], s[j]>> = <<s[ij[1]], s[ij[2]]>>
    BY <1>2 DEF OrderOf
  <2>2. ij[1] \in DOMAIN s /\ ij[2] \in DOMAIN s /\ ij[1] < ij[2]
    BY DEF PositionBefore
  <2>3. ij[1] = i /\ ij[2] = j
    BY <2>1, <2>2 DEF IsInjective
  <2> QED
    BY <2>2, <2>3
<1> QED
  BY <1>1, <1>2

(* A queue that becomes another one keeps the order of what stays. *)
KeepsOrder(q, r) ==
  \A x, y \in Range(q) \cap Range(r) : <<x, y>> \in OrderOf(q) <=> <<x, y>> \in OrderOf(r)

(* It is enough that no two of them change places. *)
LEMMA OrderKept ==
  ASSUME NEW q \in Seq(PID), IsInjective(q), NEW r \in Seq(PID), IsInjective(r),
         \A k, m \in DOMAIN r :
           k < m => \A i, j \in DOMAIN q : q[i] = r[k] /\ q[j] = r[m] => i < j
  PROVE  KeepsOrder(q, r)
<1> SUFFICES ASSUME NEW x \in Range(q) \cap Range(r), NEW y \in Range(q) \cap Range(r)
             PROVE  <<x, y>> \in OrderOf(q) <=> <<x, y>> \in OrderOf(r)
  BY DEF KeepsOrder
<1>1. PICK i \in DOMAIN q, j \in DOMAIN q : x = q[i] /\ y = q[j]
  BY DEF Range
<1>2. PICK k \in DOMAIN r, m \in DOMAIN r : x = r[k] /\ y = r[m]
  BY DEF Range
<1>3. i \in Nat /\ j \in Nat /\ k \in Nat /\ m \in Nat
  BY SeqFacts
<1>4. (k < m => i < j) /\ (m < k => j < i) /\ (k = m => i = j)
  BY <1>1, <1>2 DEF IsInjective
<1>5. (<<x, y>> \in OrderOf(q) <=> i < j) /\ (<<x, y>> \in OrderOf(r) <=> k < m)
  BY <1>1, <1>2, OrderByPosition
<1> QED
  BY <1>3, <1>4, <1>5

(* What is pushed comes after what is there, *)
LEMMA ConcatOrder ==
  ASSUME NEW q, NEW S, Lists(q, S), NEW r, NEW T, Lists(r, T), S \cap T = {}
  PROVE  KeepsOrder(q, q \o r) /\ \A x \in S, y \in T : <<x, y>> \in OrderOf(q \o r)
<1> DEFINE c == q \o r
<1>1. /\ q \in Seq(PID) /\ IsInjective(q) /\ Range(q) = S
      /\ r \in Seq(PID) /\ Range(r) = T
      /\ c \in Seq(PID) /\ IsInjective(c)
  BY ConcatLists DEF Lists
<1>2. /\ DOMAIN q = 1 .. Len(q) /\ Len(q) \in Nat
      /\ DOMAIN r = 1 .. Len(r) /\ Len(r) \in Nat
      /\ DOMAIN c = 1 .. Len(q) + Len(r)
      /\ \A i \in 1 .. Len(q) + Len(r) : c[i] = IF i <= Len(q) THEN q[i] ELSE r[i - Len(q)]
  BY <1>1, LenProperties, ConcatProperties
<1> HIDE DEF c
<1>3. \A i \in DOMAIN q : i \in DOMAIN c /\ c[i] = q[i]
  BY <1>2
<1>4. KeepsOrder(q, c)
  <2>1. \A k, m \in DOMAIN c :
          k < m => \A i, j \in DOMAIN q : q[i] = c[k] /\ q[j] = c[m] => i < j
    <3> SUFFICES ASSUME NEW k \in DOMAIN c, NEW m \in DOMAIN c, k < m,
                        NEW i \in DOMAIN q, NEW j \in DOMAIN q, q[i] = c[k], q[j] = c[m]
                 PROVE  i < j
      OBVIOUS
    <3>1. i = k /\ j = m
      BY <1>1, <1>3 DEF IsInjective
    <3> QED
      BY <3>1
  <2> QED
    BY <1>1, <2>1, OrderKept
<1>5. ASSUME NEW x \in S, NEW y \in T PROVE <<x, y>> \in OrderOf(c)
  <2>1. PICK i \in DOMAIN q : x = q[i]
    BY <1>1 DEF Range
  <2>2. PICK j \in DOMAIN r : y = r[j]
    BY <1>1 DEF Range
  <2>3. Len(q) + j \in DOMAIN c /\ c[Len(q) + j] = y /\ i < Len(q) + j
    BY <1>2, <2>1, <2>2
  <2> QED
    BY <1>1, <1>3, <2>1, <2>3, OrderByPosition
<1> QED
  BY <1>4, <1>5 DEF c

(* what is left when the front goes moves up, *)
LEMMA TailOrder ==
  ASSUME NEW q, NEW S, Lists(q, S), q # <<>>
  PROVE  KeepsOrder(q, Tail(q)) /\ \A y \in S : <<y, Head(q)>> \notin OrderOf(q)
<1> DEFINE r == Tail(q)
<1>1. /\ q \in Seq(PID) /\ IsInjective(q) /\ Range(q) = S
      /\ r \in Seq(PID) /\ IsInjective(r)
  BY TailLists DEF Lists
<1>2. /\ DOMAIN q = 1 .. Len(q) /\ Len(q) \in Nat \ {0} /\ Head(q) = q[1]
      /\ DOMAIN r = 1 .. Len(q) - 1
      /\ \A i \in 1 .. Len(q) - 1 : r[i] = q[i + 1]
  BY <1>1, LenProperties, EmptySeq, HeadTailProperties
<1> HIDE DEF r
<1>3. \A k, m \in DOMAIN r :
        k < m => \A i, j \in DOMAIN q : q[i] = r[k] /\ q[j] = r[m] => i < j
  <2> SUFFICES ASSUME NEW k \in DOMAIN r, NEW m \in DOMAIN r, k < m,
                      NEW i \in DOMAIN q, NEW j \in DOMAIN q, q[i] = r[k], q[j] = r[m]
               PROVE  i < j
    OBVIOUS
  <2>1. k + 1 \in DOMAIN q /\ m + 1 \in DOMAIN q /\ q[i] = q[k + 1] /\ q[j] = q[m + 1]
    BY <1>2
  <2>2. i = k + 1 /\ j = m + 1
    BY <1>1, <2>1 DEF IsInjective
  <2> QED
    BY <1>2, <2>2
<1>4. ASSUME NEW y \in S PROVE <<y, Head(q)>> \notin OrderOf(q)
  <2>1. PICK i \in DOMAIN q : y = q[i]
    BY <1>1 DEF Range
  <2>2. 1 \in DOMAIN q /\ ~(i < 1)
    BY <1>2
  <2> QED
    BY <1>1, <1>2, <2>1, <2>2, OrderByPosition
<1> QED
  BY <1>1, <1>3, <1>4, OrderKept DEF r

(* and so it does around one that is removed. *)
LEMMA SelectOrder ==
  ASSUME NEW q, NEW S, Lists(q, S), NEW T
  PROVE  KeepsOrder(q, SelectIn(q, T))
<1> DEFINE r == SelectIn(q, T)
<1>1. /\ q \in Seq(PID) /\ IsInjective(q)
      /\ r \in Seq(PID) /\ IsInjective(r)
  BY SelectInLists DEF Lists
<1>2. \A k, m \in DOMAIN r :
        k < m => \E i, j \in DOMAIN q : i < j /\ r[k] = q[i] /\ r[m] = q[j]
  BY <1>1, SelectInOrder
<1> HIDE DEF r
<1>3. \A k, m \in DOMAIN r :
        k < m => \A i, j \in DOMAIN q : q[i] = r[k] /\ q[j] = r[m] => i < j
  <2> SUFFICES ASSUME NEW k \in DOMAIN r, NEW m \in DOMAIN r, k < m,
                      NEW i \in DOMAIN q, NEW j \in DOMAIN q, q[i] = r[k], q[j] = r[m]
               PROVE  i < j
    OBVIOUS
  <2>1. PICK a \in DOMAIN q, b \in DOMAIN q : a < b /\ r[k] = q[a] /\ r[m] = q[b]
    BY <1>2
  <2>2. i = a /\ j = b
    BY <1>1, <2>1 DEF IsInjective
  <2> QED
    BY <2>1, <2>2
<1> QED
  BY <1>1, <1>3, OrderKept DEF r
-----------------------------------------------------------------------------
(* The contract's view: who waits, and what can be handed out next. *)
Patient == {u \in User : call[u] = "pop"}
Hurried == {u \in User : call[u] = "pop_for"}

LEMMA ContractInside ==
  QueueInv => /\ Range(items) = PID \ (held \cup dropped) /\ held \cap dropped = {}
              /\ (items = <<>>) <=> (Range(items) = {})
<1> SUFFICES ASSUME QueueInv
             PROVE  /\ Range(items) = PID \ (held \cup dropped) /\ held \cap dropped = {}
                    /\ (items = <<>>) <=> (Range(items) = {})
  OBVIOUS
<1>1. /\ Range(items) = PID \ (held \cup dropped) /\ held \cap dropped = {}
      /\ items \in Seq(PID)
  BY DEF QueueInv, Stored, Lists
<1>2. DOMAIN items = 1 .. Len(items) /\ Len(items) \in Nat /\ (items = <<>> <=> Len(items) = 0)
  BY <1>1, LenProperties, EmptySeq
<1>3. items # <<>> => 1 \in DOMAIN items
  BY <1>2
<1>4. items # <<>> => Range(items) # {}
  BY <1>3 DEF Range
<1>5. items = <<>> => Range(items) = {}
  BY <1>2 DEF Range
<1> QED
  BY <1>1, <1>4, <1>5

LEMMA ContractOrdered ==
  ASSUME order' = order,
         order = "FIFO" =>
           /\ KeepsOrder(items, items')
           /\ \A x \in Range(items), y \in Range(items') \ Range(items) :
                <<x, y>> \in OrderOf(items')
  PROVE  Contract!Ordered
<1>1. CASE order = "FIFO"
  <2>1. Outranks = OrderOf(items) /\ Outranks' = OrderOf(items')
    BY <1>1 DEF Outranks, OrderOf
  <2> QED
    BY <1>1, <2>1 DEF Contract!Ordered, KeepsOrder
<1>2. CASE order # "FIFO"
  <2>1. Outranks' = Outranks
    BY <1>2, LessSame DEF Outranks
  <2> QED
    BY <1>2, <2>1 DEF Contract!Ordered
<1> QED
  BY <1>1, <1>2

(* The queue that does not change. *)
LEMMA SameOrdered ==
  ASSUME order' = order, items' = items
  PROVE  Contract!Ordered
BY ContractOrdered DEF KeepsOrder

(* Nothing in the queue outranks its front. *)
LEMMA FrontIsBest ==
  ASSUME QueueInv, items # <<>>
  PROVE  ~ \E y \in Range(items) : <<y, Head(items)>> \in Outranks
<1>1. /\ Lists(items, Range(items)) /\ items \in Seq(PID) /\ order \in QueueOrder
  BY DEF QueueInv, QueueTypeOK, Stored, Lists
<1>2. CASE order = "FIFO"
  BY <1>1, <1>2, TailOrder DEF Outranks
<1>3. CASE order # "FIFO"
  <2>1. StrictWeakOrder(Less) /\ SortedBy(items, Less) /\ Outranks = Less
    BY <1>1, <1>3, LessIsWeakOrder DEF QueueInv, ItemsSorted, QueueOrder, Outranks
  <2>2. /\ DOMAIN items = 1 .. Len(items) /\ Len(items) \in Nat \ {0}
        /\ Head(items) = items[1] /\ items[1] \in PID
    BY <1>1, LenProperties, EmptySeq, ElementOfSeq
  <2>3. ASSUME NEW i \in DOMAIN items PROVE <<items[i], items[1]>> \notin Less
    <3>1. CASE i = 1
      BY <2>1, <2>2, <3>1 DEF StrictWeakOrder
    <3>2. CASE i # 1
      <4>1. 1 < i /\ 1 \in DOMAIN items
        BY <2>2, <3>2
      <4> QED
        BY <2>1, <4>1 DEF SortedBy
    <3> QED
      BY <3>1, <3>2
  <2> QED
    BY <2>1, <2>2, <2>3 DEF Range
<1> QED
  BY <1>2, <1>3

(* Handing out the front, whoever takes it. *)
LEMMA TakeHandsOut ==
  ASSUME QueueInv, items # <<>>, TakeFront, UNCHANGED <<order, shut, dropped>>
  PROVE  /\ Head(items) \in Range(items)
         /\ Contract!HandOut(Head(items)) /\ Contract!Ordered
<1>1. /\ items' = Tail(items) /\ held' = held \cup {Head(items)}
      /\ Lists(items, Range(items))
  BY DEF TakeFront, QueueInv, Stored, Lists
<1>2. Head(items) \in Range(items) /\ Range(items') = Range(items) \ {Head(items)}
  BY <1>1, TailLists DEF Lists
<1>3. Contract!HandOut(Head(items))
  BY <1>1, <1>2, FrontIsBest DEF Contract!HandOut, Contract!Remove
<1>4. KeepsOrder(items, items')
  BY <1>1, TailOrder
<1>5. Contract!Ordered
  BY <1>2, <1>4, ContractOrdered
<1> QED
  BY <1>2, <1>3, <1>5

(* A push is an offer. *)
LEMMA OfferedOffers ==
  ASSUME QueueInv, NEW u \in User, NEW D, Lists(D, Range(D)), Range(D) \subseteq held,
         NEW place, Offered(u, D, place)
  PROVE  Contract!ClientStep /\ Contract!Ordered
<1>1. /\ order' = order /\ shut' = shut /\ call' = call /\ held' = held \ Range(D)
      /\ QueueTypeOK
  BY DEF QueueInv, Offered
<1>2. Lists(items, Range(items)) /\ Range(items) \cap Range(D) = {}
  BY DEF QueueInv, Stored, Lists
<1>3. CASE shut
  <2>1. dropped' = dropped \cup Range(D) /\ items' = items
    BY <1>3 DEF Offered
  <2>2. Contract!Offer(Range(D))
    BY <1>1, <1>3, <2>1 DEF Contract!Offer
  <2> QED
    BY <1>1, <2>1, <2>2, SameOrdered DEF Contract!ClientStep
<1>4. CASE ~shut
  <2>1. items' = Inserted(D) /\ dropped' = dropped
    BY <1>4 DEF Offered
  <2>2. Range(items') = Range(items) \cup Range(D)
    BY <2>1, InsertedLists DEF QueueInv, Stored, Lists
  <2>3. Contract!Offer(Range(D))
    BY <1>1, <1>4, <2>1, <2>2 DEF Contract!Offer
  <2>4. ASSUME order = "FIFO"
        PROVE  /\ KeepsOrder(items, items')
               /\ \A x \in Range(items), y \in Range(D) : <<x, y>> \in OrderOf(items')
    <3>1. items' = items \o D
      BY <2>1, <2>4 DEF Inserted
    <3> QED
      BY <1>2, <3>1, ConcatOrder
  <2>5. Contract!Ordered
    BY <1>1, <2>2, <2>4, ContractOrdered
  <2> QED
    BY <2>3, <2>5 DEF Contract!ClientStep
<1> QED
  BY <1>3, <1>4

(* A call that returns takes the caller off the clients that wait. *)
LEMMA ReturnAnswers ==
  ASSUME QueueTypeOK, NEW u \in User, call[u] # "none", Return(u)
  PROVE  Contract!Answer(u)
<1>1. call \in [User -> {"none", "pop", "pop_for"}]
      /\ call' = [call EXCEPT ![u] = "none"]
  BY DEF QueueTypeOK, Return
<1>2. /\ u \in Patient \cup Hurried
      /\ Patient' = Patient \ {u} /\ Hurried' = Hurried \ {u}
  BY <1>1 DEF Patient, Hurried
<1> QED
  BY <1>2 DEF Contract!Answer, Patient, Hurried

(* A call that returns: with the front, or with nothing because there is   *)
(* nothing, and in pop only after the shutdown.                            *)
LEMMA ReturnKeepsContract ==
  ASSUME QueueInv, NEW u \in User, call[u] # "none", Return(u), TakeOrNothing,
         UNCHANGED <<order, shut, dropped>>,
         items = <<>> => call[u] = "pop_for" \/ shut
  PROVE  Contract!ClientStep /\ Contract!Ordered
<1>1. Contract!Answer(u)
  BY ReturnAnswers DEF QueueInv
<1>2. CASE items = <<>>
  <2>1. items' = items /\ held' = held
    BY <1>2 DEF TakeOrNothing
  <2>2. Range(items) = {}
    BY <1>2, ContractInside
  <2>3. Contract!GiveUp(u)
    BY <1>1, <1>2, <2>1, <2>2 DEF Contract!GiveUp
  <2> QED
    BY <2>1, <2>3, SameOrdered DEF Contract!ClientStep
<1>3. CASE items # <<>>
  <2>1. TakeFront
    BY <1>3 DEF TakeOrNothing
  <2> QED
    BY <1>1, <1>3, <2>1, TakeHandsOut DEF Contract!ClientStep
<1> QED
  BY <1>2, <1>3

LEMMA ContractInitially == QueueInit => Contract!QueueContractInit
<1> SUFFICES ASSUME QueueInit PROVE Contract!QueueContractInit
  OBVIOUS
<1>1. items = <<>> /\ held = PID /\ dropped = {} /\ shut = FALSE
      /\ Patient = {} /\ Hurried = {}
  BY DEF QueueInit, Patient, Hurried
<1>2. Range(items) = {}
  BY <1>1, EmptyLists DEF Lists
<1>3. Outranks \subseteq PID \X PID
  <2>1. CASE order = "FIFO"
    <3>1. DOMAIN items = {}
      BY <1>1, EmptyLists, EmptySeq, LenProperties
    <3> QED
      BY <2>1, <3>1 DEF Outranks, OrderOf, PositionBefore
  <2>2. CASE order # "FIFO"
    BY <2>2 DEF Outranks, Less, ShorterLess, PriorityLess
  <2> QED
    BY <2>1, <2>2
<1> QED
  BY <1>1, <1>2, <1>3 DEF Contract!QueueContractInit, Patient, Hurried

(* A step nobody outside the queue can see. *)
LEMMA InnerStep ==
  ASSUME UNCHANGED <<order, items, shut, call, held, dropped>>
  PROVE  UNCHANGED Contract!queueContractVars
<1>1. Outranks' = Outranks
  BY LessSame DEF Outranks, OrderOf
<1> QED
  BY <1>1 DEF Contract!queueContractVars

LEMMA ContractStep ==
  QueueInv /\ [QueueNext]_queueVars
    => [Contract!QueueContractNext]_(Contract!queueContractVars)
<1> SUFFICES ASSUME QueueInv, [QueueNext]_queueVars
             PROVE  \/ Contract!ClientStep /\ Contract!Ordered
                    \/ UNCHANGED Contract!queueContractVars
  BY DEF Contract!QueueContractNext
<1>1. CASE UNCHANGED queueVars
  BY <1>1, InnerStep DEF queueVars
<1>2. ASSUME NEW u \in User, NEW p \in held, Push(u, p)
      PROVE  Contract!ClientStep /\ Contract!Ordered
  <2>1. Lists(<<p>>, Range(<<p>>)) /\ Range(<<p>>) \subseteq held
    BY PushedLists DEF QueueInv
  <2> QED
    BY <1>2, <2>1, OfferedOffers DEF Push
<1>3. ASSUME NEW u \in User, NEW D \in Batches, PushAll(u, D)
      PROVE  Contract!ClientStep /\ Contract!Ordered
  <2>1. Lists(D, Range(D)) /\ Range(D) \subseteq held
    BY BatchLists DEF QueueInv
  <2> QED
    BY <1>3, <2>1, OfferedOffers DEF PushAll
<1>4. ASSUME NEW u \in User,
             NotifyOne(u) \/ NotifyAll(u) \/ Block(u) \/ WakeSpuriously(u) \/ Timeout(u)
      PROVE  UNCHANGED Contract!queueContractVars
  BY <1>4, InnerStep DEF NotifyOne, NotifyAll, Block, WakeSpuriously, Timeout
<1>5. ASSUME NEW u \in User, NEW c \in {"pop", "pop_for"}, Ask(u, c)
      PROVE  Contract!ClientStep /\ Contract!Ordered
  <2>1. /\ UNCHANGED <<order, items, shut, held, dropped>> /\ call[u] = "none"
        /\ call \in [User -> {"none", "pop", "pop_for"}]
        /\ call' = [call EXCEPT ![u] = c]
    BY <1>5 DEF Ask, QueueInv, QueueTypeOK, Calls
  <2>2. /\ u \notin Patient \cup Hurried
        /\ \/ Patient' = Patient \cup {u} /\ Hurried' = Hurried
           \/ Hurried' = Hurried \cup {u} /\ Patient' = Patient
    BY <2>1 DEF Patient, Hurried
  <2>3. Contract!AskFor(u)
    BY <2>1, <2>2 DEF Contract!AskFor, Patient, Hurried
  <2> QED
    BY <2>1, <2>3, SameOrdered DEF Contract!ClientStep
<1>6. ASSUME NEW u \in User, Test(u)
      PROVE  \/ Contract!ClientStep /\ Contract!Ordered
             \/ UNCHANGED Contract!queueContractVars
  <2>1. call[u] # "none" /\ UNCHANGED <<order, shut, dropped>>
    BY <1>6 DEF Test, Locked, QueueInv, Calls
  <2>2. CASE Awaited
    BY <1>6, <2>1, <2>2, ReturnKeepsContract DEF Test, Awaited
  <2>3. CASE ~Awaited
    BY <1>6, <2>1, <2>3, InnerStep DEF Test
  <2> QED
    BY <2>2, <2>3
<1>7. ASSUME NEW u \in User, LastTest(u)
      PROVE  Contract!ClientStep /\ Contract!Ordered
  <2>1. /\ call[u] = "pop_for" /\ UNCHANGED <<order, shut, dropped>>
        /\ TakeOrNothing /\ Return(u)
    BY <1>7 DEF LastTest, Locked, QueueInv, Calls
  <2> QED
    BY <2>1, ReturnKeepsContract
<1>8. ASSUME NEW u \in User, TryPop(u)
      PROVE  Contract!ClientStep /\ Contract!Ordered
  <2>1. items # <<>> /\ TakeFront /\ UNCHANGED <<order, shut, dropped, call>>
    BY <1>8 DEF TryPop
  <2>2. /\ Head(items) \in Range(items)
        /\ Contract!HandOut(Head(items)) /\ Contract!Ordered
    BY <2>1, TakeHandsOut
  <2> QED
    BY <2>1, <2>2 DEF Contract!ClientStep
<1>9. ASSUME NEW u \in User, NEW p \in PID, RemovePid(u, p)
      PROVE  Contract!ClientStep /\ Contract!Ordered
  <2>1. /\ UNCHANGED <<order, shut, dropped, call>> /\ p \in Range(items)
        /\ items' = SelectIn(items, PID \ {p}) /\ held' = held \cup {p}
    BY <1>9 DEF RemovePid
  <2>2. Lists(items, Range(items)) /\ Range(items) \subseteq PID
    BY DEF QueueInv, Stored, Lists
  <2>3. Range(items') = Range(items) \ {p} /\ KeepsOrder(items, items')
    BY <2>1, <2>2, SelectInLists, SelectOrder DEF Lists
  <2>4. Contract!Remove(p)
    BY <2>1, <2>3 DEF Contract!Remove
  <2>5. Contract!Ordered
    BY <2>1, <2>3, ContractOrdered
  <2> QED
    BY <2>1, <2>4, <2>5 DEF Contract!ClientStep
<1>10. ASSUME NEW u \in User, Resort(u)
       PROVE  UNCHANGED Contract!queueContractVars
  <2>1. /\ UNCHANGED <<order, shut, mutex, at, call, held, dropped>>
        /\ items' = IF order = "FIFO" THEN items ELSE InsertAll(<<>>, items, Less)
    BY <1>10 DEF Resort
  <2>2. CASE order = "FIFO"
    BY <2>1, <2>2, InnerStep
  <2>3. CASE order # "FIFO"
    <3>1. Range(items') = Range(items)
      BY <2>1, SortedAgain DEF QueueInv, Stored, Lists
    <3>2. Outranks' = Outranks
      BY <2>1, <2>3, LessSame DEF Outranks
    <3> QED
      BY <2>1, <3>1, <3>2 DEF Contract!queueContractVars
  <2> QED
    BY <2>2, <2>3
<1>11. ASSUME NEW u \in User, CloseQueue(u)
       PROVE  Contract!ClientStep /\ Contract!Ordered
  <2>1. UNCHANGED <<order, items, call, held, dropped>> /\ shut' = TRUE
    BY <1>11 DEF CloseQueue
  <2>2. Contract!Close
    BY <2>1 DEF Contract!Close
  <2> QED
    BY <2>1, <2>2, SameOrdered DEF Contract!ClientStep
<1> QED
  BY <1>1, <1>2, <1>3, <1>4, <1>5, <1>6, <1>7, <1>8, <1>9, <1>10, <1>11 DEF QueueNext

(* ReadyQueueApi!ImplementsQueueContract: for any number of threads, any   *)
(* processes and any keys, what a client of the queue sees is what its     *)
(* header promises.                                                        *)
THEOREM QueueImplementsContract == QueueSpec => ImplementsQueueContract
<1>1. QueueInit => Contract!QueueContractInit
  BY ContractInitially
<1>2. QueueInv /\ [QueueNext]_queueVars
        => [Contract!QueueContractNext]_(Contract!queueContractVars)
  BY ContractStep
<1> QED
  BY <1>1, <1>2, AlwaysQueueInv, PTL
     DEF QueueSpec, ImplementsQueueContract, Contract!QueueContractSpec
============================================================================
