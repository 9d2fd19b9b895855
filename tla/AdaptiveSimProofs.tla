------------------------- MODULE AdaptiveSimProofs --------------------------
(***************************************************************************)
(* The inductive invariant of AdaptiveSim and what follows from it, for    *)
(* every workload and every value of the tuning constants.                 *)
(***************************************************************************)
EXTENDS AdaptiveSim, ReadyOrderProofs

(* Where every process is: in the queue of the active child, on the level  *)
(* its queue_level names, or nowhere.                                      *)
ReadySet == {p \in PID : pcb[p].state = "READY"}
ReadyAt(l) == {p \in ReadySet : pcb[p].level = l}
Placed ==
  /\ \A pol \in SingleQueue :
       Lists(queue[pol], IF pol = active THEN ReadySet ELSE {})
  /\ \A l \in Levels :
       Lists(levels[l], IF active = "MLFQ" THEN ReadyAt(l) ELSE {})

(* What the CPU thread holds at each of its steps. *)
OnCpu ==
  /\ RunningIsCurrent
  /\ cpu \in {"snapshot", "preempt", "exec"} => current \in PID
  /\ cpu \in {"fetch", "report"} => current = None
  /\ cpu \in {"preempt", "report"} => held \in PID

IInv == TypeOK /\ Placed /\ OnCpu
-----------------------------------------------------------------------------
LEMMA LevelsAre == Levels = {0, 1, 2, 3}
  BY DEF Levels, NUM_LEVELS

QueuesTyped == /\ queue \in [SingleQueue -> Seq(PID)]
               /\ levels \in [Levels -> Seq(PID)]

(* Queues that are placed are sequences of processes. *)
LEMMA PlacedTyped ==
  ASSUME queue' = [pol \in SingleQueue |-> queue'[pol]],
         levels' = [l \in Levels |-> levels'[l]],
         Placed'
  PROVE  QueuesTyped'
<1>1. \A pol \in SingleQueue : queue'[pol] \in Seq(PID)
  BY DEF Placed, Lists
<1>2. \A l \in Levels : levels'[l] \in Seq(PID)
  BY DEF Placed, Lists
<1> QED BY <1>1, <1>2 DEF QueuesTyped

(* The part of a step in which only the row of p changes. *)
OnlyRow(p) == \A q \in PID \ {p} : pcb'[q] = pcb[q]

(* A process that becomes READY and is pushed on the active queue *)
LEMMA PushPlaces ==
  ASSUME IInv, active' = active, active \in SingleQueue, NEW p \in PID,
         pcb[p].state # "READY", pcb'[p].state = "READY", OnlyRow(p),
         Push(active, p)
  PROVE  Placed' /\ QueuesTyped'
<1> DEFINE pol == active
<1>1. ReadySet' = ReadySet \cup {p} /\ p \notin ReadySet
  BY DEF ReadySet, OnlyRow
<1>2. Lists(queue[pol], ReadySet)
  BY DEF IInv, Placed
<1>3. queue' = [queue EXCEPT ![pol] = IF pol = "PRIORITY"
                                      THEN InsertAll(queue[pol], <<p>>, PriorityLess(pcb))
                                      ELSE Append(queue[pol], p)]
      /\ levels' = levels
  BY DEF Push
<1>4. queue \in [SingleQueue -> Seq(PID)] /\ pcb \in [PID -> PCB]
  BY DEF IInv, TypeOK, ChildTypeOK
<1>5. Lists(queue'[pol], ReadySet')
  <2>1. CASE pol = "PRIORITY"
    <3>1. queue'[pol] = InsertAll(queue[pol], <<p>>, PriorityLess(pcb))
      BY <1>3, <1>4, <2>1
    <3>2. StrictWeakOrder(PriorityLess(pcb))
      BY <1>4, PriorityLessIsWeakOrder
    <3>3. Lists(<<p>>, {p}) /\ ReadySet \cap {p} = {}
      BY <1>1, SingletonLists
    <3>4. Lists(InsertAll(queue[pol], <<p>>, PriorityLess(pcb)), {p} \cup ReadySet)
      BY <1>2, <3>2, <3>3, InsertAllLists
    <3> QED BY <1>1, <3>1, <3>4
  <2>2. CASE pol # "PRIORITY"
    <3>1. queue'[pol] = Append(queue[pol], p)
      BY <1>3, <1>4, <2>2
    <3> QED BY <1>1, <1>2, <3>1, AppendLists
  <2> QED BY <2>1, <2>2
<1>6. ASSUME NEW other \in SingleQueue, other # pol
      PROVE  queue'[other] = queue[other]
  BY <1>3, <1>4, <1>6
<1>7. Placed'
  BY <1>3, <1>5, <1>6 DEF IInv, Placed, SingleQueue
<1>8. /\ queue' = [k \in SingleQueue |-> queue'[k]]
      /\ levels' = [l \in Levels |-> levels'[l]]
  BY <1>3, <1>4 DEF IInv, TypeOK, ChildTypeOK
<1> QED BY <1>7, <1>8, PlacedTyped

(* A process that becomes READY and is pushed on an MLFQ level *)
LEMMA PushLevelPlaces ==
  ASSUME IInv, active' = active, active = "MLFQ", NEW p \in PID, NEW l \in Levels,
         pcb[p].state # "READY", pcb'[p].state = "READY", pcb'[p].level = l,
         OnlyRow(p), PushLevel(l, p)
  PROVE  Placed' /\ QueuesTyped'
<1>1. /\ ReadyAt(l)' = ReadyAt(l) \cup {p} /\ p \notin ReadyAt(l)
      /\ \A k \in Levels \ {l} : ReadyAt(k)' = ReadyAt(k)
  BY DEF ReadyAt, ReadySet, OnlyRow
<1>2. levels' = [levels EXCEPT ![l] = Append(levels[l], p)] /\ queue' = queue
  BY DEF PushLevel
<1>3. levels \in [Levels -> Seq(PID)]
  BY DEF IInv, TypeOK, ChildTypeOK
<1>4. Lists(levels'[l], ReadyAt(l)')
  <2>1. Lists(levels[l], ReadyAt(l))
    BY DEF IInv, Placed
  <2> QED BY <1>1, <1>2, <1>3, <2>1, AppendLists
<1>5. ASSUME NEW k \in Levels, k # l PROVE Lists(levels'[k], ReadyAt(k)')
  BY <1>1, <1>2, <1>3, <1>5 DEF IInv, Placed
<1>6. Placed'
  BY <1>2, <1>4, <1>5 DEF IInv, Placed, SingleQueue
<1>7. /\ queue' = [k \in SingleQueue |-> queue'[k]]
      /\ levels' = [k \in Levels |-> levels'[k]]
  BY <1>2, <1>3 DEF IInv, TypeOK, ChildTypeOK
<1> QED BY <1>6, <1>7, PlacedTyped

(* A process taken from the front of the active child's queue *)
LEMMA PopPlaces ==
  ASSUME IInv, active' = active, NEW p, TryPop(active, p),
         pcb'[p].state # "READY", OnlyRow(p)
  PROVE  p \in ReadySet /\ Placed' /\ QueuesTyped'
<1>1. /\ queue \in [SingleQueue -> Seq(PID)] /\ levels \in [Levels -> Seq(PID)]
      /\ active \in Policies
  BY DEF IInv, TypeOK, ChildTypeOK
<1>2. CASE active \in SingleQueue
  <2>1. /\ queue[active] # <<>> /\ p = Head(queue[active])
        /\ queue' = [queue EXCEPT ![active] = Tail(queue[active])]
        /\ levels' = levels
    BY <1>2 DEF TryPop, SingleQueue
  <2>2. Lists(queue[active], ReadySet)
    BY <1>2 DEF IInv, Placed
  <2>3. p \in ReadySet /\ Lists(Tail(queue[active]), ReadySet \ {p})
    BY <2>1, <2>2, TailLists
  <2>4. ReadySet' = ReadySet \ {p}
    BY <2>3 DEF ReadySet, OnlyRow
  <2>5. Lists(queue'[active], ReadySet')
    BY <1>1, <1>2, <2>1, <2>3, <2>4
  <2>6. \A pol \in SingleQueue \ {active} : queue'[pol] = queue[pol]
    BY <1>1, <2>1
  <2>7. Placed'
    BY <1>2, <2>1, <2>5, <2>6 DEF IInv, Placed, SingleQueue
  <2>8. /\ queue' = [k \in SingleQueue |-> queue'[k]]
        /\ levels' = [l \in Levels |-> levels'[l]]
    BY <1>1, <2>1
  <2> QED BY <2>3, <2>7, <2>8, PlacedTyped
<1>3. CASE active = "MLFQ"
  <2>1. PICK l \in Levels : /\ levels[l] # <<>> /\ p = Head(levels[l])
                            /\ levels' = [levels EXCEPT ![l] = Tail(levels[l])]
    BY <1>3 DEF TryPop, SingleQueue
  <2>2. queue' = queue
    BY <1>3 DEF TryPop, SingleQueue
  <2>3. Lists(levels[l], ReadyAt(l))
    BY <1>3 DEF IInv, Placed
  <2>4. p \in ReadyAt(l) /\ Lists(Tail(levels[l]), ReadyAt(l) \ {p})
    BY <2>1, <2>3, TailLists
  <2>5. /\ ReadyAt(l)' = ReadyAt(l) \ {p}
        /\ \A k \in Levels \ {l} : ReadyAt(k)' = ReadyAt(k)
    BY <2>4 DEF ReadyAt, ReadySet, OnlyRow
  <2>6. Lists(levels'[l], ReadyAt(l)')
    BY <1>1, <2>1, <2>4, <2>5
  <2>7. ASSUME NEW k \in Levels, k # l PROVE Lists(levels'[k], ReadyAt(k)')
    BY <1>1, <1>3, <2>1, <2>5, <2>7 DEF IInv, Placed
  <2>8. Placed'
    BY <1>3, <2>2, <2>6, <2>7 DEF IInv, Placed, SingleQueue
  <2>9. /\ queue' = [pol \in SingleQueue |-> queue'[pol]]
        /\ levels' = [k \in Levels |-> levels'[k]]
    BY <1>1, <2>1, <2>2
  <2>10. p \in ReadySet
    BY <2>4 DEF ReadyAt
  <2> QED BY <2>8, <2>9, <2>10, PlacedTyped
<1> QED BY <1>1, <1>2, <1>3 DEF Policies

(* The snapshot of the active child lists the READY processes. *)
LEMMA SnapshotLists ==
  ASSUME IInv
  PROVE  Lists(Snapshot(active), ReadySet)
<1>1. active \in Policies /\ pcb \in [PID -> PCB]
  BY DEF IInv, TypeOK, ChildTypeOK
<1>2. CASE active \in SingleQueue
  BY <1>2 DEF IInv, Placed, Snapshot, SingleQueue
<1>3. CASE active = "MLFQ"
  <2>1. Snapshot(active) = ((levels[0] \o levels[1]) \o levels[2]) \o levels[3]
    BY <1>3 DEF Snapshot
  <2>2. \A l \in Levels : Lists(levels[l], ReadyAt(l))
    BY <1>3 DEF IInv, Placed
  <2>3. \A k, l \in Levels : k # l => ReadyAt(k) \cap ReadyAt(l) = {}
    BY DEF ReadyAt
  <2>4. 0 \in Levels /\ 1 \in Levels /\ 2 \in Levels /\ 3 \in Levels
    BY LevelsAre
  <2> HIDE DEF Lists
  <2>5. Lists(levels[0] \o levels[1], ReadyAt(0) \cup ReadyAt(1))
    BY <2>2, <2>3, <2>4, ConcatLists
  <2>6. /\ (ReadyAt(0) \cup ReadyAt(1)) \cap ReadyAt(2) = {}
        /\ (ReadyAt(0) \cup ReadyAt(1) \cup ReadyAt(2)) \cap ReadyAt(3) = {}
    BY <2>3, <2>4
  <2>7. Lists((levels[0] \o levels[1]) \o levels[2], ReadyAt(0) \cup ReadyAt(1) \cup ReadyAt(2))
    BY <2>2, <2>4, <2>5, <2>6, ConcatLists
  <2>8. Lists(((levels[0] \o levels[1]) \o levels[2]) \o levels[3],
              ReadyAt(0) \cup ReadyAt(1) \cup ReadyAt(2) \cup ReadyAt(3))
    BY <2>2, <2>4, <2>6, <2>7, ConcatLists
  <2>9. ReadySet = ReadyAt(0) \cup ReadyAt(1) \cup ReadyAt(2) \cup ReadyAt(3)
    BY <1>1, LevelsAre DEF ReadyAt, ReadySet, PCB
  <2> QED BY <2>1, <2>8, <2>9
<1> QED BY <1>1, <1>2, <1>3 DEF Policies

(* A migration moves exactly the READY processes. *)
LEMMA TransferPlaces ==
  ASSUME IInv, NEW to \in Policies, to # active, active' = to,
         Transfer(active, to)
  PROVE  /\ pcb' = [p \in PID |-> IF p \in ReadySet THEN Imported(to, pcb[p]) ELSE pcb[p]]
         /\ ReadySet' = ReadySet
         /\ Placed' /\ QueuesTyped'
<1> DEFINE drained == Snapshot(active)
<1>1. /\ queue \in [SingleQueue -> Seq(PID)] /\ levels \in [Levels -> Seq(PID)]
      /\ active \in Policies /\ pcb \in [PID -> PCB]
  BY DEF IInv, TypeOK, ChildTypeOK
<1>2. Lists(drained, ReadySet)
  BY SnapshotLists
<1>3. Range(drained) = ReadySet
  BY <1>2 DEF Lists
<1>4. pcb' = [p \in PID |-> IF p \in ReadySet THEN Imported(to, pcb[p]) ELSE pcb[p]]
  BY <1>3 DEF Transfer
<1>5. ASSUME NEW p \in PID
      PROVE  /\ pcb'[p].level = pcb[p].level
             /\ pcb'[p].state = "READY" <=> pcb[p].state = "READY"
  <2>1. pcb[p] \in PCB
    BY <1>1
  <2>2. Imported(to, pcb[p]).level = pcb[p].level /\ Imported(to, pcb[p]).state = "READY"
    BY <2>1 DEF Imported, PCB
  <2> QED BY <1>4, <2>2 DEF ReadySet
<1>6. ReadySet' = ReadySet
  BY <1>5 DEF ReadySet
<1>7. \A l \in Levels : ReadyAt(l)' = ReadyAt(l)
  BY <1>5, <1>6 DEF ReadyAt, ReadySet
<1>8. \A pol \in SingleQueue \ {active} : Lists(queue[pol], {})
  BY DEF IInv, Placed
<1>9. ASSUME NEW pol \in SingleQueue
      PROVE  Lists(queue'[pol], IF pol = to THEN ReadySet ELSE {})
  <2>1. queue'[pol] = IF pol = to
                      THEN IF to = "PRIORITY"
                           THEN InsertAll(queue[to], drained, PriorityLess(pcb))
                           ELSE queue[to] \o drained
                      ELSE IF pol = active THEN <<>> ELSE queue[pol]
    BY <1>1 DEF Transfer
  <2> HIDE DEF drained
  <2>2. CASE pol = to /\ to = "PRIORITY"
    <3>1. StrictWeakOrder(PriorityLess(pcb))
      BY <1>1, PriorityLessIsWeakOrder
    <3>2. Lists(queue[to], {}) /\ {} \cap ReadySet = {}
      BY <1>8, <2>2
    <3>3. Lists(InsertAll(queue[to], drained, PriorityLess(pcb)), ReadySet \cup {})
      BY <1>2, <3>1, <3>2, InsertAllLists
    <3> QED BY <2>1, <2>2, <3>3
  <2>3. CASE pol = to /\ to # "PRIORITY"
    <3>1. Lists(queue[to], {}) /\ {} \cap ReadySet = {}
      BY <1>8, <2>3
    <3>2. Lists(queue[to] \o drained, {} \cup ReadySet)
      BY <1>2, <3>1, ConcatLists
    <3> QED BY <2>1, <2>3, <3>2
  <2>4. CASE pol # to
    BY <1>8, <2>1, <2>4, EmptyLists
  <2> QED BY <2>2, <2>3, <2>4
<1>10. ASSUME NEW l \in Levels
       PROVE  Lists(levels'[l], IF to = "MLFQ" THEN ReadyAt(l) ELSE {})
  <2> DEFINE S == {p \in Range(drained) : pcb[p].level = l}
  <2>1. levels'[l] = IF to = "MLFQ" THEN levels[l] \o SelectIn(drained, S)
                     ELSE IF active = "MLFQ" THEN <<>> ELSE levels[l]
    BY <1>1 DEF Transfer
  <2>2. active # "MLFQ" => Lists(levels[l], {})
    BY DEF IInv, Placed
  <2>3. ReadySet \cap S = ReadyAt(l)
    BY <1>3 DEF ReadyAt
  <2> HIDE DEF drained, S
  <2>4. Lists(SelectIn(drained, S), ReadyAt(l))
    BY <1>2, <2>3, SelectInLists
  <2>5. CASE to = "MLFQ"
    <3>1. {} \cap ReadyAt(l) = {}
      OBVIOUS
    <3>2. Lists(levels[l] \o SelectIn(drained, S), {} \cup ReadyAt(l))
      BY <2>2, <2>4, <2>5, <3>1, ConcatLists
    <3> QED BY <2>1, <2>5, <3>2
  <2>6. CASE to # "MLFQ"
    BY <2>1, <2>2, <2>6, EmptyLists
  <2> QED BY <2>5, <2>6
<1>11. Placed'
  BY <1>6, <1>7, <1>9, <1>10 DEF Placed
<1>12. /\ queue' = [pol \in SingleQueue |-> queue'[pol]]
       /\ levels' = [l \in Levels |-> levels'[l]]
  BY DEF Transfer
<1> QED BY <1>4, <1>6, <1>11, <1>12, PlacedTyped

(* The rows an aging pass and a priority boost write.  Neither touches     *)
(* what the process has executed or when.                                  *)
SameTimes(a, r) == /\ a.arrival = r.arrival /\ a.burst = r.burst
                   /\ a.remaining = r.remaining
                   /\ a.start = r.start /\ a.finish = r.finish

LEMMA AgedRow ==
  ASSUME NEW r \in PCB
  PROVE  LET a == [r EXCEPT !.priority = @ - 1, !.starved = 0, !.boosts = @ + 1]
             w == [r EXCEPT !.starved = @ + 1]
         IN /\ a \in PCB /\ a.state = r.state /\ a.level = r.level /\ SameTimes(a, r)
            /\ w \in PCB /\ w.state = r.state /\ w.level = r.level /\ SameTimes(w, r)
<1>1. r.boosts + 1 \in Nat /\ r.starved + 1 \in Nat /\ r.priority - 1 \in Int /\ 0 \in Nat
  BY DEF PCB
<1>2. ASSUME NEW k \in Int, NEW n \in Nat
      PROVE  LET a == [r EXCEPT !.priority = k, !.starved = 0, !.boosts = n]
                 w == [r EXCEPT !.starved = n]
             IN /\ a \in PCB /\ a.state = r.state /\ a.level = r.level /\ SameTimes(a, r)
                /\ w \in PCB /\ w.state = r.state /\ w.level = r.level /\ SameTimes(w, r)
  BY DEF PCB, Tick, SameTimes
<1> QED BY <1>1, <1>2

LEMMA BoostedRow ==
  ASSUME NEW r \in PCB, NEW m \in Nat
  PROVE  LET b == [r EXCEPT !.level = 0, !.starved = 0, !.boosts = @ + 1, !.quantum = m]
         IN b \in PCB /\ b.state = r.state /\ b.level = 0 /\ SameTimes(b, r)
<1>1. r.boosts + 1 \in Nat /\ 0 \in Levels /\ 0 \in Nat
  BY LevelsAre DEF PCB
<1>2. ASSUME NEW n \in Nat, NEW l \in Levels
      PROVE  LET b == [r EXCEPT !.level = l, !.starved = 0, !.boosts = n, !.quantum = m]
             IN b \in PCB /\ b.state = r.state /\ b.level = l /\ SameTimes(b, r)
  BY DEF PCB, Tick, SameTimes
<1> QED BY <1>1, <1>2

(* An aging pass re-sorts the priority queue and moves nobody. *)
LEMMA AgingPlaces ==
  ASSUME IInv, active' = active, active = "PRIORITY", ApplyAging
  PROVE  /\ \A p \in PID : /\ pcb'[p].state = pcb[p].state
                           /\ pcb'[p].level = pcb[p].level
                           /\ SameTimes(pcb'[p], pcb[p])
         /\ pcb' \in [PID -> PCB]
         /\ Placed' /\ QueuesTyped'
<1>1. /\ queue \in [SingleQueue -> Seq(PID)] /\ pcb \in [PID -> PCB]
      /\ AGING_THRESHOLD \in Nat /\ MAX_PRIORITY_BOOSTS \in Nat
  BY QuantaAssumption DEF IInv, TypeOK, ChildTypeOK
<1>2. /\ pcb' = [p \in PID |->
               IF p \in Boosted
               THEN [pcb[p] EXCEPT !.priority = @ - 1, !.starved = 0, !.boosts = @ + 1]
               ELSE IF p \in Aged THEN [pcb[p] EXCEPT !.starved = @ + 1]
               ELSE pcb[p]]
      /\ queue' = IF Boosted = {} THEN queue
                  ELSE [queue EXCEPT !["PRIORITY"] =
                          InsertAll(<<>>, queue["PRIORITY"], PriorityLess(pcb'))]
      /\ levels' = levels
  BY DEF ApplyAging
<1>3. ASSUME NEW p \in PID
      PROVE  /\ pcb'[p] \in PCB /\ SameTimes(pcb'[p], pcb[p])
             /\ pcb'[p].state = pcb[p].state /\ pcb'[p].level = pcb[p].level
  <2> DEFINE a == [pcb[p] EXCEPT !.priority = @ - 1, !.starved = 0, !.boosts = @ + 1]
             w == [pcb[p] EXCEPT !.starved = @ + 1]
             Goal(r) == /\ r \in PCB /\ SameTimes(r, pcb[p])
                        /\ r.state = pcb[p].state /\ r.level = pcb[p].level
  <2>1. pcb[p] \in PCB
    BY <1>1
  <2>2. Goal(a) /\ Goal(w) /\ Goal(pcb[p])
    BY <2>1, AgedRow DEF SameTimes
  <2>3. pcb'[p] = a \/ pcb'[p] = w \/ pcb'[p] = pcb[p]
    BY <1>2
  <2> HIDE DEF a, w
  <2> QED BY <2>2, <2>3
<1>4. pcb' \in [PID -> PCB]
  BY <1>2, <1>3
<1>5. ReadySet' = ReadySet /\ \A l \in Levels : ReadyAt(l)' = ReadyAt(l)
  BY <1>3 DEF ReadySet, ReadyAt
<1>6. Lists(queue["PRIORITY"], ReadySet)
  BY DEF IInv, Placed, SingleQueue
<1>7. Lists(InsertAll(<<>>, queue["PRIORITY"], PriorityLess(pcb')), ReadySet)
  <2>1. StrictWeakOrder(PriorityLess(pcb'))
    BY <1>4, PriorityLessIsWeakOrder
  <2>2. {} \cap ReadySet = {}
    OBVIOUS
  <2>3. Lists(InsertAll(<<>>, queue["PRIORITY"], PriorityLess(pcb')), ReadySet \cup {})
    BY <1>6, <2>1, <2>2, EmptyLists, InsertAllLists
  <2> QED BY <2>3
<1>8. Lists(queue'["PRIORITY"], ReadySet')
  BY <1>1, <1>2, <1>5, <1>6, <1>7 DEF SingleQueue
<1>9. \A pol \in SingleQueue \ {"PRIORITY"} : queue'[pol] = queue[pol]
  BY <1>1, <1>2
<1>10. Placed'
  BY <1>2, <1>5, <1>8, <1>9 DEF IInv, Placed, SingleQueue
<1>11. /\ queue' = [pol \in SingleQueue |-> queue'[pol]]
       /\ levels' = [l \in Levels |-> levels'[l]]
  BY <1>1, <1>2 DEF IInv, TypeOK, ChildTypeOK
<1> QED BY <1>3, <1>4, <1>10, <1>11, PlacedTyped

(* A priority boost files every queued process on level 0. *)
LEMMA BoostPlaces ==
  ASSUME IInv, active' = active, active = "MLFQ", PriorityBoost
  PROVE  /\ \A p \in PID : pcb'[p].state = pcb[p].state /\ SameTimes(pcb'[p], pcb[p])
         /\ pcb' \in [PID -> PCB]
         /\ Placed' /\ QueuesTyped'
<1>1. /\ queue \in [SingleQueue -> Seq(PID)] /\ pcb \in [PID -> PCB]
      /\ levels \in [Levels -> Seq(PID)]
  BY DEF IInv, TypeOK, ChildTypeOK
<1>2. /\ pcb' = [p \in PID |->
               IF p \in BelowTop
               THEN [pcb[p] EXCEPT !.level = 0, !.starved = 0, !.boosts = @ + 1,
                                   !.quantum = LEVEL_QUANTA[0]]
               ELSE pcb[p]]
      /\ levels' = [l \in Levels |-> IF l = 0 THEN Snapshot("MLFQ") ELSE <<>>]
      /\ queue' = queue
  BY DEF PriorityBoost
<1>3. 0 \in Levels /\ LEVEL_QUANTA[0] \in Nat
  BY LevelsAre, QuantaAssumption
<1>4. \A l \in Levels : Range(levels[l]) = ReadyAt(l)
  BY DEF IInv, Placed, Lists
<1>5. ASSUME NEW p \in PID
      PROVE  /\ pcb'[p] \in PCB /\ SameTimes(pcb'[p], pcb[p])
             /\ pcb'[p].state = pcb[p].state
             /\ p \in ReadySet => pcb'[p].level = 0
  <2>1. pcb[p] \in PCB
    BY <1>1
  <2>2. p \in ReadySet => p \in BelowTop \/ pcb[p].level = 0
    BY <1>4, <2>1 DEF BelowTop, ReadyAt, PCB
  <2>3. pcb'[p] = IF p \in BelowTop
                  THEN [pcb[p] EXCEPT !.level = 0, !.starved = 0, !.boosts = @ + 1,
                                      !.quantum = LEVEL_QUANTA[0]]
                  ELSE pcb[p]
    BY <1>2
  <2> DEFINE r == [pcb[p] EXCEPT !.level = 0, !.starved = 0, !.boosts = @ + 1,
                                 !.quantum = LEVEL_QUANTA[0]]
  <2>4. r \in PCB /\ r.state = pcb[p].state /\ r.level = 0 /\ SameTimes(r, pcb[p])
    BY <1>3, <2>1, BoostedRow
  <2>6. SameTimes(pcb[p], pcb[p])
    BY DEF SameTimes
  <2>5. pcb'[p] = IF p \in BelowTop THEN r ELSE pcb[p]
    BY <2>3
  <2> HIDE DEF r
  <2> QED BY <2>1, <2>2, <2>4, <2>5, <2>6
<1>6. pcb' \in [PID -> PCB]
  BY <1>2, <1>5
<1>7. ReadySet' = ReadySet
  BY <1>5 DEF ReadySet
<1>8. \A l \in Levels : ReadyAt(l)' = IF l = 0 THEN ReadySet ELSE {}
  <2>1. \A p \in ReadySet : pcb'[p].level = 0
    BY <1>5 DEF ReadySet
  <2> QED BY <1>7, <2>1 DEF ReadyAt
<1>9. Lists(Snapshot("MLFQ"), ReadySet)
  BY SnapshotLists
<1>10. \A l \in Levels : levels'[l] = IF l = 0 THEN Snapshot("MLFQ") ELSE <<>>
  BY <1>2
<1>11. ASSUME NEW l \in Levels PROVE Lists(levels'[l], ReadyAt(l)')
  BY <1>8, <1>9, <1>10, EmptyLists
<1>12. Placed'
  BY <1>2, <1>11 DEF IInv, Placed, SingleQueue
<1>13. /\ queue' = [pol \in SingleQueue |-> queue'[pol]]
       /\ levels' = [l \in Levels |-> levels'[l]]
  BY <1>1, <1>2
<1> QED BY <1>5, <1>6, <1>12, <1>13, PlacedTyped
-----------------------------------------------------------------------------
(* The child operations that move one process. *)

LEMMA AddProcessPlaces ==
  ASSUME IInv, active' = active, NEW p \in PID, pcb[p].state = "NEW",
         AddProcess(active, p)
  PROVE  /\ Placed' /\ QueuesTyped' /\ pcb' \in [PID -> PCB]
         /\ OnlyRow(p) /\ pcb'[p].state = "READY" /\ SameTimes(pcb'[p], pcb[p])
<1>1. /\ pcb \in [PID -> PCB] /\ pcb[p] \in PCB /\ active \in Policies
      /\ RR_QUANTUM \in Nat /\ LEVEL_QUANTA[0] \in Nat /\ 0 \in Levels
  BY QuantaAssumption, LevelsAre DEF IInv, TypeOK, ChildTypeOK
<1> DEFINE Row(r) == /\ pcb' = [pcb EXCEPT ![p] = r]
                     /\ r \in PCB /\ r.state = "READY" /\ SameTimes(r, pcb[p])
<1>2. CASE active = "FCFS"
  <2>1. pcb' = [pcb EXCEPT ![p].state = "READY"] /\ Push(active, p)
    BY <1>2 DEF AddProcess, FcfsAdd
  <2>2. Row([pcb[p] EXCEPT !.state = "READY"])
    BY <1>1, <2>1 DEF PCB, ProcessState, SameTimes
  <2>3. pcb' \in [PID -> PCB] /\ OnlyRow(p) /\ pcb'[p].state = "READY" /\ SameTimes(pcb'[p], pcb[p])
    BY <1>1, <2>2 DEF OnlyRow
  <2> QED BY <1>2, <2>1, <2>3, PushPlaces DEF SingleQueue
<1>3. CASE active = "ROUND_ROBIN"
  <2>1. /\ pcb' = [pcb EXCEPT ![p].state = "READY", ![p].quantum = RR_QUANTUM]
        /\ Push(active, p)
    BY <1>3 DEF AddProcess, RrAdd
  <2>2. Row([pcb[p] EXCEPT !.state = "READY", !.quantum = RR_QUANTUM])
    BY <1>1, <2>1 DEF PCB, ProcessState, SameTimes, Tick
  <2>3. pcb' \in [PID -> PCB] /\ OnlyRow(p) /\ pcb'[p].state = "READY" /\ SameTimes(pcb'[p], pcb[p])
    BY <1>1, <2>2 DEF OnlyRow
  <2> QED BY <1>3, <2>1, <2>3, PushPlaces DEF SingleQueue
<1>4. CASE active = "PRIORITY"
  <2>1. /\ pcb' = [pcb EXCEPT ![p].state = "READY", ![p].starved = 0]
        /\ Push(active, p)
    BY <1>4 DEF AddProcess, PriorityAdd
  <2>2. Row([pcb[p] EXCEPT !.state = "READY", !.starved = 0])
    BY <1>1, <2>1 DEF PCB, ProcessState, SameTimes
  <2>3. pcb' \in [PID -> PCB] /\ OnlyRow(p) /\ pcb'[p].state = "READY" /\ SameTimes(pcb'[p], pcb[p])
    BY <1>1, <2>2 DEF OnlyRow
  <2> QED BY <1>4, <2>1, <2>3, PushPlaces DEF SingleQueue
<1>5. CASE active = "MLFQ"
  <2>1. /\ pcb' = [pcb EXCEPT ![p].state = "READY", ![p].level = 0,
                              ![p].quantum = LEVEL_QUANTA[0]]
        /\ PushLevel(0, p)
    BY <1>5 DEF AddProcess, MlfqAdd
  <2>2. ASSUME NEW l \in Levels, NEW m \in Nat,
               pcb' = [pcb EXCEPT ![p].state = "READY", ![p].level = l, ![p].quantum = m]
        PROVE  /\ Row([pcb[p] EXCEPT !.state = "READY", !.level = l, !.quantum = m])
               /\ pcb'[p].level = l
    BY <1>1, <2>2 DEF PCB, ProcessState, SameTimes, Tick
  <2>3. \E r : Row(r) /\ pcb'[p].level = 0
    BY <1>1, <2>1, <2>2
  <2>4. pcb' \in [PID -> PCB] /\ OnlyRow(p) /\ pcb'[p].state = "READY" /\ SameTimes(pcb'[p], pcb[p])
    BY <1>1, <2>3 DEF OnlyRow
  <2> QED BY <1>1, <1>5, <2>1, <2>3, <2>4, PushLevelPlaces
<1> QED BY <1>1, <1>2, <1>3, <1>4, <1>5 DEF Policies, SingleQueue

LEMMA LevelQuantumTyped ==
  ASSUME NEW r \in PCB, NEW l \in Levels
  PROVE  LevelQuantum(l, r.remaining) \in Nat
  BY QuantaAssumption DEF LevelQuantum, PCB, Tick

(* get_next_process: the process leaves the queue and is RUNNING. *)
LEMMA GetNextPlaces ==
  ASSUME IInv, active' = active, NEW p \in PID, GetNextProcess(active, p)
  PROVE  /\ Placed' /\ QueuesTyped' /\ pcb' \in [PID -> PCB] /\ p \in ReadySet
         /\ OnlyRow(p) /\ pcb'[p].state = "RUNNING"
         /\ pcb'[p].start = IF pcb[p].start = None THEN clock ELSE pcb[p].start
         /\ pcb'[p].arrival = pcb[p].arrival /\ pcb'[p].burst = pcb[p].burst
         /\ pcb'[p].remaining = pcb[p].remaining /\ pcb'[p].finish = pcb[p].finish
<1>1. pcb \in [PID -> PCB] /\ pcb[p] \in PCB /\ clock \in Nat /\ RR_QUANTUM \in Nat
  BY QuantaAssumption DEF IInv, TypeOK, ChildTypeOK, Tick
<1> DEFINE q == ArmedQuantum(active, pcb[p])
           first == IF pcb[p].start = None THEN clock ELSE pcb[p].start
<1>2. q \in Nat
  <2>1. pcb[p].level \in Levels /\ pcb[p].remaining \in Nat
    BY <1>1 DEF PCB, Tick
  <2>2. LevelQuantum(pcb[p].level, pcb[p].remaining) \in Nat
    BY <1>1, <2>1, LevelQuantumTyped
  <2> QED BY <1>1, <2>1, <2>2 DEF ArmedQuantum
<1>3. first \in Nat \cup {None}
  BY <1>1 DEF PCB, Tick
<1>4. pcb' = [pcb EXCEPT ![p].state = "RUNNING", ![p].start = first, ![p].quantum = q]
      /\ TryPop(active, p)
  BY DEF GetNextProcess
<1> HIDE DEF q, first
<1>5. /\ pcb' \in [PID -> PCB] /\ OnlyRow(p)
      /\ pcb'[p].state = "RUNNING" /\ pcb'[p].start = first
      /\ pcb'[p].arrival = pcb[p].arrival /\ pcb'[p].burst = pcb[p].burst
      /\ pcb'[p].remaining = pcb[p].remaining /\ pcb'[p].finish = pcb[p].finish
  <2> DEFINE r == [pcb[p] EXCEPT !.state = "RUNNING", !.start = first, !.quantum = q]
  <2>1. pcb' = [pcb EXCEPT ![p] = r]
    BY <1>1, <1>4 DEF PCB
  <2>2. /\ r \in PCB /\ r.state = "RUNNING" /\ r.start = first
        /\ r.arrival = pcb[p].arrival /\ r.burst = pcb[p].burst
        /\ r.remaining = pcb[p].remaining /\ r.finish = pcb[p].finish
    BY <1>1, <1>2, <1>3 DEF PCB, ProcessState, Tick
  <2> HIDE DEF r
  <2> QED BY <1>1, <2>1, <2>2 DEF OnlyRow
<1>6. p \in ReadySet /\ Placed' /\ QueuesTyped'
  BY <1>4, <1>5, PopPlaces
<1> QED BY <1>5, <1>6 DEF first

(* handle_preemption that returns true: the RUNNING process is queued. *)
LEMMA RequeuePlaces ==
  ASSUME IInv, active' = active, NEW p \in PID, pcb[p].state = "RUNNING",
         NEW r \in PCB, NEW incoming, Requeue(active, p, r, incoming)
  PROVE  /\ Placed' /\ QueuesTyped' /\ pcb' \in [PID -> PCB]
         /\ OnlyRow(p) /\ pcb'[p].state = "READY" /\ SameTimes(pcb'[p], r)
<1>1. pcb \in [PID -> PCB] /\ active \in Policies /\ RR_QUANTUM \in Nat
  BY QuantaAssumption DEF IInv, TypeOK, ChildTypeOK
<1>2. ASSUME NEW w \in PCB, pcb' = [pcb EXCEPT ![p] = w], w.state = "READY",
             SameTimes(w, r)
      PROVE  /\ pcb' \in [PID -> PCB] /\ OnlyRow(p) /\ pcb'[p] = w
             /\ pcb'[p].state = "READY" /\ SameTimes(pcb'[p], r)
  BY <1>1, <1>2 DEF OnlyRow
<1>3. CASE active = "ROUND_ROBIN"
  <2> DEFINE w == [r EXCEPT !.state = "READY", !.quantum = RR_QUANTUM]
  <2>1. pcb' = [pcb EXCEPT ![p] = w] /\ Push(active, p)
    BY <1>3 DEF Requeue, RrRequeue
  <2>2. w \in PCB /\ w.state = "READY" /\ SameTimes(w, r)
    BY <1>1 DEF PCB, ProcessState, Tick, SameTimes
  <2> HIDE DEF w
  <2>3. pcb' \in [PID -> PCB] /\ OnlyRow(p) /\ pcb'[p].state = "READY" /\ SameTimes(pcb'[p], r)
    BY <1>2, <2>1, <2>2
  <2> QED BY <1>3, <2>1, <2>3, PushPlaces DEF SingleQueue
<1>4. CASE active = "PRIORITY"
  <2> DEFINE w == [r EXCEPT !.state = "READY"]
  <2>1. pcb' = [pcb EXCEPT ![p] = w] /\ Push(active, p)
    BY <1>4 DEF Requeue, PriorityRequeue
  <2>2. w \in PCB /\ w.state = "READY" /\ SameTimes(w, r)
    BY <1>1 DEF PCB, ProcessState, Tick, SameTimes
  <2> HIDE DEF w
  <2>3. pcb' \in [PID -> PCB] /\ OnlyRow(p) /\ pcb'[p].state = "READY" /\ SameTimes(pcb'[p], r)
    BY <1>2, <2>1, <2>2
  <2> QED BY <1>4, <2>1, <2>3, PushPlaces DEF SingleQueue
<1>5. CASE active = "MLFQ"
  <2> DEFINE l == RequeueLevel(r, incoming)
             w == [r EXCEPT !.state = "READY", !.level = l,
                            !.quantum = LevelQuantum(l, r.remaining)]
  <2>1. pcb' = [pcb EXCEPT ![p] = w] /\ PushLevel(l, p)
    BY <1>5 DEF Requeue, MlfqRequeue
  <2>2. l \in Levels
    BY DEF RequeueLevel, PCB, Levels, NUM_LEVELS
  <2>3. w \in PCB /\ w.state = "READY" /\ w.level = l /\ SameTimes(w, r)
    <3>1. LevelQuantum(l, r.remaining) \in Nat
      BY <2>2, LevelQuantumTyped
    <3>2. ASSUME NEW k \in Levels, NEW m \in Nat
          PROVE  LET v == [r EXCEPT !.state = "READY", !.level = k, !.quantum = m]
                 IN v \in PCB /\ v.state = "READY" /\ v.level = k /\ SameTimes(v, r)
      BY DEF PCB, ProcessState, Tick, SameTimes
    <3> QED BY <2>2, <3>1, <3>2
  <2> HIDE DEF w
  <2>4. /\ pcb' \in [PID -> PCB] /\ OnlyRow(p) /\ pcb'[p].state = "READY" /\ SameTimes(pcb'[p], r)
        /\ pcb'[p].level = l
    BY <1>2, <2>1, <2>3
  <2> HIDE DEF l
  <2> QED BY <1>5, <2>1, <2>2, <2>4, PushLevelPlaces
<1>6. active # "FCFS"
  BY DEF Requeue, RrRequeue, PriorityRequeue, MlfqRequeue
<1> QED BY <1>1, <1>3, <1>4, <1>5, <1>6 DEF Policies, SingleQueue
-----------------------------------------------------------------------------
(* Every action preserves the invariant. *)

LEMMA FramePlaces ==
  ASSUME IInv, UNCHANGED <<pcb, queue, levels, active>>
  PROVE  Placed' /\ QueuesTyped'
<1>1. Placed'
  BY DEF IInv, Placed, ReadySet, ReadyAt
<1>2. QueuesTyped'
  BY DEF IInv, TypeOK, ChildTypeOK, QueuesTyped
<1> QED BY <1>1, <1>2

LEMMA InitInv == Init => IInv
<1> SUFFICES ASSUME Init PROVE IInv
  OBVIOUS
<1>1. PICK a \in [PID -> ARRIVALS], b \in [PID -> BURSTS], r \in [PID -> PRIORITIES] :
        pcb = [p \in PID |-> NewProcess(a[p], b[p], r[p])]
  BY DEF Init
<1>2. ASSUME NEW p \in PID
      PROVE  NewProcess(a[p], b[p], r[p]) \in PCB /\ NewProcess(a[p], b[p], r[p]).state = "NEW"
  <2>1. a[p] \in Nat /\ b[p] \in Nat /\ r[p] \in Int /\ 0 \in Levels
    BY SimAssumption, LevelsAre
  <2> QED BY <2>1 DEF NewProcess, PCB, ProcessState, Tick
<1>3. pcb \in [PID -> PCB] /\ \A p \in PID : pcb[p].state = "NEW"
  BY <1>1, <1>2
<1>4. ReadySet = {} /\ \A l \in Levels : ReadyAt(l) = {}
  BY <1>3 DEF ReadySet, ReadyAt
<1>5. Placed
  BY <1>4, EmptyLists DEF Init, ChildInit, Placed, Policies
<1>6. TypeOK
  <2>1. <<>> \in Seq(PID)
    BY EmptyLists DEF Lists
  <2> QED BY <1>3, <2>1 DEF Init, ChildInit, TypeOK, ChildTypeOK, Tick, Policies, CpuSteps
<1>7. OnCpu
  BY <1>3, NoneAssumption DEF Init, OnCpu, RunningIsCurrent
<1> QED BY <1>5, <1>6, <1>7 DEF IInv

LEMMA InjectInv ==
  ASSUME IInv, NEW p \in PID, Inject(p)
  PROVE  IInv'
<1>1. /\ active' = active /\ pcb[p].state = "NEW" /\ AddProcess(active, p)
      /\ UNCHANGED <<clock, active, cooldown, lastSwitch, cpu, current, held, monitor, scheduledBy>>
      /\ UNCHANGED <<lastBoost, completed>>
  BY DEF Inject, AddProcess, FcfsAdd, RrAdd, PriorityAdd, MlfqAdd
<1>2. /\ Placed' /\ QueuesTyped' /\ pcb' \in [PID -> PCB]
      /\ OnlyRow(p) /\ pcb'[p].state = "READY"
  BY <1>1, AddProcessPlaces
<1>3. TypeOK'
  BY <1>1, <1>2 DEF IInv, TypeOK, ChildTypeOK, QueuesTyped
<1>4. OnCpu'
  BY <1>1, <1>2 DEF IInv, OnCpu, RunningIsCurrent, OnlyRow
<1> QED BY <1>2, <1>3, <1>4 DEF IInv

LEMMA DispatchInv ==
  ASSUME IInv, NEW p \in PID, Dispatch(p)
  PROVE  IInv'
<1>1. /\ GetNextProcess(active, p) /\ active' = active
      /\ cpu = "fetch" /\ current' = p /\ cpu' = "snapshot"
      /\ UNCHANGED <<clock, active, cooldown, lastSwitch, held, monitor, scheduledBy>>
      /\ UNCHANGED <<lastBoost, completed>>
  BY DEF Dispatch, GetNextProcess
<1>2. /\ Placed' /\ QueuesTyped' /\ pcb' \in [PID -> PCB]
      /\ OnlyRow(p) /\ pcb'[p].state = "RUNNING"
  BY <1>1, GetNextPlaces
<1>3. TypeOK'
  BY <1>1, <1>2 DEF IInv, TypeOK, ChildTypeOK, QueuesTyped, CpuSteps
<1>4. OnCpu'
  <2>1. current = None /\ \A q \in PID : pcb[q].state # "RUNNING"
    BY <1>1, NoneAssumption DEF IInv, OnCpu, RunningIsCurrent
  <2> QED BY <1>1, <1>2, <2>1 DEF OnCpu, RunningIsCurrent, OnlyRow
<1> QED BY <1>2, <1>3, <1>4 DEF IInv

(* Steps of the CPU thread that read the scheduler or only their own state *)
LEMMA ObservingInv ==
  ASSUME IInv, Idle \/ TakeSnapshot \/ Report \/ AdvanceClock \/ MonitorSample \/ MonitorKeep
  PROVE  IInv'
<1>1. /\ UNCHANGED <<pcb, queue, levels, lastBoost, completed, active, cooldown,
                      lastSwitch, current>>
      /\ clock' \in Nat
  BY DEF Idle, TakeSnapshot, Report, AdvanceClock, MonitorSample, MonitorKeep,
         childVars, IInv, TypeOK, ChildTypeOK, Tick
<1>2. Placed' /\ QueuesTyped'
  BY <1>1, FramePlaces
<1>3. RunningIsCurrent'
  BY <1>1 DEF IInv, OnCpu, RunningIsCurrent
<1>4. Lists(Snapshot(active), ReadySet)
  BY SnapshotLists
<1>5. /\ cpu' \in CpuSteps /\ held' \in PID \cup {None}
      /\ scheduledBy' \in [PID -> Policies \cup {None}]
      /\ monitor' \in {"sample", "decide"}
      /\ cpu' \in {"snapshot", "preempt", "exec"} => current' \in PID
      /\ cpu' \in {"fetch", "report"} => current' = None
      /\ cpu' \in {"preempt", "report"} => held' \in PID
  <2>1. CASE Idle
    BY <2>1 DEF Idle, IInv, TypeOK, OnCpu, CpuSteps
  <2>2. CASE TakeSnapshot
    <3>1. /\ cpu = "snapshot" /\ current \in PID /\ current' = current
          /\ UNCHANGED <<monitor, scheduledBy>>
      BY <2>2 DEF TakeSnapshot, IInv, OnCpu
    <3>2. \/ /\ Snapshot(active) # <<>>
             /\ held' = Head(Snapshot(active)) /\ cpu' = "preempt"
          \/ cpu' = "exec" /\ held' = held
      BY <2>2 DEF TakeSnapshot
    <3>3. Snapshot(active) # <<>> => Head(Snapshot(active)) \in PID
      <4>1. Snapshot(active) # <<>> => Head(Snapshot(active)) \in ReadySet
        BY <1>4, TailLists
      <4> QED BY <4>1 DEF ReadySet
    <3> QED BY <3>1, <3>2, <3>3 DEF IInv, TypeOK, CpuSteps
  <2>3. CASE Report
    BY <2>3 DEF Report, IInv, TypeOK, OnCpu, CpuSteps
  <2>4. CASE AdvanceClock
    BY <2>4 DEF AdvanceClock, IInv, TypeOK, OnCpu, CpuSteps
  <2>5. CASE MonitorSample \/ MonitorKeep
    BY <2>5 DEF MonitorSample, MonitorKeep, IInv, TypeOK, OnCpu, CpuSteps
  <2> QED BY <2>1, <2>2, <2>3, <2>4, <2>5
<1>6. TypeOK'
  BY <1>1, <1>2, <1>5 DEF IInv, TypeOK, ChildTypeOK, QueuesTyped, Tick
<1>7. OnCpu'
  BY <1>3, <1>5 DEF OnCpu
<1> QED BY <1>2, <1>6, <1>7 DEF IInv

(* The row of the running process after one tick *)
LEMMA ExecutedRow ==
  ASSUME IInv, NEW p \in PID
  PROVE  /\ Executed(pcb[p]) \in PCB /\ Executed(pcb[p]).state = "RUNNING"
         /\ Executed(pcb[p]).arrival = pcb[p].arrival /\ Executed(pcb[p]).burst = pcb[p].burst
         /\ Executed(pcb[p]).finish = pcb[p].finish
         /\ Executed(pcb[p]).remaining = Dec(pcb[p].remaining)
         /\ Executed(pcb[p]).start = IF pcb[p].start = None THEN clock ELSE pcb[p].start
<1>1. pcb[p] \in PCB /\ clock \in Nat
  BY DEF IInv, TypeOK, ChildTypeOK, Tick
<1> DEFINE r == pcb[p]
           first == IF r.start = None THEN clock ELSE r.start
<1>2. first \in Nat \cup {None} /\ Dec(r.remaining) \in Nat /\ Dec(r.quantum) \in Nat
  BY <1>1 DEF PCB, Tick, Dec
<1>3. Executed(r) = [r EXCEPT !.state = "RUNNING", !.start = first,
                              !.remaining = Dec(r.remaining), !.quantum = Dec(r.quantum)]
  BY <1>1 DEF Executed, PCB
<1> DEFINE E(a, b, c) == [r EXCEPT !.state = "RUNNING", !.start = a, !.remaining = b, !.quantum = c]
           Goal(e, a, b) == /\ e \in PCB /\ e.state = "RUNNING" /\ e.start = a /\ e.remaining = b
                            /\ e.arrival = r.arrival /\ e.burst = r.burst /\ e.finish = r.finish
<1>4. ASSUME NEW a \in Nat \cup {None}, NEW b \in Nat, NEW c \in Nat
      PROVE  Goal(E(a, b, c), a, b)
  BY <1>1 DEF PCB, ProcessState, Tick
<1>5. Executed(r) = E(first, Dec(r.remaining), Dec(r.quantum))
  BY <1>3
<1>6. Goal(E(first, Dec(r.remaining), Dec(r.quantum)), first, Dec(r.remaining))
  <2> HIDE DEF E, Goal, first
  <2> QED BY <1>2, <1>4
<1> HIDE DEF E
<1> QED BY <1>5, <1>6

(* Both preemptions: the running process goes back to the active child. *)
LEMMA PreemptInv ==
  ASSUME IInv, PreemptAtDispatch \/ ExecuteExpire
  PROVE  IInv'
<1>1. CASE PreemptAtDispatch /\ ~Requeue(active, current, pcb[current], held)
  <2>1. /\ cpu = "preempt" /\ cpu' = "exec" /\ held' = None
        /\ UNCHANGED <<clock, pcb, queue, levels, lastBoost, completed, current, active,
                        cooldown, lastSwitch, monitor, scheduledBy>>
    BY <1>1 DEF PreemptAtDispatch, childVars
  <2>2. Placed' /\ QueuesTyped'
    BY <2>1, FramePlaces
  <2>3. TypeOK'
    BY <2>1, <2>2 DEF IInv, TypeOK, ChildTypeOK, QueuesTyped, CpuSteps
  <2>4. OnCpu'
    BY <2>1 DEF IInv, OnCpu, RunningIsCurrent
  <2> QED BY <2>2, <2>3, <2>4 DEF IInv
<1>2. ASSUME NEW r \in PCB, NEW incoming, Requeue(active, current, r, incoming),
             cpu \in {"preempt", "exec"}, cpu' = "ontick", current' = None,
             held' \in PID \cup {None},
             UNCHANGED <<clock, active, cooldown, lastSwitch, monitor, scheduledBy>>
      PROVE  IInv'
  <2>1. current \in PID /\ pcb[current].state = "RUNNING" /\ active' = active
    BY <1>2 DEF IInv, OnCpu, RunningIsCurrent
  <2>2. /\ Placed' /\ QueuesTyped' /\ pcb' \in [PID -> PCB]
        /\ OnlyRow(current) /\ pcb'[current].state = "READY"
    BY <1>2, <2>1, RequeuePlaces
  <2>3. UNCHANGED <<lastBoost, completed>>
    BY <1>2 DEF Requeue, RrRequeue, PriorityRequeue, MlfqRequeue
  <2>4. TypeOK'
    BY <1>2, <2>2, <2>3 DEF IInv, TypeOK, ChildTypeOK, QueuesTyped, CpuSteps
  <2>5. OnCpu'
    BY <1>2, <2>1, <2>2, NoneAssumption DEF IInv, OnCpu, RunningIsCurrent, OnlyRow
  <2> QED BY <2>2, <2>4, <2>5 DEF IInv
<1>3. cpu \in {"preempt", "exec"} /\ current \in PID /\ pcb[current] \in PCB
  BY DEF PreemptAtDispatch, ExecuteExpire, IInv, OnCpu, TypeOK, ChildTypeOK
<1>4. CASE PreemptAtDispatch /\ Requeue(active, current, pcb[current], held)
  BY <1>2, <1>3, <1>4 DEF PreemptAtDispatch, Requeue
<1>5. CASE ExecuteExpire
  <2>1. Executed(pcb[current]) \in PCB
    BY <1>3, ExecutedRow
  <2> QED BY <1>2, <1>3, <1>5, <2>1 DEF ExecuteExpire, IInv, TypeOK
<1> QED BY <1>1, <1>4, <1>5

LEMMA ExecuteInv ==
  ASSUME IInv, ExecuteComplete \/ ExecuteContinue
  PROVE  IInv'
<1>1. /\ cpu = "exec" /\ current \in PID /\ pcb[current].state = "RUNNING"
      /\ pcb \in [PID -> PCB] /\ clock \in Nat /\ active \in Policies
      /\ completed \in [Policies -> SUBSET PID]
  BY DEF ExecuteComplete, ExecuteContinue, IInv, OnCpu, RunningIsCurrent, TypeOK, ChildTypeOK, Tick
<1> DEFINE r == Executed(pcb[current])
<1>2. r \in PCB /\ r.state = "RUNNING"
  BY <1>1, ExecutedRow
<1>3. /\ UNCHANGED <<clock, queue, levels, lastBoost, active, cooldown, lastSwitch, monitor, scheduledBy>>
      /\ \/ /\ pcb' = [pcb EXCEPT ![current] = [r EXCEPT !.state = "TERMINATED", !.finish = clock]]
            /\ completed' = [completed EXCEPT ![active] = @ \cup {current}]
            /\ current' = None /\ held' = current /\ cpu' = "report"
         \/ /\ pcb' = [pcb EXCEPT ![current] = r]
            /\ UNCHANGED <<completed, current, held>> /\ cpu' = "ontick"
  BY DEF ExecuteComplete, ExecuteContinue, OnProcessComplete
<1> HIDE DEF r
<1>4. /\ pcb' \in [PID -> PCB] /\ OnlyRow(current) /\ pcb'[current].state # "READY"
      /\ cpu' = "report" => pcb'[current].state = "TERMINATED"
      /\ cpu' = "ontick" => pcb'[current].state = "RUNNING"
  <2> DEFINE w == [r EXCEPT !.state = "TERMINATED", !.finish = clock]
  <2>1. w \in PCB /\ w.state = "TERMINATED"
    BY <1>1, <1>2 DEF PCB, ProcessState, Tick
  <2>2. (pcb' = [pcb EXCEPT ![current] = w] /\ cpu' = "report") \/ (pcb' = [pcb EXCEPT ![current] = r] /\ cpu' = "ontick")
    BY <1>3
  <2> HIDE DEF w
  <2> QED BY <1>1, <1>2, <2>1, <2>2 DEF OnlyRow
<1>5. completed' \in [Policies -> SUBSET PID]
  BY <1>1, <1>3
<1>6. ReadySet' = ReadySet /\ \A l \in Levels : ReadyAt(l)' = ReadyAt(l)
  BY <1>1, <1>4 DEF ReadySet, ReadyAt, OnlyRow
<1>7. Placed'
  BY <1>3, <1>6 DEF IInv, Placed
<1>8. TypeOK'
  BY <1>1, <1>3, <1>4, <1>5 DEF IInv, TypeOK, ChildTypeOK, CpuSteps
<1>9. OnCpu'
  BY <1>1, <1>3, <1>4, NoneAssumption DEF IInv, OnCpu, RunningIsCurrent, OnlyRow
<1> QED BY <1>7, <1>8, <1>9 DEF IInv

LEMMA SchedulerTickInv ==
  ASSUME IInv, SchedulerTick
  PROVE  IInv'
<1>1. /\ OnTick(active) /\ cpu = "ontick" /\ cpu' = "tick" /\ active' = active
      /\ UNCHANGED <<clock, active, cooldown, lastSwitch, current, held, monitor, scheduledBy>>
      /\ completed' = completed
  BY DEF SchedulerTick, OnTick
<1>2. /\ Placed' /\ QueuesTyped' /\ pcb' \in [PID -> PCB] /\ lastBoost' \in Nat
      /\ \A p \in PID : pcb'[p].state = pcb[p].state
  <2>1. CASE AgingDue(active) /\ ApplyAging
    BY <1>1, <2>1, AgingPlaces DEF AgingDue, ApplyAging, IInv, TypeOK, ChildTypeOK, Tick
  <2>2. CASE BoostDue(active) /\ PriorityBoost
    BY <1>1, <2>2, BoostPlaces DEF BoostDue, PriorityBoost, IInv, TypeOK, ChildTypeOK, Tick
  <2>3. CASE UNCHANGED <<pcb, queue, levels, lastBoost>>
    BY <1>1, <2>3, FramePlaces DEF IInv, TypeOK, ChildTypeOK, Tick
  <2> QED BY <1>1, <2>1, <2>2, <2>3 DEF OnTick
<1>3. TypeOK'
  BY <1>1, <1>2 DEF IInv, TypeOK, ChildTypeOK, QueuesTyped, CpuSteps, Tick
<1>4. OnCpu'
  BY <1>1, <1>2 DEF IInv, OnCpu, RunningIsCurrent
<1> QED BY <1>2, <1>3, <1>4 DEF IInv

(* A migration leaves every row as it is, up to the state and the quantum. *)
LEMMA ImportedRow ==
  ASSUME NEW to \in Policies, NEW r \in PCB
  PROVE  /\ Imported(to, r) \in PCB /\ Imported(to, r).state = "READY"
         /\ Imported(to, r).level = r.level /\ Imported(to, r).priority = r.priority
         /\ SameTimes(Imported(to, r), r)
<1>1. RR_QUANTUM \in Nat /\ LevelQuantum(r.level, r.remaining) \in Nat
  <2>1. r.level \in Levels
    BY DEF PCB
  <2> QED BY <2>1, LevelQuantumTyped, QuantaAssumption
<1> DEFINE W(q) == [r EXCEPT !.state = "READY", !.quantum = q]
           V == [r EXCEPT !.state = "READY"]
           Goal(w) == /\ w \in PCB /\ w.state = "READY" /\ w.level = r.level
                      /\ w.priority = r.priority /\ SameTimes(w, r)
<1>2. ASSUME NEW q \in Nat PROVE Goal(W(q))
  BY DEF PCB, ProcessState, Tick, SameTimes
<1>3. Goal(V)
  BY DEF PCB, ProcessState, SameTimes
<1>4. /\ to = "ROUND_ROBIN" => Imported(to, r) = W(RR_QUANTUM)
      /\ to = "MLFQ" => Imported(to, r) = W(LevelQuantum(r.level, r.remaining))
      /\ to \notin {"ROUND_ROBIN", "MLFQ"} => Imported(to, r) = V
  BY DEF Imported
<1>5. Goal(W(RR_QUANTUM)) /\ Goal(W(LevelQuantum(r.level, r.remaining)))
  BY <1>1, <1>2
<1> HIDE DEF W, V
<1>6. Goal(Imported(to, r))
  <2> HIDE DEF Goal
  <2> QED BY <1>3, <1>4, <1>5
<1> QED BY <1>6

LEMMA MigrateInv ==
  ASSUME IInv, NEW t \in TARGETS, MigrateTo(t)
  PROVE  IInv'
<1>1. /\ t \in Policies /\ t # active /\ active' = t /\ Transfer(active, t)
      /\ cooldown' = clock + COOLDOWN_TICKS /\ lastSwitch' = clock /\ monitor' = "sample"
      /\ UNCHANGED <<clock, cpu, current, held, scheduledBy>>
      /\ UNCHANGED <<lastBoost, completed>>
  BY SimAssumption DEF MigrateTo, Transfer
<1>2. /\ pcb' = [p \in PID |-> IF p \in ReadySet THEN Imported(t, pcb[p]) ELSE pcb[p]]
      /\ Placed' /\ QueuesTyped'
  BY <1>1, TransferPlaces
<1>3. ASSUME NEW p \in PID
      PROVE  pcb'[p] \in PCB /\ (pcb'[p].state = "RUNNING" <=> pcb[p].state = "RUNNING")
  <2>1. pcb[p] \in PCB /\ Imported(t, pcb[p]) \in PCB /\ Imported(t, pcb[p]).state = "READY"
    BY <1>1, ImportedRow DEF IInv, TypeOK, ChildTypeOK
  <2> QED BY <1>2, <2>1 DEF ReadySet
<1>4. pcb' \in [PID -> PCB]
  BY <1>2, <1>3
<1>5. cooldown' \in Nat
  BY <1>1, SimAssumption DEF IInv, TypeOK, ChildTypeOK, Tick
<1>6. TypeOK'
  BY <1>1, <1>2, <1>4, <1>5 DEF IInv, TypeOK, ChildTypeOK, QueuesTyped, Tick
<1>7. OnCpu'
  BY <1>1, <1>3 DEF IInv, OnCpu, RunningIsCurrent
<1> QED BY <1>2, <1>6, <1>7 DEF IInv
-----------------------------------------------------------------------------
(* IInv is inductive. *)
LEMMA StepInv == IInv /\ [Next]_vars => IInv'
<1> SUFFICES ASSUME IInv, [Next]_vars PROVE IInv'
  OBVIOUS
<1>1. ASSUME NEW p \in PID, Inject(p) \/ Dispatch(p) PROVE IInv'
  BY <1>1, InjectInv, DispatchInv
<1>2. CASE Idle \/ TakeSnapshot \/ Report \/ AdvanceClock \/ MonitorSample \/ MonitorKeep
  BY <1>2, ObservingInv
<1>3. CASE PreemptAtDispatch \/ ExecuteExpire
  BY <1>3, PreemptInv
<1>4. CASE ExecuteComplete \/ ExecuteContinue
  BY <1>4, ExecuteInv
<1>5. CASE SchedulerTick
  BY <1>5, SchedulerTickInv
<1>6. ASSUME NEW t \in TARGETS, MigrateTo(t) PROVE IInv'
  BY <1>6, MigrateInv
<1>7. CASE UNCHANGED vars
  <2>1. Placed'
    BY <1>7, FramePlaces DEF vars
  <2>2. TypeOK' /\ OnCpu'
    BY <1>7 DEF vars, IInv, TypeOK, ChildTypeOK, OnCpu, RunningIsCurrent
  <2> QED BY <2>1, <2>2 DEF IInv
<1> QED BY <1>1, <1>2, <1>3, <1>4, <1>5, <1>6, <1>7 DEF Next, CpuNext, MonitorNext

LEMMA AlwaysIInv == Spec => []IInv
  BY InitInv, StepInv, PTL DEF Spec

(* Every variable keeps its type; in particular a level never leaves 0..3, *)
(* although demotions and migrations both write it.                        *)
THEOREM TypeCorrect == Spec => []TypeOK
  BY AlwaysIInv, PTL DEF IInv

(* No process is lost or duplicated by any interleaving of submissions,    *)
(* dispatches, preemptions, boosts and migrations, for every workload.     *)
THEOREM NothingIsLost == Spec => []Conservation
<1>1. IInv => Conservation
  <2> SUFFICES ASSUME IInv PROVE Conservation
    OBVIOUS
  <2>1. active \in Policies
    BY DEF IInv, TypeOK
  <2>2. ReadyIsQueued
    BY SnapshotLists DEF ReadyIsQueued, Lists, ReadySet
  <2>3. ASSUME NEW pol \in Policies \ {active} PROVE Snapshot(pol) = <<>>
    <3>1. ASSUME NEW q, Lists(q, {}) PROVE q = <<>>
      <4>1. q \in Seq(PID) /\ Range(q) = {}
        BY <3>1 DEF Lists
      <4>2. Len(q) \in Nat /\ DOMAIN q = 1 .. Len(q) /\ Range(q) = {q[i] : i \in DOMAIN q}
        BY <4>1, SeqFacts
      <4>3. Len(q) = 0
        <5>1. 1 \notin 1 .. Len(q)
          BY <4>1, <4>2
        <5> QED BY <4>2, <5>1
      <4> QED BY <4>1, <4>3
    <3>2. CASE pol \in SingleQueue
      BY <3>1, <3>2 DEF IInv, Placed, Snapshot, SingleQueue
    <3>3. CASE pol = "MLFQ"
      <4>1. \A l \in Levels : levels[l] = <<>>
        BY <3>1, <3>3 DEF IInv, Placed
      <4>2. levels[0] = <<>> /\ levels[1] = <<>> /\ levels[2] = <<>> /\ levels[3] = <<>>
        BY <4>1, LevelsAre
      <4> QED BY <3>3, <4>2 DEF Snapshot
    <3> QED BY <3>2, <3>3 DEF Policies
  <2> QED BY <2>2, <2>3 DEF Conservation, OnlyActiveHoldsWork, IInv, OnCpu
<1> QED BY <1>1, AlwaysIInv, PTL

(* The level queue a process waits in is the level in its own record,      *)
(* which the preemption test and the quantum use.                          *)
THEOREM LevelsAgree == Spec => []FiledByLevel
<1>1. IInv => FiledByLevel
  BY DEF IInv, Placed, Lists, FiledByLevel, ReadyAt
<1> QED BY <1>1, AlwaysIInv, PTL
-----------------------------------------------------------------------------
(* What the monitor knows about the cooldown: it ends COOLDOWN_TICKS after *)
(* the last switch, and once the test has passed it stays passed, because  *)
(* the clock only grows and nobody else starts a cooldown.                 *)
CooldownInv ==
  /\ lastSwitch # None => lastSwitch \in Nat /\ cooldown = lastSwitch + COOLDOWN_TICKS
  /\ monitor = "decide" => clock >= cooldown

LEMMA CooldownStep == IInv /\ CooldownInv /\ [Next]_vars => CooldownInv'
<1> SUFFICES ASSUME IInv, CooldownInv, [Next]_vars PROVE CooldownInv'
  OBVIOUS
<1>1. clock \in Nat /\ cooldown \in Nat /\ COOLDOWN_TICKS \in Nat
  BY SimAssumption DEF IInv, TypeOK, ChildTypeOK, Tick
<1>2. ASSUME UNCHANGED <<cooldown, lastSwitch, monitor>>, clock' = clock \/ clock' = clock + 1
      PROVE  CooldownInv'
  BY <1>1, <1>2 DEF CooldownInv
<1>3. ASSUME NEW p \in PID, Inject(p) \/ Dispatch(p) PROVE CooldownInv'
  BY <1>2, <1>3 DEF Inject, Dispatch
<1>4. CASE Idle \/ TakeSnapshot \/ PreemptAtDispatch \/ ExecuteComplete \/ ExecuteExpire
           \/ ExecuteContinue \/ Report \/ SchedulerTick \/ AdvanceClock \/ UNCHANGED vars
  BY <1>2, <1>4 DEF Idle, TakeSnapshot, PreemptAtDispatch, ExecuteComplete, ExecuteExpire,
                    ExecuteContinue, Report, SchedulerTick, AdvanceClock, vars
<1>5. CASE MonitorSample \/ MonitorKeep
  BY <1>1, <1>5 DEF MonitorSample, MonitorKeep, CooldownInv
<1>6. ASSUME NEW t \in TARGETS, MigrateTo(t) PROVE CooldownInv'
  BY <1>1, <1>6, NoneAssumption DEF MigrateTo, CooldownInv
<1> QED BY <1>3, <1>4, <1>5, <1>6 DEF Next, CpuNext, MonitorNext

(* Two switches are at least COOLDOWN_TICKS apart, although the cooldown   *)
(* is tested before the metrics are sampled and the clock moves on between *)
(* the test and the switch.                                                *)
THEOREM SwitchesSpaced == Spec => SwitchesAreSpaced
<1>1. Init => CooldownInv
  BY DEF Init, ChildInit, CooldownInv
<1>2. IInv /\ CooldownInv /\ [Next]_vars
        => [active' # active /\ lastSwitch # None
              => clock >= lastSwitch + COOLDOWN_TICKS]_vars
  <2> SUFFICES ASSUME IInv, CooldownInv, [Next]_vars, active' # active, lastSwitch # None
               PROVE  clock >= lastSwitch + COOLDOWN_TICKS
    OBVIOUS
  <2>1. \E t \in TARGETS : MigrateTo(t)
    BY DEF Next, CpuNext, MonitorNext, Inject, Dispatch, Idle, TakeSnapshot,
           PreemptAtDispatch, ExecuteComplete, ExecuteExpire, ExecuteContinue,
           Report, SchedulerTick, AdvanceClock, MonitorSample, MonitorKeep, vars
  <2> QED BY <2>1 DEF MigrateTo, CooldownInv
<1> QED BY <1>1, <1>2, AlwaysIInv, CooldownStep, PTL DEF Spec, SwitchesAreSpaced

(* A switch of policy changes neither the remaining time nor the priority  *)
(* nor the MLFQ level of any process, and the same processes are queued    *)
(* after it as before.                                                     *)
THEOREM MigrationKeeps == Spec => MigrationKeepsWork
<1>1. IInv /\ [Next]_vars
        => [active' # active =>
              /\ \A p \in PID : /\ pcb'[p].remaining = pcb[p].remaining
                                 /\ pcb'[p].priority = pcb[p].priority
                                 /\ pcb'[p].level = pcb[p].level
              /\ Range(Snapshot(active))' = Range(Snapshot(active))]_vars
  <2> SUFFICES ASSUME IInv, [Next]_vars, active' # active
               PROVE  /\ \A p \in PID : /\ pcb'[p].remaining = pcb[p].remaining
                                          /\ pcb'[p].priority = pcb[p].priority
                                          /\ pcb'[p].level = pcb[p].level
                      /\ Range(Snapshot(active))' = Range(Snapshot(active))
    OBVIOUS
  <2>1. PICK t \in TARGETS : MigrateTo(t)
    BY DEF Next, CpuNext, MonitorNext, Inject, Dispatch, Idle, TakeSnapshot,
           PreemptAtDispatch, ExecuteComplete, ExecuteExpire, ExecuteContinue,
           Report, SchedulerTick, AdvanceClock, MonitorSample, MonitorKeep, vars
  <2>2. t \in Policies /\ t # active /\ active' = t /\ Transfer(active, t)
    BY <2>1, SimAssumption DEF MigrateTo
  <2>3. /\ pcb' = [p \in PID |-> IF p \in ReadySet THEN Imported(t, pcb[p]) ELSE pcb[p]]
        /\ ReadySet' = ReadySet
    BY <2>2, TransferPlaces
  <2>4. ASSUME NEW p \in PID
        PROVE  /\ pcb'[p].remaining = pcb[p].remaining
               /\ pcb'[p].priority = pcb[p].priority
               /\ pcb'[p].level = pcb[p].level
    <3>1. pcb[p] \in PCB
      BY DEF IInv, TypeOK, ChildTypeOK
    <3> QED BY <2>2, <2>3, <3>1, ImportedRow DEF SameTimes
  <2>5. IInv'
    BY StepInv
  <2>6. Range(Snapshot(active)) = ReadySet
    BY SnapshotLists DEF Lists
  <2>7. Range(Snapshot(active))' = ReadySet'
    <3>1. (IInv => Range(Snapshot(active)) = ReadySet)'
      BY SnapshotLists, PTL DEF Lists
    <3> QED BY <2>5, <3>1
  <2> QED BY <2>3, <2>4, <2>6, <2>7
<1> QED BY <1>1, AlwaysIInv, PTL DEF Spec, MigrationKeepsWork
-----------------------------------------------------------------------------
(* A step that terminates nobody and completes nobody *)
LEMMA CompletedFrame ==
  ASSUME CompletedOnce, completed' = completed,
         \A p \in PID : pcb'[p].state = "TERMINATED" <=> pcb[p].state = "TERMINATED"
  PROVE  CompletedOnce'
  BY DEF CompletedOnce

LEMMA CompletedStep == IInv /\ CompletedOnce /\ [Next]_vars => CompletedOnce'
<1> SUFFICES ASSUME IInv, CompletedOnce, [Next]_vars PROVE CompletedOnce'
  OBVIOUS
<1>1. /\ pcb \in [PID -> PCB] /\ active \in Policies
      /\ completed \in [Policies -> SUBSET PID] /\ RunningIsCurrent
  BY DEF IInv, TypeOK, ChildTypeOK, OnCpu
<1>2. ASSUME NEW p \in PID, Inject(p) PROVE CompletedOnce'
  <2>1. /\ active' = active /\ pcb[p].state = "NEW" /\ AddProcess(active, p)
        /\ completed' = completed
    BY <1>2 DEF Inject, AddProcess, FcfsAdd, RrAdd, PriorityAdd, MlfqAdd
  <2>2. OnlyRow(p) /\ pcb'[p].state = "READY"
    BY <2>1, AddProcessPlaces
  <2> QED BY <2>1, <2>2, CompletedFrame DEF OnlyRow
<1>3. ASSUME NEW p \in PID, Dispatch(p) PROVE CompletedOnce'
  <2>1. active' = active /\ GetNextProcess(active, p) /\ completed' = completed
    BY <1>3 DEF Dispatch, GetNextProcess
  <2>2. OnlyRow(p) /\ pcb'[p].state = "RUNNING" /\ p \in ReadySet
    BY <2>1, GetNextPlaces
  <2> QED BY <2>1, <2>2, CompletedFrame DEF OnlyRow, ReadySet
<1>4. CASE UNCHANGED <<pcb, completed>>
  BY <1>4, CompletedFrame
<1>5. ASSUME NEW r \in PCB, NEW incoming, Requeue(active, current, r, incoming),
             cpu \in {"preempt", "exec"}, active' = active
      PROVE  CompletedOnce'
  <2>1. current \in PID /\ pcb[current].state = "RUNNING"
    BY <1>5 DEF IInv, OnCpu, RunningIsCurrent
  <2>2. OnlyRow(current) /\ pcb'[current].state = "READY" /\ completed' = completed
    BY <1>5, <2>1, RequeuePlaces DEF Requeue
  <2> QED BY <2>1, <2>2, CompletedFrame DEF OnlyRow
<1>6. CASE PreemptAtDispatch
  <2>1. cpu = "preempt" /\ current \in PID /\ pcb[current] \in PCB
    BY <1>1, <1>6 DEF PreemptAtDispatch, IInv, OnCpu
  <2>2. \/ Requeue(active, current, pcb[current], held) /\ active' = active
        \/ UNCHANGED <<pcb, completed>>
    BY <1>6 DEF PreemptAtDispatch, childVars
  <2> QED BY <1>4, <1>5, <2>1, <2>2
<1>7. CASE ExecuteExpire
  <2>1. cpu = "exec" /\ current \in PID
    BY <1>7 DEF ExecuteExpire, IInv, OnCpu
  <2>2. Executed(pcb[current]) \in PCB
    BY <2>1, ExecutedRow
  <2>3. Requeue(active, current, Executed(pcb[current]), None) /\ active' = active
    BY <1>7 DEF ExecuteExpire
  <2> QED BY <1>5, <2>1, <2>2, <2>3
<1>8. CASE ExecuteContinue
  <2>1. /\ cpu = "exec" /\ current \in PID /\ completed' = completed
        /\ pcb' = [pcb EXCEPT ![current] = Executed(pcb[current])]
    BY <1>8 DEF ExecuteContinue, IInv, OnCpu
  <2>2. Executed(pcb[current]).state = "RUNNING" /\ pcb[current].state = "RUNNING"
    BY <1>1, <2>1, ExecutedRow DEF RunningIsCurrent
  <2> QED BY <1>1, <2>1, <2>2, CompletedFrame
<1>9. CASE ExecuteComplete
  <2> DEFINE r == Executed(pcb[current])
  <2>1. /\ cpu = "exec" /\ current \in PID
        /\ pcb' = [pcb EXCEPT ![current] = [r EXCEPT !.state = "TERMINATED", !.finish = clock]]
        /\ completed' = [completed EXCEPT ![active] = @ \cup {current}]
    BY <1>9 DEF ExecuteComplete, OnProcessComplete, IInv, OnCpu
  <2>2. r \in PCB
    BY <2>1, ExecutedRow
  <2> HIDE DEF r
  <2>3. pcb'[current].state = "TERMINATED"
    BY <1>1, <2>1, <2>2 DEF PCB
  <2>4. \A pol \in Policies : current \notin completed[pol]
    BY <1>1, <2>1 DEF CompletedOnce, RunningIsCurrent
  <2>5. ASSUME NEW p \in PID
        PROVE  /\ pcb'[p].state = "TERMINATED" <=> \E pol \in Policies : p \in completed'[pol]
               /\ \A pol1, pol2 \in Policies :
                    p \in completed'[pol1] \cap completed'[pol2] => pol1 = pol2
    <3>1. CASE p = current
      BY <1>1, <2>1, <2>3, <2>4, <3>1
    <3>2. CASE p # current
      <4>1. pcb'[p] = pcb[p] /\ \A pol \in Policies : p \in completed'[pol] <=> p \in completed[pol]
        BY <1>1, <2>1, <3>2
      <4> QED BY <4>1 DEF CompletedOnce
    <3> QED BY <3>1, <3>2
  <2> QED BY <2>5 DEF CompletedOnce
<1>10. CASE SchedulerTick
  <2>1. completed' = completed /\ OnTick(active) /\ active' = active
    BY <1>10 DEF SchedulerTick, OnTick
  <2>2. \A p \in PID : pcb'[p].state = pcb[p].state
    <3>1. CASE AgingDue(active) /\ ApplyAging
      BY <2>1, <3>1, AgingPlaces DEF AgingDue
    <3>2. CASE BoostDue(active) /\ PriorityBoost
      BY <2>1, <3>2, BoostPlaces DEF BoostDue
    <3>3. CASE UNCHANGED pcb
      BY <3>3
    <3> QED BY <2>1, <3>1, <3>2, <3>3 DEF OnTick
  <2> QED BY <2>1, <2>2, CompletedFrame
<1>11. ASSUME NEW t \in TARGETS, MigrateTo(t) PROVE CompletedOnce'
  <2>1. /\ t \in Policies /\ t # active /\ active' = t /\ Transfer(active, t)
        /\ completed' = completed
    BY <1>11, SimAssumption DEF MigrateTo, Transfer
  <2>2. pcb' = [p \in PID |-> IF p \in ReadySet THEN Imported(t, pcb[p]) ELSE pcb[p]]
    BY <2>1, TransferPlaces
  <2>3. ASSUME NEW p \in PID
        PROVE  pcb'[p].state = "TERMINATED" <=> pcb[p].state = "TERMINATED"
    BY <1>1, <2>1, <2>2, ImportedRow DEF ReadySet
  <2> QED BY <2>1, <2>3, CompletedFrame
<1>12. CASE Idle \/ TakeSnapshot \/ Report \/ AdvanceClock \/ MonitorSample \/ MonitorKeep \/ UNCHANGED vars
  BY <1>4, <1>12 DEF Idle, TakeSnapshot, Report, AdvanceClock, MonitorSample, MonitorKeep,
                     childVars, vars
<1> QED BY <1>2, <1>3, <1>6, <1>7, <1>8, <1>9, <1>10, <1>11, <1>12 DEF Next, CpuNext, MonitorNext

(* A completed process is in the completed_ list of exactly one child,     *)
(* although a migration may fall between its dispatch and its last tick.   *)
THEOREM CompletedByOneChild == Spec => []CompletedOnce
<1>1. Init => CompletedOnce
  <2> SUFFICES ASSUME Init PROVE CompletedOnce
    OBVIOUS
  <2>1. PICK a, b, r : pcb = [p \in PID |-> NewProcess(a[p], b[p], r[p])]
    BY DEF Init
  <2>2. \A p \in PID : pcb[p].state = "NEW"
    BY <2>1 DEF NewProcess
  <2> QED BY <2>2 DEF Init, ChildInit, CompletedOnce
<1> QED BY <1>1, AlwaysIInv, CompletedStep, PTL DEF Spec
=============================================================================
