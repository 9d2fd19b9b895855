-------------------------- MODULE ChildSchedulers ---------------------------
(***************************************************************************)
(* The four child schedulers AdaptiveScheduler owns: FCFSScheduler,        *)
(* RRScheduler, PriorityScheduler and MLFQScheduler (src/scheduler/).      *)
(* Each IScheduler method that changes state is an action with the child   *)
(* it is called on as its first argument; one disjunct per child.  Every   *)
(* action here runs inside AdaptiveScheduler::scheduler_mtx_.              *)
(***************************************************************************)
EXTENDS ReadyOrder

CONSTANTS LEVEL_QUANTA,         \* MLFQ quantum of each level; 0 = run to completion
          RR_QUANTUM,           \* RRScheduler::quantum_
          BOOST_INTERVAL,       \* ticks between two MLFQ boosts
          AGING_THRESHOLD,      \* ticks between two aging passes, and passes to a boost
          MAX_PRIORITY_BOOSTS

ASSUME QuantaAssumption ==
  /\ LEVEL_QUANTA \in [Levels -> Nat]
  /\ RR_QUANTUM \in Nat
  /\ BOOST_INTERVAL \in Nat
  /\ AGING_THRESHOLD \in Nat \ {0}
  /\ MAX_PRIORITY_BOOSTS \in Nat

VARIABLES clock,      \* SimClock::tick_
          pcb,        \* the process table
          queue,      \* the ReadyQueue of FCFS, RR and PRIORITY
          levels,     \* the four ReadyQueues of MLFQ
          lastBoost,  \* MLFQScheduler::last_boost_tick_
          completed   \* the completed_ list of each child, as a set

childVars == <<pcb, queue, levels, lastBoost, completed>>

SingleQueue == {"FCFS", "ROUND_ROBIN", "PRIORITY"}
Policies == SingleQueue \cup {"MLFQ"}

ChildTypeOK ==
  /\ clock \in Tick
  /\ pcb \in [PID -> PCB]
  /\ queue \in [SingleQueue -> Seq(PID)]
  /\ levels \in [Levels -> Seq(PID)]
  /\ lastBoost \in Tick
  /\ completed \in [Policies -> SUBSET PID]

ChildInit ==
  /\ clock = 0
  /\ queue = [pol \in SingleQueue |-> <<>>]
  /\ levels = [l \in Levels |-> <<>>]
  /\ lastBoost = 0
  /\ completed = [pol \in Policies |-> {}]

(* snapshot() and the result of drain_queue(): front of the queue first,   *)
(* MLFQ level by level.                                                    *)
Snapshot(pol) == IF pol = "MLFQ"
                 THEN levels[0] \o levels[1] \o levels[2] \o levels[3]
                 ELSE queue[pol]

(* The quantum MLFQ arms a process with at level l. *)
LevelQuantum(l, remaining) ==
  IF LEVEL_QUANTA[l] = 0 THEN remaining ELSE LEVEL_QUANTA[l]

(* ReadyQueue::push on the queue of a child, on one of MLFQ's levels. *)
Push(pol, p) ==
  /\ queue' = [queue EXCEPT ![pol] =
                 IF pol = "PRIORITY"
                 THEN InsertAll(queue[pol], <<p>>, PriorityLess(pcb))
                 ELSE Append(queue[pol], p)]
  /\ UNCHANGED levels
PushLevel(l, p) ==
  /\ levels' = [levels EXCEPT ![l] = Append(levels[l], p)]
  /\ UNCHANGED queue
-----------------------------------------------------------------------------
(* add_process of each child, then of AdaptiveScheduler, which calls the  *)
(* one of the active child.                                                *)
FcfsAdd(p) ==
  /\ pcb' = [pcb EXCEPT ![p].state = "READY"]
  /\ Push("FCFS", p)
RrAdd(p) ==
  /\ pcb' = [pcb EXCEPT ![p].state = "READY", ![p].quantum = RR_QUANTUM]
  /\ Push("ROUND_ROBIN", p)
PriorityAdd(p) ==
  /\ pcb' = [pcb EXCEPT ![p].state = "READY", ![p].starved = 0]
  /\ Push("PRIORITY", p)
MlfqAdd(p) ==
  /\ pcb' = [pcb EXCEPT ![p].state = "READY", ![p].level = 0,
                        ![p].quantum = LEVEL_QUANTA[0]]
  /\ PushLevel(0, p)
AddProcess(pol, p) ==
  /\ \/ pol = "FCFS" /\ FcfsAdd(p)
     \/ pol = "ROUND_ROBIN" /\ RrAdd(p)
     \/ pol = "PRIORITY" /\ PriorityAdd(p)
     \/ pol = "MLFQ" /\ MlfqAdd(p)
  /\ UNCHANGED <<lastBoost, completed>>

(* try_pop: p is the front of the child's queue, for MLFQ the front of the *)
(* first level that is not empty.                                          *)
TryPop(pol, p) ==
  \/ /\ pol \in SingleQueue
     /\ queue[pol] # <<>>
     /\ p = Head(queue[pol])
     /\ queue' = [queue EXCEPT ![pol] = Tail(queue[pol])]
     /\ UNCHANGED levels
  \/ /\ pol = "MLFQ"
     /\ \E l \in Levels :
          /\ levels[l] # <<>>
          /\ \A k \in Levels : k < l => levels[k] = <<>>
          /\ p = Head(levels[l])
          /\ levels' = [levels EXCEPT ![l] = Tail(levels[l])]
     /\ UNCHANGED queue

(* The quantum get_next_process arms: the whole remaining time under FCFS  *)
(* and PRIORITY.                                                           *)
ArmedQuantum(pol, r) ==
  CASE pol = "ROUND_ROBIN" -> RR_QUANTUM
    [] pol = "MLFQ"        -> LevelQuantum(r.level, r.remaining)
    [] OTHER               -> r.remaining

(* get_next_process, when it returns p *)
GetNextProcess(pol, p) ==
  /\ TryPop(pol, p)
  /\ pcb' = [pcb EXCEPT ![p].state = "RUNNING",
                        ![p].start = IF pcb[p].start = None THEN clock ELSE @,
                        ![p].quantum = ArmedQuantum(pol, pcb[p])]
  /\ UNCHANGED <<lastBoost, completed>>
-----------------------------------------------------------------------------
(* handle_preemption(running, incoming): whether the running process,      *)
(* whose row is r, gives up the CPU.  incoming may be None.                *)
QuantumExhausted(r) == r.quantum = 0 /\ r.remaining > 0
OutrankedOrEqual(pol, r, incoming) ==  \* mutant: equals preempt each other
  /\ incoming # None
  /\ CASE pol = "PRIORITY" -> pcb[incoming].priority <= r.priority
       [] pol = "MLFQ"     -> pcb[incoming].level <= r.level
       [] OTHER            -> FALSE
OutrankedUnder(pol, r, incoming) ==
  /\ incoming # None
  /\ CASE pol = "PRIORITY" -> pcb[incoming].priority < r.priority
       [] pol = "MLFQ"     -> pcb[incoming].level < r.level
       [] OTHER            -> FALSE
Preempts(pol, r, incoming) ==
  \/ OutrankedUnder(pol, r, incoming)
  \/ pol \in {"ROUND_ROBIN", "MLFQ"} /\ QuantumExhausted(r)

(* The level MLFQ puts a preempted process on: its own when a higher level *)
(* arrived, one lower (demote) when its quantum is used up.                *)
RequeueLevel(r, incoming) ==
  IF OutrankedUnder("MLFQ", r, incoming) \/ r.level = NUM_LEVELS - 1
  THEN r.level ELSE r.level + 1

(* handle_preemption, when it returns true: running process p, row r *)
RrRequeue(p, r) ==
  /\ pcb' = [pcb EXCEPT ![p] = [r EXCEPT !.state = "READY",
                                         !.quantum = RR_QUANTUM]]
  /\ Push("ROUND_ROBIN", p)
PriorityRequeue(p, r) ==
  /\ pcb' = [pcb EXCEPT ![p] = [r EXCEPT !.state = "READY"]]
  /\ Push("PRIORITY", p)
MlfqRequeue(p, r, incoming) ==
  LET l == RequeueLevel(r, incoming)
  IN /\ pcb' = [pcb EXCEPT ![p] =
                  [r EXCEPT !.state = "READY", !.level = l,
                            !.quantum = LevelQuantum(l, r.remaining)]]
     /\ PushLevel(l, p)
Requeue(pol, p, r, incoming) ==
  /\ Preempts(pol, r, incoming)
  /\ \/ pol = "ROUND_ROBIN" /\ RrRequeue(p, r)
     \/ pol = "PRIORITY" /\ PriorityRequeue(p, r)
     \/ pol = "MLFQ" /\ MlfqRequeue(p, r, incoming)
  /\ UNCHANGED <<lastBoost, completed>>

(* on_process_complete: record_completion, then the child's completed_ *)
OnProcessComplete(pol, p, r) ==
  /\ pcb' = [pcb EXCEPT ![p] = [r EXCEPT !.state = "TERMINATED",
                                         !.finish = clock]]
  /\ completed' = [completed EXCEPT ![pol] = @ \cup {p}]
  /\ UNCHANGED <<queue, levels, lastBoost>>
-----------------------------------------------------------------------------
(* PriorityScheduler::apply_aging *)
Aged == Range(queue["PRIORITY"])
BoostedOneLate ==  \* mutant: strictly more than the threshold
  {p \in Aged : /\ pcb[p].starved + 1 > AGING_THRESHOLD
                /\ pcb[p].boosts < MAX_PRIORITY_BOOSTS
                /\ pcb[p].priority > 0}
Boosted == {p \in Aged : /\ pcb[p].starved + 1 >= AGING_THRESHOLD
                         /\ pcb[p].boosts < MAX_PRIORITY_BOOSTS
                         /\ pcb[p].priority > 0}
ApplyAgingUnsorted ==  \* mutant: aging without ReadyQueue::resort
  /\ pcb' = [p \in PID |->
               IF p \in Boosted
               THEN [pcb[p] EXCEPT !.priority = @ - 1, !.starved = 0,
                                   !.boosts = @ + 1]
               ELSE IF p \in Aged THEN [pcb[p] EXCEPT !.starved = @ + 1]
               ELSE pcb[p]]
  /\ UNCHANGED <<queue, levels, lastBoost>>
ApplyAging ==
  /\ pcb' = [p \in PID |->
               IF p \in Boosted
               THEN [pcb[p] EXCEPT !.priority = @ - 1, !.starved = 0,
                                   !.boosts = @ + 1]
               ELSE IF p \in Aged THEN [pcb[p] EXCEPT !.starved = @ + 1]
               ELSE pcb[p]]
  /\ queue' = IF Boosted = {} THEN queue
              ELSE [queue EXCEPT !["PRIORITY"] =
                      InsertAll(<<>>, queue["PRIORITY"], PriorityLess(pcb'))]
  /\ UNCHANGED <<levels, lastBoost>>

(* MLFQScheduler::priority_boost: levels 1..3 are appended to level 0.     *)
BelowTop == UNION {Range(levels[l]) : l \in Levels \ {0}}
PriorityBoost ==
  /\ pcb' = [p \in PID |->
               IF p \in BelowTop
               THEN [pcb[p] EXCEPT !.level = 0, !.starved = 0, !.boosts = @ + 1,
                                   !.quantum = LEVEL_QUANTA[0]]
               ELSE pcb[p]]
  /\ levels' = [l \in Levels |-> IF l = 0 THEN Snapshot("MLFQ") ELSE <<>>]
  /\ lastBoost' = clock
  /\ UNCHANGED queue

(* on_tick; FCFS and RR inherit the empty IScheduler::on_tick *)
AgingDue(pol) == pol = "PRIORITY" /\ clock % AGING_THRESHOLD = 0
BoostDue(pol) == pol = "MLFQ" /\ clock - lastBoost >= BOOST_INTERVAL
OnTick(pol) ==
  /\ \/ AgingDue(pol) /\ ApplyAging
     \/ BoostDue(pol) /\ PriorityBoost
     \/ /\ ~AgingDue(pol) /\ ~BoostDue(pol)
        /\ UNCHANGED <<pcb, queue, levels, lastBoost>>
  /\ UNCHANGED completed
-----------------------------------------------------------------------------
(* drain_queue of one child handed to import_queue of another: the state   *)
(* is READY, RR and MLFQ arm their quantum, MLFQ files each process on the *)
(* level it last had, PRIORITY inserts one process after the other.        *)
ImportedAtTop(to, r) ==  \* mutant: MLFQ forgets the level it files by
  CASE to = "ROUND_ROBIN" -> [r EXCEPT !.state = "READY", !.quantum = RR_QUANTUM]
    [] to = "MLFQ" -> [r EXCEPT !.state = "READY", !.level = 0,
                                !.quantum = LevelQuantum(0, r.remaining)]
    [] OTHER -> [r EXCEPT !.state = "READY"]
Imported(to, r) ==
  CASE to = "ROUND_ROBIN" -> [r EXCEPT !.state = "READY", !.quantum = RR_QUANTUM]
    [] to = "MLFQ" -> [r EXCEPT !.state = "READY",
                                !.quantum = LevelQuantum(r.level, r.remaining)]
    [] OTHER -> [r EXCEPT !.state = "READY"]

Transfer(from, to) ==
  LET drained == Snapshot(from)
      moved   == Range(drained)
      arrived == IF to = "PRIORITY"
                 THEN InsertAll(queue[to], drained, PriorityLess(pcb))
                 ELSE queue[to] \o drained
      AtLevel(l) == SelectIn(drained, {p \in moved : pcb[p].level = l})
  IN /\ pcb' = [p \in PID |-> IF p \in moved THEN Imported(to, pcb[p]) ELSE pcb[p]]
     /\ queue' = [pol \in SingleQueue |->
                    IF pol = to THEN arrived
                    ELSE IF pol = from THEN <<>> ELSE queue[pol]]
     /\ levels' = [l \in Levels |->
                     IF to = "MLFQ" THEN levels[l] \o AtLevel(l)
                     ELSE IF from = "MLFQ" THEN <<>> ELSE levels[l]]
     /\ UNCHANGED <<lastBoost, completed>>

=============================================================================
