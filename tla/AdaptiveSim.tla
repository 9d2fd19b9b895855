---------------------------- MODULE AdaptiveSim -----------------------------
(***************************************************************************)
(* A running simulation: the generator thread submits processes, the CPU   *)
(* thread executes them tick by tick, the monitor thread may switch the    *)
(* policy at any moment.  The three meet in AdaptiveScheduler, whose       *)
(* scheduler_mtx_ makes each child-scheduler call atomic and nothing more: *)
(* one action here is one such critical section together with the          *)
(* thread-local code around it, so the interleavings of the actions are    *)
(* those of the program.                                                   *)
(*                                                                         *)
(* Which policy the monitor picks is left open (any member of TARGETS):    *)
(* the scoring is PolicyEngine's subject.  Starting, stopping and          *)
(* joining the threads is Shutdown's.                                      *)
(***************************************************************************)
EXTENDS ChildSchedulers

CONSTANTS COOLDOWN_TICKS,
          PREEMPTION_ENABLED, \* CPUConfig::preemption_enabled
          TARGETS,            \* policies the monitor may select; {} = --no-adaptive
          ARRIVALS, BURSTS, PRIORITIES,  \* values the workload may contain
          MAX_TICKS,          \* bound: the clock stops here
          MAX_LAG             \* bound: ticks a process is submitted late at most

ASSUME SimAssumption ==
  /\ COOLDOWN_TICKS \in Nat
  /\ PREEMPTION_ENABLED \in BOOLEAN
  /\ TARGETS \subseteq Policies
  /\ ARRIVALS \subseteq Nat
  /\ BURSTS \subseteq Nat
  /\ PRIORITIES \subseteq Int
  /\ MAX_TICKS \in Nat /\ MAX_TICKS < TickRange  \* the clock is a Tick
  /\ MAX_LAG \in Nat

VARIABLES active,      \* AdaptiveScheduler::active_
          cooldown,    \* cooldown_expires_at_
          lastSwitch,  \* tick of the last SwitchRecord, None if there is none
          cpu,         \* what the CPU thread does next
          current,     \* CPUEngine::current_proc_
          held,        \* the CPU thread's local pointer: front, then completed
          monitor,     \* what the monitor thread does next
          scheduledBy  \* the policy StatisticsEngine has for each process

vars == <<clock, pcb, queue, levels, lastBoost, completed, active, cooldown,
          lastSwitch, cpu, current, held, monitor, scheduledBy>>

CpuSteps == {"fetch", "snapshot", "preempt", "exec", "report", "ontick", "tick"}

TypeOK ==
  /\ ChildTypeOK
  /\ active \in Policies
  /\ cooldown \in Tick
  /\ lastSwitch \in Tick \cup {None}
  /\ cpu \in CpuSteps
  /\ current \in PID \cup {None}
  /\ held \in PID \cup {None}
  /\ monitor \in {"sample", "decide"}
  /\ scheduledBy \in [PID -> Policies \cup {None}]

Init ==
  /\ ChildInit
  /\ \E a \in [PID -> ARRIVALS], b \in [PID -> BURSTS], r \in [PID -> PRIORITIES] :
       pcb = [p \in PID |-> NewProcess(a[p], b[p], r[p])]
  /\ active = "MLFQ"
  /\ cooldown = 0 /\ lastSwitch = None
  /\ cpu = "fetch" /\ current = None /\ held = None
  /\ monitor = "sample"
  /\ scheduledBy = [p \in PID |-> None]
-----------------------------------------------------------------------------
(* Generator thread: run_static submits in the order of arrival, a process *)
(* once wait_until has seen the clock at or past its arrival.              *)
InjectEarly(p) ==  \* mutant: the generator does not wait for the arrival
  /\ pcb[p].state = "NEW"
  /\ \A q \in PID : pcb[q].state = "NEW" => pcb[p].arrival <= pcb[q].arrival
  /\ AddProcess(active, p)
  /\ UNCHANGED <<clock, active, cooldown, lastSwitch, cpu, current, held,
                 monitor, scheduledBy>>
Inject(p) ==
  /\ pcb[p].state = "NEW"
  /\ pcb[p].arrival <= clock
  /\ \A q \in PID : pcb[q].state = "NEW" => pcb[p].arrival <= pcb[q].arrival
  /\ AddProcess(active, p)
  /\ UNCHANGED <<clock, active, cooldown, lastSwitch, cpu, current, held,
                 monitor, scheduledBy>>
-----------------------------------------------------------------------------
(* CPU thread: CPUEngine::run *)
Dispatch(p) ==
  /\ cpu = "fetch"
  /\ GetNextProcess(active, p)
  /\ current' = p
  /\ cpu' = "snapshot"
  /\ UNCHANGED <<clock, active, cooldown, lastSwitch, held, monitor, scheduledBy>>

Idle ==
  /\ cpu = "fetch"
  /\ Snapshot(active) = <<>>
  /\ cpu' = "ontick"
  /\ UNCHANGED <<clock, childVars, active, cooldown, lastSwitch, current, held,
                 monitor, scheduledBy>>

TakeSnapshot ==
  /\ cpu = "snapshot"
  /\ LET snap == Snapshot(active)
     IN IF snap # <<>> /\ Head(snap) # current
        THEN held' = Head(snap) /\ cpu' = "preempt"
        ELSE cpu' = "exec" /\ UNCHANGED held
  /\ UNCHANGED <<clock, childVars, active, cooldown, lastSwitch, current,
                 monitor, scheduledBy>>

(* The snapshot is stale by now: processes may have been added and the     *)
(* policy may have changed.  A process preempted here leaves the CPU       *)
(* without a process for the rest of this tick.                            *)
PreemptKeepingCurrent ==  \* mutant: current_proc_ is not reset
  /\ cpu = "preempt"
  /\ \/ Requeue(active, current, pcb[current], held)
     \/ ~Preempts(active, pcb[current], held) /\ UNCHANGED childVars
  /\ cpu' = "exec"
  /\ held' = None
  /\ UNCHANGED <<clock, active, cooldown, lastSwitch, current, monitor, scheduledBy>>
PreemptAtDispatch ==
  /\ cpu = "preempt"
  /\ \/ /\ Requeue(active, current, pcb[current], held)
        /\ current' = None
        /\ cpu' = "ontick"
     \/ /\ ~Preempts(active, pcb[current], held)
        /\ cpu' = "exec"
        /\ UNCHANGED <<childVars, current>>
  /\ held' = None
  /\ UNCHANGED <<clock, active, cooldown, lastSwitch, monitor, scheduledBy>>

(* execute_tick: the row of the running process after one tick *)
DecUnguarded(n) == n - 1  \* mutant: quantum_remaining wraps below 0
Dec(n) == IF n > 0 THEN n - 1 ELSE 0
Executed(r) == [r EXCEPT !.state = "RUNNING",
                         !.start = IF r.start = None THEN clock ELSE @,
                         !.remaining = Dec(@), !.quantum = Dec(@)]
ExpiresAfter(r) == /\ PREEMPTION_ENABLED
                   /\ r.quantum = 0
                   /\ Preempts(active, r, None)

ExecuteComplete ==
  /\ cpu = "exec"
  /\ Executed(pcb[current]).remaining = 0
  /\ OnProcessComplete(active, current, Executed(pcb[current]))
  /\ current' = None
  /\ held' = current
  /\ cpu' = "report"
  /\ UNCHANGED <<clock, active, cooldown, lastSwitch, monitor, scheduledBy>>

ExecuteExpireFree ==  \* mutant: the next process is fetched in the same tick
  /\ cpu = "exec"
  /\ Executed(pcb[current]).remaining > 0
  /\ ExpiresAfter(Executed(pcb[current]))
  /\ Requeue(active, current, Executed(pcb[current]), None)
  /\ current' = None
  /\ cpu' = "fetch"
  /\ UNCHANGED <<clock, active, cooldown, lastSwitch, held, monitor, scheduledBy>>
ExecuteExpire ==
  /\ cpu = "exec"
  /\ Executed(pcb[current]).remaining > 0
  /\ ExpiresAfter(Executed(pcb[current]))
  /\ Requeue(active, current, Executed(pcb[current]), None)
  /\ current' = None
  /\ cpu' = "ontick"
  /\ UNCHANGED <<clock, active, cooldown, lastSwitch, held, monitor, scheduledBy>>

ExecuteContinue ==
  /\ cpu = "exec"
  /\ Executed(pcb[current]).remaining > 0
  /\ ~ExpiresAfter(Executed(pcb[current]))
  /\ pcb' = [pcb EXCEPT ![current] = Executed(pcb[current])]
  /\ cpu' = "ontick"
  /\ UNCHANGED <<clock, queue, levels, lastBoost, completed, active, cooldown,
                 lastSwitch, current, held, monitor, scheduledBy>>

(* SimulationController::on_process_complete asks for the active policy    *)
(* again, in a critical section of its own.                                *)
ReportTwice ==  \* mutant: the callback completes the process a second time
  /\ cpu = "report"
  /\ scheduledBy' = [scheduledBy EXCEPT ![held] = active]
  /\ OnProcessComplete(active, held, pcb[held])
  /\ held' = None
  /\ cpu' = "ontick"
  /\ UNCHANGED <<clock, active, cooldown, lastSwitch, current, monitor>>
Report ==
  /\ cpu = "report"
  /\ scheduledBy' = [scheduledBy EXCEPT ![held] = active]
  /\ held' = None
  /\ cpu' = "ontick"
  /\ UNCHANGED <<clock, childVars, active, cooldown, lastSwitch, current, monitor>>

SchedulerTick ==
  /\ cpu = "ontick"
  /\ OnTick(active)
  /\ cpu' = "tick"
  /\ UNCHANGED <<clock, active, cooldown, lastSwitch, current, held, monitor,
                 scheduledBy>>

(* SimClock::tick and the loop head.  The last three conjuncts of the      *)
(* guard are bounds, and the end of the run: once every process has        *)
(* completed the controller stops the CPU.                                 *)
AdvanceClock ==
  /\ cpu = "tick"
  /\ clock < MAX_TICKS
  /\ \A p \in PID : pcb[p].state = "NEW" => clock < pcb[p].arrival + MAX_LAG
  /\ \E p \in PID : pcb[p].state # "TERMINATED"
  /\ clock' = clock + 1
  /\ cpu' = IF current = None THEN "fetch" ELSE "exec"
  /\ UNCHANGED <<childVars, active, cooldown, lastSwitch, current, held, monitor,
                 scheduledBy>>
-----------------------------------------------------------------------------
(* Monitor thread: evaluate_and_adapt.  The cooldown is tested against the *)
(* clock as it was when the monitor woke up.                               *)
MonitorSampleAnyTime ==  \* mutant: no cooldown
  /\ monitor = "sample"
  /\ TARGETS # {}
  /\ monitor' = "decide"
  /\ UNCHANGED <<clock, childVars, active, cooldown, lastSwitch, cpu, current,
                 held, scheduledBy>>
MonitorSample ==
  /\ monitor = "sample"
  /\ TARGETS # {}
  /\ clock >= cooldown
  /\ monitor' = "decide"
  /\ UNCHANGED <<clock, childVars, active, cooldown, lastSwitch, cpu, current,
                 held, scheduledBy>>

MonitorKeep ==
  /\ monitor = "decide"
  /\ monitor' = "sample"
  /\ UNCHANGED <<clock, childVars, active, cooldown, lastSwitch, cpu, current,
                 held, scheduledBy>>

MigrateTo(target) ==
  /\ monitor = "decide"
  /\ target # active
  /\ Transfer(active, target)
  /\ active' = target
  /\ cooldown' = clock + COOLDOWN_TICKS
  /\ lastSwitch' = clock
  /\ monitor' = "sample"
  /\ UNCHANGED <<clock, cpu, current, held, scheduledBy>>
-----------------------------------------------------------------------------
CpuNext == \/ \E p \in PID : Dispatch(p)
           \/ Idle \/ TakeSnapshot \/ PreemptAtDispatch
           \/ ExecuteComplete \/ ExecuteExpire \/ ExecuteContinue
           \/ Report \/ SchedulerTick \/ AdvanceClock
MonitorNext == MonitorSample \/ MonitorKeep \/ \E t \in TARGETS : MigrateTo(t)
Next == CpuNext \/ MonitorNext \/ \E p \in PID : Inject(p)

Spec == Init /\ [][Next]_vars

(* The threads are std::threads, none of which waits for another here: the *)
(* CPU and the generator each run on.  Nothing is asked of the monitor.    *)
FairSpec == Spec /\ WF_vars(CpuNext) /\ WF_vars(\E p \in PID : Inject(p))
-----------------------------------------------------------------------------
(* No process is ever lost or duplicated, whatever the interleaving of     *)
(* submissions, preemptions, boosts and migrations: the READY processes    *)
(* are exactly the queued ones, each queued once, all of them in the       *)
(* active child; the RUNNING process is the one on the CPU.                *)
OnlyActiveHoldsWork == \A pol \in Policies \ {active} : Snapshot(pol) = <<>>
ReadyIsQueued ==
  /\ IsInjective(Snapshot(active))
  /\ Range(Snapshot(active)) = {p \in PID : pcb[p].state = "READY"}
RunningIsCurrent == \A p \in PID : pcb[p].state = "RUNNING" <=> p = current
Conservation == OnlyActiveHoldsWork /\ ReadyIsQueued /\ RunningIsCurrent

(* A completed process is in the completed_ list of exactly one child,     *)
(* although the active child may change between its dispatch, its last     *)
(* tick and the statistics record of its completion.                       *)
CompletedOnce ==
  \A p \in PID :
    /\ pcb[p].state = "TERMINATED" <=> \E pol \in Policies : p \in completed[pol]
    /\ \A pol1, pol2 \in Policies :
         p \in completed[pol1] \cap completed[pol2] => pol1 = pol2

(* MLFQ's queues and the processes' own queue_level agree: the preemption  *)
(* test and the quantum use the field, the dispatch uses the queue.        *)
FiledByLevel == \A l \in Levels : \A p \in Range(levels[l]) : pcb[p].level = l

(* The priority queue is sorted after every push, aging pass and import:   *)
(* lower_bound is only meaningful on a sorted queue, and get_next_process  *)
(* serves the front without looking further.                               *)
PrioritySorted == SortedBy(queue["PRIORITY"], PriorityLess(pcb))

(* README.md:87: a process that waits is boosted.  The threshold is applied*)
(* to the passes as well as to the ticks between them, a boost of MLFQ     *)
(* takes one of the boosts of PRIORITY (both count in boost_count), and    *)
(* the counter comes along when a migration brings the process back: still *)
(* nobody in the queue has missed AGING_THRESHOLD passes unless its boosts *)
(* are used up or it is as urgent as aging can make it (a trace may give   *)
(* a negative priority).                                                   *)
StarvedAreBoosted ==
  \A p \in Range(queue["PRIORITY"]) :
    pcb[p].starved >= AGING_THRESHOLD =>
      pcb[p].boosts >= MAX_PRIORITY_BOOSTS \/ pcb[p].priority <= 0

(* One CPU: the ticks executed by all processes together never exceed the  *)
(* ticks of the clock, with or without preemptions and migrations.         *)
TicksExecuted == SumFunction([p \in PID |-> pcb[p].burst - pcb[p].remaining])
CpuTimeFitsClock ==
  TicksExecuted <= IF cpu \in {"report", "ontick", "tick"} THEN clock + 1 ELSE clock

(* The unsigned differences of record_completion do not wrap around: a     *)
(* process is not started before it arrives, nor completed before it is    *)
(* started and has had its burst; waiting and response fit in turnaround.  *)
TimesOrdered ==
  \A p \in PID :
    LET r == pcb[p]
    IN /\ r.start # None => r.arrival <= r.start /\ r.start <= clock
       /\ r.finish # None =>
            /\ r.start # None
            /\ r.start <= r.finish /\ r.finish <= clock
            /\ r.start + r.burst <= r.finish + 1
            /\ ResponseTime(r) <= Turnaround(r)
            /\ WaitingTime(r) <= Turnaround(r)

(* README.md:141: at least COOLDOWN_TICKS between two switches, although   *)
(* the cooldown is tested before the metrics are sampled and the switch    *)
(* happens later, at a clock the monitor reads again.                      *)
SwitchesAreSpaced ==
  [][active' # active /\ lastSwitch # None
       => clock >= lastSwitch + COOLDOWN_TICKS]_vars

(* README.md:146: a migration keeps every process's remaining time,        *)
(* priority and level, and the set of processes that are queued.           *)
MigrationKeepsWork ==
  [][active' # active =>
       /\ \A p \in PID : /\ pcb'[p].remaining = pcb[p].remaining
                          /\ pcb'[p].priority = pcb[p].priority
                          /\ pcb'[p].level = pcb[p].level
       /\ Range(Snapshot(active))' = Range(Snapshot(active))]_vars

(* Every process of the workload completes, whatever the monitor does:     *)
(* preemptions at dispatch, which burn a tick without executing anything,  *)
(* cannot go on forever.                                                   *)
EveryProcessCompletes == \A p \in PID : <>(pcb[p].state = "TERMINATED")

(* The policies, the queues, the boosts and the switches between policies  *)
(* implement the policy-free contract: the waiting processes are those in  *)
(* the queue of the active child, so a migration must be a stuttering      *)
(* step.                                                                   *)
Contract == INSTANCE SchedulerContract WITH
              Process   <- PID,
              NoProcess <- None,
              pending   <- {p \in PID : pcb[p].state = "NEW"},
              waiting   <- Range(Snapshot(active)),
              running   <- current,
              left      <- [p \in PID |-> pcb[p].remaining],
              done      <- UNION {completed[pol] : pol \in Policies}
ImplementsContract == Contract!ContractSpec
=============================================================================
