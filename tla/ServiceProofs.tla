---------------------------- MODULE ServiceProofs -----------------------------
(***************************************************************************)
(* What a simulation does for its processes, for every workload and every  *)
(* interleaving of generator, CPU and monitor: it implements the           *)
(* policy-free SchedulerContract, keeps the times of every process in      *)
(* order, the priority queue sorted and nobody starving in it.             *)
(*                                                                         *)
(* StepEffects says what a step of AdaptiveSim does to the process table,  *)
(* in the terms of the contract: five kinds of steps, whatever the policy. *)
(***************************************************************************)
EXTENDS AdaptiveSimProofs

SameRecord(p) == pcb'[p].state = pcb[p].state /\ SameTimes(pcb'[p], pcb[p])
StartedBy(r) == IF r.start = None THEN clock ELSE r.start

(* No process is moved or executed. *)
QuietStep ==
  /\ \A p \in PID : SameRecord(p)
  /\ current' = current
(* p arrives. *)
SubmitStep(p) ==
  /\ pcb[p].state = "NEW" /\ pcb[p].arrival <= clock
  /\ pcb'[p].state = "READY" /\ SameTimes(pcb'[p], pcb[p])
  /\ OnlyRow(p) /\ current' = current
(* p gets the CPU. *)
StartStep(p) ==
  /\ pcb[p].state = "READY" /\ pcb'[p].state = "RUNNING"
  /\ pcb'[p].start = StartedBy(pcb[p])
  /\ pcb'[p].arrival = pcb[p].arrival /\ pcb'[p].burst = pcb[p].burst
  /\ pcb'[p].remaining = pcb[p].remaining /\ pcb'[p].finish = pcb[p].finish
  /\ OnlyRow(p) /\ current = None /\ current' = p
(* p is put back before it has executed. *)
YieldStep(p) ==
  /\ current = p /\ pcb'[p].state = "READY" /\ SameTimes(pcb'[p], pcb[p])
  /\ OnlyRow(p) /\ current' = None
(* p executes for a tick and goes on, is put back or completes. *)
RunStep(p) ==
  /\ current = p /\ cpu = "exec"
  /\ pcb'[p].arrival = pcb[p].arrival /\ pcb'[p].burst = pcb[p].burst
  /\ pcb'[p].remaining = Dec(pcb[p].remaining) /\ pcb'[p].start = StartedBy(pcb[p])
  /\ \/ /\ pcb'[p].remaining > 0 /\ pcb'[p].finish = pcb[p].finish
        /\ \/ pcb'[p].state = "RUNNING" /\ current' = p
           \/ pcb'[p].state = "READY" /\ current' = None
        /\ cpu' = "ontick"
     \/ /\ pcb'[p].remaining = 0 /\ pcb'[p].finish = clock
        /\ pcb'[p].state = "TERMINATED" /\ current' = None
        /\ cpu' = "report"
  /\ OnlyRow(p) /\ clock' = clock

(* The tick of the clock a step belongs to: after the execution the CPU    *)
(* thread is on its way to the next one.                                   *)
AfterExecution == {"report", "ontick", "tick"}
ClockStep ==
  \/ clock' = clock /\ (cpu \in AfterExecution => cpu' \in AfterExecution)
  \/ clock' = clock + 1 /\ clock < MAX_TICKS

StepEffect ==
  /\ ClockStep
  /\ QuietStep \/ \E p \in PID : \/ SubmitStep(p) \/ StartStep(p)
                                 \/ YieldStep(p) \/ RunStep(p)
-----------------------------------------------------------------------------
LEMMA QuietFrame ==
  ASSUME UNCHANGED <<pcb, current>>
  PROVE  QuietStep
BY DEF QuietStep, SameRecord, SameTimes

(* Steps that leave the process table alone *)
LEMMA ObservingEffect ==
  ASSUME Idle \/ TakeSnapshot \/ Report \/ AdvanceClock \/ MonitorSample \/ MonitorKeep
         \/ UNCHANGED vars
  PROVE  StepEffect
<1>1. UNCHANGED <<pcb, current>>
  BY DEF Idle, TakeSnapshot, Report, AdvanceClock, MonitorSample, MonitorKeep, vars, childVars
<1>2. ClockStep
  BY DEF Idle, TakeSnapshot, Report, AdvanceClock, MonitorSample, MonitorKeep, vars,
         ClockStep, AfterExecution
<1> QED
  BY <1>1, <1>2, QuietFrame DEF StepEffect

(* Submission and dispatch *)
LEMMA InjectEffect ==
  ASSUME IInv, NEW p \in PID, Inject(p)
  PROVE  StepEffect
<1>1. AddProcess(active, p) /\ active' = active /\ pcb[p].state = "NEW"
  BY DEF Inject
<1>2. SubmitStep(p)
  BY <1>1, AddProcessPlaces DEF Inject, SubmitStep
<1>3. ClockStep
  BY DEF Inject, ClockStep
<1> QED
  BY <1>2, <1>3 DEF StepEffect
LEMMA DispatchEffect ==
  ASSUME IInv, NEW p \in PID, Dispatch(p)
  PROVE  StepEffect
<1>1. /\ GetNextProcess(active, p) /\ active' = active
      /\ cpu = "fetch" /\ current' = p /\ clock' = clock
  BY DEF Dispatch
<1>2. current = None
  BY <1>1 DEF IInv, OnCpu
<1>3. StartStep(p)
  BY <1>1, <1>2, GetNextPlaces DEF StartStep, StartedBy, ReadySet
<1>4. ClockStep
  BY <1>1 DEF ClockStep, AfterExecution
<1> QED
  BY <1>3, <1>4 DEF StepEffect

(* The two preemptions *)
LEMMA PreemptEffect ==
  ASSUME IInv, PreemptAtDispatch \/ ExecuteExpire
  PROVE  StepEffect
<1>1. /\ cpu \in {"preempt", "exec"} /\ clock' = clock /\ active' = active
  BY DEF PreemptAtDispatch, ExecuteExpire
<1>2. ClockStep
  BY <1>1 DEF ClockStep, AfterExecution
<1>3. current \in PID /\ pcb[current].state = "RUNNING" /\ pcb[current] \in PCB
  BY <1>1 DEF IInv, TypeOK, ChildTypeOK, OnCpu, RunningIsCurrent
<1>4. CASE PreemptAtDispatch /\ ~Requeue(active, current, pcb[current], held)
  <2>1. UNCHANGED <<pcb, current>>
    BY <1>4 DEF PreemptAtDispatch, childVars
  <2> QED
    BY <1>2, <2>1, QuietFrame DEF StepEffect
<1>5. CASE PreemptAtDispatch /\ Requeue(active, current, pcb[current], held)
  <2>1. current' = None
    BY <1>5 DEF PreemptAtDispatch, Requeue
  <2>2. OnlyRow(current) /\ pcb'[current].state = "READY" /\ SameTimes(pcb'[current], pcb[current])
    BY <1>1, <1>3, <1>5, RequeuePlaces
  <2>3. YieldStep(current)
    BY <2>1, <2>2 DEF YieldStep
  <2> QED
    BY <1>2, <1>3, <2>3 DEF StepEffect
<1>6. CASE ExecuteExpire
  <2> DEFINE r == Executed(pcb[current])
  <2>1. /\ cpu = "exec" /\ r.remaining > 0 /\ Requeue(active, current, r, None)
        /\ current' = None /\ cpu' = "ontick"
    BY <1>6 DEF ExecuteExpire
  <2>2. /\ r \in PCB /\ r.arrival = pcb[current].arrival /\ r.burst = pcb[current].burst
        /\ r.remaining = Dec(pcb[current].remaining)
        /\ r.finish = pcb[current].finish /\ r.start = StartedBy(pcb[current])
    BY <1>3, ExecutedRow DEF StartedBy
  <2> HIDE DEF r
  <2>3. OnlyRow(current) /\ pcb'[current].state = "READY" /\ SameTimes(pcb'[current], r)
    BY <1>1, <1>3, <2>1, <2>2, RequeuePlaces
  <2>4. RunStep(current)
    BY <1>1, <2>1, <2>2, <2>3 DEF RunStep, SameTimes
  <2> QED
    BY <1>2, <1>3, <2>4 DEF StepEffect
<1> QED
  BY <1>4, <1>5, <1>6

(* The two other ends of a tick *)
LEMMA ExecuteEffect ==
  ASSUME IInv, ExecuteComplete \/ ExecuteContinue
  PROVE  StepEffect
<1> DEFINE r == Executed(pcb[current])
<1>1. /\ cpu = "exec" /\ clock' = clock /\ current \in PID
      /\ pcb \in [PID -> PCB] /\ clock \in Nat
  BY DEF ExecuteComplete, ExecuteContinue, IInv, TypeOK, ChildTypeOK, OnCpu, Tick
<1>2. ClockStep
  BY <1>1 DEF ClockStep, AfterExecution
<1>3. /\ r \in PCB /\ r.state = "RUNNING"
      /\ r.arrival = pcb[current].arrival /\ r.burst = pcb[current].burst
      /\ r.remaining = Dec(pcb[current].remaining)
      /\ r.finish = pcb[current].finish /\ r.start = StartedBy(pcb[current])
  BY <1>1, ExecutedRow DEF StartedBy
<1>4. CASE ExecuteComplete
  <2> DEFINE w == [r EXCEPT !.state = "TERMINATED", !.finish = clock]
  <2>1. /\ r.remaining = 0 /\ pcb' = [pcb EXCEPT ![current] = w]
        /\ current' = None /\ cpu' = "report"
    BY <1>4 DEF ExecuteComplete, OnProcessComplete
  <2> HIDE DEF r
  <2>2. /\ w.state = "TERMINATED" /\ w.finish = clock /\ w.remaining = r.remaining
        /\ w.arrival = r.arrival /\ w.burst = r.burst /\ w.start = r.start
    BY <1>3 DEF PCB
  <2> HIDE DEF w
  <2>3. OnlyRow(current) /\ pcb'[current] = w
    BY <1>1, <2>1 DEF OnlyRow
  <2>4. RunStep(current)
    BY <1>1, <1>3, <2>1, <2>2, <2>3 DEF RunStep
  <2> QED
    BY <1>1, <1>2, <2>4 DEF StepEffect
<1>5. CASE ExecuteContinue
  <2>1. /\ r.remaining > 0 /\ pcb' = [pcb EXCEPT ![current] = r]
        /\ current' = current /\ cpu' = "ontick"
    BY <1>5 DEF ExecuteContinue
  <2> HIDE DEF r
  <2>2. OnlyRow(current) /\ pcb'[current] = r
    BY <1>1, <2>1 DEF OnlyRow
  <2>3. RunStep(current)
    BY <1>1, <1>3, <2>1, <2>2 DEF RunStep
  <2> QED
    BY <1>1, <1>2, <2>3 DEF StepEffect
<1> QED
  BY <1>4, <1>5

(* An aging pass or a boost, and a migration, change no record. *)
LEMMA SchedulerTickEffect ==
  ASSUME IInv, SchedulerTick
  PROVE  StepEffect
<1>1. /\ OnTick(active) /\ active' = active /\ current' = current
      /\ clock' = clock /\ cpu' = "tick"
  BY DEF SchedulerTick
<1>2. ClockStep
  BY <1>1 DEF ClockStep, AfterExecution
<1>3. QuietStep
  <2>1. CASE AgingDue(active) /\ ApplyAging
    BY <1>1, <2>1, AgingPlaces DEF AgingDue, QuietStep, SameRecord
  <2>2. CASE BoostDue(active) /\ PriorityBoost
    BY <1>1, <2>2, BoostPlaces DEF BoostDue, QuietStep, SameRecord
  <2>3. CASE UNCHANGED pcb
    BY <1>1, <2>3, QuietFrame
  <2> QED
    BY <1>1, <2>1, <2>2, <2>3 DEF OnTick
<1> QED
  BY <1>2, <1>3 DEF StepEffect
LEMMA MigrateEffect ==
  ASSUME IInv, NEW t \in TARGETS, MigrateTo(t)
  PROVE  StepEffect
<1>1. /\ t \in Policies /\ t # active /\ active' = t /\ Transfer(active, t)
      /\ current' = current /\ clock' = clock /\ cpu' = cpu
  BY SimAssumption DEF MigrateTo
<1>2. pcb' = [p \in PID |-> IF p \in ReadySet THEN Imported(t, pcb[p]) ELSE pcb[p]]
  BY <1>1, TransferPlaces
<1>3. ASSUME NEW p \in PID PROVE SameRecord(p)
  <2>1. pcb[p] \in PCB
    BY DEF IInv, TypeOK, ChildTypeOK
  <2>2. Imported(t, pcb[p]).state = "READY" /\ SameTimes(Imported(t, pcb[p]), pcb[p])
    BY <1>1, <2>1, ImportedRow
  <2> QED
    BY <1>2, <2>2 DEF SameRecord, ReadySet, SameTimes
<1>4. ClockStep
  BY <1>1 DEF ClockStep
<1> QED
  BY <1>1, <1>3, <1>4 DEF QuietStep, StepEffect

LEMMA StepEffects == IInv /\ [Next]_vars => StepEffect
<1> SUFFICES ASSUME IInv, [Next]_vars PROVE StepEffect
  OBVIOUS
<1>1. ASSUME NEW p \in PID, Inject(p) \/ Dispatch(p) PROVE StepEffect
  BY <1>1, InjectEffect, DispatchEffect
<1>2. ASSUME NEW t \in TARGETS, MigrateTo(t) PROVE StepEffect
  BY <1>2, MigrateEffect
<1> QED
  BY <1>1, <1>2, ObservingEffect, PreemptEffect, ExecuteEffect, SchedulerTickEffect
     DEF Next, CpuNext, MonitorNext
-----------------------------------------------------------------------------
(* The contract's view of a state that satisfies the invariants: every     *)
(* part of it is read off the states of the processes.                     *)
LEMMA ContractView ==
  ASSUME IInv, CompletedOnce
  PROVE  /\ Range(Snapshot(active)) = {p \in PID : pcb[p].state = "READY"}
         /\ UNION {completed[pol] : pol \in Policies} = {p \in PID : pcb[p].state = "TERMINATED"}
<1>1. Range(Snapshot(active)) = {p \in PID : pcb[p].state = "READY"}
  BY SnapshotLists DEF Lists, ReadySet
<1>2. completed \in [Policies -> SUBSET PID]
  BY DEF IInv, TypeOK, ChildTypeOK
<1> QED
  BY <1>1, <1>2 DEF CompletedOnce

LEMMA ContractStep ==
  IInv /\ CompletedOnce /\ [Next]_vars => [Contract!ContractNext]_(Contract!contractVars)
<1> SUFFICES ASSUME IInv, CompletedOnce, [Next]_vars
             PROVE  Contract!ContractNext \/ UNCHANGED Contract!contractVars
  OBVIOUS
<1> DEFINE pending == {p \in PID : pcb[p].state = "NEW"}
           waiting == {p \in PID : pcb[p].state = "READY"}
           left == [p \in PID |-> pcb[p].remaining]
           done == {p \in PID : pcb[p].state = "TERMINATED"}
<1>1. IInv' /\ CompletedOnce'
  BY StepInv, CompletedStep
<1>2. /\ Range(Snapshot(active)) = waiting
      /\ UNION {completed[pol] : pol \in Policies} = done
  BY ContractView
<1>3. /\ Range(Snapshot(active))' = waiting'
      /\ (UNION {completed[pol] : pol \in Policies})' = done'
  <2>1. (IInv /\ CompletedOnce => /\ Range(Snapshot(active)) = waiting
                                 /\ UNION {completed[pol] : pol \in Policies} = done)'
    BY ContractView, PTL
  <2> QED
    BY <1>1, <2>1
<1>4. pcb \in [PID -> PCB] /\ pcb' \in [PID -> PCB] /\ None \notin PID
  BY <1>1, NoneAssumption DEF IInv, TypeOK, ChildTypeOK
<1>5. CASE QuietStep
  <2>1. pending' = pending /\ waiting' = waiting /\ left' = left /\ done' = done
    BY <1>5 DEF QuietStep, SameRecord, SameTimes
  <2> QED
    BY <1>2, <1>3, <1>5, <2>1 DEF QuietStep, Contract!contractVars
<1>6. ASSUME NEW p \in PID, SubmitStep(p) PROVE Contract!Submit(p)
  <2>1. /\ p \in pending /\ pending' = pending \ {p} /\ waiting' = waiting \cup {p}
        /\ done' = done /\ left' = left /\ current' = current
    BY <1>6 DEF SubmitStep, OnlyRow, SameTimes
  <2> QED
    BY <1>2, <1>3, <2>1 DEF Contract!Submit
<1>7. ASSUME NEW p \in PID, StartStep(p) PROVE Contract!Start(p)
  <2>1. /\ current = None /\ p \in waiting /\ current' = p /\ waiting' = waiting \ {p}
        /\ pending' = pending /\ done' = done /\ left' = left
    BY <1>7 DEF StartStep, OnlyRow
  <2> QED
    BY <1>2, <1>3, <2>1 DEF Contract!Start
<1>8. ASSUME NEW p \in PID, current = p PROVE pcb[p].state = "RUNNING" /\ p # None
  BY <1>4, <1>8 DEF IInv, OnCpu, RunningIsCurrent
<1>9. ASSUME NEW p \in PID, YieldStep(p) PROVE Contract!Yield
  <2>1. /\ current # None /\ waiting' = waiting \cup {current} /\ current' = None
        /\ pending' = pending /\ done' = done /\ left' = left
    BY <1>8, <1>9 DEF YieldStep, OnlyRow, SameTimes
  <2> QED
    BY <1>2, <1>3, <2>1 DEF Contract!Yield
<1>10. ASSUME NEW p \in PID, RunStep(p)
       PROVE  \/ Contract!Run(Contract!GoOn) \/ Contract!Run(Contract!Expire)
              \/ Contract!Run(Contract!Finish)
  <2>1. /\ current = p /\ current # None /\ pending' = pending
        /\ left' = [left EXCEPT ![p] = Dec(left[p])]
        /\ pcb'[p].remaining = Dec(left[p])
    BY <1>4, <1>8, <1>10 DEF RunStep, OnlyRow
  <2>2. Contract!Remaining(p) = Dec(left[p])
    BY DEF Contract!Remaining, Dec
  <2>3. CASE pcb'[p].state = "RUNNING"
    <3>1. /\ Dec(left[p]) > 0 /\ waiting' = waiting /\ done' = done /\ current' = current
      BY <1>8, <1>10, <2>1, <2>3 DEF RunStep, OnlyRow
    <3> QED
      BY <1>2, <1>3, <2>1, <2>2, <3>1 DEF Contract!Run, Contract!GoOn
  <2>4. CASE pcb'[p].state = "READY"
    <3>1. /\ Dec(left[p]) > 0 /\ waiting' = waiting \cup {p} /\ done' = done /\ current' = None
      BY <1>8, <1>10, <2>1, <2>4 DEF RunStep, OnlyRow
    <3> QED
      BY <1>2, <1>3, <2>1, <2>2, <3>1 DEF Contract!Run, Contract!Expire
  <2>5. CASE pcb'[p].state = "TERMINATED"
    <3>1. /\ Dec(left[p]) = 0 /\ waiting' = waiting /\ done' = done \cup {p} /\ current' = None
      BY <1>8, <1>10, <2>1, <2>5 DEF RunStep, OnlyRow
    <3> QED
      BY <1>2, <1>3, <2>1, <2>2, <3>1 DEF Contract!Run, Contract!Finish
  <2> QED
    BY <1>10, <2>3, <2>4, <2>5 DEF RunStep
<1> QED
  BY <1>5, <1>6, <1>7, <1>9, <1>10, StepEffects DEF StepEffect, Contract!ContractNext

LEMMA ContractInitially == Init => Contract!ContractInit
<1> SUFFICES ASSUME Init PROVE Contract!ContractInit
  OBVIOUS
<1>1. IInv /\ \A p \in PID : pcb[p].state = "NEW"
  <2>1. IInv
    BY InitInv
  <2> QED
    BY <2>1 DEF Init, NewProcess
<1>2. Range(Snapshot(active)) = {}
  BY <1>1, SnapshotLists DEF Lists, ReadySet
<1>3. [p \in PID |-> pcb[p].remaining] \in [PID -> Nat]
  BY <1>1 DEF IInv, TypeOK, ChildTypeOK, PCB, Tick
<1>4. UNION {completed[pol] : pol \in Policies} = {}
  BY DEF Init, ChildInit
<1> QED
  BY <1>1, <1>2, <1>3, <1>4 DEF Contract!ContractInit, Init

(* AdaptiveSim!ImplementsContract: whatever the policies, the preemptions  *)
(* and the migrations do, every step is a step of the policy-free contract *)
(* or invisible in it.                                                     *)
THEOREM SimImplementsContract == Spec => ImplementsContract
<1>1. Init => CompletedOnce
  BY DEF Init, ChildInit, CompletedOnce, NewProcess
<1>2. Spec => [](IInv /\ CompletedOnce)
  BY <1>1, AlwaysIInv, CompletedStep, PTL DEF Spec
<1>3. Init => Contract!ContractInit
  BY ContractInitially
<1>4. IInv /\ CompletedOnce /\ [Next]_vars => [Contract!ContractNext]_(Contract!contractVars)
  BY ContractStep
<1> QED
  BY <1>2, <1>3, <1>4, PTL DEF Spec, ImplementsContract, Contract!ContractSpec
-----------------------------------------------------------------------------
(* What the times of a process owe to the clock.  The ticks it has         *)
(* executed fit between its start and now, where the current tick counts   *)
(* once its execution is over; this bounds the completion from below.      *)
Now == IF cpu \in AfterExecution THEN clock + 1 ELSE clock
Timed(p) ==
  /\ pcb[p].remaining <= pcb[p].burst
  /\ pcb[p].state # "NEW" => pcb[p].arrival <= clock
  /\ IF pcb[p].start = None
     THEN pcb[p].finish = None /\ pcb[p].remaining = pcb[p].burst
     ELSE /\ pcb[p].arrival <= pcb[p].start /\ pcb[p].start <= clock
          /\ pcb[p].start + (pcb[p].burst - pcb[p].remaining) <= Now
  /\ pcb[p].finish # None =>
       /\ pcb[p].start <= pcb[p].finish /\ pcb[p].finish <= clock
       /\ pcb[p].start + pcb[p].burst <= pcb[p].finish + 1
TimesInv == clock <= MAX_TICKS /\ \A p \in PID : Timed(p)

LEMMA TimesStep == IInv /\ TimesInv /\ [Next]_vars => TimesInv'
<1> SUFFICES ASSUME IInv, TimesInv, [Next]_vars PROVE TimesInv'
  OBVIOUS
<1>1. StepEffect
  BY StepEffects
<1>2. /\ clock \in Nat /\ clock' \in Nat /\ MAX_TICKS \in Nat
      /\ clock <= clock' /\ clock <= Now /\ Now <= Now' /\ clock' <= MAX_TICKS /\ Now \in Nat /\ Now' \in Nat
  BY <1>1, SimAssumption DEF StepEffect, ClockStep, Now, IInv, TypeOK, ChildTypeOK, Tick,
     TimesInv
<1>3. \A p \in PID : pcb[p] \in PCB /\ pcb'[p] \in PCB /\ Timed(p)
  BY StepInv DEF IInv, TypeOK, ChildTypeOK, TimesInv
<1>4. ASSUME NEW p \in PID, pcb'[p] = pcb[p] PROVE Timed(p)'
  BY <1>2, <1>3, <1>4, NoneAssumption DEF Timed, PCB, Tick
<1>5. ASSUME NEW p \in PID, SameTimes(pcb'[p], pcb[p]),
             pcb'[p].state # "NEW" => pcb[p].state # "NEW" \/ pcb[p].arrival <= clock
      PROVE  Timed(p)'
  BY <1>2, <1>3, <1>5, NoneAssumption DEF Timed, SameTimes, PCB, Tick
<1>6. ASSUME NEW p \in PID, StartStep(p) PROVE Timed(p)'
  <2>1. /\ pcb[p].arrival \in Nat /\ pcb[p].burst \in Nat /\ pcb[p].arrival <= clock
        /\ pcb[p].remaining \in Nat /\ pcb[p].remaining <= pcb[p].burst
    BY <1>3, <1>6 DEF StartStep, Timed, PCB, Tick
  <2>2. CASE pcb[p].start = None
    <3>1. /\ pcb'[p].start = clock /\ pcb'[p].finish = None
          /\ pcb'[p].remaining = pcb'[p].burst /\ pcb'[p].arrival = pcb[p].arrival
          /\ pcb'[p].burst = pcb[p].burst
      BY <1>3, <1>6, <2>2 DEF StartStep, StartedBy, Timed
    <3> QED
      BY <1>2, <2>1, <3>1, NoneAssumption DEF Timed
  <2>3. CASE pcb[p].start # None
    <3>1. SameTimes(pcb'[p], pcb[p]) /\ pcb[p].state # "NEW"
      BY <1>6, <2>3 DEF StartStep, StartedBy, SameTimes
    <3> QED
      BY <1>5, <3>1
  <2> QED
    BY <2>2, <2>3
<1>7. ASSUME NEW p \in PID, RunStep(p) PROVE Timed(p)'
  <2>1. pcb[p].state = "RUNNING" /\ clock' = clock /\ Now = clock /\ Now' = clock + 1
    BY <1>7 DEF RunStep, IInv, OnCpu, RunningIsCurrent, Now, AfterExecution
  <2>2. /\ pcb[p].arrival \in Nat /\ pcb[p].burst \in Nat /\ pcb[p].remaining \in Nat
        /\ pcb[p].arrival <= clock /\ pcb[p].remaining <= pcb[p].burst
    BY <1>3, <2>1 DEF Timed, PCB, Tick
  <2>3. /\ pcb'[p].start \in Nat /\ pcb[p].arrival <= pcb'[p].start /\ pcb'[p].start <= clock
        /\ pcb'[p].start + (pcb[p].burst - pcb[p].remaining) <= clock
    BY <1>2, <1>3, <1>7, <2>1, <2>2, NoneAssumption DEF Timed, RunStep, StartedBy, PCB, Tick
  <2>4. /\ pcb'[p].arrival = pcb[p].arrival /\ pcb'[p].burst = pcb[p].burst
        /\ pcb'[p].remaining = Dec(pcb[p].remaining)
        /\ \/ pcb'[p].finish = pcb[p].finish
           \/ pcb'[p].finish = clock /\ Dec(pcb[p].remaining) = 0
    BY <1>7 DEF RunStep
  <2>5. Dec(pcb[p].remaining) \in Nat /\ pcb[p].burst - Dec(pcb[p].remaining) <= (pcb[p].burst - pcb[p].remaining) + 1
        /\ Dec(pcb[p].remaining) <= pcb[p].burst
    BY <2>2 DEF Dec
  <2>6. pcb'[p].finish # None =>
          /\ pcb'[p].start <= pcb'[p].finish /\ pcb'[p].finish <= clock
          /\ pcb'[p].start + pcb[p].burst <= pcb'[p].finish + 1
    <3>1. CASE pcb'[p].finish = pcb[p].finish
      BY <1>3, <1>7, <3>1 DEF Timed, RunStep, StartedBy
    <3>2. CASE pcb'[p].finish = clock /\ Dec(pcb[p].remaining) = 0
      BY <1>2, <2>2, <2>3, <2>5, <3>2
    <3> QED
      BY <2>4, <3>1, <3>2
  <2> QED
    BY <1>2, <2>1, <2>2, <2>3, <2>4, <2>5, <2>6, NoneAssumption DEF Timed
<1>8. ASSUME NEW p \in PID PROVE Timed(p)'
  <2>1. CASE QuietStep
    BY <1>5, <2>1 DEF QuietStep, SameRecord
  <2>2. ASSUME NEW q \in PID, SubmitStep(q) \/ YieldStep(q) PROVE Timed(p)'
    <3>1. SameTimes(pcb'[q], pcb[q]) /\ (pcb[q].state # "NEW" \/ pcb[q].arrival <= clock)
      BY <2>2 DEF SubmitStep, YieldStep, IInv, OnCpu, RunningIsCurrent
    <3> QED
      BY <1>4, <1>5, <2>2, <3>1 DEF SubmitStep, YieldStep, OnlyRow
  <2>3. ASSUME NEW q \in PID, StartStep(q) \/ RunStep(q) PROVE Timed(p)'
    BY <1>4, <1>6, <1>7, <2>3 DEF StartStep, RunStep, OnlyRow
  <2> QED
    BY <1>1, <2>1, <2>2, <2>3 DEF StepEffect
<1> QED
  BY <1>2, <1>8 DEF TimesInv

(* Differences of ticks up to the bound of the clock do not wrap around. *)
LEMMA NoWrap ==
  ASSUME NEW a \in Nat, NEW b \in Nat, a <= b, b <= MAX_TICKS
  PROVE  (b - a) % TickRange = b - a
<1>1. TickRange \in Nat /\ TickRange > 0 /\ b - a \in Nat /\ b - a < TickRange
  BY RangeAssumption, SimAssumption
<1> QED
  BY <1>1

LEMMA TimesAreOrdered == IInv /\ TimesInv => TimesOrdered
<1> SUFFICES ASSUME IInv, TimesInv, NEW p \in PID
             PROVE  LET r == pcb[p]
                    IN /\ r.start # None => r.arrival <= r.start /\ r.start <= clock
                       /\ r.finish # None =>
                            /\ r.start # None
                            /\ r.start <= r.finish /\ r.finish <= clock
                            /\ r.start + r.burst <= r.finish + 1
                            /\ ResponseTime(r) <= Turnaround(r)
                            /\ WaitingTime(r) <= Turnaround(r)
  BY DEF TimesOrdered
<1>1. /\ Timed(p) /\ pcb[p] \in PCB /\ clock \in Nat /\ clock <= MAX_TICKS /\ MAX_TICKS \in Nat
  BY SimAssumption DEF TimesInv, IInv, TypeOK, ChildTypeOK, Tick
<1>2. CASE pcb[p].finish = None
  BY <1>1, <1>2 DEF Timed
<1>3. CASE pcb[p].finish # None
  <2>1. /\ pcb[p].arrival \in Nat /\ pcb[p].start \in Nat /\ pcb[p].finish \in Nat /\ pcb[p].burst \in Nat
        /\ pcb[p].arrival <= pcb[p].start /\ pcb[p].start <= pcb[p].finish
        /\ pcb[p].finish <= MAX_TICKS /\ pcb[p].start <= MAX_TICKS /\ pcb[p].start # None
    BY <1>1, <1>3, NoneAssumption DEF Timed, PCB, Tick
  <2>2. /\ Turnaround(pcb[p]) = pcb[p].finish - pcb[p].arrival
        /\ ResponseTime(pcb[p]) = pcb[p].start - pcb[p].arrival
    BY <2>1, NoWrap DEF Turnaround, ResponseTime
  <2>3. WaitingTime(pcb[p]) <= Turnaround(pcb[p])
    BY <2>1, <2>2 DEF WaitingTime
  <2> QED
    BY <1>1, <1>3, <2>1, <2>2, <2>3 DEF Timed
<1> QED
  BY <1>2, <1>3

(* AdaptiveSim!TimesOrdered: the unsigned subtractions of                  *)
(* record_completion never wrap around, and a completion is late enough    *)
(* for the whole burst, through any preemptions and migrations.            *)
THEOREM TimesStayOrdered == Spec => []TimesOrdered
<1>1. Init => TimesInv
  <2> SUFFICES ASSUME Init PROVE TimesInv
    OBVIOUS
  <2>1. PICK a \in [PID -> ARRIVALS], b \in [PID -> BURSTS], r \in [PID -> PRIORITIES] :
          pcb = [p \in PID |-> NewProcess(a[p], b[p], r[p])]
    BY DEF Init
  <2>2. \A p \in PID : b[p] \in Nat
    BY SimAssumption
  <2> QED
    BY <2>1, <2>2, SimAssumption DEF Init, ChildInit, TimesInv, Timed, NewProcess
<1>2. IInv /\ TimesInv => TimesOrdered
  BY TimesAreOrdered
<1> QED
  BY <1>1, <1>2, AlwaysIInv, TimesStep, PTL DEF Spec
-----------------------------------------------------------------------------
(* The ticks each process has had: a step adds one to one process at most, *)
(* and only with the CPU thread at its execution, which the bound then     *)
(* counts as a tick of the clock.                                          *)
Had == [p \in PID |-> pcb[p].burst - pcb[p].remaining]

LEMMA OneTickAtMost ==
  ASSUME IInv, StepEffect, pcb' \in [PID -> PCB]
  PROVE  \/ TicksExecuted' = TicksExecuted
         \/ TicksExecuted' = TicksExecuted + 1 /\ cpu = "exec"
            /\ cpu' \in AfterExecution /\ clock' = clock
<1>1. /\ \A p \in PID : pcb[p] \in PCB /\ pcb'[p] \in PCB
      /\ Had \in [PID -> Int] /\ Had' \in [PID -> Int]
  <2>1. pcb \in [PID -> PCB]
    BY DEF IInv, TypeOK, ChildTypeOK
  <2>2. \A r \in PCB : r.burst - r.remaining \in Int
    BY DEF PCB, Tick
  <2> QED
    BY <2>1, <2>2 DEF Had
<1>2. TicksExecuted = SumFunction(Had) /\ TicksExecuted' = SumFunction(Had')
  BY DEF TicksExecuted, Had
<1>3. ASSUME \A p \in PID : SameTimes(pcb'[p], pcb[p]) PROVE TicksExecuted' = TicksExecuted
  <2>1. Had' = Had
    BY <1>3 DEF SameTimes, Had
  <2> QED
    BY <1>2, <2>1
<1>4. CASE QuietStep
  BY <1>3, <1>4 DEF QuietStep, SameRecord
<1>5. ASSUME NEW p \in PID, SubmitStep(p) \/ StartStep(p) \/ YieldStep(p)
      PROVE  TicksExecuted' = TicksExecuted
  <2>1. \A q \in PID : /\ pcb'[q].burst = pcb[q].burst
                       /\ pcb'[q].remaining = pcb[q].remaining
    BY <1>5 DEF SubmitStep, StartStep, YieldStep, OnlyRow, SameTimes
  <2>2. Had' = Had
    BY <2>1 DEF Had
  <2> QED
    BY <1>2, <2>2
<1>6. ASSUME NEW p \in PID, RunStep(p)
      PROVE  /\ TicksExecuted' = TicksExecuted \/ TicksExecuted' = TicksExecuted + 1
             /\ cpu = "exec" /\ cpu' \in AfterExecution /\ clock' = clock
  <2>1. /\ cpu = "exec" /\ cpu' \in AfterExecution /\ clock' = clock
        /\ \A q \in PID \ {p} : pcb'[q] = pcb[q]
        /\ pcb'[p].burst = pcb[p].burst /\ pcb'[p].remaining = Dec(pcb[p].remaining)
    BY <1>6 DEF RunStep, OnlyRow, AfterExecution
  <2>2. \E d \in {0, 1} : Had'[p] = Had[p] + d
    BY <1>1, <2>1 DEF Had, Dec, PCB, Tick
  <2>3. \A q \in PID \ {p} : Had'[q] = Had[q]
    BY <2>1 DEF Had
  <2>4. PICK d \in {0, 1} : Had'[p] = Had[p] + d
    BY <2>2
  <2>5. SumFunction(Had') = SumFunction(Had) + d /\ SumFunction(Had) \in Int
    BY <1>1, <2>3, <2>4, PIDAssumption, SumMoves, SumIsInt
  <2> QED
    BY <1>2, <2>1, <2>5
<1> QED
  BY <1>4, <1>5, <1>6 DEF StepEffect

LEMMA FitsClockStep == IInv /\ CpuTimeFitsClock /\ [Next]_vars => CpuTimeFitsClock'
<1> SUFFICES ASSUME IInv, CpuTimeFitsClock, [Next]_vars PROVE CpuTimeFitsClock'
  OBVIOUS
<1>1. StepEffect /\ IInv'
  BY StepEffects, StepInv
<1>2. /\ clock \in Nat /\ clock' \in Nat
      /\ Had \in [PID -> Int] /\ pcb' \in [PID -> PCB]
  <2>1. /\ clock \in Nat /\ clock' \in Nat
        /\ pcb \in [PID -> PCB] /\ pcb' \in [PID -> PCB]
    BY <1>1 DEF IInv, TypeOK, ChildTypeOK, Tick
  <2>2. \A r \in PCB : r.burst - r.remaining \in Int
    BY DEF PCB, Tick
  <2> QED
    BY <2>1, <2>2 DEF Had
<1>3. TicksExecuted \in Int /\ TicksExecuted <= Now
  BY <1>2, PIDAssumption, SumIsInt DEF TicksExecuted, Had, CpuTimeFitsClock, Now, AfterExecution
<1>4. Now \in Nat /\ Now' \in Nat /\ Now <= Now'
  <2>1. Now \in {clock, clock + 1} /\ Now' \in {clock', clock' + 1}
    BY DEF Now
  <2>2. CASE clock' = clock + 1
    BY <1>2, <2>1, <2>2
  <2>3. CASE clock' = clock /\ (cpu \in AfterExecution => cpu' \in AfterExecution)
    BY <1>2, <2>3 DEF Now
  <2> QED
    BY <1>1, <2>2, <2>3 DEF StepEffect, ClockStep
<1>5. CASE TicksExecuted' = TicksExecuted
  BY <1>3, <1>4, <1>5 DEF CpuTimeFitsClock, Now, AfterExecution
<1>6. CASE TicksExecuted' = TicksExecuted + 1 /\ cpu = "exec"
           /\ cpu' \in AfterExecution /\ clock' = clock
  BY <1>2, <1>3, <1>6 DEF CpuTimeFitsClock, Now, AfterExecution
<1> QED
  BY <1>1, <1>2, <1>5, <1>6, OneTickAtMost

(* AdaptiveSim!CpuTimeFitsClock: no tick of the clock is given to two      *)
(* processes, whatever is preempted, migrated or cut short.                *)
THEOREM OneProcessPerTick == Spec => []CpuTimeFitsClock
<1>1. Init => CpuTimeFitsClock
  <2> SUFFICES ASSUME Init PROVE CpuTimeFitsClock
    OBVIOUS
  <2>1. PICK a \in [PID -> ARRIVALS], b \in [PID -> BURSTS], r \in [PID -> PRIORITIES] :
          pcb = [p \in PID |-> NewProcess(a[p], b[p], r[p])]
    BY DEF Init
  <2>2. \A p \in PID : b[p] \in Nat
    BY SimAssumption
  <2>3. Had = [p \in PID |-> 0]
    BY <2>1, <2>2 DEF Had, NewProcess
  <2>4. TicksExecuted = 0
    BY <2>3, PIDAssumption, SumOfZeros DEF TicksExecuted, Had
  <2> QED
    BY <2>4 DEF Init, ChildInit, CpuTimeFitsClock
<1> QED
  BY <1>1, AlwaysIInv, FitsClockStep, PTL DEF Spec
-----------------------------------------------------------------------------
(* Only an aging pass changes a priority or lets a process starve longer.  *)
SameKeys(a, r) == /\ a.arrival = r.arrival /\ a.priority = r.priority
                  /\ a.boosts = r.boosts /\ a.starved = r.starved
KeysKept == \A p \in PID :
  /\ pcb'[p].arrival = pcb[p].arrival /\ pcb'[p].priority = pcb[p].priority
  /\ \/ pcb'[p].boosts = pcb[p].boosts /\ pcb'[p].starved = pcb[p].starved
     \/ pcb'[p].starved = 0

LEMMA KeysOfOneRow ==
  ASSUME pcb \in [PID -> PCB], NEW p \in PID, NEW w, pcb' = [pcb EXCEPT ![p] = w],
         SameKeys(w, pcb[p])
  PROVE  KeysKept
BY DEF KeysKept, SameKeys

LEMMA AddProcessKeys ==
  ASSUME pcb \in [PID -> PCB], NEW p \in PID, NEW pol, AddProcess(pol, p)
  PROVE  KeysKept
<1>1. CASE FcfsAdd(p)
  BY <1>1 DEF FcfsAdd, KeysKept, PCB
<1>2. CASE RrAdd(p)
  BY <1>2 DEF RrAdd, KeysKept, PCB
<1>3. CASE PriorityAdd(p)
  BY <1>3 DEF PriorityAdd, KeysKept, PCB
<1>4. CASE MlfqAdd(p)
  BY <1>4 DEF MlfqAdd, KeysKept, PCB
<1> QED
  BY <1>1, <1>2, <1>3, <1>4 DEF AddProcess

LEMMA GetNextKeys ==
  ASSUME pcb \in [PID -> PCB], NEW p \in PID, NEW pol, GetNextProcess(pol, p)
  PROVE  KeysKept
BY DEF GetNextProcess, KeysKept, PCB

LEMMA ExecutedKeys ==
  ASSUME NEW r \in PCB
  PROVE  SameKeys(Executed(r), r)
BY DEF Executed, SameKeys, PCB

LEMMA RequeueKeys ==
  ASSUME pcb \in [PID -> PCB], NEW p \in PID, NEW pol, NEW incoming, NEW r \in PCB,
         SameKeys(r, pcb[p]), Requeue(pol, p, r, incoming)
  PROVE  KeysKept
<1>1. ASSUME NEW w, SameKeys(w, r), pcb' = [pcb EXCEPT ![p] = w] PROVE KeysKept
  <2>1. SameKeys(w, pcb[p])
    BY <1>1 DEF SameKeys
  <2> QED
    BY <1>1, <2>1, KeysOfOneRow
<1>2. ASSUME NEW l, NEW m
      PROVE  /\ SameKeys([r EXCEPT !.state = "READY"], r)
             /\ SameKeys([r EXCEPT !.state = "READY", !.quantum = m], r)
             /\ SameKeys([r EXCEPT !.state = "READY", !.level = l, !.quantum = m], r)
  BY DEF SameKeys, PCB
<1>3. CASE RrRequeue(p, r)
  BY <1>1, <1>2, <1>3 DEF RrRequeue
<1>4. CASE PriorityRequeue(p, r)
  BY <1>1, <1>2, <1>4 DEF PriorityRequeue
<1>5. CASE MlfqRequeue(p, r, incoming)
  BY <1>1, <1>2, <1>5 DEF MlfqRequeue
<1> QED
  BY <1>3, <1>4, <1>5 DEF Requeue

LEMMA ImportedKeys ==
  ASSUME NEW to, NEW r \in PCB
  PROVE  SameKeys(Imported(to, r), r)
BY DEF Imported, SameKeys, PCB

LEMMA KeysStep ==
  ASSUME IInv, [Next]_vars
  PROVE  KeysKept \/ (active = "PRIORITY" /\ active' = active /\ ApplyAging)
<1>1. pcb \in [PID -> PCB]
  BY DEF IInv, TypeOK, ChildTypeOK
<1>2. ASSUME UNCHANGED pcb PROVE KeysKept
  BY <1>2 DEF KeysKept
<1>3. CASE Idle \/ TakeSnapshot \/ Report \/ AdvanceClock \/ MonitorSample \/ MonitorKeep
           \/ UNCHANGED vars
  BY <1>2, <1>3 DEF Idle, TakeSnapshot, Report, AdvanceClock, MonitorSample, MonitorKeep,
     vars, childVars
<1>4. ASSUME NEW p \in PID, Inject(p) \/ Dispatch(p) PROVE KeysKept
  BY <1>1, <1>4, AddProcessKeys, GetNextKeys DEF Inject, Dispatch
<1>5. cpu \in {"preempt", "exec"} =>
        /\ current \in PID /\ pcb[current] \in PCB /\ SameKeys(pcb[current], pcb[current])
        /\ Executed(pcb[current]) \in PCB /\ SameKeys(Executed(pcb[current]), pcb[current])
  BY <1>1, ExecutedRow, ExecutedKeys DEF IInv, OnCpu, SameKeys
<1>6. CASE PreemptAtDispatch
  <2>1. cpu = "preempt" /\ (Requeue(active, current, pcb[current], held) \/ UNCHANGED pcb)
    BY <1>6 DEF PreemptAtDispatch, childVars
  <2> QED
    BY <1>1, <1>2, <1>5, <2>1, RequeueKeys
<1>7. CASE ExecuteExpire
  <2>1. cpu = "exec" /\ Requeue(active, current, Executed(pcb[current]), None)
    BY <1>7 DEF ExecuteExpire
  <2> QED
    BY <1>1, <1>5, <2>1, RequeueKeys
<1>8. CASE ExecuteComplete \/ ExecuteContinue
  <2> DEFINE r == Executed(pcb[current])
             w == [r EXCEPT !.state = "TERMINATED", !.finish = clock]
  <2>1. /\ cpu = "exec"
        /\ pcb' = [pcb EXCEPT ![current] = r] \/ pcb' = [pcb EXCEPT ![current] = w]
    BY <1>8 DEF ExecuteComplete, ExecuteContinue, OnProcessComplete
  <2>2. SameKeys(r, pcb[current]) /\ SameKeys(w, pcb[current])
    BY <1>5, <2>1 DEF SameKeys, PCB
  <2> HIDE DEF r, w
  <2> QED
    BY <1>1, <1>5, <2>1, <2>2, KeysOfOneRow
<1>9. CASE SchedulerTick
  <2>1. CASE PriorityBoost
    BY <1>1, <2>1 DEF PriorityBoost, KeysKept, PCB
  <2> QED
    BY <1>2, <1>9, <2>1 DEF SchedulerTick, OnTick, AgingDue
<1>10. ASSUME NEW t \in TARGETS, MigrateTo(t) PROVE KeysKept
  <2>1. Transfer(active, t)
    BY <1>10 DEF MigrateTo
  <2>2. \A p \in PID : pcb'[p] = pcb[p] \/ pcb'[p] = Imported(t, pcb[p])
    BY <2>1 DEF Transfer
  <2> QED
    BY <1>1, <2>2, ImportedKeys DEF KeysKept, SameKeys
<1> QED
  BY <1>3, <1>4, <1>6, <1>7, <1>8, <1>9, <1>10 DEF Next, CpuNext, MonitorNext

(* Of all processes, not only those in the priority queue: a process takes *)
(* its counter along through the other children and brings it back.        *)
BoostedInTime ==
  \A p \in PID : pcb[p].starved >= AGING_THRESHOLD =>
                   pcb[p].boosts >= MAX_PRIORITY_BOOSTS \/ pcb[p].priority <= 0

LEMMA BoostedInTimeStep == IInv /\ BoostedInTime /\ [Next]_vars => BoostedInTime'
<1> SUFFICES ASSUME IInv, BoostedInTime, [Next]_vars PROVE BoostedInTime'
  OBVIOUS
<1>1. AGING_THRESHOLD \in Nat \ {0} /\ MAX_PRIORITY_BOOSTS \in Nat /\ pcb \in [PID -> PCB]
  BY QuantaAssumption DEF IInv, TypeOK, ChildTypeOK
<1>2. CASE KeysKept
  BY <1>1, <1>2 DEF KeysKept, BoostedInTime
<1>3. CASE ApplyAging
  <2>1. ASSUME NEW p \in Boosted, p \in PID PROVE pcb'[p].starved = 0
    BY <1>1, <1>3, <2>1 DEF ApplyAging, PCB
  <2>2. ASSUME NEW p \in PID \ Boosted
        PROVE  /\ pcb'[p].boosts = pcb[p].boosts /\ pcb'[p].priority = pcb[p].priority
               /\ pcb'[p].starved = IF p \in Aged THEN pcb[p].starved + 1 ELSE pcb[p].starved
    BY <1>1, <1>3, <2>2 DEF ApplyAging, PCB
  <2>3. \A p \in PID : pcb[p].starved \in Nat /\ pcb[p].boosts \in Nat /\ pcb[p].priority \in Int
    BY <1>1 DEF PCB
  <2> QED
    BY <1>1, <2>1, <2>2, <2>3 DEF BoostedInTime, Boosted
<1> QED
  BY <1>2, <1>3, KeysStep

(* AdaptiveSim!StarvedAreBoosted, for every threshold and number of        *)
(* boosts, although MLFQ's boosts use up those of PRIORITY and migrations  *)
(* carry the counters around.                                              *)
THEOREM NobodyStarvesUnboosted == Spec => []StarvedAreBoosted
<1>1. Init => BoostedInTime
  BY QuantaAssumption DEF Init, BoostedInTime, NewProcess
<1>2. IInv /\ BoostedInTime => StarvedAreBoosted
  <2> SUFFICES ASSUME IInv, BoostedInTime PROVE StarvedAreBoosted
    OBVIOUS
  <2>1. Range(queue["PRIORITY"]) \subseteq PID
    BY SeqFacts DEF IInv, TypeOK, ChildTypeOK, SingleQueue
  <2> QED
    BY <2>1 DEF BoostedInTime, StarvedAreBoosted
<1> QED
  BY <1>1, <1>2, AlwaysIInv, BoostedInTimeStep, PTL DEF Spec
-----------------------------------------------------------------------------
(* The steps of AdaptiveSim on the priority queue, as it is before them:   *)
(* it loses its front, is cleared, or receives processes by                *)
(* insert_ordered (a re-sort is an import of no process).                  *)
Waiting == queue["PRIORITY"]
QueueStep ==
  \/ queue'["PRIORITY"] = Waiting
  \/ Waiting # <<>> /\ queue'["PRIORITY"] = Tail(Waiting)
  \/ queue'["PRIORITY"] = <<>>
  \/ \E D, S, T : /\ Lists(Waiting, S) /\ Lists(D, T) /\ S \cap T = {}
                  /\ queue'["PRIORITY"] = InsertAll(Waiting, D, PriorityLess(pcb))

LEMMA PushSteps ==
  ASSUME IInv, NEW pol \in SingleQueue, NEW p \in PID, pol = active, pcb[p].state # "READY",
         Push(pol, p)
  PROVE  QueueStep
<1>1. queue \in [SingleQueue -> Seq(PID)] /\ "PRIORITY" \in SingleQueue
  BY DEF IInv, TypeOK, ChildTypeOK, SingleQueue
<1>2. CASE pol = "PRIORITY"
  <2>1. Lists(Waiting, ReadySet) /\ p \notin ReadySet
    BY <1>1, <1>2 DEF IInv, Placed, Waiting, ReadySet
  <2>2. queue'["PRIORITY"] = InsertAll(Waiting, <<p>>, PriorityLess(pcb))
    BY <1>1, <1>2 DEF Push, Waiting
  <2> QED
    BY <2>1, <2>2, SingletonLists DEF QueueStep
<1>3. CASE pol # "PRIORITY"
  BY <1>1, <1>3 DEF Push, QueueStep, Waiting
<1> QED
  BY <1>2, <1>3

LEMMA QueueSteps ==
  ASSUME IInv, [Next]_vars
  PROVE  QueueStep \/ (active = "PRIORITY" /\ active' = active /\ ApplyAging)
<1>1. /\ queue \in [SingleQueue -> Seq(PID)] /\ "PRIORITY" \in SingleQueue
      /\ active \in Policies
  BY DEF IInv, TypeOK, ChildTypeOK, SingleQueue
<1>2. ASSUME UNCHANGED queue PROVE QueueStep
  BY <1>2 DEF QueueStep, Waiting
<1>3. CASE Idle \/ TakeSnapshot \/ Report \/ AdvanceClock \/ MonitorSample \/ MonitorKeep
           \/ ExecuteComplete \/ ExecuteContinue \/ UNCHANGED vars
  BY <1>2, <1>3 DEF Idle, TakeSnapshot, Report, AdvanceClock, MonitorSample, MonitorKeep,
     ExecuteComplete, ExecuteContinue, OnProcessComplete, vars, childVars
<1>4. ASSUME NEW p \in PID, Inject(p) PROVE QueueStep
  <2>1. pcb[p].state # "READY" /\ AddProcess(active, p)
    BY <1>4 DEF Inject
  <2> QED
    BY <1>2, <2>1, PushSteps DEF AddProcess, FcfsAdd, RrAdd, PriorityAdd, MlfqAdd, PushLevel,
       SingleQueue
<1>5. ASSUME NEW p \in PID, Dispatch(p) PROVE QueueStep
  <2>1. TryPop(active, p)
    BY <1>5 DEF Dispatch, GetNextProcess
  <2> QED
    BY <1>1, <1>2, <2>1 DEF TryPop, QueueStep, Waiting
<1>6. CASE PreemptAtDispatch \/ ExecuteExpire
  <2>1. /\ cpu \in {"preempt", "exec"}
        /\ \/ UNCHANGED queue
           \/ \E r, incoming : Requeue(active, current, r, incoming)
    BY <1>6 DEF PreemptAtDispatch, ExecuteExpire, childVars
  <2>2. current \in PID /\ pcb[current].state # "READY"
    BY <2>1 DEF IInv, OnCpu, RunningIsCurrent
  <2> QED
    BY <1>2, <2>1, <2>2, PushSteps DEF Requeue, RrRequeue, PriorityRequeue, MlfqRequeue, PushLevel,
       SingleQueue
<1>7. CASE SchedulerTick
  BY <1>2, <1>7 DEF SchedulerTick, OnTick, AgingDue, PriorityBoost
<1>8. ASSUME NEW t \in TARGETS, MigrateTo(t) PROVE QueueStep
  <2>1. t # active /\ Transfer(active, t)
    BY <1>8 DEF MigrateTo
  <2>2. queue'["PRIORITY"] = IF t = "PRIORITY" THEN InsertAll(Waiting, Snapshot(active), PriorityLess(pcb))
                             ELSE IF active = "PRIORITY" THEN <<>> ELSE Waiting
    BY <1>1, <2>1 DEF Transfer, Waiting
  <2>3. Lists(Snapshot(active), ReadySet)
    BY SnapshotLists
  <2>4. t = "PRIORITY" => Lists(Waiting, {})
    BY <1>1, <2>1 DEF IInv, Placed, Waiting
  <2> QED
    BY <2>2, <2>3, <2>4 DEF QueueStep
<1> QED
  BY <1>3, <1>4, <1>5, <1>6, <1>7, <1>8 DEF Next, CpuNext, MonitorNext

LEMMA SortedStep == IInv /\ PrioritySorted /\ [Next]_vars => PrioritySorted'
<1> SUFFICES ASSUME IInv, PrioritySorted, [Next]_vars PROVE PrioritySorted'
  OBVIOUS
<1>1. /\ pcb \in [PID -> PCB] /\ pcb' \in [PID -> PCB] /\ Waiting \in Seq(PID)
      /\ queue \in [SingleQueue -> Seq(PID)] /\ "PRIORITY" \in SingleQueue
  BY StepInv DEF IInv, TypeOK, ChildTypeOK, SingleQueue, Waiting
<1>2. StrictWeakOrder(PriorityLess(pcb)) /\ StrictWeakOrder(PriorityLess(pcb)')
  BY <1>1, PriorityLessIsWeakOrder
<1>3. CASE KeysKept /\ QueueStep
  <2>1. PriorityLess(pcb)' = PriorityLess(pcb)
    BY <1>3 DEF KeysKept, PriorityLess
  <2>2. SortedBy(queue'["PRIORITY"], PriorityLess(pcb))
    <3> DEFINE less == PriorityLess(pcb)
    <3>1. SortedBy(Waiting, less) /\ StrictWeakOrder(less)
      BY <1>2 DEF PrioritySorted, Waiting
    <3> HIDE DEF less
    <3>2. Waiting # <<>> => SortedBy(Tail(Waiting), less)
      BY <1>1, <3>1, TailSorted
    <3>3. \A D, S, T : Lists(Waiting, S) /\ Lists(D, T) /\ S \cap T = {}
                       => SortedBy(InsertAll(Waiting, D, less), less)
      BY <3>1, InsertAllSorts
    <3>4. SortedBy(<<>>, less)
      BY EmptySorted
    <3> QED
      BY <1>3, <3>1, <3>2, <3>3, <3>4 DEF QueueStep, less
  <2> QED
    BY <2>1, <2>2 DEF PrioritySorted
<1>4. CASE active = "PRIORITY" /\ active' = active /\ ApplyAging
  <2>1. Lists(Waiting, ReadySet)
    BY <1>1, <1>4 DEF IInv, Placed, Waiting
  <2>2. CASE Boosted = {}
    <3>1. \A p \in PID : pcb'[p].priority = pcb[p].priority /\ pcb'[p].arrival = pcb[p].arrival
      BY <1>1, <1>4, <2>2 DEF ApplyAging, PCB
    <3>2. PriorityLess(pcb)' = PriorityLess(pcb)
      BY <3>1 DEF PriorityLess
    <3> QED
      BY <1>4, <2>2, <3>2 DEF ApplyAging, PrioritySorted
  <2>3. CASE Boosted # {}
    <3>1. queue'["PRIORITY"] = InsertAll(<<>>, Waiting, PriorityLess(pcb)')
      BY <1>1, <1>4, <2>3 DEF ApplyAging, Waiting
    <3>2. SortedBy(InsertAll(<<>>, Waiting, PriorityLess(pcb)'), PriorityLess(pcb)')
      BY <1>2, <2>1, EmptyLists, InsertAllSorts
    <3> QED
      BY <3>1, <3>2 DEF PrioritySorted
  <2> QED
    BY <2>2, <2>3
<1> QED
  BY <1>3, <1>4, KeysStep, QueueSteps

(* AdaptiveSim!PrioritySorted: nobody in the priority queue is in front of *)
(* a process that outranks it, whatever is pushed, imported, aged and      *)
(* re-sorted meanwhile.                                                    *)
THEOREM PriorityStaysSorted == Spec => []PrioritySorted
<1>1. Init => PrioritySorted
  BY EmptySorted DEF Init, ChildInit, PrioritySorted, SingleQueue
<1> QED
  BY <1>1, AlwaysIInv, SortedStep, PTL DEF Spec
-----------------------------------------------------------------------------
(* What a step may do with the priority queue, in the terms of the code:    *)
(* insertions one after the other, each at the position that                *)
(* std::lower_bound finds.                                                  *)
SearchStep ==
  \/ queue'["PRIORITY"] = Waiting
  \/ Waiting # <<>> /\ queue'["PRIORITY"] = Tail(Waiting)
  \/ queue'["PRIORITY"] = <<>>
  \/ \E D \in Seq(PID) : queue'["PRIORITY"] = InsertOneByOne(Waiting, D, PriorityLess(pcb))
  \/ queue'["PRIORITY"] = InsertOneByOne(<<>>, Waiting, PriorityLess(pcb'))

(* Every push, import and re-sort finds the priority queue sorted by the    *)
(* keys it compares, so that the binary searches of                         *)
(* ReadyQueue::insert_ordered leave the order that ChildSchedulers states;  *)
(* a priority that changed without a re-sort would mislead the next one.    *)
THEOREM PriorityBySearch == Spec => [][SearchStep]_vars
<1>1. IInv /\ PrioritySorted /\ [Next]_vars => SearchStep
  <2> SUFFICES ASSUME IInv, PrioritySorted, [Next]_vars PROVE SearchStep
    OBVIOUS
  <2>1. /\ pcb \in [PID -> PCB] /\ pcb' \in [PID -> PCB]
        /\ queue \in [SingleQueue -> Seq(PID)] /\ "PRIORITY" \in SingleQueue
    BY StepInv DEF IInv, TypeOK, ChildTypeOK, SingleQueue
  <2>2. StrictWeakOrder(PriorityLess(pcb)) /\ StrictWeakOrder(PriorityLess(pcb'))
    BY <2>1, PriorityLessIsWeakOrder
  <2>3. SortedBy(Waiting, PriorityLess(pcb))
    BY DEF PrioritySorted, Waiting
  <2>4. CASE QueueStep
    <3>1. ASSUME NEW D, NEW S, NEW T, Lists(Waiting, S), Lists(D, T), S \cap T = {},
                 queue'["PRIORITY"] = InsertAll(Waiting, D, PriorityLess(pcb))
          PROVE  SearchStep
      <4>1. InsertOneByOne(Waiting, D, PriorityLess(pcb)) = InsertAll(Waiting, D, PriorityLess(pcb))
        BY <2>2, <2>3, <3>1, InsertionIsStableSort
      <4>2. D \in Seq(PID)
        BY <3>1 DEF Lists
      <4> QED
        BY <3>1, <4>1, <4>2 DEF SearchStep
    <3> QED
      BY <2>4, <3>1 DEF QueueStep, SearchStep
  <2>5. CASE active = "PRIORITY" /\ ApplyAging
    <3>1. Lists(Waiting, ReadySet)
      BY <2>1, <2>5 DEF IInv, Placed, Waiting
    <3>2. CASE Boosted = {}
      BY <2>5, <3>2 DEF ApplyAging, SearchStep, Waiting
    <3>3. CASE Boosted # {}
      <4>1. queue'["PRIORITY"] = InsertAll(<<>>, Waiting, PriorityLess(pcb'))
        BY <2>1, <2>5, <3>3 DEF ApplyAging, Waiting
      <4>2. {} \cap ReadySet = {}
        OBVIOUS
      <4>3. InsertOneByOne(<<>>, Waiting, PriorityLess(pcb'))
              = InsertAll(<<>>, Waiting, PriorityLess(pcb'))
        BY <2>2, <3>1, <4>2, EmptyLists, EmptySorted, InsertionIsStableSort
      <4> QED
        BY <4>1, <4>3 DEF SearchStep
    <3> QED
      BY <3>2, <3>3
  <2> QED
    BY <2>4, <2>5, QueueSteps
<1> QED
  BY <1>1, AlwaysIInv, PriorityStaysSorted, PTL DEF Spec
===============================================================================
