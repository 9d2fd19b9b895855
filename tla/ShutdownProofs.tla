---------------------------- MODULE ShutdownProofs ----------------------------
(***************************************************************************)
(* The safety properties of Shutdown for every workload, every tick limit  *)
(* and every number of pauses.  The invariant says who holds which mutex,  *)
(* in which order the threads start and are joined, and what each thread   *)
(* knows at each step it has reached.                                      *)
(***************************************************************************)
EXTENDS Shutdown, TLAPS

Starting == {"start", "startGen", "startCpu"}
Joining == {"joinGen", "joinCpu", "joinMonitor"}
Leaving == {"report", "exit"}

(* A mutex is held exactly at the steps between its lock and its release.  *)
LocksHeld ==
  /\ doneLock \in {"main", Free} /\ pauseLock \in {"cpu", Free}
  /\ doneLock = "main" <=> pc["main"] \in {"check", "sleep"} \cup StopSteps \cup Joining
  /\ pauseLock = "cpu" <=> pc["cpu"] = "gateSleep"

(* start creates the monitor, the generator and the CPU thread in this     *)
(* order, and nobody can pause or stop before it has returned.             *)
StartOrder ==
  /\ pc["main"] = "start" => pc["monitor"] = "created" /\ ~simDone
  /\ pc["main"] \in {"start", "startGen"} => pc["gen"] = "created"
  /\ pc["main"] \in Starting =>
       /\ pc["cpu"] = "created" /\ ~cpuRunning
       /\ pc["operator"] = "ready"

(* wait joins the generator, the CPU thread and the monitor. *)
JoinOrder ==
  /\ pc["main"] \in {"joinCpu", "joinMonitor"} \cup Leaving => At("gen", "ended")
  /\ pc["main"] \in {"joinMonitor"} \cup Leaving => At("cpu", "ended")
  /\ pc["main"] \in Leaving => At("monitor", "ended")

(* Whoever has declared the run over, or is about to, has a cause. *)
LimitReached == MAX_TICKS > 0 /\ clock >= MAX_TICKS
Cause == completed >= TOTAL \/ OperatorHasStopped \/ LimitReached
DoneHasCause ==
  /\ simDone => Cause
  /\ pc["main"] \in StopSteps \cup Joining \cup Leaving => simDone
  /\ ~cpuRunning => pc["main"] \in Starting \/ Cause
  /\ At("cpu", "ended") => Cause
  /\ At("cpu", "lock") => completed >= TOTAL
  /\ At("monitor", "lock") => LimitReached

(* The main thread, about to block, has seen simulation_done_ false and    *)
(* still holds the mutex; only stop sets it without.                       *)
SleepIsSafe == At("main", "sleep") /\ ~OperatorHasStopped => ~simDone

(* The CPU thread, about to block, has seen itself paused and running, and *)
(* still holds the mutex; only CPUEngine::stop, which is yet to lock it,   *)
(* clears running_ without.                                                *)
GateIsSafe ==
  At("cpu", "gateSleep") =>
    \/ paused /\ cpuRunning
    \/ \E t \in {"main", "operator"} : At(t, "stopUnpause")

(* The generator goes on only while there is something to submit. *)
MoreToSubmit == pc["gen"] \in {"wait", "inject"} => injected < TOTAL

IInv == /\ TypeOK /\ LocksHeld /\ StartOrder /\ JoinOrder /\ DoneHasCause
        /\ SleepIsSafe /\ NotificationComing /\ GateIsSafe /\ GateWakeupComing
        /\ MoreToSubmit
-----------------------------------------------------------------------------
(* A thread that goes on moves nobody else. *)
PcOK == /\ pc \in [Threads -> UNION {Steps[t] : t \in Threads}]
        /\ \A t \in Threads : pc[t] \in Steps[t]
Moved(t, step) ==
  PcOK' /\ pc'[t] = step /\ \A u \in Threads \ {t} : pc'[u] = pc[u]
LEMMA GotoMoves ==
  ASSUME TypeOK, NEW t \in Threads, NEW step \in Steps[t], Goto(t, step)
  PROVE  PcOK' /\ pc'[t] = step /\ \A u \in Threads \ {t} : pc'[u] = pc[u]
BY DEF Goto, TypeOK, PcOK

(* Init establishes the invariant. *)
LEMMA InitInv == Init => IInv
<1> SUFFICES ASSUME Init PROVE IInv
  OBVIOUS
<1> USE LifecycleAssumption, FreeAssumption
<1>1. /\ pc \in [Threads -> {"start", "ready", "created"}]
      /\ pc["main"] = "start" /\ pc["operator"] = "ready"
      /\ pc["cpu"] = "created" /\ pc["gen"] = "created" /\ pc["monitor"] = "created"
  BY DEF Init, Threads
<1>2. /\ pc \in [Threads -> UNION {Steps[t] : t \in Threads}]
      /\ \A t \in Threads : pc[t] \in Steps[t]
  BY <1>1 DEF Threads, Steps
<1>3. TypeOK
  <2>1. injected \in 0 .. TOTAL /\ completed \in 0 .. injected /\ remaining \in 1 .. BURST
    BY DEF Init
  <2>2. clock \in 0 .. CLOCK_BOUND /\ pausesLeft \in 0 .. PAUSES
    BY DEF Init
  <2> QED
    BY <1>2, <2>1, <2>2 DEF Init, TypeOK
<1>4. LocksHeld /\ StartOrder /\ JoinOrder /\ MoreToSubmit
  BY <1>1 DEF Init, LocksHeld, StartOrder, JoinOrder, MoreToSubmit, StopSteps, Starting,
              Joining, Leaving, Threads
<1>5. DoneHasCause /\ SleepIsSafe /\ NotificationComing
  BY <1>1 DEF Init, DoneHasCause, SleepIsSafe, NotificationComing, StopSteps, Starting,
              Joining, Leaving, At
<1>6. GateIsSafe /\ GateWakeupComing
  BY <1>1 DEF GateIsSafe, GateWakeupComing, At
<1> QED
  BY <1>2, <1>3, <1>4, <1>5, <1>6 DEF IInv

(* SimulationController::start creates the threads. *)
LEMMA StartInv ==
  ASSUME IInv, StartMonitor \/ StartGen \/ StartCpu
  PROVE  IInv'
<1> USE LifecycleAssumption, FreeAssumption
    DEF IInv, TypeOK, LocksHeld, StartOrder, JoinOrder, DoneHasCause, SleepIsSafe,
        NotificationComing, GateIsSafe, GateWakeupComing, MoreToSubmit, Threads, Steps,
        StopSteps, Starting, Joining, Leaving, Cause, LimitReached, OperatorHasStopped,
        At, Goto, flags, locks, work
<1>1. CASE StartMonitor
  <2>1. /\ pc' \in [Threads -> UNION {Steps[u] : u \in Threads}]
        /\ pc'["main"] = "startGen" /\ pc'["monitor"] = "loop"
        /\ \A u \in {"cpu", "gen", "operator"} : pc'[u] = pc[u]
    BY <1>1 DEF StartMonitor
  <2>2. \A u \in Threads : pc'[u] \in Steps[u]
    BY <1>1, <2>1 DEF StartMonitor
  <2>3. TypeOK'
    <3> HIDE DEF Steps
    <3>1. injected \in Nat /\ completed' \in 0 .. injected
      BY <1>1 DEF StartMonitor
    <3> QED
      BY <1>1, <2>1, <2>2, <3>1 DEF StartMonitor
  <2> HIDE DEF TypeOK, Steps
  <2> QED
    BY <1>1, <2>1, <2>3 DEF StartMonitor
<1>2. CASE StartGen
  <2>1. /\ pc' \in [Threads -> UNION {Steps[u] : u \in Threads}]
        /\ pc'["main"] = "startCpu" /\ pc'["gen"] = "loop"
        /\ \A u \in {"cpu", "monitor", "operator"} : pc'[u] = pc[u]
    BY <1>2 DEF StartGen
  <2> QED
    BY <1>2, <2>1 DEF StartGen
<1>3. CASE StartCpu
  BY <1>3 DEF StartCpu
<1> QED
  BY <1>1, <1>2, <1>3

(* SimulationController::wait, but for its call of stop, and the report. *)
LEMMA WaitInv ==
  ASSUME IInv, MainLock \/ MainCheck \/ MainSleep \/ JoinGen \/ JoinCpu \/ JoinMonitor \/ Report
  PROVE  IInv'
<1> USE LifecycleAssumption, FreeAssumption
    DEF IInv, TypeOK, LocksHeld, StartOrder, JoinOrder, DoneHasCause, SleepIsSafe,
        NotificationComing, GateIsSafe, GateWakeupComing, MoreToSubmit, Threads, Steps,
        StopSteps, Starting, Joining, Leaving, Cause, LimitReached, OperatorHasStopped,
        At, Goto, flags, locks, work
<1>1. CASE MainLock
  BY <1>1 DEF MainLock
<1>2. CASE MainCheck
  BY <1>2 DEF MainCheck
<1>3. CASE MainSleep
  BY <1>3 DEF MainSleep
<1>4. CASE JoinGen
  BY <1>4 DEF JoinGen
<1>5. CASE JoinCpu
  BY <1>5 DEF JoinCpu
<1>6. CASE JoinMonitor
  BY <1>6 DEF JoinMonitor
<1>7. CASE Report
  BY <1>7 DEF Report
<1> QED
  BY <1>1, <1>2, <1>3, <1>4, <1>5, <1>6, <1>7

(* SimulationController::stop, by whom ever. *)
LEMMA StopInv ==
  ASSUME IInv, NEW t \in {"main", "operator"}, Stop(t)
  PROVE  IInv'
<1>0. /\ StopDone(t) => Moved(t, "stopMonitor")
      /\ StopMonitor(t) => Moved(t, "stopNotify")
      /\ StopGen(t) => Moved(t, "stopCpu")
      /\ StopCpu(t) => Moved(t, "stopUnpause")
      /\ StopUnpause(t) => Moved(t, "stopWake")
  <2>1. t \in Threads /\ {"stopMonitor", "stopNotify", "stopCpu", "stopUnpause", "stopWake"} \subseteq Steps[t]
    BY DEF Threads, Steps, StopSteps
  <2>2. TypeOK
    BY DEF IInv
  <2>3. \A step \in Steps[t] : Goto(t, step) => Moved(t, step)
    BY <2>1, <2>2, GotoMoves DEF Moved
  <2> QED
    BY <2>1, <2>3 DEF StopDone, StopMonitor, StopGen, StopCpu, StopUnpause
<1> USE LifecycleAssumption, FreeAssumption
    DEF IInv, TypeOK, LocksHeld, StartOrder, JoinOrder, DoneHasCause, SleepIsSafe,
        NotificationComing, GateIsSafe, GateWakeupComing, MoreToSubmit, Threads, Steps,
        StopSteps, Starting, Joining, Leaving, Cause, LimitReached, OperatorHasStopped,
        At, Goto, flags, locks, work
<1>1. CASE StopDone(t)
  <2>1. PcOK' /\ pc'[t] = "stopMonitor" /\ \A u \in Threads \ {t} : pc'[u] = pc[u]
    BY <1>0, <1>1 DEF Moved
  <2>2. TypeOK'
    BY <1>1, <2>1 DEF StopDone, PcOK
  <2> HIDE DEF TypeOK, Steps
  <2> QED
    BY <1>1, <2>1, <2>2 DEF StopDone
<1>2. CASE StopMonitor(t)
  <2>1. PcOK' /\ pc'[t] = "stopNotify" /\ \A u \in Threads \ {t} : pc'[u] = pc[u]
    BY <1>0, <1>2 DEF Moved
  <2>2. TypeOK'
    BY <1>2, <2>1 DEF StopMonitor, PcOK
  <2> HIDE DEF TypeOK, Steps
  <2> QED
    BY <1>2, <2>1, <2>2 DEF StopMonitor
<1>3. CASE StopNotify(t)
  BY <1>3 DEF StopNotify, NotifyDone, NotifyAll
<1>4. CASE StopGen(t)
  <2>1. PcOK' /\ pc'[t] = "stopCpu" /\ \A u \in Threads \ {t} : pc'[u] = pc[u]
    BY <1>0, <1>4 DEF Moved
  <2>2. TypeOK'
    BY <1>4, <2>1 DEF StopGen, PcOK
  <2> HIDE DEF TypeOK, Steps
  <2> QED
    BY <1>4, <2>1, <2>2 DEF StopGen
<1>5. CASE StopCpu(t)
  <2>1. PcOK' /\ pc'[t] = "stopUnpause" /\ \A u \in Threads \ {t} : pc'[u] = pc[u]
    BY <1>0, <1>5 DEF Moved
  <2>2. TypeOK'
    BY <1>5, <2>1 DEF StopCpu, PcOK
  <2> HIDE DEF TypeOK, Steps
  <2> QED
    BY <1>5, <2>1, <2>2 DEF StopCpu
<1>6. CASE StopUnpause(t)
  <2>1. PcOK' /\ pc'[t] = "stopWake" /\ \A u \in Threads \ {t} : pc'[u] = pc[u]
    BY <1>0, <1>6 DEF Moved
  <2>2. TypeOK'
    BY <1>6, <2>1 DEF StopUnpause, PcOK
  <2> HIDE DEF TypeOK, Steps
  <2> QED
    BY <1>6, <2>1, <2>2 DEF StopUnpause
<1>7. CASE StopWake(t)
  BY <1>7 DEF StopWake, NotifyPause, NotifyAll
<1> QED
  BY <1>1, <1>2, <1>3, <1>4, <1>5, <1>6, <1>7 DEF Stop

(* The CPU thread. *)
LEMMA CpuInv ==
  ASSUME IInv, CpuNext
  PROVE  IInv'
<1> USE LifecycleAssumption, FreeAssumption
    DEF IInv, TypeOK, LocksHeld, StartOrder, JoinOrder, DoneHasCause, SleepIsSafe,
        NotificationComing, GateIsSafe, GateWakeupComing, MoreToSubmit, Threads, Steps,
        StopSteps, Starting, Joining, Leaving, Cause, LimitReached, OperatorHasStopped,
        At, Goto, flags, locks, work
<1>1. CASE CpuLoop
  BY <1>1 DEF CpuLoop
<1>2. CASE CpuGate
  BY <1>2 DEF CpuGate
<1>3. CASE CpuGateSleep
  BY <1>3 DEF CpuGateSleep
<1>4. CASE CpuGatePassed
  BY <1>4 DEF CpuGatePassed
<1>5. CASE CpuExecute
  BY <1>5, SMTT(30) DEF CpuExecute
<1>6. CASE CpuCheck
  BY <1>6 DEF CpuCheck
<1>7. CASE SetDone("cpu")
  BY <1>7 DEF SetDone
<1>8. CASE CpuNotify
  BY <1>8 DEF CpuNotify, NotifyDone, NotifyAll
<1>9. CASE CpuTick
  BY <1>9 DEF CpuTick
<1> QED
  BY <1>1, <1>2, <1>3, <1>4, <1>5, <1>6, <1>7, <1>8, <1>9 DEF CpuNext

(* The generator thread. *)
LEMMA GenInv ==
  ASSUME IInv, GenNext
  PROVE  IInv'
<1> USE LifecycleAssumption, FreeAssumption
    DEF IInv, TypeOK, LocksHeld, StartOrder, JoinOrder, DoneHasCause, SleepIsSafe,
        NotificationComing, GateIsSafe, GateWakeupComing, MoreToSubmit, Threads, Steps,
        StopSteps, Starting, Joining, Leaving, Cause, LimitReached, OperatorHasStopped,
        At, Goto, flags, locks, work
<1>1. CASE GenLoop
  BY <1>1 DEF GenLoop
<1>2. CASE GenWait
  BY <1>2 DEF GenWait
<1>3. CASE GenInject
  BY <1>3 DEF GenInject
<1> QED
  BY <1>1, <1>2, <1>3 DEF GenNext

(* The monitor thread. *)
LEMMA MonitorInv ==
  ASSUME IInv, MonitorNext
  PROVE  IInv'
<1> USE LifecycleAssumption, FreeAssumption
    DEF IInv, TypeOK, LocksHeld, StartOrder, JoinOrder, DoneHasCause, SleepIsSafe,
        NotificationComing, GateIsSafe, GateWakeupComing, MoreToSubmit, Threads, Steps,
        StopSteps, Starting, Joining, Leaving, Cause, LimitReached, OperatorHasStopped,
        At, Goto, flags, locks, work
<1>1. CASE MonitorLoop
  BY <1>1 DEF MonitorLoop
<1>2. CASE MonitorAwake
  BY <1>2 DEF MonitorAwake
<1>3. CASE SetDone("monitor")
  BY <1>3 DEF SetDone
<1>4. CASE MonitorNotify
  BY <1>4 DEF MonitorNotify, NotifyDone, NotifyAll
<1> QED
  BY <1>1, <1>2, <1>3, <1>4 DEF MonitorNext

(* The operator, but for the body of stop. *)
LEMMA ResumeInv ==
  ASSUME IInv, OperatorResume \/ ResumeUnpause \/ ResumeWake \/ OperatorPause \/ OperatorStop
  PROVE  IInv'
<1> USE LifecycleAssumption, FreeAssumption
    DEF IInv, TypeOK, LocksHeld, StartOrder, JoinOrder, DoneHasCause, SleepIsSafe,
        NotificationComing, GateIsSafe, GateWakeupComing, MoreToSubmit, Threads, Steps,
        StopSteps, Starting, Joining, Leaving, Cause, LimitReached, OperatorHasStopped,
        At, Goto, flags, locks, work
<1>1. CASE OperatorResume
  BY <1>1 DEF OperatorResume
<1>2. CASE ResumeUnpause
  <2>1. PcOK' /\ pc'["operator"] = "wake" /\ \A u \in Threads \ {"operator"} : pc'[u] = pc[u]
    BY <1>2, GotoMoves DEF ResumeUnpause
  <2>2. TypeOK'
    BY <1>2, <2>1 DEF ResumeUnpause, PcOK
  <2> HIDE DEF TypeOK, Steps
  <2> QED
    BY <1>2, <2>1, <2>2 DEF ResumeUnpause
<1>3. CASE ResumeWake
  <2>1. /\ PcOK' /\ pc'["operator"] = "ready"
        /\ pc'["cpu"] = IF At("cpu", "gateBlocked") THEN "gate" ELSE pc["cpu"]
        /\ \A u \in {"main", "gen", "monitor"} : pc'[u] = pc[u]
    BY <1>3 DEF ResumeWake, NotifyPause, NotifyAll, PcOK
  <2>2. TypeOK'
    BY <1>3, <2>1 DEF ResumeWake, PcOK
  <2> HIDE DEF TypeOK, Steps
  <2> QED
    BY <1>3, <2>1, <2>2 DEF ResumeWake
<1>4. CASE OperatorPause
  BY <1>4 DEF OperatorPause, Started
<1>5. CASE OperatorStop
  BY <1>5 DEF OperatorStop, Started
<1> QED
  BY <1>1, <1>2, <1>3, <1>4, <1>5

(* A spurious wakeup. *)
LEMMA SpuriousInv ==
  ASSUME IInv, SpuriousWakeup
  PROVE  IInv'
<1> USE LifecycleAssumption, FreeAssumption
    DEF IInv, TypeOK, LocksHeld, StartOrder, JoinOrder, DoneHasCause, SleepIsSafe,
        NotificationComing, GateIsSafe, GateWakeupComing, MoreToSubmit, Threads, Steps,
        StopSteps, Starting, Joining, Leaving, Cause, LimitReached, OperatorHasStopped,
        At, Goto, flags, locks, work
<1> QED
  BY DEF SpuriousWakeup

(* Every step preserves the invariant. *)
LEMMA StepInv == IInv /\ [Next]_vars => IInv'
<1> SUFFICES ASSUME IInv, [Next]_vars PROVE IInv'
  OBVIOUS
<1>1. CASE MainNext
  BY <1>1, StartInv, WaitInv, StopInv DEF MainNext
<1>2. CASE CpuNext \/ GenNext \/ MonitorNext \/ SpuriousWakeup
  BY <1>2, CpuInv, GenInv, MonitorInv, SpuriousInv
<1>3. CASE OperatorDuty \/ OperatorPause \/ OperatorStop
  BY <1>3, ResumeInv, StopInv DEF OperatorDuty
<1>4. CASE UNCHANGED vars
  BY <1>4 DEF vars, flags, locks, work, IInv, TypeOK, LocksHeld, StartOrder, JoinOrder,
              DoneHasCause, SleepIsSafe, NotificationComing, GateIsSafe, GateWakeupComing,
              MoreToSubmit, Cause, LimitReached, OperatorHasStopped, At
<1> QED
  BY <1>1, <1>2, <1>3, <1>4 DEF Next, Exited
LEMMA AlwaysIInv == Spec => []IInv
<1>1. Init => IInv
  BY InitInv
<1>2. IInv /\ [Next]_vars => IInv'
  BY StepInv
<1> QED
  BY <1>1, <1>2, PTL DEF Spec
-----------------------------------------------------------------------------
(* Every variable of the lifecycle has its type: the counts of submitted   *)
(* and completed processes stay in order and every thread is at one of its *)
(* own steps.                                                              *)
THEOREM LifecycleTyped == Spec => []TypeOK
BY AlwaysIInv, PTL DEF IInv

(* Shutdown!ReportIsLast: the report is written after all three joins.     *)
THEOREM ReportAfterJoins == Spec => []ReportIsLast
<1>1. IInv => ReportIsLast
  BY DEF IInv, JoinOrder, Leaving, ReportIsLast
<1> QED
  BY <1>1, AlwaysIInv, PTL

(* Shutdown!CutOffOnlyOnDemand: no run ends with work left unless the tick *)
(* limit is reached or somebody has called stop.                           *)
THEOREM NobodyEndsEarly == Spec => []CutOffOnlyOnDemand
<1>1. IInv => CutOffOnlyOnDemand
  BY LifecycleAssumption DEF IInv, TypeOK, DoneHasCause, Cause, LimitReached, CutOffOnlyOnDemand
<1> QED
  BY <1>1, AlwaysIInv, PTL

(* Shutdown!NotificationComing: a decision made under done_mtx_ reaches a  *)
(* main thread that blocks.                                                *)
THEOREM DecisionReachesMain == Spec => []NotificationComing
BY AlwaysIInv, PTL DEF IInv

(* Shutdown!GateWakeupComing: a release from the pause reaches a CPU       *)
(* thread that blocks at its gate.                                         *)
THEOREM ReleaseReachesCpu == Spec => []GateWakeupComing
BY AlwaysIInv, PTL DEF IInv
===============================================================================
