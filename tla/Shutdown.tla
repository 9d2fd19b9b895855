------------------------------ MODULE Shutdown ------------------------------
(***************************************************************************)
(* Starting, pausing, stopping and joining the threads of a simulation:    *)
(* SimulationController (main and monitor thread), CPUEngine's and         *)
(* ProcessGenerator's threads, and an operator, which is any other user of *)
(* the public pause, resume and stop.  The program itself has no operator. *)
(*                                                                         *)
(* What the CPU executes is reduced to SchedulerContract: some submitted   *)
(* process runs in every tick in which there is one, BURST ticks each.     *)
(* A mutex is the thread that holds it; a thread waits for one by having   *)
(* no enabled step.  A condition-variable wait is two steps, the test of   *)
(* the predicate under the mutex and the blocking that releases it.        *)
(***************************************************************************)
EXTENDS Integers, Sequences

CONSTANTS TOTAL,          \* total_expected_, the size of the workload
          ARRIVAL,        \* arrival tick of each process, in order
          BURST,          \* ticks each process needs
          MAX_TICKS,      \* SimConfig::max_ticks; 0 = no limit
          PAUSES,         \* calls of pause the operator may make
          OPERATOR_STOPS, \* whether the operator may call stop
          CLOCK_BOUND,    \* bound: the clock saturates here
          Free            \* nobody holds the mutex

ASSUME LifecycleAssumption ==
  /\ TOTAL \in Nat
  /\ ARRIVAL \in [1 .. TOTAL -> 0 .. CLOCK_BOUND]
  /\ BURST \in Nat \ {0}
  /\ MAX_TICKS \in 0 .. CLOCK_BOUND
  /\ PAUSES \in Nat
  /\ OPERATOR_STOPS \in BOOLEAN
  /\ CLOCK_BOUND \in Nat

Threads == {"main", "cpu", "gen", "monitor", "operator"}
ASSUME FreeAssumption == Free \notin Threads

VARIABLES pc,             \* the next step of each thread
          simDone,        \* simulation_done_
          monitorRunning, \* monitor_running_
          genRunning,     \* ProcessGenerator::running_
          cpuRunning,     \* CPUEngine::running_
          paused,         \* CPUEngine::paused_
          doneLock,       \* holder of done_mtx_
          pauseLock,      \* holder of pause_mtx_
          injected,       \* processes submitted to the scheduler
          completed,      \* completed_count_
          remaining,      \* ticks the process on the CPU still needs
          clock,          \* SimClock::tick_
          pausesLeft      \* bound on the operator

flags == <<simDone, monitorRunning, genRunning, cpuRunning, paused>>
locks == <<doneLock, pauseLock>>
work  == <<injected, completed, remaining, clock>>
vars  == <<pc, flags, locks, work, pausesLeft>>

StopSteps == {"stopDone", "stopMonitor", "stopNotify", "stopGen", "stopCpu",
              "stopUnpause", "stopWake"}
Steps == [main     |-> {"start", "startGen", "startCpu", "lock", "check", "sleep",
                        "blocked", "joinGen", "joinCpu", "joinMonitor", "report",
                        "exit"} \cup StopSteps,
          cpu      |-> {"created", "loop", "gate", "gateSleep", "gateBlocked",
                        "gatePassed", "execute", "check", "lock", "notify", "tick",
                        "ended"},
          gen      |-> {"created", "loop", "wait", "inject", "ended"},
          monitor  |-> {"created", "loop", "awake", "lock", "notify", "ended"},
          operator |-> {"ready", "paused", "unpause", "wake", "ended"} \cup StopSteps]

TypeOK ==
  /\ pc \in [Threads -> UNION {Steps[t] : t \in Threads}]
  /\ \A t \in Threads : pc[t] \in Steps[t]
  /\ {simDone, monitorRunning, genRunning, cpuRunning, paused} \subseteq BOOLEAN
  /\ doneLock \in Threads \cup {Free} /\ pauseLock \in Threads \cup {Free}
  /\ injected \in 0 .. TOTAL /\ completed \in 0 .. injected
  /\ remaining \in 1 .. BURST
  /\ clock \in 0 .. CLOCK_BOUND
  /\ pausesLeft \in 0 .. PAUSES

Init ==
  /\ pc = [t \in Threads |-> CASE t = "main" -> "start"
                               [] t = "operator" -> "ready"
                               [] OTHER -> "created"]
  /\ simDone = FALSE /\ monitorRunning = FALSE /\ genRunning = FALSE
  /\ cpuRunning = FALSE /\ paused = FALSE
  /\ doneLock = Free /\ pauseLock = Free
  /\ injected = 0 /\ completed = 0 /\ remaining = BURST /\ clock = 0
  /\ pausesLeft = PAUSES

At(t, step) == pc[t] = step
Goto(t, step) == pc' = [pc EXCEPT ![t] = step]
(* t goes on, and notify_all takes waiter out of its condition variable *)
NotifyAll(t, step, waiter, asleep, awake) ==
  pc' = [pc EXCEPT ![t] = step, ![waiter] = IF @ = asleep THEN awake ELSE @]
NotifyDone(t, step) == NotifyAll(t, step, "main", "blocked", "lock")
NotifyPause(t, step) == NotifyAll(t, step, "cpu", "gateBlocked", "gate")
-----------------------------------------------------------------------------
(* Main thread: SimulationController::start *)
StartMonitor ==
  /\ At("main", "start")
  /\ simDone' = FALSE /\ completed' = 0 /\ monitorRunning' = TRUE
  /\ pc' = [pc EXCEPT !["main"] = "startGen", !["monitor"] = "loop"]
  /\ UNCHANGED <<genRunning, cpuRunning, paused, locks, injected, remaining, clock, pausesLeft>>
StartGen ==
  /\ At("main", "startGen")
  /\ genRunning' = TRUE
  /\ pc' = [pc EXCEPT !["main"] = "startCpu", !["gen"] = "loop"]
  /\ UNCHANGED <<simDone, monitorRunning, cpuRunning, paused, locks, work, pausesLeft>>
StartCpu ==
  /\ At("main", "startCpu")
  /\ cpuRunning' = TRUE
  /\ pc' = [pc EXCEPT !["main"] = "lock", !["cpu"] = "loop"]
  /\ UNCHANGED <<simDone, monitorRunning, genRunning, paused, locks, work, pausesLeft>>

(* SimulationController::wait.  done_mtx_ is held from here to the end of  *)
(* wait, through stop and the three joins.                                 *)
MainLock ==
  /\ At("main", "lock")
  /\ doneLock = Free /\ doneLock' = "main"
  /\ Goto("main", "check")
  /\ UNCHANGED <<flags, pauseLock, work, pausesLeft>>
MainCheck ==
  /\ At("main", "check")
  /\ Goto("main", IF simDone THEN "stopDone" ELSE "sleep")
  /\ UNCHANGED <<flags, locks, work, pausesLeft>>
MainSleep ==
  /\ At("main", "sleep")
  /\ doneLock' = Free
  /\ Goto("main", "blocked")
  /\ UNCHANGED <<flags, pauseLock, work, pausesLeft>>
JoinGen ==
  /\ At("main", "joinGen") /\ At("gen", "ended")
  /\ Goto("main", "joinCpu")
  /\ UNCHANGED <<flags, locks, work, pausesLeft>>
JoinCpu ==
  /\ At("main", "joinCpu") /\ At("cpu", "ended")
  /\ Goto("main", "joinMonitor")
  /\ UNCHANGED <<flags, locks, work, pausesLeft>>
JoinNobody ==  \* mutant: the monitor is not joined
  /\ At("main", "joinMonitor")
  /\ doneLock' = Free
  /\ Goto("main", "report")
  /\ UNCHANGED <<flags, pauseLock, work, pausesLeft>>
JoinMonitor ==
  /\ At("main", "joinMonitor") /\ At("monitor", "ended")
  /\ doneLock' = Free
  /\ Goto("main", "report")
  /\ UNCHANGED <<flags, pauseLock, work, pausesLeft>>
(* print_final_report; the destructors then stop and join ended threads. *)
Report ==
  /\ At("main", "report")
  /\ Goto("main", "exit")
  /\ UNCHANGED <<flags, locks, work, pausesLeft>>
-----------------------------------------------------------------------------
(* SimulationController::stop, called by main in wait or by the operator *)
StopDone(t) ==
  /\ At(t, "stopDone")
  /\ simDone' = TRUE
  /\ Goto(t, "stopMonitor")
  /\ UNCHANGED <<monitorRunning, genRunning, cpuRunning, paused, locks, work, pausesLeft>>
StopMonitor(t) ==
  /\ At(t, "stopMonitor")
  /\ monitorRunning' = FALSE
  /\ Goto(t, "stopNotify")
  /\ UNCHANGED <<simDone, genRunning, cpuRunning, paused, locks, work, pausesLeft>>
StopNotify(t) ==
  /\ At(t, "stopNotify")
  /\ NotifyDone(t, "stopGen")
  /\ UNCHANGED <<flags, locks, work, pausesLeft>>
StopGen(t) ==
  /\ At(t, "stopGen")
  /\ genRunning' = FALSE
  /\ Goto(t, "stopCpu")
  /\ UNCHANGED <<simDone, monitorRunning, cpuRunning, paused, locks, work, pausesLeft>>
(* CPUEngine::stop *)
StopCpu(t) ==
  /\ At(t, "stopCpu")
  /\ cpuRunning' = FALSE
  /\ Goto(t, "stopUnpause")
  /\ UNCHANGED <<simDone, monitorRunning, genRunning, paused, locks, work, pausesLeft>>
StopUnpause(t) ==
  /\ At(t, "stopUnpause")
  /\ pauseLock = Free
  /\ paused' = FALSE
  /\ Goto(t, "stopWake")
  /\ UNCHANGED <<simDone, monitorRunning, genRunning, cpuRunning, locks, work, pausesLeft>>
StopWake(t) ==
  /\ At(t, "stopWake")
  /\ NotifyPause(t, IF t = "main" THEN "joinGen" ELSE "ended")
  /\ UNCHANGED <<flags, locks, work, pausesLeft>>
Stop(t) == \/ StopDone(t) \/ StopMonitor(t) \/ StopNotify(t) \/ StopGen(t)
           \/ StopCpu(t) \/ StopUnpause(t) \/ StopWake(t)
-----------------------------------------------------------------------------
(* CPU thread: CPUEngine::run *)
CpuLoop ==
  /\ At("cpu", "loop")
  /\ Goto("cpu", IF cpuRunning THEN "gate" ELSE "ended")
  /\ UNCHANGED <<flags, locks, work, pausesLeft>>
CpuGate ==
  /\ At("cpu", "gate")
  /\ pauseLock = Free
  /\ IF paused /\ cpuRunning
     THEN pauseLock' = "cpu" /\ Goto("cpu", "gateSleep")
     ELSE UNCHANGED pauseLock /\ Goto("cpu", "gatePassed")
  /\ UNCHANGED <<flags, doneLock, work, pausesLeft>>
CpuGateSleep ==
  /\ At("cpu", "gateSleep")
  /\ pauseLock' = Free
  /\ Goto("cpu", "gateBlocked")
  /\ UNCHANGED <<flags, doneLock, work, pausesLeft>>
CpuGatePassed ==
  /\ At("cpu", "gatePassed")
  /\ Goto("cpu", IF cpuRunning THEN "execute" ELSE "ended")
  /\ UNCHANGED <<flags, locks, work, pausesLeft>>
CpuExecute ==
  /\ At("cpu", "execute")
  /\ \/ /\ injected = completed
        /\ UNCHANGED work /\ Goto("cpu", "tick")
     \/ /\ injected > completed /\ remaining > 1
        /\ remaining' = remaining - 1
        /\ UNCHANGED <<injected, completed, clock>> /\ Goto("cpu", "tick")
     \/ /\ injected > completed /\ remaining = 1
        /\ completed' = completed + 1 /\ remaining' = BURST
        /\ UNCHANGED <<injected, clock>> /\ Goto("cpu", "check")
  /\ UNCHANGED <<flags, locks, pausesLeft>>
(* check_termination, on the CPU thread; it sleeps before it locks. *)
CpuCheckOneEarly ==  \* mutant: the process on the CPU counted as completed
  /\ At("cpu", "check")
  /\ Goto("cpu", IF ~simDone /\ completed + 1 >= TOTAL /\ TOTAL > 0 THEN "lock" ELSE "tick")
  /\ UNCHANGED <<flags, locks, work, pausesLeft>>
CpuCheck ==
  /\ At("cpu", "check")
  /\ Goto("cpu", IF ~simDone /\ completed >= TOTAL /\ TOTAL > 0 THEN "lock" ELSE "tick")
  /\ UNCHANGED <<flags, locks, work, pausesLeft>>
SetDoneWithoutLock(t) ==  \* mutant: simulation_done_ set without done_mtx_
  /\ At(t, "lock")
  /\ simDone' = TRUE
  /\ Goto(t, "notify")
  /\ UNCHANGED <<monitorRunning, genRunning, cpuRunning, paused, locks, work, pausesLeft>>
SetDone(t) ==
  /\ At(t, "lock")
  /\ doneLock = Free
  /\ simDone' = TRUE
  /\ Goto(t, "notify")
  /\ UNCHANGED <<monitorRunning, genRunning, cpuRunning, paused, locks, work, pausesLeft>>
CpuForgetsToNotify ==  \* mutant: no done_cv_.notify_all
  /\ At("cpu", "notify")
  /\ Goto("cpu", "tick")
  /\ UNCHANGED <<flags, locks, work, pausesLeft>>
CpuNotify ==
  /\ At("cpu", "notify")
  /\ NotifyDone("cpu", "tick")
  /\ UNCHANGED <<flags, locks, work, pausesLeft>>
CpuTick ==
  /\ At("cpu", "tick")
  /\ clock' = IF clock < CLOCK_BOUND THEN clock + 1 ELSE clock
  /\ Goto("cpu", "loop")
  /\ UNCHANGED <<flags, locks, injected, completed, remaining, pausesLeft>>
-----------------------------------------------------------------------------
(* Generator thread: ProcessGenerator::run_static and wait_until *)
GenLoop ==
  /\ At("gen", "loop")
  /\ Goto("gen", IF genRunning /\ injected < TOTAL THEN "wait" ELSE "ended")
  /\ UNCHANGED <<flags, locks, work, pausesLeft>>
GenWait ==
  /\ At("gen", "wait")
  /\ \/ ~genRunning /\ Goto("gen", "ended")
     \/ genRunning /\ clock >= ARRIVAL[injected + 1] /\ Goto("gen", "inject")
  /\ UNCHANGED <<flags, locks, work, pausesLeft>>
GenInject ==
  /\ At("gen", "inject")
  /\ injected' = injected + 1
  /\ Goto("gen", "loop")
  /\ UNCHANGED <<flags, locks, completed, remaining, clock, pausesLeft>>

(* Monitor thread: monitor_loop; an evaluation changes nothing here. *)
MonitorLoop ==
  /\ At("monitor", "loop")
  /\ Goto("monitor", IF monitorRunning THEN "awake" ELSE "ended")
  /\ UNCHANGED <<flags, locks, work, pausesLeft>>
MonitorAwake ==
  /\ At("monitor", "awake")
  /\ Goto("monitor", IF MAX_TICKS > 0 /\ clock >= MAX_TICKS THEN "lock" ELSE "loop")
  /\ UNCHANGED <<flags, locks, work, pausesLeft>>
MonitorNotify ==
  /\ At("monitor", "notify")
  /\ NotifyDone("monitor", "ended")
  /\ UNCHANGED <<flags, locks, work, pausesLeft>>
-----------------------------------------------------------------------------
(* Operator, once start has returned *)
Started == pc["main"] \notin {"start", "startGen", "startCpu"}
OperatorPause ==
  /\ At("operator", "ready") /\ Started /\ pausesLeft > 0
  /\ paused' = TRUE
  /\ pausesLeft' = pausesLeft - 1
  /\ Goto("operator", "paused")
  /\ UNCHANGED <<simDone, monitorRunning, genRunning, cpuRunning, locks, work>>
OperatorStop ==
  /\ pc["operator"] \in {"ready", "paused"} /\ Started /\ OPERATOR_STOPS
  /\ Goto("operator", "stopDone")
  /\ UNCHANGED <<flags, locks, work, pausesLeft>>
OperatorResume ==
  /\ At("operator", "paused")
  /\ Goto("operator", "unpause")
  /\ UNCHANGED <<flags, locks, work, pausesLeft>>
(* CPUEngine::resume *)
UnpauseWithoutLock ==  \* mutant: paused_ cleared without pause_mtx_
  /\ At("operator", "unpause")
  /\ paused' = FALSE
  /\ Goto("operator", "wake")
  /\ UNCHANGED <<simDone, monitorRunning, genRunning, cpuRunning, locks, work, pausesLeft>>
ResumeUnpause ==
  /\ At("operator", "unpause")
  /\ pauseLock = Free
  /\ paused' = FALSE
  /\ Goto("operator", "wake")
  /\ UNCHANGED <<simDone, monitorRunning, genRunning, cpuRunning, locks, work, pausesLeft>>
ResumeWake ==
  /\ At("operator", "wake")
  /\ NotifyPause("operator", "ready")
  /\ UNCHANGED <<flags, locks, work, pausesLeft>>

(* A condition variable may wake its waiter for no reason. *)
SpuriousWakeup ==
  /\ \/ At("main", "blocked") /\ Goto("main", "lock")
     \/ At("cpu", "gateBlocked") /\ Goto("cpu", "gate")
  /\ UNCHANGED <<flags, locks, work, pausesLeft>>

Exited == At("main", "exit") /\ UNCHANGED vars
-----------------------------------------------------------------------------
MainNext == \/ StartMonitor \/ StartGen \/ StartCpu \/ MainLock \/ MainCheck
            \/ MainSleep \/ Stop("main") \/ JoinGen \/ JoinCpu \/ JoinMonitor
            \/ Report
CpuNext == \/ CpuLoop \/ CpuGate \/ CpuGateSleep \/ CpuGatePassed \/ CpuExecute
           \/ CpuCheck \/ SetDone("cpu") \/ CpuNotify \/ CpuTick
GenNext == GenLoop \/ GenWait \/ GenInject
MonitorNext == MonitorLoop \/ MonitorAwake \/ SetDone("monitor") \/ MonitorNotify
OperatorDuty == Stop("operator") \/ OperatorResume \/ ResumeUnpause \/ ResumeWake
Next == \/ MainNext \/ CpuNext \/ GenNext \/ MonitorNext \/ OperatorDuty
        \/ OperatorPause \/ OperatorStop \/ SpuriousWakeup \/ Exited

Spec == Init /\ [][Next]_vars

(* Each thread runs on while it has a step, and obtains a mutex that is    *)
(* free again and again (strong fairness: spurious wakeups may take the    *)
(* mutexes infinitely often).  The operator need not call anything, but    *)
(* finishes a call it has begun and resumes what it paused.                *)
FairSpec == /\ Spec
            /\ SF_vars(MainNext) /\ SF_vars(CpuNext) /\ WF_vars(GenNext)
            /\ SF_vars(MonitorNext) /\ SF_vars(OperatorDuty)
-----------------------------------------------------------------------------
(* SimulationController::run is to "run the simulation to completion       *)
(* (blocks until done)" (simulation_controller.h:54): it returns.          *)
RunReturns == <>At("main", "exit")

(* No wakeup of a paused CPU thread is lost: if it sleeps at the gate      *)
(* although it may go on, the thread that released it has yet to notify.   *)
(* CPUEngine::stop clears running_ without a mutex; paused_ is cleared     *)
(* under pause_mtx_, so the notification can not fall between the test of  *)
(* the gate and the sleep.                                                 *)
GateWakeupComing ==
  At("cpu", "gateBlocked") /\ ~(paused /\ cpuRunning) =>
    \E t \in {"main", "operator"} : pc[t] \in {"stopUnpause", "stopWake", "wake"}

(* The final report is written when no other thread can change what it     *)
(* prints, whoever ended the run and why.                                  *)
ReportIsLast ==
  pc["main"] \in {"report", "exit"} =>
    \A t \in {"cpu", "gen", "monitor"} : At(t, "ended")

(* cpu.cpp:93 leaves its loop whatever is queued or on the CPU: but nobody *)
(* tells it to before the workload is done, except at the tick limit or by *)
(* a stop from outside.                                                    *)
OperatorHasStopped == pc["operator"] \in StopSteps \cup {"ended"}
CutOffOnlyOnDemand ==
  (simDone \/ At("cpu", "ended")) /\ completed < TOTAL /\ ~OperatorHasStopped
    => MAX_TICKS > 0 /\ clock >= MAX_TICKS

(* A mutex keeps the controller's decision atomic: while main decides or   *)
(* is about to block, nobody can set simulation_done_ through SetDone and  *)
(* have its notification missed; so a main that is blocked although the    *)
(* simulation is done still has a notification coming, as long as nobody   *)
(* else has called stop (which needs no mutex, see WaitFollowsStop).       *)
NotificationComing ==
  At("main", "blocked") /\ simDone /\ ~OperatorHasStopped =>
    \E t \in {"cpu", "monitor"} : At(t, "notify")

(* simulation_controller.h:57 "Async start / stop": after a stop from      *)
(* another thread wait returns.                                            *)
WaitFollowsStop == At("operator", "stopDone") ~> pc["main"] \in {"report", "exit"}
==============================================================================
