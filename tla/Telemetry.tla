------------------------------ MODULE Telemetry ------------------------------
(***************************************************************************)
(* The accumulators between the CPU thread, which counts ticks, preemptions*)
(* and completions, and the monitor thread, which samples them, decides,   *)
(* and only then, in another critical section of accum_mtx_, resets them.  *)
(* The counters CPUEngine keeps for its own utilization() are here too.    *)
(*                                                                         *)
(* What a tick does is left open: AdaptiveSim says when a process expires, *)
(* completes or is preempted.  Which evaluation switches is PolicyEngine's.*)
(***************************************************************************)
EXTENDS Integers

CONSTANTS COOLDOWN_TICKS,
          MAX_TICKS        \* bound: the clock stops here

ASSUME TelemetryAssumption == COOLDOWN_TICKS \in Nat /\ MAX_TICKS \in Nat

VARIABLES clock,       \* SimClock::tick_
          step,        \* what the CPU thread does next
          executed,    \* whether a process executed in this tick
          wasBusy,     \* the CPU thread's local was_busy
          workTicks,   \* number of ticks in which a process executed
          cpuBusy,     \* CPUEngine::busy_ticks_
          cpuTotal,    \* CPUEngine::total_ticks_
          accum,       \* AdaptiveScheduler::accum_
          recorded,    \* completions handed to record_completion
          monitor,     \* what the monitor thread does next
          window,      \* the last copy sample_metrics took of accum_
          sampled,     \* completions in all the copies together
          cooldown     \* cooldown_expires_at_

cpuVars == <<clock, step, executed, wasBusy, workTicks, cpuBusy, cpuTotal, recorded>>
monitorVars == <<monitor, window, sampled, cooldown>>
telemetryVars == <<cpuVars, accum, monitorVars>>

Counter == {"busy", "total", "completions", "switches"}
Zero == [c \in Counter |-> 0]
AddTo(counts, c, n) == [counts EXCEPT ![c] = @ + n]

TelemetryTypeOK ==
  /\ {clock, workTicks, cpuBusy, cpuTotal, recorded, sampled, cooldown} \subseteq Nat
  /\ step \in {"run", "record", "tick"}
  /\ executed \in BOOLEAN /\ wasBusy \in BOOLEAN
  /\ accum \in [Counter -> Nat] /\ window \in [Counter -> Nat]
  /\ monitor \in {"sample", "decide", "reset"}

TelemetryInit ==
  /\ clock = 0 /\ step = "run" /\ executed = FALSE /\ wasBusy = FALSE
  /\ workTicks = 0 /\ cpuBusy = 0 /\ cpuTotal = 0 /\ recorded = 0
  /\ accum = Zero /\ monitor = "sample" /\ window = Zero /\ sampled = 0
  /\ cooldown = 0
-----------------------------------------------------------------------------
(* CPU thread: one tick of CPUEngine::run *)
Outcome(ran, busy) ==
  /\ step = "run" /\ clock < MAX_TICKS
  /\ executed' = ran /\ wasBusy' = busy
  /\ workTicks' = workTicks + IF ran THEN 1 ELSE 0
  /\ step' = "record"
  /\ UNCHANGED <<clock, cpuBusy, cpuTotal, monitorVars>>

NothingReady == Outcome(FALSE, FALSE) /\ UNCHANGED <<accum, recorded>>
Continues == Outcome(TRUE, TRUE) /\ UNCHANGED <<accum, recorded>>

(* AdaptiveScheduler::handle_preemption counts a switch when the child     *)
(* preempts: at dispatch, or when the quantum has expired.                 *)
PreemptedAtDispatch ==
  /\ Outcome(FALSE, FALSE)
  /\ accum' = AddTo(accum, "switches", 1)
  /\ UNCHANGED recorded
QuantumExpires ==
  /\ Outcome(TRUE, TRUE)
  /\ accum' = AddTo(accum, "switches", 1)
  /\ UNCHANGED recorded

(* execute_tick calls record_completion and returns false.  *)
Completes ==
  /\ Outcome(TRUE, FALSE)
  /\ accum' = AddTo(accum, "completions", 1)
  /\ recorded' = recorded + 1

RecordBusyTicksOnly ==  \* mutant: idle ticks are not counted
  /\ step = "record"
  /\ accum' = IF wasBusy THEN AddTo(AddTo(accum, "total", 1), "busy", 1) ELSE accum
  /\ cpuTotal' = cpuTotal + 1
  /\ cpuBusy' = cpuBusy + IF wasBusy THEN 1 ELSE 0
  /\ step' = "tick"
  /\ UNCHANGED <<clock, executed, wasBusy, workTicks, recorded, monitorVars>>
RecordCpuSample ==
  /\ step = "record"
  /\ accum' = AddTo(AddTo(accum, "total", 1), "busy", IF wasBusy THEN 1 ELSE 0)
  /\ cpuTotal' = cpuTotal + 1
  /\ cpuBusy' = cpuBusy + IF wasBusy THEN 1 ELSE 0
  /\ step' = "tick"
  /\ UNCHANGED <<clock, executed, wasBusy, workTicks, recorded, monitorVars>>

AdvanceClock ==
  /\ step = "tick"
  /\ clock' = clock + 1
  /\ step' = "run"
  /\ UNCHANGED <<executed, wasBusy, workTicks, cpuBusy, cpuTotal, recorded, accum,
                 monitorVars>>
-----------------------------------------------------------------------------
(* Monitor thread: evaluate_and_adapt; while the cooldown lasts it returns *)
(* at once and the accumulators go on counting.                            *)
SampleMetrics ==
  /\ monitor = "sample" /\ clock >= cooldown
  /\ window' = accum
  /\ sampled' = sampled + accum["completions"]
  /\ monitor' = "decide"
  /\ UNCHANGED <<cpuVars, accum, cooldown>>

Decide ==
  /\ monitor = "decide"
  /\ cooldown' \in {cooldown, clock + COOLDOWN_TICKS}
  /\ monitor' = "reset"
  /\ UNCHANGED <<cpuVars, accum, window, sampled>>

ResetKeepingCompletions ==  \* mutant: one counter is not reset
  /\ monitor = "reset"
  /\ accum' = [Zero EXCEPT !["completions"] = accum["completions"]]
  /\ monitor' = "sample"
  /\ UNCHANGED <<cpuVars, window, sampled, cooldown>>
ResetKeepingBusy ==  \* mutant: one counter is not reset
  /\ monitor = "reset"
  /\ accum' = [Zero EXCEPT !["busy"] = accum["busy"]]
  /\ monitor' = "sample"
  /\ UNCHANGED <<cpuVars, window, sampled, cooldown>>
ResetWindow ==
  /\ monitor = "reset"
  /\ accum' = Zero
  /\ monitor' = "sample"
  /\ UNCHANGED <<cpuVars, window, sampled, cooldown>>
-----------------------------------------------------------------------------
CpuNext == \/ NothingReady \/ Continues \/ PreemptedAtDispatch \/ QuantumExpires
           \/ Completes \/ RecordCpuSample \/ AdvanceClock
MonitorNext == SampleMetrics \/ Decide \/ ResetWindow
TelemetryNext == CpuNext \/ MonitorNext
TelemetrySpec == TelemetryInit /\ [][TelemetryNext]_telemetryVars
-----------------------------------------------------------------------------
(* The utilization of a window is a fraction, although the CPU thread goes *)
(* on counting between the sample and the reset (adaptive.h:33).           *)
UtilizationIsFraction == window["busy"] <= window["total"]

(* No completion enters two windows: the averages per completion weigh     *)
(* each process at most once.  (It may enter none: what is recorded        *)
(* between the sample and the reset is dropped.)                           *)
CompletionsCountedOnce == sampled <= recorded

(* A window has at most one preemption or completion per tick, one more if *)
(* the sample falls between a preemption and the count of its tick: the    *)
(* two are counted in different critical sections and reset in a third.    *)
EventsFitWindow ==
  window["switches"] + window["completions"] <= window["total"] + 1

(* adaptive.h:33 cpu_utilization is the "fraction of ticks with work":     *)
(* between two ticks CPUEngine's busy count is the number of ticks in      *)
(* which a process executed.                                               *)
BusyTicksAreWorkTicks == step = "tick" => cpuBusy = workTicks
=============================================================================
