----------------------------- MODULE Statistics -----------------------------
(***************************************************************************)
(* StatisticsEngine between the threads that feed it: the CPU thread hands *)
(* it a completion in two critical sections of its mutex, the monitor      *)
(* copies the switches it finds in the scheduler's history, anybody may    *)
(* read the live values in between.  The position up to which the history  *)
(* has been copied is a static of monitor_loop: it belongs to the program, *)
(* not to a controller, and outlives the run.                              *)
(*                                                                         *)
(* record_idle_tick, record_context_switch and record_starvation_event     *)
(* have no caller.  A waiting time is any value of WAITS.                  *)
(***************************************************************************)
EXTENDS Integers, Sequences, FiniteSets, Functions, SequencesExt

CONSTANTS Job,          \* the processes of one run
          By,           \* policies
          WAITS,        \* waiting times
          TIMELINE_CAP, \* entries the timeline may have: 10000 in the program
          RUNS,         \* controllers made one after the other: main makes one
          MAX_SWITCHES  \* bound: policy switches of one run

ASSUME StatisticsAssumption ==
  /\ IsFiniteSet(Job) /\ IsFiniteSet(By) /\ WAITS \subseteq Nat
  /\ TIMELINE_CAP \in Nat /\ RUNS \in Nat \ {0} /\ MAX_SWITCHES \in Nat

VARIABLES run,          \* the number of this controller
          feed,         \* what the CPU thread does next
          records,      \* completed_: process, waiting time, policy
          byPolicy,     \* policy_completions_
          timeline,     \* timeline_
          totalTicks,   \* total_ticks_, equal to busy_ticks_
          counted,      \* completed_count_ of the controller
          watch,        \* what the monitor does next
          history,      \* the scheduler's switch_history
          logged,       \* switch_log_
          lastRecorded, \* the static of monitor_loop
          base          \* what it was when this run began

feedVars == <<feed, records, byPolicy, timeline, totalTicks, counted>>
watchVars == <<watch, history, logged, lastRecorded>>
statVars == <<run, base, feedVars, watchVars>>

StatInit ==
  /\ run = 1 /\ base = 0 /\ lastRecorded = 0
  /\ feed = "complete" /\ records = <<>> /\ byPolicy = [b \in By |-> 0]
  /\ timeline = <<>> /\ totalTicks = 0 /\ counted = 0
  /\ watch = "evaluate" /\ history = <<>> /\ logged = <<>>

StatTypeOK ==
  /\ {run, base, lastRecorded, totalTicks, counted} \subseteq Nat
  /\ feed \in {"complete", "tick", "count"} /\ watch \in {"evaluate", "log"}
  /\ records \in Seq([job : Job, wait : WAITS, by : By])
  /\ byPolicy \in [By -> Nat] /\ timeline \in Seq(Job)
  /\ history \in Seq(Nat) /\ logged \in Seq(Nat)
-----------------------------------------------------------------------------
(* CPU thread, SimulationController::on_process_complete:                  *)
(* record_process_completion ...                                           *)
Done == {records[i].job : i \in DOMAIN records}
RecordedUncapped(p) == Append(timeline, p)  \* mutant: the timeline has no cap
Recorded(p) ==
  LET longer == Append(timeline, p)
  IN IF Len(longer) > TIMELINE_CAP THEN Tail(longer) ELSE longer
RecordCompletion(p, w, b) ==
  /\ feed = "complete" /\ p \in Job \ Done
  /\ records' = Append(records, [job |-> p, wait |-> w, by |-> b])
  /\ byPolicy' = [byPolicy EXCEPT ![b] = @ + 1]
  /\ timeline' = Recorded(p)
  /\ feed' = "tick"
  /\ UNCHANGED <<run, base, totalTicks, counted, watchVars>>
(* ... record_busy_tick ... *)
RecordBusyTick ==
  /\ feed = "tick"
  /\ totalTicks' = totalTicks + 1
  /\ feed' = "count"
  /\ UNCHANGED <<run, base, records, byPolicy, timeline, counted, watchVars>>
(* ... and the count that ends the run. *)
CountCompletion ==
  /\ feed = "count"
  /\ counted' = counted + 1
  /\ feed' = "complete"
  /\ UNCHANGED <<run, base, records, byPolicy, timeline, totalTicks, watchVars>>

(* Monitor thread, one iteration of monitor_loop.  A switch is numbered by *)
(* its place in the history.                                               *)
EvaluateAndAdapt ==
  /\ watch = "evaluate"
  /\ \/ UNCHANGED history
     \/ /\ Len(history) < MAX_SWITCHES
        /\ history' = Append(history, Len(history) + 1)
  /\ watch' = "log"
  /\ UNCHANGED <<run, base, feedVars, logged, lastRecorded>>
LogSwitchesAgain ==  \* mutant: the position is not advanced
  /\ watch = "log"
  /\ logged' = logged \o SubSeq(history, lastRecorded + 1, Len(history))
  /\ watch' = "evaluate"
  /\ UNCHANGED <<run, base, feedVars, history, lastRecorded>>
LogSwitches ==
  /\ watch = "log"
  /\ IF Len(history) > lastRecorded
     THEN /\ logged' = logged \o SubSeq(history, lastRecorded + 1, Len(history))
          /\ lastRecorded' = Len(history)
     ELSE UNCHANGED <<logged, lastRecorded>>
  /\ watch' = "evaluate"
  /\ UNCHANGED <<run, base, feedVars, history>>

(* The threads are joined between two completions and two iterations (at   *)
(* the end of the workload, at the tick limit or at a stop), the report is *)
(* written; another controller has another engine and another scheduler.   *)
Over == feed = "complete" /\ watch = "evaluate"
NextRun ==
  /\ Over /\ run < RUNS
  /\ run' = run + 1 /\ base' = lastRecorded
  /\ records' = <<>> /\ byPolicy' = [b \in By |-> 0] /\ timeline' = <<>>
  /\ totalTicks' = 0 /\ counted' = 0 /\ history' = <<>> /\ logged' = <<>>
  /\ UNCHANGED <<feed, watch, lastRecorded>>

StatNext ==
  \/ \E p \in Job, w \in WAITS, b \in By : RecordCompletion(p, w, b)
  \/ RecordBusyTick \/ CountCompletion
  \/ EvaluateAndAdapt \/ LogSwitches \/ NextRun

StatSpec == StatInit /\ [][StatNext]_statVars
-----------------------------------------------------------------------------
(* live_fairness_index, as a fraction of squares: <<numerator, denominator>> *)
Waits == [i \in DOMAIN records |-> records[i].wait]
SumOfSquares == SumFunction([i \in DOMAIN Waits |-> Waits[i] * Waits[i]])
FairnessPerPair ==  \* mutant: the number of processes is one short
  IF Len(records) < 2 \/ SumOfSquares = 0 THEN <<1, 1>>
  ELSE <<SumFunction(Waits) * SumFunction(Waits), (Len(records) - 1) * SumOfSquares>>
Fairness ==
  IF Len(records) < 2 \/ SumOfSquares = 0 THEN <<1, 1>>
  ELSE <<SumFunction(Waits) * SumFunction(Waits), Len(records) * SumOfSquares>>

(* Jain's index of the waiting times is between 1/n, one process waits for *)
(* all the others, and 1, all wait alike: at any moment of a run.          *)
FairnessIsAnIndex ==
  LET f == Fairness
  IN f[1] <= f[2] /\ f[2] <= f[1] * (IF records = <<>> THEN 1 ELSE Len(records))

(* "Thread-safe; can be queried at any time": what a reader may see        *)
(* between the critical sections of one completion.  The completions by    *)
(* policy add up to the completions; the timeline has the latest of them;  *)
(* the ticks lag one behind while a completion is on its way, so that the  *)
(* live throughput may exceed one process per tick; the count that ends    *)
(* the run is never ahead of the records the report reads.                 *)
ReadingsAgree ==
  /\ SumFunction(byPolicy) = Len(records)
  /\ Len(timeline) = IF Len(records) < TIMELINE_CAP THEN Len(records) ELSE TIMELINE_CAP
  /\ \A i \in DOMAIN timeline :
       timeline[i] = records[Len(records) - Len(timeline) + i].job
  /\ Len(records) - totalTicks = IF feed = "tick" THEN 1 ELSE 0
  /\ Len(records) - counted = IF feed = "complete" THEN 0 ELSE 1

(* No switch is in the log twice or out of order, in whatever run, and     *)
(* when the report of the first run is written none is missing.  (In a     *)
(* later run the first lastRecorded switches are.)                         *)
SwitchLogIsHistory ==
  /\ logged = SubSeq(history, base + 1, IF logged = <<>> THEN base ELSE lastRecorded)
  /\ run = 1 /\ Over => logged = history
=============================================================================
