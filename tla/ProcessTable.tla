---------------------------- MODULE ProcessTable ----------------------------
(***************************************************************************)
(* The process control block of include/core/process.h and the values      *)
(* derived from it when a process completes.  A process is a member of     *)
(* PID; the program's shared_ptr<Process> objects are the rows of a table  *)
(* [PID -> PCB] that every component reads and writes.                     *)
(***************************************************************************)
EXTENDS Integers, Sequences, FiniteSets

CONSTANTS PID,     \* the processes of the workload
          None,    \* "no process" (nullptr) and "not yet" (UINT64_MAX)
          TickRange \* number of values of Tick: 2^64 in the program

ASSUME PIDAssumption  == IsFiniteSet(PID)
ASSUME NoneAssumption == None \notin PID /\ None \notin Int
ASSUME RangeAssumption == TickRange \in Nat \ {0}

(* enum class ProcessState; BLOCKED is never assigned. *)
ProcessState == {"NEW", "READY", "RUNNING", "TERMINATED"}

NUM_LEVELS == 4
Levels == 0 .. NUM_LEVELS - 1

Tick == Nat

PCB == [state     : ProcessState,
        arrival   : Tick,
        burst     : Tick,
        remaining : Tick,
        quantum   : Tick,               \* quantum_remaining
        level     : Levels,             \* queue_level
        priority  : Int,                \* lower number = more urgent
        starved   : Nat,                \* aging.starvation_ticks
        boosts    : Nat,                \* aging.boost_count
        start     : Tick \cup {None},   \* first time scheduled
        finish    : Tick \cup {None}]   \* completion_time

(* Process::Process: the row of a process that is not yet submitted. *)
NewProcess(arrival, burst, priority) ==
  [state |-> "NEW", arrival |-> arrival, burst |-> burst,
   remaining |-> burst, quantum |-> 0, level |-> 0, priority |-> priority,
   starved |-> 0, boosts |-> 0, start |-> None, finish |-> None]

(* Process::record_completion.  Tick is unsigned, so the subtraction is    *)
(* modulo TickRange: a completion before the arrival would not be negative *)
(* but huge.                                                               *)
Turnaround(r) == (r.finish - r.arrival) % TickRange
WaitingTime(r) == IF Turnaround(r) > r.burst THEN Turnaround(r) - r.burst ELSE 0
ResponseTime(r) == IF r.start # None THEN (r.start - r.arrival) % TickRange ELSE 0

=============================================================================
