---------------------------- MODULE SjfScheduler ----------------------------
(***************************************************************************)
(* SJFScheduler in its two modes under CPUEngine::run and a generator.     *)
(* No configuration of the program creates one; the CPU loop names it      *)
(* ("SRTF / Priority modes compare current vs front-of-queue", cpu.cpp:    *)
(* 131) and the interface is the children's.  One difference: a preemption *)
(* by handle_preemption does not queue the running process again, and the  *)
(* CPU loop lets go of it.                                                 *)
(***************************************************************************)
EXTENDS ReadyOrder

CONSTANTS SjfBursts,       \* the workloads: bursts of the processes
          STARVATION_PASS, \* ticks between two passes of check_starvation
          LAST_SUBMISSION, \* bound: no process is submitted later
          SJF_LAST_TICK    \* bound: the clock stops here

ASSUME SjfAssumption == /\ SjfBursts \subseteq [PID -> Nat]
                        /\ STARVATION_PASS \in Nat \ {0}
                        /\ LAST_SUBMISSION \in Nat /\ SJF_LAST_TICK \in Nat

VARIABLES mode,      \* mode_
          sjfQueue,  \* queue_, ordered by remaining_time
          sjfPcb,    \* the process table
          onCpu,     \* CPUEngine::current_proc_
          front,     \* front of the snapshot, the CPU thread's local
          sjfStep,   \* what the CPU thread does next
          sjfTick,   \* the clock
          preempted, \* SchedulerStats::preemptions
          together   \* whether all submissions came before the first dispatch

sjfVars == <<mode, sjfQueue, sjfPcb, onCpu, front, sjfStep, sjfTick, preempted, together>>

SjfInit ==
  /\ mode \in {"NON_PREEMPTIVE", "SRTF"}
  /\ \E bursts \in SjfBursts :
       sjfPcb = [p \in PID |-> NewProcess(0, bursts[p], 0)]
  /\ sjfQueue = <<>> /\ onCpu = None /\ front = None
  /\ sjfStep = "fetch" /\ sjfTick = 0 /\ preempted = 0 /\ together = TRUE

SjfTypeOK ==
  /\ mode \in {"NON_PREEMPTIVE", "SRTF"}
  /\ sjfQueue \in Seq(PID) /\ sjfPcb \in [PID -> PCB]
  /\ onCpu \in PID \cup {None} /\ front \in PID \cup {None}
  /\ sjfStep \in {"fetch", "snapshot", "preempt", "exec", "ontick", "tick"}
  /\ sjfTick \in Nat /\ preempted \in Nat /\ together \in BOOLEAN
-----------------------------------------------------------------------------
(* Generator thread: add_process *)
PushedAtEnd(p, pcb) == Append(sjfQueue, p)  \* mutant: FIFO
Pushed(p, pcb) == InsertAll(sjfQueue, <<p>>, ShorterLess(pcb))
SjfAdd(p) ==
  /\ sjfPcb[p].state = "NEW" /\ sjfTick <= LAST_SUBMISSION
  /\ LET pcb == [sjfPcb EXCEPT ![p].state = "READY", ![p].arrival = sjfTick]
     IN sjfPcb' = pcb /\ sjfQueue' = Pushed(p, pcb)
  /\ together' = (together /\ \A q \in PID : sjfPcb[q].start = None)
  /\ UNCHANGED <<mode, onCpu, front, sjfStep, sjfTick, preempted>>

(* drain_queue and import_queue, by whoever takes the processes and brings *)
(* them back                                                               *)
SjfReimport ==
  /\ sjfQueue' = InsertAll(<<>>, sjfQueue, ShorterLess(sjfPcb))
  /\ UNCHANGED <<mode, sjfPcb, onCpu, front, sjfStep, sjfTick, preempted, together>>
-----------------------------------------------------------------------------
(* CPU thread: get_next_process *)
SjfDispatch ==
  /\ sjfStep = "fetch" /\ sjfQueue # <<>>
  /\ onCpu' = Head(sjfQueue) /\ sjfQueue' = Tail(sjfQueue)
  /\ LET row == sjfPcb[Head(sjfQueue)]
     IN sjfPcb' = [sjfPcb EXCEPT ![Head(sjfQueue)] =
          [row EXCEPT !.state = "RUNNING", !.quantum = row.remaining,
                      !.start = IF @ = None THEN sjfTick ELSE @]]
  /\ sjfStep' = "snapshot"
  /\ UNCHANGED <<mode, front, sjfTick, preempted, together>>
SjfIdle ==
  /\ sjfStep = "fetch" /\ sjfQueue = <<>>
  /\ sjfStep' = "ontick"
  /\ UNCHANGED <<mode, sjfQueue, sjfPcb, onCpu, front, sjfTick, preempted, together>>

SjfSnapshot ==
  /\ sjfStep = "snapshot"
  /\ IF sjfQueue = <<>> THEN sjfStep' = "exec" /\ UNCHANGED front
                        ELSE sjfStep' = "preempt" /\ front' = Head(sjfQueue)
  /\ UNCHANGED <<mode, sjfQueue, sjfPcb, onCpu, sjfTick, preempted, together>>

(* handle_preemption(next, front) *)
Shorter(p, q) == sjfPcb[p].remaining < sjfPcb[q].remaining
PreemptsInBothModes(running, incoming) == Shorter(incoming, running)  \* mutant
SjfPreempts(running, incoming) == mode = "SRTF" /\ Shorter(incoming, running)
SjfPreempt ==
  /\ sjfStep = "preempt"
  /\ IF SjfPreempts(onCpu, front)
     THEN onCpu' = None /\ preempted' = preempted + 1 /\ sjfStep' = "ontick"
     ELSE sjfStep' = "exec" /\ UNCHANGED <<onCpu, preempted>>
  /\ front' = None
  /\ UNCHANGED <<mode, sjfQueue, sjfPcb, sjfTick, together>>

(* execute_tick and on_process_complete.  quantum_remaining starts as the  *)
(* remaining time, so that a process completes before its quantum expires. *)
SjfExecute ==
  /\ sjfStep = "exec"
  /\ LET Dec1(n) == IF n > 0 THEN n - 1 ELSE 0
         row == [sjfPcb[onCpu] EXCEPT !.remaining = Dec1(@), !.quantum = Dec1(@)]
     IN IF row.remaining > 0
        THEN sjfPcb' = [sjfPcb EXCEPT ![onCpu] = row] /\ UNCHANGED onCpu
        ELSE /\ sjfPcb' = [sjfPcb EXCEPT ![onCpu] =
                  [row EXCEPT !.state = "TERMINATED", !.finish = sjfTick]]
             /\ onCpu' = None
  /\ sjfStep' = "ontick"
  /\ UNCHANGED <<mode, sjfQueue, front, sjfTick, preempted, together>>

(* on_tick with check_starvation; the counter is never reset *)
SjfOnTick ==
  /\ sjfStep = "ontick"
  /\ sjfPcb' = [p \in PID |->
       IF sjfTick % STARVATION_PASS = 0 /\ p \in Range(sjfQueue)
       THEN [sjfPcb[p] EXCEPT !.starved = @ + 1] ELSE sjfPcb[p]]
  /\ sjfStep' = "tick"
  /\ UNCHANGED <<mode, sjfQueue, onCpu, front, sjfTick, preempted, together>>
SjfAdvance ==
  /\ sjfStep = "tick" /\ sjfTick < SJF_LAST_TICK
  /\ sjfTick' = sjfTick + 1
  /\ sjfStep' = IF onCpu = None THEN "fetch" ELSE "exec"
  /\ UNCHANGED <<mode, sjfQueue, sjfPcb, onCpu, front, preempted, together>>

SjfNext == \/ \E p \in PID : SjfAdd(p)
           \/ SjfReimport \/ SjfDispatch \/ SjfIdle \/ SjfSnapshot \/ SjfPreempt
           \/ SjfExecute \/ SjfOnTick \/ SjfAdvance

SjfSpec == SjfInit /\ [][SjfNext]_sjfVars
-----------------------------------------------------------------------------
(* Nothing gets lost but what SRTF preempts: a process that was submitted  *)
(* is queued once, on the CPU or completed, except for one process per     *)
(* preemption.  In the non-preemptive mode there is none.                  *)
Missing == {p \in PID : /\ sjfPcb[p].state \notin {"NEW", "TERMINATED"}
                        /\ p \notin Range(sjfQueue) \cup {onCpu}}
OnlyPreemptedAreMissing ==
  /\ IsInjective(sjfQueue) /\ onCpu \notin Range(sjfQueue)
  /\ Cardinality(Missing) = preempted
  /\ mode = "NON_PREEMPTIVE" => Missing = {}

(* README.md:80 "selects the process with the shortest original burst at   *)
(* each dispatch point": also after drain and import, and although the     *)
(* queue is ordered by what remains.                                       *)
ShortestFirst ==
  [][onCpu = None /\ onCpu' # None =>
       \A p \in Range(sjfQueue) : sjfPcb[onCpu'].burst <= sjfPcb[p].burst]_sjfVars

(* README.md:81 "Optimal for minimising average waiting time": of          *)
(* processes that are all there at the first dispatch, no order of         *)
(* execution has a smaller sum of completion times.                        *)
Ticks(p) == IF sjfPcb[p].burst = 0 THEN 1 ELSE sjfPcb[p].burst
FinishSum(place, from) ==  \* place: when which process has its turn
  SumFunction([p \in PID |->
    from - 1 + SumFunction([q \in PID |-> IF place[q] <= place[p] THEN Ticks(q) ELSE 0])])
BatchIsOptimal ==
  together /\ (\A p \in PID : sjfPcb[p].finish # None) =>
    \A begin \in {sjfPcb[p].start : p \in PID} :
      (\A p \in PID : begin <= sjfPcb[p].start) =>
        \A place \in Bijection(PID, 1 .. Cardinality(PID)) :
          SumFunction([p \in PID |-> sjfPcb[p].finish]) <= FinishSum(place, begin)
=============================================================================
