------------------------- MODULE SchedulerContract --------------------------
(***************************************************************************)
(* What IScheduler and CPUEngine promise together, whatever the policy:    *)
(* one CPU, a set of waiting processes, and every process executed for its *)
(* burst.  A preemption puts the running process back among the waiting;   *)
(* there is no step for a policy switch, an aging pass or a priority boost *)
(* because none of them may be visible here.                               *)
(***************************************************************************)
EXTENDS Naturals

CONSTANTS Process, NoProcess

VARIABLES pending,  \* not submitted yet
          waiting,  \* submitted, not on the CPU
          running,  \* the process on the CPU, or NoProcess
          left,     \* ticks each process still has to execute
          done      \* completed

contractVars == <<pending, waiting, running, left, done>>

ContractInit ==
  /\ pending = Process
  /\ waiting = {} /\ done = {} /\ running = NoProcess
  /\ left \in [Process -> Nat]

(* add_process *)
Submit(p) ==
  /\ p \in pending
  /\ pending' = pending \ {p}
  /\ waiting' = waiting \cup {p}
  /\ UNCHANGED <<running, left, done>>

(* get_next_process *)
Start(p) ==
  /\ running = NoProcess
  /\ p \in waiting
  /\ running' = p
  /\ waiting' = waiting \ {p}
  /\ UNCHANGED <<pending, left, done>>

(* handle_preemption: the running process goes back *)
Yield ==
  /\ running # NoProcess
  /\ waiting' = waiting \cup {running}
  /\ running' = NoProcess
  /\ UNCHANGED <<pending, left, done>>

(* execute_tick; a process of burst 0 completes in its first tick *)
Remaining(p) == IF left[p] > 0 THEN left[p] - 1 ELSE 0
Run(Outcome) ==
  /\ running # NoProcess
  /\ left' = [left EXCEPT ![running] = Remaining(running)]
  /\ UNCHANGED pending
  /\ Outcome
GoOn   == Remaining(running) > 0 /\ UNCHANGED <<waiting, running, done>>
Expire == /\ Remaining(running) > 0
          /\ waiting' = waiting \cup {running}
          /\ running' = NoProcess
          /\ UNCHANGED done
Finish == /\ Remaining(running) = 0
          /\ done' = done \cup {running}
          /\ running' = NoProcess
          /\ UNCHANGED waiting

ContractNext ==
  \/ \E p \in Process : Submit(p) \/ Start(p)
  \/ Yield
  \/ Run(GoOn) \/ Run(Expire) \/ Run(Finish)

ContractSpec == ContractInit /\ [][ContractNext]_contractVars
=============================================================================
