--------------------------- MODULE AdaptiveClaims ---------------------------
(***************************************************************************)
(* What the README and the comments say of a running simulation and the    *)
(* code does not do.  Each definition states the sentence it quotes; the   *)
(* run named in PROJECT.json "findings" shows a behaviour without it.      *)
(***************************************************************************)
EXTENDS AdaptiveSim

(* p was submitted in an earlier tick than the present one (AdvanceClock   *)
(* waits for no process longer than MAX_LAG ticks).                        *)
WaitsSinceEarlierTick(p) ==
  pcb[p].state = "READY" /\ clock > pcb[p].arrival + MAX_LAG
ExecutesTick == cpu = "exec" /\ cpu' # "exec"

(* README.md:87 "When a higher-priority process arrives, the running       *)
(* process is immediately preempted": if a more urgent process arrived     *)
(* under PRIORITY in an earlier tick, this tick is the running process's   *)
(* last.                                                                   *)
PriorityArrivalPreempts ==
  [][(/\ ExecutesTick
      /\ active = "PRIORITY"
      /\ lastSwitch # None
      /\ \E p \in PID : /\ WaitsSinceEarlierTick(p)
                        /\ pcb[p].arrival > lastSwitch
                        /\ pcb[p].priority < pcb[current].priority)
     => current' = None]_vars

(* README.md:441 "scheduled_by records which policy was active when each   *)
(* process completed": the child that took it into its completed_ list.    *)
ScheduledByWhoeverCompletedIt ==
  \A p \in PID : scheduledBy[p] # None => p \in completed[scheduledBy[p]]
=============================================================================
