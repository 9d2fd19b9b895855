---------------------------- MODULE PolicyEngine -----------------------------
(***************************************************************************)
(* Steps 2 to 4 of AdaptiveScheduler::evaluate_and_adapt: classify the     *)
(* workload, score the policies, select one with hysteresis.               *)
(*                                                                         *)
(* A metric is an integer in the unit its thresholds are written in: ticks *)
(* for burst, wait and response, processes for depth, hundredths for the   *)
(* fractions and rates.  Confidences are hundredths, classification scores *)
(* tenths.  The program adds doubles, so a comparison of two sums that are *)
(* equal may come out either way: RoundedTies and the margin of exactly    *)
(* CONFIDENCE_HYSTERESIS are nondeterministic.                             *)
(***************************************************************************)
EXTENDS Integers

CONSTANT Values  \* the values each metric may take

Metric == {"burst", "wait", "response", "util", "switches", "throughput",
           "starvation", "interactive", "depth", "level0"}

ASSUME ValuesAssumption == /\ Values \in [Metric -> SUBSET Nat]
                           /\ \A f \in Metric : 0 \in Values[f]

VARIABLES metrics,  \* WorkloadMetrics, the moving averages
          rising,   \* is_trending_up of the starvation pressure
          active    \* active_policy()

vars == <<metrics, rising, active>>

Policy == {"FCFS", "ROUND_ROBIN", "PRIORITY", "MLFQ"}
CONFIDENCE_HYSTERESIS == 15

(* The sum of the bonuses (or minus the penalties) whose condition holds *)
Points(condition, n) == IF condition THEN n ELSE 0
-----------------------------------------------------------------------------
(* classify_workload *)
CpuScore(m) == Points(m.burst > 12, 4) + Points(m.util > 85, 3)
             + Points(m.switches < 10, 2) + Points(m.depth > 5, 1)
InteractiveScore(m) == Points(m.interactive > 40, 5) + Points(m.response < 5, 3)
                     + Points(m.level0 > 50, 2)
BatchScore(m) == Points(m.burst > 20, 5) + Points(m.throughput < 5, 3)
               + Points(m.switches < 5, 2)

(* Sums that the program may compute in two ways with different rounding. *)
RoundedTies == {3, 7, 8, 10}
MayExceed(a, b) == a > b \/ (a = b /\ a \in RoundedTies)
MayNotExceed(a, b) == a < b \/ a = b

ClassUnoverridden(m) ==  \* mutant: starvation does not override the class
  LET cpu == CpuScore(m)  int == InteractiveScore(m)  batch == BatchScore(m)
      cpuWins == MayExceed(cpu, int) /\ MayExceed(cpu, batch)
      intWins == MayExceed(int, cpu) /\ MayExceed(int, batch)
      noneWins == /\ MayNotExceed(cpu, int) \/ MayNotExceed(cpu, batch)
                  /\ MayNotExceed(int, cpu) \/ MayNotExceed(int, batch)
  IN {c \in {"STRESS", "CPU_BOUND"} : cpuWins /\ (c = "STRESS" <=> m.util > 85)}
     \cup {c \in {"INTERACTIVE"} : intWins}
     \cup {c \in {"BATCH", "MIXED"} : noneWins /\ (c = "BATCH" <=> batch > 6)}
Classes(m) ==
  LET cpu == CpuScore(m)  int == InteractiveScore(m)  batch == BatchScore(m)
      cpuWins == MayExceed(cpu, int) /\ MayExceed(cpu, batch)
      intWins == MayExceed(int, cpu) /\ MayExceed(int, batch)
      noneWins == /\ MayNotExceed(cpu, int) \/ MayNotExceed(cpu, batch)
                  /\ MayNotExceed(int, cpu) \/ MayNotExceed(int, batch)
      starved == m.starvation > 15
  IN {c \in {"STRESS", "CPU_BOUND"} :
        ~starved /\ cpuWins /\ (c = "STRESS" <=> m.util > 85)}
     \cup {c \in {"INTERACTIVE"} : ~starved /\ intWins}
     \cup {c \in {"BATCH", "MIXED"} :
             IF starved THEN c = "MIXED" ELSE noneWins /\ (c = "BATCH" <=> batch > 6)}
-----------------------------------------------------------------------------
(* score_policies, before the terms for the policy that is active *)
FcfsForgivingStarvation(m, c) ==  \* mutant: starvation is no reason against FCFS
    Points(c = "BATCH", 60) + Points(c = "CPU_BOUND", 40)
  - Points(m.interactive > 30, 30)
  - Points(m.depth > 8 /\ m.burst > 10, 20)
FcfsBase(m, c) ==
    Points(c = "BATCH", 60) + Points(c = "CPU_BOUND", 40)
  - Points(m.starvation > 10, 40) - Points(m.interactive > 30, 30)
  - Points(m.depth > 8 /\ m.burst > 10, 20)
RrBase(m, c) ==
    Points(c = "INTERACTIVE", 55) + Points(m.response > 15, 25)
  + Points(m.interactive > 40, 20)
  - Points(c = "CPU_BOUND", 35) - Points(c = "BATCH", 30)
PriorityBase(m, trend, c) ==
    Points(m.starvation > 10, 45) + Points(c = "MIXED", 20)
  + Points(m.wait > 20, 15) + Points(m.depth > 4, 10) + Points(trend, 20)
  - Points(c = "STRESS", 15)
MlfqBase(m, c) ==
    15 + Points(c = "MIXED", 40) + Points(c = "INTERACTIVE", 30)
  + Points(m.starvation > 5, 15)
  + Points(m.interactive > 20 /\ m.interactive < 80, 10)
  - Points(c = "BATCH", 20) - Points(c = "CPU_BOUND", 10)

Base(m, trend, c, p) == CASE p = "FCFS"        -> FcfsBase(m, c)
                          [] p = "ROUND_ROBIN" -> RrBase(m, c)
                          [] p = "PRIORITY"    -> PriorityBase(m, trend, c)
                          [] p = "MLFQ"        -> MlfqBase(m, c)

(* The stability bonus, and RR's penalty for too many switches. *)
Incumbent(m, p) == 5 - Points(p = "ROUND_ROBIN" /\ m.switches > 50, 15)

Clamp(n) == IF n < 0 THEN 0 ELSE IF n > 100 THEN 100 ELSE n
Score(m, trend, c, p, current) ==
  Clamp(Base(m, trend, c, p) + IF p = current THEN Incumbent(m, p) ELSE 0)
-----------------------------------------------------------------------------
(* select_policy and, when it returns a policy, migrate_to: what may be    *)
(* active afterwards.  The order std::sort leaves equals in is open.       *)
Best(m, trend, c, current) ==
  {p \in Policy : \A q \in Policy :
     Score(m, trend, c, q, current) <= Score(m, trend, c, p, current)}
Margin(m, trend, c, p, current) ==
  Score(m, trend, c, p, current) - Score(m, trend, c, current, current)
SelectedWithoutMargin(m, trend, c, current) ==  \* mutant: any better score will do
  LET best == Best(m, trend, c, current)
  IN {p \in best : Margin(m, trend, c, p, current) > 0}
     \cup {p \in {current} : current \in best}
Selected(m, trend, c, current) ==
  LET best == Best(m, trend, c, current)
  IN {p \in best : Margin(m, trend, c, p, current) >= CONFIDENCE_HYSTERESIS}
     \cup {p \in {current} :
             \E q \in best : Margin(m, trend, c, q, current) <= CONFIDENCE_HYSTERESIS}
-----------------------------------------------------------------------------
TypeOK == /\ metrics \in [Metric -> Nat]
          /\ rising \in BOOLEAN
          /\ active \in Policy

(* The averages start at zero. *)
Init == /\ metrics = [f \in Metric |-> 0]
        /\ rising = FALSE
        /\ active = "MLFQ"

(* Another evaluation window: any of the averages may have moved. *)
Drift(f) ==
  /\ \E n \in Values[f] : metrics' = [metrics EXCEPT ![f] = n]
  /\ UNCHANGED <<rising, active>>
Trend == rising' = ~rising /\ UNCHANGED <<metrics, active>>

Evaluate ==
  /\ \E c \in Classes(metrics) : active' \in Selected(metrics, rising, c, active)
  /\ UNCHANGED <<metrics, rising>>

Next == (\E f \in Metric : Drift(f)) \/ Trend \/ Evaluate
Spec == Init /\ [][Next]_vars
-----------------------------------------------------------------------------
(* README.md:143 "prevents oscillation and thrashing": while the workload  *)
(* stays as it is, a switch is followed by no other, although the policy   *)
(* it leaves loses a bonus and the policy it chooses may gain RR's penalty.*)
NoOscillation ==
  \A c \in Classes(metrics) :
    \A p \in Selected(metrics, rising, c, active) :
      p # active => Selected(metrics, rising, c, p) = {p}

(* adaptive.cpp:344 "Starvation overrides classification - needs anti-     *)
(* starvation scheduler": whatever else the metrics say and whoever is     *)
(* active, an evaluation that sees starvation ends with PRIORITY, which    *)
(* ages, or MLFQ, which boosts.                                            *)
StarvationIsAnswered ==
  metrics.starvation > 15 =>
    \A c \in Classes(metrics) :
      Selected(metrics, rising, c, active) \subseteq {"PRIORITY", "MLFQ"}

(* A workload with some starvation is never handed to FCFS, not even when  *)
(* it is classified as batch work, the class FCFS scores best with.        *)
StarvationRulesOutFCFS ==
  [][active' = "FCFS" /\ active # "FCFS" => metrics.starvation <= 10]_vars
=============================================================================
