---------------------------- MODULE MCPolicyEngine ----------------------------
(* An instance of PolicyEngine for TLC: a few values of each metric, next  *)
(* to the thresholds that decide a class or a score.                       *)
EXTENDS PolicyEngine

ThresholdValues ==
  [burst |-> {0, 13, 21}, wait |-> {0, 21}, response |-> {0, 10, 16},
   util |-> {0, 90}, switches |-> {0, 5, 60}, throughput |-> {0, 5},
   starvation |-> {0, 8, 12, 16}, interactive |-> {0, 25, 35, 50, 90},
   depth |-> {0, 6, 9}, level0 |-> {0, 60}]
===============================================================================
