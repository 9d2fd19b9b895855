---------------------------- MODULE MCComponents -----------------------------
(***************************************************************************)
(* Small instances for TLC of the components that share no variable with   *)
(* the core model or with each other: Init chooses one, which runs alone,  *)
(* the others stay in an initial state of theirs.  In that state no fair   *)
(* action of theirs is enabled.                                            *)
(***************************************************************************)
EXTENDS ReadyQueueApi, ClockEvents, SjfScheduler, Statistics, Telemetry, Generator

CONSTANTS p1, p2, p3

VARIABLE component  \* the one that runs

queueAlone == <<clockVars, sjfVars, statVars, telemetryVars, loaderVars>>
clockAlone == <<queueVars, sjfVars, statVars, telemetryVars, loaderVars>>
sjfAlone == <<queueVars, clockVars, statVars, telemetryVars, loaderVars>>
statAlone == <<queueVars, clockVars, sjfVars, telemetryVars, loaderVars>>
telemetryAlone == <<queueVars, clockVars, sjfVars, statVars, loaderVars>>
loaderAlone == <<queueVars, clockVars, sjfVars, statVars, telemetryVars>>
-----------------------------------------------------------------------------
(* ReadyQueue: p1 is longer than p2 and as urgent, p3 comes after both. *)
Process(arrival, remaining, priority) ==
  [NewProcess(0, remaining, priority) EXCEPT !.arrival = arrival]
KeyTable == [p \in PID |-> CASE p = p1 -> Process(0, 2, 0)
                             [] p = p2 -> Process(1, 1, 0)
                             [] OTHER  -> Process(1, 1, 1)]

(* SJF: a burst that is longer than all, equal ones, a burst of no tick. *)
ThreeWorkloads ==
  {[p \in PID |-> CASE p = p1 -> b[1] [] p = p2 -> b[2] [] OTHER -> b[3]] :
     b \in {<<3, 2, 1>>, <<2, 2, 0>>, <<2, 1, 1>>}}

(* Workload: draws below the minimum, above the maximum and below zero.  *)
Draw(g, b) == [gap |-> g, burst |-> b]
TwoProfiles ==
  [mixed |-> [total |-> 2, burstMin |-> 1, burstMax |-> 3,
              draws |-> <<Draw(0, 2), Draw(0, -1), Draw(2, 5), Draw(1, 1)>>],
   batch |-> [total |-> 1, burstMin |-> 2, burstMax |-> 4,
              draws |-> <<Draw(2, 0), Draw(0, 9), Draw(0, 3), Draw(1, 1)>>]]

Line(k) == [kind |-> k]
Row(k, pid, arrival, burst) == [kind |-> k, desc |-> Descriptor(pid, arrival, burst)]
FiveFiles ==
  [plain   |-> <<Row("row", 1, 3, 1), Row("row", 2, 1, 2), Row("row", 1, 1, 0)>>,
   headed  |-> <<Line("comment"), Line("text"), Row("signed", 1, 2, 1), Line("broken"),
                 Row("row", 2, 0, 1)>>,
   signed  |-> <<Row("signed", 1, 0, 2), Row("row", 2, 0, 1)>>,
   empty   |-> <<Line("comment")>>,
   missing |-> Unreadable]

Option(name, value) == [name |-> name, value |-> value]
SomeOptions == {Option("workload", "batch"), [name |-> "other"]}
               \cup {Option("count", n) : n \in {0, 2, 3}}
               \cup {Option("csv", f) : f \in DOMAIN FiveFiles}
TwoOptions == {<<>>, <<[name |-> "malformed"]>>} \cup {<<o>> : o \in SomeOptions}
              \cup {<<o, q>> : o, q \in SomeOptions}
-----------------------------------------------------------------------------
ComponentsInit ==
  /\ component \in {"queue", "clock", "sjf", "statistics", "telemetry", "loader"}
  /\ QueueInit /\ ClockInit /\ SjfInit /\ StatInit /\ TelemetryInit /\ GeneratorInit
  /\ component # "queue" => order = "FIFO"
  /\ component # "sjf" => /\ mode = "SRTF"
                          /\ \A p \in PID : sjfPcb[p].burst = KeyTable[p].remaining
  /\ component # "loader" => /\ argv = <<>> /\ genMode = "STATIC"
                             /\ \A n \in CastOfNegative : cast <= n

ComponentsNext ==
  /\ UNCHANGED component
  /\ \/ component = "queue" /\ QueueNext /\ UNCHANGED queueAlone
     \/ component = "clock" /\ ClockNext /\ UNCHANGED clockAlone
     \/ component = "sjf" /\ SjfNext /\ UNCHANGED sjfAlone
     \/ component = "statistics" /\ StatNext /\ UNCHANGED statAlone
     \/ component = "telemetry" /\ TelemetryNext /\ UNCHANGED telemetryAlone
     \/ component = "loader" /\ GeneratorNext /\ UNCHANGED loaderAlone

ComponentsSpec ==
  /\ ComponentsInit /\ [][ComponentsNext]_<<component, queueVars, queueAlone>>
  /\ QueueFairness /\ GeneratorFairness
=============================================================================
