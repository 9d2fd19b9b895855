---------------------------- MODULE MetricsProofs ----------------------------
(***************************************************************************)
(* What is counted and what is decided from it: the windows of Telemetry   *)
(* for every cooldown and every length of a run, the readings and the      *)
(* switch log of Statistics for any number of completions, switches and    *)
(* runs, and the selection of PolicyEngine for every value of the metrics. *)
(***************************************************************************)
EXTENDS Telemetry, Statistics, PolicyEngine, ReadyOrderProofs

(* Telemetry.  The invariant Windows says what the accumulators owe to the *)
(* CPU thread's step and to the copy the monitor has taken.                *)
Accumulated == /\ accum["busy"] <= accum["total"]
               /\ accum["switches"] + accum["completions"]
                    <= accum["total"] + IF step = "record" THEN 1 ELSE 0
Sampled == /\ window["busy"] <= window["total"]
           /\ window["switches"] + window["completions"] <= window["total"] + 1
(* Completions that are in accum_ and in no copy of it. *)
Fresh == IF monitor = "sample" THEN accum["completions"]
         ELSE accum["completions"] - window["completions"]
Copied == /\ monitor # "sample" => window["completions"] <= accum["completions"]
          /\ sampled + Fresh <= recorded
Windows == TelemetryTypeOK /\ Accumulated /\ Sampled /\ Copied

(* A counter is a natural number. *)
LEMMA CounterValues ==
  ASSUME NEW counts \in [Counter -> Nat]
  PROVE  /\ counts["busy"] \in Nat /\ counts["total"] \in Nat
         /\ counts["completions"] \in Nat /\ counts["switches"] \in Nat
BY DEF Counter

(* Counting one preemption, one completion. *)
LEMMA SwitchCounted ==
  ASSUME NEW counts \in [Counter -> Nat], NEW new, new = AddTo(counts, "switches", 1)
  PROVE  /\ new \in [Counter -> Nat]
         /\ new["switches"] = counts["switches"] + 1
         /\ new["completions"] = counts["completions"]
         /\ new["busy"] = counts["busy"] /\ new["total"] = counts["total"]
BY DEF AddTo, Counter
LEMMA CompletionCounted ==
  ASSUME NEW counts \in [Counter -> Nat], NEW new, new = AddTo(counts, "completions", 1)
  PROVE  /\ new \in [Counter -> Nat]
         /\ new["completions"] = counts["completions"] + 1
         /\ new["switches"] = counts["switches"]
         /\ new["busy"] = counts["busy"] /\ new["total"] = counts["total"]
BY DEF AddTo, Counter

(* Counting one tick, busy or not. *)
LEMMA CountTick ==
  ASSUME NEW counts \in [Counter -> Nat], NEW b \in {0, 1},
         NEW new, new = AddTo(AddTo(counts, "total", 1), "busy", b)
  PROVE  /\ new \in [Counter -> Nat]
         /\ new["total"] = counts["total"] + 1
         /\ new["busy"] = counts["busy"] + b
         /\ new["switches"] = counts["switches"]
         /\ new["completions"] = counts["completions"]
<1>1. b \in Nat
  OBVIOUS
<1>2. PICK mid : mid = AddTo(counts, "total", 1)
  OBVIOUS
<1>3. /\ mid \in [Counter -> Nat] /\ mid["total"] = counts["total"] + 1
      /\ mid["busy"] = counts["busy"] /\ mid["switches"] = counts["switches"]
      /\ mid["completions"] = counts["completions"]
  BY <1>2 DEF AddTo, Counter
<1>4. new = AddTo(mid, "busy", b)
  BY <1>2
<1>5. /\ new \in [Counter -> Nat] /\ new["busy"] = mid["busy"] + b
      /\ new["total"] = mid["total"] /\ new["switches"] = mid["switches"]
      /\ new["completions"] = mid["completions"]
  BY <1>1, <1>3, <1>4 DEF AddTo, Counter
<1> QED
  BY <1>3, <1>5

(* The windows hold initially. *)
LEMMA WindowsInit == TelemetryInit => Windows
<1> SUFFICES ASSUME TelemetryInit PROVE Windows
  OBVIOUS
<1>1. /\ Zero \in [Counter -> Nat]
      /\ Zero["busy"] = 0 /\ Zero["total"] = 0
      /\ Zero["completions"] = 0 /\ Zero["switches"] = 0
  BY DEF Zero, Counter
<1>2. TelemetryTypeOK
  <2>1. executed \in BOOLEAN /\ wasBusy \in BOOLEAN
    BY Zenon DEF TelemetryInit
  <2>2. /\ {clock, workTicks, cpuBusy, cpuTotal, recorded, sampled, cooldown} \subseteq Nat
        /\ accum \in [Counter -> Nat] /\ window \in [Counter -> Nat]
        /\ step = "run" /\ monitor = "sample"
    BY <1>1, SMT DEF TelemetryInit
  <2> QED
    BY <2>1, <2>2 DEF TelemetryTypeOK
<1>3. Accumulated /\ Sampled /\ Copied
  BY <1>1 DEF TelemetryInit, Accumulated, Sampled, Copied, Fresh
<1> QED
  BY <1>2, <1>3 DEF Windows

(* What every outcome of a tick does to the types. *)
LEMMA OutcomeTypes ==
  ASSUME TelemetryTypeOK, NEW ran \in BOOLEAN, NEW busy \in BOOLEAN, Outcome(ran, busy),
         accum' \in [Counter -> Nat], recorded' \in Nat
  PROVE  TelemetryTypeOK'
<1>1. executed' \in BOOLEAN /\ wasBusy' \in BOOLEAN
  BY Zenon DEF Outcome
<1>2. workTicks' \in Nat
  BY SMT DEF Outcome, TelemetryTypeOK
<1> QED
  BY <1>1, <1>2 DEF Outcome, TelemetryTypeOK, monitorVars

(* Every step of the two threads keeps them. *)
LEMMA WindowsStep == Windows /\ [TelemetryNext]_telemetryVars => Windows'
<1> SUFFICES ASSUME Windows, [TelemetryNext]_telemetryVars PROVE Windows'
  OBVIOUS
<1>t. /\ TelemetryTypeOK /\ accum \in [Counter -> Nat] /\ window \in [Counter -> Nat]
      /\ sampled \in Nat /\ recorded \in Nat
  BY DEF Windows, TelemetryTypeOK
<1>v. /\ accum["busy"] \in Nat /\ accum["total"] \in Nat
      /\ accum["completions"] \in Nat /\ accum["switches"] \in Nat
      /\ window["busy"] \in Nat /\ window["total"] \in Nat
      /\ window["completions"] \in Nat /\ window["switches"] \in Nat
  BY <1>t, CounterValues
<1> USE DEF Windows
<1>1. CASE NothingReady \/ Continues
  <2>1. UNCHANGED <<accum, recorded>> /\ (Outcome(FALSE, FALSE) \/ Outcome(TRUE, TRUE))
    BY <1>1 DEF NothingReady, Continues
  <2>t. TelemetryTypeOK'
    BY <2>1, <1>t, OutcomeTypes, Zenon
  <2>a. Accumulated'
    BY <2>1, <1>t, <1>v DEF Outcome, Accumulated, TelemetryTypeOK
  <2>s. Sampled' /\ Copied'
    BY <2>1, <1>t, <1>v DEF Outcome, Sampled, Copied, Fresh, monitorVars
  <2> QED
    BY <2>t, <2>a, <2>s
<1>2. CASE PreemptedAtDispatch \/ QuantumExpires
  <2>1. /\ accum' \in [Counter -> Nat]
        /\ accum'["switches"] = accum["switches"] + 1
        /\ accum'["completions"] = accum["completions"]
        /\ accum'["busy"] = accum["busy"] /\ accum'["total"] = accum["total"]
    BY <1>2, <1>t, SwitchCounted DEF PreemptedAtDispatch, QuantumExpires
  <2>t. TelemetryTypeOK'
    <3>1. recorded' \in Nat
      BY <1>2, <1>t DEF PreemptedAtDispatch, QuantumExpires
    <3>2. Outcome(FALSE, FALSE) \/ Outcome(TRUE, TRUE)
      BY <1>2 DEF PreemptedAtDispatch, QuantumExpires
    <3> QED
      BY <3>1, <3>2, <2>1, <1>t, OutcomeTypes, Zenon
  <2>a. Accumulated'
    BY <1>2, <2>1, <1>t, <1>v DEF PreemptedAtDispatch, QuantumExpires, Outcome,
       Accumulated
  <2>s. Sampled' /\ Copied'
    BY <1>2, <2>1, <1>t, <1>v DEF PreemptedAtDispatch, QuantumExpires, Outcome,
       monitorVars, Sampled, Copied, Fresh
  <2> QED
    BY <2>t, <2>a, <2>s
<1>3. CASE Completes
  <2>1. /\ accum' \in [Counter -> Nat]
        /\ accum'["completions"] = accum["completions"] + 1
        /\ accum'["switches"] = accum["switches"]
        /\ accum'["busy"] = accum["busy"] /\ accum'["total"] = accum["total"]
    BY <1>3, <1>t, CompletionCounted DEF Completes
  <2>t. TelemetryTypeOK'
    <3>1. recorded' \in Nat
      BY <1>3, <1>t DEF Completes
    <3>2. Outcome(TRUE, FALSE)
      BY <1>3 DEF Completes
    <3> QED
      BY <3>1, <3>2, <2>1, <1>t, OutcomeTypes, Zenon
  <2>a. Accumulated'
    BY <1>3, <2>1, <1>t, <1>v DEF Completes, Outcome, monitorVars, TelemetryTypeOK, Accumulated
  <2>s. Sampled' /\ Copied'
    BY <1>3, <2>1, <1>t, <1>v DEF Completes, Outcome, monitorVars, Sampled, Copied, Fresh
  <2> QED
    BY <2>t, <2>a, <2>s
<1>4. CASE RecordCpuSample
  <2>1. PICK b \in {0, 1} : accum' = AddTo(AddTo(accum, "total", 1), "busy", b)
    BY <1>4 DEF RecordCpuSample
  <2>2. /\ accum' \in [Counter -> Nat]
        /\ accum'["total"] = accum["total"] + 1
        /\ accum'["busy"] = accum["busy"] + b
        /\ accum'["switches"] = accum["switches"]
        /\ accum'["completions"] = accum["completions"]
    BY <2>1, <1>t, CountTick
  <2>t. TelemetryTypeOK'
    BY <1>4, <2>2, <1>t, <1>v DEF RecordCpuSample, monitorVars, TelemetryTypeOK
  <2>a. Accumulated'
    BY <1>4, <2>2, <1>t, <1>v DEF RecordCpuSample, monitorVars, TelemetryTypeOK, Accumulated
  <2>s. Sampled' /\ Copied'
    BY <1>4, <2>2, <1>t, <1>v DEF RecordCpuSample, monitorVars, Sampled, Copied, Fresh
  <2> QED
    BY <2>t, <2>a, <2>s
<1>5. CASE AdvanceClock
  BY <1>5, <1>t, <1>v DEF AdvanceClock, TelemetryTypeOK, Accumulated, Sampled, Copied, Fresh, monitorVars
<1>6. CASE SampleMetrics
  BY <1>6, <1>t, <1>v DEF SampleMetrics, TelemetryTypeOK, Accumulated, Sampled, Copied, Fresh,
     cpuVars
<1>7. CASE Decide
  <2>1. cooldown' \in Nat
    BY <1>7, <1>t, TelemetryAssumption DEF Decide, TelemetryTypeOK
  <2> QED
    BY <1>7, <2>1, <1>t, <1>v DEF Decide, TelemetryTypeOK, Accumulated, Sampled, Copied, Fresh,
       cpuVars
<1>8. CASE ResetWindow
  <2>1. /\ accum' \in [Counter -> Nat]
        /\ accum'["total"] = 0 /\ accum'["busy"] = 0
        /\ accum'["switches"] = 0 /\ accum'["completions"] = 0
    BY <1>8 DEF ResetWindow, Zero, Counter
  <2> QED
    BY <1>8, <2>1, <1>t, <1>v DEF ResetWindow, TelemetryTypeOK, Accumulated, Sampled, Copied,
       Fresh, cpuVars
<1>9. CASE UNCHANGED telemetryVars
  BY <1>9, <1>t DEF telemetryVars, cpuVars, monitorVars, TelemetryTypeOK, Accumulated, Sampled, Copied, Fresh
<1> QED
  BY <1>1, <1>2, <1>3, <1>4, <1>5, <1>6, <1>7, <1>8, <1>9 DEF TelemetryNext, CpuNext, MonitorNext

LEMMA WindowsAlways == TelemetrySpec => []Windows
BY WindowsInit, WindowsStep, PTL DEF TelemetrySpec

(* Every reachable state is well typed. *)
THEOREM TelemetryTypeCorrect == TelemetrySpec => []TelemetryTypeOK
<1>1. Windows => TelemetryTypeOK
  BY DEF Windows
<1> QED
  BY <1>1, WindowsAlways, PTL

(* A window never has more busy ticks than ticks: the reset of accum_ in a *)
(* critical section of its own cannot separate the two counters.           *)
THEOREM UtilizationBounded == TelemetrySpec => []UtilizationIsFraction
<1>1. Windows => UtilizationIsFraction
  BY DEF Windows, Sampled, UtilizationIsFraction
<1> QED
  BY <1>1, WindowsAlways, PTL

(* No completion enters two windows, wherever the CPU thread runs between  *)
(* the sample and the reset.                                               *)
THEOREM NoDoubleCount == TelemetrySpec => []CompletionsCountedOnce
<1>1. Windows => CompletionsCountedOnce
  <2> SUFFICES ASSUME Windows PROVE sampled <= recorded
    BY DEF CompletionsCountedOnce
  <2>1. /\ sampled \in Nat /\ recorded \in Nat
        /\ accum \in [Counter -> Nat] /\ window \in [Counter -> Nat]
    BY DEF Windows, TelemetryTypeOK
  <2>2. accum["completions"] \in Nat /\ window["completions"] \in Nat
    BY <2>1, CounterValues
  <2> QED
    BY <2>1, <2>2 DEF Windows, Copied, Fresh
<1> QED
  BY <1>1, WindowsAlways, PTL

(* Preemptions and completions of a window fit its ticks. *)
THEOREM EventsBounded == TelemetrySpec => []EventsFitWindow
<1>1. Windows => EventsFitWindow
  BY DEF Windows, Sampled, EventsFitWindow
<1> QED
  BY <1>1, WindowsAlways, PTL
-----------------------------------------------------------------------------
(* StatisticsEngine.  The log of a run has one entry for every switch from *)
(* base on up to lastRecorded; the monitor has copied all of them when it  *)
(* is between two iterations of the first run.                             *)
LogTyped ==
  /\ run \in Nat \ {0} /\ base \in Nat /\ lastRecorded \in Nat
  /\ watch \in {"evaluate", "log"}
  /\ history \in Seq(Nat) /\ logged \in Seq(Nat)
Logged ==
  /\ Len(logged) = lastRecorded - base
  /\ \A i \in 1 .. Len(logged) : base + i <= Len(history) /\ logged[i] = history[base + i]
FirstRun ==
  run = 1 => base = 0 /\ (watch = "evaluate" => lastRecorded = Len(history))
LogInv == LogTyped /\ Logged /\ FirstRun

LEMMA LogInitInv == StatInit => LogInv
BY EmptySeq DEF StatInit, LogInv, LogTyped, Logged, FirstRun

(* A switch is put at the end of the history. *)
LEMMA EvaluateInv ==
  ASSUME LogInv, EvaluateAndAdapt
  PROVE  LogInv'
<1>1. /\ UNCHANGED <<run, base, logged, lastRecorded>> /\ watch' = "log"
      /\ history' = history \/ history' = Append(history, Len(history) + 1)
      /\ LogTyped /\ Len(history) \in Nat /\ Len(logged) \in Nat
  BY LenProperties DEF LogInv, LogTyped, EvaluateAndAdapt
<1>2. /\ history' \in Seq(Nat) /\ Len(history') \in Nat /\ Len(history) <= Len(history')
      /\ \A i \in 1 .. Len(history) : history'[i] = history[i]
  <2>1. history \in Seq(Nat) /\ Len(history) + 1 \in Nat
    BY <1>1 DEF LogTyped
  <2>2. CASE history' = history
    BY <1>1, <2>1, <2>2
  <2>3. CASE history' = Append(history, Len(history) + 1)
    <3> DEFINE longer == Append(history, Len(history) + 1)
    <3>1. /\ longer \in Seq(Nat) /\ Len(longer) = Len(history) + 1
          /\ \A i \in 1 .. Len(history) : longer[i] = history[i]
      BY <2>1, AppendProperties
    <3> HIDE DEF longer
    <3>2. history' = longer
      BY <2>3 DEF longer
    <3> QED
      BY <1>1, <3>1, <3>2
  <2> QED
    BY <1>1, <2>2, <2>3
<1>3. LogTyped' /\ FirstRun'
  BY <1>1, <1>2 DEF LogInv, LogTyped, FirstRun
<1>4. Logged'
  <2>1. ASSUME NEW i \in 1 .. Len(logged)
        PROVE  base + i <= Len(history') /\ logged[i] = history'[base + i]
    <3>1. base + i \in 1 .. Len(history) /\ logged[i] = history[base + i]
      BY <1>1 DEF LogInv, Logged, LogTyped
    <3> QED
      BY <1>1, <1>2, <3>1
  <2> QED
    BY <1>1, <2>1 DEF LogInv, Logged
<1> QED
  BY <1>3, <1>4 DEF LogInv

(* What the log has not is copied. *)
LEMMA SuffixFrom ==
  ASSUME NEW S, NEW h \in Seq(S), NEW m \in Nat, m <= Len(h)
  PROVE  LET rest == SubSeq(h, m + 1, Len(h))
         IN /\ rest \in Seq(S) /\ Len(rest) = Len(h) - m
            /\ \A j \in 1 .. Len(h) - m : rest[j] = h[m + j]
<1> DEFINE n == Len(h)
<1>1. n \in Nat
  BY LenProperties
<1> HIDE DEF n
<1>2. m + 1 \in 1 .. n + 1 /\ n \in m .. n /\ n - (m + 1) + 1 = n - m
  BY <1>1 DEF n
<1>3. \A j \in 1 .. n - m : (m + 1) + j - 1 = m + j
  BY <1>1
<1>4. \A i \in m + 1 .. n : h[i] \in S
  BY <1>1, ElementOfSeq DEF n
<1>5. /\ SubSeq(h, m + 1, n) \in Seq(S)
      /\ Len(SubSeq(h, m + 1, n)) = IF m + 1 <= n THEN n - (m + 1) + 1 ELSE 0
      /\ \A j \in 1 .. n - (m + 1) + 1 : SubSeq(h, m + 1, n)[j] = h[(m + 1) + j - 1]
  <2>1. m + 1 \in Int /\ n \in Int
    BY <1>1
  <2> QED
    BY <1>4, <2>1, SubSeqProperties
<1>6. (IF m + 1 <= n THEN n - (m + 1) + 1 ELSE 0) = n - m
  BY <1>1, <1>2
<1>7. \A j \in 1 .. n - m : SubSeq(h, m + 1, n)[j] = h[m + j]
  BY <1>2, <1>3, <1>5
<1> QED
  BY <1>5, <1>6, <1>7 DEF n

LEMMA LogSwitchesInv ==
  ASSUME LogInv, LogSwitches
  PROVE  LogInv'
<1> DEFINE n == Len(history)
           fresh == SubSeq(history, lastRecorded + 1, n)
<1>1. /\ UNCHANGED <<run, base, history>> /\ watch' = "evaluate" /\ LogTyped
      /\ n \in Nat /\ Len(logged) \in Nat /\ n' = n
  BY LenProperties DEF LogInv, LogTyped, LogSwitches
<1>2. CASE n > lastRecorded
  <2>1. logged' = logged \o fresh /\ lastRecorded' = n
    BY <1>2 DEF LogSwitches
  <2>2. /\ fresh \in Seq(Nat) /\ Len(fresh) = n - lastRecorded
        /\ \A j \in 1 .. n - lastRecorded : fresh[j] = history[lastRecorded + j]
    <3>1. history \in Seq(Nat) /\ lastRecorded \in Nat /\ lastRecorded <= Len(history)
      BY <1>1, <1>2 DEF LogTyped
    <3> QED
      BY <3>1, SuffixFrom
  <2> HIDE DEF fresh
  <2>3. /\ logged' \in Seq(Nat) /\ Len(logged') = Len(logged) + Len(fresh)
        /\ \A i \in 1 .. Len(logged) + Len(fresh) :
             logged'[i] = IF i <= Len(logged) THEN logged[i] ELSE fresh[i - Len(logged)]
    BY <2>1, <2>2, ConcatProperties, <1>1 DEF LogTyped
  <2>4. Len(logged) = lastRecorded - base /\ Len(logged') = n - base
    BY <1>1, <2>2, <2>3 DEF LogInv, LogTyped, Logged
  <2>5. ASSUME NEW i \in 1 .. Len(logged')
        PROVE  base + i <= n /\ logged'[i] = history[base + i]
    <3>1. CASE i <= Len(logged)
      <4>1. i \in 1 .. Len(logged)
        BY <1>1, <2>3, <3>1
      <4>2. i \in 1 .. Len(logged) + Len(fresh)
        BY <2>3
      <4> QED
        BY <2>3, <3>1, <4>1, <4>2 DEF LogInv, Logged
    <3>2. CASE ~(i <= Len(logged))
      <4>1. /\ i - Len(logged) \in 1 .. n - lastRecorded
            /\ lastRecorded + (i - Len(logged)) = base + i
        <5>1. /\ i \in Int /\ i <= n - base /\ i > Len(logged) /\ Len(logged) \in Int
              /\ Len(logged) = lastRecorded - base
          BY <1>1, <2>4, <3>2 DEF LogTyped
        <5>2. lastRecorded \in Int /\ base \in Int /\ n \in Int
          BY <1>1 DEF LogTyped
        <5> HIDE DEF n
        <5> QED
          BY <5>1, <5>2
      <4>2. logged'[i] = fresh[i - Len(logged)]
        BY <1>1, <2>2, <2>3, <3>2
      <4> QED
        <5>1. fresh[i - Len(logged)] = history[base + i]
          BY <2>2, <4>1
        <5>2. base + i <= n
          BY <1>1, <2>4 DEF LogTyped
        <5> QED
          BY <4>2, <5>1, <5>2
    <3> QED
      BY <3>1, <3>2
  <2>6. LogTyped' /\ Logged'
    BY <1>1, <2>1, <2>3, <2>4, <2>5 DEF LogTyped, Logged
  <2>7. FirstRun'
    BY <1>1, <2>1 DEF LogInv, FirstRun
  <2> QED
    BY <2>6, <2>7 DEF LogInv
<1>3. CASE ~(n > lastRecorded)
  <2>1. logged' = logged /\ lastRecorded' = lastRecorded
    BY <1>3 DEF LogSwitches
  <2>2. LogTyped' /\ Logged'
    BY <1>1, <2>1 DEF LogInv, LogTyped, Logged
  <2>3. run = 1 => lastRecorded <= n
    <3>1. CASE lastRecorded = base
      BY <1>1, <3>1 DEF LogInv, FirstRun
    <3>2. CASE lastRecorded # base
      <4>1. Len(logged) \in 1 .. Len(logged) /\ base + Len(logged) = lastRecorded
        BY <1>1, <3>2 DEF LogInv, LogTyped, Logged
      <4> QED
        BY <4>1 DEF LogInv, Logged
    <3> QED
      BY <3>1, <3>2
  <2>4. FirstRun'
    BY <1>1, <1>3, <2>1, <2>3 DEF LogInv, LogTyped, FirstRun
  <2> QED
    BY <2>2, <2>4 DEF LogInv
<1> QED
  BY <1>2, <1>3

LEMMA LogStepInv == LogInv /\ [StatNext]_statVars => LogInv'
<1> SUFFICES ASSUME LogInv, [StatNext]_statVars PROVE LogInv'
  OBVIOUS
<1>1. CASE NextRun
  BY <1>1, EmptySeq DEF NextRun, LogInv, LogTyped, Logged, FirstRun
<1>2. CASE UNCHANGED <<run, base, watchVars>>
  BY <1>2 DEF watchVars, LogInv, LogTyped, Logged, FirstRun
<1> QED
  BY <1>1, <1>2, EvaluateInv, LogSwitchesInv
     DEF StatNext, statVars, RecordCompletion, RecordBusyTick, CountCompletion

(* Statistics!SwitchLogIsHistory: the monitor copies every switch once and *)
(* in order, whatever the scheduler does between two of its iterations;    *)
(* a later run in the same process starts where the static left off.       *)
THEOREM LogFollowsHistory == StatSpec => []SwitchLogIsHistory
<1>1. ASSUME LogInv PROVE SwitchLogIsHistory
  <2> DEFINE last == IF logged = <<>> THEN base ELSE lastRecorded
             part == SubSeq(history, base + 1, last)
  <2>1. /\ LogTyped /\ Len(logged) \in Nat /\ Len(history) \in Nat
        /\ Len(logged) = lastRecorded - base /\ (logged = <<>> <=> Len(logged) = 0)
    BY <1>1, LenProperties, EmptySeq DEF LogInv, LogTyped, Logged
  <2>2. last = lastRecorded /\ base <= last
    BY <2>1 DEF LogTyped
  <2>3. \A i \in 1 .. Len(logged) : base + i \in 1 .. Len(history) /\ logged[i] = history[base + i]
    BY <1>1, <2>1 DEF LogInv, LogTyped, Logged
  <2>4. part \in Seq(Nat) /\ Len(part) = Len(logged)
        /\ \A i \in 1 .. Len(logged) : part[i] = history[base + i]
    <3>1. \A i \in base + 1 .. last : i \in 1 .. Len(history)
      <4> SUFFICES ASSUME NEW i \in base + 1 .. last PROVE i \in 1 .. Len(history)
        OBVIOUS
      <4>1. i - base \in 1 .. Len(logged) /\ base + (i - base) = i
        BY <2>1, <2>2 DEF LogTyped
      <4> QED
        BY <2>3, <4>1
    <3> HIDE DEF last
    <3>2. part = [i \in 1 .. last - base |-> history[base + i]]
      BY <2>1, <2>2 DEF LogTyped
    <3>3. last - base = Len(logged)
      BY <2>1, <2>2
    <3>4. \A i \in 1 .. Len(logged) : history[base + i] \in Nat
      BY <2>1, <2>3, ElementOfSeq DEF LogTyped
    <3> HIDE DEF part
    <3>5. part \in [1 .. Len(logged) -> Nat]
      BY <3>2, <3>3, <3>4
    <3>6. part \in Seq(Nat) /\ Len(part) = Len(logged)
      BY <2>1, <3>5
    <3> QED
      BY <3>2, <3>3, <3>6
  <2> HIDE DEF last, part
  <2>5. logged = part
    BY <2>1, <2>3, <2>4, SeqEqual DEF LogTyped
  <2>6. run = 1 /\ Over => logged = history
    <3> SUFFICES ASSUME run = 1, Over PROVE logged = history
      OBVIOUS
    <3>1. base = 0 /\ Len(logged) = Len(history)
      BY <1>1, <2>1 DEF LogInv, LogTyped, FirstRun, Over
    <3>2. \A i \in 1 .. Len(logged) : logged[i] = history[i]
      BY <2>3, <3>1
    <3> QED
      BY <2>1, <3>1, <3>2, SeqEqual DEF LogTyped
  <2> QED
    BY <2>5, <2>6 DEF SwitchLogIsHistory, part, last
<1> QED
  BY <1>1, LogInitInv, LogStepInv, PTL DEF StatSpec
-----------------------------------------------------------------------------
(* Statistics: the readings.  The invariant is what they say of each       *)
(* other, with the types that make the sums and the indices meaningful.    *)
Record == [job : Job, wait : WAITS, by : By]
ReadingsTyped ==
  /\ records \in Seq(Record) /\ byPolicy \in [By -> Nat] /\ timeline \in Seq(Job)
  /\ totalTicks \in Nat /\ counted \in Nat /\ feed \in {"complete", "tick", "count"}
ReadingsInv == ReadingsTyped /\ ReadingsAgree

LEMMA NoReadings ==
  ASSUME records = <<>>, byPolicy = [b \in By |-> 0], timeline = <<>>,
         totalTicks = 0, counted = 0, feed = "complete"
  PROVE  ReadingsInv
<1>1. records \in Seq(Record) /\ timeline \in Seq(Job) /\ Len(records) = 0 /\ Len(timeline) = 0
      /\ DOMAIN timeline = {}
  BY EmptySeq, LenProperties
<1>2. SumFunction(byPolicy) = 0
  BY StatisticsAssumption, SumOfZeros
<1>3. ReadingsTyped
  BY <1>1 DEF ReadingsTyped
<1>4. TIMELINE_CAP \in Nat
  BY StatisticsAssumption
<1> QED
  BY <1>1, <1>2, <1>3, <1>4 DEF ReadingsInv, ReadingsAgree

(* The timeline has the latest completions: one more at the end, and the   *)
(* first one goes when there are too many.                                 *)
LatestOf(line, rows) ==
  /\ Len(line) = IF Len(rows) < TIMELINE_CAP THEN Len(rows) ELSE TIMELINE_CAP
  /\ \A i \in 1 .. Len(line) : line[i] = rows[Len(rows) - Len(line) + i].job

LEMMA RecordedIsLatest ==
  ASSUME NEW rows \in Seq(Record), timeline \in Seq(Job), LatestOf(timeline, rows), NEW r \in Record
  PROVE  Recorded(r.job) \in Seq(Job) /\ LatestOf(Recorded(r.job), Append(rows, r))
<1> DEFINE p == r.job
           n == Len(rows)
           m == Len(timeline)
           more == Append(rows, r)
           longer == Append(timeline, p)
<1>1. n \in Nat /\ m \in Nat /\ TIMELINE_CAP \in Nat /\ p \in Job
  BY LenProperties, StatisticsAssumption DEF Record
<1>2. /\ more \in Seq(Record) /\ Len(more) = n + 1 /\ more[n + 1] = r
      /\ \A i \in 1 .. n : more[i] = rows[i]
  BY AppendProperties
<1>3. /\ longer \in Seq(Job) /\ Len(longer) = m + 1 /\ longer[m + 1] = p
      /\ \A i \in 1 .. m : longer[i] = timeline[i]
  BY <1>1, AppendProperties
<1>4. m = (IF n < TIMELINE_CAP THEN n ELSE TIMELINE_CAP) /\ m <= n
  BY <1>1 DEF LatestOf
<1>5. \A i \in 1 .. m : timeline[i] = rows[n - m + i].job
  BY DEF LatestOf
<1> HIDE DEF p, more, longer
<1>6. ASSUME NEW i \in 1 .. m + 1 PROVE longer[i] = more[n - m + i].job
  <2>1. CASE i = m + 1
    BY <1>1, <1>2, <1>3, <2>1 DEF p
  <2>2. CASE i \in 1 .. m
    <3>1. n - m + i \in 1 .. n
      BY <1>1, <1>4, <2>2
    <3> QED
      BY <1>2, <1>3, <1>5, <2>2, <3>1
  <2> QED
    BY <1>1, <2>1, <2>2
<1>7. CASE m + 1 > TIMELINE_CAP
  <2>1. Recorded(p) = Tail(longer) /\ m = TIMELINE_CAP
    BY <1>1, <1>3, <1>4, <1>7 DEF Recorded, longer
  <2>2. longer # <<>>
    BY <1>1, <1>3, EmptySeq
  <2>3. /\ Tail(longer) \in Seq(Job) /\ Len(Tail(longer)) = m
        /\ \A i \in 1 .. m : Tail(longer)[i] = longer[i + 1]
    BY <1>1, <1>3, <2>2, HeadTailProperties
  <2>4. ASSUME NEW i \in 1 .. m PROVE Tail(longer)[i] = more[(n + 1) - m + i].job
    <3>1. i + 1 \in 1 .. m + 1 /\ n - m + (i + 1) = (n + 1) - m + i
      BY <1>1
    <3> QED
      BY <1>6, <2>3, <3>1
  <2>5. Len(more) = n + 1 /\ m = IF n + 1 < TIMELINE_CAP THEN n + 1 ELSE TIMELINE_CAP
    BY <1>1, <1>2, <1>4, <1>7, <2>1
  <2>6. LatestOf(Tail(longer), more)
    BY <2>3, <2>4, <2>5 DEF LatestOf
  <2> QED
    BY <2>1, <2>3, <2>6 DEF p, more
<1>8. CASE ~(m + 1 > TIMELINE_CAP)
  <2>1. Recorded(p) = longer
    BY <1>3, <1>8 DEF Recorded, longer
  <2>2. n = m
    BY <1>1, <1>4, <1>8
  <2>3. \A i \in 1 .. m + 1 : longer[i] = more[(n + 1) - (m + 1) + i].job
    BY <1>1, <1>6, <2>2
  <2>4. Len(more) = n + 1 /\ m + 1 = IF n + 1 < TIMELINE_CAP THEN n + 1 ELSE TIMELINE_CAP
    BY <1>1, <1>2, <1>4, <1>8, <2>2
  <2>5. LatestOf(longer, more)
    BY <1>3, <2>3, <2>4 DEF LatestOf
  <2> QED
    BY <1>3, <2>1, <2>5 DEF p, more
<1> QED
  BY <1>7, <1>8

LEMMA RecordCompletionInv ==
  ASSUME ReadingsInv, NEW p \in Job, NEW w \in WAITS, NEW b \in By, RecordCompletion(p, w, b)
  PROVE  ReadingsInv'
<1> DEFINE r == [job |-> p, wait |-> w, by |-> b]
<1>1. /\ ReadingsTyped /\ r \in Record /\ r.job = p
      /\ feed = "complete" /\ feed' = "tick" /\ UNCHANGED <<totalTicks, counted>>
      /\ records' = Append(records, r) /\ timeline' = Recorded(p)
      /\ byPolicy' = [byPolicy EXCEPT ![b] = @ + 1]
  BY DEF ReadingsInv, RecordCompletion, Record
<1> HIDE DEF r
<1>2. /\ Len(records) \in Nat /\ Len(records') = Len(records) + 1 /\ records' \in Seq(Record)
  BY <1>1, AppendProperties, LenProperties DEF ReadingsTyped
<1>3. DOMAIN timeline = 1 .. Len(timeline)
  BY <1>1, LenProperties DEF ReadingsTyped
<1>4. LatestOf(timeline, records)
  BY <1>3 DEF ReadingsInv, ReadingsAgree, LatestOf
<1>5. timeline' \in Seq(Job) /\ LatestOf(timeline', records')
  BY <1>1, <1>4, RecordedIsLatest DEF ReadingsTyped
<1>6. /\ byPolicy \in [By -> Int] /\ byPolicy' \in [By -> Int] /\ byPolicy' \in [By -> Nat]
      /\ byPolicy'[b] = byPolicy[b] + 1 /\ \A c \in By \ {b} : byPolicy'[c] = byPolicy[c]
  BY <1>1 DEF ReadingsTyped
<1>7. SumFunction(byPolicy') = SumFunction(byPolicy) + 1
  BY <1>6, StatisticsAssumption, SumMoves
<1>8. ReadingsTyped'
  BY <1>1, <1>2, <1>5, <1>6 DEF ReadingsTyped
<1>9. DOMAIN timeline' = 1 .. Len(timeline')
  BY <1>5, LenProperties
<1>10. /\ SumFunction(byPolicy) = Len(records) /\ Len(records) - totalTicks = 0
       /\ Len(records) - counted = 0 /\ totalTicks \in Nat /\ counted \in Nat
  BY <1>1 DEF ReadingsInv, ReadingsAgree, ReadingsTyped
<1>11. /\ SumFunction(byPolicy') = Len(records')
       /\ Len(records') - totalTicks' = 1 /\ Len(records') - counted' = 1
  BY <1>1, <1>2, <1>7, <1>10
<1> QED
  BY <1>1, <1>5, <1>8, <1>9, <1>11 DEF ReadingsInv, ReadingsAgree, LatestOf

LEMMA ReadingsStep == ReadingsInv /\ [StatNext]_statVars => ReadingsInv'
<1> SUFFICES ASSUME ReadingsInv, [StatNext]_statVars PROVE ReadingsInv'
  OBVIOUS
<1>1. ASSUME NEW p \in Job, NEW w \in WAITS, NEW b \in By, RecordCompletion(p, w, b)
      PROVE  ReadingsInv'
  BY <1>1, RecordCompletionInv
<1>2. CASE RecordBusyTick \/ CountCompletion
  <2>1. Len(records) \in Nat /\ totalTicks \in Nat /\ counted \in Nat
    BY LenProperties DEF ReadingsInv, ReadingsTyped
  <2>2. UNCHANGED <<records, byPolicy, timeline>>
    BY <1>2 DEF RecordBusyTick, CountCompletion
  <2>3. ReadingsTyped'
    BY <1>2, <2>1, <2>2 DEF ReadingsInv, ReadingsTyped, RecordBusyTick, CountCompletion
  <2>4. /\ Len(records) - totalTicks' = IF feed' = "tick" THEN 1 ELSE 0
        /\ Len(records) - counted' = IF feed' = "complete" THEN 0 ELSE 1
    BY <1>2, <2>1 DEF ReadingsInv, ReadingsAgree, RecordBusyTick, CountCompletion
  <2> QED
    BY <2>2, <2>3, <2>4 DEF ReadingsInv, ReadingsAgree
<1>3. CASE NextRun
  <2>1. /\ records' = <<>> /\ byPolicy' = [b \in By |-> 0] /\ timeline' = <<>>
        /\ totalTicks' = 0 /\ counted' = 0 /\ feed' = "complete"
    BY <1>3 DEF NextRun, Over
  <2>2. /\ Len(records') = 0 /\ Len(timeline') = 0 /\ DOMAIN timeline' = {}
        /\ records' \in Seq(Record) /\ timeline' \in Seq(Job)
    BY <2>1, EmptySeq, LenProperties
  <2>3. SumFunction(byPolicy') = 0 /\ TIMELINE_CAP \in Nat
    BY <2>1, StatisticsAssumption, SumOfZeros
  <2>4. ReadingsTyped'
    BY <2>1, <2>2 DEF ReadingsTyped
  <2> QED
    BY <2>1, <2>2, <2>3, <2>4 DEF ReadingsInv, ReadingsAgree
<1>4. CASE UNCHANGED feedVars
  BY <1>4 DEF feedVars, ReadingsInv, ReadingsTyped, ReadingsAgree
<1> QED
  BY <1>1, <1>2, <1>3, <1>4
     DEF StatNext, EvaluateAndAdapt, LogSwitches, feedVars, statVars

LEMMA AlwaysReadingsInv == StatSpec => []ReadingsInv
<1>1. StatInit => ReadingsInv
  BY NoReadings DEF StatInit
<1> QED
  BY <1>1, ReadingsStep, PTL DEF StatSpec

(* Statistics!ReadingsAgree: whatever is recorded by the two threads, and  *)
(* in whatever run, a reader between two critical sections finds the       *)
(* figures of the completions in agreement.                                *)
THEOREM LiveReadingsAgree == StatSpec => []ReadingsAgree
<1>1. ReadingsInv => ReadingsAgree
  BY DEF ReadingsInv
<1> QED
  BY <1>1, AlwaysReadingsInv, PTL
-----------------------------------------------------------------------------
(* Jain's index: for n numbers the square of their sum lies between the    *)
(* sum of their squares and n times it (Cauchy and Schwarz).               *)
LEMMA Cancel ==
  ASSUME NEW n \in Nat \ {0}, NEW x \in Int, NEW y \in Int, n * x <= n * y
  PROVE  x <= y
<1>1. SUFFICES ASSUME y + 1 <= x PROVE FALSE
  OBVIOUS
<1>2. n * (y + 1) <= n * x
  BY <1>1
<1> QED
  BY <1>2
LEMMA SquareNat == ASSUME NEW z \in Int PROVE z * z >= 0
OBVIOUS

LEMMA OneMoreSquare ==
  ASSUME NEW n \in Nat, NEW f \in Nat, NEW g \in Nat, NEW a \in Nat,
         f * f <= n * g, g <= f * f, n = 0 => f = 0
  PROVE  /\ (f + a) * (f + a) <= (n + 1) * (g + a * a)
         /\ g + a * a <= (f + a) * (f + a)
<1>1. (f + a) * (f + a) = f * f + 2 * (a * f) + a * a
  OBVIOUS
<1>2. (n + 1) * (g + a * a) = n * g + g + n * (a * a) + a * a
  OBVIOUS
<1>3. 2 * (a * f) <= g + n * (a * a)
  <2>1. CASE n = 0
    BY <2>1
  <2>2. CASE n # 0
    <3>1. (f - n * a) * (f - n * a) = f * f - 2 * (n * (a * f)) + n * (n * (a * a))
      OBVIOUS
    <3>2. (f - n * a) * (f - n * a) >= 0
      BY SquareNat
    <3>3. n * (2 * (a * f)) = 2 * (n * (a * f)) /\ n * (g + n * (a * a)) = n * g + n * (n * (a * a))
      OBVIOUS
    <3>4. n * (2 * (a * f)) <= n * (g + n * (a * a))
      BY <3>1, <3>2, <3>3
    <3> QED
      BY <2>2, <3>4, Cancel
  <2> QED
    BY <2>1, <2>2
<1>4. a * f >= 0
  OBVIOUS
<1> QED
  BY <1>1, <1>2, <1>3, <1>4

LEMMA SquaresOfSums ==
  ASSUME NEW S, IsFiniteSet(S), NEW w \in [S -> Nat], NEW q \in [S -> Nat],
         \A x \in S : q[x] = w[x] * w[x]
  PROVE  /\ SumFunction(w) \in Nat /\ SumFunction(q) \in Nat
         /\ SumFunction(w) * SumFunction(w) <= Cardinality(S) * SumFunction(q)
         /\ SumFunction(q) <= SumFunction(w) * SumFunction(w)
<1>1. PICK f : Sums(f, w, S) /\ SumFunction(w) = f[S]
  BY SumIsSums
<1>2. PICK g : Sums(g, q, S) /\ SumFunction(q) = g[S]
  BY SumIsSums
<1> DEFINE Bounded(s, n) == /\ f[s] \in Nat /\ g[s] \in Nat /\ (n = 0 => f[s] = 0)
                            /\ f[s] * f[s] <= n * g[s] /\ g[s] <= f[s] * f[s]
           T == {n \in Nat : \A s \in SUBSET S : Cardinality(s) = n => Bounded(s, n)}
<1>3. \A s \in SUBSET S : /\ f[s] = IF s = {} THEN 0 ELSE w[Pick(s)] + f[s \ {Pick(s)}]
                          /\ g[s] = IF s = {} THEN 0 ELSE q[Pick(s)] + g[s \ {Pick(s)}]
  BY <1>1, <1>2 DEF Sums
<1>4. \A s \in SUBSET S : IsFiniteSet(s) /\ Cardinality(s) \in Nat
  BY FS_Subset, FS_CardinalityType
<1>5. 0 \in T
  <2>1. \A s \in SUBSET S : Cardinality(s) = 0 => s = {}
    BY <1>4, FS_EmptySet
  <2>2. {} \in SUBSET S
    OBVIOUS
  <2>3. f[{}] = 0 /\ g[{}] = 0
    BY <1>3, <2>2
  <2>4. Bounded({}, 0)
    BY <2>3
  <2> HIDE DEF Bounded
  <2> QED
    BY <2>1, <2>4
<1>6. ASSUME NEW n \in Nat, n \in T PROVE n + 1 \in T
  <2> SUFFICES ASSUME NEW s \in SUBSET S, Cardinality(s) = n + 1 PROVE Bounded(s, n + 1)
    BY DEF T
  <2> DEFINE y == Pick(s)
             r == s \ {y}
  <2>1. s # {} /\ y \in s /\ y \in S
    <3>1. s # {}
      <4>1. Cardinality({}) = 0
        BY FS_EmptySet
      <4>2. n + 1 # 0
        OBVIOUS
      <4> QED
        BY <4>1, <4>2, Zenon
    <3>2. y \in s
      BY <3>1, Picked
    <3> QED
      BY <3>1, <3>2
  <2>2. r \in SUBSET S /\ Cardinality(r) = n
    <3>1. r \subseteq S /\ IsFiniteSet(s)
      BY <1>4
    <3>2. Cardinality(r) = Cardinality(s) - 1
      BY <2>1, <3>1, FS_RemoveElement
    <3> QED
      BY <3>1, <3>2
  <2>3. Bounded(r, n)
    BY <1>6, <2>2
  <2>4. f[s] = w[y] + f[r] /\ g[s] = q[y] + g[r]
    BY <1>3, <2>1
  <2>5. w[y] \in Nat /\ q[y] = w[y] * w[y]
    BY <2>1
  <2> HIDE DEF y, r
  <2>6. /\ (f[r] + w[y]) * (f[r] + w[y]) <= (n + 1) * (g[r] + w[y] * w[y])
        /\ g[r] + w[y] * w[y] <= (f[r] + w[y]) * (f[r] + w[y])
    BY <2>3, <2>5, OneMoreSquare
  <2>7. f[s] = f[r] + w[y] /\ g[s] = g[r] + w[y] * w[y] /\ f[s] \in Nat /\ g[s] \in Nat
    BY <2>3, <2>4, <2>5
  <2> QED
    BY <2>6, <2>7
<1>7. \A n \in Nat : n \in T
  <2> HIDE DEF T
  <2> QED
    BY <1>5, <1>6, NatSetInduction
<1>8. Bounded(S, Cardinality(S))
  BY <1>4, <1>7
<1> QED
  BY <1>1, <1>2, <1>8

(* Statistics!FairnessIsAnIndex: live_fairness_index is between 1/n and 1  *)
(* for any number of processes and any waiting times, at any moment.       *)
THEOREM IndexInRange == StatSpec => []FairnessIsAnIndex
<1>1. ReadingsInv => FairnessIsAnIndex
  <2> SUFFICES ASSUME ReadingsInv PROVE FairnessIsAnIndex
    OBVIOUS
  <2> DEFINE n == Len(records)
             s == SumFunction(Waits)
             q == [i \in DOMAIN Waits |-> Waits[i] * Waits[i]]
  <2>1. n \in Nat /\ DOMAIN records = 1 .. n /\ (records = <<>> <=> n = 0)
    BY LenProperties, EmptySeq DEF ReadingsInv, ReadingsTyped
  <2>2. Waits \in [1 .. n -> Nat]
    <3>1. \A i \in 1 .. n : records[i].wait \in Nat
      <4>1. records \in Seq(Record)
        BY DEF ReadingsInv, ReadingsTyped
      <4>2. \A i \in 1 .. n : records[i] \in Record
        BY <4>1, ElementOfSeq
      <4> QED
        BY <4>2, StatisticsAssumption DEF Record
    <3> QED
      BY <2>1, <3>1 DEF Waits
  <2>3. /\ q \in [1 .. n -> Nat] /\ \A i \in 1 .. n : q[i] = Waits[i] * Waits[i]
    BY <2>2
  <2>4. IsFiniteSet(1 .. n) /\ Cardinality(1 .. n) = n
    <3>1. 1 \in Int /\ n \in Int /\ (n - 1) + 1 = n /\ (1 > n => n = 0)
      BY <2>1
    <3> HIDE DEF n
    <3> QED
      BY <3>1, FS_Interval
  <2>5. SumOfSquares = SumFunction(q)
    BY DEF SumOfSquares
  <2> HIDE DEF q
  <2>6. /\ s \in Nat /\ SumOfSquares \in Nat
        /\ s * s <= n * SumOfSquares /\ SumOfSquares <= s * s
    BY <2>2, <2>3, <2>4, <2>5, SquaresOfSums
  <2>7. CASE n < 2 \/ SumOfSquares = 0
    BY <2>1, <2>7 DEF FairnessIsAnIndex, Fairness
  <2>8. CASE ~(n < 2 \/ SumOfSquares = 0)
    <3>1. Fairness = <<s * s, n * SumOfSquares>> /\ records # <<>>
      BY <2>1, <2>8 DEF Fairness
    <3>2. n * SumOfSquares <= (s * s) * n
      BY <2>1, <2>6
    <3> HIDE DEF n, s
    <3> QED
      BY <2>6, <3>1, <3>2 DEF FairnessIsAnIndex, n
  <2> QED
    BY <2>7, <2>8
<1> QED
  BY <1>1, AlwaysReadingsInv, PTL
-----------------------------------------------------------------------------
(* PolicyEngine.  The incumbent's terms move a score by at most ten up or  *)
(* five down, and the margin is fifteen.                                   *)

(* The score of a policy that is not active. *)
Plain(m, trend, c, p) == Clamp(Base(m, trend, c, p))

(* A bonus is counted or not. *)
LEMMA PointsCounted ==
  ASSUME NEW condition \in BOOLEAN, NEW n \in Int
  PROVE  Points(condition, n) = n \/ Points(condition, n) = 0
BY Zenon DEF Points

LEMMA PointsInt ==
  ASSUME NEW condition \in BOOLEAN, NEW n \in Int
  PROVE  Points(condition, n) \in Int
BY PointsCounted

(* Scores stay between 0 and 100, and the clamp keeps distances. *)
LEMMA ClampBounds ==
  ASSUME NEW a \in Int, NEW k \in Int, 0 - 10 <= k, k <= 5
  PROVE  /\ Clamp(a) \in 0..100 /\ Clamp(a + k) \in 0..100
         /\ Clamp(a + k) <= Clamp(a) + 5
         /\ Clamp(a + k) >= Clamp(a) - 10
BY DEF Clamp

(* Being active gives five, and takes fifteen from a thrashing RR. *)
LEMMA IncumbentBounds ==
  ASSUME NEW m \in [Metric -> Nat], NEW p \in Policy
  PROVE  Incumbent(m, p) \in {5, 0 - 10}
<1>1. Points(p = "ROUND_ROBIN" /\ m.switches > 50, 15) \in {0, 15}
  BY DEF Points
<1> QED
  BY <1>1 DEF Incumbent

(* What a policy deserves is a number. *)
LEMMA BaseInt ==
  ASSUME NEW m \in [Metric -> Nat], NEW trend \in BOOLEAN, NEW c, NEW p \in Policy
  PROVE  Base(m, trend, c, p) \in Int
<1>1. FcfsBase(m, c) \in Int
  BY DEF FcfsBase, Points
<1>2. RrBase(m, c) \in Int
  BY DEF RrBase, Points
<1>3. PriorityBase(m, trend, c) \in Int
  <2>1. Points(trend, 20) \in Int
    BY PointsInt
  <2> QED
    BY <2>1 DEF PriorityBase, Points
<1>4. MlfqBase(m, c) \in Int
  BY DEF MlfqBase, Points
<1> QED
  BY <1>1, <1>2, <1>3, <1>4 DEF Base, Policy

(* The scores, seen from the policy that is active. *)
LEMMA ScoreBounds ==
  ASSUME NEW m \in [Metric -> Nat], NEW trend \in BOOLEAN, NEW c,
         NEW p \in Policy, NEW current \in Policy
  PROVE  /\ Score(m, trend, c, p, current) \in 0..100
         /\ Plain(m, trend, c, p) \in 0..100
         /\ p # current => Score(m, trend, c, p, current) = Plain(m, trend, c, p)
         /\ Score(m, trend, c, p, current) <= Plain(m, trend, c, p) + 5
         /\ Score(m, trend, c, p, current) >= Plain(m, trend, c, p) - 10
<1> DEFINE own == Base(m, trend, c, p)
           inc  == Incumbent(m, p)
<1>1. own \in Int /\ inc \in Int /\ 0 - 10 <= inc /\ inc <= 5
  BY BaseInt, IncumbentBounds
<1>2. CASE p = current
  <2>1. Score(m, trend, c, p, current) = Clamp(own + inc)
    BY <1>2 DEF Score
  <2> HIDE DEF own, inc
  <2> QED
    BY <1>1, <1>2, <2>1, ClampBounds DEF Plain, own
<1>3. CASE p # current
  <2>1. Score(m, trend, c, p, current) = Clamp(own + 0)
    BY <1>3 DEF Score
  <2>2. Plain(m, trend, c, p) = Clamp(own)
    BY DEF Plain
  <2> HIDE DEF own, inc
  <2>3. Clamp(own + 0) = Clamp(own) /\ Clamp(own) \in 0..100
    BY <1>1, ClampBounds
  <2> QED
    BY <2>1, <2>2, <2>3
<1> QED
  BY <1>2, <1>3

LEMMA MarginInt ==
  ASSUME NEW m \in [Metric -> Nat], NEW trend \in BOOLEAN, NEW c,
         NEW p \in Policy, NEW current \in Policy
  PROVE  Margin(m, trend, c, p, current) \in Int
<1>1. Score(m, trend, c, p, current) \in 0..100
  BY ScoreBounds
<1>2. Score(m, trend, c, current, current) \in 0..100
  BY ScoreBounds
<1> QED
  BY <1>1, <1>2 DEF Margin

(* Some policy has the best score. *)
LEMMA BestExists ==
  ASSUME NEW m \in [Metric -> Nat], NEW trend \in BOOLEAN, NEW c, NEW current \in Policy
  PROVE  \E q \in Policy : q \in Best(m, trend, c, current)
<1> DEFINE s(p) == Score(m, trend, c, p, current)
<1>1. /\ s("FCFS") \in Int /\ s("ROUND_ROBIN") \in Int
      /\ s("PRIORITY") \in Int /\ s("MLFQ") \in Int
  BY ScoreBounds DEF Policy
<1> HIDE DEF s
<1>2. \E q \in Policy : \A r \in Policy : s(r) <= s(q)
  BY <1>1 DEF Policy
<1> QED
  BY <1>2 DEF Best, s

(* A policy that no other outscores by the margin stays. *)
LEMMA UnbeatenStays ==
  ASSUME NEW m \in [Metric -> Nat], NEW trend \in BOOLEAN, NEW c, NEW p \in Policy,
         \A q \in Policy : Margin(m, trend, c, q, p) < CONFIDENCE_HYSTERESIS
  PROVE  Selected(m, trend, c, p) = {p}
<1>1. \A q \in Policy : Margin(m, trend, c, q, p) \in Int
  BY MarginInt
<1>2. \A q \in Policy : /\ ~(Margin(m, trend, c, q, p) >= CONFIDENCE_HYSTERESIS)
                        /\ Margin(m, trend, c, q, p) <= CONFIDENCE_HYSTERESIS
  BY <1>1 DEF CONFIDENCE_HYSTERESIS
<1>3. Best(m, trend, c, p) \subseteq Policy
  BY DEF Best
<1> QED
  BY <1>2, <1>3, BestExists DEF Selected

(* The policy switched to is then outscored by nobody by the margin. *)
LEMMA SwitchSettles ==
  ASSUME NEW m \in [Metric -> Nat], NEW trend \in BOOLEAN, NEW c,
         NEW current \in Policy, NEW p \in Selected(m, trend, c, current), p # current
  PROVE  Selected(m, trend, c, p) = {p}
<1>1. /\ p \in Policy
      /\ \A q \in Policy : Score(m, trend, c, q, current) <= Score(m, trend, c, p, current)
      /\ Margin(m, trend, c, p, current) >= CONFIDENCE_HYSTERESIS
  BY DEF Selected, Best
<1> DEFINE b(q) == Plain(m, trend, c, q)
<1>2. ASSUME NEW q \in Policy PROVE Margin(m, trend, c, q, p) <= 10
  <2> DEFINE sq == Score(m, trend, c, q, current)
             sp == Score(m, trend, c, p, current)
             sc == Score(m, trend, c, current, current)
  <2>1. sp = b(p) /\ sq <= sp /\ sp - sc >= 15
    BY <1>1, ScoreBounds DEF Margin, CONFIDENCE_HYSTERESIS
  <2>2. /\ sp \in Int /\ sc \in Int /\ sq \in Int
        /\ b(q) \in Int /\ b(p) \in Int /\ b(current) \in Int
        /\ b(current) - 10 <= sc /\ (q # current => sq = b(q))
    <3>1. sp \in 0..100 /\ b(p) \in 0..100
      BY <1>1, ScoreBounds
    <3>2. sc \in 0..100 /\ b(current) \in 0..100 /\ b(current) - 10 <= sc
      BY ScoreBounds
    <3>3. sq \in 0..100 /\ b(q) \in 0..100 /\ (q # current => sq = b(q))
      BY ScoreBounds
    <3> HIDE DEF b, sq, sp, sc
    <3> QED
      BY <3>1, <3>2, <3>3
  <2>3. b(q) <= b(p)
    <3> HIDE DEF b, sq, sp, sc
    <3> QED
      BY <2>1, <2>2
  <2>4. /\ Score(m, trend, c, p, p) \in Int /\ Score(m, trend, c, q, p) \in Int
        /\ Score(m, trend, c, p, p) >= b(p) - 10
        /\ q # p => Score(m, trend, c, q, p) = b(q)
    <3>1. Score(m, trend, c, p, p) \in 0..100 /\ Score(m, trend, c, p, p) >= b(p) - 10
      BY <1>1, ScoreBounds
    <3>2. /\ Score(m, trend, c, q, p) \in 0..100
          /\ q # p => Score(m, trend, c, q, p) = b(q)
      BY <1>1, ScoreBounds
    <3> QED
      BY <3>1, <3>2
  <2> HIDE DEF b
  <2> QED
    BY <2>2, <2>3, <2>4 DEF Margin
<1>3. \A q \in Policy : Margin(m, trend, c, q, p) < CONFIDENCE_HYSTERESIS
  <2>1. ASSUME NEW q \in Policy PROVE Margin(m, trend, c, q, p) \in Int
    BY <1>1, MarginInt
  <2> QED
    BY <1>2, <2>1 DEF CONFIDENCE_HYSTERESIS
<1> QED
  BY <1>1, <1>3, UnbeatenStays

(* Starvation above fifteen hundredths leaves one class. *)
LEMMA StarvedIsMixed ==
  ASSUME NEW m \in [Metric -> Nat], m.starvation > 15, NEW c \in Classes(m)
  PROVE  c = "MIXED"
<1>1. /\ c \in {"STRESS", "CPU_BOUND"} => ~(m.starvation > 15)
      /\ c \in {"INTERACTIVE"} => ~(m.starvation > 15)
  BY Zenon DEF Classes
<1> QED
  BY <1>1 DEF Classes

(* With it the policies that neither age nor boost deserve at most forty   *)
(* five, PRIORITY at least sixty five and MLFQ seventy.                    *)
LEMMA StarvedScores ==
  ASSUME NEW m \in [Metric -> Nat], NEW trend \in BOOLEAN, m.starvation > 15
  PROVE  /\ Plain(m, trend, "MIXED", "FCFS") = 0
         /\ Plain(m, trend, "MIXED", "ROUND_ROBIN") <= 45
         /\ Plain(m, trend, "MIXED", "PRIORITY") >= 65
         /\ Plain(m, trend, "MIXED", "MLFQ") >= 70
<1>1. m.starvation \in Nat /\ m.starvation > 10 /\ m.starvation > 5
  BY DEF Metric
<1>2. FcfsBase(m, "MIXED") \in Int /\ FcfsBase(m, "MIXED") <= 0
  BY <1>1 DEF FcfsBase, Points
<1>3. RrBase(m, "MIXED") \in Int /\ RrBase(m, "MIXED") <= 45
  BY DEF RrBase, Points
<1>4. PriorityBase(m, trend, "MIXED") \in Int /\ PriorityBase(m, trend, "MIXED") >= 65
  <2>1. Points(trend, 20) \in Int /\ Points(trend, 20) >= 0
    BY PointsCounted
  <2> QED
    BY <1>1, <2>1 DEF PriorityBase, Points
<1>5. MlfqBase(m, "MIXED") \in Int /\ MlfqBase(m, "MIXED") >= 70
  BY <1>1 DEF MlfqBase, Points
<1> QED
  BY <1>2, <1>3, <1>4, <1>5 DEF Plain, Base, Clamp

LEMMA StarvedSelection ==
  ASSUME NEW m \in [Metric -> Nat], NEW trend \in BOOLEAN, m.starvation > 15,
         NEW current \in Policy
  PROVE  Selected(m, trend, "MIXED", current) \subseteq {"PRIORITY", "MLFQ"}
<1> SUFFICES ASSUME NEW p \in Selected(m, trend, "MIXED", current),
                    p \notin {"PRIORITY", "MLFQ"}
             PROVE  FALSE
  OBVIOUS
<1> DEFINE s(q) == Score(m, trend, "MIXED", q, current)
           b(q) == Plain(m, trend, "MIXED", q)
<1>1. p \in {"FCFS", "ROUND_ROBIN"} /\ p \in Policy
  BY DEF Selected, Best, Policy
<1>2. b(p) \in 0..100 /\ s(p) \in 0..100 /\ s(p) <= b(p) + 5 /\ b(p) <= 45
  <2>1. b(p) \in 0..100 /\ s(p) \in 0..100 /\ s(p) <= b(p) + 5
    BY <1>1, ScoreBounds
  <2>2. b("FCFS") <= 45 /\ b("ROUND_ROBIN") <= 45
    BY StarvedScores
  <2> QED
    BY <1>1, <2>1, <2>2
<1>3. ASSUME NEW q \in {"PRIORITY", "MLFQ"}
      PROVE  q \in Policy /\ s(q) \in 0..100 /\ b(q) \in 0..100 /\ b(q) >= 65
             /\ (q # current => s(q) = b(q)) /\ s(q) >= b(q) - 10
  <2>1. q \in Policy
    BY DEF Policy
  <2>2. b("PRIORITY") >= 65 /\ b("MLFQ") >= 65
    <3>1. b("PRIORITY") >= 65 /\ b("MLFQ") >= 70 /\ b("MLFQ") \in 0..100
      BY StarvedScores, ScoreBounds DEF Policy
    <3> HIDE DEF b
    <3> QED
      BY <3>1
  <2> QED
    BY <2>1, <2>2, ScoreBounds
<1>4. PICK q \in {"PRIORITY", "MLFQ"} : q # current
  OBVIOUS
<1>5. s(q) >= 65 /\ s(q) \in 0..100 /\ q \in Policy
  <2>1. s(q) = b(q) /\ b(q) >= 65 /\ s(q) \in 0..100 /\ q \in Policy
    BY <1>3, <1>4
  <2> QED
    BY <2>1
<1>6. p \notin Best(m, trend, "MIXED", current)
  <2> SUFFICES ~(s(q) <= s(p))
    BY <1>5 DEF Best
  <2> HIDE DEF s, b
  <2> QED
    BY <1>2, <1>5
<1>7. /\ p = current
      /\ \E r \in Best(m, trend, "MIXED", current) : s(r) - s(p) <= 15
  BY <1>6, Zenon DEF Selected, Margin, CONFIDENCE_HYSTERESIS
<1>8. PICK r \in Policy : s("MLFQ") <= s(r) /\ s(r) - s(p) <= 15
  BY <1>7 DEF Best, Policy
<1>9. s(r) \in 0..100
  BY ScoreBounds
<1>10. s("MLFQ") = b("MLFQ") /\ s("MLFQ") \in 0..100
  BY <1>1, <1>3, <1>7
<1>11. b("MLFQ") >= 70
  BY StarvedScores
<1> HIDE DEF s, b
<1> QED
  BY <1>2, <1>8, <1>9, <1>10, <1>11

(* Above ten hundredths FCFS deserves at most twenty, PRIORITY thirty. *)
LEMMA FcfsRuledOut ==
  ASSUME NEW m \in [Metric -> Nat], NEW trend \in BOOLEAN, NEW c,
         NEW current \in Policy, current # "FCFS",
         "FCFS" \in Selected(m, trend, c, current)
  PROVE  m.starvation <= 10
<1> SUFFICES ASSUME m.starvation > 10 PROVE FALSE
  BY DEF Metric
<1> DEFINE s(q) == Score(m, trend, c, q, current)
           b(q) == Plain(m, trend, c, q)
<1>1. FcfsBase(m, c) \in Int /\ FcfsBase(m, c) <= 20
  BY DEF FcfsBase, Points
<1>2. PriorityBase(m, trend, c) \in Int /\ PriorityBase(m, trend, c) >= 30
  <2>1. Points(trend, 20) \in Int /\ Points(trend, 20) >= 0
    BY PointsCounted
  <2> QED
    BY <2>1 DEF PriorityBase, Points
<1>3. b("FCFS") <= 20 /\ b("PRIORITY") >= 30
  BY <1>1, <1>2 DEF Plain, Base, Clamp
<1>4. "FCFS" \in Policy /\ "PRIORITY" \in Policy
  BY DEF Policy
<1>5. s("FCFS") \in 0..100 /\ s("FCFS") = b("FCFS")
  BY <1>4, ScoreBounds
<1>6. /\ s("PRIORITY") \in 0..100 /\ b("PRIORITY") \in 0..100
      /\ ("PRIORITY" # current => s("PRIORITY") = b("PRIORITY"))
      /\ s("PRIORITY") >= b("PRIORITY") - 10
  BY <1>4, ScoreBounds
<1>7. s("PRIORITY") <= s("FCFS") /\ s("FCFS") - s(current) >= 15
  BY <1>4 DEF Selected, Best, Margin, CONFIDENCE_HYSTERESIS
<1> HIDE DEF s, b
<1>8. CASE "PRIORITY" # current
  BY <1>3, <1>5, <1>6, <1>7, <1>8
<1>9. CASE "PRIORITY" = current
  <2>1. s(current) = s("PRIORITY")
    BY <1>9
  <2>2. s("PRIORITY") \in Int /\ s("FCFS") \in Int /\ s("PRIORITY") >= 20 /\ s("FCFS") <= 20
    BY <1>3, <1>5, <1>6
  <2> QED
    BY <1>7, <2>1, <2>2
<1> QED
  BY <1>8, <1>9

(* Every reachable state is well typed. *)
THEOREM PolicyTypeCorrect == Spec => []TypeOK
<1>1. Init => TypeOK
  <2>1. Init => rising \in BOOLEAN
    BY Zenon DEF Init
  <2> QED
    BY <2>1 DEF Init, TypeOK, Policy
<1>2. ASSUME TypeOK, [Next]_vars PROVE TypeOK'
  <2>1. ASSUME NEW f \in Metric, Drift(f) PROVE TypeOK'
    BY <1>2, <2>1, ValuesAssumption DEF Drift, TypeOK
  <2>2. CASE Trend
    <3>1. rising' \in BOOLEAN
      BY <2>2, Zenon DEF Trend
    <3> QED
      BY <1>2, <2>2, <3>1 DEF Trend, TypeOK
  <2>3. CASE Evaluate
    <3>1. active' \in Policy
      BY <1>2, <2>3, Zenon DEF Evaluate, Selected, Best, TypeOK
    <3> QED
      BY <1>2, <2>3, <3>1 DEF Evaluate, TypeOK
  <2>4. CASE UNCHANGED vars
    BY <1>2, <2>4 DEF vars, TypeOK
  <2> QED
    BY <1>2, <2>1, <2>2, <2>3, <2>4 DEF Next
<1> QED
  BY <1>1, <1>2, PTL DEF Spec

(* A switch of the policy is followed by no other while the metrics stay,  *)
(* whatever they are: select_policy's margin outweighs the terms that the  *)
(* active policy gains and loses.                                          *)
THEOREM Hysteresis == Spec => []NoOscillation
<1>1. TypeOK => NoOscillation
  BY SwitchSettles DEF TypeOK, NoOscillation
<1> QED
  BY <1>1, PolicyTypeCorrect, PTL

(* Starvation above the override's threshold ends every evaluation with a  *)
(* policy that ages or boosts, whatever the other metrics are.             *)
THEOREM StarvationAnswered == Spec => []StarvationIsAnswered
<1>1. TypeOK => StarvationIsAnswered
  BY StarvedIsMixed, StarvedSelection, Zenon DEF TypeOK, StarvationIsAnswered
<1> QED
  BY <1>1, PolicyTypeCorrect, PTL

(* No step hands a workload with starvation above ten hundredths to FCFS.  *)
THEOREM FcfsOnlyWithoutStarvation == Spec => StarvationRulesOutFCFS
<1>1. ASSUME TypeOK, [Next]_vars, active' = "FCFS", active # "FCFS"
      PROVE  metrics.starvation <= 10
  <2>1. PICK c \in Classes(metrics) : active' \in Selected(metrics, rising, c, active)
    BY <1>1 DEF Next, Drift, Trend, Evaluate, vars
  <2> QED
    BY <1>1, <2>1, FcfsRuledOut DEF TypeOK
<1>2. TypeOK /\ [Next]_vars => [active' = "FCFS" /\ active # "FCFS"
                                 => metrics.starvation <= 10]_vars
  BY <1>1
<1> QED
  BY <1>2, PolicyTypeCorrect, PTL DEF Spec, StarvationRulesOutFCFS
===============================================================================
