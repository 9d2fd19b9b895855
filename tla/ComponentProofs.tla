--------------------------- MODULE ComponentProofs ---------------------------
(***************************************************************************)
(* The components that share no variable with the core model, as           *)
(* MCComponents checks them, for all values of their constants: the clock  *)
(* with its events, SJF and SRTF, and the switch log of the statistics.    *)
(***************************************************************************)
EXTENDS ClockEvents, SjfScheduler, ReadyOrderProofs

(* SimClock.  A thread that owes a pass is still in its call of advance.   *)
PassesOwed == \A k \in Ticker : passing[k] # Never => togo[k] > 0

(* A one-shot event is called once, for the tick it waits for. *)
OneShotsCalled ==
  \A e \in OneShot :
    /\ firedAt[e] \subseteq {due[e]}
    /\ e \in armed => due[e] # Never
    /\ due[e] = Never => firedAt[e] = {}
    /\ e \in armed /\ armedAt[e] < due[e] /\ due[e] <= simTick => PassComing(due[e])

(* CalledWhenDue says of a periodic event only that some pass is coming,   *)
(* which that pass need not leave true for the next period.  Any pass at   *)
(* or after nextFire moves nextFire beyond it: so all of them are coming.  *)
PeriodicsCalled ==
  \A e \in Periodic :
    nextFire[e] # Never =>
      /\ interval[e] \in Intervals
      /\ nextFire[e] = lastFire[e] + interval[e]
      /\ \A t \in nextFire[e] .. simTick : PassComing(t)

ClockInv == ClockTypeOK /\ PassesOwed /\ OneShotsCalled /\ PeriodicsCalled

LEMMA ClockInitInv == ClockInit => ClockInv
<1> SUFFICES ASSUME ClockInit PROVE ClockInv
  OBVIOUS
<1>1. ClockTypeOK /\ PassesOwed
  BY DEF ClockInit, ClockTypeOK, PassesOwed, Never
<1>2. OneShotsCalled
  BY DEF ClockInit, OneShotsCalled, Never
<1>3. PeriodicsCalled
  BY DEF ClockInit, PeriodicsCalled, Never
<1> QED
  BY <1>1, <1>2, <1>3 DEF ClockInv

(* The pass for the tick t. *)
LEMMA FireInv ==
  ASSUME ClockInv, NEW k \in Ticker, FireEvents(k)
  PROVE  ClockInv'
<1> DEFINE t == passing[k]
           now == {e \in armed : due[e] = t}
           again == {e \in Periodic : nextFire[e] # Never /\ t >= nextFire[e]}
<1>1. /\ t # Never /\ t \in Nat /\ ClockTypeOK
      /\ armed' = armed \ now
      /\ firedAt' = [e \in OneShot |-> firedAt[e] \cup IF e \in now THEN {t} ELSE {}]
      /\ nextFire' = [e \in Periodic |-> IF e \in again THEN t + interval[e]
                                                        ELSE nextFire[e]]
      /\ lastFire' = [e \in Periodic |-> IF e \in again THEN t ELSE lastFire[e]]
      /\ passing' = [passing EXCEPT ![k] = Never]
      /\ togo' = [togo EXCEPT ![k] = @ - 1]
      /\ UNCHANGED <<simTick, due, armedAt, interval>>
  BY DEF ClockInv, ClockTypeOK, FireEvents, Pass, Following
<1>2. togo[k] > 0 /\ togo[k] \in Nat
  BY <1>1 DEF ClockInv, ClockTypeOK, PassesOwed
<1>3. Intervals \subseteq Nat \ {0}
  BY ClockAssumption
<1>4. \A e \in again : interval[e] \in Intervals
  BY DEF ClockInv, PeriodicsCalled
<1>5. ClockTypeOK'
  <2>1. simTick' \in Nat /\ passing' \in [Ticker -> Nat] /\ togo' \in [Ticker -> Nat]
    BY <1>1, <1>2 DEF ClockTypeOK, Never
  <2>2. /\ armed' \subseteq OneShot /\ due' \in [OneShot -> Nat]
        /\ armedAt' \in [OneShot -> Nat] /\ firedAt' \in [OneShot -> SUBSET Nat]
    BY <1>1 DEF ClockTypeOK
  <2>3. /\ nextFire' \in [Periodic -> Nat] /\ lastFire' \in [Periodic -> Nat]
        /\ interval' \in [Periodic -> Intervals \cup {Never}]
    <3>1. ASSUME NEW e \in again PROVE t + interval[e] \in Nat
      <4>1. interval[e] \in Nat
        BY <1>3, <1>4
      <4> HIDE DEF t
      <4> QED
        BY <1>1, <4>1
    <3>2. \A e \in Periodic : nextFire[e] \in Nat /\ lastFire[e] \in Nat
      BY <1>1 DEF ClockTypeOK
    <3> HIDE DEF again, t
    <3> QED
      BY <1>1, <3>1, <3>2 DEF ClockTypeOK
  <2> QED
    BY <2>1, <2>2, <2>3 DEF ClockTypeOK
<1>6. PassesOwed'
  BY <1>1 DEF ClockInv, ClockTypeOK, PassesOwed
<1>7. \A s \in Nat : s # t /\ PassComing(s) => PassComing(s)'
  BY <1>1 DEF PassComing, ClockTypeOK
<1>8. OneShotsCalled'
  <2> SUFFICES ASSUME NEW e \in OneShot
               PROVE  /\ firedAt'[e] \subseteq {due'[e]}
                      /\ e \in armed' => due'[e] # Never
                      /\ due'[e] = Never => firedAt'[e] = {}
                      /\ e \in armed' /\ armedAt'[e] < due'[e] /\ due'[e] <= simTick'
                           => PassComing(due[e])'
    BY <1>1 DEF OneShotsCalled
  <2>1. due'[e] = due[e] /\ armedAt'[e] = armedAt[e] /\ due[e] \in Nat
    BY <1>1 DEF ClockTypeOK
  <2>2. /\ firedAt[e] \subseteq {due[e]}
        /\ e \in armed => due[e] # Never
        /\ due[e] = Never => firedAt[e] = {}
        /\ e \in armed /\ armedAt[e] < due[e] /\ due[e] <= simTick => PassComing(due[e])
    BY DEF ClockInv, OneShotsCalled
  <2>3. firedAt'[e] \subseteq {due'[e]} /\ (due'[e] = Never => firedAt'[e] = {})
    BY <1>1, <2>1, <2>2
  <2>4. e \in armed' => e \in armed /\ due[e] # t
    BY <1>1
  <2> QED
    BY <1>1, <1>7, <2>1, <2>2, <2>3, <2>4
<1>9. PeriodicsCalled'
  <2> SUFFICES ASSUME NEW e \in Periodic, nextFire'[e] # Never
               PROVE  /\ interval'[e] \in Intervals
                      /\ nextFire'[e] = lastFire'[e] + interval'[e]
                      /\ \A s \in nextFire'[e] .. simTick' : PassComing(s)'
    BY DEF PeriodicsCalled
  <2>1. nextFire[e] \in Nat /\ interval'[e] = interval[e] /\ simTick \in Nat
    BY <1>1 DEF ClockTypeOK
  <2>2. nextFire[e] # Never =>
          /\ interval[e] \in Nat \ {0} /\ interval[e] \in Intervals
          /\ nextFire[e] = lastFire[e] + interval[e]
          /\ \A s \in nextFire[e] .. simTick : PassComing(s)
    BY <1>3 DEF ClockInv, PeriodicsCalled
  <2>3. CASE e \in again
    <3>1. /\ nextFire[e] # Never /\ nextFire[e] <= t
          /\ nextFire'[e] = t + interval[e] /\ lastFire'[e] = t
      BY <1>1, <2>1, <2>3
    <3>2. ASSUME NEW s \in nextFire'[e] .. simTick' PROVE PassComing(s)'
      <4>1. s \in nextFire[e] .. simTick /\ s # t /\ s \in Nat
        BY <1>1, <2>1, <2>2, <3>1
      <4> QED
        BY <1>7, <2>2, <3>1, <4>1
    <3> QED
      BY <2>1, <2>2, <3>1, <3>2
  <2>4. CASE e \notin again
    <3>1. /\ nextFire[e] # Never /\ t < nextFire[e]
          /\ nextFire'[e] = nextFire[e] /\ lastFire'[e] = lastFire[e]
      BY <1>1, <2>1, <2>4
    <3>2. ASSUME NEW s \in nextFire'[e] .. simTick' PROVE PassComing(s)'
      <4>1. s \in nextFire[e] .. simTick /\ s # t /\ s \in Nat
        BY <1>1, <2>1, <3>1
      <4> QED
        BY <1>7, <2>2, <3>1, <4>1
    <3> QED
      BY <2>1, <2>2, <3>1, <3>2
  <2> QED
    BY <2>3, <2>4
<1> QED
  BY <1>5, <1>6, <1>8, <1>9 DEF ClockInv

LEMMA IncrementInv ==
  ASSUME ClockInv, NEW k \in Ticker, Increment(k)
  PROVE  ClockInv'
<1>1. /\ ClockTypeOK /\ simTick \in Nat
      /\ togo[k] > 0 /\ passing[k] = Never
      /\ simTick' = simTick + 1 /\ passing' = [passing EXCEPT ![k] = simTick + 1]
      /\ UNCHANGED <<togo, armed, due, armedAt, firedAt, nextFire, interval, lastFire>>
  BY DEF ClockInv, ClockTypeOK, Increment, oneShotVars, periodicVars
<1>2. ClockTypeOK'
  BY <1>1 DEF ClockTypeOK
<1>3. PassesOwed'
  BY <1>1 DEF ClockInv, ClockTypeOK, PassesOwed, Never
<1>4. \A s \in Nat \ {0} :
        PassComing(s) \/ s = simTick + 1 => \E j \in Ticker : passing'[j] = s
  BY <1>1 DEF ClockTypeOK, PassComing, Never
<1>5. OneShotsCalled'
  <2> SUFFICES ASSUME NEW e \in OneShot, e \in armed, armedAt[e] < due[e],
                      due[e] <= simTick + 1
               PROVE  \E j \in Ticker : passing'[j] = due[e]
    BY <1>1 DEF ClockInv, OneShotsCalled, PassComing
  <2>1. due[e] \in Nat \ {0}
    BY <1>1 DEF ClockTypeOK
  <2>2. PassComing(due[e]) \/ due[e] = simTick + 1
    BY <1>1, <2>1 DEF ClockInv, OneShotsCalled
  <2> QED
    BY <1>4, <2>1, <2>2
<1>6. PeriodicsCalled'
  <2> SUFFICES ASSUME NEW e \in Periodic, nextFire[e] # Never,
                      NEW s \in nextFire[e] .. simTick + 1
               PROVE  \E j \in Ticker : passing'[j] = s
    BY <1>1 DEF ClockInv, PeriodicsCalled, PassComing
  <2>1. s \in Nat \ {0} /\ (s = simTick + 1 \/ s \in nextFire[e] .. simTick)
    BY <1>1 DEF ClockTypeOK, Never
  <2> QED
    BY <1>4, <2>1 DEF ClockInv, PeriodicsCalled
<1> QED
  BY <1>2, <1>3, <1>5, <1>6 DEF ClockInv

LEMMA RegisterInv ==
  ASSUME ClockInv,
         \/ \E e \in OneShot, at \in 1 .. LAST_TICK : ScheduleEvent(e, at)
         \/ \E e \in Periodic, n \in Intervals : AddPeriodic(e, n)
  PROVE  ClockInv'
<1>1. /\ ClockTypeOK /\ simTick \in Nat /\ PassesOwed /\ OneShotsCalled /\ PeriodicsCalled
      /\ LAST_TICK \in Nat /\ Intervals \subseteq Nat \ {0}
  BY ClockAssumption DEF ClockInv, ClockTypeOK
<1>2. ASSUME NEW e \in OneShot, NEW at \in 1 .. LAST_TICK, ScheduleEvent(e, at)
      PROVE  ClockInv'
  <2>1. /\ due[e] = Never /\ armed' = armed \cup {e}
        /\ due' = [due EXCEPT ![e] = at] /\ armedAt' = [armedAt EXCEPT ![e] = simTick]
        /\ UNCHANGED <<simTick, togo, passing, firedAt, nextFire, interval, lastFire>>
    BY <1>2 DEF ScheduleEvent, tickVars, periodicVars
  <2>2. at \in Nat \ {0}
    BY <1>1
  <2>3. ClockTypeOK'
    BY <1>1, <2>1, <2>2 DEF ClockTypeOK
  <2>4. PassesOwed' /\ PeriodicsCalled'
    BY <1>1, <2>1 DEF PassesOwed, PeriodicsCalled, PassComing
  <2>5. OneShotsCalled'
    <3> SUFFICES ASSUME NEW d \in OneShot
                 PROVE  /\ firedAt[d] \subseteq {due'[d]}
                        /\ d \in armed' => due'[d] # Never
                        /\ due'[d] = Never => firedAt[d] = {}
                        /\ d \in armed' /\ armedAt'[d] < due'[d] /\ due'[d] <= simTick
                             => PassComing(due'[d])
      BY <2>1 DEF OneShotsCalled, PassComing
    <3>1. CASE d = e
      BY <1>1, <2>1, <2>2, <3>1 DEF ClockTypeOK, OneShotsCalled, Never
    <3>2. CASE d # e
      BY <1>1, <2>1, <3>2 DEF ClockTypeOK, OneShotsCalled
    <3> QED
      BY <3>1, <3>2
  <2> QED
    BY <2>3, <2>4, <2>5 DEF ClockInv
<1>3. ASSUME NEW e \in Periodic, NEW n \in Intervals, AddPeriodic(e, n)
      PROVE  ClockInv'
  <2>1. /\ nextFire' = [nextFire EXCEPT ![e] = simTick + n]
        /\ interval' = [interval EXCEPT ![e] = n]
        /\ lastFire' = [lastFire EXCEPT ![e] = simTick]
        /\ UNCHANGED <<simTick, togo, passing, armed, due, armedAt, firedAt>>
    BY <1>3 DEF AddPeriodic, tickVars, oneShotVars
  <2>2. n \in Nat \ {0}
    BY <1>1
  <2>3. ClockTypeOK'
    BY <1>1, <2>1, <2>2 DEF ClockTypeOK
  <2>4. PassesOwed' /\ OneShotsCalled'
    BY <1>1, <2>1 DEF PassesOwed, OneShotsCalled, PassComing
  <2>5. PeriodicsCalled'
    BY <1>1, <2>1, <2>2 DEF ClockTypeOK, PeriodicsCalled, PassComing
  <2> QED
    BY <2>3, <2>4, <2>5 DEF ClockInv
<1> QED
  BY <1>2, <1>3

LEMMA ResetInv == ASSUME ClockInv, ResetClock PROVE ClockInv'
<1>1. /\ ClockTypeOK /\ \A k \in Ticker : togo[k] = 0
      /\ simTick' = 0 /\ armed' = {} /\ due' = [e \in OneShot |-> Never]
      /\ armedAt' = [e \in OneShot |-> Never] /\ firedAt' = [e \in OneShot |-> {}]
      /\ nextFire' = [e \in Periodic |-> Never] /\ interval' = [e \in Periodic |-> Never]
      /\ lastFire' = [e \in Periodic |-> Never]
      /\ togo' = togo /\ passing' = passing
  BY DEF ClockInv, ResetClock
<1>2. \A k \in Ticker : passing[k] = Never
  BY <1>1 DEF ClockInv, PassesOwed
<1>3. ClockTypeOK'
  BY <1>1 DEF ClockTypeOK, Never
<1>4. PassesOwed'
  BY <1>1, <1>2 DEF PassesOwed
<1>5. OneShotsCalled' /\ PeriodicsCalled'
  BY <1>1 DEF OneShotsCalled, PeriodicsCalled, Never
<1> QED
  BY <1>3, <1>4, <1>5 DEF ClockInv

LEMMA ClockStepInv == ClockInv /\ [ClockNext]_clockVars => ClockInv'
<1> SUFFICES ASSUME ClockInv, [ClockNext]_clockVars PROVE ClockInv'
  OBVIOUS
<1>1. ASSUME NEW k \in Ticker, NEW n \in 1 .. MAX_ADVANCE, Advance(k, n)
      PROVE  ClockInv'
  <2>1. /\ ClockTypeOK /\ togo[k] = 0 /\ togo' = [togo EXCEPT ![k] = n]
        /\ UNCHANGED <<simTick, passing, armed, due, armedAt, firedAt,
                       nextFire, interval, lastFire>>
    BY <1>1 DEF ClockInv, Advance, oneShotVars, periodicVars
  <2>2. n \in Nat \ {0}
    BY ClockAssumption
  <2>3. ClockTypeOK' /\ PassesOwed'
    BY <2>1, <2>2 DEF ClockInv, ClockTypeOK, PassesOwed
  <2>4. OneShotsCalled' /\ PeriodicsCalled'
    BY <2>1 DEF ClockInv, OneShotsCalled, PeriodicsCalled, PassComing
  <2> QED
    BY <2>3, <2>4 DEF ClockInv
<1>2. CASE UNCHANGED clockVars
  BY <1>2 DEF clockVars, tickVars, oneShotVars, periodicVars, ClockInv, ClockTypeOK,
              PassesOwed, OneShotsCalled, PeriodicsCalled, PassComing
<1> QED
  BY <1>1, <1>2, IncrementInv, FireInv, RegisterInv, ResetInv DEF ClockNext

LEMMA AlwaysClockInv == ClockSpec => []ClockInv
BY ClockInitInv, ClockStepInv, PTL DEF ClockSpec

(* ClockEvents!CalledWhenDue: however many threads advance the clock, no   *)
(* event registered in time is passed over or called at another tick.      *)
THEOREM EventsAreCalled == ClockSpec => []CalledWhenDue
<1>1. ClockInv => CalledWhenDue
  <2> SUFFICES ASSUME ClockInv, NEW e \in Periodic,
                      nextFire[e] # Never, nextFire[e] <= simTick
               PROVE  \E t \in nextFire[e] .. simTick : PassComing(t)
    BY DEF ClockInv, OneShotsCalled, CalledWhenDue
  <2>1. nextFire[e] \in nextFire[e] .. simTick
    BY DEF ClockInv, ClockTypeOK
  <2> QED
    BY <2>1 DEF ClockInv, PeriodicsCalled
<1> QED
  BY <1>1, AlwaysClockInv, PTL

(* ClockEvents!PeriodsKept: two calls of a periodic event are at least its *)
(* interval apart.                                                         *)
THEOREM PeriodicsAreSpaced == ClockSpec => PeriodsKept
<1> DEFINE Spaced ==
      \A e \in Periodic :
        lastFire'[e] > lastFire[e] /\ nextFire[e] # Never
          => lastFire'[e] >= lastFire[e] + interval[e]
<1>1. ASSUME ClockInv, [ClockNext]_clockVars
      PROVE  Spaced \/ UNCHANGED clockVars
  <2>1. ClockTypeOK
    BY <1>1 DEF ClockInv
  <2>2. ASSUME NEW k \in Ticker, FireEvents(k) PROVE Spaced
    <3> SUFFICES ASSUME NEW e \in Periodic, lastFire'[e] > lastFire[e], nextFire[e] # Never
                 PROVE  lastFire'[e] >= lastFire[e] + interval[e]
      OBVIOUS
    <3>1. /\ lastFire[e] \in Nat /\ passing[k] \in Nat
          /\ nextFire[e] = lastFire[e] + interval[e]
      BY <1>1, <2>1 DEF ClockInv, ClockTypeOK, PeriodicsCalled
    <3>2. \/ lastFire'[e] = lastFire[e]
          \/ lastFire'[e] = passing[k] /\ passing[k] >= nextFire[e]
      BY <2>2 DEF FireEvents, Pass
    <3> QED
      BY <3>1, <3>2
  <2>3. ASSUME NEW e \in Periodic, NEW n \in Intervals, AddPeriodic(e, n) PROVE Spaced
    BY <2>1, <2>3 DEF AddPeriodic, ClockTypeOK
  <2>4. CASE ResetClock
    BY <2>1, <2>4 DEF ResetClock, ClockTypeOK, Never
  <2>5. CASE UNCHANGED lastFire
    BY <2>1, <2>5 DEF ClockTypeOK
  <2> QED
    BY <1>1, <2>2, <2>3, <2>4, <2>5
       DEF ClockNext, Advance, Increment, ScheduleEvent, periodicVars
<1>2. ClockInv /\ [ClockNext]_clockVars => [Spaced]_clockVars
  BY <1>1
<1> QED
  BY <1>2, AlwaysClockInv, PTL DEF ClockSpec, PeriodsKept
-----------------------------------------------------------------------------
(* SJFScheduler.  The queue lists processes that have not executed since   *)
(* they came, in the order of what remains of them; what is on the CPU has *)
(* left the queue.                                                         *)
SjfQueued ==
  /\ Lists(sjfQueue, Range(sjfQueue)) /\ onCpu \notin Range(sjfQueue)
  /\ \A p \in Range(sjfQueue) :
       sjfPcb[p].state = "READY" /\ sjfPcb[p].remaining = sjfPcb[p].burst
  /\ \A p \in PID : sjfPcb[p].state = "NEW" => sjfPcb[p].remaining = sjfPcb[p].burst
  /\ SortedBy(sjfQueue, ShorterLess(sjfPcb))
SjfOnCpu ==
  /\ onCpu # None => sjfPcb[onCpu].state = "RUNNING"
  /\ sjfStep = "fetch" => onCpu = None
  /\ sjfStep \in {"snapshot", "preempt", "exec"} => onCpu # None
SjfMissing ==
  /\ Cardinality(Missing) = preempted
  /\ mode = "NON_PREEMPTIVE" => Missing = {}
SjfInv == SjfTypeOK /\ SjfQueued /\ SjfOnCpu /\ SjfMissing

LEMMA MissingFinite == IsFiniteSet(Missing)
BY PIDAssumption, FS_Subset DEF Missing

(* Sorted for one table is sorted for another with the same keys. *)
LEMMA SortedByKeys ==
  ASSUME NEW q \in Seq(PID), NEW tbl, NEW new, SortedBy(q, ShorterLess(tbl)),
         \A p \in Range(q) : new[p].remaining = tbl[p].remaining /\ new[p].arrival = tbl[p].arrival
  PROVE  SortedBy(q, ShorterLess(new))
<1>1. \A i \in DOMAIN q : q[i] \in PID /\ q[i] \in Range(q)
  BY SeqFacts, ElementOfSeq DEF Range
<1>2. \A p, r \in Range(q) : <<p, r>> \in ShorterLess(new) => <<p, r>> \in ShorterLess(tbl)
  BY DEF ShorterLess
<1> QED
  BY <1>1, <1>2 DEF SortedBy

LEMMA SjfInitInv == SjfInit => SjfInv
<1> SUFFICES ASSUME SjfInit PROVE SjfInv
  OBVIOUS
<1>1. PICK bursts \in SjfBursts : sjfPcb = [p \in PID |-> NewProcess(0, bursts[p], 0)]
  BY DEF SjfInit
<1>2. /\ mode \in {"NON_PREEMPTIVE", "SRTF"} /\ sjfQueue = <<>> /\ onCpu = None
      /\ front = None /\ sjfStep = "fetch" /\ sjfTick = 0 /\ preempted = 0
      /\ together = TRUE
  BY DEF SjfInit
<1>3. \A p \in PID : sjfPcb[p] \in PCB /\ sjfPcb[p].state = "NEW"
                     /\ sjfPcb[p].remaining = sjfPcb[p].burst
  BY <1>1, SjfAssumption DEF NewProcess, PCB, ProcessState, Tick, Levels, NUM_LEVELS
<1>4. SjfTypeOK
  BY <1>1, <1>2, <1>3, EmptySeq DEF SjfTypeOK
<1>5. SjfQueued
  BY <1>2, <1>3, EmptyLists, EmptySorted DEF SjfQueued, Lists
<1>6. Missing = {}
  BY <1>3 DEF Missing
<1>7. SjfMissing /\ SjfOnCpu
  BY <1>2, <1>6, FS_EmptySet DEF SjfMissing, SjfOnCpu
<1> QED
  BY <1>4, <1>5, <1>7 DEF SjfInv

(* What the queue and the table owe to the steps that leave the queue's    *)
(* processes alone.                                                        *)
LEMMA QueuedKept ==
  ASSUME SjfInv, sjfQueue' = sjfQueue, sjfPcb' \in [PID -> PCB],
         onCpu' = onCpu \/ onCpu' = None,
         \A p \in Range(sjfQueue) :
           /\ sjfPcb'[p].state = sjfPcb[p].state /\ sjfPcb'[p].arrival = sjfPcb[p].arrival
           /\ sjfPcb'[p].remaining = sjfPcb[p].remaining /\ sjfPcb'[p].burst = sjfPcb[p].burst,
         \A p \in PID : sjfPcb'[p].state = "NEW" =>
           /\ sjfPcb[p].state = "NEW"
           /\ sjfPcb'[p].remaining = sjfPcb[p].remaining /\ sjfPcb'[p].burst = sjfPcb[p].burst
  PROVE  SjfQueued'
<1>1. sjfQueue \in Seq(PID) /\ Range(sjfQueue) \subseteq PID /\ None \notin PID
  BY NoneAssumption, SeqFacts DEF SjfInv, SjfTypeOK
<1>2. SortedBy(sjfQueue, ShorterLess(sjfPcb'))
  BY <1>1, SortedByKeys DEF SjfInv, SjfQueued
<1> QED
  BY <1>1, <1>2 DEF SjfInv, SjfQueued

(* add_process inserts by what remains. *)
LEMMA SjfAddInv ==
  ASSUME SjfInv, NEW p \in PID, SjfAdd(p)
  PROVE  SjfInv'
<1> DEFINE Q == Range(sjfQueue)
<1>1. /\ sjfPcb[p].state = "NEW"
      /\ sjfPcb' = [sjfPcb EXCEPT ![p].state = "READY", ![p].arrival = sjfTick]
      /\ sjfQueue' = InsertAll(sjfQueue, <<p>>, ShorterLess(sjfPcb'))
      /\ together' \in BOOLEAN
      /\ UNCHANGED <<mode, onCpu, front, sjfStep, sjfTick, preempted>>
      /\ SjfTypeOK
  <2>1. together' = (together /\ \A q \in PID : sjfPcb[q].start = None)
    BY DEF SjfAdd
  <2>2. together' \in BOOLEAN
    BY <2>1, Zenon DEF SjfInv, SjfTypeOK
  <2> QED
    BY <2>2 DEF SjfAdd, Pushed, SjfInv
<1>2. /\ sjfPcb' \in [PID -> PCB]
      /\ sjfPcb'[p].state = "READY" /\ sjfPcb'[p].remaining = sjfPcb[p].remaining
      /\ sjfPcb'[p].burst = sjfPcb[p].burst
      /\ \A q \in PID \ {p} : sjfPcb'[q] = sjfPcb[q]
  <2> DEFINE row == [sjfPcb[p] EXCEPT !.state = "READY", !.arrival = sjfTick]
  <2>1. sjfPcb \in [PID -> PCB] /\ sjfPcb[p] \in PCB /\ sjfTick \in Nat
    BY <1>1 DEF SjfTypeOK
  <2>2. sjfPcb' = [sjfPcb EXCEPT ![p] = row]
    BY <1>1, <2>1
  <2>3. /\ row \in PCB /\ row.state = "READY" /\ row.remaining = sjfPcb[p].remaining
        /\ row.burst = sjfPcb[p].burst
    BY <2>1 DEF PCB, ProcessState, Tick
  <2> HIDE DEF row
  <2> QED
    BY <2>1, <2>2, <2>3
<1>3. Lists(sjfQueue, Q) /\ p \notin Q /\ Lists(<<p>>, {p}) /\ Q \subseteq PID
  BY <1>1, SingletonLists, SeqFacts DEF SjfInv, SjfQueued, SjfTypeOK
<1>4. StrictWeakOrder(ShorterLess(sjfPcb'))
  BY <1>2, ShorterLessIsWeakOrder
<1> HIDE DEF Q
<1>5. Lists(sjfQueue', {p} \cup Q) /\ SortedBy(sjfQueue', ShorterLess(sjfPcb'))
  BY <1>1, <1>3, <1>4, InsertAllLists, InsertAllSorts
<1>6. sjfQueue' \in Seq(PID) /\ Range(sjfQueue') = {p} \cup Q
  BY <1>5 DEF Lists
<1>7. SjfTypeOK'
  BY <1>1, <1>2, <1>6 DEF SjfTypeOK
<1>8. onCpu # p /\ onCpu \notin Q
  BY <1>1, NoneAssumption DEF SjfInv, SjfOnCpu, SjfQueued, Q
<1>9. SjfQueued'
  BY <1>1, <1>2, <1>3, <1>5, <1>6, <1>8 DEF SjfInv, SjfQueued, Q
<1>10. SjfOnCpu'
  BY <1>1, <1>2, <1>8 DEF SjfInv, SjfOnCpu, SjfTypeOK
<1>11. Missing' = Missing
  BY <1>1, <1>2, <1>6 DEF Missing, Q
<1>12. SjfMissing'
  BY <1>1, <1>11 DEF SjfInv, SjfMissing
<1> QED
  BY <1>7, <1>9, <1>10, <1>12 DEF SjfInv

(* drain_queue and import_queue sort again. *)
LEMMA SjfReimportInv ==
  ASSUME SjfInv, SjfReimport
  PROVE  SjfInv'
<1> DEFINE Q == Range(sjfQueue)
<1>1. /\ UNCHANGED <<mode, sjfPcb, onCpu, front, sjfStep, sjfTick, preempted, together>>
      /\ sjfQueue' = InsertAll(<<>>, sjfQueue, ShorterLess(sjfPcb))
      /\ SjfTypeOK /\ Lists(sjfQueue, Q)
  BY DEF SjfReimport, SjfInv, SjfQueued
<1>2. StrictWeakOrder(ShorterLess(sjfPcb)) /\ Lists(<<>>, {}) /\ {} \cap Q = {}
  BY <1>1, ShorterLessIsWeakOrder, EmptyLists DEF SjfTypeOK
<1> HIDE DEF Q
<1>3. Lists(sjfQueue', Q \cup {}) /\ SortedBy(sjfQueue', ShorterLess(sjfPcb))
  BY <1>1, <1>2, InsertAllLists, InsertAllSorts
<1>4. sjfQueue' \in Seq(PID) /\ Range(sjfQueue') = Q /\ Lists(sjfQueue', Q)
  <2>1. Q \cup {} = Q
    OBVIOUS
  <2> QED
    BY <1>3, <2>1 DEF Lists
<1>5. SjfTypeOK' /\ SjfOnCpu'
  BY <1>1, <1>4 DEF SjfInv, SjfTypeOK, SjfOnCpu
<1>6. SjfQueued'
  BY <1>1, <1>3, <1>4 DEF SjfInv, SjfQueued, Q
<1>7. Missing' = Missing
  BY <1>1, <1>4 DEF Missing, Q
<1>8. SjfMissing'
  BY <1>1, <1>7 DEF SjfInv, SjfMissing
<1> QED
  BY <1>5, <1>6, <1>8 DEF SjfInv

(* get_next_process takes the front. *)
LEMMA SjfDispatchInv ==
  ASSUME SjfInv, SjfDispatch
  PROVE  SjfInv'
<1> DEFINE Q == Range(sjfQueue)
           h == Head(sjfQueue)
           row == [sjfPcb[h] EXCEPT !.state = "RUNNING", !.quantum = sjfPcb[h].remaining,
                                    !.start = IF @ = None THEN sjfTick ELSE @]
<1>1. /\ sjfStep = "fetch" /\ sjfQueue # <<>> /\ SjfTypeOK /\ sjfQueue \in Seq(PID)
      /\ onCpu' = h /\ sjfQueue' = Tail(sjfQueue)
      /\ sjfPcb' = [sjfPcb EXCEPT ![h] = row] /\ sjfStep' = "snapshot"
      /\ UNCHANGED <<mode, front, sjfTick, preempted, together>>
      /\ Lists(sjfQueue, Q)
  BY DEF SjfDispatch, SjfInv, SjfTypeOK, SjfQueued
<1>2. h \in Q /\ Lists(sjfQueue', Q \ {h}) /\ Q \subseteq PID
  BY <1>1, TailLists, SeqFacts
<1>3. /\ row \in PCB /\ row.state = "RUNNING" /\ row.burst = sjfPcb[h].burst
  <2>1. sjfPcb[h] \in PCB /\ sjfTick \in Nat
    BY <1>1, <1>2 DEF SjfTypeOK
  <2> QED
    BY <2>1 DEF PCB, ProcessState, Tick
<1> HIDE DEF Q, row
<1>4. /\ sjfPcb' \in [PID -> PCB] /\ sjfPcb'[h] = row
      /\ \A p \in PID \ {h} : sjfPcb'[p] = sjfPcb[p]
  BY <1>1, <1>2, <1>3 DEF SjfTypeOK
<1>5. sjfQueue' \in Seq(PID) /\ Range(sjfQueue') = Q \ {h}
  BY <1>2 DEF Lists
<1>6. SjfTypeOK'
  BY <1>1, <1>2, <1>4, <1>5 DEF SjfTypeOK
<1>7. SortedBy(sjfQueue', ShorterLess(sjfPcb'))
  <2>1. SortedBy(sjfQueue', ShorterLess(sjfPcb))
    BY <1>1, TailSorted DEF SjfInv, SjfQueued
  <2>2. \A p \in Range(sjfQueue') : sjfPcb'[p] = sjfPcb[p]
    BY <1>2, <1>4, <1>5
  <2> QED
    BY <1>5, <2>1, <2>2, SortedByKeys
<1>8. SjfQueued' /\ SjfOnCpu'
  BY <1>1, <1>2, <1>3, <1>4, <1>5, <1>7, NoneAssumption
     DEF SjfInv, SjfQueued, SjfOnCpu, Q
<1>9. Missing' = Missing
  <2>1. onCpu = None /\ sjfPcb[h].state = "READY"
    BY <1>1, <1>2 DEF SjfInv, SjfOnCpu, SjfQueued, Q
  <2> QED
    BY <1>1, <1>2, <1>3, <1>4, <1>5, <2>1, NoneAssumption DEF Missing, Q
<1>10. SjfMissing'
  BY <1>1, <1>9 DEF SjfInv, SjfMissing
<1> QED
  BY <1>6, <1>8, <1>10 DEF SjfInv

(* A preemption lets go of one more process; only SRTF preempts. *)
LEMMA SjfPreemptInv ==
  ASSUME SjfInv, SjfPreempt
  PROVE  SjfInv'
<1>1. /\ sjfStep = "preempt" /\ SjfTypeOK /\ front' = None
      /\ UNCHANGED <<mode, sjfQueue, sjfPcb, sjfTick, together>>
      /\ preempted \in Nat /\ onCpu \in PID /\ sjfPcb[onCpu].state = "RUNNING"
  BY DEF SjfPreempt, SjfInv, SjfTypeOK, SjfOnCpu
<1>2. CASE SjfPreempts(onCpu, front)
  <2>1. /\ onCpu' = None /\ preempted' = preempted + 1 /\ sjfStep' = "ontick"
        /\ mode = "SRTF"
    BY <1>2 DEF SjfPreempt, SjfPreempts
  <2>2. SjfTypeOK' /\ SjfOnCpu'
    BY <1>1, <2>1 DEF SjfTypeOK, SjfOnCpu
  <2>3. SjfQueued'
    BY <1>1, <2>1, QueuedKept DEF SjfTypeOK
  <2>4. onCpu \notin Missing /\ Missing' = Missing \cup {onCpu}
    BY <1>1, <2>1, NoneAssumption DEF SjfInv, SjfQueued, Missing
  <2>5. Cardinality(Missing)' = Cardinality(Missing) + 1
    BY <2>4, MissingFinite, FS_AddElement
  <2>6. SjfMissing'
    BY <1>1, <2>1, <2>5 DEF SjfInv, SjfMissing
  <2> QED
    BY <2>2, <2>3, <2>6 DEF SjfInv
<1>3. CASE ~SjfPreempts(onCpu, front)
  <2>1. sjfStep' = "exec" /\ UNCHANGED <<onCpu, preempted>>
    BY <1>3 DEF SjfPreempt
  <2>2. SjfTypeOK' /\ SjfOnCpu'
    BY <1>1, <2>1, NoneAssumption DEF SjfInv, SjfTypeOK, SjfOnCpu
  <2>3. SjfQueued'
    BY <1>1, <2>1, QueuedKept DEF SjfTypeOK
  <2>4. SjfMissing'
    BY <1>1, <2>1 DEF SjfInv, SjfMissing, Missing
  <2> QED
    BY <2>2, <2>3, <2>4 DEF SjfInv
<1> QED
  BY <1>2, <1>3

(* A tick of execution, with the completion it may bring. *)
LEMMA SjfExecuteInv ==
  ASSUME SjfInv, SjfExecute
  PROVE  SjfInv'
<1> DEFINE dec(n) == IF n > 0 THEN n - 1 ELSE 0
           old == sjfPcb[onCpu]
           row == [old EXCEPT !.remaining = dec(@), !.quantum = dec(@)]
           last == [row EXCEPT !.state = "TERMINATED", !.finish = sjfTick]
<1>1. /\ SjfTypeOK /\ onCpu \in PID /\ old \in PCB /\ old.state = "RUNNING"
      /\ sjfTick \in Nat /\ sjfStep' = "ontick"
      /\ UNCHANGED <<mode, sjfQueue, front, sjfTick, preempted, together>>
      /\ onCpu \notin Range(sjfQueue)
  BY DEF SjfExecute, SjfInv, SjfTypeOK, SjfOnCpu, SjfQueued
<1>2. \/ sjfPcb' = [sjfPcb EXCEPT ![onCpu] = row] /\ onCpu' = onCpu
      \/ sjfPcb' = [sjfPcb EXCEPT ![onCpu] = last] /\ onCpu' = None
  BY DEF SjfExecute
<1>3. /\ row \in PCB /\ row.state = "RUNNING"
      /\ last \in PCB /\ last.state = "TERMINATED"
  <2>1. dec(old.remaining) \in Nat /\ dec(old.quantum) \in Nat
    BY <1>1 DEF PCB, Tick
  <2> HIDE DEF dec, old
  <2>2. row \in PCB /\ row.state = "RUNNING"
    BY <1>1, <2>1 DEF PCB, Tick
  <2>3. last \in PCB /\ last.state = "TERMINATED"
    BY <1>1, <2>2 DEF PCB, ProcessState, Tick
  <2> QED
    BY <2>2, <2>3
<1> HIDE DEF row, last
<1>4. /\ sjfPcb' \in [PID -> PCB]
      /\ \A p \in PID \ {onCpu} : sjfPcb'[p] = sjfPcb[p]
      /\ \/ sjfPcb'[onCpu].state = "RUNNING" /\ onCpu' = onCpu
         \/ sjfPcb'[onCpu].state = "TERMINATED" /\ onCpu' = None
  BY <1>1, <1>2, <1>3 DEF SjfTypeOK
<1>5. SjfTypeOK' /\ SjfOnCpu'
  BY <1>1, <1>4, NoneAssumption DEF SjfTypeOK, SjfOnCpu
<1>6. Range(sjfQueue) \subseteq PID
  BY <1>1, SeqFacts DEF SjfTypeOK
<1>7. SjfQueued'
  BY <1>1, <1>4, <1>6, QueuedKept
<1>8. Missing' = Missing
  BY <1>1, <1>4, NoneAssumption DEF Missing
<1>9. SjfMissing'
  BY <1>1, <1>8 DEF SjfInv, SjfMissing
<1> QED
  BY <1>5, <1>7, <1>9 DEF SjfInv

(* check_starvation counts, nothing else. *)
LEMMA SjfOnTickInv ==
  ASSUME SjfInv, SjfOnTick
  PROVE  SjfInv'
<1>1. /\ SjfTypeOK /\ sjfStep = "ontick" /\ sjfStep' = "tick"
      /\ UNCHANGED <<mode, sjfQueue, onCpu, front, sjfTick, preempted, together>>
      /\ DOMAIN sjfPcb' = PID
      /\ \A p \in PID : \/ sjfPcb'[p] = sjfPcb[p]
                        \/ sjfPcb'[p] = [sjfPcb[p] EXCEPT !.starved = @ + 1]
  BY DEF SjfOnTick, SjfInv
<1>2. ASSUME NEW p \in PID
      PROVE  /\ sjfPcb'[p] \in PCB /\ sjfPcb'[p].state = sjfPcb[p].state
             /\ sjfPcb'[p].arrival = sjfPcb[p].arrival
             /\ sjfPcb'[p].remaining = sjfPcb[p].remaining
             /\ sjfPcb'[p].burst = sjfPcb[p].burst
  <2> DEFINE old == sjfPcb[p]
  <2>1. old \in PCB
    BY <1>1 DEF SjfTypeOK
  <2>2. sjfPcb'[p] = old \/ sjfPcb'[p] = [old EXCEPT !.starved = @ + 1]
    BY <1>1
  <2> HIDE DEF old
  <2>3. /\ sjfPcb'[p] \in PCB /\ sjfPcb'[p].state = old.state
        /\ sjfPcb'[p].arrival = old.arrival
        /\ sjfPcb'[p].remaining = old.remaining
        /\ sjfPcb'[p].burst = old.burst
    BY <2>1, <2>2 DEF PCB
  <2> QED
    BY <2>3 DEF old
<1>3. sjfPcb' \in [PID -> PCB]
  <2>1. sjfPcb' = [p \in PID |-> sjfPcb'[p]]
    BY DEF SjfOnTick
  <2> QED
    BY <1>2, <2>1
<1>4. Range(sjfQueue) \subseteq PID
  BY <1>1, SeqFacts DEF SjfTypeOK
<1>5. SjfTypeOK' /\ SjfOnCpu'
  BY <1>1, <1>2, <1>3 DEF SjfInv, SjfTypeOK, SjfOnCpu
<1>6. SjfQueued'
  BY <1>1, <1>2, <1>3, <1>4, QueuedKept
<1>7. Missing' = Missing
  BY <1>1, <1>2 DEF Missing
<1>8. SjfMissing'
  BY <1>1, <1>7 DEF SjfInv, SjfMissing
<1> QED
  BY <1>5, <1>6, <1>8 DEF SjfInv

LEMMA SjfStepInv == SjfInv /\ [SjfNext]_sjfVars => SjfInv'
<1> SUFFICES ASSUME SjfInv, [SjfNext]_sjfVars PROVE SjfInv'
  OBVIOUS
<1>1. CASE UNCHANGED <<mode, sjfQueue, sjfPcb, onCpu, preempted, together>>
           /\ (UNCHANGED sjfVars \/ SjfIdle \/ SjfSnapshot \/ SjfAdvance)
  <2>1. SjfTypeOK'
    <3>1. sjfTick' \in Nat
      BY <1>1 DEF SjfInv, SjfTypeOK, sjfVars, SjfIdle, SjfSnapshot, SjfAdvance
    <3>2. front' \in PID \cup {None}
      <4>1. sjfQueue # <<>> => Head(sjfQueue) \in PID
        BY HeadTailProperties DEF SjfInv, SjfTypeOK
      <4> QED
        BY <1>1, <4>1 DEF SjfInv, SjfTypeOK, sjfVars, SjfIdle, SjfSnapshot, SjfAdvance
    <3>3. sjfStep' \in {"fetch", "snapshot", "preempt", "exec", "ontick", "tick"}
      BY <1>1 DEF SjfInv, SjfTypeOK, sjfVars, SjfIdle, SjfSnapshot, SjfAdvance
    <3> QED
      BY <1>1, <3>1, <3>2, <3>3 DEF SjfInv, SjfTypeOK
  <2>2. SjfOnCpu'
    BY <1>1 DEF SjfInv, SjfOnCpu, sjfVars, SjfIdle, SjfSnapshot, SjfAdvance
  <2>3. SjfQueued'
    BY <1>1, QueuedKept DEF SjfInv, SjfTypeOK
  <2>4. SjfMissing'
    BY <1>1 DEF SjfInv, SjfMissing, Missing
  <2> QED
    BY <2>1, <2>2, <2>3, <2>4 DEF SjfInv
<1>2. UNCHANGED sjfVars \/ SjfIdle \/ SjfSnapshot \/ SjfAdvance
        => UNCHANGED <<mode, sjfQueue, sjfPcb, onCpu, preempted, together>>
  BY DEF sjfVars, SjfIdle, SjfSnapshot, SjfAdvance
<1> QED
  BY <1>1, <1>2, SjfAddInv, SjfReimportInv, SjfDispatchInv, SjfPreemptInv,
     SjfExecuteInv, SjfOnTickInv
     DEF SjfNext

LEMMA AlwaysSjfInv == SjfSpec => []SjfInv
BY SjfInitInv, SjfStepInv, PTL DEF SjfSpec

(* SjfScheduler!OnlyPreemptedAreMissing: whatever is submitted, drained    *)
(* and imported when, the processes that are nowhere are those SRTF        *)
(* preempted, and the non-preemptive mode has none.                        *)
THEOREM OnlyPreemptionLoses == SjfSpec => []OnlyPreemptedAreMissing
<1>1. SjfInv => OnlyPreemptedAreMissing
  BY DEF SjfInv, SjfQueued, SjfMissing, Lists, OnlyPreemptedAreMissing
<1> QED
  BY <1>1, AlwaysSjfInv, PTL

(* The front of the queue has the shortest burst. *)
LEMMA HeadIsShortest ==
  ASSUME SjfInv, sjfQueue # <<>>, NEW p \in Range(sjfQueue)
  PROVE  sjfPcb[Head(sjfQueue)].burst <= sjfPcb[p].burst
<1>1. sjfQueue \in Seq(PID) /\ sjfPcb \in [PID -> PCB]
  BY DEF SjfInv, SjfTypeOK
<1>2. /\ DOMAIN sjfQueue = 1 .. Len(sjfQueue) /\ Len(sjfQueue) \in Nat \ {0}
      /\ Head(sjfQueue) = sjfQueue[1]
  BY <1>1, LenProperties, EmptySeq
<1>3. PICK i \in DOMAIN sjfQueue : p = sjfQueue[i]
  BY DEF Range
<1>4. 1 \in DOMAIN sjfQueue /\ sjfQueue[1] \in Range(sjfQueue)
  BY <1>2 DEF Range
<1>5. /\ sjfPcb[p].remaining = sjfPcb[p].burst
      /\ sjfPcb[sjfQueue[1]].remaining = sjfPcb[sjfQueue[1]].burst
  BY <1>4 DEF SjfInv, SjfQueued
<1>6. /\ sjfPcb[p].burst \in Nat /\ sjfPcb[sjfQueue[1]].burst \in Nat
      /\ p \in PID /\ sjfQueue[1] \in PID
  BY <1>1, <1>3, <1>4, SeqFacts DEF PCB, Tick
<1>7. CASE i = 1
  BY <1>2, <1>3, <1>6, <1>7
<1>8. CASE i # 1
  <2>1. 1 < i
    BY <1>2, <1>3, <1>8
  <2>2. <<sjfQueue[i], sjfQueue[1]>> \notin ShorterLess(sjfPcb)
    BY <1>4, <2>1 DEF SjfInv, SjfQueued, SortedBy
  <2>3. ~(sjfPcb[p].remaining < sjfPcb[sjfQueue[1]].remaining)
    BY <1>3, <1>6, <2>2 DEF ShorterLess
  <2> QED
    BY <1>2, <1>5, <1>6, <2>3
<1> QED
  BY <1>7, <1>8

(* SjfScheduler!ShortestFirst: every dispatch takes the process with the   *)
(* shortest burst of all that are queued.                                  *)
THEOREM ShortestIsFirst == SjfSpec => ShortestFirst
<1> DEFINE Shortest ==
      onCpu = None /\ onCpu' # None =>
        \A p \in Range(sjfQueue) : sjfPcb[onCpu'].burst <= sjfPcb[p].burst
<1>1. ASSUME SjfInv, [SjfNext]_sjfVars, onCpu = None, onCpu' # None
      PROVE  SjfDispatch
  BY <1>1 DEF SjfNext, sjfVars, SjfAdd, SjfReimport, SjfIdle, SjfSnapshot, SjfPreempt,
              SjfExecute, SjfOnTick, SjfAdvance, SjfInv, SjfOnCpu
<1>2. ASSUME SjfInv, SjfDispatch, NEW p \in Range(sjfQueue)
      PROVE  sjfPcb[onCpu'].burst <= sjfPcb[p].burst
  <2>1. sjfQueue # <<>> /\ onCpu' = Head(sjfQueue)
    BY <1>2 DEF SjfDispatch
  <2> QED
    BY <1>2, <2>1, HeadIsShortest
<1>3. SjfInv /\ [SjfNext]_sjfVars => [Shortest]_sjfVars
  BY <1>1, <1>2
<1> QED
  BY <1>3, AlwaysSjfInv, PTL DEF SjfSpec, ShortestFirst
-----------------------------------------------------------------------------
(* BatchIsOptimal.  The sum of completion times of an order is the sum,    *)
(* over all pairs of processes, of the ticks of the one that comes first;  *)
(* no order does better for a pair than to begin with the shorter one.     *)
DoneBy(place, ticks, S) ==
  [p \in S |-> [q \in S |-> IF place[q] <= place[p] THEN ticks[q] ELSE 0]]
LEMMA ShortestFirstIsBest ==
  ASSUME NEW S, IsFiniteSet(S), NEW ticks \in [S -> Nat],
         NEW f \in [S -> Int], NEW r \in [S -> Int],
         \A p, q \in S : f[p] = f[q] \/ r[p] = r[q] => p = q,
         \A p, q \in S : f[p] < f[q] => ticks[p] <= ticks[q]
  PROVE  TableSum(DoneBy(f, ticks, S), S) <= TableSum(DoneBy(r, ticks, S), S)
<1> DEFINE a(g) == DoneBy(g, ticks, S)
           b(g) == [p \in S |-> [q \in S |-> a(g)[p][q] + a(g)[q][p]]]
           R(g) == [p \in S |-> SumFunction(b(g)[p])]
<1>1. ASSUME NEW g \in [S -> Int]
      PROVE  /\ TableSum(a(g), S) \in Int
             /\ SumFunction(R(g)) = 2 * TableSum(a(g), S)
             /\ R(g) \in [S -> Int] /\ \A p \in S : b(g)[p] \in [S -> Int]
  <2>1. a(g) \in [S -> [S -> Int]]
    BY DEF DoneBy
  <2> HIDE DEF a
  <2>2. b(g) \in [S -> [S -> Int]]
    BY <2>1
  <2>3. \A p, q \in S : b(g)[p][q] = a(g)[p][q] + a(g)[q][p]
    OBVIOUS
  <2>4. \A p \in S : b(g)[p] \in [S -> Int]
    BY <2>2
  <2>5. TableSum(b(g), S) = SumFunction(R(g))
    BY DEF TableSum
  <2> HIDE DEF b
  <2>6. R(g) \in [S -> Int]
    BY <2>4, SumIsInt
  <2> QED
    BY <2>1, <2>2, <2>3, <2>4, <2>5, <2>6, MirrorSum
<1>2. ASSUME NEW p \in S, NEW q \in S
      PROVE  b(f)[p][q] <= b(r)[p][q]
  <2>1. b(f)[p][q] = (IF f[q] <= f[p] THEN ticks[q] ELSE 0) + (IF f[p] <= f[q] THEN ticks[p] ELSE 0)
    BY DEF DoneBy
  <2>2. b(r)[p][q] = (IF r[q] <= r[p] THEN ticks[q] ELSE 0) + (IF r[p] <= r[q] THEN ticks[p] ELSE 0)
    BY DEF DoneBy
  <2>3. /\ ticks[p] \in Nat /\ ticks[q] \in Nat
        /\ f[p] \in Int /\ f[q] \in Int /\ r[p] \in Int /\ r[q] \in Int
    OBVIOUS
  <2>4. /\ f[p] < f[q] => ticks[p] <= ticks[q]
        /\ f[q] < f[p] => ticks[q] <= ticks[p]
        /\ f[p] = f[q] \/ r[p] = r[q] => p = q
    OBVIOUS
  <2> HIDE DEF a, b
  <2> QED
    BY <2>1, <2>2, <2>3, <2>4
<1>3. \A p \in S : R(f)[p] <= R(r)[p]
  <2> SUFFICES ASSUME NEW p \in S PROVE SumFunction(b(f)[p]) <= SumFunction(b(r)[p])
    OBVIOUS
  <2>1. b(f)[p] \in [S -> Int] /\ b(r)[p] \in [S -> Int]
    BY <1>1
  <2>2. \A q \in S : b(f)[p][q] <= b(r)[p][q]
    BY <1>2
  <2> HIDE DEF b
  <2> QED
    BY <2>1, <2>2, SumsGrow
<1> HIDE DEF R, b, a
<1>4. SumFunction(R(f)) <= SumFunction(R(r))
  BY <1>1, <1>3, SumsGrow
<1> QED
  BY <1>1, <1>4 DEF a

(* The invariant behind it.  A process has started unless it is yet to     *)
(* come or queued, finishes once, and what is about to be compared with    *)
(* the running process is queued.                                          *)
SjfLifecycle ==
  /\ \A p \in PID :
       /\ sjfPcb[p].start = None <=> sjfPcb[p].state \in {"NEW", "READY"}
       /\ sjfPcb[p].finish # None <=> sjfPcb[p].state = "TERMINATED"
  /\ sjfStep = "preempt" => front \in Range(sjfQueue)

(* The tick of the next execution, the ticks the finished processes took,  *)
(* and those that were over at t.                                          *)
NextTick == IF sjfStep \in {"ontick", "tick"} THEN sjfTick + 1 ELSE sjfTick
Finished == {p \in PID : sjfPcb[p].finish # None}
Spent == SumFunction([q \in PID |-> IF q \in Finished THEN Ticks(q) ELSE 0])
SpentBy(t) ==
  SumFunction([q \in PID |->
    IF q \in Finished /\ sjfPcb[q].finish <= t THEN Ticks(q) ELSE 0])

(* Since the first start at b the CPU was never idle and took the shorter  *)
(* processes first;                                                        *)
Past(b) ==
  /\ \E p \in PID : sjfPcb[p].start = b
  /\ \A p \in PID : sjfPcb[p].start # None => b <= sjfPcb[p].start
  /\ \A p \in Finished : /\ sjfPcb[p].finish = b - 1 + SpentBy(sjfPcb[p].finish)
                         /\ sjfPcb[p].finish < b + Spent
  /\ \A p, q \in Finished :
       /\ sjfPcb[p].finish = sjfPcb[q].finish => p = q
       /\ sjfPcb[p].finish < sjfPcb[q].finish => Ticks(p) <= Ticks(q)
(* the running process is no longer than the queued ones, and none of them *)
(* is shorter than a finished one.                                         *)
Present(b) ==
  /\ b <= sjfTick
  /\ \A p \in Finished : \A q \in Range(sjfQueue) \cup ({onCpu} \ {None}) :
       Ticks(p) <= Ticks(q)
  /\ onCpu # None =>
       /\ \A q \in Range(sjfQueue) : sjfPcb[onCpu].burst <= sjfPcb[q].burst
       /\ sjfPcb[onCpu].remaining <= sjfPcb[onCpu].burst
       /\ sjfPcb[onCpu].remaining = 0 => sjfPcb[onCpu].burst = 0
       /\ NextTick = b + Spent + sjfPcb[onCpu].burst - sjfPcb[onCpu].remaining
  /\ onCpu = None /\ sjfQueue # <<>> => NextTick = b + Spent
BatchInv ==
  together => \/ \A p \in PID : sjfPcb[p].start = None
              \/ \E b \in Nat : Past(b) /\ Present(b)

(* Whatever does not touch state, start and finish keeps the life cycle. *)
LEMMA LifecycleKept ==
  ASSUME SjfLifecycle, sjfStep' = "preempt" => front' \in Range(sjfQueue'),
         \A p \in PID : /\ sjfPcb'[p].state = sjfPcb[p].state
                        /\ sjfPcb'[p].start = sjfPcb[p].start
                        /\ sjfPcb'[p].finish = sjfPcb[p].finish
  PROVE  SjfLifecycle'
BY DEF SjfLifecycle

(* drain_queue and import_queue keep what is queued. *)
LEMMA ReimportKeeps ==
  ASSUME SjfInv, SjfReimport
  PROVE  /\ Range(sjfQueue') = Range(sjfQueue)
         /\ sjfQueue' # <<>> => sjfQueue # <<>>
<1>1. /\ sjfQueue' = InsertAll(<<>>, sjfQueue, ShorterLess(sjfPcb))
      /\ Lists(sjfQueue, Range(sjfQueue)) /\ Lists(<<>>, {}) /\ {} \cap Range(sjfQueue) = {}
      /\ sjfPcb \in [PID -> PCB]
  BY EmptyLists DEF SjfReimport, SjfInv, SjfQueued, SjfTypeOK
<1>2. Lists(sjfQueue', Range(sjfQueue) \cup {})
  BY <1>1, ShorterLessIsWeakOrder, InsertAllLists
<1>3. sjfQueue' \in Seq(PID) /\ Range(sjfQueue') = Range(sjfQueue)
  BY <1>2 DEF Lists
<1>4. ASSUME sjfQueue = <<>> PROVE sjfQueue' = <<>>
  <2>1. Range(sjfQueue') = {}
    BY <1>3, <1>4, EmptyLists DEF Lists
  <2>2. Len(sjfQueue') = 0
    BY <1>3, <2>1, SeqFacts
  <2> QED
    BY <1>3, <2>2, EmptySeq
<1> QED
  BY <1>3, <1>4

LEMMA LifecycleStep ==
  ASSUME SjfInv, SjfLifecycle, [SjfNext]_sjfVars
  PROVE  SjfLifecycle'
<1>1. SjfTypeOK /\ sjfQueue \in Seq(PID) /\ Range(sjfQueue) \subseteq PID /\ None \notin PID
  BY NoneAssumption, SeqFacts DEF SjfInv, SjfTypeOK
<1>2. ASSUME NEW p \in PID, SjfAdd(p) PROVE SjfLifecycle'
  <2>1. /\ sjfPcb[p].state = "NEW" /\ sjfPcb \in [PID -> PCB]
        /\ sjfPcb' = [sjfPcb EXCEPT ![p].state = "READY", ![p].arrival = sjfTick]
        /\ UNCHANGED <<front, sjfStep>>
    BY <1>1, <1>2 DEF SjfAdd, SjfTypeOK
  <2>2. Range(sjfQueue) \subseteq Range(sjfQueue')
    <3>1. sjfQueue' = InsertAll(sjfQueue, <<p>>, ShorterLess(sjfPcb'))
      BY <1>2 DEF SjfAdd, Pushed
    <3>2. Lists(sjfQueue, Range(sjfQueue)) /\ Lists(<<p>>, {p}) /\ Range(sjfQueue) \cap {p} = {}
      BY <2>1, SingletonLists DEF SjfInv, SjfQueued
    <3>3. sjfPcb' \in [PID -> PCB]
      BY <1>2, SjfAddInv DEF SjfInv, SjfTypeOK
    <3>4. Lists(sjfQueue', {p} \cup Range(sjfQueue))
      BY <3>1, <3>2, <3>3, ShorterLessIsWeakOrder, InsertAllLists
    <3> QED
      BY <3>4 DEF Lists
  <2>3. /\ sjfPcb'[p].state = "READY" /\ sjfPcb'[p].start = sjfPcb[p].start
        /\ sjfPcb'[p].finish = sjfPcb[p].finish
        /\ \A q \in PID \ {p} : sjfPcb'[q] = sjfPcb[q]
    BY <2>1 DEF PCB
  <2> QED
    BY <2>1, <2>2, <2>3 DEF SjfLifecycle
<1>3. CASE SjfReimport
  BY <1>3, ReimportKeeps, LifecycleKept DEF SjfReimport, SjfLifecycle
<1>4. CASE SjfDispatch
  <2> DEFINE h == Head(sjfQueue)
             row == [sjfPcb[h] EXCEPT !.state = "RUNNING", !.quantum = sjfPcb[h].remaining,
                                      !.start = IF @ = None THEN sjfTick ELSE @]
  <2>1. sjfPcb' = [sjfPcb EXCEPT ![h] = row] /\ sjfStep' = "snapshot" /\ sjfQueue # <<>>
    BY <1>4 DEF SjfDispatch
  <2>2. h \in Range(sjfQueue) /\ h \in PID /\ sjfPcb[h].state = "READY"
    BY <1>1, <2>1, TailLists DEF SjfInv, SjfQueued
  <2>3. /\ row.state = "RUNNING" /\ row.start # None /\ row.finish = sjfPcb[h].finish
    BY <1>1, <2>2, NoneAssumption DEF SjfTypeOK, PCB, Tick
  <2> HIDE DEF row, h
  <2>4. sjfPcb'[h] = row /\ \A q \in PID \ {h} : sjfPcb'[q] = sjfPcb[q]
    BY <1>1, <2>1, <2>2 DEF SjfTypeOK
  <2> QED
    BY <2>1, <2>2, <2>3, <2>4 DEF SjfLifecycle
<1>5. CASE SjfIdle \/ SjfPreempt \/ SjfAdvance \/ UNCHANGED sjfVars
  BY <1>5, LifecycleKept
     DEF SjfIdle, SjfPreempt, SjfAdvance, sjfVars, SjfLifecycle
<1>6. CASE SjfSnapshot
  <2>1. sjfQueue # <<>> => Head(sjfQueue) \in Range(sjfQueue)
    BY <1>1, TailLists DEF SjfInv, SjfQueued
  <2> QED
    BY <1>6, <2>1, LifecycleKept DEF SjfSnapshot
<1>7. CASE SjfExecute
  <2> DEFINE dec(n) == IF n > 0 THEN n - 1 ELSE 0
             old == sjfPcb[onCpu]
             row == [old EXCEPT !.remaining = dec(@), !.quantum = dec(@)]
             last == [row EXCEPT !.state = "TERMINATED", !.finish = sjfTick]
  <2>1. /\ \/ sjfPcb' = [sjfPcb EXCEPT ![onCpu] = row]
           \/ sjfPcb' = [sjfPcb EXCEPT ![onCpu] = last]
        /\ sjfStep' = "ontick"
    BY <1>7 DEF SjfExecute
  <2>2. /\ onCpu \in PID /\ old \in PCB /\ old.state = "RUNNING" /\ sjfTick \in Nat
    BY <1>1, <1>7 DEF SjfExecute, SjfInv, SjfOnCpu, SjfTypeOK
  <2>3. /\ row.state = old.state /\ row.start = old.start /\ row.finish = old.finish
        /\ last.state = "TERMINATED" /\ last.start = old.start /\ last.finish = sjfTick
    BY <2>2 DEF PCB
  <2>4. sjfTick # None
    BY <2>2, NoneAssumption
  <2> HIDE DEF row, last
  <2>5. /\ \A q \in PID \ {onCpu} : sjfPcb'[q] = sjfPcb[q]
        /\ sjfPcb'[onCpu] = row \/ sjfPcb'[onCpu] = last
    BY <1>1, <2>1, <2>2 DEF SjfTypeOK
  <2> QED
    BY <2>1, <2>2, <2>3, <2>4, <2>5 DEF SjfLifecycle
<1>8. CASE SjfOnTick
  <2>1. \A p \in PID : \/ sjfPcb'[p] = sjfPcb[p]
                       \/ sjfPcb'[p] = [sjfPcb[p] EXCEPT !.starved = @ + 1]
    BY <1>8 DEF SjfOnTick
  <2>2. \A p \in PID : sjfPcb[p] \in PCB
    BY <1>1 DEF SjfTypeOK
  <2>3. \A p \in PID : /\ sjfPcb'[p].state = sjfPcb[p].state
                       /\ sjfPcb'[p].start = sjfPcb[p].start
                       /\ sjfPcb'[p].finish = sjfPcb[p].finish
    BY <2>1, <2>2 DEF PCB
  <2> QED
    BY <1>8, <2>3, LifecycleKept DEF SjfOnTick
<1> QED
  BY <1>2, <1>3, <1>4, <1>5, <1>6, <1>7, <1>8 DEF SjfNext

(* What keeps finishes and bursts keeps the sums; what starts no process   *)
(* before b keeps the past.                                                *)
LEMMA PastKept ==
  ASSUME NEW b \in Nat,
         \A p \in PID :
           /\ sjfPcb'[p].finish = sjfPcb[p].finish /\ sjfPcb'[p].burst = sjfPcb[p].burst
           /\ \/ sjfPcb'[p].start = sjfPcb[p].start
              \/ sjfPcb[p].start = None /\ b <= sjfPcb'[p].start
  PROVE  /\ Finished' = Finished /\ Spent' = Spent
         /\ \A p \in PID : Ticks(p)' = Ticks(p)
         /\ Past(b) => Past(b)'
<1>1. \A p \in PID : Ticks(p)' = Ticks(p)
  BY DEF Ticks
<1>2. Finished' = Finished /\ Finished \subseteq PID
  BY DEF Finished
<1>3. Spent' = Spent
  <2>1. [q \in PID |-> IF q \in Finished THEN Ticks(q) ELSE 0]'
          = [q \in PID |-> IF q \in Finished THEN Ticks(q) ELSE 0]
    BY <1>1, <1>2
  <2> QED
    BY <2>1 DEF Spent
<1>4. \A t : SpentBy(t)' = SpentBy(t)
  <2> SUFFICES ASSUME NEW t PROVE SpentBy(t)' = SpentBy(t)
    OBVIOUS
  <2>1. [q \in PID |-> IF q \in Finished /\ sjfPcb[q].finish <= t THEN Ticks(q) ELSE 0]'
          = [q \in PID |-> IF q \in Finished /\ sjfPcb[q].finish <= t THEN Ticks(q) ELSE 0]
    BY <1>1, <1>2
  <2> QED
    BY <2>1 DEF SpentBy
<1>5. ASSUME Past(b) PROVE Past(b)'
  <2>1. \A p \in Finished' :
          /\ sjfPcb'[p].finish = b - 1 + SpentBy(sjfPcb[p].finish)'
          /\ sjfPcb'[p].finish < b + Spent'
    BY <1>2, <1>3, <1>4, <1>5 DEF Past
  <2>2. \E p \in PID : sjfPcb'[p].start = b
    BY <1>5, NoneAssumption DEF Past
  <2>3. \A p \in PID : sjfPcb'[p].start # None => b <= sjfPcb'[p].start
    BY <1>5 DEF Past
  <2> QED
    BY <1>1, <1>2, <1>5, <2>1, <2>2, <2>3 DEF Past
<1> QED
  BY <1>1, <1>2, <1>3, <1>5

LEMMA TicksOfBurst ==
  ASSUME SjfTypeOK
  PROVE  \A p \in PID : /\ Ticks(p) \in Nat \ {0} /\ sjfPcb[p].burst \in Nat
                        /\ sjfPcb[p].remaining \in Nat
                        /\ \A q \in PID : sjfPcb[p].burst <= sjfPcb[q].burst => Ticks(p) <= Ticks(q)
<1>1. \A p \in PID : sjfPcb[p].burst \in Nat /\ sjfPcb[p].remaining \in Nat
  BY DEF SjfTypeOK, PCB, Tick
<1>2. \A p \in PID : Ticks(p) \in Nat \ {0}
  BY <1>1 DEF Ticks
<1>3. \A p, q \in PID : sjfPcb[p].burst <= sjfPcb[q].burst => Ticks(p) <= Ticks(q)
  BY <1>1 DEF Ticks
<1> QED
  BY <1>1, <1>2, <1>3

LEMMA SpentIsInt == ASSUME SjfTypeOK PROVE Spent \in Int
<1>1. [q \in PID |-> IF q \in Finished THEN Ticks(q) ELSE 0] \in [PID -> Int]
  BY TicksOfBurst
<1> QED
  BY <1>1, PIDAssumption, SumIsInt DEF Spent

(* The first dispatch of a batch. *)
LEMMA BatchBegins ==
  ASSUME SjfInv, SjfLifecycle, SjfDispatch, \A p \in PID : sjfPcb[p].start = None,
         NEW b, b = sjfTick
  PROVE  Past(b)' /\ Present(b)'
<1> DEFINE h == Head(sjfQueue)
           row == [sjfPcb[h] EXCEPT !.state = "RUNNING", !.quantum = sjfPcb[h].remaining,
                                    !.start = sjfTick]
<1>1. /\ SjfTypeOK /\ sjfQueue \in Seq(PID) /\ sjfQueue # <<>>
      /\ h \in PID /\ h \in Range(sjfQueue)
      /\ Range(Tail(sjfQueue)) \subseteq Range(sjfQueue)
      /\ Range(sjfQueue) \subseteq PID
  BY TailLists, SeqFacts DEF SjfInv, SjfTypeOK, SjfQueued, SjfDispatch, Lists
<1>2. /\ sjfPcb' = [sjfPcb EXCEPT ![h] = row] /\ onCpu' = h /\ sjfQueue' = Tail(sjfQueue)
      /\ sjfStep' = "snapshot" /\ sjfTick' = sjfTick
  BY <1>1 DEF SjfDispatch
<1>3. /\ row.start = sjfTick /\ row.finish = sjfPcb[h].finish
      /\ row.burst = sjfPcb[h].burst /\ row.remaining = sjfPcb[h].remaining
  BY <1>1 DEF SjfTypeOK, PCB
<1> HIDE DEF row
<1>4. sjfPcb'[h] = row /\ \A q \in PID \ {h} : sjfPcb'[q] = sjfPcb[q]
  BY <1>1, <1>2 DEF SjfTypeOK
<1>5. \A q \in PID : /\ sjfPcb'[q].finish = None
                     /\ sjfPcb'[q].burst = sjfPcb[q].burst
                     /\ sjfPcb'[q].remaining = sjfPcb[q].remaining
  BY <1>3, <1>4 DEF SjfLifecycle
<1>6. Finished' = {} /\ Spent' = 0
  <2>1. Finished' = {}
    BY <1>5 DEF Finished
  <2>2. [q \in PID |-> IF q \in Finished THEN Ticks(q) ELSE 0]' = [q \in PID |-> 0]
    BY <2>1
  <2> QED
    BY <2>1, <2>2, PIDAssumption, SumOfZeros DEF Spent
<1>7. /\ sjfTick \in Nat /\ sjfTick # None
      /\ \A q \in PID : sjfPcb[q].burst \in Nat
  BY <1>1, NoneAssumption, TicksOfBurst DEF SjfTypeOK
<1>8. Past(b)'
  BY <1>1, <1>2, <1>3, <1>4, <1>6, <1>7 DEF Past
<1>9. \A q \in Range(sjfQueue) : sjfPcb[h].burst <= sjfPcb[q].burst
  BY <1>1, HeadIsShortest
<1>10. sjfPcb[h].remaining = sjfPcb[h].burst
  BY <1>1 DEF SjfInv, SjfQueued
<1>11. NextTick' = sjfTick
  BY <1>2 DEF NextTick
<1> HIDE DEF h
<1>12. h # None
  BY <1>1, NoneAssumption
<1>13. Present(b)'
  BY <1>1, <1>2, <1>5, <1>6, <1>7, <1>9, <1>10, <1>11, <1>12 DEF Present
<1> QED
  BY <1>8, <1>13

(* A later one. *)
LEMMA BatchGoesOn ==
  ASSUME SjfInv, SjfLifecycle, SjfDispatch, NEW b \in Nat, Past(b), Present(b)
  PROVE  Past(b)' /\ Present(b)'
<1> DEFINE h == Head(sjfQueue)
           row == [sjfPcb[h] EXCEPT !.state = "RUNNING", !.quantum = sjfPcb[h].remaining,
                                    !.start = sjfTick]
<1>1. /\ SjfTypeOK /\ sjfQueue \in Seq(PID) /\ sjfQueue # <<>>
      /\ h \in PID /\ h \in Range(sjfQueue)
      /\ Range(Tail(sjfQueue)) \subseteq Range(sjfQueue)
      /\ Range(sjfQueue) \subseteq PID /\ onCpu = None
  BY TailLists, SeqFacts DEF SjfInv, SjfTypeOK, SjfQueued, SjfDispatch, Lists, SjfOnCpu
<1>2. sjfPcb[h].start = None
  BY <1>1 DEF SjfLifecycle, SjfInv, SjfQueued
<1>3. /\ sjfPcb' = [sjfPcb EXCEPT ![h] = row] /\ onCpu' = h /\ sjfQueue' = Tail(sjfQueue)
      /\ sjfStep = "fetch" /\ sjfStep' = "snapshot" /\ sjfTick' = sjfTick
  BY <1>1, <1>2 DEF SjfDispatch
<1>4. /\ row.start = sjfTick /\ row.finish = sjfPcb[h].finish
      /\ row.burst = sjfPcb[h].burst /\ row.remaining = sjfPcb[h].remaining
  BY <1>1 DEF SjfTypeOK, PCB
<1> HIDE DEF row
<1>5. sjfPcb'[h] = row /\ \A q \in PID \ {h} : sjfPcb'[q] = sjfPcb[q]
  BY <1>1, <1>3 DEF SjfTypeOK
<1>6. \A q \in PID : /\ sjfPcb'[q].finish = sjfPcb[q].finish
                     /\ sjfPcb'[q].burst = sjfPcb[q].burst
                     /\ sjfPcb'[q].remaining = sjfPcb[q].remaining
  BY <1>4, <1>5
<1>7. /\ Finished' = Finished /\ Spent' = Spent /\ \A q \in PID : Ticks(q)' = Ticks(q)
      /\ Past(b)'
  <2>1. b <= sjfTick
    BY DEF Present
  <2>2. \A q \in PID : \/ sjfPcb'[q].start = sjfPcb[q].start
                       \/ sjfPcb[q].start = None /\ b <= sjfPcb'[q].start
    BY <1>2, <1>4, <1>5, <2>1
  <2> QED
    BY <1>6, <2>2, PastKept
<1>8. \A q \in Range(sjfQueue) : sjfPcb[h].burst <= sjfPcb[q].burst
  BY <1>1, HeadIsShortest
<1>9. sjfPcb[h].remaining = sjfPcb[h].burst /\ sjfPcb[h].burst \in Nat
  BY <1>1, TicksOfBurst DEF SjfInv, SjfQueued
<1>10. NextTick = sjfTick /\ NextTick' = sjfTick /\ sjfTick = b + Spent
  BY <1>1, <1>3 DEF NextTick, Present
<1>11. Spent \in Int /\ h # None
  BY <1>1, NoneAssumption, SpentIsInt
<1>12. Finished \subseteq PID
  BY DEF Finished
<1> HIDE DEF h
<1>13. Present(b)'
  <2>1. b <= sjfTick'
    BY <1>3 DEF Present
  <2>2. \A p \in Finished' : \A q \in Range(sjfQueue)' \cup ({onCpu'} \ {None}) :
          Ticks(p)' <= Ticks(q)'
    <3>1. \A p \in Finished : \A q \in Range(sjfQueue) : Ticks(p) <= Ticks(q)
      BY DEF Present
    <3>2. Range(sjfQueue)' \cup ({onCpu'} \ {None}) \subseteq Range(sjfQueue)
      BY <1>1, <1>3
    <3> QED
      BY <1>1, <1>7, <1>12, <3>1, <3>2
  <2>3. \A q \in Range(sjfQueue)' : sjfPcb'[h].burst <= sjfPcb'[q].burst
    BY <1>1, <1>3, <1>6, <1>8
  <2>4. /\ sjfPcb'[h].remaining = sjfPcb'[h].burst /\ sjfPcb'[h].burst \in Nat
        /\ NextTick' = b + Spent' + sjfPcb'[h].burst - sjfPcb'[h].remaining
    BY <1>1, <1>6, <1>7, <1>9, <1>10, <1>11
  <2> QED
    BY <1>3, <1>11, <2>1, <2>2, <2>3, <2>4 DEF Present
<1> QED
  BY <1>7, <1>13

(* A tick of execution.  A process that completes does so behind all the   *)
(* finished ones, after as many ticks as they and it took.                 *)
LEMMA BatchExecutes ==
  ASSUME SjfInv, SjfLifecycle, SjfExecute, NEW b \in Nat, Past(b), Present(b),
         NEW c, c = onCpu
  PROVE  Past(b)' /\ Present(b)'
<1> DEFINE dec(n) == IF n > 0 THEN n - 1 ELSE 0
           old == sjfPcb[c]
           row == [old EXCEPT !.remaining = dec(@), !.quantum = dec(@)]
           last == [row EXCEPT !.state = "TERMINATED", !.finish = sjfTick]
<1>1. /\ SjfTypeOK /\ c \in PID /\ c # None /\ old \in PCB /\ old.state = "RUNNING"
      /\ sjfTick \in Nat /\ sjfStep = "exec" /\ sjfStep' = "ontick"
      /\ sjfQueue' = sjfQueue /\ sjfTick' = sjfTick /\ Range(sjfQueue) \subseteq PID
  BY NoneAssumption, SeqFacts DEF SjfExecute, SjfInv, SjfTypeOK, SjfOnCpu, SjfQueued
<1>2. \/ /\ dec(old.remaining) > 0 /\ onCpu' = c
         /\ sjfPcb' = [sjfPcb EXCEPT ![c] = row]
      \/ /\ ~(dec(old.remaining) > 0) /\ onCpu' = None
         /\ sjfPcb' = [sjfPcb EXCEPT ![c] = last]
  BY <1>1 DEF SjfExecute, PCB
<1>3. /\ row.burst = old.burst /\ row.start = old.start /\ row.finish = old.finish
      /\ row.remaining = dec(old.remaining)
      /\ last.burst = old.burst /\ last.start = old.start /\ last.finish = sjfTick
  BY <1>1 DEF PCB
<1>4. /\ old.burst \in Nat /\ old.remaining \in Nat /\ Ticks(c) \in Nat \ {0}
      /\ Ticks(c) = IF old.burst = 0 THEN 1 ELSE old.burst
  BY <1>1, TicksOfBurst DEF Ticks
<1>5. /\ \A q \in Range(sjfQueue) : old.burst <= sjfPcb[q].burst
      /\ old.remaining <= old.burst /\ (old.remaining = 0 => old.burst = 0)
      /\ sjfTick = b + Spent + old.burst - old.remaining
      /\ Spent \in Int /\ b <= sjfTick
  BY <1>1, SpentIsInt DEF Present, NextTick
<1>6. NextTick' = sjfTick + 1
  BY <1>1 DEF NextTick
<1> HIDE DEF row, last
<1>7. CASE sjfPcb' = [sjfPcb EXCEPT ![c] = row] /\ dec(old.remaining) > 0 /\ onCpu' = c
  <2>1. sjfPcb'[c] = row /\ \A q \in PID \ {c} : sjfPcb'[q] = sjfPcb[q]
    BY <1>1, <1>7 DEF SjfTypeOK
  <2>2. \A q \in PID : /\ sjfPcb'[q].finish = sjfPcb[q].finish
                       /\ sjfPcb'[q].burst = sjfPcb[q].burst
                       /\ sjfPcb'[q].start = sjfPcb[q].start
    BY <1>3, <2>1
  <2>3. /\ Finished' = Finished /\ Spent' = Spent /\ Past(b)'
        /\ \A q \in PID : Ticks(q)' = Ticks(q)
    BY <2>2, PastKept
  <2>4. old.remaining - 1 > 0 /\ sjfPcb'[c].remaining = old.remaining - 1
    BY <1>3, <1>4, <1>7, <2>1
  <2>5. \A p \in Finished' : \A q \in Range(sjfQueue)' \cup ({onCpu'} \ {None}) :
          Ticks(p)' <= Ticks(q)'
    <3>1. \A p \in Finished : \A q \in Range(sjfQueue) \cup ({onCpu} \ {None}) :
            Ticks(p) <= Ticks(q)
      BY DEF Present
    <3>2. Finished \subseteq PID /\ Range(sjfQueue) \cup ({onCpu} \ {None}) \subseteq PID
      BY <1>1 DEF Finished
    <3> QED
      BY <1>1, <1>7, <2>3, <3>1, <3>2
  <2> HIDE DEF dec
  <2>6. /\ \A q \in Range(sjfQueue)' : sjfPcb'[c].burst <= sjfPcb'[q].burst
        /\ sjfPcb'[c].remaining <= sjfPcb'[c].burst
        /\ sjfPcb'[c].remaining # 0
        /\ NextTick' = b + Spent' + sjfPcb'[c].burst - sjfPcb'[c].remaining
    BY <1>1, <1>4, <1>5, <1>6, <2>2, <2>3, <2>4
  <2> HIDE DEF old
  <2> QED
    BY <1>1, <1>5, <1>7, <2>3, <2>5, <2>6 DEF Present
<1>8. CASE sjfPcb' = [sjfPcb EXCEPT ![c] = last] /\ ~(dec(old.remaining) > 0) /\ onCpu' = None
  <2>1. sjfPcb'[c] = last /\ \A q \in PID \ {c} : sjfPcb'[q] = sjfPcb[q]
    BY <1>1, <1>8 DEF SjfTypeOK
  <2>2. /\ \A q \in PID : /\ sjfPcb'[q].burst = sjfPcb[q].burst
                          /\ sjfPcb'[q].start = sjfPcb[q].start
                          /\ Ticks(q)' = Ticks(q)
        /\ \A q \in PID \ {c} : sjfPcb'[q].finish = sjfPcb[q].finish
        /\ sjfPcb'[c].finish = sjfTick
    BY <1>3, <2>1 DEF Ticks
  <2>3. Finished' = Finished \cup {c} /\ c \notin Finished /\ Finished \subseteq PID
    <3>1. c \notin Finished
      BY <1>1 DEF SjfLifecycle, Finished
    <3>2. sjfTick # None
      BY <1>1, NoneAssumption
    <3> QED
      BY <1>1, <2>2, <3>1, <3>2 DEF Finished
  <2>4. Spent' = Spent + Ticks(c)
    <3> DEFINE w == [q \in PID |-> IF q \in Finished THEN Ticks(q) ELSE 0]
               v == [q \in PID |-> IF q \in Finished' THEN Ticks(q)' ELSE 0]
    <3>1. w \in [PID -> Int] /\ v \in [PID -> Int]
      BY <1>1, <2>2, TicksOfBurst
    <3>2. v[c] = w[c] + Ticks(c) /\ \A q \in PID \ {c} : v[q] = w[q]
      BY <1>1, <1>4, <2>2, <2>3
    <3>3. Spent = SumFunction(w) /\ Spent' = SumFunction(v)
      BY DEF Spent
    <3> HIDE DEF w, v
    <3> QED
      BY <1>1, <1>4, <3>1, <3>2, <3>3, PIDAssumption, SumMoves
  <2>5. sjfTick = b + Spent + Ticks(c) - 1
    <3>1. old.remaining \in {0, 1}
      BY <1>4, <1>8
    <3> HIDE DEF dec, old
    <3> QED
      BY <1>4, <1>5, <3>1
  <2>6. ASSUME NEW p \in Finished
        PROVE  /\ sjfPcb'[p].finish = sjfPcb[p].finish
               /\ sjfPcb'[p].finish < sjfTick /\ sjfPcb'[p].finish \in Nat
               /\ sjfPcb'[p].finish = b - 1 + SpentBy(sjfPcb[p].finish)
               /\ sjfPcb'[p].finish < b + Spent
    <3>1. p \in PID \ {c} /\ sjfPcb[p].finish # None /\ sjfPcb[p] \in PCB
      BY <1>1, <2>3 DEF Finished, SjfTypeOK
    <3>2. sjfPcb[p].finish \in Nat
      BY <3>1 DEF PCB, Tick
    <3>3. /\ sjfPcb[p].finish = b - 1 + SpentBy(sjfPcb[p].finish)
          /\ sjfPcb[p].finish < b + Spent
      BY DEF Past
    <3> QED
      BY <1>4, <1>5, <2>2, <2>5, <3>1, <3>2, <3>3
  <2>7. ASSUME NEW p \in Finished
        PROVE  SpentBy(sjfPcb[p].finish)' = SpentBy(sjfPcb[p].finish)
    <3> DEFINE w == [q \in PID |-> IF q \in Finished /\ sjfPcb[q].finish <= sjfPcb[p].finish
                                   THEN Ticks(q) ELSE 0]
               v == [q \in PID |-> IF q \in Finished' /\ sjfPcb'[q].finish <= sjfPcb'[p].finish
                                   THEN Ticks(q)' ELSE 0]
    <3>1. ~(sjfTick <= sjfPcb'[p].finish)
      BY <1>1, <2>6
    <3>2. \A q \in PID : v[q] = w[q]
      BY <1>1, <2>2, <2>3, <2>6, <3>1
    <3>3. v = w
      BY <3>2
    <3> QED
      BY <3>3 DEF SpentBy
  <2>8. SpentBy(sjfPcb[c].finish)' = Spent'
    <3> DEFINE w == [q \in PID |-> IF q \in Finished' THEN Ticks(q)' ELSE 0]
               v == [q \in PID |-> IF q \in Finished' /\ sjfPcb'[q].finish <= sjfPcb'[c].finish
                                   THEN Ticks(q)' ELSE 0]
    <3>1. \A q \in Finished' : sjfPcb'[q].finish <= sjfPcb'[c].finish
      BY <1>1, <2>2, <2>3, <2>6
    <3>2. v = w
      BY <3>1
    <3> QED
      BY <3>2 DEF SpentBy, Spent
  <2>9. Past(b)'
    <3>1. \A p \in Finished' : /\ sjfPcb'[p].finish = b - 1 + SpentBy(sjfPcb[p].finish)'
                               /\ sjfPcb'[p].finish < b + Spent'
      <4>1. /\ sjfPcb'[c].finish = b - 1 + Spent'
            /\ sjfPcb'[c].finish < b + Spent' /\ b + Spent <= b + Spent'
        BY <1>4, <1>5, <2>2, <2>4, <2>5
      <4>2. ASSUME NEW p \in Finished
            PROVE  /\ sjfPcb'[p].finish = b - 1 + SpentBy(sjfPcb[p].finish)'
                   /\ sjfPcb'[p].finish < b + Spent'
        <5>1. Spent' \in Int
          BY <1>4, <1>5, <2>4
        <5> QED
          BY <1>5, <2>6, <2>7, <4>1, <5>1
      <4> QED
        BY <2>3, <2>8, <4>1, <4>2
    <3>2. \A p, q \in Finished' :
            /\ sjfPcb'[p].finish = sjfPcb'[q].finish => p = q
            /\ sjfPcb'[p].finish < sjfPcb'[q].finish => Ticks(p)' <= Ticks(q)'
      <4>1. \A p, q \in Finished :
              /\ sjfPcb'[p].finish = sjfPcb'[q].finish => p = q
              /\ sjfPcb'[p].finish < sjfPcb'[q].finish => Ticks(p)' <= Ticks(q)'
        <5>1. \A p, q \in Finished :
                /\ sjfPcb[p].finish = sjfPcb[q].finish => p = q
                /\ sjfPcb[p].finish < sjfPcb[q].finish => Ticks(p) <= Ticks(q)
          BY DEF Past
        <5> QED
          BY <2>2, <2>3, <2>6, <5>1
      <4>2. \A p \in Finished : Ticks(p)' <= Ticks(c)'
        <5>1. \A p \in Finished : Ticks(p) <= Ticks(c)
          BY <1>1 DEF Present
        <5> QED
          BY <1>1, <2>2, <2>3, <5>1
      <4>3. \A p \in Finished : /\ sjfPcb'[p].finish # sjfPcb'[c].finish
                                /\ ~(sjfPcb'[c].finish < sjfPcb'[p].finish)
        BY <1>1, <2>2, <2>6
      <4>4. ~(sjfPcb'[c].finish < sjfPcb'[c].finish)
        BY <1>1, <2>2
      <4> QED
        BY <2>3, <4>1, <4>2, <4>3, <4>4
    <3> QED
      BY <2>2, <3>1, <3>2 DEF Past
  <2>10. \A p \in Finished' : \A q \in Range(sjfQueue)' : Ticks(p)' <= Ticks(q)'
    <3>1. \A p \in Finished : \A q \in Range(sjfQueue) : Ticks(p) <= Ticks(q)
      BY DEF Present
    <3>2. \A q \in Range(sjfQueue) : Ticks(c) <= Ticks(q)
      BY <1>1, <1>5, TicksOfBurst
    <3> QED
      BY <1>1, <2>2, <2>3, <3>1, <3>2
  <2>11. NextTick' = b + Spent'
    BY <1>4, <1>5, <1>6, <2>4, <2>5
  <2> QED
    BY <1>1, <1>5, <1>8, <2>9, <2>10, <2>11 DEF Present
<1> QED
  BY <1>2, <1>7, <1>8

(* The other steps touch neither. *)
LEMMA PresentKept ==
  ASSUME NEW b \in Nat, SjfTypeOK, Past(b), Present(b),
         \A p \in PID : /\ sjfPcb'[p].finish = sjfPcb[p].finish
                        /\ sjfPcb'[p].burst = sjfPcb[p].burst
                        /\ sjfPcb'[p].start = sjfPcb[p].start
                        /\ sjfPcb'[p].remaining = sjfPcb[p].remaining,
         onCpu' = onCpu, sjfTick <= sjfTick', sjfTick' \in Nat,
         Range(sjfQueue') = Range(sjfQueue), sjfQueue' # <<>> => sjfQueue # <<>>,
         onCpu # None \/ sjfQueue # <<>> => NextTick' = NextTick
  PROVE  Past(b)' /\ Present(b)'
<1>1. /\ Finished' = Finished /\ Spent' = Spent /\ Past(b)'
      /\ \A q \in PID : Ticks(q)' = Ticks(q)
  BY PastKept
<1>2. /\ Finished \subseteq PID /\ Range(sjfQueue) \subseteq PID
      /\ onCpu \in PID \cup {None} /\ sjfTick \in Nat
  BY SeqFacts DEF Finished, SjfTypeOK
<1>3. \A p \in Finished' : \A q \in Range(sjfQueue)' \cup ({onCpu'} \ {None}) :
        Ticks(p)' <= Ticks(q)'
  <2>1. \A p \in Finished : \A q \in Range(sjfQueue) \cup ({onCpu} \ {None}) :
          Ticks(p) <= Ticks(q)
    BY DEF Present
  <2> QED
    BY <1>1, <1>2, <2>1
<1>4. b <= sjfTick'
  BY <1>2 DEF Present
<1>5. ASSUME onCpu # None
      PROVE  /\ \A q \in Range(sjfQueue)' : sjfPcb'[onCpu].burst <= sjfPcb'[q].burst
             /\ sjfPcb'[onCpu].remaining <= sjfPcb'[onCpu].burst
             /\ sjfPcb'[onCpu].remaining = 0 => sjfPcb'[onCpu].burst = 0
             /\ NextTick' = b + Spent' + sjfPcb'[onCpu].burst - sjfPcb'[onCpu].remaining
  BY <1>1, <1>2, <1>5 DEF Present
<1>6. onCpu = None /\ sjfQueue' # <<>> => NextTick' = b + Spent'
  BY <1>1 DEF Present
<1> QED
  BY <1>1, <1>3, <1>4, <1>5, <1>6 DEF Present

LEMMA BatchRests ==
  ASSUME SjfInv, SjfLifecycle, NEW b \in Nat, Past(b), Present(b),
         \/ SjfReimport \/ SjfIdle \/ SjfSnapshot \/ SjfPreempt
         \/ SjfOnTick \/ SjfAdvance \/ UNCHANGED sjfVars
  PROVE  Past(b)' /\ Present(b)'
<1>1. SjfTypeOK /\ sjfTick \in Nat
  BY DEF SjfInv, SjfTypeOK
<1>2. CASE SjfReimport
  <2>1. Range(sjfQueue') = Range(sjfQueue) /\ (sjfQueue' # <<>> => sjfQueue # <<>>)
    BY <1>2, ReimportKeeps
  <2>2. NextTick' = NextTick /\ UNCHANGED <<sjfPcb, onCpu, sjfTick>>
    BY <1>2 DEF SjfReimport, NextTick
  <2> QED
    BY <1>1, <2>1, <2>2, PresentKept
<1>3. CASE SjfIdle
  <2>1. UNCHANGED <<sjfPcb, onCpu, sjfTick, sjfQueue>> /\ onCpu = None /\ sjfQueue = <<>>
    BY <1>3 DEF SjfIdle, SjfInv, SjfOnCpu
  <2> QED
    BY <1>1, <2>1, PresentKept
<1>4. CASE SjfSnapshot
  <2>1. UNCHANGED <<sjfPcb, onCpu, sjfTick, sjfQueue>> /\ NextTick' = NextTick
    BY <1>4 DEF SjfSnapshot, NextTick
  <2> QED
    BY <1>1, <2>1, PresentKept
<1>5. CASE SjfPreempt
  <2>1. ~SjfPreempts(onCpu, front)
    <3>1. front \in Range(sjfQueue) /\ onCpu # None /\ onCpu \in PID /\ front \in PID
      BY <1>1, <1>5, SeqFacts DEF SjfPreempt, SjfLifecycle, SjfInv, SjfOnCpu, SjfTypeOK
    <3>2. /\ sjfPcb[onCpu].burst <= sjfPcb[front].burst
          /\ sjfPcb[onCpu].remaining <= sjfPcb[onCpu].burst
          /\ sjfPcb[front].remaining = sjfPcb[front].burst
      BY <3>1 DEF Present, SjfInv, SjfQueued
    <3> QED
      BY <1>1, <3>1, <3>2, TicksOfBurst DEF SjfPreempts, Shorter
  <2>2. UNCHANGED <<sjfPcb, onCpu, sjfTick, sjfQueue>> /\ NextTick' = NextTick
    BY <1>5, <2>1 DEF SjfPreempt, NextTick
  <2> QED
    BY <1>1, <2>2, PresentKept
<1>6. CASE SjfOnTick
  <2>1. UNCHANGED <<onCpu, sjfTick, sjfQueue>> /\ NextTick' = NextTick
    BY <1>6 DEF SjfOnTick, NextTick
  <2>2. \A p \in PID : \/ sjfPcb'[p] = sjfPcb[p]
                       \/ sjfPcb'[p] = [sjfPcb[p] EXCEPT !.starved = @ + 1]
    BY <1>6 DEF SjfOnTick
  <2>3. \A p \in PID : sjfPcb[p] \in PCB
    BY <1>1 DEF SjfTypeOK
  <2>4. \A p \in PID : /\ sjfPcb'[p].finish = sjfPcb[p].finish
                       /\ sjfPcb'[p].burst = sjfPcb[p].burst
                       /\ sjfPcb'[p].start = sjfPcb[p].start
                       /\ sjfPcb'[p].remaining = sjfPcb[p].remaining
    BY <2>2, <2>3 DEF PCB
  <2> QED
    BY <1>1, <2>1, <2>4, PresentKept
<1>7. CASE SjfAdvance
  <2>1. /\ UNCHANGED <<sjfPcb, onCpu, sjfQueue>> /\ NextTick' = NextTick
        /\ sjfTick' = sjfTick + 1
    BY <1>7 DEF SjfAdvance, NextTick
  <2> QED
    BY <1>1, <2>1, PresentKept
<1>8. CASE UNCHANGED sjfVars
  <2>1. UNCHANGED <<sjfPcb, onCpu, sjfTick, sjfQueue>> /\ NextTick' = NextTick
    BY <1>8 DEF sjfVars, NextTick
  <2> QED
    BY <1>1, <2>1, PresentKept
<1> QED
  BY <1>2, <1>3, <1>4, <1>5, <1>6, <1>7, <1>8

LEMMA BatchStep ==
  ASSUME SjfInv, SjfLifecycle, BatchInv, [SjfNext]_sjfVars
  PROVE  BatchInv'
<1>1. CASE ~together'
  BY <1>1 DEF BatchInv
<1>2. CASE \E p \in PID : SjfAdd(p)
  <2> PICK p \in PID : SjfAdd(p)
    BY <1>2
  <2>1. /\ together' = (together /\ \A q \in PID : sjfPcb[q].start = None)
        /\ sjfPcb' = [sjfPcb EXCEPT ![p].state = "READY", ![p].arrival = sjfTick]
        /\ sjfPcb \in [PID -> PCB]
    BY DEF SjfAdd, SjfInv, SjfTypeOK
  <2>2. sjfPcb'[p].start = sjfPcb[p].start /\ \A q \in PID \ {p} : sjfPcb'[q] = sjfPcb[q]
    BY <2>1 DEF PCB
  <2>3. (\A q \in PID : sjfPcb[q].start = None) => \A q \in PID : sjfPcb'[q].start = None
    BY <2>2
  <2> QED
    BY <2>1, <2>3 DEF BatchInv
<1>3. ASSUME ~\E p \in PID : SjfAdd(p), together'
      PROVE  BatchInv'
  <2>1. together
    BY <1>3 DEF SjfNext, sjfVars, SjfReimport, SjfDispatch, SjfIdle, SjfSnapshot,
                SjfPreempt, SjfExecute, SjfOnTick, SjfAdvance
  <2>2. CASE SjfDispatch
    <3>1. sjfTick \in Nat
      BY DEF SjfInv, SjfTypeOK
    <3>2. \E b \in Nat : Past(b)' /\ Present(b)'
      BY <2>1, <2>2, <3>1, BatchBegins, BatchGoesOn DEF BatchInv
    <3> QED
      BY <3>2 DEF BatchInv
  <2>3. ASSUME ~SjfDispatch, NEW b \in Nat, Past(b), Present(b)
        PROVE  Past(b)' /\ Present(b)'
    BY <1>3, <2>3, BatchExecutes, BatchRests DEF SjfNext
  <2>4. ASSUME ~SjfDispatch, \A p \in PID : sjfPcb[p].start = None
        PROVE  \A p \in PID : sjfPcb'[p].start = None
    <3>1. ~SjfExecute
      BY <2>4 DEF SjfExecute, SjfLifecycle, SjfInv, SjfOnCpu, SjfTypeOK
    <3>2. CASE SjfOnTick
      <4>1. \A p \in PID : \/ sjfPcb'[p] = sjfPcb[p]
                           \/ sjfPcb'[p] = [sjfPcb[p] EXCEPT !.starved = @ + 1]
        BY <3>2 DEF SjfOnTick
      <4>2. \A p \in PID : sjfPcb[p] \in PCB
        BY DEF SjfInv, SjfTypeOK
      <4>3. \A p \in PID : sjfPcb'[p].start = sjfPcb[p].start
        BY <4>1, <4>2 DEF PCB
      <4> QED
        BY <2>4, <4>3
    <3>3. CASE UNCHANGED sjfPcb
      BY <2>4, <3>3
    <3> QED
      BY <1>3, <2>4, <3>1, <3>2, <3>3
         DEF SjfNext, sjfVars, SjfReimport, SjfIdle, SjfSnapshot, SjfPreempt, SjfAdvance
  <2> QED
    BY <2>1, <2>2, <2>3, <2>4 DEF BatchInv
<1> QED
  BY <1>1, <1>2, <1>3

(* SjfScheduler!BatchIsOptimal: when the processes of a batch have all     *)
(* completed, no order of execution beginning at the same tick would have  *)
(* had a smaller sum of completion times, in both modes.                   *)
THEOREM ShortestFirstIsOptimal == SjfSpec => []BatchIsOptimal
<1>1. SjfInit => SjfLifecycle /\ BatchInv
  <2> SUFFICES ASSUME SjfInit PROVE SjfLifecycle /\ BatchInv
    OBVIOUS
  <2>1. PICK bursts \in SjfBursts : sjfPcb = [p \in PID |-> NewProcess(0, bursts[p], 0)]
    BY DEF SjfInit
  <2>2. \A p \in PID : /\ sjfPcb[p].state = "NEW" /\ sjfPcb[p].start = None
                       /\ sjfPcb[p].finish = None
    BY <2>1 DEF NewProcess
  <2>3. sjfStep = "fetch"
    BY DEF SjfInit
  <2> QED
    BY <2>2, <2>3 DEF SjfLifecycle, BatchInv
<1>2. SjfInv /\ SjfLifecycle /\ BatchInv => BatchIsOptimal
  <2> SUFFICES ASSUME SjfInv, SjfLifecycle, BatchInv, together,
                      \A p \in PID : sjfPcb[p].finish # None,
                      NEW t \in PID, \A p \in PID : sjfPcb[t].start <= sjfPcb[p].start,
                      NEW place \in Bijection(PID, 1 .. Cardinality(PID))
               PROVE  SumFunction([p \in PID |-> sjfPcb[p].finish])
                        <= FinishSum(place, sjfPcb[t].start)
    BY DEF BatchIsOptimal
  <2> DEFINE begin == sjfPcb[t].start
             f == [p \in PID |-> sjfPcb[p].finish]
             ticks == [p \in PID |-> Ticks(p)]
             plain(g) == [p \in PID |-> SumFunction(DoneBy(g, ticks, PID)[p])]
             sum(g) == [p \in PID |-> begin - 1 + plain(g)[p]]
  <2>1. PICK b \in Nat : Past(b)
    <3>1. sjfPcb[t].start # None
      BY DEF SjfLifecycle
    <3> QED
      BY <3>1 DEF BatchInv
  <2>2. SjfTypeOK /\ \A p \in PID : sjfPcb[p].start \in Nat /\ sjfPcb[p].finish \in Nat
    BY DEF SjfInv, SjfTypeOK, SjfLifecycle, PCB, Tick
  <2>3. begin = b
    <3>1. PICK p \in PID : sjfPcb[p].start = b
      BY <2>1 DEF Past
    <3>2. b <= begin
      BY <2>1, <2>2, NoneAssumption DEF Past
    <3> QED
      BY <2>2, <3>1, <3>2
  <2>4. /\ f \in [PID -> Int] /\ ticks \in [PID -> Nat] /\ place \in [PID -> Int]
        /\ \A p, q \in PID : f[p] = f[q] \/ place[p] = place[q] => p = q
        /\ \A p, q \in PID : f[p] < f[q] => ticks[p] <= ticks[q]
    <3>1. Finished = PID
      BY DEF Finished
    <3>2. place \in [PID -> Int] /\ \A p, q \in PID : place[p] = place[q] => p = q
      BY DEF Bijection, Injection, IsInjective
    <3> QED
      BY <2>1, <2>2, <3>1, <3>2, TicksOfBurst DEF Past
  <2>5. TableSum(DoneBy(f, ticks, PID), PID) <= TableSum(DoneBy(place, ticks, PID), PID)
    BY <2>4, PIDAssumption, ShortestFirstIsBest
  <2>6. \A u, v, w \in [PID -> Int] :
        (\A p \in PID : w[p] = u[p] + v[p])
          => SumFunction(w) = SumFunction(u) + SumFunction(v)
    BY PIDAssumption, SumsAdd
  <2>7. ASSUME NEW g \in [PID -> Int]
        PROVE  /\ TableSum(DoneBy(g, ticks, PID), PID) \in Int
               /\ SumFunction(sum(g)) = SumFunction([p \in PID |-> begin - 1])
                                          + TableSum(DoneBy(g, ticks, PID), PID)
    <3> DEFINE k == [p \in PID |-> begin - 1]
    <3>1. \A p \in PID : DoneBy(g, ticks, PID)[p] \in [PID -> Int]
      BY <2>4 DEF DoneBy
    <3>2. plain(g) \in [PID -> Int]
      BY <3>1, PIDAssumption, SumIsInt
    <3>3. k \in [PID -> Int] /\ sum(g) \in [PID -> Int]
      BY <2>2, <3>2
    <3>4. \A p \in PID : sum(g)[p] = k[p] + plain(g)[p]
      OBVIOUS
    <3>5. TableSum(DoneBy(g, ticks, PID), PID) = SumFunction(plain(g))
      BY DEF TableSum
    <3> HIDE DEF k, sum, plain
    <3>6. SumFunction(sum(g)) = SumFunction(k) + SumFunction(plain(g))
      BY <3>2, <3>3, <3>4, <2>6
    <3>7. SumFunction(plain(g)) \in Int
      BY <3>2, PIDAssumption, SumIsInt
    <3> QED
      BY <3>5, <3>6, <3>7 DEF k
  <2>8. \A p \in PID : f[p] = sum(f)[p]
    <3> SUFFICES ASSUME NEW p \in PID PROVE f[p] = begin - 1 + plain(f)[p]
      OBVIOUS
    <3>1. DoneBy(f, ticks, PID)[p]
            = [q \in PID |-> IF q \in Finished /\ sjfPcb[q].finish <= sjfPcb[p].finish
                             THEN Ticks(q) ELSE 0]
      BY DEF DoneBy, Finished
    <3>2. plain(f)[p] = SpentBy(sjfPcb[p].finish)
      BY <3>1 DEF SpentBy
    <3>3. p \in Finished
      BY DEF Finished
    <3> QED
      BY <2>1, <2>3, <3>2, <3>3 DEF Past
  <2>9. sum(f) = f
    BY <2>8
  <2>10. FinishSum(place, begin) = SumFunction(sum(place))
    <3>1. \A p \in PID : DoneBy(place, ticks, PID)[p]
            = [q \in PID |-> IF place[q] <= place[p] THEN Ticks(q) ELSE 0]
      BY DEF DoneBy
    <3>2. sum(place) = [p \in PID |-> begin - 1 + SumFunction([q \in PID |->
                          IF place[q] <= place[p] THEN Ticks(q) ELSE 0])]
      BY <3>1
    <3> QED
      BY <3>2 DEF FinishSum
  <2>11. SumFunction([p \in PID |-> begin - 1]) \in Int
    <3>1. [p \in PID |-> begin - 1] \in [PID -> Int]
      BY <2>2
    <3> QED
      BY <3>1, PIDAssumption, SumIsInt
  <2> HIDE DEF f, sum, ticks
  <2>12. SumFunction(f) <= FinishSum(place, begin)
    BY <2>4, <2>5, <2>7, <2>9, <2>10, <2>11
  <2> QED
    BY <2>12 DEF f
<1>3. SjfInv /\ SjfLifecycle /\ BatchInv /\ [SjfNext]_sjfVars => (SjfLifecycle /\ BatchInv)'
  BY LifecycleStep, BatchStep
<1> QED
  BY <1>1, <1>2, <1>3, AlwaysSjfInv, PTL DEF SjfSpec
-----------------------------------------------------------------------------
(* What a step may do with SJF's queue, in the terms of the code: it loses  *)
(* its front, or processes are inserted, one after the other, at the        *)
(* position that std::lower_bound finds.                                    *)
SjfSearchStep ==
  \/ sjfQueue' = sjfQueue
  \/ sjfQueue # <<>> /\ sjfQueue' = Tail(sjfQueue)
  \/ \E p \in PID : sjfQueue' = InsertOneByOne(sjfQueue, <<p>>, ShorterLess(sjfPcb'))
  \/ sjfQueue' = InsertOneByOne(<<>>, sjfQueue, ShorterLess(sjfPcb'))

(* SJF's insertions search a queue that is sorted by the keys as they are   *)
(* then, although the process on the CPU and the one being submitted change *)
(* theirs (SJFScheduler::add_process, import_queue).                        *)
THEOREM SjfBySearch == SjfSpec => [][SjfSearchStep]_sjfVars
<1>1. ASSUME SjfInv, NEW p \in PID, SjfAdd(p) PROVE SjfSearchStep
  <2> DEFINE Q == Range(sjfQueue)
             less == ShorterLess(sjfPcb')
  <2>1. /\ sjfPcb[p].state = "NEW" /\ sjfPcb \in [PID -> PCB] /\ sjfTick \in Nat
        /\ sjfPcb' = [sjfPcb EXCEPT ![p].state = "READY", ![p].arrival = sjfTick]
        /\ sjfQueue' = InsertAll(sjfQueue, <<p>>, less)
        /\ Lists(sjfQueue, Q) /\ SortedBy(sjfQueue, ShorterLess(sjfPcb))
        /\ \A q \in Q : sjfPcb[q].state = "READY"
    BY <1>1 DEF SjfAdd, Pushed, SjfInv, SjfTypeOK, SjfQueued
  <2>2. p \notin Q /\ sjfQueue \in Seq(PID) /\ Q \subseteq PID
    BY <2>1, SeqFacts DEF Lists
  <2>3. \A q \in Q : sjfPcb'[q] = sjfPcb[q]
    BY <2>1, <2>2
  <2>4. SortedBy(sjfQueue, less)
    BY <2>1, <2>2, <2>3, SortedByKeys
  <2>5. StrictWeakOrder(less)
    <3>1. SjfInv'
      BY <1>1, SjfAddInv
    <3> QED
      BY <3>1, ShorterLessIsWeakOrder DEF SjfInv, SjfTypeOK
  <2>6. Lists(<<p>>, {p}) /\ Q \cap {p} = {}
    BY <2>2, SingletonLists
  <2> HIDE DEF Q, less
  <2>7. InsertOneByOne(sjfQueue, <<p>>, less) = InsertAll(sjfQueue, <<p>>, less)
    BY <2>1, <2>4, <2>5, <2>6, InsertionIsStableSort
  <2> QED
    BY <2>1, <2>7 DEF SjfSearchStep, less
<1>2. ASSUME SjfInv, SjfReimport PROVE SjfSearchStep
  <2>1. /\ sjfPcb' = sjfPcb /\ sjfPcb \in [PID -> PCB] /\ Lists(sjfQueue, Range(sjfQueue))
        /\ sjfQueue' = InsertAll(<<>>, sjfQueue, ShorterLess(sjfPcb))
    BY <1>2 DEF SjfReimport, SjfInv, SjfTypeOK, SjfQueued
  <2>2. StrictWeakOrder(ShorterLess(sjfPcb)) /\ {} \cap Range(sjfQueue) = {}
    BY <2>1, ShorterLessIsWeakOrder
  <2>3. InsertOneByOne(<<>>, sjfQueue, ShorterLess(sjfPcb))
          = InsertAll(<<>>, sjfQueue, ShorterLess(sjfPcb))
    BY <2>1, <2>2, EmptyLists, EmptySorted, InsertionIsStableSort
  <2> QED
    BY <2>1, <2>3 DEF SjfSearchStep
<1>3. ASSUME SjfDispatch PROVE SjfSearchStep
  BY <1>3 DEF SjfDispatch, SjfSearchStep
<1>4. ASSUME SjfIdle \/ SjfSnapshot \/ SjfPreempt \/ SjfExecute \/ SjfOnTick \/ SjfAdvance
             \/ UNCHANGED sjfVars
      PROVE  SjfSearchStep
  BY <1>4 DEF SjfIdle, SjfSnapshot, SjfPreempt, SjfExecute, SjfOnTick, SjfAdvance, sjfVars,
     SjfSearchStep
<1>5. SjfInv /\ [SjfNext]_sjfVars => SjfSearchStep
  BY <1>1, <1>2, <1>3, <1>4 DEF SjfNext
<1> QED
  BY <1>5, AlwaysSjfInv, PTL DEF SjfSpec

=============================================================================
