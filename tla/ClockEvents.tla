---------------------------- MODULE ClockEvents -----------------------------
(***************************************************************************)
(* SimClock with its events.  The tick counter is atomic and not covered   *)
(* by events_mtx_: a tick is two steps, the increment and the pass over    *)
(* the events with the value the increment returned, and the ticks of two  *)
(* threads may come to their passes in either order.  Registering an event *)
(* is one step.  Callbacks do not register events themselves: they run     *)
(* under the mutex that registering takes.                                 *)
(***************************************************************************)
EXTENDS Integers, FiniteSets

CONSTANTS Ticker,      \* threads that advance the clock
          OneShot,     \* events of schedule_event
          Periodic,    \* events of add_periodic
          Intervals,   \* intervals of periodic events
          MAX_ADVANCE, \* bound: ticks of one call of advance
          LAST_TICK    \* bound: nobody advances the clock beyond

ASSUME ClockAssumption ==
  /\ Intervals \subseteq Nat \ {0}
  /\ MAX_ADVANCE \in Nat /\ LAST_TICK \in Nat

VARIABLES simTick,   \* current_tick_
          togo,      \* ticks left in each thread's call of advance
          passing,   \* the tick whose pass a thread still owes, 0 = none
          armed,     \* one_shot_events_
          due,       \* the tick each one-shot event was registered for
          armedAt,   \* the tick at which it was registered
          firedAt,   \* the ticks at which it was called
          nextFire,  \* periodic_events_: next_fire, 0 = not registered
          interval,
          lastFire   \* the last call of a periodic event, or its registration

tickVars == <<simTick, togo, passing>>
oneShotVars == <<armed, due, armedAt, firedAt>>
periodicVars == <<nextFire, interval, lastFire>>
clockVars == <<tickVars, oneShotVars, periodicVars>>

Never == 0

ClockInit ==
  /\ simTick = 0
  /\ togo = [k \in Ticker |-> 0] /\ passing = [k \in Ticker |-> Never]
  /\ armed = {} /\ due = [e \in OneShot |-> Never]
  /\ armedAt = [e \in OneShot |-> Never] /\ firedAt = [e \in OneShot |-> {}]
  /\ nextFire = [e \in Periodic |-> Never] /\ interval = [e \in Periodic |-> Never]
  /\ lastFire = [e \in Periodic |-> Never]

ClockTypeOK ==
  /\ simTick \in Nat /\ togo \in [Ticker -> Nat] /\ passing \in [Ticker -> Nat]
  /\ armed \subseteq OneShot /\ due \in [OneShot -> Nat]
  /\ armedAt \in [OneShot -> Nat] /\ firedAt \in [OneShot -> SUBSET Nat]
  /\ nextFire \in [Periodic -> Nat] /\ interval \in [Periodic -> Intervals \cup {Never}]
  /\ lastFire \in [Periodic -> Nat]
-----------------------------------------------------------------------------
(* advance(n); tick() is advance(1) *)
Advance(k, n) ==
  /\ togo[k] = 0 /\ simTick + n <= LAST_TICK
  /\ togo' = [togo EXCEPT ![k] = n]
  /\ UNCHANGED <<simTick, passing, oneShotVars, periodicVars>>

Increment(k) ==
  /\ togo[k] > 0 /\ passing[k] = Never
  /\ simTick' = simTick + 1
  /\ passing' = [passing EXCEPT ![k] = simTick + 1]
  /\ UNCHANGED <<togo, oneShotVars, periodicVars>>

(* fire_events(t) *)
FollowingDue(e, t) == nextFire[e] + interval[e]  \* mutant: counted from the due tick
Following(e, t) == t + interval[e]
Pass(k, t) ==
  /\ passing[k] # Never
  /\ LET now == {e \in armed : due[e] = t}
         again == {e \in Periodic : nextFire[e] # Never /\ t >= nextFire[e]}
     IN /\ armed' = armed \ now
        /\ firedAt' = [e \in OneShot |-> firedAt[e] \cup IF e \in now THEN {t} ELSE {}]
        /\ nextFire' = [e \in Periodic |-> IF e \in again THEN Following(e, t)
                                                          ELSE nextFire[e]]
        /\ lastFire' = [e \in Periodic |-> IF e \in again THEN t ELSE lastFire[e]]
  /\ passing' = [passing EXCEPT ![k] = Never]
  /\ togo' = [togo EXCEPT ![k] = @ - 1]
  /\ UNCHANGED <<simTick, due, armedAt, interval>>
FireAtNow(k) == Pass(k, simTick)  \* mutant: the pass reads the clock again
FireEvents(k) == Pass(k, passing[k])

ScheduleEvent(e, at) ==
  /\ due[e] = Never
  /\ due' = [due EXCEPT ![e] = at] /\ armedAt' = [armedAt EXCEPT ![e] = simTick]
  /\ armed' = armed \cup {e}
  /\ UNCHANGED <<tickVars, firedAt, periodicVars>>

AddPeriodic(e, n) ==
  /\ nextFire[e] = Never
  /\ nextFire' = [nextFire EXCEPT ![e] = simTick + n]
  /\ interval' = [interval EXCEPT ![e] = n]
  /\ lastFire' = [lastFire EXCEPT ![e] = simTick]
  /\ UNCHANGED <<tickVars, oneShotVars>>

(* SimulationController::setup resets the clock before there are threads. *)
ResetClock ==
  /\ \A k \in Ticker : togo[k] = 0
  /\ simTick' = 0
  /\ armed' = {} /\ due' = [e \in OneShot |-> Never]
  /\ armedAt' = [e \in OneShot |-> Never] /\ firedAt' = [e \in OneShot |-> {}]
  /\ nextFire' = [e \in Periodic |-> Never] /\ interval' = [e \in Periodic |-> Never]
  /\ lastFire' = [e \in Periodic |-> Never]
  /\ UNCHANGED <<togo, passing>>

ClockNext ==
  \/ \E k \in Ticker : \/ \E n \in 1 .. MAX_ADVANCE : Advance(k, n)
                       \/ Increment(k) \/ FireEvents(k)
  \/ \E e \in OneShot, at \in 1 .. LAST_TICK : ScheduleEvent(e, at)
  \/ \E e \in Periodic, n \in Intervals : AddPeriodic(e, n)
  \/ ResetClock

ClockSpec == ClockInit /\ [][ClockNext]_clockVars
-----------------------------------------------------------------------------
(* clock.h: "called once when the clock reaches 'at'".  A one-shot event   *)
(* is called with the tick it was registered for, never with another; and  *)
(* no event registered in time is passed over, however the increments and  *)
(* passes of several threads interleave: when the clock is past it, it has *)
(* been called or a thread has yet to make a pass.  (A one-shot event      *)
(* registered for a tick that is over stays for ever.)                     *)
PassComing(t) == \E k \in Ticker : passing[k] = t
CalledWhenDue ==
  /\ \A e \in OneShot :
       /\ firedAt[e] \subseteq {due[e]}
       /\ e \in armed /\ armedAt[e] < due[e] /\ due[e] <= simTick
            => PassComing(due[e])
  /\ \A e \in Periodic :
       nextFire[e] # Never /\ nextFire[e] <= simTick
         => \E t \in nextFire[e] .. simTick : PassComing(t)

(* clock.h: "fired every 'interval' ticks": calls are at least that far    *)
(* apart, the first from the registration.                                 *)
PeriodsKept ==
  [][\A e \in Periodic :
       lastFire'[e] > lastFire[e] /\ nextFire[e] # Never
         => lastFire'[e] >= lastFire[e] + interval[e]]_clockVars
=============================================================================
