# AdaptiveSched: a TLA+ verification project

AdaptiveSched simulates a single CPU, tick by tick, under four scheduling
policies and a fifth that switches between them from what it measures.  Three
threads share the scheduler: the CPU thread executes processes and advances the
clock, the generator thread submits them, the monitor thread evaluates the
policy and may migrate every queued process to another one.  What is hard about
the program is what those threads can do between each other's critical
sections; that is what the modules here are about.

Contents: [inventory](#inventory) · [modules](#modules) ·
[runs](#runs-and-what-they-show) · [bounds](#bounds) · [fairness](#fairness) ·
[proofs](#proofs) · [divergences](#where-code-and-documents-differ) ·
[limits](#what-is-not-modelled) · [plan](#plan)

File names below are relative to `src/` of the repository, where `cpu.cpp`,
`adaptive.cpp` and so on are in `src/src/*/`.

## Inventory

| Component | State | Operations | Talks to | Must hold |
|---|---|---|---|---|
| **Process** (`core/process`) | state, arrival, burst, remaining, quantum, level, priority, aging counters, start, completion | constructor, `record_completion`, setters | written by every component, through `shared_ptr` | times are ordered, unsigned differences do not wrap |
| **ReadyQueue** (`core/ready_queue`) | a deque and an order (FIFO, PRIORITY, SJF), a mutex, a condition variable, `shutdown_` | `push`, `push_all`, `try_pop`, `snapshot`, `resort`, `drain`, used by the children; `pop`, `pop_for`, `remove`, `shutdown`, offered to any thread | child schedulers | best element first after every operation; no wakeup lost; nobody waits after the shutdown |
| **Child schedulers** (`scheduler/{fcfs,rr,priority,mlfq}`) | one queue, MLFQ four; last boost; completed list | `add_process`, `get_next_process`, `handle_preemption`, `on_process_complete`, `on_tick`, `drain_queue`, `import_queue`, `snapshot` | called by AdaptiveScheduler only | no process lost; fields and queues agree; no starvation |
| **AdaptiveScheduler** (`scheduler/adaptive`) | active child, cooldown, switch history, accumulators, metric history | delegation under `scheduler_mtx_`; `record_*` under `accum_mtx_`; `evaluate_and_adapt`, `migrate_to`; `finalize_stats`, which every child has too | CPU, generator and monitor threads | migration is atomic and keeps the work; switches are spaced and do not oscillate; starvation is answered; windows are consistent |
| **CPUEngine** (`execution/cpu`) | `current_proc_`, `running_`, `paused_`, busy and total ticks | `run` loop, `execute_tick`, `start`, `pause`, `resume`, `stop`, `join` | scheduler, clock, the controller's completion callback | one process per tick; every process gets its burst; no lost wakeup at the pause gate |
| **SimulationController** (`simulation/simulation_controller`) | `simulation_done_`, `completed_count_`, `done_mtx_`/`done_cv_`, the monitor thread | `start`, `stop`, `wait`, `run`, `monitor_loop`, `on_process_complete`, `check_termination`, final report | starts, stops and joins the threads | `run` returns; the report comes last and is complete |
| **ProcessGenerator** (`simulation/process_generator`) | descriptors, `running_` | static mode (`run_static`, `wait_until`), dynamic mode | clock, `add_process` | each process submitted once, not before its arrival |
| **SimClock** (`core/clock`) | tick, one-shot and periodic events | `tick`, `advance`, `now`, `reset`, `schedule_event`, `add_periodic` | everybody | time does not go back; an event is called at its tick, whoever ticks |
| **SJF / SRTF** (`scheduler/sjf`) | one queue, the mode | as the children | no owner in the program; written for the loop of CPUEngine | shortest first; nothing lost |
| **StatisticsEngine** (`metrics/statistics`) | records, completions by policy, timeline, switch log, tick counts | `record_*`, live readings, export | controller (CPU and monitor thread) | readings agree with each other between the steps of a completion; the switch log is the history |
| **Workload loader** (`simulation/workload`) | – | `from_csv`, `to_csv`, `generate`, `make` | controller's setup | the rows that parse, in order; legal bursts and arrivals |
| **Command line** (`main.cpp`) | `SimConfig` | `parse_args` | controller | the run asked for is the run made |
| **Scripts** (`benchmark.py`, `generate_dashboard.py`) | – | drawing, comparing | CSV files | – |

The behaviours that are hard:

* **Interleaving.**  `AdaptiveScheduler` locks each delegated call, not a
  sequence of them.  The CPU thread asks for a process, takes a snapshot and
  decides on a preemption in three critical sections (`cpu.cpp:115-144`); it
  executes, completes or expires a process in others (`:205-275`).  A
  submission or a whole migration may fall between any two.
* **Stale state.**  The snapshot's front, the child that dispatched a process,
  the quantum another policy armed, the cooldown tested on entry
  (`adaptive.cpp:154`) and the level MLFQ remembers for a process other
  policies have run since (`mlfq.cpp:241`) may all be out of date when used.
* **Shutdown.**  `wait` holds `done_mtx_` while it joins threads that take it
  (`simulation_controller.cpp:129-140`, `:161`, `:231`); `stop` sets
  `simulation_done_` without it (`:113`); `CPUEngine::stop` clears `running_`
  without `pause_mtx_`.
* **Windows.**  `accum_` is copied in one critical section and zeroed in
  another with the CPU thread counting in between (`adaptive.cpp:204-230`).
* **Waiting.**  A queue notifies after it has unlocked, waits with and without a
  deadline, and is shut down under threads that are about to block; the clock
  increments outside the mutex under which it calls events; the generator polls
  two values of other threads.
* **Two places that must agree.**  How many processes are expected and how many
  descriptors there are (`simulation_controller.cpp:71-77`), what a completion
  is to the statistics and to the count that ends the run (`:202-211`), what has
  been logged of the switch history (`:175`).
* **Tables of thresholds.**  Classification, scoring and hysteresis are some
  thirty comparisons that have to agree for every combination of metrics.

`PROJECT.json` "hazards" lists them at their lines with the properties that
would catch each.

## Modules

```
ProcessTable  <-  ReadyOrder  <-  ChildSchedulers  <-  AdaptiveSim  <-  MCAdaptiveSim
                                                         ^    |       (via AdaptiveClaims)
                                                         |    +--INSTANCE--> SchedulerContract
                                                   AdaptiveSimProofs  <-  ServiceProofs
Shutdown       <-  MCShutdown, ShutdownProofs
ReadyQueueApi  <-  ReadyQueueProofs          ReadyQueueApi --INSTANCE--> QueueContract
ClockEvents, SjfScheduler                 <-  ComponentProofs
Telemetry, Statistics, PolicyEngine       <-  MetricsProofs     PolicyEngine <- MCPolicyEngine
Workload  <-  Generator                   <-  LoaderProofs
MCComponents: ReadyQueueApi, ClockEvents, SjfScheduler, Statistics, Telemetry, Generator
ReadyOrderProofs: the lemmas on orders, sequences and sums under the other proof modules
```

* **ProcessTable** – a process is a member of `PID`; the program's objects are
  the rows of a table `pcb`.  Ticks are unsigned: `Turnaround` and
  `ResponseTime` subtract modulo `TickRange`.
* **ReadyOrder** – the orders of `ReadyQueue` as operators.  `insert_ordered`
  inserts at `std::lower_bound`, before its equals.  `InsertAll` says by ranks
  what a series of such insertions into a sorted queue gives; `InsertOneByOne`
  is the binary search of the code, one element after the other.  That the two
  agree is a theorem (`InsertionIsStableSort`); `InsertionAssumption` of
  MCAdaptiveSim also has TLC evaluate them on small queues.
* **ChildSchedulers** – one action per state-changing `IScheduler` method, the
  child it is called on as argument.  An action is the whole method: the aging
  pass with its re-sort, the boost, a requeue with its demotion and new quantum,
  drain and import.
* **AdaptiveSim** – the three threads.  One action is one critical section of
  `scheduler_mtx_` with the thread-local code around it:

  | Action | Code |
  |---|---|
  | `Inject(p)` | `run_static` after `wait_until`, `add_process` |
  | `Dispatch(p)`, `Idle` | `CPUEngine::run`: `get_next_process` |
  | `TakeSnapshot`, `PreemptAtDispatch` | `snapshot`, then `handle_preemption` with its front |
  | `ExecuteComplete`, `ExecuteExpire`, `ExecuteContinue` | `execute_tick` |
  | `Report` | `on_process_complete` of the controller |
  | `SchedulerTick`, `AdvanceClock` | `on_tick`, `SimClock::tick` and the loop head |
  | `MonitorSample`, `MonitorKeep`, `MigrateTo(t)` | `evaluate_and_adapt`: the cooldown test, no switch, `migrate_to` |

  Which policy the monitor chooses is left open, which covers every scoring.
* **SchedulerContract** – the abstract specification: one CPU, a set of waiting
  processes, each executed for its burst.  It has no step for a policy switch,
  an aging pass or a boost, so refining it means that they are invisible.
  `ImplementsContract` in AdaptiveSim gives the mapping.
* **Shutdown** – the lifecycle: main, CPU, generator and monitor thread and an
  operator who calls the public `pause`, `resume` and `stop`.  Mutexes are
  variables naming their holder; a condition-variable wait is a test and a
  separate block; wakeups may be spurious.  What the CPU executes is reduced to
  the contract: some submitted process runs whenever there is one.
* **PolicyEngine** – classification, scoring and selection in integers
  (hundredths, tenths for classes).  The program adds doubles; where two sums
  are equal in integers their rounding may differ, so a comparison of equals
  may go either way.
* **Telemetry** – the accumulators, the monitor's copy, decision and reset, and
  the busy and total counts of the CPU.
* **ReadyQueueApi** – `ReadyQueue` for any number of threads: a call is one
  critical section, `push`, `push_all` and `shutdown` notify in a step of their
  own after unlocking (`NotifyOne`, `NotifyAll`), a wait is `Test`, `Block` and a
  wakeup, notified, spurious or by the deadline (`Timeout`, `LastTest`).
* **QueueContract** – what the header promises: an element offered is handed
  out once, before those it outranks; who waits goes away empty-handed only from
  an empty queue, and from `pop` only after the shutdown.  `fifo` and `outranks`
  make the order a parameter, so one contract serves all three.
* **ClockEvents** – `tick` is two steps, the atomic increment and `FireEvents`
  under the mutex, so that the passes of two threads may overtake each other.
* **SjfScheduler** – both modes of `SJFScheduler` under the loop of
  `CPUEngine::run`, with `drain_queue` and `import_queue` at any moment.
* **Statistics** – the engine between its writers: the CPU thread's three steps
  of a completion, the monitor's copy of the switch history, and controllers one
  after the other (the position in the history is a static of `monitor_loop`).
* **Workload** – `parse_args`, `from_csv`, `to_csv`, `generate` and the trimming
  of `setup`, over lines and options that are records of what the code looks at.
* **Generator** – `ProcessGenerator` on the descriptors Workload leaves, in both
  modes: the loop, the tick to wait for, the polling wait, the second look at
  `running_`, the making of the process, the injection, the count.  Each look
  at `running_` and each reading of the clock is a step, so that a stop and
  ticks may fall between the test (`process_generator.cpp:133`) and the
  reading that gives the arrival (`:139`).
* **AdaptiveClaims** – statements of documents that the code does not meet.

## Runs and what they show

| Run | Module | Checks |
|---|---|---|
| `CoreSafety` | MCAdaptiveSim | `TypeOK`; `Conservation`: READY processes are exactly the queued ones, once, all in the active child, RUNNING is the one on the CPU; `CompletedOnce`; `StarvedAreBoosted`: nobody in PRIORITY's queue has missed `AGING_THRESHOLD` passes with boosts left, unless its priority is at the best value already; `CpuTimeFitsClock`: no tick is given to two processes; `SwitchesAreSpaced`; `MigrationKeepsWork`; `ImplementsContract` |
| `CoreBursts` | MCAdaptiveSim | long bursts that sink through MLFQ's levels: `FiledByLevel`, `PrioritySorted` (aging changes keys in place), `TimesOrdered` |
| `CoreLiveness` | MCAdaptiveSim | `EveryProcessCompletes` whatever the monitor does: preemptions at dispatch, which cost a tick, cannot go on for ever |
| `ShutdownRun` | MCShutdown | no tick limit, pauses allowed: `RunReturns` |
| `ShutdownLimit` | MCShutdown | a tick limit, an operator who may pause, resume and stop: `ReportIsLast`; `CutOffOnlyOnDemand` (the end is declared with work undone only at the limit or after a stop); `NotificationComing` (a blocked main is notified, unless the operator stops: see `ClaimAsyncStop`), `GateWakeupComing` (no wakeup of the paused CPU thread is lost) |
| `PolicySelection` | MCPolicyEngine | `NoOscillation`, `StarvationIsAnswered`, `StarvationRulesOutFCFS` |
| `Components` | MCComponents | the components beside the core, below |

The modules of `Components` share no variable.  Its Init chooses one of them,
which runs alone, and freezes the others in one initial state: the state space
is the sum of theirs, and what is frozen has no fair action enabled, so that the
fairness of one module says nothing about another.

| Module | Properties |
|---|---|
| ReadyQueueApi | `ImplementsQueueContract`; `NoWakeupLost`: while a thread sleeps unnotified, there are no more elements than threads awake on their way to take one, and no shutdown; `WaitingGoOn`: nobody stays blocked beside an element or after the shutdown |
| ClockEvents | `CalledWhenDue`: an event registered in time is called with its tick, or a thread still owes the pass; `PeriodsKept`: periodic calls are an interval apart |
| SjfScheduler | `ShortestFirst`; `BatchIsOptimal`: the minimum of the sum of completion times over all orders; `OnlyPreemptedAreMissing`: what is lost is what SRTF preempted, one process each (see below) |
| Statistics | `ReadingsAgree` at any moment; `SwitchLogIsHistory`; `FairnessIsAnIndex`: between 1/n and 1, also when nobody has waited |
| Telemetry | `UtilizationIsFraction`, `CompletionsCountedOnce`, `EventsFitWindow` |
| Workload | `CountIsRespected` for every order of the options; `GeneratedIsLegal`; `CsvKeepsRows`, with the round trip through `to_csv` |
| Generator | `InjectsTheWorkload`: in the order of arrival, not early, as many as the controller waits for; `NoneEarlyAfterStop`: after a stop one more process at most, and only if its wait was over by then; `GeneratorEnds` |

Five runs end in a counterexample; each is a finding in `PROJECT.json`:

| Run | What it refutes |
|---|---|
| `ClaimPriorityPreempts` | README:87 "When a higher-priority process arrives, the running process is immediately preempted": only a dispatch looks at other processes |
| `ClaimScheduledBy` | README:441 `scheduled_by` "records which policy was active when each process completed": it is read later, and a migration may come first |
| `ClaimRunReturns` | `run` "blocks until done": with a tick limit it may block for ever, because `wait` joins, under `done_mtx_`, a thread that wants `done_mtx_` to announce the end a second time |
| `ClaimAsyncStop` | "Async start / stop": a `stop` from another thread notifies without the mutex and may fall between the test and the sleep of `wait` |
| `ClaimBusyTicks` | `cpu_utilization` is the "fraction of ticks with work": the tick in which a process completes is counted as idle |

Every property of a passing run has a mutant in `PROJECT.json`: a change of the
code (a dropped reset, guard, lock, re-sort or notification) that violates it.

## Bounds

* `MAX_TICKS` (and `LAST_TICK`, `SJF_LAST_TICK`, `GEN_LAST_TICK` in the other
  modules) stops the clock in AdaptiveSim and Telemetry, `MAX_LAG` bounds how
  late the generator submits, `CLOCK_BOUND` saturates the clock of Shutdown,
  `PAUSES` bounds the operator.  Runs over the first two allow the stop with
  `CHECK_DEADLOCK FALSE`.  `ShutdownLimit` does so because the program itself
  can stop there: those are findings `ClaimRunReturns` and `ClaimAsyncStop`.
* `CoreSafety` has three processes: one on the CPU, one in the queue, one
  arriving; intervals (quantum 1, boost 3, aging 2, cooldown 2) are shortened
  so that every pass, boost and two migrations fit in four ticks.  `CoreBursts`
  has two processes of five ticks, enough for the lowest level and a return by
  boost or migration.  Processes are symmetric: their arrivals, bursts and
  priorities are chosen in `Init`, so the symmetry set only drops copies.
* `CoreLiveness` has bursts of 0 and 2 and no symmetry.  All processes complete
  well before tick 8, so the bound ends no behaviour early: it never decides
  the property.
* `PolicySelection` takes a few values of each metric, next to the thresholds
  that decide a class or a score, in every combination.  Not every interval
  between two thresholds has a value; the theorems `Hysteresis`,
  `StarvationAnswered` and `FcfsOnlyWithoutStarvation` are about all values.
* `Components`: the queue has three threads, for one that notifies, one that
  blocks and one that takes the element away, and three processes, two of them
  equal in rank, in batches of up to two (`MAX_BATCH`).  The clock has two threads, whose passes
  may overtake each other, advances of up to two ticks (`MAX_ADVANCE`), and
  events due at any tick up to `LAST_TICK`.  SJF has three workloads of three
  processes: descending, equal and a burst of zero; `LAST_SUBMISSION` 1 lets a
  short process arrive while a long one runs.  Statistics has a timeline of two
  entries for three completions (`TIMELINE_CAP`; 10000 in the program) and two
  controllers (`RUNS`).  Telemetry runs four ticks with cooldown two, so that one
  sampling falls into the cooldown.  Workload takes every command line of up to
  two options, which includes both orders of those that overwrite each other,
  five files (sorted and not, with and without a header, empty, unreadable) and
  draws below, in and above the range; a negative double becomes 0 or more than
  any burst (`CastOfNegative`).

The proofs remove the bounds for what they cover: their theorems hold for every
value of these constants, unbounded ones included.

## Fairness

* AdaptiveSim: weak fairness of the CPU thread and of the generator.  They are
  `std::thread`s that never wait for one another, and the mutexes are held for
  single actions.  Nothing is asked of the monitor, whose evaluation is a
  matter of wall-clock time.  `EveryProcessCompletes` needs no more.
* Shutdown: the threads that take mutexes are strongly fair, since with
  spurious wakeups a mutex may be free and taken infinitely often; the
  generator, which takes none, is weakly fair.  The operator need not call
  anything but finishes a call it began and resumes what it paused: a
  simulation paused for good does not return.
* ReadyQueueApi: a thread inside a call goes on (weak fairness of its test, its
  block and its notification); it need not make another call, and neither a
  spurious wakeup nor a deadline need ever come.  A mutex is held only between
  a test and a block, so weak fairness suffices.
* Generator: its thread, and the clock until the stop: the CPU thread ticks
  whether it has work or not.

## Proofs

TLAPS checks every theorem for all values of the constants, from named
assumptions that TLC evaluates in the runs.  `PROJECT.json` "theorems" lists the
43 results; here are their arguments.  Each component has one inductive
invariant; a lemma per action shows that the action keeps it.

| Assumption | Says | Justified by |
|---|---|---|
| `PIDAssumption`, `NoneAssumption`, `RangeAssumption` | finitely many processes; `None` is no process and no number; a positive range of ticks | the table of descriptors; `nullptr`; `uint64_t` |
| `QuantaAssumption`, `ClockAssumption`, `SjfAssumption`, `TelemetryAssumption` | quanta, intervals and bounds are naturals; aging thresholds and periods are positive | `constexpr` values |
| `SimAssumption` | bursts and arrivals are ticks; `MAX_TICKS < TickRange`: the clock does not come round in a run | unsigned types; 2^64 ticks |
| `QueueAssumption` | finitely many threads; the queued processes are PCBs | `ready_queue.h` |
| `LifecycleAssumption`, `FreeAssumption` | arrivals come before the bound of the clock; bursts are positive; `Free` is no thread | `burst_min >= 1` in the profiles; a mutex holder |
| `ValuesAssumption` | metrics are naturals (hundredths), and each may be 0 | ratios of counters |
| `StatisticsAssumption` | finitely many jobs and values of `scheduled_by` | five policies |
| `WorkloadAssumption`, `GeneratorAssumption` | options and files are lists; a value that does not parse is an option of its own (`malformed`, `unknown`); `burst_min <= burst_max`; a draw for every process a count may ask for; the dynamic profile is a profile, with a draw for every number if it has no total | `parse_args`, the five profiles, a random engine that never runs dry |

**AdaptiveSimProofs** (on the lemmas of **ReadyOrderProofs**).
`Conservation` is not inductive: it does not say that MLFQ's four queues agree
with `queue_level`, nor what the CPU thread holds at each of its steps, and a
boost or a stale preemption would break it.  The invariant proved is

    IInv == TypeOK /\ Placed /\ OnCpu

`Placed`: the active child's queue lists exactly the READY processes, once (per
level, those of that level), and the other children's queues are empty.
`OnCpu`: the RUNNING process is `current`, and each step of the CPU thread has
the pointers it will dereference.  From it follow `TypeCorrect`,
`NothingIsLost` (`Conservation`), `LevelsAgree` (`FiledByLevel`) and
`MigrationKeeps`.  `CompletedByOneChild` adds that the process in hand is not yet
in any completed list, `SwitchesSpaced` that the cooldown belongs to the last
switch and has passed when the monitor decides (`CooldownInv`).
ReadyOrderProofs shows that sorting by ranks permutes its argument, for any
sequence: the fact that makes conservation independent of the order.

**ReadyOrderProofs** also ties the closed form `InsertAll` to the code.  The
search returns the place with only smaller elements in front and none behind:
the half it continues in has the same answer (`HalfFinds`, where the queue must
be sorted), there is one (`FoundSomewhere`), and no other (`FoundOnce`), so the
recursive function exists and, by induction over the length of the range, finds
it (`LowerBoundSplits`).  A queue without duplicates has one stable arrangement,
because the position of a process is the number of those the order puts in
front of it (`ArrangedOnce`).  An insertion at the place found is arranged
(`InsertionSorts`), sorting what is behind a new process first changes nothing
(`SortBehind`), and `InsertionIsStableSort` follows by induction over the inserted
list: for every sorted queue, every list of other processes and every strict
weak order.  Sortedness is a hypothesis that the components have to meet, also
while keys change: `PushesBySearch` (ReadyQueueApi), `PriorityBySearch`
(AdaptiveSim: aging changes priorities in place and must re-sort before the next
search) and `SjfBySearch` say that in every reachable state they do.

**ServiceProofs** is about what the processes get.
`SimImplementsContract`: every step maps to a step of SchedulerContract or to a
stutter, from `IInv` and the fact that a process executes only while it has
something left.  `TimesStayOrdered`: the invariant says of a process that has run
that the ticks it has executed fit between its start and now; the last of them
may be the current one only at certain steps of the CPU thread.
`PriorityStaysSorted`: the rank sort sorts (a lemma of ReadyOrderProofs), and
every operation that changes a key ends with it.  `NobodyStarvesUnboosted` bounds
the counter of a queued process by what the last pass left.
`OneProcessPerTick`: the sum of all executed ticks is at most the clock, plus one
between an execution and the advance.  It needs sums over the processes to be
reasoned about: see below.

**ShutdownProofs.**  `IInv` joins who holds each of the two mutexes at which
steps (`LocksHeld`), in which order the threads start and are joined
(`StartOrder`, `JoinOrder`), and that `simulation_done_` has a cause: everything
completed, the tick limit, or the operator (`DoneHasCause`).  Main about to block
has seen the flag false and holds the mutex (`SleepIsSafe`), as has the CPU
thread about to block at the gate (`GateIsSafe`).
`ReportAfterJoins` (`ReportIsLast`), `NobodyEndsEarly` (`CutOffOnlyOnDemand`),
`DecisionReachesMain` (`NotificationComing`) and `ReleaseReachesCpu`
(`GateWakeupComing`) follow.  They hold with or without the tick limit, pauses and
stops: what goes wrong in `ClaimRunReturns` and `ClaimAsyncStop` is liveness, or is
excepted by the property.

**ReadyQueueProofs.**  `NoPushIsMissed` (`NoWakeupLost`) counts: an element or a
shutdown that appears while somebody sleeps belongs to a thread that will
notify, and one notified thread is awake per element.  TLC showed a first
version not to be inductive: a thread that wakes and finds the queue
empty must still be counted until it sleeps again (`OnTheWay`).
`QueueImplementsContract` maps every step to the contract, for FIFO, PRIORITY
and SJF at once: insertion keeps the queue sorted, and the first of a sorted
queue outranks the rest.

**ComponentProofs.**  `EventsAreCalled`: `CalledWhenDue` says of a periodic event
only that some pass is coming, which is not inductive; the invariant says that
a thread owes the pass of every tick from `nextFire` to now.
`PeriodicsAreSpaced` follows.  `OnlyPreemptionLoses`, `ShortestIsFirst`: the queue
lists the READY processes, sorted, and what is queued has its whole burst left.

`ShortestFirstIsOptimal` (`BatchIsOptimal`): no order of execution of a batch has a
smaller sum of completion times.  Two parts.  The invariant `BatchInv` says that
the CPU does not idle while one of the batch is left, and that whoever has
completed did so when the ticks of those that completed no later were spent, the
shorter ones first (`Present`, `Past`); a re-import, a stale front or a
starvation pass in between changes neither.  The algebra (`ShortestFirstIsBest`)
is not an exchange of neighbours: the sum of completions is a sum over all pairs
of what one of the two makes the other wait, each pair costs the shorter of its
bursts under SJF and one of the two under any order, and both tables are compared
entry by entry with their mirror images (`TableSum`, `MirrorSum`).  Bursts of 0
take one tick, as in the code.

**MetricsProofs.**  `Windows` relates the accumulators to the CPU thread's
step and the monitor's copy: what is in `accum_` and not yet in a copy, plus all
copies, is at most what was recorded; a preemption may be one tick ahead of the
total.  `UtilizationBounded`, `NoDoubleCount`, `EventsBounded` follow.
`LogFollowsHistory`: the log is the part of the history behind the static
position, over any number of controllers.  `LiveReadingsAgree`: between the steps
of a completion, the counters differ by exactly the step that is missing; the
completions by policy add up to the records.  `IndexInRange`: live_fairness_index
is at most 1 by Cauchy-Schwarz, (sum w)^2 <= n * sum w^2, proved by adding one
process after the other.  A policy's score differs from what it would be for
another incumbent by at least -10 and at most +5, also after clamping
(`ScoreBounds`).  A policy switched to beat all others by their plain scores, so
nobody exceeds it by more than 10 afterwards, and the margin is 15:
`Hysteresis` (`NoOscillation`).  With starvation above 15 hundredths the class
is MIXED, FCFS scores 0, RR at most 50, MLFQ at least 70 and PRIORITY 65:
`StarvationAnswered`.  Above 10, FCFS deserves at most 20 and PRIORITY 30:
`FcfsOnlyWithoutStarvation`.

**LoaderProofs.**  `SetupInv`: the options read so far have had their effect
(`OptionsTaken`: the last `--count` is the limit, and the profile's number unless
a profile was named after it), and the list loaded, then trimmed, is legal, or
the rows of the file.  `GenInv`: what the generator's thread holds at each step is
the next descriptor (`HandedInOrder`), it is at the second look at `running_`
before the tick only after a stop and passes it only before one, so that
whatever it holds or has handed over was due then (`NothingEarly`), and what was
handed over later than the stop is the last (`LastAfterStop`).  From both follow `LastCountCounts`, `GeneratedAreLegal`,
`FilesKeepRows`, `WorkloadIsInjected` and `StopLetsOneThrough`, for every
command line, file, profile and draw.  Under them, three inductions: arrivals
grow (`ArrivalsIncrease`), the lines read so far give their rows, each once and
in order (`RowsAreKept`), and `to_csv` followed by `from_csv` changes nothing
(`RoundTrip`).

**Induction.**  The library's induction theorems take an operator as parameter,
which the provers cannot instantiate.  `NatSetInduction` in ReadyOrderProofs
states induction for the members of a set, and follows from the well-foundedness
of < on the naturals.  On it rest `RecursionExists` (a recursive function over
0 .. n has a value), and the lemmas on sums over finite sets: `SumsExist`,
`SumChanges` (one value changes, the sum changes by as much), `SumMoves`, `SumsAdd`,
`SumsGrow` (larger values, larger sum) and `SumsSwap` (a table summed by rows or by
columns).

**Only model-checked.**

* The liveness properties `EveryProcessCompletes`, `RunReturns`, `WaitingGoOn`
  and `GeneratorEnds`: the prover knows neither fairness nor ENABLED.

Every safety property and every action property that a run expects to pass is
stated by a theorem.

## Where code and documents differ

The five findings above have runs.  These were met while modelling, are visible
in one trace or in the text, and have none:

* MLFQ, like PRIORITY, does not preempt a running process when another arrives
  at a higher level (README:101), for the same reason.
* "resets all processes to Level 0" (README:102): the boost covers the queued
  processes; the running one keeps its level.
* "waiting longer than `AGING_THRESHOLD` ticks" (README:87): aging passes are
  `AGING_THRESHOLD` ticks apart and a boost takes that many passes, so the wait
  is about the square (`priority.cpp:71`, `on_tick`).
* "Context-switch overhead (1 tick) is charged per switch" (README:84):
  `do_context_switch` cannot be reached (`cpu.cpp:122`, `:280`).
* "Each process gets exactly one quantum" (README:84): after a switch from FCFS
  to RR the running process keeps FCFS's quantum, its whole remaining time.
* "at their arrival ticks" (README:67): the generator sleeps in wall-clock time
  and may submit later; hence also README:448 "bit-identical" does not follow.
* "Graceful shutdown drains in-flight processes" (README:70): `stop` and the tick
  limit leave queued and running processes unfinished.
* "Every `EVALUATION_INTERVAL` (20) ticks" (README:111): the monitor wakes by
  wall-clock time; rates are divided by 20 whatever the window
  (`adaptive.cpp:243-246`).
* An empty workload never ends: `check_termination` requires a positive total
  (`simulation_controller.cpp:224`).
* Completions recorded between the sample and the reset enter no window
  (`adaptive.cpp:226`).
* SRTF: "At each add_process() call a preemption check is made" (`sjf.h:17`).  It
  is made at a dispatch only, and the process it preempts is lost.
  `handle_preemption` returns true without queueing it again (`sjf.cpp:60`), the
  CPU drops its pointer; no other policy does so.  `OnlyPreemptedAreMissing`
  states exactly this loss.
* `--count` writes into the profile that is current (`main.cpp:135`): a
  `--workload` after it brings its own number back, which may be smaller; a
  larger one is still cut.  `--count 0` cuts nothing, but asks the generator for
  its default of 50.  A value that is no number ends the program with an
  uncaught exception, `parse_args` being outside the `try` of `main`.
* The first line of a CSV file that is no comment is a header unless it begins
  with a digit (`workload.cpp:35`): a first row that begins with a blank or a
  sign is dropped, later ones are read.
* The report counts one busy tick per completion and no idle tick
  (`simulation_controller.cpp:206`): utilization is always 100 %, throughput one
  per tick; read live, between the two records, it may exceed one.
* The position up to which switches are logged is a static of the program
  (`simulation_controller.cpp:175`): the log of a second controller misses as
  many switches as the first one had.
* Dynamic processes have pids from 2 on: `++next_pid_` starts at 1.

## What is not modelled

* `QueueOrder::CUSTOM`, `record_idle_tick`, `record_context_switch`,
  `record_starvation_event` and `pending_count` of a dynamic generator: no caller.
  `is_shutdown` reads a plain bool without the mutex; it has none either.
* What a clock event does: it runs under `events_mtx_`, so one that registers an
  event or advances the clock would wait for itself.  Nothing registers one.
* References to the history that outlive the lock (`adaptive.cpp:722`): their one
  writer is the monitor thread, their readers are it and the report after the
  joins.  A controller destroyed without `wait` (`simulation_controller.cpp:22`):
  `run` always waits.
* Moving averages, history and the decision log: PolicyEngine lets every metric
  take any value after any other.
* Averages, the comparison of runs, reports and CSV output of the
  statistics; the characters of lines and options; the distributions behind the
  random draws; the Python scripts.
* Double arithmetic, other than through ties; real time, other than by fairness.

## Plan

Order of work, the most important behaviour first.  Done: the core
(ProcessTable, ReadyOrder, ChildSchedulers, AdaptiveSim, SchedulerContract),
Shutdown, PolicyEngine, Telemetry, ReadyQueueApi with QueueContract, ClockEvents,
SjfScheduler, Statistics, Workload and Generator; the theorems above, which state
every safety property of the passing runs, and that the queues' closed form is
the binary search of the code.  What is left is outside the prover (liveness) or
listed above as not modelled; the next candidate there is the moving averages of
the policy engine.
