----------------------------- MODULE Generator ------------------------------
(***************************************************************************)
(* ProcessGenerator behind the setup of Workload: its thread polls the     *)
(* clock, which other threads advance, and running_, which stop clears,    *)
(* and hands over one process at a time.  The controller builds it in      *)
(* static mode; the dynamic mode draws the processes as it goes and is     *)
(* built by no other code of the program.                                  *)
(***************************************************************************)
EXTENDS Workload

CONSTANTS DynamicProfile, \* the profile of a dynamic generator
          GEN_LAST_TICK   \* bound: the clock stops here

(* Without a total the random engine is asked for ever. *)
ASSUME GeneratorAssumption ==
  /\ DynamicProfile \in DOMAIN Profiles /\ GEN_LAST_TICK \in Nat
  /\ Profiles[DynamicProfile].total <= 0 =>
       \A i \in Nat \ {0} : Profiles[DynamicProfile].draws[i] \in [gap : Int, burst : Int]

VARIABLES genMode,   \* mode_
          genStep,   \* what the generator thread does next
          genOn,     \* running_
          genTick,   \* the clock
          target,    \* argument of wait_until
          inHand,    \* the process made and not yet injected
          injected,  \* what inject_cb_ got, when, and the tick waited for
          generated, \* generated_
          stoppedAt  \* the tick of the first stop, -1 before

genVars == <<genMode, genStep, genOn, genTick, target, inHand, injected, generated, stoppedAt>>
loaderVars == <<setupVars, genVars>>

Nothing == Descriptor(0, 0, 0)

GeneratorInit ==
  /\ WorkloadInit
  /\ genMode \in {"STATIC", "DYNAMIC"} /\ genStep = "none" /\ genOn = FALSE
  /\ genTick = 0 /\ target = 0 /\ inHand = Nothing /\ injected = <<>>
  /\ generated = 0 /\ stoppedAt = -1
  /\ genMode = "DYNAMIC" => argv = <<>>

(* The static constructor: std::sort, which may leave equals in any order. *)
ByArrival(ds) == {s \in {[i \in DOMAIN ds |-> ds[f[i]]] :
                            f \in Bijection(DOMAIN ds, DOMAIN ds)} :
                    \A i, j \in DOMAIN s : i < j => s[i].arrival <= s[j].arrival}
Unsorted(ds) == {ds}  \* mutant: injected in the order of the file
Sorted(ds) == ByArrival(ds)

(* The constructor and start.  The command line has done its work. *)
GenStart ==
  /\ genStep = "none"
  /\ phase = (IF genMode = "STATIC" THEN "trimmed" ELSE "parse")
  /\ IF genMode = "STATIC" THEN descs' \in Sorted(descs) ELSE UNCHANGED descs
  /\ phase' = "started" /\ argv' = <<>> /\ argIndex' = 1
  /\ genOn' = TRUE /\ genStep' = "loop"
  /\ UNCHANGED <<config, expected, cast, genMode, genTick, target, inHand, injected,
                 generated, stoppedAt>>
GenStop ==
  /\ genOn
  /\ genOn' = FALSE /\ stoppedAt' = genTick
  /\ UNCHANGED <<setupVars, genMode, genStep, genTick, target, inHand, injected, generated>>
GenTick ==
  /\ genStep # "none" /\ genTick < GEN_LAST_TICK
  /\ genTick' = genTick + 1
  /\ UNCHANGED <<setupVars, genMode, genStep, genOn, target, inHand, injected,
                 generated, stoppedAt>>
-----------------------------------------------------------------------------
(* The generator thread: loop head, choice of the tick to wait for,        *)
(* wait_until, the test after it, making the process, handing it over,     *)
(* counting it.  Each step looks at running_ or at the clock, none at both *)
(* but the polling loop of wait_until, which ends by either.  The dynamic  *)
(* mode reads the clock twice more, for the target and for the arrival.    *)
More == IF genMode = "STATIC" THEN generated < Len(descs)
        ELSE \/ Profiles[DynamicProfile].total <= 0  \* INT_MAX
             \/ generated < Profiles[DynamicProfile].total
NextTarget ==
  IF genMode = "STATIC" THEN descs[generated + 1].arrival
  ELSE genTick + AtLeastOne(Profiles[DynamicProfile].draws[generated + 1].gap)
GenLoop ==
  /\ genStep = "loop"
  /\ genStep' = IF genOn /\ More THEN "aim" ELSE "ended"
  /\ UNCHANGED <<setupVars, genMode, genOn, genTick, target, inHand, injected,
                 generated, stoppedAt>>
Aim ==
  /\ genStep = "aim"
  /\ target' = NextTarget
  /\ genStep' = "wait"
  /\ UNCHANGED <<setupVars, genMode, genOn, genTick, inHand, injected, generated, stoppedAt>>

WaitIgnoringStop ==  \* mutant: the wait does not look at running_
  /\ genStep = "wait"
  /\ genTick >= target
  /\ genStep' = "check"
  /\ UNCHANGED <<setupVars, genMode, genOn, genTick, target, inHand, injected,
                 generated, stoppedAt>>
WaitUntil ==
  /\ genStep = "wait"
  /\ ~genOn \/ genTick >= target
  /\ genStep' = "check"
  /\ UNCHANGED <<setupVars, genMode, genOn, genTick, target, inHand, injected,
                 generated, stoppedAt>>

TestSkipped ==  \* mutant: running_ is not tested after the wait
  /\ genStep = "check"
  /\ genStep' = "make"
  /\ UNCHANGED <<setupVars, genMode, genOn, genTick, target, inHand, injected,
                 generated, stoppedAt>>
TestRunning ==
  /\ genStep = "check"
  /\ genStep' = IF genOn THEN "make" ELSE "ended"
  /\ UNCHANGED <<setupVars, genMode, genOn, genTick, target, inHand, injected,
                 generated, stoppedAt>>

NextPid == generated + 2  \* ++next_pid_, which starts at 1
Drawn == Descriptor(NextPid, genTick,
           Clamped(Profiles[DynamicProfile].draws[generated + 1].burst, DynamicProfile))
Make ==
  /\ genStep = "make"
  /\ inHand' = IF genMode = "STATIC" THEN descs[generated + 1] ELSE Drawn
  /\ genStep' = "inject"
  /\ UNCHANGED <<setupVars, genMode, genOn, genTick, target, injected, generated, stoppedAt>>

InjectProcess ==
  /\ genStep = "inject"
  /\ injected' = Append(injected, [desc |-> inHand, at |-> genTick, due |-> target])
  /\ inHand' = Nothing
  /\ genStep' = "count"
  /\ UNCHANGED <<setupVars, genMode, genOn, genTick, target, generated, stoppedAt>>
CountInjection ==
  /\ genStep = "count"
  /\ generated' = generated + 1
  /\ genStep' = "loop"
  /\ UNCHANGED <<setupVars, genMode, genOn, genTick, target, inHand, injected, stoppedAt>>

GenThread == \/ GenLoop \/ Aim \/ WaitUntil \/ TestRunning \/ Make \/ InjectProcess
             \/ CountInjection
GeneratorNext == \/ WorkloadNext /\ genMode = "STATIC" /\ UNCHANGED genVars
                 \/ GenStart \/ GenStop \/ GenTick \/ GenThread

(* The generator's own thread, and the clock, which the CPU thread drives, *)
(* idle or not, until the stop.                                            *)
GeneratorFairness == WF_loaderVars(GenThread) /\ WF_loaderVars(genOn /\ GenTick)
LoaderSpec == GeneratorInit /\ [][GeneratorNext]_loaderVars /\ GeneratorFairness
-----------------------------------------------------------------------------
(* A static generator hands over the descriptors it was given, in the      *)
(* order of their arrival, none before its tick; and if it is not stopped, *)
(* as many as the controller waits for, although total_expected_ and the   *)
(* list are cut in two places.  pending_count counts a process             *)
(* too many for as long as it is handed over and not yet counted.          *)
Pending == Len(descs) - generated
InjectsTheWorkload ==
  genMode = "STATIC" =>
    /\ \A i \in DOMAIN injected :
         /\ injected[i].desc = descs[i] /\ injected[i].at >= descs[i].arrival
         /\ i > 1 => injected[i - 1].desc.arrival <= injected[i].desc.arrival
    /\ genStep = "ended" /\ genOn => Len(injected) = expected /\ Pending = 0
    /\ Pending = Len(descs) - Len(injected) + IF genStep = "count" THEN 1 ELSE 0

(* stop does not wait for the thread, which may have looked at running_    *)
(* just before: one process may still be handed over, and in dynamic mode  *)
(* be given an arrival later than the stop.  No second one follows, and    *)
(* none is let through by the end of its wait that the stop brings about:  *)
(* the tick waited for had come when the stop came.  Both modes give no    *)
(* arrival before that tick nor after the hand-over.                       *)
NoneEarlyAfterStop ==
  \A i \in DOMAIN injected :
    /\ injected[i].due <= injected[i].desc.arrival
    /\ injected[i].desc.arrival <= injected[i].at
    /\ stoppedAt >= 0 => /\ injected[i].due <= stoppedAt
                         /\ injected[i].at > stoppedAt => i = Len(injected)

(* The thread can be joined: it ends after a stop, wherever it is, and a   *)
(* static one by itself.                                                   *)
GeneratorEnds ==
  genStep # "none" /\ (genMode = "STATIC" \/ ~genOn) ~> genStep = "ended"
=============================================================================
