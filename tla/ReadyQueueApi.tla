--------------------------- MODULE ReadyQueueApi ----------------------------
(***************************************************************************)
(* ReadyQueue as the thread-safe queue its header describes: any thread    *)
(* may push, pop with or without a deadline, try, remove, re-sort or shut  *)
(* down.  A call that does not wait is one critical section; push,         *)
(* push_all and shutdown notify in a second step, after the mutex has been *)
(* released.  A wait tests its predicate under the mutex and blocks in     *)
(* another step, which releases it.  Keys do not change here (the aging    *)
(* that changes them is in ChildSchedulers).                               *)
(***************************************************************************)
EXTENDS ReadyOrder

CONSTANTS User,      \* threads
          Table,     \* the processes, by PID
          MAX_BATCH, \* bound: processes in one push_all
          NoUser     \* nobody holds the mutex

ASSUME QueueAssumption ==
  /\ IsFiniteSet(User) /\ NoUser \notin User
  /\ Table \in [PID -> PCB]
  /\ MAX_BATCH \in Nat

QueueOrder == {"FIFO", "SJF", "PRIORITY"}  \* CUSTOM has no user

VARIABLES order,     \* order_
          items,     \* queue_
          shut,      \* shutdown_
          mutex,     \* holder of mtx_ between two steps
          at,        \* where each thread is
          call,      \* the blocking call each thread is in
          held,      \* processes in somebody's hands
          dropped    \* processes pushed after the shutdown

queueVars == <<order, items, shut, mutex, at, call, held, dropped>>

Places == {"out",        \* in no call
           "test",       \* about to lock the mutex and test the predicate
           "tested",     \* found it false, still holds the mutex
           "blocked",    \* in the condition variable
           "late",       \* past the deadline: one last test
           "notifyOne", "notifyAll"}

QueueTypeOK ==
  /\ order \in QueueOrder /\ shut \in BOOLEAN
  /\ items \in Seq(PID) /\ held \subseteq PID /\ dropped \subseteq PID
  /\ mutex \in User \cup {NoUser}
  /\ at \in [User -> Places] /\ call \in [User -> {"none", "pop", "pop_for"}]

QueueInit ==
  /\ order \in QueueOrder /\ items = <<>> /\ shut = FALSE /\ mutex = NoUser
  /\ at = [u \in User |-> "out"] /\ call = [u \in User |-> "none"]
  /\ held = PID /\ dropped = {}

Less == CASE order = "SJF" -> ShorterLess(Table)
          [] order = "PRIORITY" -> PriorityLess(Table)
          [] OTHER -> {}
Inserted(D) == IF order = "FIFO" THEN items \o D ELSE InsertAll(items, D, Less)

Blocked == {u \in User : at[u] = "blocked"}
Locked(u, place) == at[u] = place /\ mutex = NoUser
Go(u, place) == at' = [at EXCEPT ![u] = place]
Return(u) == Go(u, "out") /\ call' = [call EXCEPT ![u] = "none"]
-----------------------------------------------------------------------------
(* push and push_all *)
Offered(u, D, place) ==
  /\ Locked(u, "out")
  /\ held' = held \ Range(D)
  /\ IF shut THEN dropped' = dropped \cup Range(D) /\ UNCHANGED <<items, at>>
             ELSE items' = Inserted(D) /\ Go(u, place) /\ UNCHANGED dropped
  /\ UNCHANGED <<order, shut, mutex, call>>
Push(u, p) == Offered(u, <<p>>, "notifyOne")
PushAll(u, D) == Offered(u, D, "notifyAll")

(* A batch of distinct processes *)
Batches == {D \in UNION {[1 .. n -> held] : n \in 0 .. MAX_BATCH} :
              \A i, j \in DOMAIN D : i # j => D[i] # D[j]}

NotifyOne(u) ==
  /\ at[u] = "notifyOne"
  /\ \/ Blocked = {} /\ Go(u, "out")
     \/ \E w \in Blocked : at' = [at EXCEPT ![u] = "out", ![w] = "test"]
  /\ UNCHANGED <<order, items, shut, mutex, call, held, dropped>>
NotifyAll(u) ==
  /\ at[u] = "notifyAll"
  /\ at' = [w \in User |-> IF w = u THEN "out" ELSE IF w \in Blocked THEN "test" ELSE at[w]]
  /\ UNCHANGED <<order, items, shut, mutex, call, held, dropped>>
-----------------------------------------------------------------------------
(* pop and pop_for *)
Ask(u, c) ==
  /\ at[u] = "out"
  /\ Go(u, "test") /\ call' = [call EXCEPT ![u] = c]
  /\ UNCHANGED <<order, items, shut, mutex, held, dropped>>

TakeFront == items' = Tail(items) /\ held' = held \cup {Head(items)}
TakeOrNothing ==
  IF items = <<>> THEN UNCHANGED <<items, held>> ELSE TakeFront

(* cv_.wait's predicate *)
Awaited == items # <<>> \/ shut
TestHoldingNothing(u) ==  \* mutant: the mutex is free between test and block
  /\ Locked(u, "test")
  /\ IF Awaited
     THEN TakeOrNothing /\ Return(u)
     ELSE Go(u, "tested") /\ UNCHANGED <<items, held, call>>
  /\ UNCHANGED <<order, shut, mutex, dropped>>
Test(u) ==
  /\ Locked(u, "test")
  /\ IF Awaited
     THEN TakeOrNothing /\ Return(u) /\ UNCHANGED mutex
     ELSE Go(u, "tested") /\ mutex' = u /\ UNCHANGED <<items, held, call>>
  /\ UNCHANGED <<order, shut, dropped>>
Block(u) ==
  /\ at[u] = "tested"
  /\ Go(u, "blocked") /\ mutex' = NoUser
  /\ UNCHANGED <<order, items, shut, call, held, dropped>>
WakeSpuriously(u) ==
  /\ at[u] = "blocked"
  /\ Go(u, "test")
  /\ UNCHANGED <<order, items, shut, mutex, call, held, dropped>>

(* wait_for evaluates the predicate once more after its deadline. *)
Timeout(u) ==
  /\ at[u] = "blocked" /\ call[u] = "pop_for"
  /\ Go(u, "late")
  /\ UNCHANGED <<order, items, shut, mutex, call, held, dropped>>
ReturnNothing(u) ==  \* mutant: a deadline returns without looking again
  /\ Locked(u, "late")
  /\ Return(u)
  /\ UNCHANGED <<order, items, shut, mutex, held, dropped>>
LastTest(u) ==
  /\ Locked(u, "late")
  /\ TakeOrNothing /\ Return(u)
  /\ UNCHANGED <<order, shut, mutex, dropped>>
-----------------------------------------------------------------------------
TryPop(u) ==
  /\ Locked(u, "out") /\ items # <<>>
  /\ TakeFront
  /\ UNCHANGED <<order, shut, mutex, at, call, dropped>>
RemovePid(u, p) ==
  /\ Locked(u, "out") /\ p \in Range(items)
  /\ items' = SelectIn(items, PID \ {p})
  /\ held' = held \cup {p}
  /\ UNCHANGED <<order, shut, mutex, at, call, dropped>>
Resort(u) ==
  /\ Locked(u, "out")
  /\ items' = IF order = "FIFO" THEN items ELSE InsertAll(<<>>, items, Less)
  /\ UNCHANGED <<order, shut, mutex, at, call, held, dropped>>

ShutdownSilently(u) ==  \* mutant: nobody is notified
  /\ Locked(u, "out") /\ ~shut
  /\ shut' = TRUE
  /\ UNCHANGED <<order, items, mutex, at, call, held, dropped>>
CloseQueue(u) ==
  /\ Locked(u, "out")
  /\ shut' = TRUE /\ Go(u, "notifyAll")
  /\ UNCHANGED <<order, items, mutex, call, held, dropped>>

-----------------------------------------------------------------------------
QueueNext ==
  \E u \in User :
    \/ \E p \in held : Push(u, p)
    \/ \E D \in Batches : PushAll(u, D)
    \/ NotifyOne(u) \/ NotifyAll(u)
    \/ \E c \in {"pop", "pop_for"} : Ask(u, c)
    \/ Test(u) \/ Block(u) \/ WakeSpuriously(u) \/ Timeout(u) \/ LastTest(u)
    \/ TryPop(u) \/ \E p \in PID : RemovePid(u, p)
    \/ Resort(u) \/ CloseQueue(u)

(* A thread inside a call goes on; whether it makes another is open, and   *)
(* whether a deadline strikes before a wakeup too.                         *)
QueueFairness ==
  \A u \in User :
    /\ WF_queueVars(NotifyOne(u) \/ NotifyAll(u))
    /\ WF_queueVars(Test(u) \/ LastTest(u))
    /\ WF_queueVars(Block(u))

QueueSpec == QueueInit /\ [][QueueNext]_queueVars /\ QueueFairness
-----------------------------------------------------------------------------
(* No push is without a wakeup: while threads are blocked, as many others  *)
(* as there are elements are on their way to the predicate or about to     *)
(* notify one that is; after a shutdown a thread that is blocked is about  *)
(* to be notified.  (push and shutdown notify after unlocking, pop tests   *)
(* before blocking.)                                                       *)
OnTheWay == {u \in User : at[u] \in {"notifyOne", "test"}}
NoWakeupLost ==
  Blocked # {} /\ (\A u \in User : at[u] # "notifyAll") =>
    ~shut /\ Len(items) <= Cardinality(OnTheWay)

(* ready_queue.h: "returns nullptr if shut down and queue is empty",       *)
(* "nullptr on timeout/shutdown": what a client sees is QueueContract.  It *)
(* has the elements go out by rank, so that the front must be the best     *)
(* whatever was pushed, removed and re-sorted in whatever order.           *)
OrderOf(s) == {<<s[ij[1]], s[ij[2]]>> : ij \in PositionBefore(s)}
Outranks == IF order = "FIFO" THEN OrderOf(items) ELSE Less
Contract == INSTANCE QueueContract
  WITH Element <- PID, Client <- User,
       fifo <- order = "FIFO", outranks <- Outranks,
       outside <- held, inside <- Range(items), refused <- dropped,
       patient <- {u \in User : call[u] = "pop"},
       hurried <- {u \in User : call[u] = "pop_for"},
       open <- ~shut
ImplementsQueueContract == Contract!QueueContractSpec

(* Threads do not stay blocked while the predicate of their wait holds:    *)
(* what is pushed is taken, and after the shutdown ("Graceful shutdown via *)
(* poison-pill") nobody is left in pop.                                    *)
WaitingGoOn == Awaited /\ Blocked # {} ~> ~Awaited \/ Blocked = {}
=============================================================================
