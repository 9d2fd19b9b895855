--------------------------- MODULE QueueContract ----------------------------
(***************************************************************************)
(* What ReadyQueue promises its users, without a queue, a mutex or a       *)
(* condition variable: an element offered while the queue is open is       *)
(* handed out once, to somebody, before any element it outranks; who waits *)
(* for one goes away with nothing only when there is nothing, and if it    *)
(* waits without a deadline, only after the shutdown.                      *)
(***************************************************************************)
CONSTANTS Element, Client

VARIABLES outside,  \* elements in somebody's hands
          inside,   \* elements offered and not yet handed out
          refused,  \* elements offered after the shutdown: gone
          patient,  \* clients in pop
          hurried,  \* clients in pop_for
          open,
          fifo,     \* whether elements go out in the order they came
          outranks  \* the pairs of elements whose first goes out first

queueContractVars == <<outside, inside, refused, patient, hurried, open, fifo, outranks>>

QueueContractInit ==
  /\ outside = Element /\ inside = {} /\ refused = {}
  /\ patient = {} /\ hurried = {} /\ open = TRUE
  /\ fifo \in BOOLEAN /\ outranks \subseteq Element \X Element

Offer(S) ==
  /\ S \subseteq outside
  /\ outside' = outside \ S
  /\ IF open THEN inside' = inside \cup S /\ UNCHANGED refused
             ELSE refused' = refused \cup S /\ UNCHANGED inside
  /\ UNCHANGED <<patient, hurried, open>>

AskFor(c) ==
  /\ c \notin patient \cup hurried
  /\ \/ patient' = patient \cup {c} /\ UNCHANGED hurried
     \/ hurried' = hurried \cup {c} /\ UNCHANGED patient
  /\ UNCHANGED <<outside, inside, refused, open>>

Remove(x) ==
  /\ x \in inside
  /\ inside' = inside \ {x} /\ outside' = outside \cup {x}
  /\ UNCHANGED <<refused, open>>
HandOut(x) == Remove(x) /\ ~ \E y \in inside : <<y, x>> \in outranks
Answer(c) ==
  /\ c \in patient \cup hurried
  /\ patient' = patient \ {c} /\ hurried' = hurried \ {c}

GiveUp(c) ==
  /\ Answer(c)
  /\ inside = {}
  /\ c \in hurried \/ ~open
  /\ UNCHANGED <<outside, inside, refused, open>>

Close == open' = FALSE /\ UNCHANGED <<outside, inside, refused, patient, hurried>>

(* By rank the order is given; else it is the order of the offers, and no  *)
(* step changes it among the elements that stay.                           *)
Ordered ==
  /\ fifo' = fifo
  /\ IF fifo
     THEN /\ \A x, y \in inside \cap inside' :
               <<x, y>> \in outranks <=> <<x, y>> \in outranks'
          /\ \A x \in inside, y \in inside' \ inside : <<x, y>> \in outranks'
     ELSE outranks' = outranks

ClientStep ==
  \/ \E S \in SUBSET outside : Offer(S)
  \/ \E c \in Client : AskFor(c) \/ GiveUp(c)
  \/ \E c \in Client, x \in inside : HandOut(x) /\ Answer(c)
  \/ \E x \in inside : HandOut(x) /\ UNCHANGED <<patient, hurried>>  \* try_pop
  \/ \E x \in inside : Remove(x) /\ UNCHANGED <<patient, hurried>>   \* remove
  \/ Close

QueueContractNext == ClientStep /\ Ordered
QueueContractSpec == QueueContractInit /\ [][QueueContractNext]_queueContractVars
=============================================================================
