----------------------------- MODULE ReadyOrder -----------------------------
(***************************************************************************)
(* The orders of ReadyQueue (src/core/ready_queue.cpp) as operators on     *)
(* sequences of processes without duplicates.                              *)
(*                                                                         *)
(* insert_ordered puts an element at std::lower_bound: before the first    *)
(* element that is not less than it.  On a sorted queue E the elements of  *)
(* D inserted one by one therefore give the stable sort of Reverse(D) \o E *)
(* (a later insertion goes in front of its equals): push is D = <<p>>,     *)
(* import_queue D = the drained processes, resort D = the queue and        *)
(* E = <<>>.  InsertOneByOne, the search of the code, leaves the same      *)
(* queue (ReadyOrderProofs!InsertionIsStableSort).                         *)
(*                                                                         *)
(* The definitions are by rank and not recursive, so that theorems about   *)
(* them can be proved (ReadyOrderProofs).                                  *)
(***************************************************************************)
EXTENDS ProcessTable, SequencesExt

(* The elements of s at the positions I, in the order Before (a strict     *)
(* total order on I given as a set of pairs).                              *)
Preceding(I, Before, i) == {j \in I : <<j, i>> \in Before}
Ranked(s, I, Before) ==
  [k \in 1 .. Cardinality(I) |->
     s[CHOOSE i \in I : Cardinality(Preceding(I, Before, i)) = k - 1]]

(* The stable sort of s by the strict weak order Less on processes.        *)
SortedBefore(s, Less) ==
  {ij \in (DOMAIN s) \X (DOMAIN s) :
     \/ <<s[ij[1]], s[ij[2]]>> \in Less
     \/ <<s[ij[2]], s[ij[1]]>> \notin Less /\ ij[1] < ij[2]}
StableSort(s, Less) == Ranked(s, DOMAIN s, SortedBefore(s, Less))

(* The elements of s that are in S, in the order of s. *)
PositionBefore(s) == {ij \in (DOMAIN s) \X (DOMAIN s) : ij[1] < ij[2]}
SelectIn(s, S) == Ranked(s, {i \in DOMAIN s : s[i] \in S}, PositionBefore(s))

(* ReadyQueue::cmp_priority and cmp_sjf over a process table. *)
PriorityLess(tbl) ==
  {pq \in PID \X PID :
     \/ tbl[pq[1]].priority < tbl[pq[2]].priority
     \/ /\ tbl[pq[1]].priority = tbl[pq[2]].priority
        /\ tbl[pq[1]].arrival < tbl[pq[2]].arrival}
ShorterLess(tbl) ==
  {pq \in PID \X PID :
     \/ tbl[pq[1]].remaining < tbl[pq[2]].remaining
     \/ /\ tbl[pq[1]].remaining = tbl[pq[2]].remaining
        /\ tbl[pq[1]].arrival < tbl[pq[2]].arrival}

(* Inserting the elements of D one by one into the sorted queue E. *)
InsertAll(E, D, Less) == StableSort(Reverse(D) \o E, Less)

(* What the code does: std::lower_bound's search in the half of the range  *)
(* that can hold the position, for one element after the other.            *)
LowerBound(s, p, Less) ==
  LET ranges == {r \in (1 .. Len(s) + 1) \X (0 .. Len(s)) : r[1] + r[2] <= Len(s) + 1}
      search[r \in ranges] ==  \* r: the first position and the length
        IF r[2] = 0 THEN r[1]
        ELSE LET mid == r[1] + r[2] \div 2
             IN IF <<s[mid], p>> \in Less
                THEN search[<<mid + 1, r[2] - r[2] \div 2 - 1>>]
                ELSE search[<<r[1], r[2] \div 2>>]
  IN search[<<1, Len(s)>>]
InsertOneByOne(E, D, Less) ==
  LET after[k \in 0 .. Len(D)] ==
        IF k = 0 THEN E
        ELSE InsertAt(after[k - 1], LowerBound(after[k - 1], D[k], Less), D[k])
  IN after[Len(D)]

(* No element of s is less than one in front of it. *)
SortedBy(s, Less) == \A i, j \in DOMAIN s : i < j => <<s[j], s[i]>> \notin Less

=============================================================================
