--------------------------- MODULE MCAdaptiveSim ----------------------------
(* Small instances of AdaptiveSim for TLC. *)
EXTENDS AdaptiveClaims

\* Quanta of one tick, so that a burst of 3 reaches level 2, and FCFS below.
ShortQuanta == [l \in Levels |-> IF l = NUM_LEVELS - 1 THEN 0 ELSE 1]
\* Two levels with a quantum; a process of burst 4 falls to the FCFS level.
MixedQuanta == [l \in Levels |-> IF l = 0 THEN 1 ELSE IF l = 1 THEN 2 ELSE 0]

\* Processes are interchangeable: a workload is chosen by Init for each of
\* them from the same sets, and no definition depends on a PID's value.
Symmetry == Permutations(PID)

\* The closed form of ReadyOrder is what insert_ordered computes, evaluated for
\* every sorted queue E and every sequence D of other processes (for all of
\* them: ReadyOrderProofs!InsertionIsStableSort).
Orders == [arrival : {0, 1}, priority : {0, 1}, remaining : {1, 2}]
Arrangements == UNION {SetToSeqs(S) : S \in SUBSET PID}
ASSUME InsertionAssumption ==
  \A tbl \in [PID -> Orders] :
    \A Less \in {PriorityLess(tbl), ShorterLess(tbl)} :
      \A E \in {s \in Arrangements : SortedBy(s, Less)} :
        \A D \in {s \in Arrangements : Range(s) \cap Range(E) = {}} :
          InsertAll(E, D, Less) = InsertOneByOne(E, D, Less)
=============================================================================
