----------------------------- MODULE MCShutdown -----------------------------
(* Small instances of Shutdown for TLC. *)
EXTENDS Shutdown

\* Two processes, the second after an idle tick.
TwoArrivals == <<0, 2>>
=============================================================================
