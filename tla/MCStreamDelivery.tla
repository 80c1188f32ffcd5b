-------------------------- MODULE MCStreamDelivery ---------------------------
(***************************************************************************)
(* Bounded instances of stream delivery: one run on one session, and       *)
(* readers that lose connections.                                          *)
(***************************************************************************)
EXTENDS StreamDelivery

\* The session changes by the run's turn only: readers see nothing else of it.
OnlyTheRunWrites ==
    \A s \in Sessions : version[s] <= 1 \/ \E r \in Runs : status[r] = COMPLETED
=============================================================================
