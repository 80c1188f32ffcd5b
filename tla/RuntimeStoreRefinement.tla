----------------------- MODULE RuntimeStoreRefinement ------------------------
(***************************************************************************)
(* The relational store implements the contract: the columns of agent_runs *)
(* and the run_id column of agent_messages are its refinement mapping.     *)
(***************************************************************************)
EXTENDS RuntimeStore

PhaseOf(r)    == IF Active(r) THEN "active" ELSE status[r]
TurnsOf(s)    == {m.run : m \in {transcript[s][i] : i \in DOMAIN transcript[s]}} \ {NoRun}

Contract == INSTANCE RunContract WITH
    phase <- [r \in Runs |-> PhaseOf(r)],
    on    <- [r \in Runs |-> request[r].session],
    bound <- [k \in Keys |-> KeyHolders(k)],
    turns <- [s \in Sessions |-> TurnsOf(s)]

\* Every transaction of database/store.py is a step of the contract or
\* invisible to it: clients see serial turns, one run per key, one outcome.
ImplementsContract == Contract!Spec
=============================================================================
