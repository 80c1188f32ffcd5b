--------------------------- MODULE MCRuntimeStore ----------------------------
(***************************************************************************)
(* The store with two competing runs, or with one run and a clock that     *)
(* outlives the retention.                                                 *)
(***************************************************************************)
EXTENDS RuntimeStoreRefinement, TLC

\* Deltas are written and time passes only beside one run and one session that
\* changes by its turn: retention and numbering concern one log, competition two
\* rows.
CompetitionOrTime ==
    \/ /\ Cardinality({r \in Runs : status[r] # ABSENT}) <= 1
       /\ Cardinality({s \in Sessions : version[s] > 0}) <= 1
       /\ \A s \in Sessions :
             version[s] <= 1 \/ (version[s] = 2 /\ \E r \in Runs : status[r] = COMPLETED)
    \/ now = 0 /\ \A r \in Runs : \A e \in events[r] : e.type # RESPONSE_DELTA

\* Identifiers are only compared, so each of these sets may be permuted.
Symmetry ==
    Permutations(Runs) \cup Permutations(Sessions) \cup Permutations(Hashes)
        \cup Permutations(Workers)
=============================================================================
