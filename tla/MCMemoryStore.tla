---------------------------- MODULE MCMemoryStore ----------------------------
(***************************************************************************)
(* A bounded instance of the in-memory store: two runs compete, and once   *)
(* time has passed there is one run, whose log outlives the retention.     *)
(***************************************************************************)
EXTENDS MemoryStoreRefinement, TLC

\* Identifiers are only compared.
Symmetry ==
    Permutations(Runs) \cup Permutations(Sessions) \cup Permutations(Workers)

\* Competition and retention are separate questions: either the clock stands,
\* nobody streams and the sessions change little, or one run lives on one
\* session.
CompetitionOrTime ==
    \/ /\ now = 0
       /\ ready
       /\ \A r \in DOMAIN log : \A i \in DOMAIN log[r] : log[r][i].type # RESPONSE_DELTA
       /\ \A s, t \in DOMAIN sessions : s # t => sessions[s] + sessions[t] <= 3
    \/ Cardinality(DOMAIN runs) <= 1 /\ Cardinality(DOMAIN sessions) <= 1
=============================================================================
