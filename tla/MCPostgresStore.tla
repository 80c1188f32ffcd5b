--------------------------- MODULE MCPostgresStore ---------------------------
(***************************************************************************)
(* A bounded instance of the lock-level store: two connections, whose slot *)
(* a later operation reuses, over two runs and two sessions.               *)
(***************************************************************************)
EXTENDS PostgresStore, TLC

MCHashes == Payloads \X (Sessions \cup {NoSession})

\* Identifiers are only compared.
Symmetry ==
    Permutations(Runs) \cup Permutations(Sessions) \cup Permutations(Txns)

\* Every operation meets every other over one run on one session; beside a
\* second run or session only what reservations and commits tell apart is
\* explored.
OneRunOrReservations ==
    \/ /\ \E r \in Runs : \A q \in Runs \ {r} : status[q] = ABSENT
       /\ \E s \in Sessions : \A u \in Sessions \ {s} : version[u] = 0
       /\ \A r \in Runs : attempts[r] = 0 \/ \A e \in events[r] : e.type # RESPONSE_DELTA
    \/ /\ \A r \in Runs :
             /\ status[r] \in {ABSENT, PENDING, RUNNING, COMPLETED}
             /\ attempts[r] = 0
             /\ \A e \in events[r] : e.type # RESPONSE_DELTA
       /\ \A t \in Txns : tx[t].op \in {"none", "reserve", "mark", "commit"}
       /\ Cardinality({r \in Runs : status[r] = COMPLETED}) <= 1
       /\ \A s \in Sessions : version[s] <= 1 \/ transcript[s] # <<>>
=============================================================================
