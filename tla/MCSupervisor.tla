---------------------------- MODULE MCSupervisor -----------------------------
(***************************************************************************)
(* Bounded instances of the supervisor; each .cfg chooses the processes    *)
(* and the faults its question needs.                                      *)
(***************************************************************************)
EXTENDS Supervisor, TLC

MCHashes == Payloads \X (Sessions \cup {NoSession})

\* One call under every fault and request, given up before its task exists if at
\* all, or two calls with crashes and outages alone: neither cancelled, given up,
\* streaming, retried nor shut down.
OneCallOrFaultsAlone ==
    \/ /\ Cardinality({q \in Runs : call[q].pc # "idle"}) <= 1
       /\ \A q \in Runs : call[q].answer = "abandoned" => pc[q] = "none"
    \/ /\ \A c \in Cancels : cancel[c].pc = "idle"
       /\ \A q \in Runs : call[q].answer # "abandoned"
       /\ \A r \in Runs : attempts[r] <= 1 /\ ~ emitted[r]
       /\ \A w \in Workers : mode[w] \in {"off", "starting", "pruning", "serving", "crashed"}

\* Clients give up and cancel beside one call or two that share a key; two runs
\* follow each other without.  Identifiers are only compared, so the same call
\* may be taken to be submitted first.
OneRunOrNobodyGivesUp ==
    /\ \/ \A p, q \in Runs : call[p].pc # "idle" /\ call[q].pc # "idle" =>
              p = q \/ (call[p].key = call[q].key /\ call[p].key # NoKey)
       \/ /\ \A q \in Runs : call[q].answer # "abandoned"
          /\ \A c \in Cancels : cancel[c].pc = "idle"
    /\ LET first == CHOOSE r \in Runs : TRUE
       IN  call[first].pc = "idle" => \A q \in Runs : call[q].pc = "idle"

\* Runs, cancel requests, workers and payloads are only compared.
Symmetry ==
    Permutations(Runs) \cup Permutations(Cancels) \cup Permutations(Workers)
        \cup Permutations(Payloads)
=============================================================================
