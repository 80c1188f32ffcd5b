---------------------------- MODULE RunContract ------------------------------
(***************************************************************************)
(* What the runtime promises its clients, without rows, events or workers: *)
(* a run begins on an idle session and under an unused key, ends once, and *)
(* joins its session's turns exactly when it ends completed.               *)
(***************************************************************************)
EXTENDS RunLifecycle

CONSTANTS Runs, Sessions, Keys, NoSession

VARIABLES
    phase,     \* "active", a terminal status, or ABSENT
    on,        \* the session a run executes on
    bound,     \* the runs a key has been bound to
    turns      \* the completed runs a session remembers

contractVars == <<phase, on, bound, turns>>

Idle(s) == \A r \in Runs : on[r] = s => phase[r] # "active"

Init ==
    /\ phase = [r \in Runs |-> ABSENT]
    /\ on = [r \in Runs |-> NoSession]
    /\ bound = [k \in Keys |-> {}]
    /\ turns = [s \in Sessions |-> {}]

\* A keyless run binds nothing.
Begin(r, s) ==
    /\ phase[r] = ABSENT
    /\ Idle(s)
    /\ phase' = [phase EXCEPT ![r] = "active"]
    /\ on' = [on EXCEPT ![r] = s]
    /\ \/ UNCHANGED bound
       \/ \E k \in Keys : bound[k] = {} /\ bound' = [bound EXCEPT ![k] = {r}]
    /\ UNCHANGED turns

Complete(r) ==
    /\ phase[r] = "active"
    /\ phase' = [phase EXCEPT ![r] = COMPLETED]
    /\ turns' = [turns EXCEPT ![on[r]] = @ \cup {r}]
    /\ UNCHANGED <<on, bound>>

\* One run fails or is cancelled; a start-up or shutdown interrupts several.
Abandon(runs, outcome) ==
    /\ \A r \in runs : phase[r] = "active"
    /\ phase' = [r \in Runs |-> IF r \in runs THEN outcome ELSE phase[r]]
    /\ UNCHANGED <<on, bound, turns>>

Forget(s) ==
    /\ Idle(s)
    /\ turns' = [turns EXCEPT ![s] = {}]
    /\ UNCHANGED <<phase, on, bound>>

Next ==
    \/ \E r \in Runs, s \in Sessions : Begin(r, s)
    \/ \E r \in Runs : Complete(r)
    \/ \E runs \in SUBSET Runs, outcome \in TERMINAL_RUN_STATUSES \ {COMPLETED} :
           Abandon(runs, outcome)
    \/ \E s \in Sessions : Forget(s)

Spec == Init /\ [][Next]_contractVars
=============================================================================
