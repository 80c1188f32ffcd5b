--------------------------- MODULE AttemptContract ---------------------------
(***************************************************************************)
(* What the retry loop promises of one run, whatever its clock, provider   *)
(* and store do (supervisor.py, _run_provider_with_retry: "Apply the sole  *)
(* retry budget, never replaying after a streamed delta"): an attempt is   *)
(* counted before the provider is called, a delta is final, and no more    *)
(* than max_attempts attempts are counted.                                 *)
(***************************************************************************)
EXTENDS Naturals

CONSTANT MaxAttempts

VARIABLES
    phase,     \* "waiting" to begin an attempt, "calling" or "over"
    attempts,  \* the durable attempt_count
    emitted    \* a delta reached the Supervisor in this attempt

vars == <<phase, attempts, emitted>>

Init == phase = "waiting" /\ attempts = 0 /\ emitted = FALSE

\* Counted, and called unless the time or the process ends first.
Count ==
    /\ phase = "waiting"
    /\ attempts < MaxAttempts
    /\ attempts' = attempts + 1
    /\ phase' \in {"calling", "over"}
    /\ emitted' = FALSE

Emit ==
    /\ phase = "calling"
    /\ emitted' = TRUE
    /\ UNCHANGED <<phase, attempts>>

\* Another attempt is due.
Retry ==
    /\ phase = "calling"
    /\ ~ emitted
    /\ attempts < MaxAttempts
    /\ phase' = "waiting"
    /\ UNCHANGED <<attempts, emitted>>

Stop ==
    /\ phase # "over"
    /\ phase' = "over"
    /\ UNCHANGED <<attempts, emitted>>

Next == Count \/ Emit \/ Retry \/ Stop

Spec == Init /\ [][Next]_vars
=============================================================================
