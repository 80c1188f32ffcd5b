---------------------------- MODULE RunLifecycle ----------------------------
(***************************************************************************)
(* The vocabulary of runtime/state.py: the statuses of an AgentRun, the    *)
(* frozen transition table, and the durable stream event types.            *)
(***************************************************************************)

PENDING     == "pending"
RUNNING     == "running"
COMPLETED   == "completed"
FAILED      == "failed"
CANCELLED   == "cancelled"
INTERRUPTED == "interrupted"

ACTIVE_RUN_STATUSES   == {PENDING, RUNNING}
TERMINAL_RUN_STATUSES == {COMPLETED, FAILED, CANCELLED, INTERRUPTED}
RunStatus             == ACTIVE_RUN_STATUSES \cup TERMINAL_RUN_STATUSES

\* A run identifier that no row of agent_runs carries yet.
ABSENT == "absent"

ALLOWED_RUN_TRANSITIONS ==
    [s \in ACTIVE_RUN_STATUSES |->
        IF s = PENDING THEN {RUNNING, FAILED, CANCELLED, INTERRUPTED}
                       ELSE {COMPLETED, FAILED, CANCELLED, INTERRUPTED}]

\* Mutant of ValidRunTransition: any stored status may be rewritten.
AnyTransition(current, target) == current # ABSENT

\* validate_run_transition returns without raising.
ValidRunTransition(current, target) ==
    /\ current \in DOMAIN ALLOWED_RUN_TRANSITIONS
    /\ target \in ALLOWED_RUN_TRANSITIONS[current]

RUN_STARTED        == "run.started"
RESPONSE_DELTA     == "response.delta"
RESPONSE_COMPLETED == "response.completed"
RUN_FAILED         == "run.failed"
RUN_CANCELLED      == "run.cancelled"
RUN_INTERRUPTED    == "run.interrupted"

TERMINAL_EVENT_TYPES ==
    {RESPONSE_COMPLETED, RUN_FAILED, RUN_CANCELLED, RUN_INTERRUPTED}
StreamEventType == {RUN_STARTED, RESPONSE_DELTA} \cup TERMINAL_EVENT_TYPES

\* The event type that announces a run's arrival in a terminal status.
AnnouncedBy(s) ==
    CASE s = COMPLETED   -> RESPONSE_COMPLETED
      [] s = FAILED      -> RUN_FAILED
      [] s = CANCELLED   -> RUN_CANCELLED
      [] s = INTERRUPTED -> RUN_INTERRUPTED
=============================================================================
