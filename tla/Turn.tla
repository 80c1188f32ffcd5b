-------------------------------- MODULE Turn ---------------------------------
(***************************************************************************)
(* What the task of one run does between mark_run_running and              *)
(* commit_run_success or fail_run: a tool command through ToolRegistry, or *)
(* provider attempts within the RetryBudget (agents/supervisor.py,         *)
(* runtime/retry.py, providers/).  Supervisor.tla has the same task with   *)
(* its clock, its provider and its tools abstracted away; here they are    *)
(* explicit, and the store's operations only take time.                    *)
(*                                                                         *)
(* Time is counted in ticks from "started = monotonic()".  A deadline of   *)
(* asyncio.timeout fires when it is reached: the clock does not pass it.   *)
(***************************************************************************)
EXTENDS ToolRegistry, Sequences, FiniteSetsExt

CONSTANTS
    MaxAttempts, MaxElapsed, BaseDelay, MaxDelay, Jitter,  \* RetryBudget
    RandomPercents,   \* 100 * random(), as far as it is told apart
    ProviderTimeout,  \* OpenAIProvider._timeout_seconds
    MaxDeltas,        \* bound: deltas of one attempt
    MaxClock,         \* bound: the clock stops here
    Commands,         \* tool commands, the ill-formed one included
    Scripts           \* scripted behaviours of FakeModelProvider

ASSUME BudgetIsValid ==
    /\ MaxAttempts \in Nat \ {0} /\ MaxElapsed \in Nat \ {0}
    /\ BaseDelay \in Nat /\ MaxDelay \in Nat /\ BaseDelay <= MaxDelay
    /\ Jitter \in BOOLEAN /\ RandomPercents \subseteq 0 .. 99
    /\ (Jitter => RandomPercents # {})
ASSUME LimitsAreTimes ==
    /\ ProviderTimeout \in Nat \ {0} /\ MaxDeltas \in Nat
    /\ MaxClock \in Nat /\ MaxClock >= MaxElapsed

\* The provers know no arithmetic of ^.
ASSUME PowersOfTwo == \A n \in 0 .. MaxAttempts : 2 ^ n \in Nat

Malformed == [name |-> "malformed"]
NoCommand == [name |-> "no command"]
NoScript  == [failTimes |-> 0, retryable |-> FALSE, chunks |-> 0, failAfter |-> 0]

ASSUME CommandsNameTools ==
    Commands \subseteq [name : Names, payload : Schemas] \cup {Malformed}
ASSUME ScriptsAreScripts ==
    Scripts \subseteq [failTimes : Nat, retryable : BOOLEAN, chunks : Nat, failAfter : Nat]

VARIABLES
    turn,      \* the message and how it is answered: never changes
    pc,        \* where the task is
    tool,      \* the definition _run_tool or execute() holds
    output,    \* what the handler returned
    clock,     \* monotonic() - started
    attempt,   \* durable.attempt_count
    calls,     \* calls of provider.run or provider.stream
    sent,      \* deltas the provider yielded in this attempt
    emitted,   \* emitted_delta
    deadline,  \* of asyncio.timeout(remaining)
    limit,     \* of the asyncio.timeout inside the provider or execute()
    delay,     \* of asyncio.sleep
    error,     \* error_code of the exception in flight
    asked      \* somebody called task.cancel()

toolVars     == <<tools, tool, output>>
providerVars == <<attempt, calls, sent, emitted, deadline, delay>>
vars == <<toolVars, providerVars, turn, pc, clock, limit, error, asked>>

NoOutput == "none"
NoError  == "none"
Never    == MaxClock + 1

ToolTurns ==
    [kind : {"tool"}, command : Commands, streaming : {FALSE}, script : {NoScript}]
ProviderTurns ==
    [kind : {"openai"}, command : {NoCommand}, streaming : BOOLEAN, script : {NoScript}]
        \cup [kind : {"fake"}, command : {NoCommand}, streaming : BOOLEAN, script : Scripts]

Init ==
    /\ RegistryInit
    /\ turn \in ToolTurns \cup ProviderTurns
    /\ pc = "parsing"
    /\ tool = NoTool
    /\ output = NoOutput
    /\ clock = 0
    /\ attempt = 0
    /\ calls = 0
    /\ sent = 0
    /\ emitted = FALSE
    /\ deadline = Never
    /\ limit = Never
    /\ delay = 0
    /\ error = NoError
    /\ asked = FALSE

Goto(at) == pc' = at
Stop(code) == pc' = "failed" /\ error' = code

-----------------------------------------------------------------------------
(* Tool commands: _parse_tool_command, _run_tool and ToolRegistry.execute. *)

\* Registrations and removals matter only to tool commands.
EditRegistry ==
    /\ turn.kind = "tool"
    /\ pc \in {"parsing", "screening", "handling"}
    /\ RegistryStep
    /\ UNCHANGED <<tool, output, providerVars, turn, pc, clock, limit, error, asked>>

\* A message that is no command goes to the provider; an ill-formed command and
\* an unknown name raise; otherwise the guardrails get the definition.
Parse ==
    /\ pc = "parsing"
    /\ \/ /\ turn.kind # "tool"
          /\ Goto("attempting")
          /\ UNCHANGED <<tool, error>>
       \/ /\ turn.kind = "tool"
          /\ turn.command = Malformed
          /\ Stop("TOOL_VALIDATION_ERROR")
          /\ UNCHANGED tool
       \/ /\ turn.kind = "tool"
          /\ turn.command # Malformed
          /\ IF Registered(turn.command.name)
             THEN Goto("screening") /\ tool' = tools[turn.command.name] /\ UNCHANGED error
             ELSE Stop("TOOL_NOT_FOUND") /\ UNCHANGED tool
    /\ UNCHANGED <<tools, output, providerVars, turn, clock, limit, asked>>

\* PhaseZeroToolGuardrail, or a guardrail of the application's own.
GuardrailBlocks ==
    /\ pc = "screening"
    /\ Stop("GUARDRAIL_BLOCKED")
    /\ UNCHANGED <<toolVars, providerVars, turn, clock, limit, asked>>

\* execute() looks the name up again, after the guardrails' awaits; from there
\* to the handler nothing is awaited.
Execute ==
    LET found == tools[turn.command.name]
    IN  /\ pc = "screening"
        /\ GuardrailAllows(tool)
        /\ IF ~ Registered(turn.command.name)
           THEN Stop("TOOL_NOT_FOUND") /\ UNCHANGED <<tool, limit>>
           ELSE IF ~ Authorized(found)
           THEN Stop("TOOL_PERMISSION_DENIED") /\ UNCHANGED <<tool, limit>>
           ELSE IF turn.command.payload # found.input
           THEN Stop("TOOL_VALIDATION_ERROR") /\ UNCHANGED <<tool, limit>>
           ELSE /\ Goto("handling")
                /\ tool' = found
                /\ limit' = clock + found.timeout
                /\ UNCHANGED error
        /\ UNCHANGED <<tools, output, providerVars, turn, clock, asked>>

HandlerReturns ==
    /\ pc = "handling"
    /\ output' \in Schemas
    /\ Goto("validating")
    /\ UNCHANGED <<tools, tool, providerVars, turn, clock, limit, error, asked>>

\* A ToolError passes, any other exception is wrapped in one.
HandlerRaises ==
    /\ pc = "handling"
    /\ Stop("TOOL_ERROR")
    /\ UNCHANGED <<toolVars, providerVars, turn, clock, limit, asked>>

HandlerTimesOut ==
    /\ pc = "handling"
    /\ clock >= limit
    /\ Stop("TOOL_TIMEOUT")
    /\ UNCHANGED <<toolVars, providerVars, turn, clock, limit, asked>>

\* Mutant of OutputSchema: the definition is looked up by name once more.
OutputSchemaByName ==
    IF Registered(turn.command.name) THEN tools[turn.command.name].output ELSE tool.output

OutputSchema == tool.output

ValidateOutput ==
    /\ pc = "validating"
    /\ IF output = OutputSchema
       THEN Goto("checking") /\ UNCHANGED error
       ELSE Stop("TOOL_VALIDATION_ERROR")
    /\ UNCHANGED <<toolVars, providerVars, turn, clock, limit, asked>>

\* _check_output: the output guardrails, then the success commit.
CheckOutput ==
    /\ pc = "checking"
    /\ \/ Goto("answered") /\ UNCHANGED error
       \/ Stop("GUARDRAIL_BLOCKED")
    /\ UNCHANGED <<toolVars, providerVars, turn, clock, limit, asked>>

-----------------------------------------------------------------------------
(* RetryBudget. *)

Backoff(n) == Min({MaxDelay, BaseDelay * 2 ^ (n - 1)})

\* Mutant of DelayAfter: jitter is applied to the capped delay and not capped.
DelayUncapped(n) ==
    IF Jitter /\ Backoff(n) # 0
    THEN {(Backoff(n) * (50 + r)) \div 100 : r \in RandomPercents}
    ELSE {Backoff(n)}

DelayAfter(n) ==
    IF Jitter /\ Backoff(n) # 0
    THEN {Min({MaxDelay, (Backoff(n) * (50 + r)) \div 100}) : r \in RandomPercents}
    ELSE {Backoff(n)}

\* Mutant of PermitsRetry: the attempt that failed is not counted.
PermitsOneMoreRetry(n, elapsed, wait) == n <= MaxAttempts /\ elapsed + wait < MaxElapsed

PermitsRetry(n, elapsed, wait) == n < MaxAttempts /\ elapsed + wait < MaxElapsed

\* Mutants of Remaining: every attempt gets the whole budget; an attempt is
\* refused one tick early.
WholeBudget   == MaxElapsed
RemainingLess == MaxElapsed - clock - 1

Remaining   == MaxElapsed - clock

-----------------------------------------------------------------------------
(* The providers: which delta, end or error may come next. *)

Fake == turn.kind = "fake"

\* _raise_scripted_failure and the failure after a delta.
FakeFails ==
    \/ calls <= turn.script.failTimes
    \/ sent > 0 /\ sent = turn.script.failAfter

MayYield ==
    /\ turn.streaming
    /\ IF Fake THEN ~ FakeFails /\ sent < turn.script.chunks ELSE sent < MaxDeltas

MayRespond ==
    Fake => ~ FakeFails /\ (turn.streaming => sent = turn.script.chunks)

\* What the SDK may raise, and the status of an APIStatusError.
SdkFailure ==
    [type : {"TimeoutError", "APITimeoutError", "APIConnectionError", "RateLimitError",
             "InternalServerError", "ValueError"}, status : {0}]
        \cup [type : {"APIStatusError"}, status : {400, 408, 409, 429, 503}]

NormalizeFailure(e) ==
    IF e.type \in {"TimeoutError", "APITimeoutError"} THEN "PROVIDER_TIMEOUT"
    ELSE IF \/ e.type \in {"APIConnectionError", "RateLimitError", "InternalServerError"}
            \/ e.type = "APIStatusError" /\ (e.status >= 500 \/ e.status \in {408, 409, 429})
         THEN "PROVIDER_UNAVAILABLE"
         ELSE "PROVIDER_ERROR"

\* Empty content is an error of the OpenAI provider, never retryable.
ProviderErrors ==
    IF Fake
    THEN IF ~ FakeFails THEN {}
         ELSE IF turn.script.retryable THEN {"PROVIDER_UNAVAILABLE"} ELSE {"PROVIDER_ERROR"}
    ELSE {NormalizeFailure(e) : e \in SdkFailure} \cup {"PROVIDER_ERROR"}

RetryableErrors == {"PROVIDER_UNAVAILABLE", "PROVIDER_TIMEOUT"}

-----------------------------------------------------------------------------
(* _run_provider_with_retry. *)

InAttempt == pc \in {"calling", "persisting"}

\* increment_run_attempt has returned; up to the provider nothing is awaited.
BeginAttempt ==
    /\ pc = "attempting"
    /\ attempt' = attempt + 1
    /\ emitted' = FALSE
    /\ IF Remaining <= 0
       THEN /\ Stop("RETRY_BUDGET_EXHAUSTED")
            /\ UNCHANGED <<calls, sent, deadline, limit>>
       ELSE /\ Goto("calling")
            /\ calls' = calls + 1
            /\ sent' = 0
            /\ deadline' = clock + Remaining
            /\ limit' = IF Fake THEN Never ELSE clock + ProviderTimeout
            /\ UNCHANGED error
    /\ UNCHANGED <<toolVars, delay, turn, clock, asked>>

\* The await of increment_run_attempt ends otherwise than by returning: the count
\* may have been committed all the same.
IncrementUnacknowledged ==
    /\ pc = "attempting"
    /\ attempt' \in {attempt, attempt + 1}

\* A store operation raises DatabaseUnavailableError, which the retry loop does
\* not catch: mark_run_running or list_messages, the increment, a delta, the
\* success commit.
StoreFails ==
    /\ \/ pc \in {"parsing", "persisting", "checking"} /\ UNCHANGED attempt
       \/ IncrementUnacknowledged
    /\ Stop("DATABASE_UNAVAILABLE")
    /\ UNCHANGED <<toolVars, calls, sent, emitted, deadline, delay, turn, clock, limit, asked>>

ProviderYields ==
    /\ pc = "calling"
    /\ MayYield
    /\ sent' = sent + 1
    /\ emitted' = TRUE
    /\ Goto("persisting")
    /\ UNCHANGED <<toolVars, attempt, calls, deadline, delay, turn, clock, limit, error, asked>>

\* append_stream_event has returned.
DeltaPersisted ==
    /\ pc = "persisting"
    /\ Goto("calling")
    /\ UNCHANGED <<toolVars, providerVars, turn, clock, limit, error, asked>>

ProviderResponds ==
    /\ pc = "calling"
    /\ MayRespond
    /\ Goto("checking")
    /\ UNCHANGED <<toolVars, providerVars, turn, clock, limit, error, asked>>

\* Mutant of HandleError: emitted_delta is not consulted.
HandleErrorAfterDelta(code) ==
    IF code \notin RetryableErrors
    THEN Stop(code) /\ UNCHANGED delay
    ELSE \E wait \in DelayAfter(attempt) :
            IF PermitsRetry(attempt, clock, wait)
            THEN Goto("sleeping") /\ delay' = wait /\ UNCHANGED error
            ELSE Stop("RETRY_BUDGET_EXHAUSTED") /\ UNCHANGED delay

\* The handlers of TimeoutError and ProviderError, then the retry decision.
HandleError(code) ==
    IF emitted \/ code \notin RetryableErrors
    THEN Stop(code) /\ UNCHANGED delay
    ELSE \E wait \in DelayAfter(attempt) :
            IF PermitsRetry(attempt, clock, wait)
            THEN Goto("sleeping") /\ delay' = wait /\ UNCHANGED error
            ELSE Stop("RETRY_BUDGET_EXHAUSTED") /\ UNCHANGED delay

HandleErrorOf(code) ==
    /\ HandleError(code)
    /\ limit' = Never
    /\ UNCHANGED <<toolVars, attempt, calls, sent, emitted, deadline, turn, clock, asked>>

ProviderRaises ==
    /\ pc = "calling"
    /\ \E code \in ProviderErrors : HandleErrorOf(code)

\* The provider's own timeout, when the provider is being awaited.
ProviderTimesOut ==
    /\ pc = "calling"
    /\ clock >= limit
    /\ HandleErrorOf(NormalizeFailure([type |-> "TimeoutError", status |-> 0]))

\* Mutant of BudgetTimesOut: only streaming calls are bounded.
StreamTimesOut ==
    /\ InAttempt
    /\ turn.streaming
    /\ clock >= deadline
    /\ HandleErrorOf("PROVIDER_TIMEOUT")

\* asyncio.timeout(remaining), around provider and persistence.
BudgetTimesOut ==
    /\ InAttempt
    /\ clock >= deadline
    /\ HandleErrorOf("PROVIDER_TIMEOUT")

\* The generator's timeout fires while the task awaits append_stream_event: the
\* CancelledError surfaces outside the generator, where nothing converts it.
TimeoutEscapes ==
    /\ pc = "persisting"
    /\ clock >= limit
    /\ Goto("cancelled")
    /\ UNCHANGED <<toolVars, providerVars, turn, clock, limit, error, asked>>

Wake ==
    /\ pc = "sleeping"
    /\ delay = 0
    /\ Goto("attempting")
    /\ UNCHANGED <<toolVars, providerVars, turn, clock, limit, error, asked>>

-----------------------------------------------------------------------------
(* Time and cancellation. *)

\* A sleep is counted down; store operations outside an attempt take any time.
Tick ==
    /\ clock < MaxClock
    /\ \/ pc = "attempting" /\ UNCHANGED delay
       \/ pc = "sleeping" /\ delay > 0 /\ delay' = delay - 1
       \/ InAttempt /\ clock < Min({deadline, limit}) /\ UNCHANGED delay
       \/ pc = "handling" /\ clock < limit /\ UNCHANGED delay
    /\ clock' = clock + 1
    /\ UNCHANGED <<toolVars, attempt, calls, sent, emitted, deadline, turn, pc, limit, error,
                   asked>>

Ended == {"answered", "failed", "cancelled"}

\* cancel() and shutdown() cancel the task wherever it awaits.
Cancel ==
    /\ pc \notin Ended
    /\ IncrementUnacknowledged \/ UNCHANGED attempt
    /\ asked' = TRUE
    /\ Goto("cancelled")
    /\ UNCHANGED <<toolVars, calls, sent, emitted, deadline, delay, turn, clock, limit, error>>

ToolStep ==
    \/ Parse \/ GuardrailBlocks \/ Execute \/ HandlerReturns \/ HandlerRaises
    \/ HandlerTimesOut \/ ValidateOutput \/ CheckOutput

ProviderStep ==
    \/ BeginAttempt \/ StoreFails \/ ProviderYields \/ DeltaPersisted \/ ProviderResponds
    \/ ProviderRaises \/ ProviderTimesOut \/ BudgetTimesOut \/ TimeoutEscapes \/ Wake

Next == ToolStep \/ ProviderStep \/ EditRegistry \/ Tick \/ Cancel

Spec == Init /\ [][Next]_vars

\* Handlers and providers may hang and nobody need cancel them: time passes,
\* asyncio fires its timeouts, and store operations and guardrails return.
Fairness ==
    /\ WF_vars(Tick) /\ WF_vars(Parse) /\ WF_vars(GuardrailBlocks) /\ WF_vars(Execute)
    /\ WF_vars(HandlerTimesOut) /\ WF_vars(ValidateOutput) /\ WF_vars(CheckOutput)
    /\ WF_vars(BeginAttempt) /\ WF_vars(DeltaPersisted) /\ WF_vars(ProviderTimesOut)
    /\ WF_vars(BudgetTimesOut) /\ WF_vars(Wake)

FairSpec == Spec /\ Fairness

-----------------------------------------------------------------------------
(* Properties. *)

\* The provider is never being called, nor a delta of it persisted, after
\* max_elapsed_seconds, however long increments, sleeps and earlier attempts
\* took: each attempt gets what is left of one budget.  No sleep is longer than
\* max_delay, jitter included, and none is begun that would spend the budget.
CallsStayInBudget ==
    /\ InAttempt => clock <= MaxElapsed
    /\ pc = "sleeping" => delay <= MaxDelay /\ clock + delay < MaxElapsed

\* The durable attempt_count and the calls of the provider never differ by more
\* than one, and only in a turn that is over: its last attempt was counted and
\* not called because the time budget was spent by then, or because the await of
\* the increment was cancelled or lost its acknowledgement after the commit.  No
\* turn that was answered, or ended by its provider, has such an attempt.
CountedAttemptsAreCalled ==
    attempt # calls =>
        /\ attempt = calls + 1
        /\ \/ /\ pc = "failed" /\ error = "RETRY_BUDGET_EXHAUSTED"
              /\ clock >= MaxElapsed
           \/ pc = "failed" /\ error = "DATABASE_UNAVAILABLE"
           \/ pc = "cancelled" /\ asked

\* The handler that runs belongs to a tool that is neither dangerous nor beyond
\* the default permissions, though another definition may have taken the name
\* since the guardrails approved one.
HandlersAreSafe ==
    pc = "handling" =>
        /\ tool.permission \in DEFAULT_ALLOWED_PERMISSIONS
        /\ tool.risk # "DANGEROUS"

\* A tool's answer fits the schema of the definition whose handler produced it,
\* though the name may have been registered anew while the handler ran.
OutputFitsHandler ==
    turn.kind = "tool" /\ pc = "answered" => output = tool.output

\* A run ends cancelled because somebody cancelled it; a provider timeout is a
\* failure ("Raised when one provider attempt exceeds its bounded timeout.").
CancelledOnRequest == pc = "cancelled" => asked

\* Whatever hangs, the turn ends: a tool by its timeout, a provider call by the
\* time budget, the retries by either budget.
EveryTurnEnds == <>(pc \in Ended)

\* What the retry contract sees of the task.
Phase ==
    IF InAttempt THEN "calling"
    ELSE IF pc \in {"parsing", "attempting", "sleeping", "screening", "handling"}
         THEN "waiting"
         ELSE "over"

Contract == INSTANCE AttemptContract WITH phase <- Phase, attempts <- attempt

\* The loop with its clock and its providers keeps the contract the Supervisor's
\* task is also checked against: attempts are counted first, no more than
\* max_attempts of them, and none follows a delta.
KeepsAttemptContract == Contract!Spec
=============================================================================
