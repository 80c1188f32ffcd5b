----------------------------- MODULE TurnProofs ------------------------------
(***************************************************************************)
(* Proofs about Turn for every registry, budget, script and bound: what    *)
(* the two lookups of a tool command may find, what the time budget        *)
(* bounds, and that the retry loop keeps AttemptContract.                  *)
(***************************************************************************)
EXTENDS Turn, TLAPS

-----------------------------------------------------------------------------
(* Tool commands. *)

\* Whatever the registry holds was registrable.
RegistryIsSafe ==
    \A n \in DOMAIN tools : tools[n] \in Definitions /\ Registrable(tools[n])

\* The definition execute() holds, and the output it has accepted.
ToolInv ==
    /\ RegistryIsSafe
    /\ turn.kind = "tool" => pc \notin {"attempting", "calling", "persisting", "sleeping"}
    /\ pc = "handling" => Registrable(tool) /\ Authorized(tool)
    /\ turn.kind = "tool" /\ pc \in {"checking", "answered"} => output = tool.output

\* The registry stays safe whoever edits it.
LEMMA EditsKeepRegistrySafe ==
    ASSUME RegistryIsSafe, RegistryStep
    PROVE  RegistryIsSafe'
<1>1. CASE \E d \in Definitions : Register(d)
  <2>1. PICK d \in Definitions : Register(d)
    BY <1>1
  <2> QED
    BY <2>1 DEF Register, RegistryIsSafe, Registrable
<1>2. CASE \E n \in Names : Unregister(n)
  <2>1. PICK n \in Names : Unregister(n)
    BY <1>2
  <2> QED
    BY <2>1 DEF Unregister, Restrict, RegistryIsSafe, Registrable
<1> QED
  BY <1>1, <1>2 DEF RegistryStep

\* No step leads a command past a check it did not pass: the inductive step.
LEMMA ToolInvIsInductive ==
    ASSUME ToolInv, [Next]_vars
    PROVE  ToolInv'
<1> USE DEF ToolInv, toolVars, providerVars, Goto, Stop
<1>1. CASE EditRegistry
  <2>1. RegistryIsSafe'
    BY <1>1, EditsKeepRegistrySafe DEF EditRegistry
  <2> QED
    BY <1>1, <2>1 DEF EditRegistry, Registrable, Authorized
<1>2. CASE Parse
  BY <1>2 DEF Parse, RegistryIsSafe, Registrable, Authorized
<1>3. CASE Execute
  <2>1. CASE pc' = "handling"
    BY <1>3, <2>1 DEF Execute, RegistryIsSafe, Registered, Registrable, Authorized
  <2>2. CASE pc' # "handling"
    BY <1>3, <2>2 DEF Execute, RegistryIsSafe, Registrable
  <2> QED
    BY <2>1, <2>2
<1>4. CASE GuardrailBlocks \/ HandlerReturns \/ HandlerRaises \/ HandlerTimesOut
  BY <1>4 DEF GuardrailBlocks, HandlerReturns, HandlerRaises, HandlerTimesOut,
              RegistryIsSafe, Registrable
<1>5. CASE ValidateOutput \/ CheckOutput
  BY <1>5 DEF ValidateOutput, OutputSchema, CheckOutput, RegistryIsSafe, Registrable
<1>6. CASE BeginAttempt \/ StoreFails \/ ProviderYields \/ DeltaPersisted
             \/ ProviderResponds \/ TimeoutEscapes \/ Wake
  BY <1>6 DEF BeginAttempt, StoreFails, ProviderYields, DeltaPersisted, ProviderResponds,
              TimeoutEscapes, Wake, RegistryIsSafe, Registrable
<1>7. CASE \E code : InAttempt /\ HandleErrorOf(code)
  BY <1>7 DEF InAttempt, HandleErrorOf, HandleError, RegistryIsSafe, Registrable
<1>8. CASE Tick \/ Cancel
  BY <1>8 DEF Tick, Cancel, Ended, RegistryIsSafe, Registrable, Authorized
<1>9. CASE UNCHANGED vars
  BY <1>9 DEF vars, RegistryIsSafe, Registrable, Authorized
<1>10. ProviderRaises \/ ProviderTimesOut \/ BudgetTimesOut =>
          \E code : InAttempt /\ HandleErrorOf(code)
  BY DEF ProviderRaises, ProviderTimesOut, BudgetTimesOut, InAttempt
<1> QED
  BY <1>1, <1>2, <1>3, <1>4, <1>5, <1>6, <1>7, <1>8, <1>9, <1>10
  DEF Next, ToolStep, ProviderStep

\* So the tool invariant holds of every reachable state of a turn.
LEMMA ToolInvHolds == Spec => []ToolInv
<1>1. Init => ToolInv
  BY DEF Init, RegistryInit, ToolInv, RegistryIsSafe
<1> QED
  BY <1>1, ToolInvIsInductive, PTL DEF Spec

\* Between the guardrails' approval and execute() another definition may take
\* the name, but none that runs is dangerous or beyond the default permissions.
THEOREM SafeHandlers == Spec => []HandlersAreSafe
<1>1. ToolInv => HandlersAreSafe
  BY DEF ToolInv, HandlersAreSafe, Registrable, Authorized
<1> QED
  BY <1>1, ToolInvHolds, PTL

\* A tool's answer fits the schema of the handler that produced it.
THEOREM FittingOutput == Spec => []OutputFitsHandler
<1>1. ToolInv => OutputFitsHandler
  BY DEF ToolInv, OutputFitsHandler
<1> QED
  BY <1>1, ToolInvHolds, PTL

-----------------------------------------------------------------------------
(* The retry loop. *)

\* Ticks are numbers, an attempt has the budget's own deadline, and a sleep fits
\* into what is left of it.
TimeInv ==
    /\ clock \in Nat
    /\ limit \in Int
    /\ tool \in Definitions \cup {NoTool}
    /\ \A n \in DOMAIN tools : tools[n] \in Definitions
    /\ InAttempt => deadline = MaxElapsed /\ clock <= MaxElapsed
    /\ InAttempt => attempt > 0
    /\ pc = "sleeping" =>
          delay \in Nat /\ delay <= MaxDelay /\ clock + delay < MaxElapsed

\* The attempts of a run in each phase of the loop.
AttemptInv ==
    /\ attempt \in Nat
    /\ attempt <= MaxAttempts
    /\ Phase = "waiting" => attempt < MaxAttempts /\ emitted = FALSE
    /\ CountedAttemptsAreCalled

\* Min of FiniteSetsExt on the sets of two the loop uses.
LEMMA MinOfTwo ==
    ASSUME NEW a \in Int, NEW b \in Int
    PROVE  Min({a, b}) <= a /\ Min({a, b}) <= b /\ Min({a, b}) \in {a, b}
<1>1. \E x \in {a, b} : \A y \in {a, b} : x <= y
  <2>1. CASE a <= b
    BY <2>1
  <2>2. CASE b <= a
    BY <2>2
  <2> QED
    BY <2>1, <2>2
<1> QED
  BY <1>1 DEF Min

\* Backoff doubles, and neither it nor its jitter passes max_delay.
LEMMA DelayIsBounded ==
    ASSUME NEW n \in 1 .. MaxAttempts, NEW wait \in DelayAfter(n)
    PROVE  wait \in Nat /\ wait <= MaxDelay
<1> DEFINE raw == BaseDelay * 2 ^ (n - 1)
<1> DEFINE jittered(r) == (Backoff(n) * (50 + r)) \div 100
<1>0. MaxDelay \in Nat /\ BaseDelay \in Nat
  BY BudgetIsValid
<1>1. raw \in Nat
  <2>1. n - 1 \in 0 .. MaxAttempts
    BY BudgetIsValid
  <2>2. 2 ^ (n - 1) \in Nat
    BY <2>1, PowersOfTwo
  <2> QED
    BY <1>0, <2>2
<1>2. Backoff(n) \in Nat /\ Backoff(n) <= MaxDelay
  <2> DEFINE x == raw
  <2>1. x \in Nat /\ Backoff(n) = Min({MaxDelay, x})
    BY <1>1 DEF Backoff
  <2> HIDE DEF x
  <2>2. Min({MaxDelay, x}) <= MaxDelay /\ Min({MaxDelay, x}) \in {MaxDelay, x}
    BY <1>0, <2>1, MinOfTwo
  <2> QED
    BY <1>0, <2>1, <2>2
<1>3. ASSUME NEW r \in RandomPercents
      PROVE  Min({MaxDelay, jittered(r)}) \in Nat /\ Min({MaxDelay, jittered(r)}) <= MaxDelay
  <2>1. jittered(r) \in Nat
    <3> DEFINE b == Backoff(n)
    <3> DEFINE product == b * (50 + r)
    <3>1. b \in Nat /\ 50 + r \in Nat
      BY <1>2, BudgetIsValid
    <3>2. product \in Nat
      <4> HIDE DEF b
      <4> QED
        BY <3>1
    <3> HIDE DEF product
    <3>3. product \div 100 \in Nat
      BY <3>2
    <3> QED
      BY <3>3 DEF product
  <2> DEFINE j == jittered(r)
  <2>2. j \in Nat
    BY <2>1
  <2> HIDE DEF j
  <2>3. Min({MaxDelay, j}) <= MaxDelay /\ Min({MaxDelay, j}) \in {MaxDelay, j}
    BY <1>0, <2>2, MinOfTwo
  <2>4. Min({MaxDelay, j}) \in Nat /\ Min({MaxDelay, j}) <= MaxDelay
    BY <1>0, <2>2, <2>3
  <2> QED
    BY <2>4 DEF j
<1> QED
  BY <1>2, <1>3 DEF DelayAfter

\* No step of the retry loop oversteps the time it has: the inductive step.
LEMMA TimeInvIsInductive ==
    ASSUME TimeInv, attempt \in Nat, attempt <= MaxAttempts, [Next]_vars
    PROVE  TimeInv'
<1> USE BudgetIsValid, LimitsAreTimes DEF TimeInv, toolVars, providerVars, Goto, Stop, InAttempt
<1>1. CASE EditRegistry
  <2>1. \A n \in DOMAIN tools' : tools'[n] \in Definitions
    BY <1>1, ZenonT(60) DEF EditRegistry, RegistryStep, Register, Unregister, Restrict
  <2> QED
    BY <1>1, <2>1 DEF EditRegistry
<1>2. CASE Parse
  BY <1>2 DEF Parse, Registered
<1>3. CASE Execute
  <2>1. CASE pc' = "handling"
    <3>1. tools[turn.command.name] \in ToolDefinition /\ tools[turn.command.name] \in Definitions
      BY <1>3, <2>1, DefinitionsAreTools DEF Execute, Registered
    <3>2. tools[turn.command.name].timeout \in Int
      BY <3>1 DEF ToolDefinition
    <3> QED
      BY <1>3, <2>1, <3>1, <3>2 DEF Execute
  <2>2. CASE pc' # "handling"
    BY <1>3, <2>2 DEF Execute
  <2> QED
    BY <2>1, <2>2
<1>4. CASE GuardrailBlocks \/ HandlerReturns \/ HandlerRaises \/ HandlerTimesOut
             \/ ValidateOutput \/ CheckOutput
  BY <1>4 DEF GuardrailBlocks, HandlerReturns, HandlerRaises, HandlerTimesOut,
              ValidateOutput, CheckOutput
<1>5. CASE BeginAttempt
  BY <1>5 DEF BeginAttempt, Remaining, Never
<1>6. CASE ProviderYields \/ DeltaPersisted \/ ProviderResponds \/ TimeoutEscapes \/ Wake
  BY <1>6 DEF ProviderYields, DeltaPersisted, ProviderResponds, TimeoutEscapes, Wake
<1>7. CASE ProviderRaises \/ ProviderTimesOut \/ BudgetTimesOut
  <2>1. PICK code : InAttempt /\ HandleErrorOf(code)
    BY <1>7 DEF ProviderRaises, ProviderTimesOut, BudgetTimesOut
  <2>2. CASE pc' = "failed"
    BY <2>1, <2>2 DEF HandleErrorOf, Never
  <2>3. CASE pc' # "failed"
    <3>1. PICK wait \in DelayAfter(attempt) :
             PermitsRetry(attempt, clock, wait) /\ pc' = "sleeping" /\ delay' = wait
      BY <2>1, <2>3 DEF HandleErrorOf, HandleError
    <3>2. wait \in Nat /\ wait <= MaxDelay
      BY <2>1, <3>1, DelayIsBounded
    <3> QED
      BY <2>1, <3>1, <3>2 DEF HandleErrorOf, PermitsRetry, Never
  <2> QED
    BY <2>2, <2>3
<1>8. CASE Tick
  <2>1. CASE InAttempt
    <3>1. clock < Min({deadline, limit}) /\ deadline = MaxElapsed
      BY <1>8, <2>1 DEF Tick
    <3>2. deadline \in Int /\ limit \in Int
      BY <3>1
    <3> DEFINE first == Min({deadline, limit})
    <3>3. first <= deadline /\ first \in {deadline, limit}
      BY <3>2, MinOfTwo
    <3>4. clock + 1 <= MaxElapsed
      BY <3>1, <3>2, <3>3
    <3> QED
      BY <1>8, <2>1, <3>4 DEF Tick
  <2>2. CASE ~ InAttempt
    BY <1>8, <2>2 DEF Tick
  <2> QED
    BY <2>1, <2>2
<1>9. CASE StoreFails \/ Cancel \/ UNCHANGED vars
  BY <1>9 DEF StoreFails, Cancel, vars
<1> QED
  BY <1>1, <1>2, <1>3, <1>4, <1>5, <1>6, <1>7, <1>8, <1>9 DEF Next, ToolStep, ProviderStep

\* Attempts are counted before the provider is called: the inductive step.
LEMMA AttemptInvIsInductive ==
    ASSUME AttemptInv, TimeInv, [Next]_vars
    PROVE  AttemptInv'
<1> USE BudgetIsValid
    DEF AttemptInv, TimeInv, CountedAttemptsAreCalled, toolVars, providerVars, Goto, Stop,
        InAttempt, Phase
<1>1. CASE EditRegistry \/ Parse \/ GuardrailBlocks \/ Execute
  BY <1>1 DEF EditRegistry, Parse, GuardrailBlocks, Execute
<1>2. CASE HandlerReturns \/ HandlerRaises \/ HandlerTimesOut \/ ValidateOutput \/ CheckOutput
  BY <1>2 DEF HandlerReturns, HandlerRaises, HandlerTimesOut, ValidateOutput, CheckOutput
<1>3. CASE BeginAttempt
  BY <1>3 DEF BeginAttempt, Remaining
<1>4. CASE ProviderYields \/ DeltaPersisted \/ ProviderResponds \/ TimeoutEscapes \/ Wake
  BY <1>4 DEF ProviderYields, DeltaPersisted, ProviderResponds, TimeoutEscapes, Wake
<1>5. CASE ProviderRaises \/ ProviderTimesOut \/ BudgetTimesOut
  BY <1>5 DEF ProviderRaises, ProviderTimesOut, BudgetTimesOut, HandleErrorOf, HandleError,
              PermitsRetry
<1>6. CASE StoreFails \/ Cancel
  BY <1>6 DEF StoreFails, Cancel, IncrementUnacknowledged, Ended
<1>7. CASE Tick \/ UNCHANGED vars
  BY <1>7 DEF Tick, vars
<1> QED
  BY <1>1, <1>2, <1>3, <1>4, <1>5, <1>6, <1>7 DEF Next, ToolStep, ProviderStep

\* Both invariants of the retry loop hold together in every reachable state.
LEMMA LoopInvHolds == Spec => [](TimeInv /\ AttemptInv)
<1>1. Init => TimeInv /\ AttemptInv
  BY LimitsAreTimes, BudgetIsValid
  DEF Init, RegistryInit, TimeInv, AttemptInv, CountedAttemptsAreCalled, InAttempt, Phase,
      Never
<1>2. TimeInv /\ AttemptInv /\ [Next]_vars => (TimeInv /\ AttemptInv)'
  BY TimeInvIsInductive, AttemptInvIsInductive DEF AttemptInv
<1> QED
  BY <1>1, <1>2, PTL DEF Spec

\* No provider call and no delta outlives max_elapsed_seconds, and no sleep is
\* longer than max_delay or the time that is left.
THEOREM CallsInBudget == Spec => []CallsStayInBudget
<1>1. TimeInv => CallsStayInBudget
  BY DEF TimeInv, CallsStayInBudget
<1> QED
  BY <1>1, LoopInvHolds, PTL

\* attempt_count is the number of provider calls, but for the last attempt of a
\* turn that was cancelled, lost the store or found the time budget spent.
THEOREM CountedAndCalled == Spec => []CountedAttemptsAreCalled
<1>1. AttemptInv => CountedAttemptsAreCalled
  BY DEF AttemptInv
<1> QED
  BY <1>1, LoopInvHolds, PTL

\* Every step of the loop is a step of the contract or leaves its view alone.
LEMMA StepKeepsContract ==
    ASSUME AttemptInv, [Next]_vars
    PROVE  Contract!Next \/ UNCHANGED <<Phase, attempt, emitted>>
<1> USE BudgetIsValid
    DEF AttemptInv, toolVars, providerVars, Goto, Stop, InAttempt, Phase,
        Contract!Next, Contract!Count, Contract!Emit, Contract!Retry, Contract!Stop
<1>1. CASE EditRegistry \/ Parse \/ GuardrailBlocks \/ Execute
  BY <1>1 DEF EditRegistry, Parse, GuardrailBlocks, Execute
<1>2. CASE HandlerReturns \/ HandlerRaises \/ HandlerTimesOut \/ ValidateOutput \/ CheckOutput
  BY <1>2 DEF HandlerReturns, HandlerRaises, HandlerTimesOut, ValidateOutput, CheckOutput
<1>3. CASE BeginAttempt
  BY <1>3 DEF BeginAttempt
<1>4. CASE ProviderYields \/ DeltaPersisted \/ ProviderResponds \/ TimeoutEscapes \/ Wake
  BY <1>4 DEF ProviderYields, DeltaPersisted, ProviderResponds, TimeoutEscapes, Wake
<1>5. CASE ProviderRaises \/ ProviderTimesOut \/ BudgetTimesOut
  BY <1>5 DEF ProviderRaises, ProviderTimesOut, BudgetTimesOut, HandleErrorOf, HandleError,
              PermitsRetry
<1>6. CASE StoreFails \/ Cancel
  BY <1>6 DEF StoreFails, Cancel, IncrementUnacknowledged, Ended
<1>7. CASE Tick \/ UNCHANGED vars
  BY <1>7 DEF Tick, vars
<1> QED
  BY <1>1, <1>2, <1>3, <1>4, <1>5, <1>6, <1>7 DEF Next, ToolStep, ProviderStep

\* The retry loop, with its clock, jitter, timeouts and providers, implements
\* the contract: attempts are counted first, at most max_attempts of them, and
\* none follows a delta.
THEOREM LoopKeepsContract == Spec => KeepsAttemptContract
<1>1. Init => Contract!Init
  BY DEF Init, Contract!Init, Phase, InAttempt
<1>2. AttemptInv /\ [Next]_vars => [Contract!Next]_(Contract!vars)
  BY StepKeepsContract DEF Contract!vars
<1> QED
  BY <1>1, <1>2, LoopInvHolds, PTL DEF Spec, KeepsAttemptContract, Contract!Spec
=============================================================================
