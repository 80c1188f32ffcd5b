\* The provider's own timeout while the Supervisor persists a delta.
CONSTANTS
    water = water
    shell = shell
    in1 = in1
    out1 = out1
    out2 = out2
    NoTool = NoTool
    Names <- MCNames
    Namespaced <- MCNamespaced
    Schemas <- MCSchemas
    Definitions <- MCDefinitions
    Commands <- MCCommands
    Scripts <- MCScripts
    RandomPercents <- MCRandomPercents
    MaxAttempts = 4
    MaxElapsed = 10
    BaseDelay = 1
    MaxDelay = 3
    Jitter = TRUE
    ProviderTimeout = 4
    MaxDeltas = 2
    MaxClock = 12

SPECIFICATION Spec

INVARIANT CancelledOnRequest

CHECK_DEADLOCK FALSE
