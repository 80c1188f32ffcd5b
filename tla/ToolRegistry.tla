---------------------------- MODULE ToolRegistry -----------------------------
(***************************************************************************)
(* The ToolRegistry of a process (tools/registry.py): the definitions by   *)
(* name and the policy a definition meets before it is stored and before   *)
(* its handler is called.  A schema is abstracted to the data it accepts:  *)
(* a model validates exactly the data of its own schema.                   *)
(***************************************************************************)
EXTENDS Integers, Functions

CONSTANTS
    Names,        \* names tool commands and definitions use
    Namespaced,   \* those that match TOOL_NAME_PATTERN
    Schemas,      \* Pydantic models, and the data they accept
    Definitions,  \* the tools somebody may try to register
    NoTool

ToolPermission == {"READ", "ANALYZE", "CREATE", "MODIFY", "EXECUTE", "DANGEROUS"}
ToolRiskLevel  == {"LOW", "MEDIUM", "HIGH", "DANGEROUS"}

DEFAULT_ALLOWED_PERMISSIONS       == {"READ", "ANALYZE"}
CONFIRMATION_REQUIRED_PERMISSIONS == {"MODIFY", "EXECUTE"}

\* Nothing but register() checks what a ToolDefinition carries.
ToolDefinition ==
    [name : Names, input : Schemas, output : Schemas,
     permission : ToolPermission \cup {"UNKNOWN"},
     risk : ToolRiskLevel \cup {"UNKNOWN"}, timeout : Int]

ASSUME DefinitionsAreTools == Definitions \subseteq ToolDefinition
ASSUME NamespacedAreNames == Namespaced \subseteq Names
ASSUME NoToolIsOutside == NoTool \notin Definitions

VARIABLE tools   \* ToolRegistry._tools

RegistryInit == tools = [n \in {} |-> NoTool]

\* Mutant of Registrable: the risk level is left to the guardrails.
RegistrableByPermission(d) ==
    /\ d.permission \in ToolPermission \ {"DANGEROUS"}
    /\ d.name \in Namespaced
    /\ d.timeout > 0

Registrable(d) ==
    /\ d.permission \in ToolPermission \ {"DANGEROUS"}
    /\ d.risk \in ToolRiskLevel \ {"DANGEROUS"}
    /\ d.name \in Namespaced
    /\ d.timeout > 0

\* A refused registration raises and stores nothing.
Register(d) ==
    /\ Registrable(d)
    /\ d.name \notin DOMAIN tools
    /\ tools' = [n \in DOMAIN tools \cup {d.name} |-> IF n = d.name THEN d ELSE tools[n]]

Unregister(n) ==
    /\ n \in DOMAIN tools
    /\ tools' = Restrict(tools, DOMAIN tools \ {n})

\* get(): the definition, or ToolNotFoundError.
Registered(n) == n \in DOMAIN tools

\* The policy checks of execute() for a call that grants and confirms nothing.
Authorized(d) ==
    /\ d.permission \in DEFAULT_ALLOWED_PERMISSIONS
    /\ d.permission \notin CONFIRMATION_REQUIRED_PERMISSIONS

\* PhaseZeroToolGuardrail.
GuardrailAllows(d) == d.permission # "DANGEROUS" /\ d.risk # "DANGEROUS"

RegistryStep ==
    \/ \E d \in Definitions : Register(d)
    \/ \E n \in Names : Unregister(n)
=============================================================================
