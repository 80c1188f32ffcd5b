------------------------------- MODULE MCTurn --------------------------------
(* One turn of each kind: every scripted fake provider with up to two       *)
(* chunks, the OpenAI provider, and tool commands beside a registry whose   *)
(* definitions of one name differ in schema, permission and risk.           *)
EXTENDS Turn

CONSTANTS water, shell, in1, out1, out2

Def(n, o, p, r, t) ==
    [name |-> n, input |-> in1, output |-> o, permission |-> p, risk |-> r, timeout |-> t]

MCNames       == {water, shell}
MCNamespaced  == {water}
MCSchemas     == {in1, out1, out2}
MCDefinitions ==
    {Def(water, out1, "READ", "LOW", 1), Def(water, out2, "ANALYZE", "HIGH", 2),
     Def(water, out1, "CREATE", "LOW", 1), Def(water, out1, "EXECUTE", "LOW", 1),
     Def(water, out1, "READ", "DANGEROUS", 1), Def(water, out1, "DANGEROUS", "LOW", 1),
     Def(water, out1, "UNKNOWN", "LOW", 1), Def(water, out1, "READ", "LOW", 0),
     Def(shell, out1, "READ", "LOW", 1)}

MCCommands ==
    {[name |-> water, payload |-> in1], [name |-> water, payload |-> out1],
     [name |-> shell, payload |-> in1], Malformed}

MCScripts ==
    [failTimes : 0 .. MaxAttempts, retryable : BOOLEAN, chunks : 1 .. 2, failAfter : 0 .. 2]

MCRandomPercents == {0, 50, 99}
=============================================================================
