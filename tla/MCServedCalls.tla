----------------------------- MODULE MCServedCalls -----------------------------
(* One call of every tool the registry has, over every transport.          *)
EXTENDS ServedCalls

CONSTANT c1

R == INSTANCE ToolRegistry
AllTools == R!AllTools
IsMutating == R!IsMutating
=============================================================================
