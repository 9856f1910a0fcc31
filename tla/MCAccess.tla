------------------------------- MODULE MCAccess -------------------------------
EXTENDS Access

\* Two derivations that declare the same fixed output, and one of them an output
\* of its own: only the fixed one is open to both jobs of a tenant.
MCDrvOutputs == [d \in Drvs |-> IF d = "drvA" THEN {"fixed"} ELSE {"out", "fixed"}]
=============================================================================
