--------------------------- MODULE MCBuildService ---------------------------
(* Two calls for one derivation, served by plain workers.                  *)
EXTENDS BuildService

CONSTANTS c1, c2, k1, w1, w2

SameKey == [c \in Calls |-> k1]
PlainFleet == [w \in Workers |-> {}]
PlainJobs == [c \in Calls |-> {}]
=============================================================================
