-------------------------- MODULE MCBuildDispatch --------------------------
(* Instances of BuildDispatch for TLC.                                     *)
EXTENDS BuildDispatch

CONSTANTS c1, c2, k1

(* Calls that all ask for the same derivation.                             *)
SameKey == [c \in Calls |-> k1]
=============================================================================
