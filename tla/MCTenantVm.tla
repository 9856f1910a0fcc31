----------------------------- MODULE MCTenantVm -----------------------------
(* Three jobs of two tenants for TLC.                                      *)
EXTENDS TenantVm

CONSTANTS j1, j2, j3, t1, t2, p1, p2

TwoTenants == [j \in Jobs |-> IF j = j3 THEN t2 ELSE t1]

(* The jobs of t1 share an input.                                          *)
SharedInputs == [j \in Jobs |-> IF j = j2 THEN {p1, p2} ELSE {p1}]
=============================================================================
