----------------------------- MODULE MCGuestVm -----------------------------
(* Jobs of two tenants on one worker for TLC.                              *)
EXTENDS GuestVm

CONSTANTS j1, j2, j3, t1, t2

TwoTenants == [j \in Jobs |-> IF j = j3 THEN t2 ELSE t1]
=============================================================================
