---------------------------- MODULE MCWorkQueue ----------------------------
(* Fleets and jobs for TLC.                                                *)
EXTENDS WorkQueue

CONSTANTS w1, w2, w3, j1, j2

(* Plain workers and, if it is there, a big-parallel one.                  *)
MixedFleet == [w \in Workers |-> IF w = w3 THEN {"big-parallel"} ELSE {}]

(* Jobs that need nothing.                                                 *)
PlainJobs == [j \in Jobs |-> {}]

(* A job that needs kvm, and one for the big-parallel worker.              *)
KvmJobs == [j \in Jobs |-> IF j = j2 THEN {"big-parallel"} ELSE {"kvm"}]

(* Workers with kvm and, if it is there, one with big-parallel only.       *)
KvmFleet == [w \in Workers |-> IF w = w3 THEN {"big-parallel"} ELSE {"kvm"}]
=============================================================================
