---------------------------- MODULE MCStorePaths ----------------------------
(* Two tenants that share one path, and a path that refers to it.          *)
EXTENDS StorePaths

CONSTANTS t1, t2, lib, app, i1, i2

SharedRows == {<<t1, lib>>, <<t2, lib>>}
ClosureRows == {<<t1, lib>>, <<t2, lib>>, <<t1, app>>}

AppNeedsLib == [p \in Paths |-> IF p = app THEN {lib} ELSE {}]
=============================================================================
