------------------------- MODULE MCFixedThreadPool -------------------------
(***************************************************************************)
(* Constants for TLC: three workers, two clients, four tasks, one of which *)
(* throws.                                                                 *)
(***************************************************************************)
EXTENDS FixedThreadPool

CONSTANTS w1, w2, w3, a, b, t1, t2, t3, t4

PoolWorkers == {w1, w2, w3}
PoolClients == {a, b}
PoolTasks == {t1, t2, t3, t4}
PoolThrowing == {t4}
=============================================================================
