---------------------------- MODULE MCPoolClients ----------------------------
(***************************************************************************)
(* EnginePool with two contexts and four client threads: two can hold, two *)
(* can sleep, and a thread that gave its context back can barge past them. *)
(***************************************************************************)
EXTENDS PoolClients

CONSTANTS t1, t2, t3, t4

MCThreads == {t1, t2, t3, t4}
=============================================================================
