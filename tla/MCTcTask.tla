------------------------------ MODULE MCTcTask ------------------------------
(* tc_task.c on a pid table of six slots: idle, the runner, one blocked   *)
(* daemon and one task that wakes once on an outside event and exits, of  *)
(* a priority below the runner (core) or the highest (intruder).          *)
EXTENDS TcTask
=============================================================================
