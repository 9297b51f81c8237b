---------------------------- MODULE MC_Lifespan -----------------------------
(***************************************************************************)
(* Model-checking instance of Lifespan: a root with two mounts, either on  *)
(* applications of their own or both on one application, and either kind   *)
(* of run_task_group.                                                      *)
(***************************************************************************)
EXTENDS Lifespan

CONSTANTS m1, m2, again   \* again is a second mount of the application of m1

MCMounts == {m1, m2, again}
MCTrees == {{m1, m2}, {m1, again}}
MCAppOf(c) == IF c = again THEN m1 ELSE c
=============================================================================
