--------------------------- MODULE MCRolloutJobs ---------------------------
(***************************************************************************)
(* Small instances of RolloutJobs: rollouts that share devices in a chain  *)
(* (j1 and j2 on t1, j2 and j3 on t2).                                     *)
(***************************************************************************)
EXTENDS RolloutJobs

CONSTANTS j1, j2, j3, t1, t2

MCTargetsOf == [j \in Jobs |-> CASE j = j1 -> {t1} [] j = j2 -> {t1, t2} [] j = j3 -> {t2}]
=============================================================================
