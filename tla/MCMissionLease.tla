--------------------------- MODULE MCMissionLease ---------------------------
(***************************************************************************)
(* Small instances of MissionLease: two attempts of the job, both in the   *)
(* same worker process (a redelivery), whose fences only the epoch tells   *)
(* apart.                                                                  *)
(***************************************************************************)
EXTENDS MissionLease, TLC

CONSTANTS r1, r2, w1, w2

MCRun == {r1, r2}
MCWorker == {w1, w2}
MCSameWorker == (r1 :> w1) @@ (r2 :> w1)
=============================================================================
