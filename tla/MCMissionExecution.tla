------------------------- MODULE MCMissionExecution -------------------------
(***************************************************************************)
(* MissionExecution has one mission: its configurations say whether        *)
(* responses are lost and which effects' calls may be left in doubt.       *)
(***************************************************************************)
EXTENDS MissionExecution
=============================================================================
