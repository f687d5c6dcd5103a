---------------------------- MODULE MCToolLedger ----------------------------
(***************************************************************************)
(* Small instances of ToolLedger: two callers, so that one can take over   *)
(* from the other, and back.                                               *)
(***************************************************************************)
EXTENDS ToolLedger

CONSTANTS c1, c2
MCCaller == {c1, c2}
=============================================================================
