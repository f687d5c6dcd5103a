--------------------------- MODULE MCCaretakerRun ---------------------------
(***************************************************************************)
(* Small instances of CaretakerRun: a budget of a few calls, of which one  *)
(* or two may propose a plan and one may poll, and a clarification.        *)
(***************************************************************************)
EXTENDS CaretakerRun
=============================================================================
