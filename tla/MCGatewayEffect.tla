--------------------------- MODULE MCGatewayEffect ---------------------------
(***************************************************************************)
(* Small instances of GatewayEffect.  MCProgress lets the gateway send     *)
(* every nonterminal callback besides the terminal one, in any order.      *)
(***************************************************************************)
EXTENDS GatewayEffect

MCProgress == {"acknowledged", "executing"}
MCNoProgress == {}
=============================================================================
