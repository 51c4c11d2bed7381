------------------------- MODULE MCFujiAcServerStart --------------------------
(***************************************************************************)
(* Constants for model checking FujiAcServerStart.                         *)
(***************************************************************************)
EXTENDS FujiAcServerStart

CONSTANTS service, byHand, simulated
==============================================================================
