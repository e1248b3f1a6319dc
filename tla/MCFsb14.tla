------------------------------- MODULE MCFsb14 -------------------------------
(* The blind with rules that answer its own UP and DOWN events.            *)
EXTENDS Fsb14

MCReactions == {"UP", "DOWN", "STOP"}
=============================================================================
