-------------------------------- MODULE MCRCS --------------------------------
(* RCS with the default weights of the code. *)
EXTENDS RCS

MCPenalty == DefaultPenalty
MCMultiplier == DefaultMultiplier
=============================================================================
