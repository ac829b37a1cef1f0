---------------------------- MODULE MCCapiCalls ----------------------------
(***************************************************************************)
(* Two threads that call the C ABI on a few sessions; the sizes are        *)
(* given by the configurations.                                            *)
(***************************************************************************)
EXTENDS CapiCalls

=============================================================================
