--------------------------- MODULE MCMachProcess ---------------------------
(* MachProcess for TLC: two or three debugged threads. *)
EXTENDS MachProcessSession

=============================================================================
