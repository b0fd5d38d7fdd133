-------------------------- MODULE MCMachException --------------------------
(* MachException for TLC: two threads, two execs, a child. *)
EXTENDS MachException

=============================================================================
