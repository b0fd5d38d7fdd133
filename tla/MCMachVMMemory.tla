--------------------------- MODULE MCMachVMMemory ---------------------------
(* Read and Write for TLC, in a task that changes its memory map. *)
EXTENDS MachVMMemory

=============================================================================
