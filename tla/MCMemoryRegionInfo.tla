------------------------- MODULE MCMemoryRegionInfo -------------------------
(* The memory calls for TLC: every map of a few pages, every short call. *)
EXTENDS MemoryRegionInfo

=============================================================================
