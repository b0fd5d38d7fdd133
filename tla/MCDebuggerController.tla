------------------------ MODULE MCDebuggerController ------------------------
(* DebuggerController for TLC; shorter loops than main.cpp's 3 and 100. *)
EXTENDS DebuggerController, TLC

ThreadSymmetry == Permutations(Threads)

=============================================================================
