-------------------------- MODULE MCExceptionPorts --------------------------
(* ExceptionPorts for TLC: a type of each sort, two sessions. *)
EXTENDS ExceptionPorts

=============================================================================
