------------------------------ MODULE DNBError ------------------------------
(***************************************************************************)
(* The value the debugger's calls report their failures with: a code, the  *)
(* numbering it belongs to, and a text that is looked up on demand.  Every *)
(* assignment drops the text; SetErrorString sets it and leaves the code.  *)
(* A text is a pair: who words it, and for what.                           *)
(***************************************************************************)
Flavors == {"Generic", "MachKernel", "POSIX"}

NoText == <<"", 0>>
SaysSuccess == <<"success", 0>>
SaysUnknown == <<"unknown", 0>>

NewError == [m_err |-> 0, m_flavor |-> "Generic", m_str |-> NoText]

SetError(err, flavor) ==
  [m_err |-> err, m_flavor |-> flavor, m_str |-> NoText]

\* operator=
Assign(err) == SetError(err, "MachKernel")

SetErrorString(e, text) == [e EXCEPT !.m_str = text]

Success(e) == e.m_err = 0

\* mach_error_string and strerror have a text for every code.
AsString(e) ==
  IF Success(e) THEN SaysSuccess
  ELSE IF e.m_str # NoText THEN e.m_str
  ELSE IF e.m_flavor = "Generic" THEN SaysUnknown
  ELSE <<e.m_flavor, e.m_err>>

=============================================================================
