---------------------------- MODULE DebugSession ----------------------------
(***************************************************************************)
(* What the client of MachProcess is promised, without ports, messages,    *)
(* vectors or the exception thread: a call at a time, threads held at an   *)
(* exception, and a task that is suspended or runs.                        *)
(*                                                                         *)
(*   - Resume and SingleStep start from a suspended task, do not fail, let *)
(*     every held thread go, and only then let the task run;               *)
(*   - SingleStep comes back with the task suspended again and some thread *)
(*     held;                                                               *)
(*   - after Detach the task is not suspended.                             *)
(***************************************************************************)
CONSTANT Threads

VARIABLES
  status,     \* what the client believes: "DETACH", "RUNNING" or "STOP"
  held,       \* threads that wait for the debugger
  suspended,  \* the whole task is suspended
  call        \* the call under way; "resumed" and "stepped" once it has let
              \* the task run

vars == <<status, held, suspended, call>>

SessionTypeOK ==
  /\ status \in {"DETACH", "RUNNING", "STOP"}
  /\ held \subseteq Threads
  /\ suspended \in BOOLEAN
  /\ call \in {"none", "attach", "resume", "resumed", "step", "stepped",
               "detach", "aborted"}

Init ==
  /\ status = "DETACH"
  /\ held = {}
  /\ suspended = FALSE
  /\ call = "none"

-----------------------------------------------------------------------------
(* The client. *)

CallAttach ==
  /\ call = "none" /\ status = "DETACH"
  /\ call' = "attach"
  /\ UNCHANGED <<status, held, suspended>>

CallOnStopped(c) ==
  /\ call = "none" /\ status = "STOP" /\ suspended
  /\ call' = c
  /\ UNCHANGED <<status, held, suspended>>

Stop ==
  /\ call = "none" /\ status = "RUNNING"
  /\ status' = "STOP"
  /\ UNCHANGED <<held, suspended, call>>

CallDetach ==
  /\ call = "none" /\ status \in {"RUNNING", "STOP"}
  /\ call' = "detach" /\ status' = "STOP"
  /\ UNCHANGED <<held, suspended>>

-----------------------------------------------------------------------------
(* The debugged task. *)

\* A thread of a running task meets an exception.
Hold(t) ==
  /\ status # "DETACH" \/ call = "attach"
  /\ ~suspended /\ t \notin held
  /\ held' = held \cup {t}
  /\ UNCHANGED <<status, suspended, call>>

\* The debugger suspends a task of which it holds a thread.
Suspend ==
  /\ held # {} /\ ~suspended
  /\ suspended' = TRUE
  /\ UNCHANGED <<status, held, call>>

-----------------------------------------------------------------------------
(* What a call does. *)

LetGo(t) ==
  /\ call \in {"resume", "step"} /\ suspended /\ t \in held
  /\ held' = held \ {t}
  /\ UNCHANGED <<status, suspended, call>>

Continue ==
  /\ \/ call = "resume" /\ call' = "resumed"
     \/ call = "step" /\ call' = "stepped"
  /\ suspended /\ held = {}
  /\ suspended' = FALSE
  /\ UNCHANGED <<status, held>>

ReturnAttach ==
  /\ call = "attach"
  /\ status' = "STOP" /\ call' = "none"
  /\ UNCHANGED <<held, suspended>>

ReturnResume ==
  /\ call = "resumed"
  /\ status' = "RUNNING" /\ call' = "none"
  /\ UNCHANGED <<held, suspended>>

ReturnStep ==
  /\ call = "stepped" /\ suspended /\ held # {}
  /\ call' = "none"
  /\ UNCHANGED <<status, held, suspended>>

\* Detach gives the process back and then undoes the suspension.
Release ==
  /\ call = "detach" /\ status = "STOP"
  /\ status' = "DETACH"
  /\ UNCHANGED <<held, suspended, call>>

Unsuspend ==
  /\ call = "detach" /\ status = "DETACH" /\ suspended
  /\ suspended' = FALSE
  /\ UNCHANGED <<status, held, call>>

ReturnDetach ==
  /\ call = "detach" /\ status = "DETACH" /\ ~suspended
  /\ call' = "none"
  /\ UNCHANGED <<status, held, suspended>>

\* Only Attach and Detach depend on what the system refuses.
Fail ==
  /\ call \in {"attach", "detach"}
  /\ call' = "aborted"
  /\ UNCHANGED <<status, held, suspended>>

Next ==
  \/ CallAttach \/ CallOnStopped("resume") \/ CallOnStopped("step")
  \/ Stop \/ CallDetach
  \/ \E t \in Threads : Hold(t) \/ LetGo(t)
  \/ Suspend \/ Continue
  \/ ReturnAttach \/ ReturnResume \/ ReturnStep
  \/ Release \/ Unsuspend \/ ReturnDetach \/ Fail

Spec == Init /\ [][Next]_vars

=============================================================================
