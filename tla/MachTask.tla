------------------------------ MODULE MachTask ------------------------------
(***************************************************************************)
(* MachTask.cpp: the exception thread and the calls on the task that both  *)
(* debugger threads make.  What ExceptionMessageReceived does with a       *)
(* message belongs to MachProcess (module MachProcess).                    *)
(***************************************************************************)
EXTENDS MachKernel

VARIABLES
  m_exception_port,  \* the member is not MACH_PORT_NULL
  cancelled,         \* pthread_cancel was called on the exception thread
  excPc,             \* where the exception thread is
  message,           \* the message in its hands, a thread or NoMessage
  receiving          \* num_exceptions_received > 0: a bundle is open

taskVars == <<m_exception_port, cancelled, excPc, message, receiving>>

\* "none": no thread yet; "loop": the while test; "enter": before the port is
\* named for Receive; "call": the port is named, mach_msg not yet entered;
\* "recv": inside mach_msg; "interrupted", "is_valid": the tests after it;
\* "received" ... "push": inside ExceptionMessageReceived; "exited": returned.
Handling == {"received", "single", "disable", "stepped", "push"}

TaskTypeOK ==
  /\ m_exception_port \in BOOLEAN
  /\ cancelled \in BOOLEAN
  /\ excPc \in {"none", "loop", "enter", "call", "recv", "interrupted",
                "is_valid", "exited"} \cup Handling
  /\ message \in Threads \cup {NoMessage}
  /\ receiving \in BOOLEAN

TaskInit ==
  /\ m_exception_port = FALSE
  /\ cancelled = FALSE
  /\ excPc = "none"
  /\ message = NoMessage
  /\ receiving = FALSE

-----------------------------------------------------------------------------
(* The loop of MachTask::ExceptionThread. *)

ExceptionPortIsValid == m_exception_port

\* while (ExceptionPortIsValid()) { pthread_testcancel(); ...
LoopTest ==
  /\ excPc = "loop"
  /\ excPc' = IF ExceptionPortIsValid /\ ~cancelled THEN "enter" ELSE "exited"
  /\ UNCHANGED <<m_exception_port, cancelled, message, receiving>>
  /\ UNCHANGED kernelVars

\* ExceptionPort() names the port for the call, after the loop's own test.
\* Receiving on a name that was set to null meanwhile fails, and the error is
\* ignored.
ReadPortName ==
  /\ excPc = "enter"
  /\ excPc' = IF m_exception_port THEN "call" ELSE "loop"
  /\ UNCHANGED <<m_exception_port, cancelled, message, receiving>>
  /\ UNCHANGED kernelVars

\* mach_msg waits on the port it was given, whatever has become of the member
\* m_exception_port since: the receive right lives until after the join.
EnterReceive ==
  /\ excPc = "call"
  /\ excPc' = "recv"
  /\ UNCHANGED <<m_exception_port, cancelled, message, receiving>>
  /\ UNCHANGED kernelVars

\* mach_msg hands over the oldest message; CatchExceptionRaise decodes it.
ReceiveSuccess ==
  /\ excPc = "recv" /\ queue # <<>>
  /\ message' = Head(queue)
  /\ queue' = Tail(queue)
  /\ receiving' = TRUE
  /\ excPc' = "received"
  /\ UNCHANGED <<m_exception_port, cancelled>>
  /\ UNCHANGED <<suspend_count, thread, ss, sigstop, routed, jobstop, alive>>

\* MACH_RCV_TIMED_OUT: only asked for while a bundle is open.
ReceiveTimedOut ==
  /\ excPc = "recv" /\ queue = <<>> /\ receiving
  /\ receiving' = FALSE
  /\ excPc' = "is_valid"
  /\ UNCHANGED <<m_exception_port, cancelled, message>>
  /\ UNCHANGED kernelVars

\* MACH_RCV_INTERRUPTED: some abort of the system call.  The one pthread_cancel
\* makes is a step of ShutDownExcecptionThread (CancelExceptionThread).
ReceiveInterrupted ==
  /\ excPc = "recv" /\ queue = <<>>
  /\ excPc' = "interrupted"
  /\ UNCHANGED <<m_exception_port, cancelled, message, receiving>>
  /\ UNCHANGED kernelVars

\* if (!ExceptionPortIsValid()) break;
TestPortAfterInterrupt ==
  /\ excPc = "interrupted"
  /\ excPc' = IF ExceptionPortIsValid THEN "is_valid" ELSE "exited"
  /\ UNCHANGED <<m_exception_port, cancelled, message, receiving>>
  /\ UNCHANGED kernelVars

\* Mutant: the thread returns when its bundle is complete.
ExitAfterBundle ==
  /\ excPc = "is_valid"
  /\ excPc' = "exited"
  /\ UNCHANGED <<m_exception_port, cancelled, message, receiving>>
  /\ UNCHANGED kernelVars

\* MachTask::IsValid(task), a call of its own after mach_msg has returned: by
\* now there may be a message on the port, and the process may be dead.
TaskIsValid ==
  /\ excPc = "is_valid"
  /\ excPc' = IF alive THEN "loop" ELSE "exited"
  /\ UNCHANGED <<m_exception_port, cancelled, message, receiving>>
  /\ UNCHANGED kernelVars

\* Writing the log lines around Receive and before CatchExceptionRaise may
\* reach write(), a cancellation point: the thread ends there, and a message
\* it has just received ends with it.
CancelledInWrite ==
  /\ excPc \in {"enter", "received", "interrupted", "is_valid"} /\ cancelled
  /\ excPc' = "exited"
  /\ UNCHANGED <<m_exception_port, cancelled, message, receiving>>
  /\ UNCHANGED kernelVars

=============================================================================
