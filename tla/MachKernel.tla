----------------------------- MODULE MachKernel -----------------------------
(***************************************************************************)
(* The debugged task as the debugger in mac_ptrace sees it through Mach    *)
(* and ptrace.  None of this is code of the repository: every operator     *)
(* here is what the calls made by MachProcess.cpp, MachTask.cpp and        *)
(* MachException.cpp rely on (task_suspend, task_resume, task_info,        *)
(* mach_msg, ptrace, kill, thread_set_state).                              *)
(*                                                                         *)
(* A thread that meets an exception sends one message to the task's        *)
(* exception port and stays blocked in the kernel until somebody replies   *)
(* (MachException.cpp:118-121).  The other threads go on until the task    *)
(* is suspended.  A message is named by the thread that sent it: a blocked *)
(* thread cannot send a second one.                                        *)
(***************************************************************************)
EXTENDS Naturals, Sequences

CONSTANTS Threads,    \* the threads of the debugged task
          NoMessage,  \* the absence of a message
          MayExit     \* whether the debugged process may die (BOOLEAN)

ASSUME KernelAssumption ==
  Threads # {} /\ NoMessage \notin Threads /\ MayExit \in BOOLEAN

VARIABLES
  suspend_count,  \* task_basic_info.suspend_count of the task
  thread,         \* per thread: "run", or "raised" while it awaits a reply
  ss,             \* per thread: the SS_ENABLE bit of __mdscr_el1
  queue,          \* messages waiting on the debugger's exception port
  sigstop,        \* a SIGSTOP is pending (signals are a set, not a queue)
  routed,         \* the task's exceptions go to the debugger's port
  jobstop,        \* stopped by SIGSTOP's default action, untraced
  alive           \* the task port is still valid

kernelVars ==
  <<suspend_count, thread, ss, queue, sigstop, routed, jobstop, alive>>

KernelTypeOK ==
  /\ suspend_count \in Nat
  /\ thread \in [Threads -> {"run", "raised"}]
  /\ ss \in [Threads -> BOOLEAN]
  /\ queue \in Seq(Threads)
  /\ sigstop \in BOOLEAN
  /\ routed \in BOOLEAN
  /\ jobstop \in BOOLEAN
  /\ alive \in BOOLEAN

KernelInit ==
  /\ suspend_count = 0
  /\ thread = [t \in Threads |-> "run"]
  /\ ss = [t \in Threads |-> FALSE]
  /\ queue = <<>>
  /\ sigstop = FALSE
  /\ routed = FALSE
  /\ jobstop = FALSE
  /\ alive = TRUE

-----------------------------------------------------------------------------
(* What the debugged threads do on their own. *)

Runs(t) == alive /\ ~jobstop /\ suspend_count = 0 /\ thread[t] = "run"

\* A routed exception: the thread queues its message and blocks.
Raise(t) ==
  /\ thread' = [thread EXCEPT ![t] = "raised"]
  /\ queue' = Append(queue, t)

\* With SS_ENABLE set a thread executes one instruction and traps.  A trap
\* nobody listens to becomes a SIGTRAP, which ends the process.
StepTrap(t) ==
  /\ Runs(t) /\ ss[t]
  /\ \/ routed /\ Raise(t) /\ UNCHANGED alive
     \/ ~routed /\ alive' = FALSE /\ UNCHANGED <<thread, queue>>
  /\ UNCHANGED <<suspend_count, ss, sigstop, routed, jobstop>>

\* The program itself meets a breakpoint or another routed exception.
BreakTrap(t) ==
  /\ Runs(t) /\ routed
  /\ Raise(t)
  /\ UNCHANGED <<suspend_count, ss, sigstop, routed, jobstop, alive>>

\* A running thread takes the pending SIGSTOP: traced, as EXC_SOFT_SIGNAL on
\* the exception port; otherwise the whole process stops.
TakeSignal(t) ==
  /\ Runs(t) /\ sigstop
  /\ sigstop' = FALSE
  /\ \/ routed /\ Raise(t) /\ UNCHANGED jobstop
     \/ ~routed /\ jobstop' = TRUE /\ UNCHANGED <<thread, queue>>
  /\ UNCHANGED <<suspend_count, ss, routed, alive>>

\* The process exits or is killed by someone else.
Exit ==
  /\ MayExit /\ alive
  /\ alive' = FALSE
  /\ UNCHANGED <<suspend_count, thread, ss, queue, sigstop, routed, jobstop>>

KernelNext ==
  \/ \E t \in Threads : StepTrap(t) \/ BreakTrap(t) \/ TakeSignal(t)
  \/ Exit

=============================================================================
