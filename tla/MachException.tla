--------------------------- MODULE MachException ---------------------------
(***************************************************************************)
(* MachException::Message: how a message becomes a Data record, which task *)
(* the debugger takes for its own, and what Reply does, for a program that *)
(* execs and forks.  An exec gives the process a new task; the old task's  *)
(* port becomes a dead name, and the new task's first act is a SIGTRAP.  A *)
(* forked child has inherited the exception ports and is not traced.       *)
(*                                                                         *)
(* The session is between Attach and Detach, and the client calls Resume   *)
(* and Stop; single steps and the races on the vector of messages are in   *)
(* MachProcess, what Attach and Detach do to the ports in ExceptionPorts.  *)
(***************************************************************************)
EXTENDS Naturals, Sequences

CONSTANTS
  Threads,    \* threads of the debugged process
  NoThread,   \* THREAD_NULL
  Child,      \* the task of a forked child, and its only thread
  DeadPort,   \* the name a right of a dead task has when it is received
  MaxExecs    \* bound: how often the process execs

Images == 1..MaxExecs + 1
Tasks == Images \cup {Child}

ASSUME ExecAssumption ==
  /\ Threads # {} /\ NoThread \notin Threads
  /\ MaxExecs \in Nat
  /\ Child \notin Images /\ DeadPort \notin Tasks

VARIABLES
  image,     \* external: the task the process has now
  live,      \* external: the threads of that task
  forked,    \* external: the child is there
  blocked,   \* external: <<task, thread>> that await a reply
  suspend_count, \* external: per image
  queue,     \* external: messages on the exception port
  sigstop,   \* external: a SIGSTOP is pending
  execTrap,  \* external: the new image has not yet raised its SIGTRAP
  task,      \* the exception thread's own copy of the task port
  m_task,
  excPc, message, receiving,  \* the exception thread
  m_exception_messages,
  m_status, mainPc, pos, end  \* the main thread

kernelVars == <<image, live, forked, blocked, suspend_count, queue, sigstop,
                execTrap>>
excVars == <<task, m_task, excPc, message, receiving>>
mainVars == <<m_status, mainPc, pos, end>>
vars == <<kernelVars, excVars, mainVars, m_exception_messages>>

Kinds == {"break", "sigstop", "sigtrap"}
Senders == (Images \X Threads) \cup {<<Child, Child>>}
\* What the kernel has queued; MachException::Data and where its reply goes.
Raised == [from : Senders, kind : Kinds]
Message == [from : Senders, task_port : Tasks \cup {DeadPort},
            thread_port : Threads \cup {Child, NoThread, DeadPort},
            exc_type : Kinds \cup {"none"}]

NoMessage == [from |-> <<Child, Child>>, task_port |-> DeadPort,
              thread_port |-> NoThread, exc_type |-> "none"]

TypeOK ==
  /\ image \in Images /\ live \subseteq Threads /\ forked \in BOOLEAN
  /\ blocked \subseteq Senders
  /\ suspend_count \in [Images -> Nat]
  /\ queue \in Seq(Raised)
  /\ sigstop \in BOOLEAN /\ execTrap \in BOOLEAN
  /\ {task, m_task} \subseteq Tasks
  /\ excPc \in {"recv", "catch", "suspend", "push", "is_valid", "exited"}
  /\ message \in Message /\ receiving \in BOOLEAN
  /\ m_exception_messages \in Seq(Message)
  /\ m_status \in {"RUNNING", "STOP"}
  /\ mainPc \in {"idle", "check", "reply", "resume", "aborted"}
  /\ pos \in Nat /\ end \in Nat

\* Attach has just returned.
Init ==
  /\ image = 1 /\ live = Threads /\ forked = FALSE
  /\ blocked = {} /\ suspend_count = [i \in Images |-> 0]
  /\ queue = <<>> /\ sigstop = TRUE /\ execTrap = FALSE
  /\ task = 1 /\ m_task = 1
  /\ excPc = "recv" /\ message = NoMessage /\ receiving = FALSE
  /\ m_exception_messages = <<>>
  /\ m_status = "STOP" /\ mainPc = "idle" /\ pos = 1 /\ end = 0

-----------------------------------------------------------------------------
(* The debugged program. *)

Runs(t) ==
  t \in live /\ suspend_count[image] = 0 /\ <<image, t>> \notin blocked

Raise(sender, kind) ==
  /\ blocked' = blocked \cup {sender}
  /\ queue' = Append(queue, [from |-> sender, kind |-> kind])

\* The SIGTRAP is taken before the new image runs.
TakeExecTrap(t) ==
  /\ Runs(t) /\ execTrap
  /\ Raise(<<image, t>>, "sigtrap")
  /\ execTrap' = FALSE
  /\ UNCHANGED <<image, live, forked, suspend_count, sigstop>>

TakeSignal(t) ==
  /\ Runs(t) /\ ~execTrap /\ sigstop
  /\ Raise(<<image, t>>, "sigstop")
  /\ sigstop' = FALSE
  /\ UNCHANGED <<image, live, forked, suspend_count, execTrap>>

BreakTrap(t) ==
  /\ Runs(t) /\ ~execTrap
  /\ Raise(<<image, t>>, "break")
  /\ UNCHANGED <<image, live, forked, suspend_count, sigstop, execTrap>>

StartThread(t) ==
  /\ Runs(t) /\ ~execTrap
  /\ live # Threads /\ live' = Threads
  /\ UNCHANGED <<image, forked, blocked, suspend_count, queue, sigstop,
                 execTrap>>

\* The thread that execs is the only one of the new task; the other threads
\* are gone, also those that await a reply.  Their messages are not.
Exec(t) ==
  /\ Runs(t) /\ ~execTrap /\ image + 1 \in Images
  /\ image' = image + 1
  /\ live' = {t}
  /\ blocked' = {s \in blocked : s[1] # image}
  /\ execTrap' = TRUE
  /\ UNCHANGED <<forked, suspend_count, queue, sigstop>>

Fork(t) ==
  /\ Runs(t) /\ ~execTrap /\ ~forked
  /\ forked' = TRUE
  /\ UNCHANGED <<image, live, blocked, suspend_count, queue, sigstop, execTrap>>

ChildTrap ==
  /\ forked /\ <<Child, Child>> \notin blocked
  /\ Raise(<<Child, Child>>, "break")
  /\ UNCHANGED <<image, live, forked, suspend_count, sigstop, execTrap>>

\* task_info succeeds
IsValid(t) == t \in {image, Child}

-----------------------------------------------------------------------------
(* The exception thread. *)

\* Mutant: if (!IsValid(task)) continue, before the message is received.
ReceiveIfValid ==
  \/ excPc = "recv" /\ ~IsValid(task) /\ UNCHANGED vars
  \/ /\ excPc = "recv" /\ queue # <<>> /\ IsValid(task)
     /\ LET m == Head(queue)
            t == m.from[1]
        IN message' = [from |-> m.from,
                       task_port |-> IF IsValid(t) THEN t ELSE DeadPort,
                       thread_port |-> IF IsValid(t) THEN m.from[2]
                                                     ELSE DeadPort,
                       exc_type |-> m.kind]
     /\ queue' = Tail(queue)
     /\ excPc' = "catch"
     /\ UNCHANGED <<image, live, forked, blocked, suspend_count, sigstop,
                    execTrap, task, m_task, receiving, mainVars,
                    m_exception_messages>>

\* mach_msg: the rights in the message get names in this process; those of a
\* task that is gone are dead.
Receive ==
  /\ excPc = "recv" /\ queue # <<>>
  /\ LET m == Head(queue)
         t == m.from[1]
     IN message' = [from |-> m.from,
                    task_port |-> IF IsValid(t) THEN t ELSE DeadPort,
                    thread_port |-> IF IsValid(t) THEN m.from[2] ELSE DeadPort,
                    exc_type |-> m.kind]
  /\ queue' = Tail(queue)
  /\ excPc' = "catch"
  /\ UNCHANGED <<image, live, forked, blocked, suspend_count, sigstop, execTrap,
                 task, m_task, receiving, mainVars, m_exception_messages>>

\* Mutant: what comes when the task is gone is from the new image.
CatchWithoutSigtrap(m) ==
  IF m.task_port = task \/ ~IsValid(task) THEN m
  ELSE [m EXCEPT !.task_port = task, !.thread_port = NoThread,
                 !.exc_type = "none"]

\* Mutant: any task that lives will do.
CatchLiveTask(m) ==
  IF m.task_port # DeadPort THEN m
  ELSE [m EXCEPT !.task_port = task, !.thread_port = NoThread,
                 !.exc_type = "none"]

\* The Data record afterwards.  KERN_FAILURE leaves the task CatchExceptionRaise
\* has put there, no thread, and exc_type 0.
catch_mach_exception_raise(m) ==
  IF \/ m.task_port = task
     \/ ~IsValid(task) /\ m.exc_type = "sigtrap"
  THEN m
  ELSE [m EXCEPT !.task_port = task, !.thread_port = NoThread,
                 !.exc_type = "none"]

\* Data::IsValid
DataIsValid(m) == m.thread_port # NoThread /\ m.exc_type # "none"

\* Mutant: only the exception thread's own copy changes.
OwnCopyChanged ==
  /\ task' = IF message'.task_port # task /\ DataIsValid(message')
               THEN message'.task_port ELSE task
  /\ UNCHANGED m_task

\* We exec'ed: both copies of the task port change.
TaskPortChanged ==
  IF message'.task_port # task /\ DataIsValid(message')
    THEN task' = message'.task_port /\ m_task' = message'.task_port
    ELSE UNCHANGED <<task, m_task>>

\* mach_exc_server returns TRUE for every exception message, whatever the
\* routine it calls returns: a refused message is kept like any other.
CatchExceptionRaise ==
  /\ excPc = "catch"
  /\ message' = catch_mach_exception_raise(message)
  /\ TaskPortChanged
  /\ receiving' = TRUE
  /\ excPc' = "suspend"
  /\ UNCHANGED <<kernelVars, mainVars, m_exception_messages>>

\* Mutant: every message suspends the task.
SuspendEachTime ==
  /\ excPc = "suspend"
  /\ suspend_count' =
       IF m_task = image THEN [suspend_count EXCEPT ![m_task] = @ + 1]
                         ELSE suspend_count
  /\ excPc' = "push"
  /\ UNCHANGED <<image, live, forked, blocked, queue, sigstop, execTrap, task,
                 m_task, message, receiving, mainVars, m_exception_messages>>

\* ExceptionMessageReceived: task_suspend of a dead task fails unnoticed.
Suspend ==
  /\ excPc = "suspend"
  /\ suspend_count' =
       IF m_exception_messages = <<>> /\ m_task = image
         THEN [suspend_count EXCEPT ![m_task] = @ + 1] ELSE suspend_count
  /\ excPc' = "push"
  /\ UNCHANGED <<image, live, forked, blocked, queue, sigstop, execTrap, task,
                 m_task, message, receiving, mainVars, m_exception_messages>>

PushMessage ==
  /\ excPc = "push"
  /\ m_exception_messages' = Append(m_exception_messages, message)
  /\ message' = NoMessage
  /\ excPc' = "recv"
  /\ UNCHANGED <<kernelVars, task, m_task, receiving, mainVars>>

\* MACH_RCV_TIMED_OUT: the bundle is complete.
ReceiveTimedOut ==
  /\ excPc = "recv" /\ queue = <<>> /\ receiving
  /\ receiving' = FALSE
  /\ excPc' = "is_valid"
  /\ UNCHANGED <<kernelVars, task, m_task, message, mainVars,
                 m_exception_messages>>

\* MACH_RCV_INTERRUPTED.  Between Attach and Detach the port is not null.
ReceiveInterrupted ==
  /\ excPc = "recv" /\ queue = <<>>
  /\ excPc' = "is_valid"
  /\ UNCHANGED <<kernelVars, task, m_task, message, receiving, mainVars,
                 m_exception_messages>>

\* After either the thread looks whether its task is still there, in a call
\* of its own: an exec, and its SIGTRAP, may have come since.
TaskIsValid ==
  /\ excPc = "is_valid"
  /\ excPc' = IF IsValid(task) THEN "recv" ELSE "exited"
  /\ UNCHANGED <<kernelVars, task, m_task, message, receiving, mainVars,
                 m_exception_messages>>

-----------------------------------------------------------------------------
(* The main thread. *)

mainFrame == <<image, live, forked, queue, execTrap, task, m_task, message,
               receiving>>

\* A failed assert or an exception nobody catches ends the debugger.
Abort == mainPc' = "aborted" /\ excPc' = "exited"

Goto(pc) == mainPc' = pc /\ UNCHANGED excPc

\* What a long enough pause achieves: nothing of our process is on its way.
Quiet ==
  \/ excPc = "exited"
  \/ /\ excPc = "recv" /\ queue = <<>> /\ ~receiving
     /\ sigstop \/ execTrap => \A t \in Threads : ~Runs(t)

Resume ==
  /\ mainPc = "idle" /\ m_status = "STOP" /\ Quiet
  /\ Goto("check")
  /\ UNCHANGED <<mainFrame, blocked, suspend_count, sigstop, m_status, pos, end,
                 m_exception_messages>>

ReplyToAllExceptions ==
  /\ mainPc = "check"
  /\ \/ m_exception_messages = <<>> /\ Goto("resume") /\ UNCHANGED <<pos, end>>
     \/ /\ m_exception_messages # <<>>
        /\ pos' = 1 /\ end' = Len(m_exception_messages)
        /\ Goto("reply")
  /\ UNCHANGED <<mainFrame, blocked, suspend_count, sigstop, m_status,
                 m_exception_messages>>

SoftSignal(m) == m.exc_type \in {"sigstop", "sigtrap"}

\* state_pid: our own for our own task, else what pid_for_task says.
HasPid(m) == m_task = m.task_port \/ IsValid(m.task_port)

\* Reply: for a soft signal state_pid must not be -1; PT_THUPDATE's failure
\* is only printed, and so is that of the send.
ReplyOne ==
  /\ mainPc = "reply" /\ pos <= end
  /\ LET m == m_exception_messages[pos]
     IN \/ /\ SoftSignal(m) => HasPid(m)
           /\ blocked' = blocked \ {m.from}
           /\ pos' = pos + 1
           /\ UNCHANGED <<mainPc, excPc>>
        \/ SoftSignal(m) /\ ~HasPid(m) /\ Abort /\ UNCHANGED <<blocked, pos>>
  /\ UNCHANGED <<mainFrame, suspend_count, sigstop, m_status, end,
                 m_exception_messages>>

\* m_exception_messages.clear()
ReplyClear ==
  /\ mainPc = "reply" /\ pos > end
  /\ m_exception_messages' = <<>>
  /\ pos' = 1 /\ end' = 0
  /\ Goto("resume")
  /\ UNCHANGED <<mainFrame, blocked, suspend_count, sigstop, m_status>>

\* The push of a message during the loop may move the vector.
VectorRace ==
  /\ mainPc \in {"check", "reply"} /\ excPc = "push"
  /\ Abort
  /\ UNCHANGED <<mainFrame, blocked, suspend_count, sigstop, m_status, pos, end,
                 m_exception_messages>>

\* MachTask::Resume, one step: a task that is suspended does not exec, and a
\* suspend in between only adds a message's turn (MachProcess).
TaskResume ==
  /\ mainPc = "resume"
  /\ \/ /\ m_task = image
        /\ suspend_count' =
             [suspend_count EXCEPT ![m_task] = IF @ > 0 THEN @ - 1 ELSE 0]
        /\ m_status' = "RUNNING"
        /\ Goto("idle")
     \/ m_task # image /\ Abort /\ UNCHANGED <<suspend_count, m_status>>
  /\ UNCHANGED <<mainFrame, blocked, sigstop, pos, end, m_exception_messages>>

Stop ==
  /\ mainPc = "idle" /\ m_status = "RUNNING" /\ Quiet
  /\ sigstop' = TRUE
  /\ m_status' = "STOP"
  /\ UNCHANGED <<mainFrame, excPc, blocked, suspend_count, mainPc, pos, end,
                 m_exception_messages>>

-----------------------------------------------------------------------------
ExceptionThread ==
  \/ Receive \/ CatchExceptionRaise \/ Suspend \/ PushMessage
  \/ ReceiveTimedOut \/ TaskIsValid

MainThread ==
  ReplyToAllExceptions \/ ReplyOne \/ ReplyClear \/ TaskResume

Inferior ==
  /\ mainPc # "aborted"
  /\ \/ \E t \in Threads : \/ TakeExecTrap(t) \/ TakeSignal(t) \/ BreakTrap(t)
                           \/ StartThread(t) \/ Exec(t) \/ Fork(t)
     \/ ChildTrap
  /\ UNCHANGED <<excVars, mainVars, m_exception_messages>>

Ended == mainPc = "aborted" /\ UNCHANGED vars

Next ==
  \/ ExceptionThread \/ ReceiveInterrupted
  \/ MainThread \/ VectorRace \/ Resume \/ Stop
  \/ Inferior \/ Ended

\* The exception thread is scheduled, and an image that runs takes its trap.
Fairness ==
  /\ WF_vars(ExceptionThread)
  /\ \A t \in Threads :
       WF_vars(/\ mainPc # "aborted" /\ TakeExecTrap(t)
               /\ UNCHANGED <<excVars, mainVars, m_exception_messages>>)

Spec == Init /\ [][Next]_vars /\ Fairness

-----------------------------------------------------------------------------
\* MachTask.cpp:247: only an exec makes the debugger change its task.  A
\* child's exceptions come to the same port, before, during and after an exec,
\* and never make the debugger take the child for its process.
NeverAdoptsChild == Child \notin {task, m_task}

Trapped(m) == m.exc_type = "sigtrap"

\* Once an exec's SIGTRAP has been handled, both copies of the task port name
\* the new image; old messages and a child's do not undo it.
TaskFollowed ==
  \/ excPc = "exited" \/ execTrap
  \/ \E i \in DOMAIN queue : queue[i].kind = "sigtrap"
  \/ excPc = "catch" /\ Trapped(message)
  \/ task = image /\ m_task = image

\* A task is suspended once for the messages held, whoever sent them, and once
\* more inside Resume; an exec, a refused message or one of a task that is gone
\* leaves no suspension behind that no Resume would undo.
SuspendAccounted ==
  mainPc # "aborted" =>
    suspend_count[image] <=
      (IF m_exception_messages # <<>> \/ excPc = "push" THEN 1 ELSE 0)
        + (IF mainPc = "resume" THEN 1 ELSE 0)

\* An exec under the eyes of a live exception thread is noticed, in its
\* SIGTRAP, unless the thread is back from mach_msg after a timeout or an
\* interrupt and finds the old task gone: it then returns, also when the
\* SIGTRAP is already on its port.  That is the only way to miss an exec.
ExecNoticed ==
  execTrap /\ excPc # "exited"
    ~> \/ m_task = image \/ mainPc = "aborted"
       \/ excPc = "is_valid" /\ ~IsValid(task)

\* MachException.cpp:150, assert(state_pid != -1): when Reply has a signal to
\* update, the task the message came from still has a process.
ReplyFindsPid ==
  mainPc = "reply" /\ pos <= end =>
    (SoftSignal(m_exception_messages[pos]) =>
       HasPid(m_exception_messages[pos]))

=============================================================================
