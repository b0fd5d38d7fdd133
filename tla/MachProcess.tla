----------------------------- MODULE MachProcess -----------------------------
(***************************************************************************)
(* MachProcess.cpp: the operations the client calls (Attach, Resume, Stop, *)
(* SingleStep, Detach) on the main thread, and ExceptionMessageReceived on *)
(* the exception thread.  No lock protects what the two share:             *)
(* m_exception_messages is a plain vector, m_single_step is atomic, and    *)
(* every Mach call is one step.  The main thread's calls are split at each *)
(* access to shared or kernel state; m_status is the main thread's own.    *)
(*                                                                         *)
(* A C++ exception or a failed assert ends the debugger ("aborted"):       *)
(* main.cpp catches nothing.  A client that goes on with the object        *)
(* (Reattach) may also catch what Attach throws ("thrown").                *)
(***************************************************************************)
EXTENDS MachTask

CONSTANTS
  Settle,    \* TRUE: a client call is only made once the exception thread
             \* has come to rest, as after the sleeps of main.cpp
  Reattach   \* TRUE: the client goes on with one MachProcess after Detach
             \* and after an Attach that threw

ASSUME ClientAssumption == Settle \in BOOLEAN /\ Reattach \in BOOLEAN

VARIABLES
  m_status,              \* "DETACH", "RUNNING" or "STOP"
  m_single_step,
  m_exception_messages,
  op,                    \* the client call under way, or "none"
  mainPc,                \* where in that call the main thread is
  pos, end,              \* iterators of ReplyToAllExceptions, as indices
  enabling,              \* threads EnableSingleStep has still to visit
  disabling              \* threads DisableSingleStep has still to visit

processVars ==
  <<m_status, m_single_step, m_exception_messages, op, mainPc, pos, end,
    enabling, disabling>>
vars == <<kernelVars, taskVars, processVars>>

Ops == {"none", "attach", "resume", "step", "detach"}
MainPcs == {"idle", "start", "ptrace", "sleep",
            "enable", "check", "reply", "info", "task_resume",
            "return", "spin",
            "restore", "null_port", "cancel", "join", "pt_detach",
            "thrown", "aborted"}

TypeOK ==
  /\ KernelTypeOK
  /\ TaskTypeOK
  /\ m_status \in {"DETACH", "RUNNING", "STOP"}
  /\ m_single_step \in BOOLEAN
  /\ m_exception_messages \in Seq(Threads)
  /\ op \in Ops
  /\ mainPc \in MainPcs
  /\ pos \in Nat
  /\ end \in Nat
  /\ enabling \in SUBSET Threads
  /\ disabling \in SUBSET Threads

Init ==
  /\ KernelInit
  /\ TaskInit
  /\ m_status = "DETACH"
  /\ m_single_step = FALSE
  /\ m_exception_messages = <<>>
  /\ op = "none"
  /\ mainPc = "idle"
  /\ pos = 1
  /\ end = 0
  /\ enabling = {}
  /\ disabling = {}

-----------------------------------------------------------------------------
(* ExceptionMessageReceived, on the exception thread. *)

excFrame == <<m_exception_port, cancelled, receiving, m_status, op, mainPc,
              pos, end, enabling>>

\* Mutant: every message suspends the task.
SuspendEachTime ==
  /\ excPc = "received"
  /\ suspend_count' = IF alive THEN suspend_count + 1 ELSE suspend_count
  /\ excPc' = "single"
  /\ UNCHANGED <<excFrame, message, m_single_step, m_exception_messages,
                 disabling>>
  /\ UNCHANGED <<thread, ss, queue, sigstop, routed, jobstop, alive>>

\* Mutant: the test is inverted.
SuspendUnlessFirst ==
  /\ excPc = "received"
  /\ suspend_count' = IF m_exception_messages # <<>> /\ alive
                        THEN suspend_count + 1 ELSE suspend_count
  /\ excPc' = "single"
  /\ UNCHANGED <<excFrame, message, m_single_step, m_exception_messages,
                 disabling>>
  /\ UNCHANGED <<thread, ss, queue, sigstop, routed, jobstop, alive>>

\* if (m_exception_messages.empty()) m_task.Suspend();
\* One step: only this thread fills the vector, so a vector found empty is
\* still empty at the task_suspend.
\* task_suspend of a dead task fails, and the failure is ignored.
SuspendIfFirst ==
  /\ excPc = "received"
  /\ suspend_count' = IF m_exception_messages = <<>> /\ alive
                        THEN suspend_count + 1 ELSE suspend_count
  /\ excPc' = "single"
  /\ UNCHANGED <<excFrame, message, m_single_step, m_exception_messages,
                 disabling>>
  /\ UNCHANGED <<thread, ss, queue, sigstop, routed, jobstop, alive>>

\* Mutant: only the thread that trapped leaves single-step mode.
DisableTrappedOnly ==
  /\ excPc = "single"
  /\ \/ m_single_step /\ excPc' = "disable" /\ disabling' = {message}
     \/ ~m_single_step /\ excPc' = "push" /\ UNCHANGED disabling
  /\ UNCHANGED <<excFrame, message, m_single_step, m_exception_messages>>
  /\ UNCHANGED kernelVars

\* if (m_single_step) ...
TestSingleStep ==
  /\ excPc = "single"
  /\ \/ m_single_step /\ excPc' = "disable" /\ disabling' = Threads
     \/ ~m_single_step /\ excPc' = "push" /\ UNCHANGED disabling
  /\ UNCHANGED <<excFrame, message, m_single_step, m_exception_messages>>
  /\ UNCHANGED kernelVars

\* DisableSingleStep visits the threads one by one; it throws when the task
\* is gone, and an exception that leaves a thread ends the debugger.
DisableSingleStep ==
  /\ excPc = "disable" /\ alive
  /\ \/ \E t \in disabling :
          /\ ss' = [ss EXCEPT ![t] = FALSE]
          /\ disabling' = disabling \ {t}
          /\ UNCHANGED excPc
     \/ disabling = {} /\ excPc' = "stepped" /\ UNCHANGED <<ss, disabling>>
  /\ UNCHANGED <<excFrame, message, m_single_step, m_exception_messages>>
  /\ UNCHANGED <<suspend_count, thread, queue, sigstop, routed, jobstop, alive>>

\* Mutant: m_single_step stays set.
StepNotDone ==
  /\ excPc = "stepped"
  /\ excPc' = "push"
  /\ UNCHANGED <<excFrame, message, m_single_step, m_exception_messages,
                 disabling>>
  /\ UNCHANGED kernelVars

\* m_single_step = false, before the message is in the vector
StepDone ==
  /\ excPc = "stepped"
  /\ m_single_step' = FALSE
  /\ excPc' = "push"
  /\ UNCHANGED <<excFrame, message, m_exception_messages, disabling>>
  /\ UNCHANGED kernelVars

PushMessage ==
  /\ excPc = "push"
  /\ m_exception_messages' = Append(m_exception_messages, message)
  /\ message' = NoMessage
  /\ excPc' = "loop"
  /\ UNCHANGED <<excFrame, m_single_step, disabling>>
  /\ UNCHANGED kernelVars

-----------------------------------------------------------------------------
(* The main thread.  mainFrame: what only Attach and Detach change. *)

mainFrame == <<m_exception_port, cancelled, excPc, message, receiving,
               disabling>>

Goto(pc) == mainPc' = pc

\* A throw or a failed assert: the process ends, both threads with it.
Abort ==
  /\ mainPc' = "aborted"
  /\ excPc' = "exited"
  /\ UNCHANGED <<m_exception_port, cancelled, message, receiving, m_status,
                 m_single_step, m_exception_messages, op, pos, end, enabling,
                 disabling>>
  /\ UNCHANGED kernelVars

\* The exception thread waits in mach_msg with its bundle closed and nothing
\* is on its way to it.
Quiet ==
  \/ excPc \in {"none", "exited"}
  \/ /\ excPc = "recv" /\ queue = <<>> /\ ~receiving
     /\ \A t \in Threads : Runs(t) => ~sigstop /\ ~ss[t]

\* A client call starts; status is what its assert asks for.
Call(name, status, pc) ==
  /\ mainPc = "idle" /\ m_status \in status
  /\ Settle => Quiet
  /\ op' = name
  /\ Goto(pc)

\* Mutant: the loop starts behind the first message.
ReplyCheckSkipsFirst ==
  /\ mainPc = "check"
  /\ \/ /\ m_exception_messages = <<>>
        /\ Goto("info") /\ UNCHANGED <<pos, end>>
     \/ /\ m_exception_messages # <<>>
        /\ pos' = 2 /\ end' = Len(m_exception_messages)
        /\ Goto("reply")
  /\ UNCHANGED <<mainFrame, m_status, m_single_step, m_exception_messages, op,
                 enabling>>
  /\ UNCHANGED kernelVars

\* ReplyToAllExceptions: the test, then begin() and end() are taken.
ReplyCheck ==
  /\ mainPc = "check"
  /\ \/ /\ m_exception_messages = <<>>
        /\ Goto("info") /\ UNCHANGED <<pos, end>>
     \/ /\ m_exception_messages # <<>>
        /\ pos' = 1 /\ end' = Len(m_exception_messages)
        /\ Goto("reply")
  /\ UNCHANGED <<mainFrame, m_status, m_single_step, m_exception_messages, op,
                 enabling>>
  /\ UNCHANGED kernelVars

\* One turn of the loop: pos->Reply unblocks the thread that sent it.  The
\* result of the reply is ignored.
ReplyOne ==
  /\ mainPc = "reply" /\ pos <= end
  /\ thread' = [thread EXCEPT ![m_exception_messages[pos]] = "run"]
  /\ pos' = pos + 1
  /\ UNCHANGED <<mainFrame, m_status, m_single_step, m_exception_messages, op,
                 mainPc, end, enabling>>
  /\ UNCHANGED <<suspend_count, ss, queue, sigstop, routed, jobstop, alive>>

\* Mutant: the vector is not cleared.
ReplyKeepsMessages ==
  /\ mainPc = "reply" /\ pos > end
  /\ Goto("info")
  /\ pos' = 1 /\ end' = 0
  /\ UNCHANGED <<mainFrame, m_status, m_single_step, m_exception_messages, op,
                 enabling>>
  /\ UNCHANGED kernelVars

\* m_exception_messages.clear(): whatever is in the vector by now.
ReplyClear ==
  /\ mainPc = "reply" /\ pos > end
  /\ m_exception_messages' = <<>>
  /\ Goto("info")
  /\ pos' = 1 /\ end' = 0
  /\ UNCHANGED <<mainFrame, m_status, m_single_step, op, enabling>>
  /\ UNCHANGED kernelVars

\* The vector has no lock.  When push_back and the loop overlap, push_back
\* may free the storage the iterators point into: besides the orders above,
\* the debugger may crash.
VectorRace ==
  /\ mainPc \in {"check", "reply"} /\ excPc = "push"
  /\ Abort

\* Mutant: task_resume whatever the count.
ResumeUnsuspended ==
  /\ mainPc = "info"
  /\ \/ alive /\ Goto("task_resume") /\ UNCHANGED excPc
     \/ ~alive /\ Goto("aborted") /\ excPc' = "exited"
  /\ UNCHANGED <<m_exception_port, cancelled, message, receiving, disabling,
                 m_status, m_single_step, m_exception_messages, op, pos, end,
                 enabling>>
  /\ UNCHANGED kernelVars

\* MachTask::Resume, called by Resume and Detach: BasicInfo, then
\* task_resume if the count it saw was positive.
TaskBasicInfo ==
  /\ mainPc = "info"
  /\ \/ alive /\ suspend_count > 0 /\ Goto("task_resume") /\ UNCHANGED excPc
     \/ alive /\ suspend_count = 0 /\ Goto("return") /\ UNCHANGED excPc
     \/ ~alive /\ Goto("aborted") /\ excPc' = "exited"
  /\ UNCHANGED <<m_exception_port, cancelled, message, receiving, disabling,
                 m_status, m_single_step, m_exception_messages, op, pos, end,
                 enabling>>
  /\ UNCHANGED kernelVars

\* task_resume fails, and Resume and Detach throw, when the task is gone.
TaskResume ==
  /\ mainPc = "task_resume"
  /\ \/ /\ alive
        /\ suspend_count' = suspend_count - 1
        /\ Goto("return")
        /\ UNCHANGED <<mainFrame, m_status, m_single_step, m_exception_messages,
                       op, pos, end, enabling>>
        /\ UNCHANGED <<thread, ss, queue, sigstop, routed, jobstop, alive>>
     \/ ~alive /\ Abort

\* The call comes back from MachTask::Resume.  Only Resume and, through it,
\* SingleStep mark the process as running; Detach has set DETACH before.
ReturnFromResume ==
  /\ mainPc = "return"
  /\ m_status' = IF op = "detach" THEN m_status ELSE "RUNNING"
  /\ \/ op = "step" /\ Goto("spin") /\ UNCHANGED op
     \/ op # "step" /\ Goto("idle") /\ op' = "none"
  /\ UNCHANGED <<mainFrame, m_single_step, m_exception_messages, pos, end,
                 enabling>>
  /\ UNCHANGED kernelVars

-----------------------------------------------------------------------------
(* Resume, Stop and SingleStep *)

Resume ==
  /\ Call("resume", {"STOP"}, "check")
  /\ UNCHANGED <<mainFrame, m_status, m_single_step, m_exception_messages,
                 pos, end, enabling>>
  /\ UNCHANGED kernelVars

\* Mutant: the status stays RUNNING.
StopKeepsStatus ==
  /\ mainPc = "idle" /\ m_status = "RUNNING"
  /\ Settle => Quiet
  /\ \/ /\ sigstop' = TRUE
        /\ UNCHANGED <<mainFrame, m_status, m_single_step,
                       m_exception_messages, op, mainPc, pos, end, enabling>>
        /\ UNCHANGED <<suspend_count, thread, ss, queue, routed, jobstop, alive>>
     \/ ~alive /\ Abort

\* Stop only sends the signal; it does not wait for the exception.  kill still
\* succeeds on a dead process that has not been reaped.
Stop ==
  /\ mainPc = "idle" /\ m_status = "RUNNING"
  /\ Settle => Quiet
  /\ \/ /\ sigstop' = TRUE
        /\ m_status' = "STOP"
        /\ UNCHANGED <<mainFrame, m_single_step, m_exception_messages, op,
                       mainPc, pos, end, enabling>>
        /\ UNCHANGED <<suspend_count, thread, ss, queue, routed, jobstop, alive>>
     \/ ~alive /\ Abort

SingleStep ==
  /\ Call("step", {"STOP"}, "enable")
  /\ m_single_step' = TRUE
  /\ enabling' = Threads
  /\ UNCHANGED <<mainFrame, m_status, m_exception_messages, pos, end>>
  /\ UNCHANGED kernelVars

EnableSingleStep ==
  /\ mainPc = "enable" /\ alive
  /\ \/ \E t \in enabling :
          /\ ss' = [ss EXCEPT ![t] = TRUE]
          /\ enabling' = enabling \ {t}
          /\ UNCHANGED mainPc
     \/ enabling = {} /\ Goto("check") /\ UNCHANGED <<ss, enabling>>
  /\ UNCHANGED <<mainFrame, m_status, m_single_step, m_exception_messages, op,
                 pos, end>>
  /\ UNCHANGED <<suspend_count, thread, queue, sigstop, routed, jobstop, alive>>

\* while (m_single_step) {}
SpinEnds ==
  /\ mainPc = "spin" /\ ~m_single_step
  /\ m_status' = "STOP"
  /\ op' = "none"
  /\ Goto("idle")
  /\ UNCHANGED <<mainFrame, m_single_step, m_exception_messages, pos, end,
                 enabling>>
  /\ UNCHANGED kernelVars

SpinTurn == mainPc = "spin" /\ m_single_step /\ UNCHANGED vars

\* task_threads fails once the task is gone: both loops throw.
SingleStepThrows ==
  /\ mainPc = "enable" \/ excPc = "disable"
  /\ ~alive
  /\ Abort

-----------------------------------------------------------------------------
(* Attach and Detach *)

\* m_status is DETACH also after an Attach that threw.  A further Attach while
\* the thread of such an Attach still runs gives the object two threads: that
\* client is modelled in ExceptionPorts (Careless), not here.
Attach ==
  /\ \/ mainPc = "idle" /\ (excPc = "none" \/ Reattach)
     \/ mainPc = "thrown" /\ excPc \in {"none", "exited"}
  /\ m_status = "DETACH"
  /\ Settle => Quiet
  /\ op' = "attach"
  /\ Goto("start")
  /\ UNCHANGED <<mainFrame, m_status, m_single_step, m_exception_messages,
                 pos, end, enabling>>
  /\ UNCHANGED kernelVars

\* StartExceptionThread: a new port, the exceptions routed to it, the thread
\* created.  Messages of an earlier session's port are never received.
StartExceptionThread ==
  /\ mainPc = "start" /\ alive
  /\ m_exception_port' = TRUE
  /\ queue' = <<>>
  /\ routed' = TRUE
  /\ excPc' = "loop" /\ cancelled' = FALSE /\ receiving' = FALSE
  /\ message' = NoMessage
  /\ Goto("ptrace")
  /\ UNCHANGED <<m_status, m_single_step, m_exception_messages, op, pos, end,
                 enabling, disabling>>
  /\ UNCHANGED <<suspend_count, thread, ss, sigstop, jobstop, alive>>

\* PT_ATTACHEXC stops the process with a SIGSTOP.
PtraceAttach ==
  /\ mainPc = "ptrace" /\ alive
  /\ sigstop' = TRUE /\ jobstop' = FALSE
  /\ Goto("sleep")
  /\ UNCHANGED <<mainFrame, m_status, m_single_step, m_exception_messages, op,
                 pos, end, enabling>>
  /\ UNCHANGED <<suspend_count, thread, ss, queue, routed, alive>>

\* usleep, then the status is set whatever has been received.
AttachDone ==
  /\ mainPc = "sleep"
  /\ Settle => Quiet
  /\ m_status' = "STOP"
  /\ op' = "none"
  /\ Goto("idle")
  /\ UNCHANGED <<mainFrame, m_single_step, m_exception_messages, pos, end,
                 enabling>>
  /\ UNCHANGED kernelVars

\* No such process, no task port, no exception ports, no thread, no ptrace:
\* Attach throws (or an assert of StartExceptionThread fails) and nobody
\* catches it.
AttachFails ==
  /\ mainPc \in {"start", "ptrace"}
  /\ Abort

\* The same throws with a client that catches them.  Nothing is undone: what
\* StartExceptionThread did before it failed stays (no port yet, a port, or
\* the exceptions routed to it with no thread to receive them), and when
\* ptrace failed the exception thread runs on.  m_status is still DETACH.
AttachThrows ==
  /\ Reattach
  /\ op' = "none"
  /\ Goto("thrown")
  /\ \/ /\ mainPc = "start" /\ alive
        /\ m_exception_port' = TRUE
        /\ queue' = <<>>
        /\ routed' \in {routed, TRUE}
     \/ /\ mainPc \in {"start", "ptrace"}
        /\ UNCHANGED <<m_exception_port, queue, routed>>
  /\ UNCHANGED <<cancelled, excPc, message, receiving, m_status, m_single_step,
                 m_exception_messages, pos, end, enabling, disabling>>
  /\ UNCHANGED <<suspend_count, thread, ss, sigstop, jobstop, alive>>

\* if (m_status == RUNNING) Stop(): the same signal, and no wait for it.
Detach ==
  \/ /\ Call("detach", {"RUNNING", "STOP"}, "restore")
     /\ m_status' = "STOP"
     /\ sigstop' = (sigstop \/ m_status = "RUNNING")
     /\ UNCHANGED <<mainFrame, m_single_step, m_exception_messages, pos, end,
                    enabling>>
     /\ UNCHANGED <<suspend_count, thread, ss, queue, routed, jobstop, alive>>
  \/ /\ mainPc = "idle" /\ m_status = "RUNNING" /\ ~alive
     /\ Settle => Quiet
     /\ Abort

\* ShutDownExcecptionThread, first call: RestoreExceptionPortInfo
RestoreExceptionPortInfo ==
  /\ mainPc = "restore"
  /\ routed' = FALSE
  /\ Goto("null_port")
  /\ UNCHANGED <<mainFrame, m_status, m_single_step, m_exception_messages, op,
                 pos, end, enabling>>
  /\ UNCHANGED <<suspend_count, thread, ss, queue, sigstop, jobstop, alive>>

\* m_exception_port = 0, then pthread_cancel
NullExceptionPort ==
  /\ mainPc = "null_port"
  /\ m_exception_port' = FALSE
  /\ Goto("cancel")
  /\ UNCHANGED <<cancelled, excPc, message, receiving, disabling, m_status,
                 m_single_step, m_exception_messages, op, pos, end, enabling>>
  /\ UNCHANGED kernelVars

\* Mutant: the join without the cancel.
NoCancel ==
  /\ mainPc = "cancel"
  /\ Goto("join")
  /\ UNCHANGED <<mainFrame, m_status, m_single_step, m_exception_messages, op,
                 pos, end, enabling>>
  /\ UNCHANGED kernelVars

\* pthread_cancel marks the thread and aborts the mach_msg it waits in.  A
\* thread that is not waiting keeps only the mark, which mach_msg does not look
\* at.
CancelExceptionThread ==
  /\ mainPc = "cancel"
  /\ cancelled' = TRUE
  /\ excPc' = IF excPc = "recv" /\ queue = <<>> THEN "interrupted" ELSE excPc
  /\ Goto("join")
  /\ UNCHANGED <<m_exception_port, message, receiving, disabling,
                 m_status, m_single_step, m_exception_messages, op, pos, end,
                 enabling>>
  /\ UNCHANGED kernelVars

\* pthread_join; mach_port_deallocate gives up the send right only, so what
\* is queued on the port stays there unanswered.
JoinExceptionThread ==
  /\ mainPc = "join" /\ excPc = "exited"
  /\ Goto("pt_detach")
  /\ UNCHANGED <<mainFrame, m_status, m_single_step, m_exception_messages, op,
                 pos, end, enabling>>
  /\ UNCHANGED kernelVars

\* Mutant: the task is not resumed after PT_DETACH.
DetachWithoutResume ==
  /\ mainPc = "pt_detach"
  /\ \/ /\ alive
        /\ jobstop' = FALSE
        /\ m_status' = "DETACH"
        /\ Goto("return")
        /\ UNCHANGED <<mainFrame, m_single_step, m_exception_messages, op,
                       pos, end, enabling>>
        /\ UNCHANGED <<suspend_count, thread, ss, queue, sigstop, routed, alive>>
     \/ Abort

\* PT_DETACH lets a stopped process go on, or fails.
PtraceDetach ==
  /\ mainPc = "pt_detach"
  /\ \/ /\ alive
        /\ jobstop' = FALSE
        /\ m_status' = "DETACH"
        /\ Goto("info")
        /\ UNCHANGED <<mainFrame, m_single_step, m_exception_messages, op,
                       pos, end, enabling>>
        /\ UNCHANGED <<suspend_count, thread, ss, queue, sigstop, routed, alive>>
     \/ Abort

-----------------------------------------------------------------------------
ExceptionThread ==
  \/ LoopTest /\ UNCHANGED processVars
  \/ ReadPortName /\ UNCHANGED processVars
  \/ EnterReceive /\ UNCHANGED processVars
  \/ ReceiveSuccess /\ UNCHANGED processVars
  \/ ReceiveTimedOut /\ UNCHANGED processVars
  \/ TestPortAfterInterrupt /\ UNCHANGED processVars
  \/ TaskIsValid /\ UNCHANGED processVars
  \/ SuspendIfFirst
  \/ TestSingleStep
  \/ DisableSingleStep
  \/ StepDone
  \/ PushMessage

\* A client call under way goes on by itself.
MainThread ==
  \/ ReplyCheck \/ ReplyOne \/ ReplyClear
  \/ TaskBasicInfo \/ TaskResume \/ ReturnFromResume
  \/ EnableSingleStep \/ SpinTurn \/ SpinEnds \/ SingleStepThrows
  \/ StartExceptionThread \/ PtraceAttach \/ AttachDone
  \/ RestoreExceptionPortInfo \/ NullExceptionPort \/ CancelExceptionThread
  \/ JoinExceptionThread \/ PtraceDetach

Client ==
  Attach \/ Resume \/ Stop \/ SingleStep \/ Detach

Mishap ==
  \/ AttachFails \/ AttachThrows \/ VectorRace
  \/ ReceiveInterrupted /\ UNCHANGED processVars
  \/ CancelledInWrite /\ UNCHANGED processVars

\* What becomes of the task once the debugger is gone is not modelled.
Inferior ==
  /\ mainPc # "aborted"
  /\ KernelNext
  /\ UNCHANGED <<taskVars, processVars>>

\* The debugger process is gone, or the client is done with this MachProcess:
\* detached, or not attached after all.
Terminated ==
  /\ \/ mainPc \in {"thrown", "aborted"}
     \/ mainPc = "idle" /\ m_status = "DETACH" /\ excPc = "exited"
  /\ UNCHANGED vars

Next ==
  ExceptionThread \/ MainThread \/ Client \/ Mishap \/ Inferior \/ Terminated

Spec == Init /\ [][Next]_vars

\* The two debugger threads are scheduled, and a debugged thread that may run
\* gets to trap or to take its signal.
Fairness ==
  /\ WF_vars(ExceptionThread)
  /\ WF_vars(MainThread)
  /\ \A t \in Threads :
       WF_vars(/\ mainPc # "aborted"
               /\ StepTrap(t) \/ TakeSignal(t)
               /\ UNCHANGED <<taskVars, processVars>>)

FairSpec == Spec /\ Fairness

-----------------------------------------------------------------------------
(* Properties that hold whatever the client and the scheduler do. *)

\* A message has been received and is not yet out of ReplyToAllExceptions.
Holding ==
  m_exception_messages # <<>> \/ excPc \in Handling \ {"received"}

\* Resume has cleared the vector and has not yet called task_resume.
ResumeDue == op # "detach" /\ mainPc \in {"info", "task_resume"}

\* Suspends and resumes balance without a lock: ExceptionMessageReceived
\* suspends for the first message only, so the task is suspended at most once
\* for the messages held and once more inside Resume, between clear() and
\* task_resume.  A task nobody holds a message of is not suspended.
SuspendAccounted ==
  mainPc # "aborted" =>
    suspend_count <= (IF Holding THEN 1 ELSE 0) + (IF ResumeDue THEN 1 ELSE 0)

\* One task_resume is enough: when Detach has returned the task is not
\* suspended, and stays so until an Attach.
DetachUnsuspended ==
  m_status = "DETACH" /\ mainPc = "idle" => suspend_count = 0

\* ReplyToAllExceptions replies to a message only while the thread that sent
\* it awaits a reply: no message is replied to twice, also when the thread
\* raises again before the vector is cleared.
ReplyAwaited ==
  mainPc = "reply" /\ pos <= end =>
    thread[m_exception_messages[pos]] = "raised"

\* The exception thread has named its port and is on its way into a mach_msg
\* without timeout, with nothing on the port.
Entering == excPc = "call" /\ ~receiving /\ queue = <<>>

\* ShutDownExcecptionThread comes back from pthread_cancel and pthread_join
\* wherever the exception thread is when it gets to them (in mach_msg, between
\* its tests, inside ExceptionMessageReceived), except for one place: between
\* naming the port and waiting on it the abort is lost, and the join waits for
\* ever.
JoinReturns ==
  mainPc = "cancel" /\ ~Entering ~> mainPc \notin {"cancel", "join"}

Queued(t) == \E i \in DOMAIN queue : queue[i] = t

\* A message that reaches the exception port of a live exception thread is
\* received, unless Detach takes the port away first or the thread, between
\* mach_msg and the loop, finds that the process has died: it then returns
\* with the message still on the port.
MessageTaken ==
  \A t \in Threads :
    Queued(t) /\ m_exception_port /\ excPc \notin {"none", "exited"}
      ~> \/ ~Queued(t) \/ ~m_exception_port \/ mainPc = "aborted"
         \/ excPc = "is_valid" /\ ~alive

-----------------------------------------------------------------------------
(* Properties that hold once the client waits long enough between its calls *)
(* (Settle) and uses one MachProcess for one session (~Reattach). *)

\* Resume and SingleStep find a suspended task: STOP, set without waiting by
\* Stop and Attach, is true by the time a call relies on it.
CallFindsTaskSuspended ==
  op \in {"resume", "step"} /\ mainPc \in {"enable", "check", "reply"} =>
    suspend_count > 0

\* No reply is lost: a thread that awaits one has its message on the port, in
\* the exception thread's hands, or in the vector not yet passed by the loop.
BlockedThreadHeld ==
  mainPc # "aborted" =>
    \A t \in Threads :
      thread[t] = "raised" =>
        \/ Queued(t)
        \/ message = t
        \/ \E i \in pos..Len(m_exception_messages) :
             m_exception_messages[i] = t

\* SingleStep leaves no thread in single-step mode behind, so that neither
\* Resume nor Detach lets a thread run into a trap.
StepBitsCleared == mainPc = "idle" => \A t \in Threads : ~ss[t]

\* SingleStep comes back: some thread traps and the exception thread resets
\* m_single_step.
SingleStepReturns == op = "step" ~> op # "step" \/ mainPc = "aborted"

-----------------------------------------------------------------------------
(* What comments in the code say and the code does not do. *)

\* MachProcess.cpp:43, "Resume our task": when Detach has returned, no thread
\* of the task is left waiting for a reply of this debugger.
DetachResumesTask ==
  m_status = "DETACH" /\ mainPc = "idle" =>
    \A t \in Threads : thread[t] = "run"

=============================================================================
