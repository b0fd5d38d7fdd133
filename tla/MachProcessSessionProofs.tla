---------------------- MODULE MachProcessSessionProofs ----------------------
(***************************************************************************)
(* What a client that leaves enough time between its calls (Settle),       *)
(* attaches once and debugs a process that does not die can rely on, for   *)
(* every number of threads; and that MachProcess then implements           *)
(* DebugSession.                                                           *)
(***************************************************************************)
EXTENDS MachProcessSession, MachProcessProofs

\* The exception thread is between two messages.
Waiting == {"loop", "enter", "call", "recv", "interrupted", "is_valid"}

\* The places of Resume and SingleStep before task_resume.
BeforeRun == {"enable", "check", "reply", "info", "task_resume"}

AllSingle(b) == \A t \in Threads : ss[t] = b

-----------------------------------------------------------------------------
(* The inductive invariant, in parts, while the debugger has not ended. *)

\* Before the first Attach nothing has happened.
Fresh ==
  /\ mainPc \in {"idle", "start"} /\ m_status = "DETACH"
  /\ ~sigstop /\ ~jobstop /\ ~routed
  /\ queue = <<>> /\ m_exception_messages = <<>>
  /\ \A t \in Threads : thread[t] = "run"

LifeInv ==
  /\ alive /\ mainPc # "thrown"
  /\ mainPc = "start" => excPc = "none"
  /\ excPc = "none" => Fresh
  /\ excPc \in Waiting \cup {"none"} => message = NoMessage

\* From StartExceptionThread to Detach the exception thread lives, and the
\* task is suspended whenever a message is held.
InSession ==
  /\ excPc # "none" /\ op # "detach"
  /\ op = "none" => m_status # "DETACH"

SessionInv ==
  InSession =>
    /\ routed /\ m_exception_port /\ ~cancelled /\ ~jobstop
    /\ excPc # "exited"
    /\ Holding => suspend_count > 0

DetachInv ==
  /\ routed => op = "attach" \/ m_status # "DETACH"
  /\ mainPc \in DetachCall => m_status = "STOP"
  /\ op = "detach" /\ mainPc \in TaskResumeCall => m_status = "DETACH"
  /\ op = "detach" /\ mainPc # "restore" => ~routed

\* Resume and SingleStep have the task for themselves until task_resume.
CallInv ==
  /\ op \in ClientCall /\ mainPc \in BeforeRun =>
       suspend_count > 0 /\ excPc \in Waiting /\ queue = <<>>
  /\ op \in ClientCall /\ mainPc \in {"info", "task_resume"} =>
       m_exception_messages = <<>>
  /\ mainPc = "reply" => end = Len(m_exception_messages)

\* Where the client believes in STOP, the SIGSTOP is still pending or a
\* message is on its way.
StopInv ==
  mainPc = "sleep" \/ (mainPc = "idle" /\ m_status = "STOP") =>
    \/ sigstop \/ queue # <<>>
    \/ excPc \in Handling \/ m_exception_messages # <<>>

\* The SS_ENABLE bits are set by SingleStep and cleared before it returns.
StepInv ==
  /\ op # "step" => ~m_single_step
  /\ op = "step" /\ mainPc \in BeforeRun => m_single_step
  /\ ~m_single_step => AllSingle(FALSE)
  /\ op = "step" /\ ~m_single_step => Holding
  /\ excPc \in {"disable", "stepped"} => m_single_step
  /\ excPc = "disable" => \A t \in Threads \ disabling : ss[t] = FALSE
  /\ excPc = "stepped" => AllSingle(FALSE)

Protocol ==
  LifeInv /\ SessionInv /\ DetachInv /\ CallInv /\ StopInv /\ StepInv

SettledInv ==
  /\ mainPc = "aborted" => excPc = "exited"
  /\ mainPc # "aborted" => Protocol /\ BlockedThreadHeld

-----------------------------------------------------------------------------
\* Before the first Attach.
LEMMA SettledInit == Init => SettledInv
BY
DEF Init, KernelInit, TaskInit, SettledInv, Protocol, LifeInv, Fresh,
    SessionInv, InSession, DetachInv, CallInv, StopInv, StepInv, AllSingle,
    BlockedThreadHeld, Holding, ClientCall, DetachCall, TaskResumeCall,
    BeforeRun, Waiting, Handling

\* When a client call finds the exception thread at rest, STOP is true: the
\* SIGSTOP has been taken, its message received, and the task suspended.
LEMMA QuietStop ==
  ASSUME IInv, SettledInv, mainPc = "idle", m_status = "STOP", Quiet
  PROVE  suspend_count > 0 /\ excPc = "recv" /\ queue = <<>>
<1>1. /\ LifeInv /\ SessionInv /\ StopInv /\ BlockedThreadHeld
      /\ op = "none" /\ excPc \notin {"none", "exited"}
  BY DEF SettledInv, Protocol, IInv, ControlInv, OpMatches, LifeInv, Fresh,
         SessionInv, InSession
<1>2. excPc = "recv" /\ queue = <<>> /\ message = NoMessage
  BY <1>1 DEF Quiet, LifeInv, Waiting
<1>3. CASE m_exception_messages # <<>>
  BY <1>1, <1>2, <1>3 DEF SessionInv, InSession, Holding
<1>4. CASE m_exception_messages = <<>>
  <2>1. sigstop
    BY <1>1, <1>2, <1>4 DEF StopInv, Handling
  <2>2. \A t \in Threads : thread[t] # "raised"
    <3>1. /\ DOMAIN queue = {} /\ Len(m_exception_messages) = 0
          /\ pos \in Nat /\ pos > 0
      BY <1>2, <1>4 DEF IInv, TypeInv, TypeOK, ReplyInv, Cursor
    <3>2. \A t \in Threads : ~Queued(t) /\ message # t
      BY <1>2, <3>1, KernelAssumption DEF Queued
    <3>3. pos..Len(m_exception_messages) = {}
      BY <3>1
    <3> QED  BY <1>1, <3>2, <3>3 DEF BlockedThreadHeld
  <2>3. PICK t \in Threads : TRUE
    BY KernelAssumption
  <2>4. thread[t] = "run" /\ ~Runs(t)
    BY <1>2, <2>1, <2>2 DEF IInv, TypeInv, TypeOK, KernelTypeOK, Quiet
  <2>5. alive /\ ~jobstop
    BY <1>1 DEF LifeInv, SessionInv, InSession
  <2> QED
    BY <1>2, <2>4, <2>5 DEF Runs, IInv, TypeInv, TypeOK, KernelTypeOK
<1> QED  BY <1>2, <1>3, <1>4

\* What the debugged task does by itself: a running thread raises, or takes
\* the SIGSTOP that Detach has left pending.
LEMMA InferiorEffect ==
  ASSUME ~MayExit, IInv, SettledInv, Inferior
  PROVE  /\ mainPc # "aborted" /\ UNCHANGED <<taskVars, processVars>>
         /\ UNCHANGED <<suspend_count, ss, routed, alive>>
         /\ \/ /\ UNCHANGED jobstop
               /\ routed /\ \E t \in Threads : Runs(t) /\ Raise(t)
            \/ UNCHANGED <<thread, queue>> /\ ~routed /\ sigstop
<1>1. mainPc # "aborted" /\ UNCHANGED <<taskVars, processVars>>
  BY DEF Inferior
<1>2. ~routed => AllSingle(FALSE)
  <2>1. StepInv /\ SessionInv /\ LifeInv /\ OpMatches
    BY <1>1 DEF SettledInv, Protocol, IInv, ControlInv
  <2>2. ASSUME m_single_step
        PROVE  routed
    <3>1. op = "step"
      BY <2>1, <2>2 DEF StepInv
    <3>2. excPc # "none"
      BY <2>1, <3>1 DEF LifeInv, Fresh, OpMatches
    <3> QED  BY <2>1, <3>1, <3>2 DEF SessionInv, InSession
  <2> QED  BY <2>1, <2>2 DEF StepInv
<1>3. ASSUME NEW t \in Threads, StepTrap(t)
      PROVE  /\ routed /\ Runs(t) /\ Raise(t)
             /\ UNCHANGED <<suspend_count, ss, routed, alive, jobstop>>
  BY <1>2, <1>3 DEF StepTrap, AllSingle
<1>4. ASSUME NEW t \in Threads, BreakTrap(t)
      PROVE  /\ routed /\ Runs(t) /\ Raise(t)
             /\ UNCHANGED <<suspend_count, ss, routed, alive, jobstop>>
  BY <1>4 DEF BreakTrap
<1>5. ASSUME NEW t \in Threads, TakeSignal(t)
      PROVE  /\ UNCHANGED <<suspend_count, ss, routed, alive>>
             /\ \/ UNCHANGED jobstop /\ routed /\ Runs(t) /\ Raise(t)
                \/ UNCHANGED <<thread, queue>> /\ ~routed /\ sigstop
  BY <1>5 DEF TakeSignal
<1> QED
  BY <1>1, <1>3, <1>4, <1>5 DEF Inferior, KernelNext, Exit

\* Every step keeps the two threads in step with each other and the client.
LEMMA ProtocolStep ==
  ASSUME Settle, ~Reattach, ~MayExit, IInv, SettledInv, [Next]_vars
  PROVE  mainPc' # "aborted" => Protocol'
<1> USE KernelAssumption
    DEF IInv, TypeInv, TypeOK, KernelTypeOK, TaskTypeOK, MessageInHand,
        ControlInv, OpMatches, StatusMatches, ThreadGone, NoSession, CountInv,
        SuspendAccounted, CountZero, CountPositive, Holding, ResumeDue,
        ClientCall, DetachCall, TaskResumeCall, Handling, BeforeRun, Waiting,
        InSession, SettledInv, Protocol, LifeInv, Fresh, SessionInv, DetachInv,
        CallInv, StopInv, StepInv, AllSingle, kernelVars, taskVars,
        processVars, excFrame, mainFrame, Goto, Call, Abort
<1>1. CASE LoopTest /\ UNCHANGED processVars
  BY <1>1 DEF LoopTest, ExceptionPortIsValid
<1>2. CASE EnterReceive /\ UNCHANGED processVars
  BY <1>2 DEF EnterReceive
<1>3. CASE ReceiveSuccess /\ UNCHANGED processVars
  BY <1>3 DEF ReceiveSuccess
<1>4. CASE ReceiveTimedOut /\ UNCHANGED processVars
  BY <1>4 DEF ReceiveTimedOut
<1>5. CASE ReceiveInterrupted /\ UNCHANGED processVars
  BY <1>5 DEF ReceiveInterrupted, ExceptionPortIsValid
<1>6. CASE CancelledInWrite /\ UNCHANGED processVars
  BY <1>6 DEF CancelledInWrite
<1>7. CASE SuspendIfFirst
  BY <1>7 DEF SuspendIfFirst
<1>8. CASE TestSingleStep
  BY <1>8 DEF TestSingleStep
<1>9. CASE DisableSingleStep
  BY <1>9 DEF DisableSingleStep
<1>10. CASE StepDone
  BY <1>10 DEF StepDone
<1>11. CASE PushMessage
  BY <1>11 DEF PushMessage
<1>12. CASE ReplyCheck
  BY <1>12 DEF ReplyCheck
<1>13. CASE ReplyOne
  BY <1>13 DEF ReplyOne
<1>14. CASE ReplyClear
  BY <1>14 DEF ReplyClear
<1>15. CASE TaskBasicInfo
  BY <1>15 DEF TaskBasicInfo
<1>16. CASE TaskResume
  BY <1>16 DEF TaskResume
<1>17. CASE ReturnFromResume
  BY <1>17 DEF ReturnFromResume
<1>18. CASE EnableSingleStep
  BY <1>18 DEF EnableSingleStep
<1>19. CASE SpinTurn
  BY <1>19 DEF SpinTurn, vars
<1>20. CASE SpinEnds
  BY <1>20 DEF SpinEnds
<1>21. CASE SingleStepThrows
  BY <1>21 DEF SingleStepThrows
<1>22. CASE StartExceptionThread
  BY <1>22 DEF StartExceptionThread
<1>23. CASE PtraceAttach
  BY <1>23 DEF PtraceAttach
<1>24. CASE AttachDone
  BY <1>24 DEF AttachDone
<1>25. CASE RestoreExceptionPortInfo
  BY <1>25 DEF RestoreExceptionPortInfo
<1>26. CASE NullExceptionPort
  BY <1>26 DEF NullExceptionPort
<1>27. CASE CancelExceptionThread
  BY <1>27 DEF CancelExceptionThread
<1>28. CASE JoinExceptionThread
  BY <1>28 DEF JoinExceptionThread
<1>29. CASE PtraceDetach
  BY <1>29 DEF PtraceDetach
<1>30. CASE Attach
  BY <1>30 DEF Attach
<1>31. CASE Resume
  BY <1>31, QuietStop DEF Resume
<1>32. CASE Stop
  BY <1>32 DEF Stop
<1>33. CASE SingleStep
  BY <1>33, QuietStop DEF SingleStep
<1>34. CASE Detach
  BY <1>34 DEF Detach
<1>35. CASE AttachFails
  BY <1>35 DEF AttachFails
<1>36. CASE VectorRace
  BY <1>36 DEF VectorRace
<1>37. CASE Inferior
  <2>1. /\ Protocol /\ UNCHANGED <<taskVars, processVars>>
        /\ UNCHANGED <<suspend_count, ss, routed, alive>>
    BY <1>37, InferiorEffect
  <2>2. ASSUME NEW t \in Threads, routed, Runs(t), Raise(t), UNCHANGED jobstop
        PROVE  Protocol'
    <3>1. suspend_count = 0 /\ Len(queue') > 0 /\ queue' # <<>>
      BY <2>2 DEF Runs, Raise
    <3>2. LifeInv'
      BY <2>1, <2>2
    <3>3. SessionInv' /\ DetachInv'
      BY <2>1, <2>2
    <3>4. CallInv'
      BY <2>1, <3>1
    <3>5. StopInv'
      BY <3>1
    <3>6. StepInv'
      BY <2>1
    <3> QED  BY <3>2, <3>3, <3>4, <3>5, <3>6
  <2>3. ASSUME UNCHANGED <<thread, queue>>, ~routed, sigstop
        PROVE  Protocol'
    <3>1. ~InSession /\ excPc # "none"
      BY <2>1, <2>3
    <3>2. LifeInv' /\ SessionInv'
      BY <2>1, <3>1
    <3>3. DetachInv' /\ CallInv' /\ StepInv'
      BY <2>1, <2>3
    <3>4. StopInv'
      BY <2>1, <3>1
    <3> QED  BY <3>2, <3>3, <3>4
  <2> QED  BY <1>37, <2>2, <2>3, InferiorEffect
<1>38. CASE UNCHANGED vars
  BY <1>38 DEF vars
<1>39. CASE ReadPortName /\ UNCHANGED processVars
  BY <1>39 DEF ReadPortName
<1>40. CASE TestPortAfterInterrupt /\ UNCHANGED processVars
  BY <1>40 DEF TestPortAfterInterrupt, ExceptionPortIsValid
<1>41. CASE TaskIsValid /\ UNCHANGED processVars
  BY <1>41 DEF TaskIsValid
<1>42. CASE AttachThrows
  BY <1>42 DEF AttachThrows
<1> QED
  BY <1>1, <1>2, <1>3, <1>4, <1>5, <1>6, <1>7, <1>8, <1>9, <1>10, <1>11, <1>12,
     <1>13, <1>14, <1>15, <1>16, <1>17, <1>18, <1>19, <1>20, <1>21, <1>22,
     <1>23, <1>24, <1>25, <1>26, <1>27, <1>28, <1>29, <1>30, <1>31, <1>32,
     <1>33, <1>34, <1>35, <1>36, <1>37, <1>38, <1>39, <1>40, <1>41, <1>42
  DEF Next, ExceptionThread, MainThread, Client, Mishap, Terminated

\* No step loses a message whose sender awaits a reply.
LEMMA HeldStep ==
  ASSUME Settle, ~Reattach, ~MayExit, IInv, SettledInv, [Next]_vars
  PROVE  mainPc' # "aborted" => BlockedThreadHeld'
<1> USE KernelAssumption
    DEF IInv, TypeInv, TypeOK, KernelTypeOK, TaskTypeOK, ControlInv, OpMatches,
        ReplyInv, Cursor, ClientCall, Handling, BeforeRun, Waiting, SettledInv,
        Protocol, LifeInv, Fresh, CallInv, BlockedThreadHeld, Queued,
        kernelVars, taskVars, processVars, excFrame, mainFrame, Goto, Call,
        Abort
<1>1. CASE LoopTest /\ UNCHANGED processVars
  BY <1>1 DEF LoopTest, ExceptionPortIsValid
<1>2. CASE EnterReceive /\ UNCHANGED processVars
  BY <1>2 DEF EnterReceive
<1>3. CASE ReceiveSuccess /\ UNCHANGED processVars
  <2>1. BlockedThreadHeld
    BY <1>3 DEF ReceiveSuccess
  <2>2. /\ queue # <<>> /\ message' = queue[1] /\ queue' = Tail(queue)
        /\ excPc = "recv" /\ message = NoMessage
        /\ UNCHANGED <<thread, pos, m_exception_messages>>
    BY <1>3 DEF ReceiveSuccess
  <2>3. /\ DOMAIN queue = 1..Len(queue) /\ DOMAIN queue' = 1..Len(queue')
        /\ Len(queue') = Len(queue) - 1 /\ Len(queue) \in Nat
        /\ \A i \in 1..Len(queue') : queue'[i] = queue[i + 1]
    BY <2>2
  <2>4. ASSUME NEW t \in Threads, Queued(t)
        PROVE  Queued(t)' \/ message' = t
    <3>1. PICK i \in 1..Len(queue) : queue[i] = t
      BY <2>3, <2>4
    <3>2. CASE i = 1
      BY <2>2, <3>1, <3>2
    <3>3. CASE i # 1
      <4>1. i - 1 \in 1..Len(queue') /\ queue'[i - 1] = queue[i]
        BY <2>3, <3>3
      <4> QED  BY <2>3, <3>1, <4>1
    <3> QED  BY <3>2, <3>3
  <2> HIDE DEF Queued
  <2> QED  BY <2>1, <2>2, <2>4
<1>4. CASE ReceiveTimedOut /\ UNCHANGED processVars
  BY <1>4 DEF ReceiveTimedOut
<1>5. CASE ReceiveInterrupted /\ UNCHANGED processVars
  BY <1>5 DEF ReceiveInterrupted, ExceptionPortIsValid
<1>6. CASE CancelledInWrite /\ UNCHANGED processVars
  BY <1>6 DEF CancelledInWrite
<1>7. CASE SuspendIfFirst
  BY <1>7 DEF SuspendIfFirst
<1>8. CASE TestSingleStep
  BY <1>8 DEF TestSingleStep
<1>9. CASE DisableSingleStep
  BY <1>9 DEF DisableSingleStep
<1>10. CASE StepDone
  BY <1>10 DEF StepDone
<1>11. CASE PushMessage
  BY <1>11 DEF PushMessage
<1>12. CASE ReplyCheck
  BY <1>12 DEF ReplyCheck
<1>13. CASE ReplyOne
  BY <1>13 DEF ReplyOne
<1>14. CASE ReplyClear
  BY <1>14 DEF ReplyClear
<1>15. CASE TaskBasicInfo
  BY <1>15 DEF TaskBasicInfo
<1>16. CASE TaskResume
  BY <1>16 DEF TaskResume
<1>17. CASE ReturnFromResume
  BY <1>17 DEF ReturnFromResume
<1>18. CASE EnableSingleStep
  BY <1>18 DEF EnableSingleStep
<1>19. CASE SpinTurn
  BY <1>19 DEF SpinTurn, vars
<1>20. CASE SpinEnds
  BY <1>20 DEF SpinEnds
<1>21. CASE SingleStepThrows
  BY <1>21 DEF SingleStepThrows
<1>22. CASE StartExceptionThread
  BY <1>22 DEF StartExceptionThread
<1>23. CASE PtraceAttach
  BY <1>23 DEF PtraceAttach
<1>24. CASE AttachDone
  BY <1>24 DEF AttachDone
<1>25. CASE RestoreExceptionPortInfo
  BY <1>25 DEF RestoreExceptionPortInfo
<1>26. CASE NullExceptionPort
  BY <1>26 DEF NullExceptionPort
<1>27. CASE CancelExceptionThread
  BY <1>27 DEF CancelExceptionThread
<1>28. CASE JoinExceptionThread
  BY <1>28 DEF JoinExceptionThread
<1>29. CASE PtraceDetach
  BY <1>29 DEF PtraceDetach
<1>30. CASE Attach
  BY <1>30 DEF Attach
<1>31. CASE Resume
  BY <1>31 DEF Resume
<1>32. CASE Stop
  BY <1>32 DEF Stop
<1>33. CASE SingleStep
  BY <1>33 DEF SingleStep
<1>34. CASE Detach
  BY <1>34 DEF Detach
<1>35. CASE AttachFails
  BY <1>35 DEF AttachFails
<1>36. CASE VectorRace
  BY <1>36 DEF VectorRace
<1>37. CASE Inferior
  <2>1. BlockedThreadHeld /\ UNCHANGED <<taskVars, processVars>>
    BY <1>37, InferiorEffect
  <2>2. ASSUME NEW t \in Threads, Raise(t)
        PROVE  BlockedThreadHeld'
    <3>1. /\ DOMAIN queue = 1..Len(queue) /\ DOMAIN queue' = 1..Len(queue')
          /\ Len(queue') = Len(queue) + 1 /\ Len(queue) \in Nat
          /\ queue'[Len(queue) + 1] = t
          /\ \A i \in 1..Len(queue) : queue'[i] = queue[i]
      BY <2>2 DEF Raise
    <3>2. Queued(t)' /\ \A u \in Threads : Queued(u) => Queued(u)'
      <4>1. /\ Len(queue) + 1 \in 1..Len(queue')
            /\ 1..Len(queue) \subseteq 1..Len(queue')
        BY <3>1
      <4> QED  BY <3>1, <4>1
    <3>3. \A u \in Threads : u # t => thread'[u] = thread[u]
      BY <2>2 DEF Raise
    <3> HIDE DEF Queued
    <3> QED  BY <2>1, <3>2, <3>3
  <2>3. ASSUME UNCHANGED <<thread, queue>>
        PROVE  BlockedThreadHeld'
    BY <2>1, <2>3
  <2> QED  BY <1>37, <2>2, <2>3, InferiorEffect
<1>38. CASE UNCHANGED vars
  BY <1>38 DEF vars
<1>39. CASE ReadPortName /\ UNCHANGED processVars
  BY <1>39 DEF ReadPortName
<1>40. CASE TestPortAfterInterrupt /\ UNCHANGED processVars
  BY <1>40 DEF TestPortAfterInterrupt, ExceptionPortIsValid
<1>41. CASE TaskIsValid /\ UNCHANGED processVars
  BY <1>41 DEF TaskIsValid
<1>42. CASE AttachThrows
  BY <1>42 DEF AttachThrows
<1> QED
  BY <1>1, <1>2, <1>3, <1>4, <1>5, <1>6, <1>7, <1>8, <1>9, <1>10, <1>11, <1>12,
     <1>13, <1>14, <1>15, <1>16, <1>17, <1>18, <1>19, <1>20, <1>21, <1>22,
     <1>23, <1>24, <1>25, <1>26, <1>27, <1>28, <1>29, <1>30, <1>31, <1>32,
     <1>33, <1>34, <1>35, <1>36, <1>37, <1>38, <1>39, <1>40, <1>41, <1>42
  DEF Next, ExceptionThread, MainThread, Client, Mishap, Terminated

\* A debugger that has ended has no exception thread.
LEMMA AbortEnds ==
  ASSUME SettledInv, [Next]_vars
  PROVE  mainPc' = "aborted" => excPc' = "exited"
<1> USE
    DEF SettledInv, kernelVars, taskVars, processVars, excFrame, mainFrame,
        Goto, Call, Abort
<1>1. CASE ExceptionThread
  BY <1>1
  DEF ExceptionThread, LoopTest, ReadPortName, EnterReceive, ReceiveSuccess,
      ReceiveTimedOut, TestPortAfterInterrupt, TaskIsValid, SuspendIfFirst,
      TestSingleStep, DisableSingleStep, StepDone, PushMessage
<1>2. CASE MainThread
  BY <1>2
  DEF MainThread, ReplyCheck, ReplyOne, ReplyClear, TaskBasicInfo, TaskResume,
      ReturnFromResume, EnableSingleStep, SpinTurn, vars, SpinEnds,
      SingleStepThrows, StartExceptionThread, PtraceAttach, AttachDone,
      RestoreExceptionPortInfo, NullExceptionPort, CancelExceptionThread,
      JoinExceptionThread, PtraceDetach
<1>3. CASE Client
  BY <1>3 DEF Client, Attach, Resume, Stop, SingleStep, Detach
<1>4. CASE Mishap
  BY <1>4 DEF Mishap, AttachFails, AttachThrows, VectorRace,
              ReceiveInterrupted, CancelledInWrite
<1>5. CASE Inferior
  BY <1>5 DEF Inferior
<1>6. CASE UNCHANGED vars
  BY <1>6 DEF vars
<1> QED  BY <1>1, <1>2, <1>3, <1>4, <1>5, <1>6 DEF Next, Terminated

\* The invariant holds in every state of a settled session.
LEMMA SettledInvariance ==
  ASSUME Settle, ~Reattach, ~MayExit
  PROVE  Spec => [](IInv /\ SettledInv)
<1>1. Init => SettledInv
  BY SettledInit
<1>2. IInv /\ SettledInv /\ [Next]_vars => SettledInv'
  <2> SUFFICES ASSUME IInv, SettledInv, [Next]_vars
               PROVE  SettledInv'
    OBVIOUS
  <2>1. mainPc' = "aborted" => excPc' = "exited"
    BY AbortEnds
  <2> QED  BY <2>1, ProtocolStep, HeldStep DEF SettledInv
<1> QED  BY <1>1, <1>2, Invariance, PTL DEF Spec

-----------------------------------------------------------------------------
(* The theorems. *)

\* Resume and SingleStep find a suspended task: the STOP that Attach and Stop
\* set without waiting is true by the time a call relies on it.
THEOREM StopIsTrue ==
  ASSUME Settle, ~Reattach, ~MayExit
  PROVE  Spec => []CallFindsTaskSuspended
<1>1. IInv /\ SettledInv => CallFindsTaskSuspended
  BY DEF SettledInv, Protocol, CallInv, ClientCall, BeforeRun,
         CallFindsTaskSuspended
<1> QED  BY <1>1, SettledInvariance, PTL

\* No reply is lost: every thread that awaits one has its message on the
\* port, in the exception thread's hands or in the vector, after Detach too.
THEOREM NoReplyLost ==
  ASSUME Settle, ~Reattach, ~MayExit
  PROVE  Spec => []BlockedThreadHeld
<1>1. IInv /\ SettledInv => BlockedThreadHeld
  BY DEF SettledInv, BlockedThreadHeld
<1> QED  BY <1>1, SettledInvariance, PTL

\* SingleStep leaves no SS_ENABLE bit behind, however many threads trapped.
THEOREM NoStepBitLeft ==
  ASSUME Settle, ~Reattach, ~MayExit
  PROVE  Spec => []StepBitsCleared
<1>1. IInv /\ SettledInv => StepBitsCleared
  BY DEF IInv, ControlInv, OpMatches, SettledInv, Protocol, StepInv, AllSingle,
         StepBitsCleared
<1> QED  BY <1>1, SettledInvariance, PTL

-----------------------------------------------------------------------------
(* The refinement: what each step is to the client. *)

\* A thread whose message is held, is held.
LEMMA HeldNotEmpty ==
  ASSUME IInv, mainPc # "aborted",
         \/ excPc \in Handling
         \/ mainPc # "reply" /\ m_exception_messages # <<>>
  PROVE  HeldThreads # {}
<1>1. CASE excPc \in Handling
  <2>1. message \in Threads /\ thread[message] = "raised"
    BY <1>1
    DEF IInv, TypeInv, TypeOK, TaskTypeOK, MessageInHand, ReplyInv, Awaiting
  <2> QED  BY <2>1 DEF HeldThreads
<1>2. CASE mainPc # "reply" /\ m_exception_messages # <<>>
  <2>1. m_exception_messages \in Seq(Threads) /\ pos = 1
    BY <1>2 DEF IInv, TypeInv, TypeOK, ReplyInv, Cursor
  <2>2. 1 \in Live /\ m_exception_messages[1] \in Threads
    BY <1>2, <2>1 DEF Live
  <2> QED  BY <2>2 DEF IInv, ReplyInv, Awaiting, HeldThreads
<1> QED  BY <1>1, <1>2

\* When Resume and SingleStep let the task run, every reply has been sent.
LEMMA AllReplied ==
  ASSUME IInv, SettledInv, op \in ClientCall, mainPc = "task_resume"
  PROVE  HeldThreads = {} /\ suspend_count = 1
<1>1. /\ queue = <<>> /\ m_exception_messages = <<>> /\ excPc \in Waiting
      /\ message = NoMessage /\ suspend_count > 0
      /\ BlockedThreadHeld /\ mainPc # "aborted"
  BY DEF SettledInv, Protocol, CallInv, LifeInv, BeforeRun
<1>2. pos = 1 /\ Len(m_exception_messages) = 0 /\ DOMAIN queue = {}
  BY <1>1 DEF IInv, ReplyInv, Cursor
<1>3. \A t \in Threads : ~Queued(t) /\ message # t
  BY <1>1, <1>2, KernelAssumption DEF Queued
<1>4. 1..0 = {}
  OBVIOUS
<1>5. HeldThreads = {}
  BY <1>1, <1>2, <1>3, <1>4 DEF BlockedThreadHeld, HeldThreads
<1>6. ~Holding
  BY <1>1 DEF Holding, Waiting, Handling
<1> QED
  BY <1>1, <1>5, <1>6
  DEF IInv, TypeInv, TypeOK, KernelTypeOK, CountInv, SuspendAccounted

\* Every step of the two threads, of the client and of the task is a step of
\* the session or changes nothing the client sees.
LEMMA SessionStep ==
  ASSUME Settle, ~Reattach, ~MayExit, IInv, SettledInv, [Next]_vars
  PROVE  [Session!Next]_(Session!vars)
<1> USE
    DEF IInv, TypeInv, TypeOK, KernelTypeOK, ControlInv, OpMatches,
        StatusMatches, CountInv, SuspendAccounted, CountZero, CountPositive,
        Holding, ResumeDue, ClientCall, DetachCall, TaskResumeCall, Handling,
        BeforeRun, Waiting, InSession, SettledInv, Protocol, LifeInv, Fresh,
        SessionInv, DetachInv, CallInv, StepInv, SeenStatus, HeldThreads,
        CallUnderWay, Session!Next, Session!vars, kernelVars, taskVars,
        processVars, excFrame, mainFrame, Goto, Call, Abort
<1>1. CASE LoopTest /\ UNCHANGED processVars
  BY <1>1 DEF LoopTest, ExceptionPortIsValid
<1>2. CASE EnterReceive /\ UNCHANGED processVars
  BY <1>2 DEF EnterReceive
<1>3. CASE ReceiveSuccess /\ UNCHANGED processVars
  BY <1>3 DEF ReceiveSuccess
<1>4. CASE ReceiveTimedOut /\ UNCHANGED processVars
  BY <1>4 DEF ReceiveTimedOut
<1>5. CASE ReceiveInterrupted /\ UNCHANGED processVars
  BY <1>5 DEF ReceiveInterrupted, ExceptionPortIsValid
<1>6. CASE CancelledInWrite /\ UNCHANGED processVars
  BY <1>6 DEF CancelledInWrite
<1>7. CASE SuspendIfFirst
  <2>1. excPc = "received" /\ mainPc # "aborted"
    BY <1>7 DEF SuspendIfFirst
  <2>2. HeldThreads # {}
    BY <2>1, HeldNotEmpty
  <2>3. UNCHANGED <<SeenStatus, HeldThreads, CallUnderWay>>
    BY <1>7 DEF SuspendIfFirst
  <2>4. suspend_count' \in {suspend_count, suspend_count + 1}
    BY <1>7 DEF SuspendIfFirst
  <2>5. \/ (suspend_count > 0)' = (suspend_count > 0)
        \/ ~(suspend_count > 0) /\ (suspend_count > 0)' = TRUE
    BY <2>4
  <2> HIDE DEF SeenStatus, HeldThreads, CallUnderWay
  <2> QED  BY <2>2, <2>3, <2>5 DEF Session!Suspend
<1>8. CASE TestSingleStep
  BY <1>8 DEF TestSingleStep
<1>9. CASE DisableSingleStep
  BY <1>9 DEF DisableSingleStep
<1>10. CASE StepDone
  BY <1>10 DEF StepDone
<1>11. CASE PushMessage
  BY <1>11 DEF PushMessage
<1>12. CASE ReplyCheck
  BY <1>12 DEF ReplyCheck
<1>13. CASE ReplyOne
  BY <1>13 DEF ReplyOne, Session!LetGo
<1>14. CASE ReplyClear
  BY <1>14 DEF ReplyClear
<1>15. CASE TaskBasicInfo
  BY <1>15 DEF TaskBasicInfo
<1>16. CASE TaskResume
  <2>1. /\ mainPc = "task_resume" /\ mainPc' = "return"
        /\ suspend_count' = suspend_count - 1
        /\ UNCHANGED <<op, m_status, thread>>
    BY <1>16 DEF TaskResume
  <2>2. UNCHANGED <<SeenStatus, HeldThreads>>
    BY <2>1
  <2>3. CASE op \in ClientCall
    <3>1. HeldThreads = {} /\ suspend_count = 1
      BY <2>1, <2>3, AllReplied
    <3>2. (suspend_count > 0) /\ (suspend_count > 0)' = FALSE
      BY <2>1, <3>1
    <3>3. \/ CallUnderWay = "resume" /\ CallUnderWay' = "resumed"
          \/ CallUnderWay = "step" /\ CallUnderWay' = "stepped"
      BY <2>1, <2>3
    <3> HIDE DEF SeenStatus, HeldThreads, CallUnderWay
    <3> QED  BY <2>2, <3>1, <3>2, <3>3 DEF Session!Continue
  <2>4. CASE op = "detach"
    <3>1. suspend_count = 1 /\ SeenStatus = "DETACH"
      BY <2>1, <2>4
    <3>2. (suspend_count > 0) /\ (suspend_count > 0)' = FALSE
      BY <2>1, <3>1
    <3>3. CallUnderWay = "detach" /\ CallUnderWay' = "detach"
      BY <2>1, <2>4
    <3> HIDE DEF SeenStatus, HeldThreads, CallUnderWay
    <3> QED  BY <2>2, <3>1, <3>2, <3>3 DEF Session!Unsuspend
  <2> QED  BY <2>1, <2>3, <2>4
<1>17. CASE ReturnFromResume
  BY <1>17 DEF ReturnFromResume, Session!ReturnResume, Session!ReturnDetach
<1>18. CASE EnableSingleStep
  BY <1>18 DEF EnableSingleStep
<1>19. CASE SpinTurn
  BY <1>19 DEF SpinTurn, vars
<1>20. CASE SpinEnds
  <2>1. /\ mainPc = "spin" /\ op = "step" /\ ~m_single_step
        /\ mainPc' = "idle" /\ op' = "none" /\ m_status' = "STOP"
        /\ UNCHANGED <<thread, suspend_count>>
    BY <1>20 DEF SpinEnds
  <2>2. Holding /\ suspend_count > 0
    BY <2>1
  <2>3. HeldThreads # {}
    BY <2>1, <2>2, HeldNotEmpty
  <2>4. CallUnderWay = "stepped" /\ CallUnderWay' = "none"
    BY <2>1
  <2>5. UNCHANGED <<SeenStatus, HeldThreads, suspend_count > 0>>
    BY <2>1
  <2> HIDE DEF SeenStatus, HeldThreads, CallUnderWay
  <2> QED  BY <2>2, <2>3, <2>4, <2>5 DEF Session!ReturnStep
<1>21. CASE SingleStepThrows
  BY <1>21 DEF SingleStepThrows
<1>22. CASE StartExceptionThread
  BY <1>22 DEF StartExceptionThread
<1>23. CASE PtraceAttach
  BY <1>23 DEF PtraceAttach
<1>24. CASE AttachDone
  BY <1>24 DEF AttachDone, Session!ReturnAttach
<1>25. CASE RestoreExceptionPortInfo
  BY <1>25 DEF RestoreExceptionPortInfo
<1>26. CASE NullExceptionPort
  BY <1>26 DEF NullExceptionPort
<1>27. CASE CancelExceptionThread
  BY <1>27 DEF CancelExceptionThread
<1>28. CASE JoinExceptionThread
  BY <1>28 DEF JoinExceptionThread
<1>29. CASE PtraceDetach
  BY <1>29 DEF PtraceDetach, Session!Release, Session!Fail
<1>30. CASE Attach
  BY <1>30 DEF Attach, Session!CallAttach
<1>31. CASE Resume
  <2>1. /\ suspend_count > 0
        /\ CallUnderWay = "none" /\ CallUnderWay' = "resume"
        /\ SeenStatus = "STOP"
    BY <1>31, QuietStop DEF Resume
  <2>2. UNCHANGED <<SeenStatus, HeldThreads, suspend_count > 0>>
    BY <1>31 DEF Resume
  <2> HIDE DEF SeenStatus, HeldThreads, CallUnderWay
  <2> QED  BY <2>1, <2>2 DEF Session!CallOnStopped
<1>32. CASE Stop
  BY <1>32 DEF Stop, Session!Stop
<1>33. CASE SingleStep
  <2>1. /\ suspend_count > 0
        /\ CallUnderWay = "none" /\ CallUnderWay' = "step"
        /\ SeenStatus = "STOP"
    BY <1>33, QuietStop DEF SingleStep
  <2>2. UNCHANGED <<SeenStatus, HeldThreads, suspend_count > 0>>
    BY <1>33 DEF SingleStep
  <2> HIDE DEF SeenStatus, HeldThreads, CallUnderWay
  <2> QED  BY <2>1, <2>2 DEF Session!CallOnStopped
<1>34. CASE Detach
  BY <1>34 DEF Detach, Session!CallDetach
<1>35. CASE AttachFails
  BY <1>35 DEF AttachFails, Session!Fail
<1>36. CASE VectorRace
  BY <1>36 DEF VectorRace
<1>37. CASE Inferior
  <2>1. UNCHANGED <<SeenStatus, CallUnderWay, suspend_count > 0>>
    BY <1>37, InferiorEffect
  <2>2. ASSUME NEW t \in Threads, routed, Runs(t), Raise(t)
        PROVE  Session!Hold(t)
    <3>1. ~(suspend_count > 0)
      BY <2>2 DEF Runs
    <3>2. t \notin HeldThreads /\ HeldThreads' = HeldThreads \cup {t}
      BY <2>2 DEF Runs, Raise
    <3>3. SeenStatus # "DETACH" \/ CallUnderWay = "attach"
      BY <1>37, <2>2, InferiorEffect
    <3> HIDE DEF SeenStatus, HeldThreads, CallUnderWay
    <3> QED  BY <2>1, <3>1, <3>2, <3>3 DEF Session!Hold
  <2>3. ASSUME UNCHANGED thread
        PROVE  UNCHANGED HeldThreads
    BY <2>3
  <2> HIDE DEF SeenStatus, HeldThreads, CallUnderWay
  <2> QED  BY <1>37, <2>1, <2>2, <2>3, InferiorEffect
<1>38. CASE UNCHANGED vars
  BY <1>38 DEF vars
<1>39. CASE ReadPortName /\ UNCHANGED processVars
  BY <1>39 DEF ReadPortName
<1>40. CASE TestPortAfterInterrupt /\ UNCHANGED processVars
  BY <1>40 DEF TestPortAfterInterrupt, ExceptionPortIsValid
<1>41. CASE TaskIsValid /\ UNCHANGED processVars
  BY <1>41 DEF TaskIsValid
<1>42. CASE AttachThrows
  BY <1>42 DEF AttachThrows
<1> QED
  BY <1>1, <1>2, <1>3, <1>4, <1>5, <1>6, <1>7, <1>8, <1>9, <1>10, <1>11, <1>12,
     <1>13, <1>14, <1>15, <1>16, <1>17, <1>18, <1>19, <1>20, <1>21, <1>22,
     <1>23, <1>24, <1>25, <1>26, <1>27, <1>28, <1>29, <1>30, <1>31, <1>32,
     <1>33, <1>34, <1>35, <1>36, <1>37, <1>38, <1>39, <1>40, <1>41, <1>42
  DEF Next, ExceptionThread, MainThread, Client, Mishap, Terminated

\* The two threads of MachProcess, with no lock between them, keep for every
\* number of debugged threads the promises that DebugSession makes to the
\* client.
THEOREM Implementation ==
  ASSUME Settle, ~Reattach, ~MayExit
  PROVE  Spec => ImplementsSession
<1>1. Init => Session!Init
  BY
  DEF Init, KernelInit, TaskInit, Session!Init, SeenStatus, HeldThreads,
      CallUnderWay
<1>2. IInv /\ SettledInv /\ [Next]_vars => [Session!Next]_(Session!vars)
  BY SessionStep
<1> QED
  BY <1>1, <1>2, SettledInvariance, PTL
  DEF Spec, ImplementsSession, Session!Spec

=============================================================================
