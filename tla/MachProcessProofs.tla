------------------------- MODULE MachProcessProofs -------------------------
(***************************************************************************)
(* Safety of MachProcess for every number of threads, whatever the client  *)
(* does and whether or not it lets the exception thread settle.            *)
(***************************************************************************)
EXTENDS MachProcess, SequenceTheorems, TLAPS

ClientCall == {"resume", "step"}
DetachCall == {"restore", "null_port", "cancel", "join", "pt_detach"}
TaskResumeCall == {"info", "task_resume", "return"}

-----------------------------------------------------------------------------
(* The inductive invariant, in parts. *)

\* ExceptionMessageReceived always has a message in its hands.
MessageInHand == excPc \in Handling => message # NoMessage

\* BasicInfo saw a positive count, and nobody else calls task_resume.
CountPositive == mainPc = "task_resume" => suspend_count > 0

\* Which call a place of the main thread belongs to.
OpMatches ==
  /\ mainPc \in {"idle", "thrown"} => op = "none"
  /\ mainPc \in {"start", "ptrace", "sleep"} => op = "attach"
  /\ mainPc \in {"enable", "spin"} => op = "step"
  /\ mainPc \in {"check", "reply"} => op \in ClientCall
  /\ mainPc \in TaskResumeCall => op \in ClientCall \cup {"detach"}
  /\ mainPc \in DetachCall => op = "detach"

\* Where the exception thread must be gone: before StartExceptionThread makes
\* one and after Detach has joined it.
NoSession ==
  \/ mainPc \in {"start", "pt_detach"}
  \/ mainPc = "idle" /\ m_status = "DETACH"
  \/ op = "detach" /\ mainPc \in TaskResumeCall

ThreadGone == NoSession => excPc \in {"none", "exited"}

\* m_status at the places where it decides what follows.
StatusMatches ==
  /\ mainPc \in {"enable", "check", "reply", "spin"} => m_status # "DETACH"
  /\ op \in ClientCall /\ mainPc \in TaskResumeCall => m_status # "DETACH"

\* Detach leaves the task unsuspended.
CountZero ==
  /\ m_status = "DETACH" /\ mainPc = "idle" => suspend_count = 0
  /\ op = "detach" /\ mainPc = "return" => suspend_count = 0

TypeInv == TypeOK /\ MessageInHand /\ CountPositive

ControlInv == OpMatches /\ StatusMatches /\ ThreadGone

CountInv == SuspendAccounted /\ CountZero

\* The messages in the vector that ReplyToAllExceptions has not replied to.
Live == pos..Len(m_exception_messages)

\* The iterators: only ReplyToAllExceptions moves them, and the vector never
\* shrinks below end while it runs.
Cursor ==
  /\ pos > 0
  /\ mainPc \notin {"reply", "aborted"} => pos = 1
  /\ mainPc = "reply" => end <= Len(m_exception_messages)

\* Whoever has a message on its way awaits the reply to it ...
Awaiting ==
  /\ \A i \in Live : thread[m_exception_messages[i]] = "raised"
  /\ \A i \in 1..Len(queue) : thread[queue[i]] = "raised"
  /\ excPc \in Handling => thread[message] = "raised"

\* ... and has just the one.
OneMessage ==
  /\ \A i, j \in Live :
       m_exception_messages[i] = m_exception_messages[j] => i = j
  /\ \A i, j \in 1..Len(queue) : queue[i] = queue[j] => i = j
  /\ \A i \in Live, j \in 1..Len(queue) :
       m_exception_messages[i] # queue[j]
  /\ excPc \in Handling =>
       /\ \A i \in Live : m_exception_messages[i] # message
       /\ \A i \in 1..Len(queue) : queue[i] # message

ReplyInv == Cursor /\ Awaiting /\ OneMessage

IInv == TypeInv /\ ControlInv /\ CountInv /\ ReplyInv

-----------------------------------------------------------------------------
\* The initial state is well typed.
LEMMA TypeInit == Init => TypeInv
<1> SUFFICES ASSUME Init PROVE TypeInv
  OBVIOUS
<1>1. KernelTypeOK
  BY EmptySeq DEF Init, KernelInit, KernelTypeOK
<1>2. TaskTypeOK
  BY DEF Init, TaskInit, TaskTypeOK
<1>3. TypeOK
  BY <1>1, <1>2, EmptySeq DEF Init, TypeOK, Ops, MainPcs
<1>4. MessageInHand /\ CountPositive
  BY DEF Init, TaskInit, MessageInHand, CountPositive, Handling
<1> QED  BY <1>3, <1>4 DEF TypeInv

\* Before the first Attach no call is under way and nothing is suspended.
LEMMA ControlInit == Init => ControlInv /\ CountInv
BY
DEF Init, KernelInit, TaskInit, ControlInv, CountInv, OpMatches,
    StatusMatches, ThreadGone, NoSession, SuspendAccounted, CountZero,
    Holding, ResumeDue, ClientCall, DetachCall, TaskResumeCall, Handling

\* Before the first Attach no message is on its way.
LEMMA ReplyInit == Init => ReplyInv
BY
DEF Init, KernelInit, TaskInit, ReplyInv, Cursor, Awaiting, OneMessage,
    Live, Handling

\* What the debugged task does by itself keeps the kernel's state well typed.
LEMMA KernelTypeStep ==
  ASSUME KernelTypeOK, KernelNext
  PROVE  KernelTypeOK'
<1>1. ASSUME NEW t \in Threads, Raise(t)
      PROVE  /\ thread' \in [Threads -> {"run", "raised"}]
             /\ queue' \in Seq(Threads)
  BY <1>1 DEF Raise, KernelTypeOK
<1>2. ASSUME NEW t \in Threads, StepTrap(t)
      PROVE  KernelTypeOK'
  <2>1. CASE routed /\ Raise(t) /\ UNCHANGED alive
    BY <1>1, <1>2, <2>1 DEF StepTrap, KernelTypeOK
  <2>2. CASE ~routed /\ alive' = FALSE /\ UNCHANGED <<thread, queue>>
    BY <1>2, <2>2 DEF StepTrap, KernelTypeOK
  <2> QED  BY <1>2, <2>1, <2>2 DEF StepTrap
<1>3. ASSUME NEW t \in Threads, BreakTrap(t)
      PROVE  KernelTypeOK'
  BY <1>1, <1>3 DEF BreakTrap, KernelTypeOK
<1>4. ASSUME NEW t \in Threads, TakeSignal(t)
      PROVE  KernelTypeOK'
  <2>1. CASE routed /\ Raise(t) /\ UNCHANGED jobstop
    BY <1>1, <1>4, <2>1 DEF TakeSignal, KernelTypeOK
  <2>2. CASE ~routed /\ jobstop' = TRUE /\ UNCHANGED <<thread, queue>>
    BY <1>4, <2>2 DEF TakeSignal, KernelTypeOK
  <2> QED  BY <1>4, <2>1, <2>2 DEF TakeSignal
<1>5. CASE Exit
  BY <1>5 DEF Exit, KernelTypeOK
<1> QED  BY <1>2, <1>3, <1>4, <1>5 DEF KernelNext

\* Every step keeps the types; CountPositive keeps task_resume from taking
\* the count below zero.
LEMMA TypeStep ==
  ASSUME TypeInv, [Next]_vars
  PROVE  TypeInv'
<1> USE KernelAssumption
    DEF TypeInv, kernelVars, taskVars, processVars, excFrame, mainFrame, Goto,
        Call, Abort
<1>1. CASE LoopTest /\ UNCHANGED processVars
  BY <1>1
  DEF LoopTest, ExceptionPortIsValid, TypeOK, KernelTypeOK, TaskTypeOK,
      MessageInHand, CountPositive, Handling, Ops, MainPcs
<1>2. CASE EnterReceive /\ UNCHANGED processVars
  BY <1>2
  DEF EnterReceive, TypeOK, KernelTypeOK, TaskTypeOK, MessageInHand,
      CountPositive, Handling, Ops, MainPcs
<1>3. CASE ReceiveSuccess /\ UNCHANGED processVars
  BY <1>3
  DEF ReceiveSuccess, TypeOK, KernelTypeOK, TaskTypeOK, MessageInHand,
      CountPositive, Handling, Ops, MainPcs
<1>4. CASE ReceiveTimedOut /\ UNCHANGED processVars
  <2>1. KernelTypeOK'
    BY <1>4 DEF ReceiveTimedOut, TypeOK, KernelTypeOK
  <2>2. TaskTypeOK'
    BY <1>4 DEF ReceiveTimedOut, TypeOK, TaskTypeOK, Handling
  <2>3. TypeOK'
    BY <1>4, <2>1, <2>2 DEF ReceiveTimedOut, TypeOK, Ops, MainPcs
  <2>4. MessageInHand' /\ CountPositive'
    BY <1>4 DEF ReceiveTimedOut, MessageInHand, CountPositive, Handling
  <2> QED  BY <2>3, <2>4
<1>5. CASE ReceiveInterrupted /\ UNCHANGED processVars
  BY <1>5
  DEF ReceiveInterrupted, ExceptionPortIsValid, TypeOK, KernelTypeOK,
      TaskTypeOK, MessageInHand, CountPositive, Handling, Ops, MainPcs
<1>6. CASE CancelledInWrite /\ UNCHANGED processVars
  BY <1>6
  DEF CancelledInWrite, TypeOK, KernelTypeOK, TaskTypeOK, MessageInHand,
      CountPositive, Handling, Ops, MainPcs
<1>7. CASE SuspendIfFirst
  BY <1>7
  DEF SuspendIfFirst, TypeOK, KernelTypeOK, TaskTypeOK, MessageInHand,
      CountPositive, Handling, Ops, MainPcs
<1>8. CASE TestSingleStep
  BY <1>8
  DEF TestSingleStep, TypeOK, KernelTypeOK, TaskTypeOK, MessageInHand,
      CountPositive, Handling, Ops, MainPcs
<1>9. CASE DisableSingleStep
  <2>1. KernelTypeOK'
    BY <1>9 DEF DisableSingleStep, TypeOK, KernelTypeOK
  <2>2. TaskTypeOK'
    BY <1>9 DEF DisableSingleStep, TypeOK, TaskTypeOK, Handling
  <2>3. TypeOK'
    BY <1>9, <2>1, <2>2 DEF DisableSingleStep, TypeOK, Ops, MainPcs
  <2>4. MessageInHand' /\ CountPositive'
    BY <1>9 DEF DisableSingleStep, MessageInHand, CountPositive, Handling
  <2> QED  BY <2>3, <2>4
<1>10. CASE StepDone
  <2>1. KernelTypeOK'
    BY <1>10 DEF StepDone, TypeOK, KernelTypeOK
  <2>2. TaskTypeOK'
    BY <1>10 DEF StepDone, TypeOK, TaskTypeOK, Handling
  <2>3. TypeOK'
    BY <1>10, <2>1, <2>2 DEF StepDone, TypeOK, Ops, MainPcs
  <2>4. MessageInHand' /\ CountPositive'
    BY <1>10 DEF StepDone, MessageInHand, CountPositive, Handling
  <2> QED  BY <2>3, <2>4
<1>11. CASE PushMessage
  BY <1>11
  DEF PushMessage, TypeOK, KernelTypeOK, TaskTypeOK, MessageInHand,
      CountPositive, Handling, Ops, MainPcs
<1>12. CASE ReplyCheck
  BY <1>12
  DEF ReplyCheck, TypeOK, KernelTypeOK, TaskTypeOK, MessageInHand,
      CountPositive, Handling, Ops, MainPcs
<1>13. CASE ReplyOne
  <2>1. KernelTypeOK'
    BY <1>13 DEF ReplyOne, TypeOK, KernelTypeOK
  <2>2. TaskTypeOK'
    BY <1>13 DEF ReplyOne, TypeOK, TaskTypeOK, Handling
  <2>3. TypeOK'
    BY <1>13, <2>1, <2>2 DEF ReplyOne, TypeOK, Ops, MainPcs
  <2>4. MessageInHand' /\ CountPositive'
    BY <1>13 DEF ReplyOne, MessageInHand, CountPositive, Handling
  <2> QED  BY <2>3, <2>4
<1>14. CASE ReplyClear
  BY <1>14
  DEF ReplyClear, TypeOK, KernelTypeOK, TaskTypeOK, MessageInHand,
      CountPositive, Handling, Ops, MainPcs
<1>15. CASE TaskBasicInfo
  BY <1>15
  DEF TaskBasicInfo, TypeOK, KernelTypeOK, TaskTypeOK, MessageInHand,
      CountPositive, Handling, Ops, MainPcs
<1>16. CASE TaskResume
  BY <1>16
  DEF TaskResume, TypeOK, KernelTypeOK, TaskTypeOK, MessageInHand,
      CountPositive, Handling, Ops, MainPcs
<1>17. CASE ReturnFromResume
  BY <1>17
  DEF ReturnFromResume, TypeOK, KernelTypeOK, TaskTypeOK, MessageInHand,
      CountPositive, Handling, Ops, MainPcs
<1>18. CASE EnableSingleStep
  <2>1. KernelTypeOK'
    BY <1>18 DEF EnableSingleStep, TypeOK, KernelTypeOK
  <2>2. TaskTypeOK'
    BY <1>18 DEF EnableSingleStep, TypeOK, TaskTypeOK, Handling
  <2>3. TypeOK'
    BY <1>18, <2>1, <2>2 DEF EnableSingleStep, TypeOK, Ops, MainPcs
  <2>4. MessageInHand' /\ CountPositive'
    BY <1>18 DEF EnableSingleStep, MessageInHand, CountPositive, Handling
  <2> QED  BY <2>3, <2>4
<1>19. CASE SpinTurn
  BY <1>19
  DEF SpinTurn, vars, TypeOK, KernelTypeOK, TaskTypeOK, MessageInHand,
      CountPositive, Handling, Ops, MainPcs
<1>20. CASE SpinEnds
  BY <1>20
  DEF SpinEnds, TypeOK, KernelTypeOK, TaskTypeOK, MessageInHand,
      CountPositive, Handling, Ops, MainPcs
<1>21. CASE SingleStepThrows
  BY <1>21
  DEF SingleStepThrows, TypeOK, KernelTypeOK, TaskTypeOK, MessageInHand,
      CountPositive, Handling, Ops, MainPcs
<1>22. CASE StartExceptionThread
  <2>1. KernelTypeOK'
    BY <1>22 DEF StartExceptionThread, TypeOK, KernelTypeOK
  <2>2. TaskTypeOK'
    BY <1>22 DEF StartExceptionThread, TypeOK, TaskTypeOK, Handling
  <2>3. TypeOK'
    BY <1>22, <2>1, <2>2 DEF StartExceptionThread, TypeOK, Ops, MainPcs
  <2>4. MessageInHand' /\ CountPositive'
    BY <1>22 DEF StartExceptionThread, MessageInHand, CountPositive, Handling
  <2> QED  BY <2>3, <2>4
<1>23. CASE PtraceAttach
  <2>1. KernelTypeOK'
    BY <1>23 DEF PtraceAttach, TypeOK, KernelTypeOK
  <2>2. TaskTypeOK'
    BY <1>23 DEF PtraceAttach, TypeOK, TaskTypeOK, Handling
  <2>3. TypeOK'
    BY <1>23, <2>1, <2>2 DEF PtraceAttach, TypeOK, Ops, MainPcs
  <2>4. MessageInHand' /\ CountPositive'
    BY <1>23 DEF PtraceAttach, MessageInHand, CountPositive, Handling
  <2> QED  BY <2>3, <2>4
<1>24. CASE AttachDone
  BY <1>24
  DEF AttachDone, TypeOK, KernelTypeOK, TaskTypeOK, MessageInHand,
      CountPositive, Handling, Ops, MainPcs
<1>25. CASE RestoreExceptionPortInfo
  <2>1. KernelTypeOK'
    BY <1>25 DEF RestoreExceptionPortInfo, TypeOK, KernelTypeOK
  <2>2. TaskTypeOK'
    BY <1>25 DEF RestoreExceptionPortInfo, TypeOK, TaskTypeOK, Handling
  <2>3. TypeOK'
    BY <1>25, <2>1, <2>2 DEF RestoreExceptionPortInfo, TypeOK, Ops, MainPcs
  <2>4. MessageInHand' /\ CountPositive'
    BY <1>25
    DEF RestoreExceptionPortInfo, MessageInHand, CountPositive, Handling
  <2> QED  BY <2>3, <2>4
<1>26. CASE NullExceptionPort
  <2>1. KernelTypeOK'
    BY <1>26 DEF NullExceptionPort, TypeOK, KernelTypeOK
  <2>2. TaskTypeOK'
    BY <1>26 DEF NullExceptionPort, TypeOK, TaskTypeOK, Handling
  <2>3. TypeOK'
    BY <1>26, <2>1, <2>2 DEF NullExceptionPort, TypeOK, Ops, MainPcs
  <2>4. MessageInHand' /\ CountPositive'
    BY <1>26 DEF NullExceptionPort, MessageInHand, CountPositive, Handling
  <2> QED  BY <2>3, <2>4
<1>27. CASE CancelExceptionThread
  BY <1>27
  DEF CancelExceptionThread, TypeOK, KernelTypeOK, TaskTypeOK,
      MessageInHand, CountPositive, Handling, Ops, MainPcs
<1>28. CASE JoinExceptionThread
  BY <1>28
  DEF JoinExceptionThread, TypeOK, KernelTypeOK, TaskTypeOK, MessageInHand,
      CountPositive, Handling, Ops, MainPcs
<1>29. CASE PtraceDetach
  <2>1. KernelTypeOK'
    BY <1>29 DEF PtraceDetach, TypeOK, KernelTypeOK
  <2>2. TaskTypeOK'
    BY <1>29 DEF PtraceDetach, TypeOK, TaskTypeOK, Handling
  <2>3. TypeOK'
    BY <1>29, <2>1, <2>2 DEF PtraceDetach, TypeOK, Ops, MainPcs
  <2>4. MessageInHand' /\ CountPositive'
    BY <1>29 DEF PtraceDetach, MessageInHand, CountPositive, Handling
  <2> QED  BY <2>3, <2>4
<1>30. CASE Attach
  BY <1>30
  DEF Attach, TypeOK, KernelTypeOK, TaskTypeOK, MessageInHand,
      CountPositive, Handling, Ops, MainPcs
<1>31. CASE Resume
  BY <1>31
  DEF Resume, TypeOK, KernelTypeOK, TaskTypeOK, MessageInHand,
      CountPositive, Handling, Ops, MainPcs
<1>32. CASE Stop
  <2>1. KernelTypeOK'
    BY <1>32 DEF Stop, TypeOK, KernelTypeOK
  <2>2. TaskTypeOK'
    BY <1>32 DEF Stop, TypeOK, TaskTypeOK, Handling
  <2>3. TypeOK'
    BY <1>32, <2>1, <2>2 DEF Stop, TypeOK, Ops, MainPcs
  <2>4. MessageInHand' /\ CountPositive'
    BY <1>32 DEF Stop, MessageInHand, CountPositive, Handling
  <2> QED  BY <2>3, <2>4
<1>33. CASE SingleStep
  BY <1>33
  DEF SingleStep, TypeOK, KernelTypeOK, TaskTypeOK, MessageInHand,
      CountPositive, Handling, Ops, MainPcs
<1>34. CASE Detach
  <2>1. KernelTypeOK'
    BY <1>34 DEF Detach, TypeOK, KernelTypeOK
  <2>2. TaskTypeOK'
    BY <1>34 DEF Detach, TypeOK, TaskTypeOK, Handling
  <2>3. TypeOK'
    BY <1>34, <2>1, <2>2 DEF Detach, TypeOK, Ops, MainPcs
  <2>4. MessageInHand' /\ CountPositive'
    BY <1>34 DEF Detach, MessageInHand, CountPositive, Handling
  <2> QED  BY <2>3, <2>4
<1>35. CASE AttachFails
  BY <1>35
  DEF AttachFails, TypeOK, KernelTypeOK, TaskTypeOK, MessageInHand,
      CountPositive, Handling, Ops, MainPcs
<1>36. CASE VectorRace
  BY <1>36
  DEF VectorRace, TypeOK, KernelTypeOK, TaskTypeOK, MessageInHand,
      CountPositive, Handling, Ops, MainPcs
<1>37. CASE Inferior
  <2>1. KernelTypeOK'
    BY <1>37, KernelTypeStep DEF Inferior, TypeOK
  <2>2. TaskTypeOK'
    BY <1>37 DEF Inferior, TypeOK, TaskTypeOK, Handling
  <2>3. TypeOK'
    BY <1>37, <2>1, <2>2 DEF Inferior, TypeOK, Ops, MainPcs
  <2>4. MessageInHand' /\ CountPositive'
    BY <1>37
    DEF Inferior, KernelNext, StepTrap, BreakTrap, TakeSignal, Exit,
        MessageInHand, CountPositive, Handling
  <2> QED  BY <2>3, <2>4
<1>38. CASE UNCHANGED vars
  BY <1>38
  DEF vars, TypeOK, KernelTypeOK, TaskTypeOK, MessageInHand, CountPositive,
      Handling, Ops, MainPcs
<1>39. CASE ReadPortName /\ UNCHANGED processVars
  <2>1. KernelTypeOK'
    BY <1>39 DEF ReadPortName, TypeOK, KernelTypeOK
  <2>2. TaskTypeOK'
    BY <1>39 DEF ReadPortName, TypeOK, TaskTypeOK, Handling
  <2>3. TypeOK'
    BY <1>39, <2>1, <2>2 DEF ReadPortName, TypeOK, Ops, MainPcs
  <2>4. MessageInHand' /\ CountPositive'
    BY <1>39 DEF ReadPortName, MessageInHand, CountPositive, Handling
  <2> QED  BY <2>3, <2>4
<1>40. CASE TestPortAfterInterrupt /\ UNCHANGED processVars
  <2>1. KernelTypeOK'
    BY <1>40 DEF TestPortAfterInterrupt, TypeOK, KernelTypeOK
  <2>2. TaskTypeOK'
    BY <1>40
    DEF TestPortAfterInterrupt, ExceptionPortIsValid, TypeOK, TaskTypeOK,
        Handling
  <2>3. TypeOK'
    BY <1>40, <2>1, <2>2 DEF TestPortAfterInterrupt, TypeOK, Ops, MainPcs
  <2>4. MessageInHand' /\ CountPositive'
    BY <1>40
    DEF TestPortAfterInterrupt, ExceptionPortIsValid, MessageInHand,
        CountPositive, Handling
  <2> QED  BY <2>3, <2>4
<1>41. CASE TaskIsValid /\ UNCHANGED processVars
  <2>1. KernelTypeOK'
    BY <1>41 DEF TaskIsValid, TypeOK, KernelTypeOK
  <2>2. TaskTypeOK'
    BY <1>41 DEF TaskIsValid, TypeOK, TaskTypeOK, Handling
  <2>3. TypeOK'
    BY <1>41, <2>1, <2>2 DEF TaskIsValid, TypeOK, Ops, MainPcs
  <2>4. MessageInHand' /\ CountPositive'
    BY <1>41 DEF TaskIsValid, MessageInHand, CountPositive, Handling
  <2> QED  BY <2>3, <2>4
<1>42. CASE AttachThrows
  <2>1. KernelTypeOK'
    <3>1. queue' \in Seq(Threads)
      BY <1>42, EmptySeq DEF AttachThrows, TypeOK, KernelTypeOK
    <3>2. routed' \in BOOLEAN
      BY <1>42, Zenon DEF AttachThrows, TypeOK, KernelTypeOK
    <3> QED  BY <1>42, <3>1, <3>2 DEF AttachThrows, TypeOK, KernelTypeOK
  <2>2. TaskTypeOK'
    BY <1>42 DEF AttachThrows, TypeOK, TaskTypeOK, Handling
  <2>3. TypeOK'
    BY <1>42, <2>1, <2>2 DEF AttachThrows, TypeOK, Ops, MainPcs
  <2>4. MessageInHand' /\ CountPositive'
    BY <1>42 DEF AttachThrows, MessageInHand, CountPositive, Handling
  <2> QED  BY <2>3, <2>4
<1> QED
  BY <1>1, <1>2, <1>3, <1>4, <1>5, <1>6, <1>7, <1>8, <1>9, <1>10, <1>11, <1>12,
     <1>13, <1>14, <1>15, <1>16, <1>17, <1>18, <1>19, <1>20, <1>21, <1>22,
     <1>23, <1>24, <1>25, <1>26, <1>27, <1>28, <1>29, <1>30, <1>31, <1>32,
     <1>33, <1>34, <1>35, <1>36, <1>37, <1>38, <1>39, <1>40, <1>41, <1>42
  DEF Next, ExceptionThread, MainThread, Client, Mishap, Terminated

\* Every step keeps the two program counters, op and m_status in step.
LEMMA ControlStep ==
  ASSUME TypeInv, ControlInv, [Next]_vars
  PROVE  ControlInv'
<1> USE
    DEF TypeInv, ControlInv, OpMatches, StatusMatches, ThreadGone, NoSession,
        ClientCall, DetachCall, TaskResumeCall, Handling, kernelVars, taskVars,
        processVars, excFrame, mainFrame, Goto, Call, Abort
<1>1. CASE LoopTest /\ UNCHANGED processVars
  BY <1>1 DEF LoopTest, ExceptionPortIsValid
<1>2. CASE EnterReceive /\ UNCHANGED processVars
  BY <1>2 DEF EnterReceive
<1>3. CASE ReceiveSuccess /\ UNCHANGED processVars
  BY <1>3 DEF ReceiveSuccess
<1>4. CASE ReceiveTimedOut /\ UNCHANGED processVars
  BY <1>4 DEF ReceiveTimedOut
<1>5. CASE ReceiveInterrupted /\ UNCHANGED processVars
  BY <1>5 DEF ReceiveInterrupted, ExceptionPortIsValid
<1>6. CASE CancelledInWrite /\ UNCHANGED processVars
  BY <1>6 DEF CancelledInWrite
<1>7. CASE SuspendIfFirst
  BY <1>7 DEF SuspendIfFirst
<1>8. CASE TestSingleStep
  BY <1>8 DEF TestSingleStep
<1>9. CASE DisableSingleStep
  BY <1>9 DEF DisableSingleStep
<1>10. CASE StepDone
  BY <1>10 DEF StepDone
<1>11. CASE PushMessage
  BY <1>11 DEF PushMessage
<1>12. CASE ReplyCheck
  BY <1>12 DEF ReplyCheck
<1>13. CASE ReplyOne
  BY <1>13 DEF ReplyOne
<1>14. CASE ReplyClear
  BY <1>14 DEF ReplyClear
<1>15. CASE TaskBasicInfo
  BY <1>15 DEF TaskBasicInfo
<1>16. CASE TaskResume
  BY <1>16 DEF TaskResume
<1>17. CASE ReturnFromResume
  BY <1>17 DEF ReturnFromResume
<1>18. CASE EnableSingleStep
  BY <1>18 DEF EnableSingleStep
<1>19. CASE SpinTurn
  BY <1>19 DEF SpinTurn, vars
<1>20. CASE SpinEnds
  BY <1>20 DEF SpinEnds
<1>21. CASE SingleStepThrows
  BY <1>21 DEF SingleStepThrows
<1>22. CASE StartExceptionThread
  BY <1>22 DEF StartExceptionThread
<1>23. CASE PtraceAttach
  BY <1>23 DEF PtraceAttach
<1>24. CASE AttachDone
  BY <1>24 DEF AttachDone
<1>25. CASE RestoreExceptionPortInfo
  BY <1>25 DEF RestoreExceptionPortInfo
<1>26. CASE NullExceptionPort
  BY <1>26 DEF NullExceptionPort
<1>27. CASE CancelExceptionThread
  BY <1>27 DEF CancelExceptionThread
<1>28. CASE JoinExceptionThread
  BY <1>28 DEF JoinExceptionThread
<1>29. CASE PtraceDetach
  BY <1>29 DEF PtraceDetach
<1>30. CASE Attach
  BY <1>30 DEF Attach
<1>31. CASE Resume
  BY <1>31 DEF Resume
<1>32. CASE Stop
  BY <1>32 DEF Stop
<1>33. CASE SingleStep
  BY <1>33 DEF SingleStep
<1>34. CASE Detach
  BY <1>34 DEF Detach
<1>35. CASE AttachFails
  BY <1>35 DEF AttachFails
<1>36. CASE VectorRace
  BY <1>36 DEF VectorRace
<1>37. CASE Inferior
  BY <1>37 DEF Inferior, KernelNext, StepTrap, BreakTrap, TakeSignal, Exit
<1>38. CASE UNCHANGED vars
  BY <1>38 DEF vars
<1>39. CASE ReadPortName /\ UNCHANGED processVars
  BY <1>39 DEF ReadPortName
<1>40. CASE TestPortAfterInterrupt /\ UNCHANGED processVars
  BY <1>40 DEF TestPortAfterInterrupt, ExceptionPortIsValid
<1>41. CASE TaskIsValid /\ UNCHANGED processVars
  BY <1>41 DEF TaskIsValid
<1>42. CASE AttachThrows
  BY <1>42 DEF AttachThrows
<1> QED
  BY <1>1, <1>2, <1>3, <1>4, <1>5, <1>6, <1>7, <1>8, <1>9, <1>10, <1>11, <1>12,
     <1>13, <1>14, <1>15, <1>16, <1>17, <1>18, <1>19, <1>20, <1>21, <1>22,
     <1>23, <1>24, <1>25, <1>26, <1>27, <1>28, <1>29, <1>30, <1>31, <1>32,
     <1>33, <1>34, <1>35, <1>36, <1>37, <1>38, <1>39, <1>40, <1>41, <1>42
  DEF Next, ExceptionThread, MainThread, Client, Mishap, Terminated

\* Every step keeps the account of suspends: the test for an empty vector
\* and clear() are what it rests on.
LEMMA CountStep ==
  ASSUME TypeInv, ControlInv, CountInv, [Next]_vars
  PROVE  CountInv'
<1> USE
    DEF TypeInv, TypeOK, KernelTypeOK, ControlInv, OpMatches, StatusMatches,
        ThreadGone, NoSession, CountInv, SuspendAccounted, CountZero,
        CountPositive, Holding, ResumeDue, ClientCall, DetachCall,
        TaskResumeCall, Handling, kernelVars, taskVars, processVars, excFrame,
        mainFrame, Goto, Call, Abort
<1>1. CASE LoopTest /\ UNCHANGED processVars
  BY <1>1 DEF LoopTest, ExceptionPortIsValid
<1>2. CASE EnterReceive /\ UNCHANGED processVars
  BY <1>2 DEF EnterReceive
<1>3. CASE ReceiveSuccess /\ UNCHANGED processVars
  BY <1>3 DEF ReceiveSuccess
<1>4. CASE ReceiveTimedOut /\ UNCHANGED processVars
  BY <1>4 DEF ReceiveTimedOut
<1>5. CASE ReceiveInterrupted /\ UNCHANGED processVars
  BY <1>5 DEF ReceiveInterrupted, ExceptionPortIsValid
<1>6. CASE CancelledInWrite /\ UNCHANGED processVars
  BY <1>6 DEF CancelledInWrite
<1>7. CASE SuspendIfFirst
  BY <1>7 DEF SuspendIfFirst
<1>8. CASE TestSingleStep
  BY <1>8 DEF TestSingleStep
<1>9. CASE DisableSingleStep
  BY <1>9 DEF DisableSingleStep
<1>10. CASE StepDone
  BY <1>10 DEF StepDone
<1>11. CASE PushMessage
  BY <1>11 DEF PushMessage
<1>12. CASE ReplyCheck
  BY <1>12 DEF ReplyCheck
<1>13. CASE ReplyOne
  BY <1>13 DEF ReplyOne
<1>14. CASE ReplyClear
  BY <1>14 DEF ReplyClear
<1>15. CASE TaskBasicInfo
  BY <1>15 DEF TaskBasicInfo
<1>16. CASE TaskResume
  BY <1>16 DEF TaskResume
<1>17. CASE ReturnFromResume
  BY <1>17 DEF ReturnFromResume
<1>18. CASE EnableSingleStep
  BY <1>18 DEF EnableSingleStep
<1>19. CASE SpinTurn
  BY <1>19 DEF SpinTurn, vars
<1>20. CASE SpinEnds
  BY <1>20 DEF SpinEnds
<1>21. CASE SingleStepThrows
  BY <1>21 DEF SingleStepThrows
<1>22. CASE StartExceptionThread
  BY <1>22 DEF StartExceptionThread
<1>23. CASE PtraceAttach
  BY <1>23 DEF PtraceAttach
<1>24. CASE AttachDone
  BY <1>24 DEF AttachDone
<1>25. CASE RestoreExceptionPortInfo
  BY <1>25 DEF RestoreExceptionPortInfo
<1>26. CASE NullExceptionPort
  BY <1>26 DEF NullExceptionPort
<1>27. CASE CancelExceptionThread
  BY <1>27 DEF CancelExceptionThread
<1>28. CASE JoinExceptionThread
  BY <1>28 DEF JoinExceptionThread
<1>29. CASE PtraceDetach
  BY <1>29 DEF PtraceDetach
<1>30. CASE Attach
  BY <1>30 DEF Attach
<1>31. CASE Resume
  BY <1>31 DEF Resume
<1>32. CASE Stop
  BY <1>32 DEF Stop
<1>33. CASE SingleStep
  BY <1>33 DEF SingleStep
<1>34. CASE Detach
  BY <1>34 DEF Detach
<1>35. CASE AttachFails
  BY <1>35 DEF AttachFails
<1>36. CASE VectorRace
  BY <1>36 DEF VectorRace
<1>37. CASE Inferior
  BY <1>37 DEF Inferior, KernelNext, StepTrap, BreakTrap, TakeSignal, Exit
<1>38. CASE UNCHANGED vars
  BY <1>38 DEF vars
<1>39. CASE ReadPortName /\ UNCHANGED processVars
  BY <1>39 DEF ReadPortName
<1>40. CASE TestPortAfterInterrupt /\ UNCHANGED processVars
  BY <1>40 DEF TestPortAfterInterrupt, ExceptionPortIsValid
<1>41. CASE TaskIsValid /\ UNCHANGED processVars
  BY <1>41 DEF TaskIsValid
<1>42. CASE AttachThrows
  BY <1>42 DEF AttachThrows
<1> QED
  BY <1>1, <1>2, <1>3, <1>4, <1>5, <1>6, <1>7, <1>8, <1>9, <1>10, <1>11, <1>12,
     <1>13, <1>14, <1>15, <1>16, <1>17, <1>18, <1>19, <1>20, <1>21, <1>22,
     <1>23, <1>24, <1>25, <1>26, <1>27, <1>28, <1>29, <1>30, <1>31, <1>32,
     <1>33, <1>34, <1>35, <1>36, <1>37, <1>38, <1>39, <1>40, <1>41, <1>42
  DEF Next, ExceptionThread, MainThread, Client, Mishap, Terminated

\* Every step keeps it so that a thread with a message on its way has one
\* message and awaits one reply.
LEMMA ReplyStep ==
  ASSUME TypeInv, ControlInv, ReplyInv, [Next]_vars
  PROVE  ReplyInv'
<1> USE
    DEF TypeInv, TypeOK, KernelTypeOK, TaskTypeOK, MessageInHand, ReplyInv,
        Cursor, Awaiting, OneMessage, Live, Handling, kernelVars, taskVars,
        processVars, excFrame, mainFrame, Goto, Call, Abort
<1>1. CASE LoopTest /\ UNCHANGED processVars
  BY <1>1 DEF LoopTest, ExceptionPortIsValid
<1>2. CASE EnterReceive /\ UNCHANGED processVars
  BY <1>2 DEF EnterReceive
<1>3. CASE ReceiveSuccess /\ UNCHANGED processVars
  BY <1>3 DEF ReceiveSuccess
<1>4. CASE ReceiveTimedOut /\ UNCHANGED processVars
  BY <1>4 DEF ReceiveTimedOut
<1>5. CASE ReceiveInterrupted /\ UNCHANGED processVars
  BY <1>5 DEF ReceiveInterrupted, ExceptionPortIsValid
<1>6. CASE CancelledInWrite /\ UNCHANGED processVars
  BY <1>6 DEF CancelledInWrite
<1>7. CASE SuspendIfFirst
  BY <1>7 DEF SuspendIfFirst
<1>8. CASE TestSingleStep
  BY <1>8 DEF TestSingleStep
<1>9. CASE DisableSingleStep
  BY <1>9 DEF DisableSingleStep
<1>10. CASE StepDone
  BY <1>10 DEF StepDone
<1>11. CASE PushMessage
  BY <1>11 DEF PushMessage
<1>12. CASE ReplyCheck
  BY <1>12 DEF ReplyCheck
<1>13. CASE ReplyOne
  BY <1>13 DEF ReplyOne
<1>14. CASE ReplyClear
  BY <1>14 DEF ReplyClear
<1>15. CASE TaskBasicInfo
  BY <1>15 DEF TaskBasicInfo
<1>16. CASE TaskResume
  BY <1>16 DEF TaskResume
<1>17. CASE ReturnFromResume
  BY <1>17 DEF ReturnFromResume
<1>18. CASE EnableSingleStep
  BY <1>18 DEF EnableSingleStep
<1>19. CASE SpinTurn
  BY <1>19 DEF SpinTurn, vars
<1>20. CASE SpinEnds
  BY <1>20 DEF SpinEnds
<1>21. CASE SingleStepThrows
  BY <1>21 DEF SingleStepThrows
<1>22. CASE StartExceptionThread
  BY <1>22 DEF StartExceptionThread
<1>23. CASE PtraceAttach
  BY <1>23 DEF PtraceAttach
<1>24. CASE AttachDone
  BY <1>24 DEF AttachDone
<1>25. CASE RestoreExceptionPortInfo
  BY <1>25 DEF RestoreExceptionPortInfo
<1>26. CASE NullExceptionPort
  BY <1>26 DEF NullExceptionPort
<1>27. CASE CancelExceptionThread
  BY <1>27 DEF CancelExceptionThread
<1>28. CASE JoinExceptionThread
  BY <1>28 DEF JoinExceptionThread
<1>29. CASE PtraceDetach
  BY <1>29 DEF PtraceDetach
<1>30. CASE Attach
  BY <1>30 DEF Attach
<1>31. CASE Resume
  BY <1>31 DEF Resume
<1>32. CASE Stop
  BY <1>32 DEF Stop
<1>33. CASE SingleStep
  BY <1>33 DEF SingleStep
<1>34. CASE Detach
  BY <1>34 DEF Detach
<1>35. CASE AttachFails
  BY <1>35 DEF AttachFails
<1>36. CASE VectorRace
  BY <1>36 DEF VectorRace
<1>37. CASE Inferior
  <2>1. UNCHANGED <<taskVars, processVars>>
    BY <1>37 DEF Inferior
  <2>2. ASSUME NEW t \in Threads, thread[t] = "run", Raise(t)
        PROVE  ReplyInv'
    <3>1. /\ Len(queue') = Len(queue) + 1
          /\ queue'[Len(queue) + 1] = t
          /\ \A i \in 1..Len(queue) : queue'[i] = queue[i]
      BY <2>2 DEF Raise
    <3>2. /\ thread'[t] = "raised"
          /\ \A u \in Threads : u # t => thread'[u] = thread[u]
      BY <2>2 DEF Raise
    <3>3. Cursor'
      BY <2>1
    <3>4. Awaiting'
      BY <2>1, <3>1, <3>2
    <3>5. /\ \A i \in Live : m_exception_messages[i] # t
          /\ \A i \in 1..Len(queue) : queue[i] # t
          /\ excPc \in Handling => message # t
      BY <2>2
    <3>6. OneMessage'
      <4>1. \A i, j \in 1..Len(queue)' : queue'[i] = queue'[j] => i = j
        BY <3>1, <3>5
      <4>2. \A i \in Live, j \in 1..Len(queue)' :
              m_exception_messages[i] # queue'[j]
        BY <3>1, <3>5
      <4>3. excPc \in Handling => \A i \in 1..Len(queue)' : queue'[i] # message
        BY <3>1, <3>5
      <4> QED  BY <2>1, <4>1, <4>2, <4>3
    <3> QED  BY <3>3, <3>4, <3>6
  <2>3. CASE UNCHANGED <<thread, queue>>
    BY <2>1, <2>3
  <2> QED
    BY <1>37, <2>2, <2>3
    DEF Inferior, KernelNext, StepTrap, BreakTrap, TakeSignal, Exit, Runs
<1>38. CASE UNCHANGED vars
  BY <1>38 DEF vars
<1>39. CASE ReadPortName /\ UNCHANGED processVars
  BY <1>39 DEF ReadPortName
<1>40. CASE TestPortAfterInterrupt /\ UNCHANGED processVars
  BY <1>40 DEF TestPortAfterInterrupt, ExceptionPortIsValid
<1>41. CASE TaskIsValid /\ UNCHANGED processVars
  BY <1>41 DEF TaskIsValid
<1>42. CASE AttachThrows
  <2>1. /\ queue' = <<>> \/ UNCHANGED queue
        /\ mainPc \in {"start", "ptrace"} /\ mainPc' = "thrown"
        /\ UNCHANGED <<thread, excPc, message, m_exception_messages, pos, end>>
    BY <1>42 DEF AttachThrows
  <2>2. CASE queue' = <<>>
    BY <2>1, <2>2
  <2>3. CASE UNCHANGED queue
    BY <2>1, <2>3
  <2> QED  BY <2>1, <2>2, <2>3
<1> QED
  BY <1>1, <1>2, <1>3, <1>4, <1>5, <1>6, <1>7, <1>8, <1>9, <1>10, <1>11, <1>12,
     <1>13, <1>14, <1>15, <1>16, <1>17, <1>18, <1>19, <1>20, <1>21, <1>22,
     <1>23, <1>24, <1>25, <1>26, <1>27, <1>28, <1>29, <1>30, <1>31, <1>32,
     <1>33, <1>34, <1>35, <1>36, <1>37, <1>38, <1>39, <1>40, <1>41, <1>42
  DEF Next, ExceptionThread, MainThread, Client, Mishap, Terminated

-----------------------------------------------------------------------------
(* The theorems. *)

\* The invariant holds in every reachable state of MachProcess.
LEMMA Invariance == Spec => []IInv
<1>1. Init => IInv
  BY TypeInit, ControlInit, ReplyInit DEF IInv
<1>2. IInv /\ [Next]_vars => IInv'
  BY TypeStep, ControlStep, CountStep, ReplyStep DEF IInv
<1> QED  BY <1>1, <1>2, PTL DEF Spec

\* Every variable of the debugger keeps its type; in particular the
\* task_resume of MachTask::Resume never takes the suspend count below zero.
THEOREM TypeCorrect == Spec => []TypeOK
<1>1. IInv => TypeOK
  BY DEF IInv, TypeInv
<1> QED  BY <1>1, Invariance, PTL

\* However ExceptionMessageReceived interleaves with Resume and Detach, the
\* task is suspended at most once per set of messages held, and once more
\* between clear() and task_resume.
THEOREM SuspendsBalance == Spec => []SuspendAccounted
<1>1. IInv => SuspendAccounted
  BY DEF IInv, CountInv
<1> QED  BY <1>1, Invariance, PTL

\* The single task_resume of Detach always leaves the task unsuspended.
THEOREM DetachResumes == Spec => []DetachUnsuspended
<1>1. IInv => DetachUnsuspended
  BY DEF IInv, CountInv, CountZero, DetachUnsuspended
<1> QED  BY <1>1, Invariance, PTL

\* ReplyToAllExceptions never replies to a thread that awaits no reply, for
\* any number of threads.
THEOREM NoDoubleReply == Spec => []ReplyAwaited
<1>1. IInv => ReplyAwaited
  BY DEF IInv, TypeInv, TypeOK, ReplyInv, Cursor, Awaiting, Live, ReplyAwaited
<1> QED  BY <1>1, Invariance, PTL

=============================================================================
