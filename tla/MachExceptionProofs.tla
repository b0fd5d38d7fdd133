------------------------ MODULE MachExceptionProofs ------------------------
(***************************************************************************)
(* The debugger follows its process through any number of execs, whatever  *)
(* the threads, a forked child and the two debugger threads do meanwhile.  *)
(***************************************************************************)
EXTENDS MachException, SequenceTheorems, TLAPS

-----------------------------------------------------------------------------
(* The inductive invariant, in parts. *)

\* Nobody is from an image that is not there yet ...
FromPast(s) == s[1] = Child \/ s[1] \in 1..image
\* ... nor, before the first exception of an image, from that one.
NotCurrent(s) == s[1] # image

Handling == {"catch", "suspend", "push"}

\* Every message on its way or held, up to the end of the vector.
AllFrom(P(_)) ==
  /\ \A i \in 1..Len(queue) : P(queue[i].from)
  /\ excPc \in Handling => P(message.from)
  /\ \A i \in 1..Len(m_exception_messages) : P(m_exception_messages[i].from)

SenderInv ==
  /\ AllFrom(FromPast)
  /\ execTrap => AllFrom(NotCurrent)

\* An exec's SIGTRAP on its way to the exception thread: its sender is the
\* only thread of the image and waits, so that nothing else comes from the
\* image and it does not exec again.
Waits(s) == s[1] = image /\ s \in blocked /\ live = {s[2]}

TrapQueued(i) ==
  /\ Waits(queue[i].from)
  /\ \A j \in 1..Len(queue) : j # i => NotCurrent(queue[j].from)
  /\ excPc \in Handling => NotCurrent(message.from)
  /\ \A j \in 1..Len(m_exception_messages) :
       NotCurrent(m_exception_messages[j].from)

TrapReceived ==
  /\ Waits(message.from)
  /\ message.task_port = image /\ message.thread_port # NoThread
  /\ \A j \in 1..Len(queue) : NotCurrent(queue[j].from)
  /\ \A j \in 1..Len(m_exception_messages) :
       NotCurrent(m_exception_messages[j].from)

TrapInv ==
  /\ \A i \in 1..Len(queue) : queue[i].kind = "sigtrap" => TrapQueued(i)
  /\ excPc = "catch" /\ Trapped(message) => TrapReceived
  /\ execTrap => \E t \in Threads : live = {t}

\* The task port in the debugger's hands: the image's, or an older one until
\* the SIGTRAP has been handled.
TaskInv ==
  /\ m_task = task /\ task \in 1..image
  /\ TaskFollowed
  /\ execTrap => task # image
  /\ \A i \in 1..Len(queue) : queue[i].kind = "sigtrap" => task # image
  /\ excPc = "catch" /\ Trapped(message) => task # image

CountInv ==
  /\ SuspendAccounted
  /\ \A i \in Images : i > image => suspend_count[i] = 0

\* The loop of ReplyToAllExceptions stays within the vector.
LoopInv == pos >= 1 /\ end <= Len(m_exception_messages)

IInv == TypeOK /\ SenderInv /\ TrapInv /\ TaskInv /\ CountInv /\ LoopInv

-----------------------------------------------------------------------------
\* The message that mach_msg delivers is well typed and keeps its sender.
LEMMA Received ==
  ASSUME TypeOK, Receive
  PROVE  /\ message' \in Message
         /\ message'.from = queue[1].from
         /\ message'.exc_type = queue[1].kind
         /\ IsValid(queue[1].from[1]) =>
              /\ message'.task_port = queue[1].from[1]
              /\ message'.thread_port = queue[1].from[2]
         /\ Len(queue) > 0 /\ Len(queue') = Len(queue) - 1
         /\ \A i \in 1..Len(queue') : queue'[i] = queue[i + 1]
<1> DEFINE m == queue[1]
           t == m.from[1]
<1>1. m \in Raised /\ Head(queue) = m
  BY DEF TypeOK, Receive
<1>2. /\ m.from \in Senders /\ m.kind \in Kinds
      /\ t \in Tasks /\ m.from[2] \in Threads \cup {Child}
  BY <1>1 DEF Raised, Senders, Tasks
<1>3. message' = [from |-> m.from,
                  task_port |-> IF IsValid(t) THEN t ELSE DeadPort,
                  thread_port |-> IF IsValid(t) THEN m.from[2] ELSE DeadPort,
                  exc_type |-> m.kind]
  BY <1>1 DEF Receive
<1>4. /\ Len(queue) > 0 /\ Len(queue') = Len(queue) - 1
      /\ \A i \in 1..Len(queue') : queue'[i] = queue[i + 1]
  BY DEF TypeOK, Receive
<1> QED  BY <1>2, <1>3, <1>4 DEF Message

\* What catch_mach_exception_raise makes of a message, kept or refused.
LEMMA Caught ==
  ASSUME TypeOK, CatchExceptionRaise
  PROVE  /\ message' \in Message
         /\ message'.from = message.from
         /\ \/ message' = message
            \/ ~DataIsValid(message')
         /\ message'.task_port # task /\ DataIsValid(message') =>
              /\ ~IsValid(task) /\ Trapped(message)
              /\ message' = message
<1>1. message \in Message /\ task \in Tasks
  BY DEF TypeOK
<1>2. CASE message' = message
  BY <1>1, <1>2 DEF CatchExceptionRaise, catch_mach_exception_raise, Trapped
<1>3. CASE message' = [message EXCEPT !.task_port = task,
                                      !.thread_port = NoThread,
                                      !.exc_type = "none"]
  BY <1>1, <1>3 DEF Message, DataIsValid
<1> QED
  BY <1>2, <1>3 DEF CatchExceptionRaise, catch_mach_exception_raise

\* push_back
LEMMA Pushed ==
  ASSUME TypeOK, PushMessage
  PROVE  /\ Len(m_exception_messages') = Len(m_exception_messages) + 1
         /\ \A i \in 1..Len(m_exception_messages) :
              m_exception_messages'[i] = m_exception_messages[i]
         /\ m_exception_messages'[Len(m_exception_messages) + 1] = message
BY DEF TypeOK, PushMessage

\* An exception puts one message behind those on the port.
LEMMA Sent ==
  ASSUME TypeOK, NEW s \in Senders, NEW k \in Kinds, Raise(s, k)
  PROVE  /\ blocked' = blocked \cup {s}
         /\ queue' \in Seq(Raised)
         /\ Len(queue') = Len(queue) + 1
         /\ \A i \in 1..Len(queue) : queue'[i] = queue[i]
         /\ queue'[Len(queue) + 1].from = s
         /\ queue'[Len(queue) + 1].kind = k
<1> DEFINE m == [from |-> s, kind |-> k]
<1>1. m \in Raised
  BY DEF Raised
<1> QED  BY <1>1 DEF TypeOK, Raise

\* The threads of the image send from it, the child from its own task.
LEMMA SenderTypes ==
  /\ \A i \in Images, t \in Threads : <<i, t>> \in Senders
  /\ <<Child, Child>> \in Senders
BY DEF Senders

\* Every step keeps the types; the task port of a message that is taken over
\* is not a dead name.
LEMMA TypeStep ==
  ASSUME IInv, [Next]_vars
  PROVE  TypeOK'
<1> USE ExecAssumption
    DEF IInv, TypeOK, kernelVars, excVars, mainVars, mainFrame, Goto, Abort,
        Runs
<1>1. CASE Receive
  BY <1>1, Received DEF Receive
<1>2. CASE CatchExceptionRaise
  BY <1>2, Caught
  DEF CatchExceptionRaise, TaskPortChanged, TrapInv, TrapReceived, TaskInv,
      Tasks, Images
<1>3. CASE Suspend
  BY <1>3 DEF Suspend
<1>4. CASE PushMessage
  BY <1>4 DEF PushMessage, NoMessage, Message, Senders
<1>5. CASE ReceiveTimedOut
  BY <1>5 DEF ReceiveTimedOut
<1>6. CASE ReceiveInterrupted
  BY <1>6 DEF ReceiveInterrupted
<1>7. CASE ReplyToAllExceptions
  BY <1>7 DEF ReplyToAllExceptions
<1>8. CASE ReplyOne
  BY <1>8 DEF ReplyOne
<1>9. CASE ReplyClear
  BY <1>9 DEF ReplyClear
<1>10. CASE TaskResume
  BY <1>10 DEF TaskResume
<1>11. CASE VectorRace
  BY <1>11 DEF VectorRace
<1>12. CASE Resume
  BY <1>12 DEF Resume
<1>13. CASE Stop
  BY <1>13 DEF Stop
<1>14. CASE Inferior
  <2> UNCHANGED <<excVars, mainVars, m_exception_messages>>
    BY <1>14 DEF Inferior
  <2>1. ASSUME NEW t \in Threads, TakeExecTrap(t)
        PROVE  TypeOK'
    <3>1. blocked' = blocked \cup {<<image, t>>} /\ queue' \in Seq(Raised)
      BY <2>1, Sent, SenderTypes DEF TakeExecTrap, Kinds
    <3>2. <<image, t>> \in Senders
      BY SenderTypes
    <3> QED  BY <2>1, <3>1, <3>2 DEF TakeExecTrap
  <2>2. ASSUME NEW t \in Threads, TakeSignal(t)
        PROVE  TypeOK'
    <3>1. blocked' = blocked \cup {<<image, t>>} /\ queue' \in Seq(Raised)
      BY <2>2, Sent, SenderTypes DEF TakeSignal, Kinds
    <3>2. <<image, t>> \in Senders
      BY SenderTypes
    <3> QED  BY <2>2, <3>1, <3>2 DEF TakeSignal
  <2>3. ASSUME NEW t \in Threads, BreakTrap(t)
        PROVE  TypeOK'
    BY <2>3, Sent, SenderTypes DEF BreakTrap, Kinds
  <2>4. ASSUME NEW t \in Threads, StartThread(t)
        PROVE  TypeOK'
    BY <2>4 DEF StartThread
  <2>5. ASSUME NEW t \in Threads, Exec(t)
        PROVE  TypeOK'
    BY <2>5 DEF Exec, Images, Senders
  <2>6. ASSUME NEW t \in Threads, Fork(t)
        PROVE  TypeOK'
    BY <2>6 DEF Fork
  <2>7. CASE ChildTrap
    BY <2>7, Sent, SenderTypes DEF ChildTrap, Kinds
  <2> QED  BY <1>14, <2>1, <2>2, <2>3, <2>4, <2>5, <2>6, <2>7 DEF Inferior
<1>15. CASE UNCHANGED vars
  BY <1>15 DEF vars
<1>16. CASE TaskIsValid
  BY <1>16 DEF TaskIsValid
<1> QED
  BY <1>1, <1>2, <1>3, <1>4, <1>5, <1>6, <1>7, <1>8, <1>9, <1>10, <1>11,
     <1>12, <1>13, <1>14, <1>15, <1>16
  DEF Next, ExceptionThread, MainThread, Ended

\* An exception of a thread that is there adds no message from elsewhere.
LEMMA SenderRaise ==
  ASSUME IInv, NEW s \in Senders, NEW k \in Kinds, Raise(s, k), FromPast(s),
         execTrap' => execTrap /\ NotCurrent(s),
         UNCHANGED <<image, excPc, message, m_exception_messages>>
  PROVE  SenderInv'
<1>1. TypeOK /\ SenderInv
  BY DEF IInv
<1>2. Len(queue) \in Nat
  BY <1>1 DEF TypeOK
<1>3. /\ Len(queue') = Len(queue) + 1
      /\ \A i \in 1..Len(queue) : queue'[i] = queue[i]
      /\ queue'[Len(queue) + 1].from = s
  BY <1>1, Sent
<1>4. ASSUME NEW i \in 1..Len(queue')
      PROVE  i \in 1..Len(queue) \/ i = Len(queue) + 1
  BY <1>2, <1>3
<1>5. AllFrom(FromPast)'
  BY <1>1, <1>3, <1>4 DEF SenderInv, AllFrom, FromPast
<1>6. execTrap' => AllFrom(NotCurrent)'
  BY <1>1, <1>3, <1>4 DEF SenderInv, AllFrom, NotCurrent
<1> QED  BY <1>5, <1>6 DEF SenderInv

\* Messages come from images that are, or were, there.
LEMMA SenderStep ==
  ASSUME IInv, [Next]_vars
  PROVE  SenderInv'
<1> USE ExecAssumption
    DEF IInv, TypeOK, SenderInv, AllFrom, FromPast, NotCurrent, Handling,
        Images, kernelVars, excVars, mainVars, mainFrame, Goto, Abort, Runs
<1>1. CASE Receive
  <2>1. /\ message'.from = queue[1].from
        /\ Len(queue) \in Nat /\ Len(queue) > 0
        /\ Len(queue') = Len(queue) - 1
        /\ \A i \in 1..Len(queue') : queue'[i] = queue[i + 1]
    BY <1>1, Received
  <2>2. UNCHANGED <<image, execTrap, m_exception_messages>>
    BY <1>1 DEF Receive
  <2>3. 1 \in 1..Len(queue) /\ \A i \in 1..Len(queue') : i + 1 \in 1..Len(queue)
    BY <2>1
  <2> QED  BY <2>1, <2>2, <2>3
<1>2. CASE CatchExceptionRaise
  BY <1>2, Caught DEF CatchExceptionRaise
<1>3. CASE Suspend
  BY <1>3 DEF Suspend
<1>4. CASE PushMessage
  BY <1>4, Pushed DEF PushMessage
<1>5. CASE ReceiveTimedOut
  BY <1>5 DEF ReceiveTimedOut
<1>6. CASE ReceiveInterrupted
  BY <1>6 DEF ReceiveInterrupted
<1>7. CASE ReplyToAllExceptions
  BY <1>7 DEF ReplyToAllExceptions
<1>8. CASE ReplyOne
  BY <1>8 DEF ReplyOne
<1>9. CASE ReplyClear
  BY <1>9 DEF ReplyClear
<1>10. CASE TaskResume
  BY <1>10 DEF TaskResume
<1>11. CASE VectorRace
  BY <1>11 DEF VectorRace
<1>12. CASE Resume
  BY <1>12 DEF Resume
<1>13. CASE Stop
  BY <1>13 DEF Stop
<1>14. CASE Inferior
  <2> UNCHANGED <<excVars, mainVars, m_exception_messages>>
    BY <1>14 DEF Inferior
  <2>1. ASSUME NEW t \in Threads, TakeExecTrap(t)
        PROVE  SenderInv'
    <3>1. /\ Raise(<<image, t>>, "sigtrap")
          /\ image' = image /\ ~execTrap'
      BY <2>1 DEF TakeExecTrap
    <3>2. <<image, t>> \in Senders /\ FromPast(<<image, t>>)
      BY SenderTypes
    <3> QED  BY <3>1, <3>2, SenderRaise DEF Kinds
  <2>2. ASSUME NEW t \in Threads, TakeSignal(t)
        PROVE  SenderInv'
    <3>1. /\ Raise(<<image, t>>, "sigstop")
          /\ image' = image /\ ~execTrap'
      BY <2>2 DEF TakeSignal
    <3>2. <<image, t>> \in Senders /\ FromPast(<<image, t>>)
      BY SenderTypes
    <3> QED  BY <3>1, <3>2, SenderRaise DEF Kinds
  <2>3. ASSUME NEW t \in Threads, BreakTrap(t)
        PROVE  SenderInv'
    <3>1. /\ Raise(<<image, t>>, "break")
          /\ image' = image /\ ~execTrap'
      BY <2>3 DEF BreakTrap
    <3>2. <<image, t>> \in Senders /\ FromPast(<<image, t>>)
      BY SenderTypes
    <3> QED  BY <3>1, <3>2, SenderRaise DEF Kinds
  <2>4. ASSUME NEW t \in Threads, StartThread(t)
        PROVE  SenderInv'
    BY <2>4 DEF StartThread
  <2>5. ASSUME NEW t \in Threads, Exec(t)
        PROVE  SenderInv'
    <3>1. /\ image \in Nat /\ image' = image + 1 /\ Child # image'
          /\ UNCHANGED <<queue, excPc, message, m_exception_messages>>
      BY <2>5 DEF Exec
    <3>2. ASSUME NEW s, FromPast(s)
          PROVE  FromPast(s)' /\ NotCurrent(s)'
      BY <3>1, <3>2
    <3>3. AllFrom(FromPast)' /\ AllFrom(NotCurrent)'
      BY <3>1, <3>2
    <3> QED  BY <3>3
  <2>6. ASSUME NEW t \in Threads, Fork(t)
        PROVE  SenderInv'
    BY <2>6 DEF Fork
  <2>7. CASE ChildTrap
    <3>1. Raise(<<Child, Child>>, "break") /\ image' = image
      BY <2>7 DEF ChildTrap
    <3>2. /\ <<Child, Child>> \in Senders /\ FromPast(<<Child, Child>>)
          /\ NotCurrent(<<Child, Child>>)
      BY SenderTypes
    <3>3. execTrap' => execTrap
      BY <2>7 DEF ChildTrap
    <3> QED  BY <3>1, <3>2, <3>3, SenderRaise DEF Kinds
  <2> QED  BY <1>14, <2>1, <2>2, <2>3, <2>4, <2>5, <2>6, <2>7 DEF Inferior
<1>15. CASE UNCHANGED vars
  BY <1>15 DEF vars
<1>16. CASE TaskIsValid
  BY <1>16 DEF TaskIsValid
<1> QED
  BY <1>1, <1>2, <1>3, <1>4, <1>5, <1>6, <1>7, <1>8, <1>9, <1>10, <1>11,
     <1>12, <1>13, <1>14, <1>15, <1>16
  DEF Next, ExceptionThread, MainThread, Ended

\* A thread that runs shows that no SIGTRAP of its image is on its way: the
\* thread that sent it would be the only one, and wait.
LEMMA RunsNoTrap ==
  ASSUME IInv, NEW t \in Threads, Runs(t)
  PROVE  /\ \A i \in 1..Len(queue) : queue[i].kind # "sigtrap"
         /\ ~(excPc = "catch" /\ Trapped(message))
<1>1. ASSUME NEW s \in Senders, Waits(s)
      PROVE  FALSE
  <2>1. s = <<s[1], s[2]>>
    BY DEF Senders
  <2> QED  BY <1>1, <2>1 DEF Waits, Runs
<1>2. queue \in Seq(Raised) /\ message \in Message
  BY DEF IInv, TypeOK
<1>3. ASSUME NEW i \in 1..Len(queue)
      PROVE  queue[i].from \in Senders
  <2>1. queue[i] \in Raised
    BY <1>2
  <2> QED  BY <2>1 DEF Raised
<1>4. message.from \in Senders
  BY <1>2 DEF Message
<1> QED
  BY <1>1, <1>3, <1>4 DEF IInv, TrapInv, TrapQueued, TrapReceived

\* With no SIGTRAP on its way there is nothing to keep.
LEMMA NoTrap ==
  ASSUME \A i \in 1..Len(queue) : queue[i].kind # "sigtrap",
         ~(excPc = "catch" /\ Trapped(message)),
         execTrap => \E t \in Threads : live = {t}
  PROVE  TrapInv
BY DEF TrapInv

\* A SIGSTOP or a breakpoint behind the messages on the port.
LEMMA NoTrapRaise ==
  ASSUME IInv, NEW s \in Senders, NEW k \in {"break", "sigstop"}, Raise(s, k),
         \A i \in 1..Len(queue) : queue[i].kind # "sigtrap",
         ~(excPc = "catch" /\ Trapped(message)), ~execTrap',
         UNCHANGED <<excPc, message>>
  PROVE  TrapInv'
<1>1. Len(queue) \in Nat
  BY DEF IInv, TypeOK
<1>2. /\ Len(queue') = Len(queue) + 1
      /\ \A i \in 1..Len(queue) : queue'[i] = queue[i]
      /\ queue'[Len(queue) + 1].kind = k
  BY Sent DEF IInv, Kinds
<1>3. \A i \in 1..Len(queue') : queue'[i].kind # "sigtrap"
  BY <1>1, <1>2
<1> QED  BY <1>3 DEF TrapInv, Trapped

\* While a SIGTRAP is on its way the new image waits for the reply to it.
LEMMA TrapStep ==
  ASSUME IInv, [Next]_vars
  PROVE  TrapInv'
<1> USE ExecAssumption
    DEF IInv, TypeOK, SenderInv, TrapInv, AllFrom, FromPast, NotCurrent, Waits,
        TrapQueued, TrapReceived, Trapped, Handling, Images, kernelVars,
        excVars, mainVars, mainFrame, Goto, Abort
<1>1. CASE Receive
  <2>1. /\ Len(queue) \in Nat
        /\ \A i \in 1..Len(queue') : /\ queue'[i] = queue[i + 1]
                                     /\ i + 1 \in 1..Len(queue) /\ i + 1 # 1
        /\ 1 \in 1..Len(queue)
        /\ message'.from = queue[1].from /\ message'.exc_type = queue[1].kind
    <3>1. /\ Len(queue) \in Nat /\ Len(queue) > 0
          /\ Len(queue') = Len(queue) - 1
          /\ \A i \in 1..Len(queue') : queue'[i] = queue[i + 1]
          /\ message'.from = queue[1].from /\ message'.exc_type = queue[1].kind
      BY <1>1, Received
    <3> QED  BY <3>1
  <2>2. /\ excPc = "recv" /\ excPc' = "catch"
        /\ UNCHANGED <<image, live, blocked, execTrap, m_exception_messages>>
    BY <1>1 DEF Receive
  <2>3. ASSUME NEW i \in 1..Len(queue'), queue'[i].kind = "sigtrap"
        PROVE  TrapQueued(i)'
    <3>1. i + 1 \in 1..Len(queue) /\ queue[i + 1].kind = "sigtrap"
      BY <2>1, <2>3
    <3>2. \A j \in 1..Len(queue) : j # i + 1 => NotCurrent(queue[j].from)
      BY <3>1
    <3>3. ASSUME NEW j \in 1..Len(queue'), j # i
          PROVE  NotCurrent(queue'[j].from)
      <4>1. /\ j + 1 \in 1..Len(queue) /\ j + 1 # i + 1
            /\ queue'[j] = queue[j + 1]
        BY <2>1, <3>3
      <4> QED  BY <4>1, <3>2
    <3> QED  BY <2>1, <2>2, <3>1, <3>2, <3>3
  <2>4. ASSUME queue[1].kind = "sigtrap"
        PROVE  TrapReceived'
    <3>1. Waits(queue[1].from) /\ queue[1] \in Raised
      BY <2>1, <2>4
    <3>2. queue[1].from[2] \in Threads
      BY <3>1 DEF Raised, Senders
    <3>3. /\ message'.task_port = queue[1].from[1]
          /\ message'.thread_port = queue[1].from[2]
      BY <1>1, <3>1, Received DEF IsValid
    <3>4. \A j \in 1..Len(queue) : j # 1 => NotCurrent(queue[j].from)
      BY <2>1, <2>4
    <3>5. \A j \in 1..Len(queue') : NotCurrent(queue'[j].from)
      BY <2>1, <3>4
    <3> QED  BY <2>1, <2>2, <2>4, <3>1, <3>2, <3>3, <3>4, <3>5
  <2> QED  BY <2>1, <2>2, <2>3, <2>4
<1>2. CASE CatchExceptionRaise
  BY <1>2, Caught DEF CatchExceptionRaise
<1>3. CASE Suspend
  BY <1>3 DEF Suspend
<1>4. CASE PushMessage
  BY <1>4, Pushed DEF PushMessage
<1>5. CASE ReceiveTimedOut
  BY <1>5 DEF ReceiveTimedOut
<1>6. CASE ReceiveInterrupted
  BY <1>6 DEF ReceiveInterrupted
<1>7. CASE ReplyToAllExceptions
  BY <1>7 DEF ReplyToAllExceptions
<1>8. CASE ReplyOne
  <2>1. /\ pos \in 1..Len(m_exception_messages)
        /\ UNCHANGED <<image, live, queue, execTrap, message,
                       m_exception_messages>>
        /\ excPc' = excPc \/ excPc' = "exited"
    BY <1>8 DEF ReplyOne, LoopInv
  <2>2. ASSUME NEW s, s \in blocked,
               s # m_exception_messages[pos].from
        PROVE  s \in blocked'
    BY <1>8, <2>2 DEF ReplyOne
  <2>3. ASSUME NEW s, Waits(s), NotCurrent(m_exception_messages[pos].from)
        PROVE  Waits(s)'
    BY <2>1, <2>2, <2>3
  <2> QED  BY <2>1, <2>3
<1>9. CASE ReplyClear
  BY <1>9 DEF ReplyClear
<1>10. CASE TaskResume
  BY <1>10 DEF TaskResume
<1>11. CASE VectorRace
  BY <1>11 DEF VectorRace
<1>12. CASE Resume
  BY <1>12 DEF Resume
<1>13. CASE Stop
  BY <1>13 DEF Stop
<1>14. CASE Inferior
  <2> UNCHANGED <<excVars, mainVars, m_exception_messages>>
    BY <1>14 DEF Inferior
  <2>1. ASSUME NEW t \in Threads, TakeExecTrap(t)
        PROVE  TrapInv'
    <3>1. /\ AllFrom(NotCurrent) /\ live = {t} /\ ~execTrap'
          /\ Raise(<<image, t>>, "sigtrap") /\ <<image, t>> \in Senders
          /\ UNCHANGED <<image, live>>
      BY <2>1, SenderTypes DEF TakeExecTrap, Runs
    <3>2. /\ Len(queue') = Len(queue) + 1 /\ Len(queue) \in Nat
          /\ \A i \in 1..Len(queue) : queue'[i] = queue[i]
          /\ queue'[Len(queue) + 1].from = <<image, t>>
          /\ <<image, t>> \in blocked'
      BY <3>1, Sent DEF Kinds
    <3>3. ASSUME NEW i \in 1..Len(queue'), queue'[i].kind = "sigtrap"
          PROVE  i = Len(queue) + 1
      <4>1. \A j \in 1..Len(queue) : queue[j].kind # "sigtrap"
        BY RunsNoTrap, <2>1 DEF TakeExecTrap
      <4>2. i \in 1..Len(queue) \/ i = Len(queue) + 1
        BY <3>2
      <4> QED  BY <3>2, <3>3, <4>1, <4>2
    <3>4. Waits(<<image, t>>)'
      BY <3>1, <3>2
    <3>5. \A j \in 1..Len(queue) : NotCurrent(queue'[j].from)
      BY <3>1, <3>2
    <3>6. ~(excPc' = "catch" /\ Trapped(message)')
      BY RunsNoTrap, <2>1 DEF TakeExecTrap
    <3>7. ASSUME NEW i, i = Len(queue) + 1
          PROVE  TrapQueued(i)'
      <4>1. \A j \in 1..Len(queue') : j # Len(queue) + 1 =>
              j \in 1..Len(queue)
        BY <3>2
      <4> QED  BY <3>1, <3>2, <3>4, <3>5, <3>7, <4>1
    <3> HIDE DEF TrapQueued, Trapped, TrapReceived
    <3> QED  BY <3>1, <3>3, <3>6, <3>7
  <2>2. ASSUME NEW t \in Threads, TakeSignal(t)
        PROVE  TrapInv'
    <3>1. /\ Raise(<<image, t>>, "sigstop") /\ ~execTrap'
          /\ Runs(t) /\ <<image, t>> \in Senders
      BY <2>2, SenderTypes DEF TakeSignal
    <3>2. UNCHANGED <<excPc, message>>
      OBVIOUS
    <3> QED  BY <3>1, <3>2, RunsNoTrap, NoTrapRaise
  <2>3. ASSUME NEW t \in Threads, BreakTrap(t)
        PROVE  TrapInv'
    <3>1. /\ Raise(<<image, t>>, "break") /\ ~execTrap'
          /\ Runs(t) /\ <<image, t>> \in Senders
      BY <2>3, SenderTypes DEF BreakTrap
    <3>2. UNCHANGED <<excPc, message>>
      OBVIOUS
    <3> QED  BY <3>1, <3>2, RunsNoTrap, NoTrapRaise
  <2>4. ASSUME NEW t \in Threads, StartThread(t)
        PROVE  TrapInv'
    <3>1. Runs(t) /\ ~execTrap' /\ UNCHANGED <<queue, excPc, message>>
      BY <2>4 DEF StartThread
    <3> QED  BY <3>1, RunsNoTrap
  <2>5. ASSUME NEW t \in Threads, Exec(t)
        PROVE  TrapInv'
    <3>1. Runs(t) /\ live' = {t} /\ UNCHANGED <<queue, excPc, message>>
      BY <2>5 DEF Exec
    <3> QED  BY <3>1, RunsNoTrap
  <2>6. ASSUME NEW t \in Threads, Fork(t)
        PROVE  TrapInv'
    BY <2>6 DEF Fork
  <2>7. CASE ChildTrap
    <3>1. /\ Raise(<<Child, Child>>, "break")
          /\ <<Child, Child>> \in Senders /\ NotCurrent(<<Child, Child>>)
          /\ UNCHANGED <<image, live>>
      BY <2>7, SenderTypes DEF ChildTrap
    <3>2. /\ Len(queue') = Len(queue) + 1 /\ Len(queue) \in Nat
          /\ \A i \in 1..Len(queue) : queue'[i] = queue[i]
          /\ queue'[Len(queue) + 1].from = <<Child, Child>>
          /\ queue'[Len(queue) + 1].kind = "break"
          /\ blocked \subseteq blocked'
      BY <3>1, Sent DEF Kinds
    <3>3. \A s : Waits(s) => Waits(s)'
      BY <3>1, <3>2
    <3>4. NotCurrent(queue'[Len(queue) + 1].from)
      BY <3>1, <3>2
    <3>5. ASSUME NEW i \in 1..Len(queue')
          PROVE  i \in 1..Len(queue) \/ i = Len(queue) + 1
      BY <3>2
    <3>6. execTrap' => execTrap
      BY <2>7 DEF ChildTrap
    <3>7. ASSUME NEW i \in 1..Len(queue), TrapQueued(i)
          PROVE  TrapQueued(i)'
      BY <3>1, <3>2, <3>3, <3>4, <3>5, <3>7
    <3>8. ASSUME TrapReceived
          PROVE  TrapReceived'
      <4>1. Waits(message.from)'
        BY <3>3, <3>8
      <4>2. \A j \in 1..Len(queue') : NotCurrent(queue'[j].from)
        BY <3>2, <3>4, <3>5, <3>8
      <4> QED  BY <3>1, <3>8, <4>1, <4>2
    <3>9. \A i \in 1..Len(queue') : queue'[i].kind = "sigtrap" =>
            TrapQueued(i)'
      <4> HIDE DEF TrapQueued
      <4> QED  BY <3>2, <3>5, <3>7
    <3>10. execTrap' => \E t \in Threads : live' = {t}
      BY <3>1, <3>6
    <3> HIDE DEF TrapQueued, Trapped, TrapReceived
    <3> QED  BY <3>8, <3>9, <3>10
  <2> QED  BY <1>14, <2>1, <2>2, <2>3, <2>4, <2>5, <2>6, <2>7 DEF Inferior
<1>15. CASE UNCHANGED vars
  BY <1>15 DEF vars
<1>16. CASE TaskIsValid
  BY <1>16 DEF TaskIsValid
<1> QED
  BY <1>1, <1>2, <1>3, <1>4, <1>5, <1>6, <1>7, <1>8, <1>9, <1>10, <1>11,
     <1>12, <1>13, <1>14, <1>15, <1>16
  DEF Next, ExceptionThread, MainThread, Ended

\* The vector only grows until the loop clears it.
LEMMA LoopStep ==
  ASSUME IInv, [Next]_vars
  PROVE  LoopInv'
<1> USE ExecAssumption
    DEF IInv, TypeOK, LoopInv, kernelVars, excVars, mainVars, mainFrame, Goto,
        Abort
<1>1. CASE Receive
  BY <1>1 DEF Receive
<1>2. CASE CatchExceptionRaise
  BY <1>2 DEF CatchExceptionRaise
<1>3. CASE Suspend
  BY <1>3 DEF Suspend
<1>4. CASE PushMessage
  BY <1>4, Pushed DEF PushMessage
<1>5. CASE ReceiveTimedOut
  BY <1>5 DEF ReceiveTimedOut
<1>6. CASE ReceiveInterrupted
  BY <1>6 DEF ReceiveInterrupted
<1>7. CASE ReplyToAllExceptions
  BY <1>7 DEF ReplyToAllExceptions
<1>8. CASE ReplyOne
  BY <1>8 DEF ReplyOne
<1>9. CASE ReplyClear
  BY <1>9 DEF ReplyClear
<1>10. CASE TaskResume
  BY <1>10 DEF TaskResume
<1>11. CASE VectorRace
  BY <1>11 DEF VectorRace
<1>12. CASE Resume
  BY <1>12 DEF Resume
<1>13. CASE Stop
  BY <1>13 DEF Stop
<1>14. CASE Inferior
  BY <1>14 DEF Inferior
<1>15. CASE UNCHANGED vars
  BY <1>15 DEF vars
<1>16. CASE TaskIsValid
  BY <1>16 DEF TaskIsValid
<1> QED
  BY <1>1, <1>2, <1>3, <1>4, <1>5, <1>6, <1>7, <1>8, <1>9, <1>10, <1>11,
     <1>12, <1>13, <1>14, <1>15, <1>16
  DEF Next, ExceptionThread, MainThread, Ended

\* The debugger takes over the image whose SIGTRAP it handles, and no other.
LEMMA TaskStep ==
  ASSUME IInv, [Next]_vars
  PROVE  TaskInv'
<1> USE ExecAssumption
    DEF IInv, TypeOK, TaskInv, kernelVars, excVars, mainVars, mainFrame, Goto,
        Abort
<1>1. CASE Receive
  <2>1. /\ excPc = "recv" /\ excPc' = "catch"
        /\ UNCHANGED <<image, execTrap, task, m_task>>
    BY <1>1 DEF Receive
  <2>2. /\ Len(queue) \in Nat /\ Len(queue) > 0 /\ Len(queue') = Len(queue) - 1
        /\ \A i \in 1..Len(queue') : queue'[i] = queue[i + 1]
        /\ DOMAIN queue = 1..Len(queue) /\ DOMAIN queue' = 1..Len(queue')
        /\ Trapped(message') <=> queue[1].kind = "sigtrap"
    <3>1. queue' \in Seq(Raised)
      BY <1>1, TypeStep
    <3> HIDE DEF TaskInv
    <3> QED  BY <1>1, <3>1, Received DEF Trapped
  <2>3. \A i \in 1..Len(queue') : i + 1 \in 1..Len(queue)
    BY <2>2
  <2>4. ASSUME NEW i \in 1..Len(queue), queue[i].kind = "sigtrap"
        PROVE  \/ Trapped(message')
               \/ \E j \in 1..Len(queue') : queue'[j].kind = "sigtrap"
    <3>1. CASE i = 1
      BY <2>2, <2>4, <3>1
    <3>2. CASE i # 1
      <4>1. i - 1 \in 1..Len(queue') /\ (i - 1) + 1 = i
        BY <2>2, <3>2
      <4> QED  BY <2>2, <2>4, <4>1
    <3> QED  BY <3>1, <3>2
  <2>5. TaskFollowed'
    BY <2>1, <2>2, <2>4 DEF TaskFollowed
  <2>6. execTrap' => task' # image'
    BY <2>1
  <2>7. \A i \in 1..Len(queue') : queue'[i].kind = "sigtrap" => task' # image'
    BY <2>1, <2>2, <2>3
  <2>8. excPc' = "catch" /\ Trapped(message') => task' # image'
    BY <2>1, <2>2
  <2> QED  BY <2>1, <2>5, <2>6, <2>7, <2>8
<1>2. CASE CatchExceptionRaise
  <2>1. /\ excPc = "catch" /\ excPc' = "suspend"
        /\ UNCHANGED <<image, execTrap, queue>>
    BY <1>2 DEF CatchExceptionRaise
  <2>2. CASE Trapped(message)
    <3>1. TrapReceived /\ task # image /\ ~IsValid(task)
      BY <2>1, <2>2 DEF TrapInv, IsValid, Images
    <3>2. message' = message /\ DataIsValid(message)
      BY <1>2, <2>2, <3>1
      DEF CatchExceptionRaise, catch_mach_exception_raise, DataIsValid,
          Trapped, TrapReceived
    <3>3. task' = image /\ m_task' = image
      BY <1>2, <3>1, <3>2
      DEF CatchExceptionRaise, TaskPortChanged, TrapReceived
    <3>4. ~execTrap
      BY <2>1, <3>1
      DEF SenderInv, AllFrom, Handling, TrapReceived, Waits, NotCurrent
    <3>5. \A i \in 1..Len(queue) : queue[i].kind # "sigtrap"
      BY <3>1 DEF TrapInv, TrapQueued, TrapReceived, Waits, NotCurrent
    <3>6. TaskFollowed'
      BY <2>1, <3>3 DEF TaskFollowed
    <3> QED  BY <2>1, <3>3, <3>4, <3>5, <3>6 DEF Images
  <2>3. CASE ~Trapped(message)
    <3>1. UNCHANGED <<task, m_task>>
      BY <1>2, <2>3, Caught DEF CatchExceptionRaise, TaskPortChanged
    <3>2. TaskFollowed'
      BY <2>1, <2>3, <3>1 DEF TaskFollowed
    <3> QED  BY <2>1, <3>1, <3>2
  <2> QED  BY <2>2, <2>3
<1>3. CASE Suspend
  BY <1>3 DEF Suspend, TaskFollowed, Trapped
<1>4. CASE PushMessage
  BY <1>4 DEF PushMessage, TaskFollowed, Trapped
<1>5. CASE ReceiveTimedOut
  BY <1>5 DEF ReceiveTimedOut, TaskFollowed, Trapped
<1>6. CASE ReceiveInterrupted
  BY <1>6 DEF ReceiveInterrupted, TaskFollowed, Trapped
<1>7. CASE ReplyToAllExceptions
  BY <1>7 DEF ReplyToAllExceptions, TaskFollowed, Trapped
<1>8. CASE ReplyOne
  BY <1>8 DEF ReplyOne, TaskFollowed, Trapped
<1>9. CASE ReplyClear
  BY <1>9 DEF ReplyClear, TaskFollowed, Trapped
<1>10. CASE TaskResume
  BY <1>10 DEF TaskResume, TaskFollowed, Trapped
<1>11. CASE VectorRace
  BY <1>11 DEF VectorRace, TaskFollowed, Trapped
<1>12. CASE Resume
  BY <1>12 DEF Resume, TaskFollowed, Trapped
<1>13. CASE Stop
  BY <1>13 DEF Stop, TaskFollowed, Trapped
<1>14. CASE Inferior
  <2> UNCHANGED <<excVars, mainVars, m_exception_messages>>
    BY <1>14 DEF Inferior
  <2>1. ASSUME NEW t \in Threads, TakeExecTrap(t)
        PROVE  TaskInv'
    <3>1. /\ Raise(<<image, t>>, "sigtrap") /\ task # image /\ ~execTrap'
          /\ <<image, t>> \in Senders /\ image' = image
      BY <2>1, SenderTypes DEF TakeExecTrap
    <3>2. /\ Len(queue') = Len(queue) + 1 /\ Len(queue) \in Nat
          /\ queue'[Len(queue) + 1].kind = "sigtrap"
          /\ queue' \in Seq(Raised)
      BY <3>1, Sent DEF Kinds
    <3>3. \E i \in DOMAIN queue' : queue'[i].kind = "sigtrap"
      BY <3>2
    <3>4. TaskFollowed'
      BY <3>3 DEF TaskFollowed
    <3> QED  BY <3>1, <3>4
  <2>2. ASSUME NEW t \in Threads, TakeSignal(t)
        PROVE  TaskInv'
    <3>1. /\ Runs(t) /\ Raise(<<image, t>>, "sigstop")
          /\ <<image, t>> \in Senders /\ ~execTrap /\ ~execTrap'
          /\ image' = image
      BY <2>2, SenderTypes DEF TakeSignal
    <3>2. UNCHANGED <<excPc, message, task, m_task>>
      OBVIOUS
    <3>3. /\ \A i \in 1..Len(queue) : queue[i].kind # "sigtrap"
          /\ ~(excPc = "catch" /\ Trapped(message))
          /\ DOMAIN queue = 1..Len(queue)
      BY <3>1, RunsNoTrap
    <3>4. excPc' = "exited" \/ (task' = image' /\ m_task' = image')
      <4>1. TaskFollowed /\ ~execTrap
        BY <3>1
      <4>2. excPc = "exited" \/ (task = image /\ m_task = image)
        BY <3>3, <4>1 DEF TaskFollowed
      <4> QED  BY <3>1, <3>2, <4>2
    <3>5. /\ Len(queue') = Len(queue) + 1 /\ Len(queue) \in Nat
          /\ \A i \in 1..Len(queue) : queue'[i] = queue[i]
          /\ queue'[Len(queue) + 1].kind = "sigstop"
      BY <3>1, Sent DEF Kinds
    <3>6. \A i \in 1..Len(queue') : queue'[i].kind # "sigtrap"
      BY <3>3, <3>5
    <3>7. TaskFollowed'
      BY <3>4 DEF TaskFollowed
    <3> QED  BY <3>1, <3>2, <3>3, <3>6, <3>7 DEF Trapped
  <2>3. ASSUME NEW t \in Threads, BreakTrap(t)
        PROVE  TaskInv'
    <3>1. /\ Runs(t) /\ Raise(<<image, t>>, "break")
          /\ <<image, t>> \in Senders /\ ~execTrap /\ ~execTrap'
          /\ image' = image
      BY <2>3, SenderTypes DEF BreakTrap
    <3>2. UNCHANGED <<excPc, message, task, m_task>>
      OBVIOUS
    <3>3. /\ \A i \in 1..Len(queue) : queue[i].kind # "sigtrap"
          /\ ~(excPc = "catch" /\ Trapped(message))
          /\ DOMAIN queue = 1..Len(queue)
      BY <3>1, RunsNoTrap
    <3>4. excPc' = "exited" \/ (task' = image' /\ m_task' = image')
      <4>1. TaskFollowed /\ ~execTrap
        BY <3>1
      <4>2. excPc = "exited" \/ (task = image /\ m_task = image)
        BY <3>3, <4>1 DEF TaskFollowed
      <4> QED  BY <3>1, <3>2, <4>2
    <3>5. /\ Len(queue') = Len(queue) + 1 /\ Len(queue) \in Nat
          /\ \A i \in 1..Len(queue) : queue'[i] = queue[i]
          /\ queue'[Len(queue) + 1].kind = "break"
      BY <3>1, Sent DEF Kinds
    <3>6. \A i \in 1..Len(queue') : queue'[i].kind # "sigtrap"
      BY <3>3, <3>5
    <3>7. TaskFollowed'
      BY <3>4 DEF TaskFollowed
    <3> QED  BY <3>1, <3>2, <3>3, <3>6, <3>7 DEF Trapped
  <2>4. ASSUME NEW t \in Threads, StartThread(t)
        PROVE  TaskInv'
    BY <2>4 DEF StartThread, TaskFollowed, Trapped
  <2>5. ASSUME NEW t \in Threads, Exec(t)
        PROVE  TaskInv'
    <3>1. execTrap' /\ image' = image + 1
      BY <2>5 DEF Exec
    <3>2. image \in Nat /\ task \in 1..image' /\ task # image'
      BY <3>1 DEF Images
    <3>3. TaskFollowed'
      BY <3>1 DEF TaskFollowed
    <3> QED  BY <3>2, <3>3
  <2>6. ASSUME NEW t \in Threads, Fork(t)
        PROVE  TaskInv'
    BY <2>6 DEF Fork, TaskFollowed, Trapped
  <2>7. CASE ChildTrap
    <3>1. /\ Raise(<<Child, Child>>, "break")
          /\ <<Child, Child>> \in Senders /\ image' = image
      BY <2>7, SenderTypes DEF ChildTrap
    <3>2. /\ Len(queue') = Len(queue) + 1 /\ Len(queue) \in Nat
          /\ \A i \in 1..Len(queue) : queue'[i] = queue[i]
          /\ queue'[Len(queue) + 1].kind = "break"
          /\ DOMAIN queue = 1..Len(queue) /\ DOMAIN queue' = 1..Len(queue')
      <4>1. queue' \in Seq(Raised)
        BY <3>1, Sent DEF Kinds
      <4> QED  BY <3>1, <4>1, Sent DEF Kinds
    <3>3. UNCHANGED <<excPc, message, task, m_task>>
      OBVIOUS
    <3>4. execTrap' <=> execTrap
      BY <2>7 DEF ChildTrap
    <3>5. \A i \in 1..Len(queue) : i \in 1..Len(queue')
      BY <3>2
    <3>6. \A i \in 1..Len(queue') : queue'[i].kind = "sigtrap" =>
            i \in 1..Len(queue) /\ queue[i].kind = "sigtrap"
      BY <3>2
    <3>7. TaskFollowed'
      BY <3>1, <3>2, <3>3, <3>4, <3>5 DEF TaskFollowed, Trapped
    <3> QED  BY <3>1, <3>3, <3>4, <3>6, <3>7 DEF Trapped
  <2> QED  BY <1>14, <2>1, <2>2, <2>3, <2>4, <2>5, <2>6, <2>7 DEF Inferior
<1>15. CASE UNCHANGED vars
  BY <1>15 DEF vars, TaskFollowed, Trapped
<1>16. CASE TaskIsValid
  BY <1>16 DEF TaskIsValid, TaskFollowed, Trapped
<1> QED
  BY <1>1, <1>2, <1>3, <1>4, <1>5, <1>6, <1>7, <1>8, <1>9, <1>10, <1>11,
     <1>12, <1>13, <1>14, <1>15, <1>16
  DEF Next, ExceptionThread, MainThread, Ended

\* A suspension belongs to a message that is held, or to the Resume under way.
LEMMA CountStep ==
  ASSUME IInv, [Next]_vars
  PROVE  CountInv'
<1> USE ExecAssumption
    DEF IInv, TypeOK, CountInv, SuspendAccounted, Images, kernelVars, excVars,
        mainVars, mainFrame, Goto, Abort
<1>1. CASE Receive
  BY <1>1 DEF Receive
<1>2. CASE CatchExceptionRaise
  BY <1>2 DEF CatchExceptionRaise
<1>3. CASE Suspend
  BY <1>3 DEF Suspend, TaskInv
<1>4. CASE PushMessage
  BY <1>4, Pushed DEF PushMessage
<1>5. CASE ReceiveTimedOut
  BY <1>5 DEF ReceiveTimedOut
<1>6. CASE ReceiveInterrupted
  BY <1>6 DEF ReceiveInterrupted
<1>7. CASE ReplyToAllExceptions
  BY <1>7 DEF ReplyToAllExceptions
<1>8. CASE ReplyOne
  BY <1>8 DEF ReplyOne
<1>9. CASE ReplyClear
  BY <1>9 DEF ReplyClear
<1>10. CASE TaskResume
  BY <1>10 DEF TaskResume, TaskInv
<1>11. CASE VectorRace
  BY <1>11 DEF VectorRace
<1>12. CASE Resume
  BY <1>12 DEF Resume
<1>13. CASE Stop
  BY <1>13 DEF Stop
<1>14. CASE Inferior
  <2> UNCHANGED <<excVars, mainVars, m_exception_messages>>
    BY <1>14 DEF Inferior
  <2>1. ASSUME NEW t \in Threads, TakeExecTrap(t)
        PROVE  CountInv'
    BY <2>1 DEF TakeExecTrap
  <2>2. ASSUME NEW t \in Threads, TakeSignal(t)
        PROVE  CountInv'
    BY <2>2 DEF TakeSignal
  <2>3. ASSUME NEW t \in Threads, BreakTrap(t)
        PROVE  CountInv'
    BY <2>3 DEF BreakTrap
  <2>4. ASSUME NEW t \in Threads, StartThread(t)
        PROVE  CountInv'
    BY <2>4 DEF StartThread
  <2>5. ASSUME NEW t \in Threads, Exec(t)
        PROVE  CountInv'
    BY <2>5 DEF Exec
  <2>6. ASSUME NEW t \in Threads, Fork(t)
        PROVE  CountInv'
    BY <2>6 DEF Fork
  <2>7. CASE ChildTrap
    BY <2>7 DEF ChildTrap
  <2> QED  BY <1>14, <2>1, <2>2, <2>3, <2>4, <2>5, <2>6, <2>7 DEF Inferior
<1>15. CASE UNCHANGED vars
  BY <1>15 DEF vars
<1>16. CASE TaskIsValid
  BY <1>16 DEF TaskIsValid
<1> QED
  BY <1>1, <1>2, <1>3, <1>4, <1>5, <1>6, <1>7, <1>8, <1>9, <1>10, <1>11,
     <1>12, <1>13, <1>14, <1>15, <1>16
  DEF Next, ExceptionThread, MainThread, Ended

\* Attach leaves the process stopped, with nothing on its way.
LEMMA InitInv == Init => IInv
<1> SUFFICES ASSUME Init
             PROVE  IInv
  OBVIOUS
<1>1. TypeOK
  <2>1. 1 \in Images /\ 1 \in Tasks
    BY ExecAssumption DEF Images, Tasks
  <2>2. NoMessage \in Message
    BY DEF NoMessage, Message, Senders
  <2>3. queue \in Seq(Raised) /\ m_exception_messages \in Seq(Message)
    BY DEF Init
  <2>4. suspend_count \in [Images -> Nat]
    BY DEF Init
  <2>5. /\ forked \in BOOLEAN /\ sigstop \in BOOLEAN /\ execTrap \in BOOLEAN
        /\ receiving \in BOOLEAN
    BY DEF Init
  <2>6. /\ image \in Images /\ live \subseteq Threads
        /\ blocked \subseteq Senders
        /\ {task, m_task} \subseteq Tasks /\ message \in Message
        /\ pos \in Nat /\ end \in Nat
    BY <2>1, <2>2 DEF Init
  <2> QED  BY <2>3, <2>4, <2>5, <2>6 DEF Init, TypeOK
<1>2. SenderInv /\ TrapInv
  <2>1. /\ Len(queue) = 0 /\ Len(m_exception_messages) = 0
        /\ excPc = "recv" /\ ~execTrap
    BY DEF Init
  <2>2. SenderInv
    BY <2>1 DEF SenderInv, AllFrom, Handling
  <2> QED  BY <2>1, <2>2 DEF TrapInv
<1>3. TaskInv
  BY DEF Init, TaskInv, TaskFollowed
<1>4. CountInv /\ LoopInv
  BY ExecAssumption DEF Init, CountInv, LoopInv, SuspendAccounted, Images
<1> QED  BY <1>1, <1>2, <1>3, <1>4 DEF IInv

\* The invariant holds in every state of the session.
LEMMA Invariance == Spec => []IInv
<1>1. IInv /\ [Next]_vars => IInv'
  BY TypeStep, SenderStep, TrapStep, TaskStep, CountStep, LoopStep DEF IInv
<1> QED  BY InitInv, <1>1, PTL DEF Spec

-----------------------------------------------------------------------------
\* Every message the debugger keeps is a well-formed Data record, its task
\* port is the name of a task, and the loops index what is there.
THEOREM TypeCorrect == Spec => []TypeOK
<1>1. IInv => TypeOK
  BY DEF IInv
<1> QED  BY Invariance, <1>1, PTL

\* However a child's exceptions interleave with the execs, the debugger never
\* takes the child for its process: only a SIGTRAP of the process makes it
\* change its task (MachTask.cpp:247).
THEOREM ChildIsNotAdopted == Spec => []NeverAdoptsChild
<1>1. IInv => NeverAdoptsChild
  BY ExecAssumption DEF IInv, TypeOK, TaskInv, NeverAdoptsChild, Images
<1> QED  BY Invariance, <1>1, PTL

\* After any number of execs both copies of the task port name the image whose
\* SIGTRAP was handled last, and no old or foreign message undoes that.
THEOREM ExecIsFollowed == Spec => []TaskFollowed
<1>1. IInv => TaskFollowed
  BY DEF IInv, TaskInv
<1> QED  BY Invariance, <1>1, PTL

\* The suspensions of the image are those of the messages held and of the
\* Resume under way: none is left behind that no Resume would undo.
THEOREM SuspensionsAreOwned == Spec => []SuspendAccounted
<1>1. IInv => SuspendAccounted
  BY DEF IInv, CountInv
<1> QED  BY Invariance, <1>1, PTL

=============================================================================
