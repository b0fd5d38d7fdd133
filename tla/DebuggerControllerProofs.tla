---------------------- MODULE DebuggerControllerProofs ----------------------
(***************************************************************************)
(* The asserts of MachProcess hold for the calls main() makes, whatever    *)
(* the number of rounds, of steps and of debugged threads, and the memory  *)
(* it reads and writes is that of a suspended task.                        *)
(***************************************************************************)
EXTENDS DebuggerController, MachProcessProofs

-----------------------------------------------------------------------------
(* The script, call by call. *)

ScriptEntries ==
  [call : {"attach", "read", "write", "resume", "stop", "step", "read_pc",
           "detach"},
   slept : BOOLEAN]

Opening ==
  <<Entry("attach", FALSE), Entry("read", TRUE), Entry("write", FALSE)>>
RoundsPart ==
  [i \in 1..(2 * Rounds) |-> IF i % 2 = 1 THEN Entry("resume", i > 1)
                                          ELSE Entry("stop", TRUE)]
StepsPart ==
  [i \in 1..(2 * Steps) |-> IF i % 2 = 1 THEN Entry("step", i = 1)
                                         ELSE Entry("read_pc", FALSE)]
Closing == <<Entry("resume", FALSE), Entry("detach", FALSE)>>

\* Where the parts end.
RoundsEnd == 3 + 2 * Rounds
StepsEnd == RoundsEnd + 2 * Steps
ScriptEnd == StepsEnd + 2

\* A function on an initial segment of the numbers is a sequence.
LEMMA FunctionIsSeq ==
  ASSUME NEW S, NEW n \in Nat, NEW f \in [1..n -> S]
  PROVE  f \in Seq(S) /\ Len(f) = n
<1>1. f \in Seq(S)
  BY SeqDef
<1>2. DOMAIN f = 1..Len(f) /\ Len(f) \in Nat
  BY <1>1, LenProperties
<1>3. 1..n = 1..Len(f)
  BY <1>2
<1> QED  BY <1>1, <1>2, <1>3

\* The parts are sequences of calls.
LEMMA ScriptParts ==
  /\ Opening \in Seq(ScriptEntries) /\ Len(Opening) = 3
  /\ RoundsPart \in Seq(ScriptEntries) /\ Len(RoundsPart) = 2 * Rounds
  /\ StepsPart \in Seq(ScriptEntries) /\ Len(StepsPart) = 2 * Steps
  /\ Closing \in Seq(ScriptEntries) /\ Len(Closing) = 2
<1> USE DEF ScriptEntries, Entry
<1>1. Opening \in Seq(ScriptEntries) /\ Len(Opening) = 3
  BY DEF Opening
<1>2. Closing \in Seq(ScriptEntries) /\ Len(Closing) = 2
  BY DEF Closing
<1>3. 2 * Rounds \in Nat /\ 2 * Steps \in Nat
  BY ScriptAssumption
<1>4. RoundsPart \in Seq(ScriptEntries) /\ Len(RoundsPart) = 2 * Rounds
  <2>1. RoundsPart \in [1..(2 * Rounds) -> ScriptEntries]
    BY DEF RoundsPart
  <2> QED  BY <1>3, <2>1, FunctionIsSeq
<1>5. StepsPart \in Seq(ScriptEntries) /\ Len(StepsPart) = 2 * Steps
  <2>1. StepsPart \in [1..(2 * Steps) -> ScriptEntries]
    BY DEF StepsPart
  <2> QED  BY <1>3, <2>1, FunctionIsSeq
<1> QED  BY <1>1, <1>2, <1>4, <1>5

\* The call at each place of the script.
LEMMA ScriptCalls ==
  /\ DOMAIN Script = 1..ScriptEnd
  /\ Script[1] = Entry("attach", FALSE)
  /\ Script[2] = Entry("read", TRUE)
  /\ Script[3] = Entry("write", FALSE)
  /\ \A i \in 4..RoundsEnd :
       Script[i].call = IF i % 2 = 0 THEN "resume" ELSE "stop"
  /\ \A i \in (RoundsEnd + 1)..StepsEnd :
       Script[i].call = IF i % 2 = 0 THEN "step" ELSE "read_pc"
  /\ Script[StepsEnd + 1].call = "resume"
  /\ Script[ScriptEnd].call = "detach"
<1> DEFINE S2 == Opening \o RoundsPart
           S3 == S2 \o StepsPart
<1>1. Script = S3 \o Closing
  BY DEF Script, Opening, RoundsPart, StepsPart, Closing
<1>2. /\ Rounds \in Nat /\ Steps \in Nat
      /\ RoundsEnd \in Nat /\ StepsEnd \in Nat /\ ScriptEnd \in Nat
  BY ScriptAssumption DEF RoundsEnd, StepsEnd, ScriptEnd
<1>3. /\ S2 \in Seq(ScriptEntries) /\ Len(S2) = RoundsEnd
      /\ \A i \in 1..RoundsEnd :
           S2[i] = IF i <= 3 THEN Opening[i] ELSE RoundsPart[i - 3]
  <2>1. /\ S2 \in Seq(ScriptEntries)
        /\ Len(S2) = Len(Opening) + Len(RoundsPart)
        /\ \A i \in 1..(Len(Opening) + Len(RoundsPart)) :
             S2[i] = IF i <= Len(Opening) THEN Opening[i]
                       ELSE RoundsPart[i - Len(Opening)]
    BY ScriptParts, ConcatProperties, Zenon
  <2> QED  BY <1>2, <2>1, ScriptParts DEF RoundsEnd
<1>4. /\ S3 \in Seq(ScriptEntries) /\ Len(S3) = StepsEnd
      /\ \A i \in 1..StepsEnd :
           S3[i] = IF i <= RoundsEnd THEN S2[i] ELSE StepsPart[i - RoundsEnd]
  <2> HIDE DEF S2
  <2>1. /\ S3 \in Seq(ScriptEntries)
        /\ Len(S3) = Len(S2) + Len(StepsPart)
        /\ \A i \in 1..(Len(S2) + Len(StepsPart)) :
             S3[i] = IF i <= Len(S2) THEN S2[i]
                       ELSE StepsPart[i - Len(S2)]
    BY <1>3, ScriptParts, ConcatProperties, Zenon
  <2> QED  BY <1>2, <1>3, <2>1, ScriptParts DEF StepsEnd
<1>5. /\ Script \in Seq(ScriptEntries) /\ Len(Script) = ScriptEnd
      /\ \A i \in 1..ScriptEnd :
           Script[i] = IF i <= StepsEnd THEN S3[i] ELSE Closing[i - StepsEnd]
  <2> HIDE DEF S3
  <2>1. /\ Script \in Seq(ScriptEntries)
        /\ Len(Script) = Len(S3) + Len(Closing)
        /\ \A i \in 1..(Len(S3) + Len(Closing)) :
             Script[i] = IF i <= Len(S3) THEN S3[i]
                       ELSE Closing[i - Len(S3)]
    BY <1>1, <1>4, ScriptParts, ConcatProperties, Zenon
  <2> QED  BY <1>2, <1>1, <1>4, <2>1, ScriptParts DEF ScriptEnd
<1>6. DOMAIN Script = 1..ScriptEnd
  BY <1>5, LenProperties
<1> HIDE DEF S2, S3
<1>7. /\ Script[1] = Opening[1] /\ Script[2] = Opening[2]
      /\ Script[3] = Opening[3]
      /\ \A i \in 4..RoundsEnd : Script[i] = RoundsPart[i - 3]
      /\ \A i \in (RoundsEnd + 1)..StepsEnd :
           Script[i] = StepsPart[i - RoundsEnd]
      /\ Script[StepsEnd + 1] = Closing[1] /\ Script[ScriptEnd] = Closing[2]
  <2>1. ASSUME NEW i \in 1..3
        PROVE  Script[i] = Opening[i]
    <3>1. /\ i <= 3 /\ i <= RoundsEnd /\ i <= StepsEnd
          /\ i \in 1..RoundsEnd /\ i \in 1..StepsEnd /\ i \in 1..ScriptEnd
      BY <1>2 DEF RoundsEnd, StepsEnd, ScriptEnd
    <3> QED  BY <1>3, <1>4, <1>5, <3>1
  <2>2. ASSUME NEW i \in 4..RoundsEnd
        PROVE  Script[i] = RoundsPart[i - 3]
    BY <1>2, <1>3, <1>4, <1>5 DEF StepsEnd, ScriptEnd
  <2>3. ASSUME NEW i \in (RoundsEnd + 1)..StepsEnd
        PROVE  Script[i] = StepsPart[i - RoundsEnd]
    BY <1>2, <1>4, <1>5 DEF ScriptEnd
  <2>4. Script[StepsEnd + 1] = Closing[1] /\ Script[ScriptEnd] = Closing[2]
    BY <1>2, <1>5 DEF ScriptEnd
  <2> QED  BY <2>1, <2>2, <2>3, <2>4
<1>8. ASSUME NEW i \in 4..RoundsEnd
      PROVE  Script[i].call = IF i % 2 = 0 THEN "resume" ELSE "stop"
  <2>1. /\ i - 3 \in 1..(2 * Rounds)
        /\ (i - 3) % 2 = 1 - (i % 2) /\ i % 2 \in {0, 1}
    BY <1>2 DEF RoundsEnd
  <2>2. RoundsPart[i - 3] = IF i % 2 = 0 THEN Entry("resume", i - 3 > 1)
                                         ELSE Entry("stop", TRUE)
    <3>1. \A j \in 1..(2 * Rounds) :
            RoundsPart[j] = IF j % 2 = 1 THEN Entry("resume", j > 1)
                                         ELSE Entry("stop", TRUE)
      BY DEF RoundsPart
    <3>2. (i - 3) % 2 = 1 <=> i % 2 = 0
      BY <2>1
    <3> QED  BY <2>1, <3>1, <3>2, Zenon
  <2> QED  BY <1>7, <2>2 DEF Entry
<1>9. ASSUME NEW i \in (RoundsEnd + 1)..StepsEnd
      PROVE  Script[i].call = IF i % 2 = 0 THEN "step" ELSE "read_pc"
  <2>1. /\ i - RoundsEnd \in 1..(2 * Steps)
        /\ (i - RoundsEnd) % 2 = 1 - (i % 2) /\ i % 2 \in {0, 1}
    BY <1>2 DEF RoundsEnd, StepsEnd
  <2>2. StepsPart[i - RoundsEnd] =
          IF i % 2 = 0 THEN Entry("step", i - RoundsEnd = 1)
                       ELSE Entry("read_pc", FALSE)
    <3>1. \A j \in 1..(2 * Steps) :
            StepsPart[j] = IF j % 2 = 1 THEN Entry("step", j = 1)
                                        ELSE Entry("read_pc", FALSE)
      BY DEF StepsPart
    <3>2. (i - RoundsEnd) % 2 = 1 <=> i % 2 = 0
      BY <2>1
    <3> QED  BY <2>1, <3>1, <3>2, Zenon
  <2> QED  BY <1>7, <2>2 DEF Entry
<1> QED  BY <1>6, <1>7, <1>8, <1>9 DEF Opening, Closing, Entry

-----------------------------------------------------------------------------
(* The inductive invariant, besides that of MachProcess. *)

\* m_status when main() is about to make the call at i.
Due(i) ==
  IF i = 1 \/ i = ScriptEnd + 1 THEN "DETACH"
  ELSE IF i = ScriptEnd \/ (i \in 5..RoundsEnd /\ i % 2 = 1) THEN "RUNNING"
  ELSE "STOP"

ScriptInv ==
  /\ at \in 1..(ScriptEnd + 1)
  /\ mainPc = "idle" => m_status = Due(at)
  /\ mainPc \notin {"idle", "aborted"} => at > 1 /\ op = Script[at - 1].call
  /\ op = "detach" /\ mainPc \in TaskResumeCall => m_status = "DETACH"

\* Up to the first Resume, while the task lives: nothing has happened before
\* Attach; afterwards its SIGSTOP is pending or a message is on its way, and
\* the task is suspended once a message is held.
Before ==
  /\ mainPc \in {"idle", "start"}
  /\ ~sigstop /\ ~jobstop /\ queue = <<>> /\ m_exception_messages = <<>>
  /\ \A t \in Threads : thread[t] = "run"
  /\ ~routed

Listening ==
  /\ routed /\ m_exception_port /\ ~cancelled /\ ~jobstop
  /\ excPc # "exited"
  /\ Holding => suspend_count > 0

StopUnderWay ==
  \/ sigstop \/ queue # <<>>
  \/ excPc \in Handling \/ m_exception_messages # <<>>

EarlyInv ==
  at \in 1..3 /\ alive /\ mainPc # "aborted" =>
    /\ at = 1 \/ mainPc = "start" => excPc = "none"
    /\ IF excPc = "none" THEN Before ELSE Listening
    /\ excPc \notin Handling => message = NoMessage
    /\ mainPc = "sleep" \/ (mainPc = "idle" /\ at > 1) =>
         excPc # "none" /\ StopUnderWay
    /\ BlockedThreadHeld

\* After the read the task stays suspended.
AccessInv ==
  at = 3 /\ mainPc # "aborted" => suspend_count > 0 \/ ~alive

ControllerInv == ScriptInv /\ EarlyInv /\ AccessInv

-----------------------------------------------------------------------------
(* The proofs. *)

\* The script asks of each call what the call before has left.
LEMMA Dues ==
  ASSUME NEW i \in 1..ScriptEnd, NEW c, c = Script[i].call
  PROVE  /\ c \in {"attach", "stop", "step"} => Due(i + 1) = "STOP"
         /\ c = "resume" => Due(i + 1) = "RUNNING"
         /\ c = "detach" => Due(i + 1) = "DETACH"
         /\ c \in {"read", "write", "read_pc"} => Due(i + 1) = Due(i)
         /\ c \in {"attach", "read", "write", "resume", "stop", "step",
                   "read_pc", "detach"}
         /\ c = "attach" <=> i = 1
         /\ c = "read" <=> i = 2
         /\ c = "write" <=> i = 3
         /\ Due(i) \in Asserted(c)
<1>1. /\ Rounds \in Nat \ {0} /\ Steps \in Nat \ {0}
      /\ RoundsEnd = 3 + 2 * Rounds /\ StepsEnd = RoundsEnd + 2 * Steps
      /\ ScriptEnd = StepsEnd + 2
      /\ RoundsEnd \in Nat /\ StepsEnd \in Nat /\ ScriptEnd \in Nat
  BY ScriptAssumption DEF RoundsEnd, StepsEnd, ScriptEnd
<1>2. CASE i \in 1..3
  <2>1. /\ i \in {1, 2, 3} /\ i + 1 \in {2, 3, 4}
        /\ i # ScriptEnd /\ i # ScriptEnd + 1
        /\ i + 1 # ScriptEnd /\ i + 1 # ScriptEnd + 1
        /\ i + 1 \notin 5..RoundsEnd /\ i \notin 5..RoundsEnd
    BY <1>1, <1>2
  <2>2. Due(i + 1) = "STOP" /\ Due(i) = IF i = 1 THEN "DETACH" ELSE "STOP"
    BY <2>1 DEF Due
  <2>3. c = IF i = 1 THEN "attach" ELSE IF i = 2 THEN "read" ELSE "write"
    BY <2>1, ScriptCalls DEF Entry
  <2> QED  BY <2>1, <2>2, <2>3 DEF Asserted
<1>3. CASE i \in 4..RoundsEnd /\ i % 2 = 0
  <2>1. /\ i # 1 /\ i # ScriptEnd /\ i # ScriptEnd + 1
        /\ i + 1 # 1 /\ i + 1 # ScriptEnd + 1
        /\ i + 1 \in 5..RoundsEnd /\ (i + 1) % 2 = 1
    BY <1>1, <1>3
  <2>2. Due(i + 1) = "RUNNING" /\ Due(i) = "STOP"
    BY <1>3, <2>1 DEF Due
  <2>3. c = "resume" /\ i \notin {1, 2, 3}
    BY <1>3, ScriptCalls
  <2> QED  BY <2>2, <2>3 DEF Asserted
<1>4. CASE i \in 4..RoundsEnd /\ i % 2 = 1
  <2>1. /\ i # 1 /\ i # ScriptEnd /\ i # ScriptEnd + 1 /\ i \in 5..RoundsEnd
        /\ i + 1 # 1 /\ i + 1 # ScriptEnd /\ i + 1 # ScriptEnd + 1
        /\ (i + 1) % 2 # 1
    BY <1>1, <1>4
  <2>2. Due(i + 1) = "STOP" /\ Due(i) = "RUNNING"
    BY <1>4, <2>1 DEF Due
  <2>3. c = "stop" /\ i \notin {1, 2, 3}
    BY <1>4, ScriptCalls
  <2> QED  BY <2>2, <2>3 DEF Asserted
<1>5. CASE i \in (RoundsEnd + 1)..StepsEnd
  <2>1. /\ i # 1 /\ i # ScriptEnd /\ i # ScriptEnd + 1 /\ i \notin 5..RoundsEnd
        /\ i + 1 # 1 /\ i + 1 # ScriptEnd /\ i + 1 # ScriptEnd + 1
        /\ i + 1 \notin 5..RoundsEnd /\ i \notin {1, 2, 3}
    BY <1>1, <1>5
  <2>2. Due(i + 1) = "STOP" /\ Due(i) = "STOP"
    BY <2>1 DEF Due
  <2>3. c \in {"step", "read_pc"}
    BY <1>5, ScriptCalls
  <2> QED  BY <2>1, <2>2, <2>3 DEF Asserted
<1>6. CASE i = StepsEnd + 1
  <2>1. /\ i # 1 /\ i # ScriptEnd /\ i # ScriptEnd + 1 /\ i \notin 5..RoundsEnd
        /\ i + 1 # 1 /\ i + 1 = ScriptEnd /\ i + 1 # ScriptEnd + 1
        /\ i \notin {1, 2, 3}
    BY <1>1, <1>6
  <2>2. Due(i + 1) = "RUNNING" /\ Due(i) = "STOP"
    BY <2>1 DEF Due
  <2>3. c = "resume"
    BY <1>6, ScriptCalls
  <2> QED  BY <2>1, <2>2, <2>3 DEF Asserted
<1>7. CASE i = ScriptEnd
  <2>1. i # 1 /\ i # ScriptEnd + 1 /\ i \notin {1, 2, 3}
    BY <1>1, <1>7
  <2>2. Due(i + 1) = "DETACH" /\ Due(i) = "RUNNING"
    BY <1>7, <2>1 DEF Due
  <2>3. c = "detach"
    BY <1>7, ScriptCalls
  <2> QED  BY <2>1, <2>2, <2>3 DEF Asserted
<1> QED
  <2>1. \/ i \in 1..3 \/ i \in 4..RoundsEnd \/ i \in (RoundsEnd + 1)..StepsEnd
        \/ i = StepsEnd + 1 \/ i = ScriptEnd
    BY <1>1
  <2>2. i % 2 \in {0, 1}
    OBVIOUS
  <2> QED  BY <1>2, <1>3, <1>4, <1>5, <1>6, <1>7, <2>1, <2>2

\* main() makes the call that is due, and no assert fails.
LEMMA CallMade ==
  ASSUME ScriptInv, MainCall, NEW c, c = Script[at].call
  PROVE  /\ at \in 1..ScriptEnd /\ at' = at + 1 /\ mainPc = "idle"
         /\ m_status = Due(at) /\ Invoke(c)
<1>1. at \in 1..ScriptEnd /\ mainPc = "idle" /\ at' = at + 1
  BY ScriptCalls DEF MainCall, Pending
<1>2. m_status = Due(at) /\ Due(at) \in Asserted(c)
  BY <1>1, Dues DEF ScriptInv
<1> QED  BY <1>1, <1>2 DEF MainCall

\* What the calls do.
LEMMA Invoked ==
  ASSUME NEW c \in {"attach", "read", "write", "resume", "stop", "step",
                    "read_pc", "detach"},
         Invoke(c)
  PROVE  \/ c = "attach" /\ Attach
         \/ c = "resume" /\ Resume
         \/ c = "stop" /\ Stop
         \/ c = "step" /\ SingleStep
         \/ c = "detach" /\ Detach
         \/ c \in {"read", "write", "read_pc"} /\ UNCHANGED vars
         \/ c = "read_pc" /\ Abort
BY DEF Invoke, ReadMemory, WriteMemory, ReadRegister

\* The debugger may end in any state.
LEMMA AbortKeeps ==
  ASSUME IInv, Abort
  PROVE  IInv'
<1> USE DEF Abort, kernelVars
<1>1. TypeInv'
  BY
  DEF IInv, TypeInv, TypeOK, KernelTypeOK, TaskTypeOK, MessageInHand,
      CountPositive, Handling, Ops, MainPcs
<1>2. ControlInv' /\ CountInv'
  BY
  DEF ControlInv, OpMatches, StatusMatches, ThreadGone, NoSession, CountInv,
      SuspendAccounted, CountZero, ClientCall, DetachCall, TaskResumeCall
<1>3. ReplyInv'
  BY DEF IInv, ReplyInv, Cursor, Awaiting, OneMessage, Live, Handling
<1> QED  BY <1>1, <1>2, <1>3 DEF IInv

\* A step of the script is one of MachProcess, or ends the debugger.
LEMMA MachProcessStep ==
  ASSUME IInv, ScriptInv, [ScriptNext]_scriptVars
  PROVE  IInv'
<1>1. [Next]_vars => IInv'
  BY TypeStep, ControlStep, CountStep, ReplyStep DEF IInv
<1>2. CASE MainCall
  <2> DEFINE c == Script[at].call
  <2>1. /\ Invoke(c)
        /\ c \in {"attach", "read", "write", "resume", "stop", "step",
                  "read_pc", "detach"}
    BY <1>2, CallMade, Dues
  <2>2. Next \/ UNCHANGED vars \/ Abort
    BY <2>1, Invoked DEF Next, Client
  <2> QED  BY <1>1, <2>2, AbortKeeps
<1>3. CASE Running
  BY <1>1, <1>3 DEF Running, Next
<1>4. CASE Ended \/ UNCHANGED scriptVars
  BY <1>1, <1>4 DEF Ended, scriptVars
<1> QED  BY <1>2, <1>3, <1>4 DEF ScriptNext

\* Every step keeps main() and the call under way in step with the script.
LEMMA ScriptStep ==
  ASSUME IInv, ScriptInv, [ScriptNext]_scriptVars
  PROVE  ScriptInv'
<1> USE
    DEF TaskResumeCall, kernelVars, taskVars, processVars, excFrame, mainFrame,
        Goto, Call, Abort
<1>1. CASE MainCall
  <2> DEFINE c == Script[at].call
  <2>1. /\ Invoke(c) /\ at \in 1..ScriptEnd /\ at' = at + 1
        /\ mainPc = "idle" /\ m_status = Due(at)
    BY <1>1, CallMade
  <2>2. /\ c \in {"attach", "stop", "step"} => Due(at + 1) = "STOP"
        /\ c \in {"read", "write", "read_pc"} => Due(at + 1) = Due(at)
        /\ c \in {"attach", "read", "write", "resume", "stop", "step",
                  "read_pc", "detach"}
    BY <2>1, Dues
  <2>3. /\ at' \in 1..(ScriptEnd + 1) /\ at' > 1 /\ at' - 1 = at
    BY <2>1, ScriptAssumption DEF ScriptEnd, StepsEnd, RoundsEnd
  <2>4. CASE c = "attach" /\ Attach
    BY <2>1, <2>3, <2>4 DEF ScriptInv, Attach
  <2>5. CASE c = "resume" /\ Resume
    BY <2>1, <2>3, <2>5 DEF ScriptInv, Resume
  <2>6. CASE c = "stop" /\ Stop
    BY <2>1, <2>2, <2>3, <2>6 DEF ScriptInv, Stop, IInv, ControlInv, OpMatches
  <2>7. CASE c = "step" /\ SingleStep
    BY <2>1, <2>3, <2>7 DEF ScriptInv, SingleStep
  <2>8. CASE c = "detach" /\ Detach
    BY <2>1, <2>3, <2>8 DEF ScriptInv, Detach
  <2>9. CASE c \in {"read", "write", "read_pc"} /\ UNCHANGED vars
    BY <2>1, <2>2, <2>3, <2>9 DEF ScriptInv, vars
  <2>10. CASE Abort
    BY <2>3, <2>10 DEF ScriptInv
  <2> QED
    BY <2>1, <2>2, <2>4, <2>5, <2>6, <2>7, <2>8, <2>9, <2>10, Invoked
<1>2. CASE Running
  <2> USE DEF ScriptInv, IInv, ControlInv, OpMatches
  <2>1. at' = at /\ (ExceptionThread \/ MainThread \/ Mishap \/ Inferior)
    BY <1>2 DEF Running
  <2>2. CASE ExceptionThread
    BY <2>1, <2>2
    DEF ExceptionThread, LoopTest, ReadPortName, EnterReceive, ReceiveSuccess,
        ReceiveTimedOut, TestPortAfterInterrupt, TaskIsValid, SuspendIfFirst,
        TestSingleStep, DisableSingleStep, StepDone, PushMessage
  <2>3. ASSUME mainPc # "idle", mainPc # "aborted"
        PROVE  /\ op = "attach" => Due(at) = "STOP"
               /\ op = "step" => Due(at) = "STOP"
               /\ op = "resume" => Due(at) = "RUNNING"
               /\ op = "detach" => Due(at) = "DETACH"
    <3>1. /\ at - 1 \in 1..ScriptEnd /\ op = Script[at - 1].call
          /\ (at - 1) + 1 = at
      BY <2>3, ScriptAssumption DEF ScriptEnd, StepsEnd, RoundsEnd
    <3> QED  BY <3>1, Dues
  <2>4. CASE ReturnFromResume
    BY <2>1, <2>3, <2>4 DEF ReturnFromResume, ClientCall
  <2>5. CASE SpinEnds
    BY <2>1, <2>3, <2>5 DEF SpinEnds
  <2>6. CASE AttachDone
    BY <2>1, <2>3, <2>6 DEF AttachDone
  <2>7. CASE PtraceDetach
    BY <2>1, <2>7 DEF PtraceDetach
  <2>8. CASE \/ ReplyCheck \/ ReplyOne \/ ReplyClear \/ TaskBasicInfo
             \/ TaskResume \/ EnableSingleStep \/ SpinTurn \/ SingleStepThrows
    BY <2>1, <2>8
    DEF ReplyCheck, ReplyOne, ReplyClear, TaskBasicInfo, TaskResume,
        EnableSingleStep, SpinTurn, vars, SingleStepThrows, ClientCall
  <2>9. CASE \/ StartExceptionThread \/ PtraceAttach
             \/ RestoreExceptionPortInfo \/ NullExceptionPort
             \/ CancelExceptionThread \/ JoinExceptionThread
    BY <2>1, <2>9
    DEF StartExceptionThread, PtraceAttach, RestoreExceptionPortInfo,
        NullExceptionPort, CancelExceptionThread, JoinExceptionThread
  <2>10. CASE Mishap
    BY <2>1, <2>10, ScriptAssumption
    DEF Mishap, AttachFails, AttachThrows, VectorRace, ReceiveInterrupted,
        CancelledInWrite
  <2>11. CASE Inferior
    BY <2>1, <2>11 DEF Inferior
  <2> QED
    BY <2>1, <2>2, <2>4, <2>5, <2>6, <2>7, <2>8, <2>9, <2>10, <2>11
    DEF MainThread
<1>3. CASE Ended \/ UNCHANGED scriptVars
  BY <1>3 DEF Ended, scriptVars, vars, ScriptInv
<1> QED  BY <1>1, <1>2, <1>3 DEF ScriptNext

\* Up to the first Resume main() is nowhere but in Attach, or between calls.
LEMMA EarlyPlace ==
  ASSUME IInv, ScriptInv, at \in 1..3
  PROVE  /\ mainPc \in {"idle", "start", "ptrace", "sleep", "aborted"}
         /\ at # 2 => mainPc \in {"idle", "aborted"}
<1> SUFFICES ASSUME mainPc \notin {"idle", "aborted"}
             PROVE  at = 2 /\ mainPc \in {"start", "ptrace", "sleep"}
  OBVIOUS
<1>1. /\ op = Script[at - 1].call /\ at > 1 /\ op \in Ops
      /\ at - 1 \in {1, 2}
  BY DEF ScriptInv, IInv, TypeInv, TypeOK
<1>2. op = "attach" /\ at = 2
  BY <1>1, ScriptCalls DEF Entry, Ops
<1> QED
  BY <1>2
  DEF IInv, TypeInv, TypeOK, MainPcs, ControlInv, OpMatches, ClientCall,
      DetachCall, TaskResumeCall

\* After the first sleep the SIGSTOP of PT_ATTACHEXC has been taken, its
\* message received and the task suspended, unless the process has died.
LEMMA SleptSuspended ==
  ASSUME IInv, ScriptInv, EarlyInv, at = 2, mainPc = "idle", Quiet
  PROVE  suspend_count > 0 \/ ~alive
<1> SUFFICES ASSUME alive
             PROVE  suspend_count > 0
  OBVIOUS
<1>1. /\ excPc # "none" /\ Listening /\ StopUnderWay /\ BlockedThreadHeld
      /\ excPc = "recv" => message = NoMessage
  BY DEF EarlyInv, Handling
<1>2. excPc = "recv" /\ queue = <<>> /\ message = NoMessage
  BY <1>1 DEF Quiet, Listening
<1>3. CASE m_exception_messages # <<>>
  BY <1>1, <1>3 DEF Listening, Holding
<1>4. CASE m_exception_messages = <<>>
  <2>1. sigstop
    BY <1>1, <1>2, <1>4 DEF StopUnderWay, Handling
  <2>2. \A t \in Threads : thread[t] # "raised"
    <3>1. /\ DOMAIN queue = {} /\ Len(m_exception_messages) = 0
          /\ pos \in Nat /\ pos > 0
      BY <1>2, <1>4 DEF IInv, TypeInv, TypeOK, ReplyInv, Cursor
    <3>2. \A t \in Threads : ~Queued(t) /\ message # t
      BY <1>2, <3>1, KernelAssumption DEF Queued
    <3>3. pos..Len(m_exception_messages) = {}
      BY <3>1
    <3> QED  BY <1>1, <3>2, <3>3 DEF BlockedThreadHeld
  <2>3. PICK t \in Threads : TRUE
    BY KernelAssumption
  <2>4. thread[t] = "run" /\ ~Runs(t)
    BY <1>2, <2>1, <2>2 DEF IInv, TypeInv, TypeOK, KernelTypeOK, Quiet
  <2> QED
    BY <1>1, <2>4 DEF Runs, Listening, IInv, TypeInv, TypeOK, KernelTypeOK
<1> QED  BY <1>3, <1>4

\* Every step keeps it so that, up to the first Resume, the SIGSTOP of Attach
\* or a message is on its way and no message is lost.
LEMMA EarlyStep ==
  ASSUME IInv, ScriptInv, EarlyInv, [ScriptNext]_scriptVars
  PROVE  EarlyInv'
<1> SUFFICES ASSUME at' \in 1..3, alive', mainPc' # "aborted"
             PROVE  EarlyInv'
  BY DEF EarlyInv
<1> USE KernelAssumption
    DEF IInv, TypeInv, TypeOK, KernelTypeOK, TaskTypeOK, ReplyInv, Cursor,
        EarlyInv, Before, Listening, StopUnderWay, Holding, Handling,
        BlockedThreadHeld, Queued, kernelVars, taskVars, processVars, excFrame,
        mainFrame, Goto, Call, Abort
<1>1. CASE MainCall
  <2> DEFINE c == Script[at].call
  <2>1. /\ Invoke(c) /\ at \in 1..ScriptEnd /\ at' = at + 1
        /\ mainPc = "idle" /\ at \in 1..2
    BY <1>1, CallMade
  <2>2. /\ c \in {"attach", "read"}
        /\ c = "attach" <=> at = 1
    BY <2>1, ScriptCalls DEF Entry
  <2> HIDE DEF c
  <2>3. CASE c = "attach" /\ Attach
    BY <2>1, <2>2, <2>3 DEF Attach
  <2>4. CASE c = "read" /\ UNCHANGED vars
    BY <2>1, <2>2, <2>4 DEF vars
  <2>5. \/ c = "attach" /\ Attach
        \/ c = "read" /\ UNCHANGED vars
    <3> HIDE DEF Abort
    <3> QED  BY <2>1, <2>2, Invoked
  <2> QED  BY <2>3, <2>4, <2>5
<1>2. CASE Running
  <2>1. at' = at /\ (ExceptionThread \/ MainThread \/ Mishap \/ Inferior)
    BY <1>2 DEF Running
  <2>2. /\ mainPc \in {"idle", "start", "ptrace", "sleep", "aborted"}
        /\ at # 2 => mainPc \in {"idle", "aborted"}
    BY <2>1, EarlyPlace
  <2>3. CASE LoopTest /\ UNCHANGED processVars
    BY <2>1, <2>2, <2>3 DEF LoopTest, ExceptionPortIsValid
  <2>4. CASE EnterReceive /\ UNCHANGED processVars
    BY <2>1, <2>2, <2>4 DEF EnterReceive
  <2>5. CASE ReceiveSuccess /\ UNCHANGED processVars
    <3>1. /\ queue # <<>> /\ message' = Head(queue) /\ queue' = Tail(queue)
          /\ excPc = "recv" /\ excPc' = "received"
          /\ thread' = thread /\ suspend_count' = suspend_count
          /\ routed' = routed /\ jobstop' = jobstop /\ alive' = alive
          /\ m_exception_port' = m_exception_port /\ cancelled' = cancelled
          /\ m_exception_messages' = m_exception_messages
          /\ mainPc' = mainPc /\ pos' = pos
      BY <2>5 DEF ReceiveSuccess
    <3>2. /\ DOMAIN queue = 1..Len(queue) /\ DOMAIN queue' = 1..Len(queue')
          /\ Len(queue') = Len(queue) - 1 /\ Len(queue) \in Nat
          /\ \A i \in 1..Len(queue') : queue'[i] = queue[i + 1]
      BY <3>1, HeadTailProperties, LenProperties
    <3>3. ASSUME NEW t \in Threads, Queued(t)
          PROVE  Queued(t)' \/ message' = t
      <4>1. PICK i \in 1..Len(queue) : queue[i] = t
        BY <3>2, <3>3
      <4>2. CASE i = 1
        BY <3>1, <4>1, <4>2
      <4>3. CASE i # 1
        <5>1. i - 1 \in 1..Len(queue') /\ queue'[i - 1] = queue[i]
          BY <3>2, <4>3
        <5> QED  BY <3>2, <4>1, <5>1
      <4> QED  BY <4>2, <4>3
    <3>4. BlockedThreadHeld'
      <4> HIDE DEF Queued
      <4> QED  BY <2>1, <3>1, <3>3
    <3> HIDE DEF BlockedThreadHeld
    <3> QED  BY <2>1, <2>2, <3>1, <3>4
  <2>6. CASE ReceiveTimedOut /\ UNCHANGED processVars
    BY <2>1, <2>2, <2>6 DEF ReceiveTimedOut
  <2>7. CASE SuspendIfFirst
    BY <2>1, <2>2, <2>7 DEF SuspendIfFirst
  <2>8. CASE TestSingleStep
    BY <2>1, <2>2, <2>8 DEF TestSingleStep
  <2>9. CASE DisableSingleStep
    BY <2>1, <2>2, <2>9 DEF DisableSingleStep
  <2>10. CASE StepDone
    BY <2>1, <2>2, <2>10 DEF StepDone
  <2>11. CASE PushMessage
    BY <2>1, <2>2, <2>11 DEF PushMessage
  <2>12. CASE ReceiveInterrupted /\ UNCHANGED processVars
    BY <2>1, <2>2, <2>12 DEF ReceiveInterrupted, ExceptionPortIsValid
  <2>13. CASE CancelledInWrite /\ UNCHANGED processVars
    BY <2>1, <2>2, <2>13 DEF CancelledInWrite
  <2>20. CASE ReadPortName /\ UNCHANGED processVars
    BY <2>1, <2>2, <2>20 DEF ReadPortName
  <2>21. CASE TestPortAfterInterrupt /\ UNCHANGED processVars
    BY <2>1, <2>2, <2>21 DEF TestPortAfterInterrupt, ExceptionPortIsValid
  <2>22. CASE TaskIsValid /\ UNCHANGED processVars
    BY <2>1, <2>2, <2>22 DEF TaskIsValid
  <2>14. CASE StartExceptionThread
    BY <2>1, <2>2, <2>14 DEF StartExceptionThread
  <2>15. CASE PtraceAttach
    BY <2>1, <2>2, <2>15 DEF PtraceAttach
  <2>16. CASE AttachDone
    BY <2>1, <2>2, <2>16 DEF AttachDone
  <2>17. CASE Inferior
    <3>1. /\ UNCHANGED <<taskVars, processVars>> /\ KernelNext /\ alive
      BY <2>17 DEF Inferior, KernelNext, StepTrap, BreakTrap, TakeSignal, Exit
    <3>2. ASSUME NEW t \in Threads, routed, Runs(t), Raise(t),
                 UNCHANGED <<suspend_count, routed, jobstop, alive>>
          PROVE  EarlyInv'
      <4>1. /\ Len(queue') > 0 /\ queue' # <<>>
            /\ DOMAIN queue = 1..Len(queue) /\ DOMAIN queue' = 1..Len(queue')
            /\ Len(queue') = Len(queue) + 1 /\ Len(queue) \in Nat
            /\ queue'[Len(queue) + 1] = t
            /\ \A i \in 1..Len(queue) : queue'[i] = queue[i]
        BY <3>2, AppendProperties, LenProperties DEF Raise
      <4>2. Queued(t)' /\ \A u \in Threads : Queued(u) => Queued(u)'
        BY <4>1
      <4>3. \A u \in Threads : u # t => thread'[u] = thread[u]
        BY <3>2 DEF Raise
      <4>4. BlockedThreadHeld'
        <5> HIDE DEF Queued
        <5> QED  BY <2>1, <3>1, <4>2, <4>3
      <4> HIDE DEF BlockedThreadHeld
      <4> QED  BY <2>1, <2>2, <3>1, <3>2, <4>1, <4>4
    <3>3. ASSUME NEW t \in Threads, StepTrap(t)
          PROVE  EarlyInv'
      BY <3>2, <3>3 DEF StepTrap
    <3>4. ASSUME NEW t \in Threads, BreakTrap(t)
          PROVE  EarlyInv'
      BY <3>2, <3>4 DEF BreakTrap
    <3>5. ASSUME NEW t \in Threads, TakeSignal(t)
          PROVE  EarlyInv'
      <4>1. CASE routed
        BY <3>2, <3>5, <4>1 DEF TakeSignal
      <4>2. CASE ~routed
        BY <2>1, <2>2, <3>1, <3>5, <4>2 DEF TakeSignal
      <4> QED  BY <4>1, <4>2
    <3> QED  BY <3>1, <3>3, <3>4, <3>5 DEF KernelNext, Exit
  <2>18. ~AttachFails /\ ~AttachThrows /\ ~VectorRace /\ ~SingleStepThrows
    BY ScriptAssumption DEF AttachFails, AttachThrows, VectorRace,
       SingleStepThrows
  <2>19. MainThread => StartExceptionThread \/ PtraceAttach \/ AttachDone
    BY <2>2, <2>18
    DEF MainThread, ReplyCheck, ReplyOne, ReplyClear, TaskBasicInfo,
        TaskResume, ReturnFromResume, EnableSingleStep, SpinTurn, SpinEnds,
        RestoreExceptionPortInfo, NullExceptionPort, CancelExceptionThread,
        JoinExceptionThread, PtraceDetach
  <2> QED
    BY <2>1, <2>3, <2>4, <2>5, <2>6, <2>7, <2>8, <2>9, <2>10, <2>11, <2>12,
       <2>13, <2>14, <2>15, <2>16, <2>17, <2>18, <2>19, <2>20, <2>21, <2>22
    DEF ExceptionThread, Mishap
<1>3. CASE Ended \/ UNCHANGED scriptVars
  <2>1. at' = at /\ UNCHANGED <<kernelVars, taskVars, processVars>>
    BY <1>3 DEF Ended, scriptVars, vars
  <2>2. BlockedThreadHeld' = BlockedThreadHeld
    BY <2>1
  <2>3. /\ Before' = Before /\ Listening' = Listening
        /\ StopUnderWay' = StopUnderWay
    BY <2>1
  <2> HIDE DEF BlockedThreadHeld, Before, Listening, StopUnderWay
  <2> QED  BY <2>1, <2>2, <2>3
<1> QED  BY <1>1, <1>2, <1>3 DEF ScriptNext

\* From the read to the write nothing resumes the task.
LEMMA AccessStep ==
  ASSUME IInv, ControllerInv, [ScriptNext]_scriptVars
  PROVE  AccessInv'
<1> SUFFICES ASSUME at' = 3, mainPc' # "aborted"
             PROVE  suspend_count' > 0 \/ ~alive'
  BY DEF AccessInv
<1>1. CASE MainCall
  <2>1. /\ at \in Nat /\ at' = at + 1 /\ mainPc = "idle"
        /\ Script[at].slept => Quiet
        /\ Invoke(Script[at].call)
    BY <1>1, CallMade DEF MainCall, ControllerInv
  <2>2. at = 2 /\ Script[at] = Entry("read", TRUE)
    <3>1. at = 2
      BY <2>1
    <3> QED  BY <3>1, ScriptCalls
  <2>3. Quiet /\ UNCHANGED vars
    BY <2>1, <2>2 DEF Entry, Invoke, ReadMemory
  <2>4. suspend_count > 0 \/ ~alive
    BY <2>1, <2>2, <2>3, SleptSuspended DEF ControllerInv
  <2> QED  BY <2>3, <2>4 DEF vars, kernelVars
<1>2. CASE Running
  <2>1. at = 3 /\ (ExceptionThread \/ MainThread \/ Mishap \/ Inferior)
    BY <1>2 DEF Running
  <2>2. mainPc \in {"idle", "aborted"}
    BY <2>1, EarlyPlace DEF ControllerInv
  <2> USE
      DEF kernelVars, taskVars, processVars, excFrame, mainFrame, Goto, Call,
          Abort
  <2>3. ~MainThread /\ ~AttachFails /\ ~AttachThrows /\ ~VectorRace
    BY <2>2
    DEF MainThread, ReplyCheck, ReplyOne, ReplyClear, TaskBasicInfo,
        TaskResume, ReturnFromResume, EnableSingleStep, SpinTurn, SpinEnds,
        SingleStepThrows, StartExceptionThread, PtraceAttach, AttachDone,
        RestoreExceptionPortInfo, NullExceptionPort, CancelExceptionThread,
        JoinExceptionThread, PtraceDetach, AttachFails, AttachThrows,
        VectorRace
  <2>4. suspend_count \in Nat
    BY DEF IInv, TypeInv, TypeOK, KernelTypeOK
  <2>5. CASE ExceptionThread
    BY <2>1, <2>4, <2>5
    DEF ExceptionThread, LoopTest, ReadPortName, EnterReceive, ReceiveSuccess,
        ReceiveTimedOut, TestPortAfterInterrupt, TaskIsValid, SuspendIfFirst,
        TestSingleStep, DisableSingleStep, StepDone, PushMessage,
        ControllerInv, AccessInv
  <2>6. CASE Mishap
    BY <2>1, <2>3, <2>6
    DEF Mishap, ReceiveInterrupted, CancelledInWrite, ControllerInv, AccessInv
  <2>7. CASE Inferior
    BY <2>1, <2>7
    DEF Inferior, KernelNext, StepTrap, BreakTrap, TakeSignal, Exit,
        ControllerInv, AccessInv
  <2> QED  BY <2>1, <2>3, <2>5, <2>6, <2>7
<1>3. CASE Ended \/ UNCHANGED scriptVars
  BY <1>3
  DEF Ended, scriptVars, vars, kernelVars, processVars, ControllerInv,
      AccessInv
<1> QED  BY <1>1, <1>2, <1>3 DEF ScriptNext

\* IInv and ControllerInv hold initially and every step of main(), of the
\* exception thread and of the debugged threads keeps them.
LEMMA ScriptInvariance == ScriptSpec => [](IInv /\ ControllerInv)
<1>1. ScriptInit => IInv /\ ControllerInv
  <2> SUFFICES ASSUME ScriptInit
               PROVE  IInv /\ ControllerInv
    OBVIOUS
  <2>1. IInv
    BY TypeInit, ControlInit, ReplyInit DEF ScriptInit, IInv
  <2>2. ScriptInv
    BY ScriptAssumption
    DEF ScriptInit, Init, ScriptInv, Due, ScriptEnd, StepsEnd, RoundsEnd,
        TaskResumeCall
  <2>3. EarlyInv /\ AccessInv
    BY
    DEF ScriptInit, Init, KernelInit, TaskInit, EarlyInv, AccessInv, Before,
        BlockedThreadHeld, Queued
  <2> QED  BY <2>1, <2>2, <2>3 DEF ControllerInv
<1>2. IInv /\ ControllerInv /\ [ScriptNext]_scriptVars
        => (IInv /\ ControllerInv)'
  BY MachProcessStep, ScriptStep, EarlyStep, AccessStep DEF ControllerInv
<1> QED  BY <1>1, <1>2, PTL DEF ScriptSpec

-----------------------------------------------------------------------------
(* What the invariant is for. *)

\* However the exception thread and the debugged threads are scheduled, and
\* wherever the process dies, no assert at the head of an operation of
\* MachProcess.cpp fails in a call of main(), for every number of rounds and
\* of steps in main.cpp.
THEOREM AssertsAlwaysHold == ScriptSpec => []AssertsHold
<1>1. ScriptInv => AssertsHold
  <2> SUFFICES ASSUME ScriptInv, Pending
               PROVE  m_status \in Asserted(Script[at].call)
    BY DEF AssertsHold
  <2>1. at \in 1..ScriptEnd /\ m_status = Due(at)
    BY ScriptCalls DEF Pending, ScriptInv
  <2> QED  BY <2>1, Dues
<1> QED  BY <1>1, ScriptInvariance, PTL DEF ControllerInv

\* The memory main() reads after its sleep and writes right after that is the
\* memory of a suspended task, or of one that has died: the SIGSTOP of
\* PT_ATTACHEXC has been taken and its message has suspended the task, and
\* nothing resumes it before the first Resume.
THEOREM AccessIsSafe == ScriptSpec => []AccessFindsTaskSuspended
<1>1. IInv /\ ControllerInv => AccessFindsTaskSuspended
  <2> SUFFICES ASSUME IInv, ControllerInv, Pending,
                      Script[at].call \in {"read", "write"},
                      Script[at].slept => Quiet
               PROVE  suspend_count > 0 \/ ~alive
    BY DEF AccessFindsTaskSuspended
  <2>1. at \in 1..ScriptEnd /\ mainPc = "idle"
    BY ScriptCalls DEF Pending
  <2>2. at \in {2, 3}
    BY <2>1, Dues
  <2>3. CASE at = 2
    BY <2>1, <2>3, ScriptCalls, SleptSuspended DEF ControllerInv, Entry
  <2>4. CASE at = 3
    BY <2>1, <2>4 DEF ControllerInv, AccessInv
  <2> QED  BY <2>2, <2>3, <2>4
<1> QED  BY <1>1, ScriptInvariance, PTL

=============================================================================
