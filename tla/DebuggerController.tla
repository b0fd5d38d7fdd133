------------------------- MODULE DebuggerController -------------------------
(***************************************************************************)
(* main.cpp: DebuggerController and the fixed sequence of calls main()     *)
(* makes on it, with the sleeps it makes in between.  A sleep is taken to  *)
(* be long enough for the exception thread to come to rest (Quiet); where  *)
(* main() does not sleep, nothing is assumed.  main() makes one            *)
(* MachProcess, so the module is used with Settle and Reattach FALSE.      *)
(***************************************************************************)
EXTENDS MachProcess

CONSTANTS Rounds,  \* resume/stop rounds: 3 in main.cpp
          Steps    \* single steps: 100 in main.cpp

ASSUME ScriptAssumption ==
  /\ Rounds \in Nat \ {0} /\ Steps \in Nat \ {0}
  /\ ~Settle /\ ~Reattach

VARIABLE at   \* the next call of main()

scriptVars == <<vars, at>>

Entry(call, slept) == [call |-> call, slept |-> slept]

\* slept: main() sleeps right before the call.
Script ==
  <<Entry("attach", FALSE), Entry("read", TRUE), Entry("write", FALSE)>>
    \o [i \in 1..(2 * Rounds) |-> IF i % 2 = 1 THEN Entry("resume", i > 1)
                                               ELSE Entry("stop", TRUE)]
    \o [i \in 1..(2 * Steps) |-> IF i % 2 = 1 THEN Entry("step", i = 1)
                                              ELSE Entry("read_pc", FALSE)]
    \o <<Entry("resume", FALSE), Entry("detach", FALSE)>>

\* What the assert at the head of each operation asks for.
Asserted(call) ==
  CASE call = "attach" -> {"DETACH"}
    [] call = "stop" -> {"RUNNING"}
    [] call = "detach" -> {"RUNNING", "STOP"}
    [] call = "read_pc" -> {"DETACH", "RUNNING", "STOP"}
    [] OTHER -> {"STOP"}

ReadMemory == UNCHANGED vars

WriteMemory == UNCHANGED vars

\* task_threads and thread_get_state fail once the task is gone.
ReadRegister ==
  \/ alive /\ UNCHANGED vars
  \/ ~alive /\ Abort

Invoke(call) ==
  CASE call = "attach" -> Attach
    [] call = "resume" -> Resume
    [] call = "stop" -> Stop
    [] call = "step" -> SingleStep
    [] call = "detach" -> Detach
    [] call = "read" -> ReadMemory
    [] call = "write" -> WriteMemory
    [] call = "read_pc" -> ReadRegister

Pending == at \in DOMAIN Script /\ mainPc = "idle"

MainCall ==
  /\ Pending
  /\ Script[at].slept => Quiet
  /\ at' = at + 1
  /\ \/ m_status \in Asserted(Script[at].call) /\ Invoke(Script[at].call)
     \/ m_status \notin Asserted(Script[at].call) /\ Abort

Running ==
  /\ ExceptionThread \/ MainThread \/ Mishap \/ Inferior
  /\ UNCHANGED at

\* main() returned, or the debugger died.
Ended ==
  /\ mainPc = "aborted" \/ (mainPc = "idle" /\ at \notin DOMAIN Script)
  /\ UNCHANGED scriptVars

ScriptInit == Init /\ at = 1

ScriptNext == MainCall \/ Running \/ Ended

ScriptSpec == ScriptInit /\ [][ScriptNext]_scriptVars

ScriptFairSpec ==
  /\ ScriptSpec
  /\ Fairness
  /\ WF_scriptVars(MainCall)

-----------------------------------------------------------------------------
\* main() never trips the assert of an operation, however the exception
\* thread and the debugged threads are scheduled.
AssertsHold == Pending => m_status \in Asserted(Script[at].call)

\* The memory main() reads and writes after its first sleep belongs to a task
\* that is suspended, or dead, and that nothing will resume meanwhile.
AccessFindsTaskSuspended ==
  Pending /\ Script[at].call \in {"read", "write"}
    /\ (Script[at].slept => Quiet) =>
      suspend_count > 0 \/ ~alive

=============================================================================
