------------------------- MODULE MachProcessSession -------------------------
(***************************************************************************)
(* MachProcess implements DebugSession, for a client that leaves the       *)
(* exception thread enough time before each of its calls (Settle; main()   *)
(* sleeps before some of its calls only), attaches once (~Reattach), and a *)
(* process that does not die under the debugger (~MayExit).                *)
(***************************************************************************)
EXTENDS MachProcess

\* SingleStep marks the process as running while it spins; the client sees
\* STOP before and after.
SeenStatus == IF op = "step" THEN "STOP" ELSE m_status

HeldThreads == {t \in Threads : thread[t] = "raised"}

CallUnderWay ==
  CASE mainPc = "aborted" -> "aborted"
    [] op = "resume" /\ mainPc = "return" -> "resumed"
    [] op = "step" /\ mainPc \in {"return", "spin"} -> "stepped"
    [] OTHER -> op

Session ==
  INSTANCE DebugSession WITH
    status <- SeenStatus, held <- HeldThreads,
    suspended <- suspend_count > 0, call <- CallUnderWay

\* The two threads together keep the promises of DebugSession: every step of
\* the one or the other is a step of the session or changes nothing the client
\* sees, with no lock between them.
ImplementsSession == Session!Spec

=============================================================================
