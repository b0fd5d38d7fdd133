------------------------ MODULE ExceptionPortsProofs ------------------------
(***************************************************************************)
(* What Attach and Detach leave behind, for every set of exception types,  *)
(* ignored or unknown to the kernel, every number of sessions and every    *)
(* failure.                                                                *)
(***************************************************************************)
EXTENDS ExceptionPorts, TLAPS

-----------------------------------------------------------------------------
(* Types.  Nothing is assumed of the client here. *)

\* A failure of TaskPortForProcessID or Save finds an error without a code.
NoCode == pc \in {"task", "save"} => err.m_err = 0

\* There is a port left for the Attach under way, and it has one from
\* mach_port_allocate on.
PortAtHand ==
  /\ pc \in {"task", "allocate"} => allocated < MaxPorts
  /\ pc \in {"save", "set", "create"} => m_exception_port \in DebuggerPorts

TypeInv == TypeOK /\ NoCode /\ PortAtHand

\* The mask the kernel accepts is what it knows.
LEMMA SaveMaskIsKnown == SaveMask = Known
BY PortsAssumption DEF SaveMask, Known

\* The errors and the texts that the calls produce.
LEMMA ErrorTypes ==
  /\ NewError \in Errors /\ NewError.m_err = 0
  /\ Assign(0) \in Errors /\ Assign(0).m_err = 0
  /\ \A e \in Failures : Assign(e) \in Errors
  /\ \A e \in Errors : SetErrorString(e, NoPortInfo) \in Errors
BY DEF Errors, NewError, Assign, SetError, SetErrorString, Flavors

\* Every failure has a text of its own; only an error without a code says
\* success.
LEMMA ReasonTypes ==
  /\ {NoText, NoSuchProcess, SaysSuccess} \subseteq Reasons
  /\ \A e \in Failures : /\ AsString(Assign(e)) = <<"MachKernel", e>>
                         /\ <<"MachKernel", e>> \in Reasons
                         /\ <<"POSIX", e>> \in Reasons
                         /\ <<"MachKernel", e>> # SaysSuccess
                         /\ <<"POSIX", e>> # SaysSuccess
  /\ \A e \in Errors :
       e.m_err = 0 => /\ AsString(e) = SaysSuccess
                      /\ AsString(SetErrorString(e, NoPortInfo)) = SaysSuccess
<1>1. {NoText, NoSuchProcess, SaysSuccess} \subseteq Reasons
  BY DEF Reasons
<1>2. ASSUME NEW e \in Failures
      PROVE  /\ AsString(Assign(e)) = <<"MachKernel", e>>
             /\ <<"MachKernel", e>> \in Reasons
             /\ <<"POSIX", e>> \in Reasons
             /\ <<"MachKernel", e>> # SaysSuccess
             /\ <<"POSIX", e>> # SaysSuccess
  <2>1. e # 0
    BY PortsAssumption
  <2>2. AsString(Assign(e)) = <<"MachKernel", e>>
    BY <2>1 DEF AsString, Success, Assign, SetError, NoText
  <2>3. {"MachKernel", "POSIX"} \subseteq Flavors \ {"Generic"}
    BY DEF Flavors
  <2> QED  BY <2>2, <2>3 DEF Reasons, SaysSuccess
<1>3. ASSUME NEW e \in Errors, e.m_err = 0
      PROVE  /\ AsString(e) = SaysSuccess
             /\ AsString(SetErrorString(e, NoPortInfo)) = SaysSuccess
  BY <1>3 DEF AsString, Success, SetErrorString, Errors
<1> QED  BY <1>1, <1>2, <1>3

\* task_set_exception_ports keeps the map of ports well typed.
LEMMA SetPortsType ==
  ASSUME excPort \in [Pids -> [Known -> Ports]],
         NEW task \in Pids, NEW types, NEW port \in Ports,
         SetPorts(task, types, port)
  PROVE  /\ excPort' \in [Pids -> [Known -> Ports]]
         /\ \A p \in Pids \ {task} : excPort'[p] = excPort[p]
         /\ \A x \in Known :
              excPort'[task][x] = IF x \in types THEN port ELSE excPort[task][x]
BY DEF SetPorts


\* The values Save and Restore give m_exc_port_info.
LEMMA InfoTypes ==
  /\ NoInfo \in PortInfos
  /\ \A i \in PortInfos : \A S \in SUBSET i.groups :
       [i EXCEPT !.groups = S] \in PortInfos
<1>1. NoInfo \in PortInfos
  BY DEF NoInfo, PortInfos
<1>2. ASSUME NEW i \in PortInfos, NEW S \in SUBSET i.groups
      PROVE  [i EXCEPT !.groups = S] \in PortInfos
  BY DEF PortInfos
<1> QED  BY <1>1, <1>2

\* What Save puts on record is well typed.
LEMMA SavedType ==
  ASSUME excPort \in [Pids -> [Known -> Ports]], NEW task \in Pids
  PROVE  [mask |-> SaveMask \ Ignored, groups |-> Entries(task, SaveMask)]
           \in PortInfos
<1>1. Known \subseteq Types
  BY PortsAssumption DEF Known
<1>2. \A x \in Known : excPort[task][x] \in Ports
  OBVIOUS
<1>3. Entries(task, Known) \in SUBSET [types : SUBSET Known, port : Ports]
  BY <1>2 DEF Entries
<1> QED  BY <1>1, <1>3, SaveMaskIsKnown DEF PortInfos

\* The initial state is well typed.
LEMMA TypeInit == Init => TypeInv
<1> SUFFICES ASSUME Init PROVE TypeInv
  OBVIOUS
<1>1. excPort \in [Pids -> [Known -> Ports]]
  BY DEF Init, Ports
<1>2. taken \in [Known -> Ports] /\ raced \subseteq Known
  BY DEF Init, Ports
<1>3. 0 \in 0..MaxPorts
  BY PortsAssumption
<1>4. err \in Errors /\ reason \in Reasons /\ m_exc_port_info \in PortInfos
  BY ErrorTypes, ReasonTypes, InfoTypes DEF Init
<1>5. TypeOK
  BY <1>1, <1>2, <1>3, <1>4 DEF Init, TypeOK
<1> QED  BY <1>5 DEF Init, TypeInv, NoCode, PortAtHand

\* Every step keeps the types; what a refused call throws has a text.
LEMMA TypeStep ==
  ASSUME TypeInv, [Next]_vars
  PROVE  TypeInv'
<1> USE PortsAssumption, ErrorTypes, ReasonTypes
    DEF TypeInv, NoCode, PortAtHand, kernelVars, taskVars, history, Goto,
        Throw, ThrowErrno, Abort, Begin
<1>1. ASSUME NEW p \in Pids, Attach(p)
      PROVE  TypeInv'
  BY <1>1 DEF Attach, TypeOK
<1>2. CASE Detach
  BY <1>2 DEF Detach, TypeOK
<1>3. CASE TaskPortForProcessID
  BY <1>3 DEF TaskPortForProcessID, TypeOK
<1>4. CASE AllocatePort
  BY <1>4 DEF AllocatePort, TypeOK, DebuggerPorts
<1>5. CASE Save
  BY <1>5, SavedType, InfoTypes DEF Save, TypeOK
<1>6. CASE SetExceptionPorts
  BY <1>6, SetPortsType DEF SetExceptionPorts, TypeOK, Ports
<1>7. CASE CreateThread
  BY <1>7 DEF CreateThread, TypeOK, DebuggerPorts
<1>8. CASE PtraceAttach
  BY <1>8 DEF PtraceAttach, TypeOK
<1>9. CASE Restore
  <2>1. ASSUME NEW g \in m_exc_port_info.groups, m_task \in alive,
               SetPorts(m_task, g.types, g.port)
        PROVE  excPort' \in [Pids -> [Known -> Ports]]
    <3>1. g.port \in Ports
      BY DEF TypeOK, PortInfos
    <3> QED  BY <2>1, <3>1, SetPortsType DEF TypeOK
  <2>2. m_exc_port_info' \in PortInfos
    <3>1. m_exc_port_info \in PortInfos
      BY DEF TypeOK
    <3>2. \A S \in SUBSET m_exc_port_info.groups :
            [m_exc_port_info EXCEPT !.groups = S] \in PortInfos
      BY <3>1, InfoTypes
    <3>3. CASE m_exc_port_info' = [m_exc_port_info EXCEPT !.groups = {}]
      BY <3>2, <3>3
    <3>4. ASSUME NEW g,
                 m_exc_port_info' = [m_exc_port_info EXCEPT !.groups = @ \ {g}]
          PROVE  m_exc_port_info' \in PortInfos
      BY <3>2, <3>4
    <3> QED  BY <1>9, <3>1, <3>3, <3>4 DEF Restore
  <2>3. excPort' \in [Pids -> [Known -> Ports]]
    BY <1>9, <2>1 DEF Restore, TypeOK
  <2> QED  BY <1>9, <2>2, <2>3 DEF Restore, TypeOK
<1>10. CASE ShutDownThread
  BY <1>10 DEF ShutDownThread, TypeOK
<1>11. CASE DeallocatePort
  BY <1>11 DEF DeallocatePort, TypeOK
<1>12. CASE PtraceDetach
  BY <1>12 DEF PtraceDetach, TypeOK
<1>13. CASE TaskResume
  BY <1>13 DEF TaskResume, TypeOK
<1>14. ASSUME NEW p \in Pids, ProcessSetsPort(p)
       PROVE  TypeInv'
  BY <1>14, SetPortsType DEF ProcessSetsPort, TypeOK, Ports
<1>15. ASSUME NEW p \in Pids, ProcessExits(p)
       PROVE  TypeInv'
  BY <1>15 DEF ProcessExits, TypeOK
<1>16. CASE UNCHANGED vars
  BY <1>16 DEF vars, TypeOK
<1> QED
  BY <1>1, <1>2, <1>3, <1>4, <1>5, <1>6, <1>7, <1>8, <1>9, <1>10, <1>11,
     <1>12, <1>13, <1>14, <1>15, <1>16
  DEF Next, Debugger, Ended

-----------------------------------------------------------------------------
(* The ports, for a client that is careful.  The invariant, in parts. *)

\* Nothing is under way, no session is open, the last call did not throw.
Free == pc = "idle" /\ m_status = "DETACH" /\ ~thrown

\* A session is open, and the last call did not throw.
Open == pc = "idle" /\ m_status = "STOP" /\ ~thrown

\* Attach has not yet set a port.
Untaken == {"task", "allocate", "save", "set"}
Attaching == Untaken \cup {"create", "ptrace"}
\* Detach is behind its Restore.
GivenBack == {"shutdown", "deallocate", "pt_detach", "resume"}

ControlInv ==
  /\ pc \notin {"idle", "aborted"} => ~thrown
  /\ pc \in Attaching \cup {"resume"} => m_status = "DETACH"
  /\ pc \in {"restore", "shutdown", "deallocate", "pt_detach"} =>
       m_status = "STOP"
  /\ pc \in Attaching \cup {"restore"} \cup GivenBack => m_pid \in Pids
  /\ m_status = "STOP" => m_pid \in Pids /\ m_task = m_pid
  /\ m_task \in {NoPid, m_pid}
  /\ pc \in Attaching /\ pc # "task" => m_task = m_pid

\* There is an exception thread from CreateThread to ShutDownThread, and it
\* listens on the port of the session.
ThreadInv ==
  /\ Free \/ pc \in Untaken \cup {"create", "deallocate", "pt_detach", "resume"}
       => threads = {}
  /\ Open \/ pc \in {"ptrace", "restore", "shutdown"} =>
       threads = {m_exception_thread}
  /\ Open \/ pc = "ptrace" => m_exception_thread = m_exception_port

\* An entry of the record is what task_get_exception_ports found: the port
\* that is there at the set, then the one that was replaced, but for the types
\* the program set in between.
SavedInv ==
  /\ Free \/ pc \in {"task", "allocate", "save"} \cup GivenBack =>
       m_exc_port_info.groups = {}
  /\ pc = "set" =>
       /\ m_exc_port_info.mask = Known \ Ignored
       /\ \A x \in Known : \E g \in m_exc_port_info.groups : x \in g.types
       /\ \A g \in m_exc_port_info.groups : \A x \in g.types :
            x \in raced \/ g.port = excPort[m_task][x]
  /\ pc \notin {"set", "aborted"} =>
       \A g \in m_exc_port_info.groups : \A x \in g.types :
         x \in raced \/ g.port = taken[x]

Given(x) == x \in raced \/ excPort[m_pid][x] \in {taken[x], OwnPort}
Recorded(x) == \E g \in m_exc_port_info.groups : x \in g.types
Recoverable(x) ==
  \E g \in m_exc_port_info.groups :
    x \in g.types /\ (g.port = taken[x] \/ x \in raced)

\* What comes to the debugger is on record; Attach finds nothing of the kind;
\* and from SetExceptionPorts on whatever is not where it was is on record.
TakenInv ==
  m_pid \in Pids /\ ~refused =>
    /\ pc \in Untaken => \A x \in Known : excPort[m_pid][x] \notin DebuggerPorts
    /\ \A x \in Known : excPort[m_pid][x] \in DebuggerPorts => Recoverable(x)
    /\ m_status = "STOP" \/ pc \in {"create", "ptrace", "resume"} =>
         \A x \in Known : Given(x) \/ Recorded(x)

\* The debugger's ports are nowhere else: not in another process, not on
\* record, not behind an ignored exception.
OursInv ==
  /\ \A p \in Pids \ {m_pid}, x \in Known : excPort[p][x] \notin DebuggerPorts
  /\ \A g \in m_exc_port_info.groups : \A x \in g.types :
       ~refused \/ x \in Ignored => g.port \notin DebuggerPorts
  /\ Free /\ ~refused =>
       \A p \in Pids, x \in Known : excPort[p][x] \notin DebuggerPorts
  /\ \A p \in Pids, x \in Known \cap Ignored :
       excPort[p][x] \notin DebuggerPorts

RoutedInv ==
  Open \/ pc \in {"create", "ptrace"} =>
    \A x \in Known \ Ignored : excPort[m_pid][x] \in {m_exception_port, OwnPort}

CarefulInv ==
  /\ ControlInv /\ ThreadInv /\ SavedInv /\ TakenInv /\ OursInv /\ RoutedInv
  /\ SuccessTookNothing

\* One call follows another as the code has them, on one process.
LEMMA ControlStep ==
  ASSUME ~Careless, TypeInv, ControlInv, [Next]_vars
  PROVE  ControlInv'
<1> USE PortsAssumption
    DEF TypeInv, TypeOK, ControlInv, ClientMay, Free, Open, Untaken, Attaching,
        GivenBack, kernelVars, taskVars, history, Goto, Throw, ThrowErrno,
        Abort, Begin
<1>1. ASSUME NEW p \in Pids, Attach(p)
      PROVE  ControlInv'
  BY <1>1 DEF Attach
<1>2. CASE Detach
  BY <1>2 DEF Detach
<1>3. CASE TaskPortForProcessID
  BY <1>3 DEF TaskPortForProcessID
<1>4. CASE AllocatePort
  BY <1>4 DEF AllocatePort
<1>5. CASE Save
  BY <1>5 DEF Save
<1>6. CASE SetExceptionPorts
  BY <1>6 DEF SetExceptionPorts
<1>7. CASE CreateThread
  BY <1>7 DEF CreateThread
<1>8. CASE PtraceAttach
  BY <1>8 DEF PtraceAttach
<1>9. CASE Restore
  BY <1>9 DEF Restore
<1>10. CASE ShutDownThread
  BY <1>10 DEF ShutDownThread
<1>11. CASE DeallocatePort
  BY <1>11 DEF DeallocatePort
<1>12. CASE PtraceDetach
  BY <1>12 DEF PtraceDetach
<1>13. CASE TaskResume
  BY <1>13 DEF TaskResume
<1>14. ASSUME NEW p \in Pids, ProcessSetsPort(p)
       PROVE  ControlInv'
  BY <1>14 DEF ProcessSetsPort
<1>15. ASSUME NEW p \in Pids, ProcessExits(p)
       PROVE  ControlInv'
  BY <1>15 DEF ProcessExits
<1>16. CASE UNCHANGED vars
  BY <1>16 DEF vars
<1> QED
  BY <1>1, <1>2, <1>3, <1>4, <1>5, <1>6, <1>7, <1>8, <1>9, <1>10, <1>11,
     <1>12, <1>13, <1>14, <1>15, <1>16
  DEF Next, Debugger, Ended

\* A thread is made and joined once a session.
LEMMA ThreadStep ==
  ASSUME ~Careless, TypeInv, ControlInv, ThreadInv, [Next]_vars
  PROVE  ThreadInv'
<1> USE PortsAssumption
    DEF TypeInv, TypeOK, ControlInv, ThreadInv, ClientMay, Free, Open, Untaken,
        Attaching, GivenBack, kernelVars, taskVars, history, Goto, Throw,
        ThrowErrno, Abort, Begin
<1>1. ASSUME NEW p \in Pids, Attach(p)
      PROVE  ThreadInv'
  BY <1>1 DEF Attach
<1>2. CASE Detach
  BY <1>2 DEF Detach
<1>3. CASE TaskPortForProcessID
  BY <1>3 DEF TaskPortForProcessID
<1>4. CASE AllocatePort
  BY <1>4 DEF AllocatePort
<1>5. CASE Save
  BY <1>5 DEF Save
<1>6. CASE SetExceptionPorts
  BY <1>6 DEF SetExceptionPorts
<1>7. CASE CreateThread
  BY <1>7 DEF CreateThread
<1>8. CASE PtraceAttach
  BY <1>8 DEF PtraceAttach
<1>9. CASE Restore
  BY <1>9 DEF Restore
<1>10. CASE ShutDownThread
  BY <1>10 DEF ShutDownThread
<1>11. CASE DeallocatePort
  BY <1>11 DEF DeallocatePort
<1>12. CASE PtraceDetach
  BY <1>12 DEF PtraceDetach
<1>13. CASE TaskResume
  BY <1>13 DEF TaskResume
<1>14. ASSUME NEW p \in Pids, ProcessSetsPort(p)
       PROVE  ThreadInv'
  BY <1>14 DEF ProcessSetsPort
<1>15. ASSUME NEW p \in Pids, ProcessExits(p)
       PROVE  ThreadInv'
  BY <1>15 DEF ProcessExits
<1>16. CASE UNCHANGED vars
  BY <1>16 DEF vars
<1> QED
  BY <1>1, <1>2, <1>3, <1>4, <1>5, <1>6, <1>7, <1>8, <1>9, <1>10, <1>11,
     <1>12, <1>13, <1>14, <1>15, <1>16
  DEF Next, Debugger, Ended

\* task_get_exception_ports has every type of the mask, with its port.
LEMMA EntriesExact ==
  ASSUME NEW task
  PROVE  /\ \A x \in Known : \E g \in Entries(task, Known) : x \in g.types
         /\ \A g \in Entries(task, Known) : \A x \in g.types :
              x \in Known /\ g.port = excPort[task][x]
<1>1. ASSUME NEW x \in Known
      PROVE  \E g \in Entries(task, Known) : x \in g.types
  <2> DEFINE q == excPort[task][x]
             g == [types |-> {y \in Known : excPort[task][y] = q}, port |-> q]
  <2>1. g \in Entries(task, Known)
    BY DEF Entries
  <2>2. x \in g.types
    OBVIOUS
  <2> QED  BY <2>1, <2>2
<1>2. ASSUME NEW g \in Entries(task, Known), NEW x \in g.types
      PROVE  x \in Known /\ g.port = excPort[task][x]
  BY DEF Entries
<1> QED  BY <1>1, <1>2

\* The program's own port is none of the debugger's.
LEMMA OwnPortApart == OwnPort \in Ports /\ OwnPort \notin DebuggerPorts
BY PortsAssumption DEF Ports

\* A turn of the loop in Restore, and its end.
RestoresOne ==
  /\ \E g \in m_exc_port_info.groups :
       /\ g.port \in Ports /\ g.types \subseteq Known
       /\ m_exc_port_info'.groups = m_exc_port_info.groups \ {g}
       /\ \A p \in Pids \ {m_task} : excPort'[p] = excPort[p]
       /\ \A x \in Known :
            excPort'[m_task][x] =
              IF x \in g.types THEN g.port ELSE excPort[m_task][x]
  /\ UNCHANGED <<pc, thrown, reason, refused>>

RestoreEnds ==
  /\ m_exc_port_info'.groups = {}
  /\ (m_exc_port_info.groups = {} /\ UNCHANGED refused) \/ refused' = TRUE
  /\ pc' = "shutdown"
  /\ UNCHANGED <<excPort, thrown, reason>>

\* Restore takes a turn or ends.
LEMMA RestoreEffect ==
  ASSUME TypeInv, Restore
  PROVE  RestoresOne \/ RestoreEnds
<1> USE DEF TypeInv, TypeOK
<1>1. ASSUME NEW g \in m_exc_port_info.groups, m_task \in alive,
             SetPorts(m_task, g.types, g.port),
             m_exc_port_info' = [m_exc_port_info EXCEPT !.groups = @ \ {g}],
             UNCHANGED <<pc, thrown, reason, refused>>
      PROVE  RestoresOne
  <2>1. g.port \in Ports /\ g.types \subseteq Known
    BY DEF PortInfos
  <2>2. m_exc_port_info'.groups = m_exc_port_info.groups \ {g}
    BY <1>1 DEF PortInfos
  <2>3. /\ \A p \in Pids \ {m_task} : excPort'[p] = excPort[p]
        /\ \A x \in Known :
             excPort'[m_task][x] =
               IF x \in g.types THEN g.port ELSE excPort[m_task][x]
    BY <1>1, <2>1, SetPortsType
  <2> QED  BY <1>1, <2>1, <2>2, <2>3 DEF RestoresOne
<1>2. ASSUME m_exc_port_info' = [m_exc_port_info EXCEPT !.groups = {}]
      PROVE  m_exc_port_info'.groups = {}
  BY <1>2 DEF PortInfos
<1> QED  BY <1>1, <1>2 DEF Restore, RestoreEnds, Goto

\* What is on record stays right until Restore has used it up.
LEMMA SavedStep ==
  ASSUME ~Careless, TypeInv, ControlInv, SavedInv, [Next]_vars
  PROVE  SavedInv'
<1> USE PortsAssumption
    DEF TypeInv, TypeOK, ControlInv, SavedInv, ClientMay, Free, Open, Untaken,
        Attaching, GivenBack, kernelVars, taskVars, history, Goto, Throw,
        ThrowErrno, Abort, Begin
<1>1. ASSUME NEW p \in Pids, Attach(p)
      PROVE  SavedInv'
  BY <1>1 DEF Attach
<1>2. CASE Detach
  BY <1>2 DEF Detach
<1>3. CASE TaskPortForProcessID
  BY <1>3 DEF TaskPortForProcessID
<1>4. CASE AllocatePort
  BY <1>4 DEF AllocatePort
<1>5. CASE Save
  <2>1. CASE m_exc_port_info' = NoInfo /\ pc' = "idle"
    BY <1>5, <2>1 DEF Save, NoInfo
  <2>2. CASE /\ m_task \in alive
             /\ m_exc_port_info' = [mask |-> SaveMask \ Ignored,
                                    groups |-> Entries(m_task, SaveMask)]
    <3>1. /\ m_exc_port_info'.mask = Known \ Ignored
          /\ \A x \in Known :
               \E g \in m_exc_port_info'.groups : x \in g.types
          /\ \A g \in m_exc_port_info'.groups : \A x \in g.types :
               x \in Known /\ g.port = excPort[m_task][x]
      BY <2>2, SaveMaskIsKnown, EntriesExact
    <3> QED  BY <1>5, <2>2, <3>1 DEF Save, NoInfo
  <2> QED  BY <1>5, <2>1, <2>2 DEF Save
<1>6. CASE SetExceptionPorts
  BY <1>6 DEF SetExceptionPorts
<1>7. CASE CreateThread
  BY <1>7 DEF CreateThread
<1>8. CASE PtraceAttach
  BY <1>8 DEF PtraceAttach
<1>9. CASE Restore
  <2>1. \/ RestoresOne \/ RestoreEnds
    BY <1>9, RestoreEffect
  <2>2. CASE RestoresOne
    BY <1>9, <2>2 DEF Restore, RestoresOne
  <2>3. CASE RestoreEnds
    BY <1>9, <2>3 DEF Restore, RestoreEnds
  <2> QED  BY <2>1, <2>2, <2>3
<1>10. CASE ShutDownThread
  BY <1>10 DEF ShutDownThread
<1>11. CASE DeallocatePort
  BY <1>11 DEF DeallocatePort
<1>12. CASE PtraceDetach
  BY <1>12 DEF PtraceDetach
<1>13. CASE TaskResume
  BY <1>13 DEF TaskResume
<1>14. ASSUME NEW p \in Pids, ProcessSetsPort(p)
       PROVE  SavedInv'
  <2>1. PICK x \in Known :
          /\ SetPorts(p, {x}, OwnPort)
          /\ raced' = raced \cup {y \in {x} : pc = "set" /\ p = m_task}
    BY <1>14 DEF ProcessSetsPort
  <2>2. /\ \A q \in Pids \ {p} : excPort'[q] = excPort[q]
        /\ \A y \in Known :
             excPort'[p][y] = IF y \in {x} THEN OwnPort ELSE excPort[p][y]
    BY <2>1, OwnPortApart, SetPortsType
  <2>3. CASE pc = "set"
    <3>1. m_task \in Pids
      BY <2>3
    <3>2. \A g \in m_exc_port_info.groups : g.types \subseteq Known
      BY DEF PortInfos
    <3>3. ASSUME NEW g \in m_exc_port_info.groups, NEW y \in g.types
          PROVE  y \in raced' \/ g.port = excPort'[m_task][y]
      <4>1. y \in raced \/ g.port = excPort[m_task][y]
        BY <2>3
      <4>2. CASE p = m_task
        BY <2>1, <2>2, <2>3, <3>2, <4>1, <4>2
      <4>3. CASE p # m_task
        BY <2>1, <2>2, <3>1, <4>1, <4>3
      <4> QED  BY <4>2, <4>3
    <3> QED  BY <1>14, <2>3, <3>3 DEF ProcessSetsPort
  <2>4. CASE pc # "set"
    BY <1>14, <2>1, <2>4 DEF ProcessSetsPort
  <2> QED  BY <2>3, <2>4
<1>15. ASSUME NEW p \in Pids, ProcessExits(p)
       PROVE  SavedInv'
  BY <1>15 DEF ProcessExits
<1>16. CASE UNCHANGED vars
  BY <1>16 DEF vars
<1> QED
  BY <1>1, <1>2, <1>3, <1>4, <1>5, <1>6, <1>7, <1>8, <1>9, <1>10, <1>11,
     <1>12, <1>13, <1>14, <1>15, <1>16
  DEF Next, Debugger, Ended

\* SetExceptionPorts takes only what Save has on record, and Restore gives it
\* back before it drops the record.
LEMMA TakenStep ==
  ASSUME ~Careless, TypeInv, ControlInv, SavedInv, TakenInv, OursInv,
         [Next]_vars
  PROVE  TakenInv'
<1> USE PortsAssumption
    DEF TypeInv, TypeOK, ControlInv, SavedInv, TakenInv, OursInv, Given,
        Recorded, Recoverable, ClientMay, Free, Open, Untaken, Attaching,
        GivenBack, kernelVars, taskVars, history, Goto, Throw, ThrowErrno,
        Abort, Begin
<1>1. ASSUME NEW p \in Pids, Attach(p)
      PROVE  TakenInv'
  BY <1>1 DEF Attach
<1>2. CASE Detach
  BY <1>2 DEF Detach
<1>3. CASE TaskPortForProcessID
  BY <1>3 DEF TaskPortForProcessID
<1>4. CASE AllocatePort
  BY <1>4 DEF AllocatePort
<1>5. CASE Save
  <2>1. CASE m_exc_port_info' = NoInfo /\ pc' = "idle"
    BY <1>5, <2>1 DEF Save, NoInfo
  <2>2. CASE /\ m_task \in alive
             /\ m_exc_port_info' = [mask |-> SaveMask \ Ignored,
                                    groups |-> Entries(m_task, SaveMask)]
    <3>1. /\ m_exc_port_info'.mask = Known \ Ignored
          /\ \A x \in Known :
               \E g \in m_exc_port_info'.groups : x \in g.types
          /\ \A g \in m_exc_port_info'.groups : \A x \in g.types :
               x \in Known /\ g.port = excPort[m_task][x]
      BY <2>2, SaveMaskIsKnown, EntriesExact
    <3> QED  BY <1>5, <2>2, <3>1 DEF Save
  <2> QED  BY <1>5, <2>1, <2>2 DEF Save
<1>6. CASE SetExceptionPorts
  <2>1. CASE Abort /\ UNCHANGED excPort
    BY <1>6, <2>1 DEF SetExceptionPorts
  <2>2. CASE /\ m_task \in alive
             /\ SetPorts(m_task, m_exc_port_info.mask, m_exception_port)
             /\ Goto("create")
    <3>1. m_exception_port \in Ports
      BY <1>6 DEF SetExceptionPorts, PortAtHand, Ports
    <3>2. /\ \A p \in Pids \ {m_task} : excPort'[p] = excPort[p]
          /\ \A x \in Known :
               excPort'[m_task][x] = IF x \in m_exc_port_info.mask
                                       THEN m_exception_port
                                       ELSE excPort[m_task][x]
      BY <2>2, <3>1, SetPortsType
    <3> QED  BY <1>6, <2>2, <3>2 DEF SetExceptionPorts
  <2> QED  BY <1>6, <2>1, <2>2 DEF SetExceptionPorts
<1>7. CASE CreateThread
  BY <1>7 DEF CreateThread
<1>8. CASE PtraceAttach
  BY <1>8 DEF PtraceAttach
<1>9. CASE Restore
  <2>1. \/ RestoresOne \/ RestoreEnds
    BY <1>9, RestoreEffect
  <2>2. CASE RestoresOne
    BY <1>9, <2>2 DEF Restore, RestoresOne
  <2>3. CASE RestoreEnds
    BY <1>9, <2>3 DEF Restore, RestoreEnds
  <2> QED  BY <2>1, <2>2, <2>3
<1>10. CASE ShutDownThread
  BY <1>10 DEF ShutDownThread
<1>11. CASE DeallocatePort
  BY <1>11 DEF DeallocatePort
<1>12. CASE PtraceDetach
  BY <1>12 DEF PtraceDetach
<1>13. CASE TaskResume
  BY <1>13 DEF TaskResume
<1>14. ASSUME NEW p \in Pids, ProcessSetsPort(p)
       PROVE  TakenInv'
  <2>1. PICK x \in Known : SetPorts(p, {x}, OwnPort)
    BY <1>14 DEF ProcessSetsPort
  <2>2. /\ \A q \in Pids \ {p} : excPort'[q] = excPort[q]
        /\ \A y \in Known :
             excPort'[p][y] = IF y \in {x} THEN OwnPort ELSE excPort[p][y]
    BY <2>1, OwnPortApart, SetPortsType
  <2> QED  BY <1>14, <2>2, OwnPortApart DEF ProcessSetsPort
<1>15. ASSUME NEW p \in Pids, ProcessExits(p)
       PROVE  TakenInv'
  BY <1>15 DEF ProcessExits
<1>16. CASE UNCHANGED vars
  BY <1>16 DEF vars
<1> QED
  BY <1>1, <1>2, <1>3, <1>4, <1>5, <1>6, <1>7, <1>8, <1>9, <1>10, <1>11,
     <1>12, <1>13, <1>14, <1>15, <1>16
  DEF Next, Debugger, Ended

\* A port of the debugger gets nowhere but to the process it is attached to.
LEMMA OursStep ==
  ASSUME ~Careless, TypeInv, ControlInv, SavedInv, TakenInv, OursInv,
         [Next]_vars
  PROVE  OursInv'
<1> USE PortsAssumption
    DEF TypeInv, TypeOK, ControlInv, SavedInv, TakenInv, OursInv, Given,
        Recorded, Recoverable, ClientMay, Free, Open, Untaken, Attaching,
        GivenBack, kernelVars, taskVars, history, Goto, Throw, ThrowErrno,
        Abort, Begin
<1>1. ASSUME NEW p \in Pids, Attach(p)
      PROVE  OursInv'
  BY <1>1 DEF Attach
<1>2. CASE Detach
  BY <1>2 DEF Detach
<1>3. CASE TaskPortForProcessID
  BY <1>3 DEF TaskPortForProcessID
<1>4. CASE AllocatePort
  BY <1>4 DEF AllocatePort
<1>5. CASE Save
  <2>1. CASE m_exc_port_info' = NoInfo /\ pc' = "idle"
    BY <1>5, <2>1 DEF Save, NoInfo
  <2>2. CASE /\ m_task \in alive
             /\ m_exc_port_info' = [mask |-> SaveMask \ Ignored,
                                    groups |-> Entries(m_task, SaveMask)]
    <3>1. \A g \in m_exc_port_info'.groups : \A x \in g.types :
            x \in Known /\ g.port = excPort[m_task][x]
      BY <2>2, SaveMaskIsKnown, EntriesExact
    <3> QED  BY <1>5, <2>2, <3>1 DEF Save
  <2> QED  BY <1>5, <2>1, <2>2 DEF Save
<1>6. CASE SetExceptionPorts
  <2>1. CASE Abort /\ UNCHANGED excPort
    BY <1>6, <2>1 DEF SetExceptionPorts
  <2>2. CASE /\ m_task \in alive
             /\ SetPorts(m_task, m_exc_port_info.mask, m_exception_port)
             /\ Goto("create")
    <3>1. m_exception_port \in Ports
      BY <1>6 DEF SetExceptionPorts, PortAtHand, Ports
    <3>2. /\ \A p \in Pids \ {m_task} : excPort'[p] = excPort[p]
          /\ \A x \in Known :
               excPort'[m_task][x] = IF x \in m_exc_port_info.mask
                                       THEN m_exception_port
                                       ELSE excPort[m_task][x]
      BY <2>2, <3>1, SetPortsType
    <3> QED  BY <1>6, <2>2, <3>2 DEF SetExceptionPorts
  <2> QED  BY <1>6, <2>1, <2>2 DEF SetExceptionPorts
<1>7. CASE CreateThread
  BY <1>7 DEF CreateThread
<1>8. CASE PtraceAttach
  BY <1>8 DEF PtraceAttach
<1>9. CASE Restore
  <2>1. \/ RestoresOne \/ RestoreEnds
    BY <1>9, RestoreEffect
  <2>2. CASE RestoresOne
    BY <1>9, <2>2 DEF Restore, RestoresOne
  <2>3. CASE RestoreEnds
    BY <1>9, <2>3 DEF Restore, RestoreEnds
  <2> QED  BY <2>1, <2>2, <2>3
<1>10. CASE ShutDownThread
  BY <1>10 DEF ShutDownThread
<1>11. CASE DeallocatePort
  BY <1>11 DEF DeallocatePort
<1>12. CASE PtraceDetach
  BY <1>12 DEF PtraceDetach
<1>13. CASE TaskResume
  BY <1>13 DEF TaskResume
<1>14. ASSUME NEW p \in Pids, ProcessSetsPort(p)
       PROVE  OursInv'
  <2>1. PICK x \in Known : SetPorts(p, {x}, OwnPort)
    BY <1>14 DEF ProcessSetsPort
  <2>2. /\ \A q \in Pids \ {p} : excPort'[q] = excPort[q]
        /\ \A y \in Known :
             excPort'[p][y] = IF y \in {x} THEN OwnPort ELSE excPort[p][y]
    BY <2>1, OwnPortApart, SetPortsType
  <2> QED  BY <1>14, <2>2, OwnPortApart DEF ProcessSetsPort
<1>15. ASSUME NEW p \in Pids, ProcessExits(p)
       PROVE  OursInv'
  BY <1>15 DEF ProcessExits
<1>16. CASE UNCHANGED vars
  BY <1>16 DEF vars
<1> QED
  BY <1>1, <1>2, <1>3, <1>4, <1>5, <1>6, <1>7, <1>8, <1>9, <1>10, <1>11,
     <1>12, <1>13, <1>14, <1>15, <1>16
  DEF Next, Debugger, Ended

\* While a session is open its exceptions come to its port.
LEMMA RoutedStep ==
  ASSUME ~Careless, TypeInv, ControlInv, SavedInv, RoutedInv, [Next]_vars
  PROVE  RoutedInv'
<1> USE PortsAssumption
    DEF TypeInv, TypeOK, ControlInv, SavedInv, RoutedInv, ClientMay, Free,
        Open, Untaken, Attaching, GivenBack, kernelVars, taskVars, history,
        Goto, Throw, ThrowErrno, Abort, Begin
<1>1. ASSUME NEW p \in Pids, Attach(p)
      PROVE  RoutedInv'
  BY <1>1 DEF Attach
<1>2. CASE Detach
  BY <1>2 DEF Detach
<1>3. CASE TaskPortForProcessID
  BY <1>3 DEF TaskPortForProcessID
<1>4. CASE AllocatePort
  BY <1>4 DEF AllocatePort
<1>5. CASE Save
  BY <1>5 DEF Save
<1>6. CASE SetExceptionPorts
  <2>1. CASE Abort /\ UNCHANGED excPort
    BY <1>6, <2>1 DEF SetExceptionPorts
  <2>2. CASE /\ m_task \in alive
             /\ SetPorts(m_task, m_exc_port_info.mask, m_exception_port)
             /\ Goto("create")
    <3>1. m_exception_port \in Ports
      BY <1>6 DEF SetExceptionPorts, PortAtHand, Ports
    <3>2. /\ \A p \in Pids \ {m_task} : excPort'[p] = excPort[p]
          /\ \A x \in Known :
               excPort'[m_task][x] = IF x \in m_exc_port_info.mask
                                       THEN m_exception_port
                                       ELSE excPort[m_task][x]
      BY <2>2, <3>1, SetPortsType
    <3> QED  BY <1>6, <2>2, <3>2 DEF SetExceptionPorts
  <2> QED  BY <1>6, <2>1, <2>2 DEF SetExceptionPorts
<1>7. CASE CreateThread
  BY <1>7 DEF CreateThread
<1>8. CASE PtraceAttach
  BY <1>8 DEF PtraceAttach
<1>9. CASE Restore
  <2>1. \/ RestoresOne \/ RestoreEnds
    BY <1>9, RestoreEffect
  <2>2. CASE RestoresOne
    BY <1>9, <2>2 DEF Restore, RestoresOne
  <2>3. CASE RestoreEnds
    BY <1>9, <2>3 DEF Restore, RestoreEnds
  <2> QED  BY <2>1, <2>2, <2>3
<1>10. CASE ShutDownThread
  BY <1>10 DEF ShutDownThread
<1>11. CASE DeallocatePort
  BY <1>11 DEF DeallocatePort
<1>12. CASE PtraceDetach
  BY <1>12 DEF PtraceDetach
<1>13. CASE TaskResume
  BY <1>13 DEF TaskResume
<1>14. ASSUME NEW p \in Pids, ProcessSetsPort(p)
       PROVE  RoutedInv'
  <2>1. PICK x \in Known : SetPorts(p, {x}, OwnPort)
    BY <1>14 DEF ProcessSetsPort
  <2>2. /\ \A q \in Pids \ {p} : excPort'[q] = excPort[q]
        /\ \A y \in Known :
             excPort'[p][y] = IF y \in {x} THEN OwnPort ELSE excPort[p][y]
    BY <2>1, OwnPortApart, SetPortsType
  <2> QED  BY <1>14, <2>2, OwnPortApart DEF ProcessSetsPort
<1>15. ASSUME NEW p \in Pids, ProcessExits(p)
       PROVE  RoutedInv'
  BY <1>15 DEF ProcessExits
<1>16. CASE UNCHANGED vars
  BY <1>16 DEF vars
<1> QED
  BY <1>1, <1>2, <1>3, <1>4, <1>5, <1>6, <1>7, <1>8, <1>9, <1>10, <1>11,
     <1>12, <1>13, <1>14, <1>15, <1>16
  DEF Next, Debugger, Ended

\* Until Attach has taken something, no exception of a process is ours.
LEMMA NothingTaken ==
  ASSUME ControlInv, TakenInv, OursInv, pc \in Untaken, ~refused
  PROVE  \A p \in Pids, x \in Known : excPort[p][x] \notin DebuggerPorts
BY OwnPortApart
DEF ControlInv, TakenInv, OursInv, Untaken, Attaching

\* The calls that fail before SetExceptionPorts are the ones that say success.
LEMMA SuccessStep ==
  ASSUME ~Careless, TypeInv, ControlInv, ThreadInv, TakenInv, OursInv,
         SuccessTookNothing, [Next]_vars
  PROVE  SuccessTookNothing'
<1> USE PortsAssumption, ReasonTypes
    DEF TypeInv, TypeOK, ControlInv, ThreadInv, SuccessTookNothing, ClientMay,
        Free, Open, Untaken, Attaching, GivenBack, kernelVars, taskVars,
        history, Goto, Throw, ThrowErrno, Abort, Begin
<1>1. ASSUME NEW p \in Pids, Attach(p)
      PROVE  SuccessTookNothing'
  BY <1>1 DEF Attach, NoSuchProcess, SaysSuccess
<1>2. CASE Detach
  BY <1>2 DEF Detach
<1>3. CASE TaskPortForProcessID
  BY <1>3, NothingTaken DEF TaskPortForProcessID
<1>4. CASE AllocatePort
  BY <1>4 DEF AllocatePort
<1>5. CASE Save
  BY <1>5, NothingTaken DEF Save
<1>6. CASE SetExceptionPorts
  BY <1>6 DEF SetExceptionPorts
<1>7. CASE CreateThread
  BY <1>7 DEF CreateThread
<1>8. CASE PtraceAttach
  BY <1>8 DEF PtraceAttach
<1>9. CASE Restore
  <2>1. \/ RestoresOne \/ RestoreEnds
    BY <1>9, RestoreEffect
  <2>2. CASE RestoresOne
    BY <1>9, <2>2 DEF Restore, RestoresOne
  <2>3. CASE RestoreEnds
    BY <1>9, <2>3 DEF Restore, RestoreEnds
  <2> QED  BY <2>1, <2>2, <2>3
<1>10. CASE ShutDownThread
  BY <1>10 DEF ShutDownThread
<1>11. CASE DeallocatePort
  BY <1>11 DEF DeallocatePort
<1>12. CASE PtraceDetach
  BY <1>12 DEF PtraceDetach
<1>13. CASE TaskResume
  BY <1>13 DEF TaskResume
<1>14. ASSUME NEW p \in Pids, ProcessSetsPort(p)
       PROVE  SuccessTookNothing'
  <2>1. PICK x \in Known : SetPorts(p, {x}, OwnPort)
    BY <1>14 DEF ProcessSetsPort
  <2>2. /\ \A q \in Pids \ {p} : excPort'[q] = excPort[q]
        /\ \A y \in Known :
             excPort'[p][y] = IF y \in {x} THEN OwnPort ELSE excPort[p][y]
    BY <2>1, OwnPortApart, SetPortsType
  <2> QED  BY <1>14, <2>2, OwnPortApart DEF ProcessSetsPort
<1>15. ASSUME NEW p \in Pids, ProcessExits(p)
       PROVE  SuccessTookNothing'
  BY <1>15 DEF ProcessExits
<1>16. CASE UNCHANGED vars
  BY <1>16 DEF vars
<1> QED
  BY <1>1, <1>2, <1>3, <1>4, <1>5, <1>6, <1>7, <1>8, <1>9, <1>10, <1>11,
     <1>12, <1>13, <1>14, <1>15, <1>16
  DEF Next, Debugger, Ended

\* Before the first Attach nothing is taken.
LEMMA CarefulInit == Init => CarefulInv
<1> SUFFICES ASSUME Init PROVE CarefulInv
  OBVIOUS
<1> USE PortsAssumption DEF Init, Free, Open, Untaken, Attaching, GivenBack
<1>1. \A p \in Pids, x \in Known : excPort[p][x] \in {NoPort, SystemPort}
  OBVIOUS
<1>2. ControlInv /\ ThreadInv /\ RoutedInv /\ SuccessTookNothing
  BY DEF ControlInv, ThreadInv, RoutedInv, SuccessTookNothing
<1>3. SavedInv /\ TakenInv /\ OursInv
  BY <1>1 DEF SavedInv, TakenInv, OursInv, NoInfo
<1> QED  BY <1>2, <1>3 DEF CarefulInv

-----------------------------------------------------------------------------
(* The theorems. *)

\* Every variable keeps its type, whatever the client does and whichever calls
\* fail: there is a text for every failure, and a port for every thread.
THEOREM TypeCorrect == Spec => []TypeOK
<1>1. Init => TypeInv
  BY TypeInit
<1>2. TypeInv /\ [Next]_vars => TypeInv'
  BY TypeStep
<1>3. TypeInv => TypeOK
  BY DEF TypeInv
<1> QED  BY <1>1, <1>2, <1>3, PTL DEF Spec

\* The invariant holds in every reachable state.
LEMMA CarefulInvariance ==
  ASSUME ~Careless
  PROVE  Spec => [](TypeInv /\ CarefulInv)
<1>1. Init => TypeInv /\ CarefulInv
  BY TypeInit, CarefulInit
<1>2. TypeInv /\ CarefulInv /\ [Next]_vars => (TypeInv /\ CarefulInv)'
  BY TypeStep, ControlStep, ThreadStep, SavedStep, TakenStep, OursStep,
     RoutedStep, SuccessStep
  DEF CarefulInv
<1> QED  BY <1>1, <1>2, PTL DEF Spec

\* Detach gives every exception back to where it went when Attach took it, for
\* any set of types, masks and ports and any number of sessions, unless a
\* Restore was refused or the program set the port between the get and the set.
THEOREM DetachRestoresPorts ==
  ASSUME ~Careless
  PROVE  Spec => []PortsRestored
<1>1. TypeInv /\ CarefulInv => PortsRestored
  BY DEF CarefulInv, ControlInv, SavedInv, TakenInv, Given, Recorded,
         PortsRestored, GivenBack, Attaching, Untaken
<1> QED  BY <1>1, CarefulInvariance, PTL

\* In an open session there is one exception thread; the exceptions that are
\* not ignored come to the port it listens on, and no ignored one does.
THEOREM SessionIsRouted ==
  ASSUME ~Careless
  PROVE  Spec => []SessionRouted
<1>1. TypeInv /\ CarefulInv => SessionRouted
  BY DEF CarefulInv, ControlInv, ThreadInv, OursInv, RoutedInv, SessionRouted,
         Open
<1> QED  BY <1>1, CarefulInvariance, PTL

\* At no time, and after no failure, does an exception come to the debugger
\* without the very port it was taken from on record, but for a Restore that
\* was refused and for the types the program itself set between the get and
\* the set of Attach.
THEOREM NothingIsLost ==
  ASSUME ~Careless
  PROVE  Spec => []RoutedRecoverable
<1>1. TypeInv /\ CarefulInv => RoutedRecoverable
  BY DEF CarefulInv, TakenInv, OursInv, Recoverable, RoutedRecoverable
<1> QED  BY <1>1, CarefulInvariance, PTL

\* An Attach that throws "due to success" has taken nothing.
THEOREM SuccessIsHarmless ==
  ASSUME ~Careless
  PROVE  Spec => []SuccessTookNothing
<1>1. TypeInv /\ CarefulInv => SuccessTookNothing
  BY DEF CarefulInv
<1> QED  BY <1>1, CarefulInvariance, PTL

=============================================================================
