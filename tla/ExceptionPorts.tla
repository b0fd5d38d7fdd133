--------------------------- MODULE ExceptionPorts ---------------------------
(***************************************************************************)
(* What Attach and Detach do to the exception ports of a process: one step *)
(* for each call of StartExceptionThread, PortInfo::Save, Attach, PortInfo *)
(* ::Restore, ShutDownExcecptionThread and Detach that may fail, and what  *)
(* is left behind when one does.  A std::runtime_error goes to the client; *)
(* a failed assert ends the debugger.                                      *)
(*                                                                         *)
(* The exception thread's loop is in MachTask, the suspend count and the   *)
(* replies in MachProcess; RUNNING and STOP make no difference here.       *)
(***************************************************************************)
EXTENDS Naturals, FiniteSets, DNBError

CONSTANTS
  Types,       \* exception types in EXC_MASK_ALL
  NewTypes,    \* those that are not in PREV_EXC_MASK_ALL
  OldOS,       \* the running kernel does not know NewTypes (BOOLEAN)
  Ignored,     \* the IgnoredExceptions given to Attach
  Pids, NoPid,
  NoPort, SystemPort, OwnPort,  \* ports that are not the debugger's
  MaxPorts,    \* bound: ports the debugger allocates
  Failures,    \* codes a call that fails may report
  Careless     \* the client goes on after an exception, or with another pid

DebuggerPorts == 1..MaxPorts

Ports == DebuggerPorts \cup {NoPort, SystemPort, OwnPort}

\* The types the kernel has ports for.
Known == IF OldOS THEN Types \ NewTypes ELSE Types

ASSUME PortsAssumption ==
  /\ NewTypes \subseteq Types /\ Ignored \subseteq Types
  /\ OldOS \in BOOLEAN /\ Careless \in BOOLEAN
  /\ NoPid \notin Pids
  /\ MaxPorts \in Nat /\ Failures \subseteq Nat \ {0}
  /\ Cardinality({NoPort, SystemPort, OwnPort}) = 3
  /\ {NoPort, SystemPort, OwnPort} \cap DebuggerPorts = {}

VARIABLES
  excPort,    \* external: per process and type, where exceptions go
  alive,      \* external: the processes that live
  traced,     \* external: the processes ptrace is attached to
  threads,    \* exception threads that run, named by the port they began with
  m_pid, m_task,  \* a task is named by its process
  m_exception_port, m_exception_thread,
  m_exc_port_info,  \* mask, and the saved entries as groups
  m_status,   \* "DETACH" or "STOP"
  pc,
  allocated,  \* ports allocated so far
  err,        \* the DNBError of the call under way
  thrown,     \* the last call ended with an exception
  reason,     \* what that exception says
  refused,    \* a Restore has broken off (history)
  taken,      \* the ports SetExceptionPorts has replaced (history)
  raced       \* types the program set between the get and the set (history)

kernelVars == <<excPort, alive, traced>>
taskVars == <<m_task, m_exception_port, m_exception_thread, threads, allocated>>
vars == <<kernelVars, taskVars, m_pid, m_exc_port_info, m_status, pc, err,
          thrown, reason, refused, taken, raced>>
history == <<taken, raced>>

\* memset in the constructor of MachTask
NoInfo == [mask |-> {}, groups |-> {}]

\* Texts of the code: "no such process", "failed to get exception port info".
NoSuchProcess == <<"text", 1>>
NoPortInfo == <<"text", 2>>

\* The values of m_exc_port_info, of err and of reason.
PortInfos == [mask : SUBSET Types,
              groups : SUBSET [types : SUBSET Known, port : Ports]]

Errors == [m_err : {0} \cup Failures, m_flavor : Flavors,
           m_str : {NoText, NoPortInfo}]

Reasons ==
  {NoText, NoSuchProcess, SaysSuccess}
    \cup ((Flavors \ {"Generic"}) \X Failures)

TypeOK ==
  /\ excPort \in [Pids -> [Known -> Ports]]
  /\ alive \subseteq Pids /\ traced \subseteq Pids
  /\ threads \subseteq DebuggerPorts
  /\ m_pid \in Pids \cup {NoPid} /\ m_task \in Pids \cup {NoPid}
  /\ m_exception_port \in 0..MaxPorts /\ m_exception_thread \in 0..MaxPorts
  /\ m_exc_port_info \in PortInfos
  /\ m_status \in {"DETACH", "STOP"}
  /\ pc \in {"idle", "task", "allocate", "save", "set", "create", "ptrace",
             "restore", "shutdown", "deallocate", "pt_detach", "resume",
             "aborted"}
  /\ allocated \in 0..MaxPorts
  /\ thrown \in BOOLEAN /\ refused \in BOOLEAN
  /\ taken \in [Known -> Ports] /\ raced \subseteq Known
  /\ err \in Errors /\ reason \in Reasons

Init ==
  /\ excPort \in [Pids -> [Known -> {NoPort, SystemPort}]]
  /\ alive = Pids /\ traced = {}
  /\ threads = {}
  /\ m_pid = NoPid /\ m_task = NoPid
  /\ m_exception_port = 0 /\ m_exception_thread = 0
  /\ m_exc_port_info = NoInfo
  /\ m_status = "DETACH"
  /\ pc = "idle"
  /\ allocated = 0
  /\ err = NewError /\ reason = NoText
  /\ thrown = FALSE /\ refused = FALSE
  /\ taken = [x \in Known |-> NoPort] /\ raced = {}

-----------------------------------------------------------------------------
\* A client that is careful gives up after an exception and uses a
\* MachProcess for one process only.
ClientMay(p) == Careless \/ (~thrown /\ m_pid \in {NoPid, p})

Throw(text) == pc' = "idle" /\ thrown' = TRUE /\ reason' = text

\* strerror(errno)
ThrowErrno == \E e \in Failures : Throw(<<"POSIX", e>>)

Abort == pc' = "aborted" /\ UNCHANGED <<thrown, reason>>

Goto(place) == pc' = place /\ UNCHANGED <<thrown, reason>>

\* A client's call: no exception so far, and a DNBError of its own.
Begin(place) ==
  pc' = place /\ thrown' = FALSE /\ reason' = NoText /\ err' = NewError

(* Attach and StartExceptionThread *)

Attach(p) ==
  /\ pc = "idle" /\ m_status = "DETACH" /\ ClientMay(p)
  /\ allocated < MaxPorts
  /\ \/ /\ p \in alive
        /\ Begin("task")
        /\ m_pid' = p
     \/ p \notin alive /\ Throw(NoSuchProcess) /\ UNCHANGED <<m_pid, err>>
  /\ UNCHANGED <<kernelVars, taskVars, m_exc_port_info, m_status, refused,
                 history>>

\* TaskPortForProcessID: the cached task, or up to ten tries of task_for_pid,
\* and IsValid.  The DNBError it fills is a local one that hides the caller's.
TaskPortForProcessID ==
  /\ pc = "task"
  /\ \E t \in IF m_task = NoPid THEN {m_pid, NoPid} ELSE {m_task} :
       /\ m_task = NoPid /\ t = m_pid => t \in alive
       /\ m_task' = t
       /\ \/ t \in alive /\ Goto("allocate")
          \/ t \notin alive /\ Throw(AsString(err))
  /\ UNCHANGED <<kernelVars, m_exception_port, m_exception_thread, threads,
                 allocated, m_pid, m_exc_port_info, m_status, err, refused,
                 history>>

\* mach_port_allocate and mach_port_insert_right
AllocatePort ==
  /\ pc = "allocate"
  /\ \/ /\ Goto("save")
        /\ allocated' = allocated + 1
        /\ m_exception_port' = allocated'
     \/ Abort /\ UNCHANGED <<allocated, m_exception_port>>
  /\ err' = Assign(0)
  /\ UNCHANGED <<kernelVars, m_task, m_exception_thread, threads, m_pid,
                 m_exc_port_info, m_status, refused, history>>

\* The mask the kernel accepts: all types, or those of an older system.
SaveMask ==
  IF Types \subseteq Known THEN Types ELSE Types \ NewTypes

\* task_get_exception_ports: one entry for each port, with its types.
Entries(task, mask) ==
  {[types |-> {x \in mask : excPort[task][x] = q}, port |-> q] :
     q \in {excPort[task][x] : x \in mask}}

\* Mutant: the ignored exceptions stay in the mask.
SaveIgnoresNothing ==
  /\ pc = "save"
  /\ \/ /\ m_task \in alive /\ SaveMask \subseteq Known
        /\ m_exc_port_info' = [mask |-> SaveMask,
                               groups |-> Entries(m_task, SaveMask)]
        /\ Goto("set") /\ UNCHANGED err
     \/ /\ m_exc_port_info' = NoInfo
        /\ err' = SetErrorString(err, NoPortInfo)
        /\ Throw(AsString(err'))
  /\ raced' = {}
  /\ UNCHANGED <<kernelVars, taskVars, m_pid, m_status, refused, taken>>

\* Mutant: count is not set to the size of the arrays, one entry comes back.
SaveOneEntry ==
  /\ pc = "save"
  /\ \/ /\ m_task \in alive /\ SaveMask \subseteq Known
        /\ \E g \in Entries(m_task, SaveMask) :
             m_exc_port_info' = [mask |-> SaveMask \ Ignored, groups |-> {g}]
        /\ Goto("set") /\ UNCHANGED err
     \/ /\ m_exc_port_info' = NoInfo
        /\ err' = SetErrorString(err, NoPortInfo)
        /\ Throw(AsString(err'))
  /\ raced' = {}
  /\ UNCHANGED <<kernelVars, taskVars, m_pid, m_status, refused, taken>>

\* PortInfo::Save, and the mask without the ignored exceptions.
Save ==
  /\ pc = "save"
  /\ \/ /\ m_task \in alive /\ SaveMask \subseteq Known
        /\ m_exc_port_info' = [mask |-> SaveMask \ Ignored,
                               groups |-> Entries(m_task, SaveMask)]
        /\ Goto("set") /\ UNCHANGED err
     \/ /\ m_exc_port_info' = NoInfo
        /\ err' = SetErrorString(err, NoPortInfo)
        /\ Throw(AsString(err'))
  /\ raced' = {}
  /\ UNCHANGED <<kernelVars, taskVars, m_pid, m_status, refused, taken>>

\* task_set_exception_ports on some types of a task.
SetPorts(task, types, port) ==
  excPort' = [excPort EXCEPT ![task] =
                [x \in Known |-> IF x \in types THEN port ELSE @[x]]]

SetExceptionPorts ==
  /\ pc = "set"
  /\ \/ /\ m_task \in alive
        /\ SetPorts(m_task, m_exc_port_info.mask, m_exception_port)
        /\ taken' = excPort[m_task]
        /\ Goto("create")
     \/ Abort /\ UNCHANGED <<excPort, taken>>
  /\ err' = Assign(0)
  /\ UNCHANGED <<alive, traced, taskVars, m_pid, m_exc_port_info, m_status,
                 refused, raced>>

\* Mutant: the result is compared and not kept.
CreateForgetsError ==
  /\ pc = "create"
  /\ \/ /\ Goto("ptrace")
        /\ threads' = threads \cup {m_exception_port}
        /\ m_exception_thread' = m_exception_port
     \/ Throw(AsString(err)) /\ UNCHANGED <<threads, m_exception_thread>>
  /\ UNCHANGED <<kernelVars, m_task, m_exception_port, allocated, m_pid,
                 m_exc_port_info, m_status, err, refused, history>>

\* pthread_create; Attach throws when StartExceptionThread returns false.  The
\* result is kept as if it were a Mach code.
CreateThread ==
  /\ pc = "create"
  /\ \/ /\ Goto("ptrace")
        /\ err' = Assign(0)
        /\ threads' = threads \cup {m_exception_port}
        /\ m_exception_thread' = m_exception_port
     \/ /\ \E e \in Failures : err' = Assign(e)
        /\ Throw(AsString(err'))
        /\ UNCHANGED <<threads, m_exception_thread>>
  /\ UNCHANGED <<kernelVars, m_task, m_exception_port, allocated, m_pid,
                 m_exc_port_info, m_status, refused, history>>

\* Mutant: the process counts as running.
AttachedRunning ==
  /\ pc = "ptrace"
  /\ \/ /\ m_pid \in alive \ traced
        /\ traced' = traced \cup {m_pid}
        /\ m_status' = "RUNNING"
        /\ Goto("idle")
     \/ ThrowErrno /\ UNCHANGED <<traced, m_status>>
  /\ UNCHANGED <<excPort, alive, taskVars, m_pid, m_exc_port_info, err, refused,
                 history>>

PtraceAttach ==
  /\ pc = "ptrace"
  /\ \/ /\ m_pid \in alive \ traced
        /\ traced' = traced \cup {m_pid}
        /\ m_status' = "STOP"
        /\ Goto("idle")
     \/ ThrowErrno /\ UNCHANGED <<traced, m_status>>
  /\ UNCHANGED <<excPort, alive, taskVars, m_pid, m_exc_port_info, err, refused,
                 history>>

-----------------------------------------------------------------------------
(* Detach and ShutDownExcecptionThread *)

\* The Stop inside may throw.
Detach ==
  /\ pc = "idle" /\ m_status = "STOP" /\ ClientMay(m_pid)
  /\ Begin("restore") \/ (m_pid \notin alive /\ ThrowErrno /\ UNCHANGED err)
  /\ UNCHANGED <<kernelVars, taskVars, m_pid, m_exc_port_info, m_status,
                 refused, history>>

\* Mutant: the loop ends after its first entry.
RestoreFirst ==
  /\ pc = "restore"
  /\ \/ \E g \in m_exc_port_info.groups :
          /\ m_task \in alive
          /\ SetPorts(m_task, g.types, g.port)
          /\ m_exc_port_info' = [m_exc_port_info EXCEPT !.groups = {}]
          /\ Goto("shutdown")
          /\ UNCHANGED refused
     \/ /\ m_exc_port_info.groups = {}
        /\ Goto("shutdown")
        /\ UNCHANGED <<excPort, m_exc_port_info, refused>>
  /\ UNCHANGED <<alive, traced, taskVars, m_pid, m_status, err, history>>

\* PortInfo::Restore: an entry at a time.  An entry that is refused ends the
\* loop, count is set to 0, and the result is overwritten by that of
\* pthread_cancel.
Restore ==
  /\ pc = "restore"
  /\ \/ \E g \in m_exc_port_info.groups :
          /\ m_task \in alive
          /\ SetPorts(m_task, g.types, g.port)
          /\ m_exc_port_info' = [m_exc_port_info EXCEPT !.groups = @ \ {g}]
          /\ UNCHANGED <<pc, thrown, reason, refused>>
     \/ /\ m_exc_port_info.groups # {}
        /\ m_exc_port_info' = [m_exc_port_info EXCEPT !.groups = {}]
        /\ refused' = TRUE
        /\ Goto("shutdown")
        /\ UNCHANGED excPort
     \/ /\ m_exc_port_info.groups = {}
        /\ Goto("shutdown")
        /\ UNCHANGED <<excPort, m_exc_port_info, refused>>
  /\ UNCHANGED <<alive, traced, taskVars, m_pid, m_status, err, history>>

\* The port set to null, pthread_cancel and pthread_join, with their asserts:
\* a thread that has been joined cannot be cancelled again.
ShutDownThread ==
  /\ pc = "shutdown"
  /\ m_exception_port' = 0
  /\ \/ /\ m_exception_thread \in threads
        /\ threads' = threads \ {m_exception_thread}
        /\ Goto("deallocate")
     \/ m_exception_thread \notin threads /\ Abort /\ UNCHANGED threads
  /\ UNCHANGED <<kernelVars, m_task, m_exception_thread, allocated, m_pid,
                 m_exc_port_info, m_status, err, refused, history>>

DeallocatePort ==
  /\ pc = "deallocate"
  /\ \/ Goto("pt_detach") /\ err' = Assign(0)
     \/ \E e \in Failures : err' = Assign(e) /\ Throw(AsString(err'))
  /\ UNCHANGED <<kernelVars, taskVars, m_pid, m_exc_port_info, m_status,
                 refused, history>>

PtraceDetach ==
  /\ pc = "pt_detach"
  /\ \/ /\ m_pid \in alive \cap traced
        /\ traced' = traced \ {m_pid}
        /\ m_status' = "DETACH"
        /\ Goto("resume")
     \/ ThrowErrno /\ UNCHANGED <<traced, m_status>>
  /\ UNCHANGED <<excPort, alive, taskVars, m_pid, m_exc_port_info, err, refused,
                 history>>

TaskResume ==
  /\ pc = "resume"
  /\ \/ m_task \in alive /\ Goto("idle") /\ err' = Assign(0)
     \/ /\ m_task \notin alive
        /\ \E e \in Failures : err' = Assign(e) /\ Throw(AsString(err'))
  /\ UNCHANGED <<kernelVars, taskVars, m_pid, m_exc_port_info, m_status,
                 refused, history>>

-----------------------------------------------------------------------------
\* A process sets a port itself, as a program with its own Mach exception
\* handler does.
ProcessSetsPort(p) ==
  /\ p \in alive
  /\ \E x \in Known :
       /\ SetPorts(p, {x}, OwnPort)
       /\ raced' = raced \cup {y \in {x} : pc = "set" /\ p = m_task}
  /\ UNCHANGED <<alive, traced, taskVars, m_pid, m_exc_port_info, m_status, pc,
                 err, thrown, reason, refused, taken>>

ProcessExits(p) ==
  /\ p \in alive
  /\ alive' = alive \ {p} /\ traced' = traced \ {p}
  /\ UNCHANGED <<excPort, taskVars, m_pid, m_exc_port_info, m_status, pc,
                 err, thrown, reason, refused, history>>

Debugger ==
  \/ TaskPortForProcessID \/ AllocatePort \/ Save \/ SetExceptionPorts
  \/ CreateThread \/ PtraceAttach
  \/ Restore \/ ShutDownThread \/ DeallocatePort \/ PtraceDetach \/ TaskResume

\* The debugger is gone, or the client is done.
Ended ==
  /\ pc \in {"idle", "aborted"}
  /\ UNCHANGED vars

Next ==
  \/ \E p \in Pids : Attach(p) \/ ProcessSetsPort(p) \/ ProcessExits(p)
  \/ Detach
  \/ Debugger
  \/ Ended

Spec == Init /\ [][Next]_vars

-----------------------------------------------------------------------------
\* Detach gives back what Attach took: unless a call was refused on the way,
\* each of the process's exceptions, of every port and mask, goes again where
\* it went when Attach replaced its port, or where the program itself has sent
\* it meanwhile.  A port the program set between the get and the set of Attach
\* (raced) is not known to the debugger, and not given back.
PortsRestored ==
  pc \in {"shutdown", "deallocate", "pt_detach", "resume"} /\ ~refused =>
    \A x \in Known \ raced : excPort[m_pid][x] \in {taken[x], OwnPort}

\* Between Attach and Detach there is one exception thread (g_message has one
\* user), and every exception that is not ignored comes to the port it listens
\* on, unless the program has taken it; an ignored one never does.
SessionRouted ==
  m_status = "STOP" /\ pc = "idle" /\ ~thrown =>
    /\ m_exception_thread = m_exception_port /\ threads = {m_exception_thread}
    /\ \A x \in Known :
         IF x \in Ignored THEN excPort[m_pid][x] \notin DebuggerPorts
                          ELSE excPort[m_pid][x] \in {m_exception_port, OwnPort}

\* Whenever an exception goes to the debugger, in the middle of a call or
\* after one that has thrown, the port it was taken from is on record.  Two
\* cases are excepted because the code has them: a Restore that was refused
\* has dropped its record, and for a port the program set between
\* task_get_exception_ports and task_set_exception_ports (raced) the record
\* holds an older one.
RoutedRecoverable ==
  ~refused =>
    \A p \in Pids, x \in Known :
      excPort[p][x] \in DebuggerPorts =>
        \E g \in m_exc_port_info.groups :
          x \in g.types /\ (g.port = taken[x] \/ x \in raced)

\* An exception may say "unable to start the exception thread due to success":
\* TaskPortForProcessID hides the caller's DNBError, and SetErrorString gives a
\* text to an error without a code, which AsString does not show.  It says so
\* only while nothing has been taken: no exception of the process comes to the
\* debugger and no thread listens.
SuccessTookNothing ==
  thrown /\ reason = SaysSuccess /\ ~refused =>
    /\ threads = {}
    /\ \A p \in Pids, x \in Known : excPort[p][x] \notin DebuggerPorts

\* MachTask.cpp:20, "Save the original state of the exception ports for our
\* child process": what is on record is never a port of the debugger.
SavedOriginal ==
  \A g \in m_exc_port_info.groups : g.port \notin DebuggerPorts

=============================================================================
