# A TLA+ model of debug-learning's Mach debugger

`debug-learning` is a small debugger for macOS (`mac_ptrace/`, derived from
debugserver of LLDB), a program to try it on (`target.cpp`) and a separate Linux
demonstration of breakpoints (`linux_int3/`). This directory holds TLA+ modules
translated from that code, the TLC configurations that check them on small
instances, and TLAPS proofs of what holds for every instance. `PROJECT.json`
relates every definition to the lines it models.

## Contents

| file | what it is |
|---|---|
| `MachKernel.tla` | external: the debugged task as Mach and ptrace show it |
| `MachTask.tla` | the exception thread's loop (`MachTask::ExceptionThread`) |
| `MachProcess.tla` | the two debugger threads together: client calls and `ExceptionMessageReceived` |
| `DebugSession.tla` | abstract: what a client of `MachProcess` is promised |
| `MachProcessSession.tla` | the refinement mapping from `MachProcess` to `DebugSession` |
| `ExceptionPorts.tla` | `Attach` and `Detach` call by call, each of which may fail: ports, cached task, what is thrown |
| `DNBError.tla` | the error value: its assignments and `AsString` |
| `MachException.tla` | messages of several tasks: `CatchExceptionRaise`, `TaskPortChanged`, `Reply`, for a program that execs and forks |
| `DebuggerController.tla` | the calls `main()` makes, in its order, with its sleeps |
| `MachVMRegion.tla` | one region of the task's memory: lookup, protect, put back |
| `MachVMMemory.tla` | `Read` and `Write` over pages and regions |
| `MemoryRegionInfo.tla` | `GetMemoryRegionInfo` and `get_dirty_pages` |
| `MachProcessProofs.tla` | theorems about `MachProcess`, for any client |
| `MachProcessSessionProofs.tla` | theorems for a client that waits, and the refinement of `DebugSession` |
| `DebuggerControllerProofs.tla` | theorems about the calls of `main()` |
| `ExceptionPortsProofs.tla` | theorems about `Attach` and `Detach` with failures |
| `MachExceptionProofs.tla` | theorems about exec and fork |
| `MachVMMemoryProofs.tla` | page arithmetic, theorems about `Read` and `Write` |
| `MemoryRegionInfoProofs.tla` | theorems about `GetMemoryRegionInfo` and `get_dirty_pages` |
| `MC*.tla`, `*.cfg` | instances for TLC |

`MachProcess` extends `MachTask`, which extends `MachKernel`;
`DebuggerController` and `MachProcessSession` extend `MachProcess`.
`MemoryRegionInfo` extends `MachVMMemory`, which extends `MachVMRegion`. These two
halves meet only in the question whether the task is suspended while memory is
accessed: the first half answers it (`AccessFindsTaskSuspended`), the second takes
both answers (`TaskRuns`).

`ExceptionPorts` (which extends `DNBError`) and `MachException` look at the same
calls as `MachProcess` with a finer lens, each on one matter that `MachProcess`
abstracts: in `MachProcess`, `routed` is one flag and what `Attach` throws has one
outcome for all its calls; a message is a thread and the process keeps its task. Each of the two leaves out
what it does not need of the rest, and says so at its head.

## The system

### Components

**MachProcess** keeps `m_status` (DETACH, RUNNING, STOP), the atomic flag
`m_single_step`, the vector `m_exception_messages` and a `MachTask`. The client
calls `Attach`, `Resume`, `Stop`, `SingleStep`, `Detach`, `ReadMemory`,
`WriteMemory` and `ReadRegister`; the exception thread calls
`ExceptionMessageReceived`. It is correct if STOP means that the task is
suspended, if suspends and resumes balance, if every exception that was received
is replied to once, and if each call returns.

**MachTask** keeps the task port, the exception port, the saved exception ports
and the exception thread. Its thread receives messages in bundles: it waits
without limit for the first message and one millisecond for each further one.
`StartExceptionThread`, `ShutDownExcecptionThread`, `Suspend`, `Resume`,
`EnableSingleStep` and `DisableSingleStep` work on the task. It is correct if no
message is left on the port, if the shutdown always ends, and if a session has
one exception thread.

**MachException** decodes messages (`CatchExceptionRaise`, into the global
`g_message`), replies to them, and saves and restores exception ports
(`PortInfo`). It is correct if the debugger follows its process through an exec and
takes no other for it, if every message that was received can be replied to, and
if a process has its own exception ports again after the debugger has left.

**MachVMRegion** and **MachVMMemory** read and write the task's memory. Write
makes read-only memory writable for the time of the write. They are correct if
they transfer exactly what they say they do, as much as can be transferred, and
leave the protections as they found them.

**DebuggerController** and `main()` attach, read, write, resume and stop three
times, take a hundred single steps, resume and detach.

**DNBError**, **Logger**, **DNBDefs**, the **MIG** definitions, **target** and
**linux_int3** complete the repository.

### How they interact, and what is hard

Two threads of the debugger and the threads of the debugged task run at the
same time. There is no lock. The main thread and the exception thread share the
vector, the flag, the exception port and the task's suspend count; they
communicate through nothing else, and the main thread's waits are fixed sleeps
and one busy loop. So:

* a call may start before the exception that its status stands for is received;
* a suspend of the exception thread may fall anywhere into the `task_info`,
  `task_resume` sequence of the main thread;
* messages may be pushed while the vector is walked and cleared;
* the port is tested, named and received on by one thread and nulled by another,
  and the shutdown joins a thread that may be waiting in the kernel;
* `mach_msg` returns, and the exception thread looks whether its task is still
  there: a message may come and the process may die or exec in between;
* step bits are set by one thread and cleared by another, a debugged thread at a
  time;
* each of the nine calls that make up an `Attach` may fail, and nothing undoes the
  ones before it;
* an exec replaces the task while messages of the old one are on their way, and a
  forked child sends its exceptions to the same port;
* the debugged process may die, or change its memory map, between any two calls.

`PROJECT.json` lists these hazards at their lines, with the properties for them.

## The two debugger threads

### State and actions

| model | code |
|---|---|
| `suspend_count`, `thread`, `ss`, `queue`, `sigstop`, `routed`, `jobstop`, `alive` | the task in the kernel: `task_basic_info`, threads blocked in an exception, `SS_ENABLE` of each thread, messages on the port, a pending SIGSTOP, where exceptions go, stopped without a tracer, the task port is valid |
| `m_exception_port`, `cancelled`, `excPc`, `message`, `receiving` | the exception thread: the port member, `pthread_cancel`, its place, the message in its hands, `num_exceptions_received > 0` |
| `m_status`, `m_single_step`, `m_exception_messages` | the members of that name |
| `op`, `mainPc`, `pos`, `end`, `enabling`, `disabling` | the client call under way, its place, the iterators of `ReplyToAllExceptions`, the threads `EnableSingleStep` and `DisableSingleStep` have still to visit |

A message is named by the thread that sent it: that thread is blocked until the
reply and cannot send a second one. A client call is split at every access to
what the threads share and at every Mach call, because any other step may come
in between; what a thread does alone is one step. The loop of the exception thread
is split in the same way: `LoopTest`, `ReadPortName` (the port is named for the
call), `EnterReceive` (the thread waits in `mach_msg`), the three ways `mach_msg`
returns (`ReceiveSuccess`, `ReceiveTimedOut`, `ReceiveInterrupted`),
`TestPortAfterInterrupt`, and `TaskIsValid`, the `task_info` that decides whether the
thread goes on. Two accesses are one step only
where no other thread can change what the first has seen before the second is
made (`empty()` and `task_suspend` in `SuspendIfFirst`: nobody else fills the
vector) or can notice the difference (`StartExceptionThread`: a message sent before
the thread exists waits for it). For example `Resume` is
`Resume` (the assert), `ReplyCheck` (`empty()`, `begin()`, `end()`), `ReplyOne` for
each message, `ReplyClear`, `TaskBasicInfo`, `TaskResume`, `ReturnFromResume`.

Data races. `push_back` on one thread and the loop on the other are a race on a
`std::vector`. The model takes their effects in every order and, when they
overlap, allows the debugger to crash (`VectorRace`), which is what freed
storage under the iterators leads to. Torn values of the vector's pointers are
not enumerated: the accesses are aligned words on the hardware the code is for.

Failures. A C++ exception that nobody catches and a failed assert end the
debugger: `mainPc = "aborted"`. `AttachFails`, `SingleStepThrows`, `TaskResume`
and `TaskBasicInfo` on a dead task, `Stop` on a process that is gone, and a failing
PT_DETACH do so. `AttachThrows` is the same throw with a client that catches it
(`mainPc = "thrown"`): nothing is undone, so the port may be allocated, the
exceptions routed and, when ptrace was what failed, the exception thread running,
with the status still DETACH. `CancelledInWrite` is the cancellation point in the
log output of the exception thread.

`CancelExceptionThread` is `pthread_cancel`. It marks the thread, and it aborts a
`mach_msg` only if the thread is inside it: `mach_msg` itself does not look at the
mark, `pthread_testcancel` and the log output do.

Two constants choose the client. `Settle = TRUE`: the client only calls once the
exception thread is at rest (`Quiet`), which is what the sleeps of `main.cpp` are
for; `main()` itself sleeps before some of its calls, not between its single steps
nor before its last `resume` and `detach`, and `DebuggerController` has its own
sleeps. `Settle = FALSE`: it calls as fast as it can. `Reattach` allows the client to
go on with one object after `Detach` and after an `Attach` that threw. It does so
once the exception thread has returned or was never created; two exception threads
are a matter of `ExceptionPorts`.

### Runs

| run | instance | states | what it shows |
|---|---|---|---|
| `api` | 2 threads, no pauses, reattach, the task may die, fair | 193338 | `TypeOK`, `SuspendAccounted`, `DetachUnsuspended`, `ReplyAwaited`, `JoinReturns`, `MessageTaken` |
| `settled` | 3 threads, long pauses, one session, fair | 15435 | `CallFindsTaskSuspended`, `BlockedThreadHeld`, `StepBitsCleared`, `SingleStepReturns`, `ImplementsSession` |
| `script` | 2 threads, `main()` with 3 rounds and 4 steps | 155567 | `AssertsHold`, `AccessFindsTaskSuspended` |
| `step_hangs` | 1 thread, `main()` with 1 round and 2 steps, fair | violation | `SingleStepReturns` |
| `detach_blocked` | 1 thread, long pauses | violation | `DetachResumesTask` |

*Bounds.* The state of `MachProcess` is finite for a finite set of threads: a
blocked thread sends no second message and the suspend count is at most 2. No
counter is cut off, so a run covers sequences of calls of any length. Two
threads are the least with which one thread is held while another still runs,
which is what every hazard above needs; the proofs cover more. `Steps = 4` in
place of 100: two steps are the least in which one overlaps the next; four also
let a disturbed step be followed by two more. The threads are interchangeable,
and symmetry is used in `script`, which checks invariants only.

*Fairness* (`Fairness` in `MachProcess`). The operating system schedules the two
debugger threads, so each goes on if it can; a thread that waits in `mach_msg`
without a timeout can only go on with a message or an interrupt. No fairness is
assumed of the interrupt: the one `pthread_cancel` makes is part of the step
`CancelExceptionThread`. A debugged thread that may run and has its step bit set, or
a signal pending, executes until it traps or takes the signal. No fairness is
assumed of the client in `MachProcess`, of exits, of breakpoints or of anything that
goes wrong. In `DebuggerController` `main()` makes its next call.

*Deadlock* is checked in every run; `Terminated` and `Ended` stand for a
debugger that is done.

### What the runs found

* **`step_hangs`**: `ExceptionMessageReceived` resets `m_single_step` before it
  pushes the message. The main thread may see the flag, return, and make the
  next `SingleStep`, whose `ReplyToAllExceptions` finds an empty vector. The
  thread that trapped is never replied to, nothing traps any more, and the loop
  spins for ever. `main()` does make such calls without a pause.
* **`detach_blocked`**: `Detach` lowers the suspend count and replies to nobody. A
  thread whose exception was held stays blocked.

Two properties of `api` name a window in which the code does not do what it should,
and state that there is no other.

* `JoinReturns`: the exception thread has named its port for `Receive` when `Detach`
  sets the member to null and calls `pthread_cancel` (`Entering`). The thread is not
  yet in `mach_msg`, so there is nothing to abort; it then waits, without a timeout, on
  a port that still exists and that nothing is routed to any more, and `pthread_join`
  does not return, although the comment at MachTask.cpp:43 says "let our exception
  thread exit". Without `~Entering` TLC finds this behaviour. From every other place
  of the exception thread the shutdown ends.
* `MessageTaken`: a message that arrives after `mach_msg` has timed out stays on the
  port if the process dies before `TaskIsValid`: the thread then returns. While the
  process lives, and until `Detach`, every message is received.

A comment in `MachTask.cpp` (lines 167-170) says that the exception thread announces
a complete bundle and waits for the main thread. The code that would do so is
commented out; the model follows the code, and the main thread may reply to a part
of a bundle.

The properties of `settled` fail without pauses. That is the price of the fixed
sleeps, and `step_hangs` is how it is paid.

### The abstract session

`DebugSession` knows a status, the set of held threads, whether the task is
suspended, and the call under way. `Resume` and `SingleStep` start from a suspended
task, cannot fail, let every held thread go before the task runs, and a
`SingleStep` returns with the task suspended and some thread held; after `Detach`
the task is not suspended; only `Attach` and `Detach` may fail. `ImplementsSession`
says that each step of `MachProcess` is a step of this or none, under

| abstract | concrete |
|---|---|
| `status` | `m_status`, and STOP during a `SingleStep`, which says RUNNING while it spins |
| `held` | the threads that await a reply |
| `suspended` | `suspend_count > 0` |
| `call` | `op`, with the part behind `task_resume` apart |

It holds for a client that waits (`Settle`), attaches once, and a process that does
not die; without the first, `CallOnStopped` already fails.

## Exception ports

`ExceptionPorts` has a port for each process and exception type, and one step for
each call of `StartExceptionThread`, `Attach`, `ShutDownExcecptionThread` and `Detach`
that may fail. A `std::runtime_error` leaves the object as it is (`thrown`, `reason`), a
failed assert ends the debugger. The program may set ports of its own at any time
and may die. Three variables are history: `refused`, a `Restore` has broken off;
`taken`, the ports `task_set_exception_ports` has replaced; `raced`, the exceptions
for which the program set a port between `task_get_exception_ports` and
`task_set_exception_ports`. `Careless` decides whether the client uses the object
again after an exception or for another process.

| run | instance | states | what it shows |
|---|---|---|---|
| `ports` | 3 types and one the kernel does not know, one of them ignored; 2 sessions; a careful client | 192111 | `TypeOK`, `PortsRestored`, `SessionRouted`, `RoutedRecoverable`, `SuccessTookNothing` |
| `ports_retry` | 4 types, a client that tries again | violation | `SavedOriginal` |

*Bounds.* A type that is ignored, two that are not, which may have the same port or
different ones, and one that only a newer system has are all the cases the code
tells apart. Two ports allow two attempts.

* **`ports_retry`**: when `pthread_create` or PT_ATTACHEXC fails, `Attach` throws with
  the exceptions routed and the status still DETACH. A second `Attach` saves the
  debugger's own port as the original one.

`PortsRestored` and `RoutedRecoverable` compare with `taken`, the ports the debugger
really replaced, and not with what `Save` found. They are stated for sessions in
which no `Restore` broke off: after one, exceptions stay routed to a port nobody
listens on, and nothing is on record any more. And they leave out `raced`: the get
and the set are two calls, a port the program sets between them is overwritten, and
the debugger gives back an older one. `SessionRouted` also says that a session has
exactly one exception thread, which is what the global `g_message` needs; a careless
client that catches a failing PT_ATTACHEXC and attaches again has two. `SuccessTookNothing` is about an oddity of the
texts: `TaskPortForProcessID` hides the caller's `DNBError` behind a local one, and
`SetErrorString` gives a text to an error without a code, so `Attach` may throw
"unable to start the exception thread due to success"; it does so only while it
has not taken anything. (`pthread_create`'s result is shown as a Mach error: the
flavor is wrong, the failure is not lost.)

## Exec and fork

In `MachException` the process has a sequence of images, each a task of its own. On
`Exec` the old task's threads vanish, those blocked in an exception too, and their
messages stay on the port; a message that is received after its task's end
carries dead names. The new image's first act is a SIGTRAP. `Child` is a forked
child: it has inherited the ports, it is not traced and never suspended. The
exception thread receives, decodes, suspends and pushes in separate steps, and looks
for its task (`TaskIsValid`) in a step of its own after `mach_msg` has returned, since
an exec may fall between any two. `mach_exc_server` is generated code and external:
it returns TRUE for any exception message, whatever `catch_mach_exception_raise`
returned, so a message that was refused is kept, with `exc_type` 0 and no thread.
The client leaves enough time before each call.

| run | instance | states | what it shows |
|---|---|---|---|
| `exec` | 2 threads, 2 execs, a child, fair | 430299 | `TypeOK`, `NeverAdoptsChild`, `TaskFollowed`, `SuspendAccounted`, `ExecNoticed` |
| `exec_assert` | 2 threads, 1 exec, a child | violation | `ReplyFindsPid` |

*Bounds.* One thread that execs while another one's message is on its way needs two
threads; two execs let a message of the first image arrive in the third. The
number of messages is bounded by the threads, each of which is blocked until it
has its reply.

*Fairness.* The exception thread is scheduled, and an image that may run takes its
SIGTRAP. Nothing is assumed of the client, of execs or forks.

* **`exec_assert`**: a second thread execs after a SIGSTOP was received and before
  `task_suspend`, which then fails unnoticed. The message is held; the SIGTRAP
  changes `m_task`; the next `Resume` finds a message whose task is neither `m_task`
  nor alive, `pid_for_task` fails, and `assert(state_pid != -1)` ends the debugger.

Two more things the model shows and no line of the repository denies. The
exception thread returns when a timeout or an interrupt makes it look for its task
after the end of the old one and before it has received the SIGTRAP, which may be on
the port by then; `ExecNoticed` says that an exec is missed in no other way. And a child, or an image that began while an older
message was held, is not suspended by `ExceptionMessageReceived`: its next message
may come during `ReplyToAllExceptions` and be thrown away by `clear()`, so
`BlockedThreadHeld` cannot be stated here.

## Memory

`prot` is the task's memory map, a protection or nothing for each page. The kernel
may report neighbouring pages of equal protection as one region or as several,
so `GetRegionForAddress` chooses. `mach_vm_protect` changes whole pages;
`mach_vm_read` and `mach_vm_write` transfer everything or nothing. With `Refuses`
`mach_vm_protect` may fail on mapped memory (the maximum protection). With
`TaskRuns` the task maps, unmaps or protects any page between any two Mach calls; the
history variable `taskMap` is the map it has made for itself, without what `Write` has
changed. `mach_vm_write` (`WriteRegionTurn`) and the cache flush behind it (`FlushCache`)
are two steps. The page size is what the kernel says, or 0 if it does not say.
Widths: the count of a `mach_vm_write` is taken modulo `Word` (2^32), the number of
pages in `get_dirty_pages` is narrowed to an int below `IntLimit` (2^31) and may come
out negative, which is the length of an array: the answer then has no dirty pages,
or the debugger crashes (`NegativeLength`). The vector of dirty pages is a bag, the
number of times each address was pushed.

| run | instance | states | what it shows |
|---|---|---|---|
| `vm_suspended` | every map of 4 pages of 2 bytes, calls of up to 5 bytes, `Refuses`; walks over it with every set of dirty pages, chunks of 2, `IntLimit` 4, fair | 1301782 | `TypeOK`, `WriteCounts`, `WriteStopsAtHole`, `ReadIsMaximal`, `ProtectionsRestored`, `InfoExact`, `DirtyPagesExact`, `WalkEnds` |
| `vm_running` | 2 pages of 2 bytes, up to 3 bytes, `Refuses`, `TaskRuns`, `Word` 3 | 233632 | `WriteInRange`, `CallReturns` |
| `vm_lost_write` | as `vm_running`, no refusals | violation | `WriteCounts` |

*Bounds.* Four pages let a call start inside one region, cross a second and end
in a third, with every combination of protections and holes; five bytes reach
over three pages from any offset. Two bytes are enough for "in the middle of a
page". The address space ends behind the last page, which stands for the end of
the real one. Regions of one to four pages with chunks of two make a part of a
chunk, a full one, a full one with a part behind it, and, with `IntLimit` 4, a number
of pages that no longer fits. `Word` 3 in `vm_running` is reached by a write of three
bytes with no page size: the count is 0 and `Write` turns for ever, the one case that
`CallReturns` leaves out. *Fairness:* a call in progress goes on.

`vm_lost_write`: `WriteRegion` replaces the result of `mach_vm_write` by that of
the cache flush, so a refused write is counted as written. It needs a task that
runs; `AccessFindsTaskSuspended` says that `main()` only writes to a suspended one.

## What is proved

Every invariant that a passing run checks, and the refinement, is also a theorem: it
holds for every value of the constants that the named `ASSUME`s of the modules
allow. Those say only that sets are not empty, that special values are apart from
ordinary ones, that counts are natural numbers and switches Booleans
(`ScriptAssumption` also fixes the client that `main()` is). Some theorems have one
more assumption, given in the table; each is a statement about the client or the
task, not about a size.

| module | theorem | states | assumes |
|---|---|---|---|
| `MachProcessProofs` | `TypeCorrect` | `TypeOK`; the suspend count never drops below zero | |
| | `SuspendsBalance` | `SuspendAccounted` | |
| | `DetachResumes` | `DetachUnsuspended` | |
| | `NoDoubleReply` | `ReplyAwaited` | |
| `MachProcessSessionProofs` | `StopIsTrue` | `CallFindsTaskSuspended` | waiting client |
| | `NoReplyLost` | `BlockedThreadHeld` | waiting client |
| | `NoStepBitLeft` | `StepBitsCleared` | waiting client |
| | `Implementation` | `ImplementsSession` | waiting client |
| `DebuggerControllerProofs` | `AssertsAlwaysHold` | `AssertsHold` | |
| | `AccessIsSafe` | `AccessFindsTaskSuspended` | |
| `ExceptionPortsProofs` | `TypeCorrect` | `TypeOK` | |
| | `DetachRestoresPorts` | `PortsRestored` | `~Careless` |
| | `SessionIsRouted` | `SessionRouted` | `~Careless` |
| | `NothingIsLost` | `RoutedRecoverable` | `~Careless` |
| | `SuccessIsHarmless` | `SuccessTookNothing` | `~Careless` |
| `MachExceptionProofs` | `TypeCorrect` | `TypeOK` | |
| | `ChildIsNotAdopted` | `NeverAdoptsChild` | |
| | `ExecIsFollowed` | `TaskFollowed` | |
| | `SuspensionsAreOwned` | `SuspendAccounted` | |
| `MachVMMemoryProofs` | `TypeCorrect` | `TypeOK` | |
| | `WritesStayInRange` | `WriteInRange` | |
| | `ReadsAreMaximal` | `ReadIsMaximal` | |
| | `WriteRestores` | `ProtectionsRestored` | `~TaskRuns` |
| | `CountIsWritten` | `WriteCounts` | `~TaskRuns` |
| | `WritesUpToHole` | `WriteStopsAtHole` | `~TaskRuns` |
| `MemoryRegionInfoProofs` | `MemoryTypeCorrect` | `TypeOK` | |
| | `CallsKeepPromises` | the four promises of `Read` and `Write`, with walks | `~TaskRuns` |
| | `InfoIsExact` | `InfoExact` | |
| | `DirtyPagesAreExact` | `DirtyPagesExact`: each dirty page once | |
| | `WalkAdvances` | every answer moves the client on | |

*Waiting client* is `Settle /\ ~Reattach /\ ~MayExit`. `step_hangs` shows what happens to
a client that does not wait, and `detach_blocked` what a session leaves behind for the
next one. In the same way `ports_retry` shows why
`~Careless` is there, and `vm_lost_write` why `~TaskRuns` is.

None of the properties is inductive alone. In every proof module the invariant comes
first, in named parts; each part has a lemma for a step, with a step of the proof for
each action that can disturb it; the theorems are at the end. The invariants were
checked by TLC on the instances of the runs before they were proved.

### The two threads, any client (`MachProcessProofs`)

The set of threads may be infinite. `IInv` has four parts.

* `TypeInv`: the types; the exception thread has a message while it handles one;
  the count is positive between `task_info` and `task_resume`. The last holds
  because only the main thread lowers the count.
* `ControlInv`: the place of the main thread determines the call it is in; the
  status fits; outside a session the exception thread is gone, unless an `Attach`
  has thrown. The join in `Detach` is what gives the last.
* `CountInv`: `SuspendAccounted`, and the count is zero after `Detach`. The test
  for an empty vector and `clear()` are on different threads; the argument is that
  a suspend only happens with an empty vector and leads to a held message, and
  that `clear()` passes the debt on to the `task_resume` behind it. `Detach` finds
  at most one suspend because its exception thread is gone.
* `ReplyInv`: a thread with a message on its way has one message only, on the
  port, in the exception thread's hands, or in the vector behind `pos`, and awaits
  its reply. This has to span all three places: a thread that was replied to may
  raise again while its old message is still in the vector, in front of `pos`.

### A client that waits, and the refinement (`MachProcessSessionProofs`)

`SettledInv` adds to `IInv` what a pause is for. The lemma it turns on is `QuietStop`:
when the exception thread is at rest and the status says STOP, the task is suspended
and nothing is on the port. It follows from `StopInv` (a STOP stands for a pending SIGSTOP
or a message on its way) and `SessionInv` (a held message means a suspended task).
`CallInv` then says that `Resume` and `SingleStep` have the task to themselves until
`task_resume`: nothing runs, so nothing is sent, and `clear()` throws away only what
was replied to. `StepInv` ties the step bits to `m_single_step` through the loop of
`DisableSingleStep`. The refinement goes action by action: `ReplyOne` is the abstract
release of a thread, `TaskResume` the abstract run, and `AllReplied` shows that at this
point nobody is held any more; most other steps are stutters.

### `main()` (`DebuggerControllerProofs`)

`ScriptCalls` says which call is at each place of the script, for all `Rounds` and `Steps`,
and `Dues` that every call leaves the status the next one asserts. That is the
argument for `AssertsHold`, for threads in any interleaving and a process that dies
anywhere, since the status is set by the main thread alone. `EarlyInv` follows the
first stop up to the first `Resume`: `main()` does sleep between `Attach` and its read, so
the SIGSTOP has been taken, received, and has suspended the task (`SleptSuspended`);
nothing before the first `Resume` undoes that, so the write that follows without a
pause is safe as well.

### Exception ports (`ExceptionPortsProofs`)

Types, ignored types, ports and the number of sessions are arbitrary. `TakenInv` is the
heart: every exception goes where it went before it was taken, or that place is on
record. It needs `SavedInv` (what `Save` found is what `task_set_exception_ports` then
replaces, unless the program set a port in between; after `Save` every type has an
entry), `OursInv` (no port of the debugger is
anywhere else, so none is saved as an original one: this is what a careless client
breaks) and `ControlInv`/`ThreadInv` for the order of the calls. `RestoreEffect` says what
one step of the loop of `Restore` does to a group of types.

### Exec and fork (`MachExceptionProofs`)

Any number of images. `TrapInv` is what makes `TaskFollowed` inductive: while the
SIGTRAP of an exec is on its way its sender is the only thread of its image and waits
for the reply, so nothing else comes from that image and no further exec happens before
it is handled. So a message that passes the test of `CatchExceptionRaise` for another
task is the current image's SIGTRAP, and neither an old image's message nor a child's.
`SenderInv` keeps messages of images that are not there yet out of the port.

### Memory (`MachVMMemoryProofs`, `MemoryRegionInfoProofs`)

Any page size, number of pages, map, address and length. `PageRange`, `PageInside` and
`ChunkInPage` relate bytes to pages with `\div` and `%`: in particular
`MaxBytesLeftInPage` keeps a chunk inside one page, which is why a chunk that cannot be
read costs no byte in front of it. `RestoreInv` holds in the middle of a `Write`: a page
differs from its old protection only if it is in the range the region remembers, and
the one protection the region remembers is the one every such page had (`FoundInv`: a
region has one protection). `WrittenInv` has the bytes written so far without a gap.

For `GetMemoryRegionInfo`, `HoleEmpty` needs that a lookup finds the *first* region
behind an address. That a nonempty set of pages has a first one is `FirstPage`, from
the well-foundedness of `<` on the naturals. `DirtyPagesOnce` is about the vector of
`get_dirty_pages`: every page of a region is in some chunk, the last partial one
included (`ChunksCover`), and in one only (`ChunksDisjoint`), so its address is pushed
once, and nothing else is pushed. It is for regions whose pages an
int can count; beyond, `DirtyPagesExact` says nothing. A walk starts only in a task that stands still, so `InfoIsExact` and `DirtyPagesAreExact`
say something with `TaskRuns = FALSE` only. `WalkAdvances` is the safety half of
`WalkEnds`: each answer moves the cursor forward and not beyond the end.

### Model-checked only

Liveness (`JoinReturns`, `MessageTaken`, `SingleStepReturns`, `CallReturns`, `WalkEnds`,
`ExecNoticed`) rests on fairness, and so on ENABLED, which TLAPS cannot reason about
here. TLC checks it on the instances above.

## Not modelled

* New threads in the debugged task during a session of `MachProcess` (`MachException`
  has them).
* What becomes of a signal or an exception once it is replied to: `PT_THUPDATE`'s
  effect on the thread, and the kernel's treatment of a reply with KERN_FAILURE.
* `GetMemoryProfile`, `GetMemoryTypes`, `MachException::Name` and `ExceptionMask`: copies
  and tables without state; the last two are not called.
* `Logger`: formatting and output under a mutex, used by the main thread only.
* `DNBDefs`, the MIG definitions and generated stubs, `target.cpp`: constants,
  generated code, and a loop that prints.
* `linux_int3`: when its handler returns, the thread executes the zero bytes behind
  the INT3 it was given; what these do depends on a register the source does not
  set. The steps before it are a page that is mapped and a handler that is
  installed.
* The kernel is external. `MachKernel` says only what the code relies on.

## Plan

The modules above cover what of the debugger keeps state, and the invariants of the
runs are proved. What is left:

1. `MachProcessSessionProofs` for a process that may die: `NoStepBitLeft` and
   `NoReplyLost` restricted to a task that is alive, to see which of them need
   `~MayExit`.
2. Action properties: a reply and `clear()` happen only while the task is suspended;
   `Write` changes no page outside the regions it visits; a saved port is dropped only
   after it was put back.
3. What of `ExceptionPortsProofs` holds for a careless client: `SavedInv` and `ThreadInv`
   for one process.
