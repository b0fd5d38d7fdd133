---------------------------- MODULE MachVMMemory ----------------------------
(***************************************************************************)
(* MachVMMemory.cpp: Read, page by page, and Write, region by region and   *)
(* within a region page by page.  One call is followed from its start to   *)
(* its return; every Mach call it makes is a step of its own, because the  *)
(* debugged task may change its memory map in between unless it is         *)
(* suspended.  The MachVMRegion is local to the call.                      *)
(***************************************************************************)
EXTENDS MachVMRegion

CONSTANTS MaxCount,  \* the most bytes a call asks for
          TaskRuns,  \* the task is not suspended during the call (BOOLEAN)
          Word       \* 2^32, what a mach_msg_type_number_t counts up to

ASSUME CallAssumption ==
  /\ MaxCount \in Nat /\ TaskRuns \in BOOLEAN
  /\ Word \in Nat /\ PageBytes < Word

VARIABLES
  written,      \* the addresses mach_vm_write has put the caller's bytes at
  pc,           \* where the call is
  call,         \* "read", "write" or "none"
  address, data_count,
  total,        \* total_bytes_read or total_bytes_written
  chunk,        \* what Write asks WriteRegion for
  done,         \* total_bytes_written in WriteRegion
  m_page_size,  \* 0 when the kernel would not tell
  taskMap       \* the memory map the task has made for itself (history)

vars == <<regionVars, written, pc, call, address, data_count, total, chunk,
          done, m_page_size, taskMap>>

Maps == [Pages -> Protections \cup {Unmapped}]

TypeOK ==
  /\ prot \in Maps
  /\ taskMap \in Maps
  /\ refused \subseteq {"change", "restore"}
  /\ region \in [m_start : Nat, m_size : Nat, protection : Protections,
                 m_curr_protection : Protections,
                 m_protection_addr : Nat, m_protection_size : Nat]
  /\ written \subseteq 0..(Invalid - 1)
  /\ pc \in {"idle", "read", "while", "lookup", "protect", "region",
             "flush", "destroy", "done"}
  /\ call \in {"none", "read", "write"}
  /\ address \in Nat /\ data_count \in 0..MaxCount
  /\ total \in 0..data_count
  /\ chunk \in 0..data_count /\ done \in 0..chunk
  /\ m_page_size \in {0, PageBytes}

Init ==
  /\ prot \in Maps
  /\ taskMap = prot
  /\ refused = {}
  /\ region = EmptyRegion
  /\ written = {}
  /\ pc = "idle" /\ call = "none"
  /\ address = 0 /\ data_count = 0
  /\ total = 0 /\ chunk = 0 /\ done = 0
  /\ m_page_size \in {0, PageBytes}

-----------------------------------------------------------------------------
\* Mutant: the limit, whatever was asked for.
LimitOnly(a, b) == b

Least(a, b) == IF a < b THEN a ELSE b

\* Mutant: no page boundary.
MaxBytesLeftUnpaged(a, count) == count

MaxBytesLeftInPage(a, count) ==
  IF m_page_size > 0 THEN Least(count, m_page_size - (a % m_page_size))
                     ELSE count

\* Mutant: curr_addr is not advanced.
AddrStuck == address

currAddr == address + total

Mapped(a, n) == a + n <= Invalid /\ Protectable(a, n)

Allowed(a, n, access) ==
  a + n <= Invalid
    /\ \A p \in PagesOf(a, n) : prot[p] # Unmapped /\ access \in prot[p]

-----------------------------------------------------------------------------
(* Read *)

Read(a, n) ==
  /\ pc = "idle"
  /\ call' = "read" /\ address' = a /\ data_count' = n
  /\ pc' = IF n = 0 THEN "done" ELSE "read"
  /\ UNCHANGED <<regionVars, written, total, chunk, done, m_page_size, taskMap>>

\* mach_vm_read gives all bytes asked for or none; it does not give more than
\* its 32-bit count of bytes read can say.
ReadTurn ==
  LET n == MaxBytesLeftInPage(currAddr, data_count - total)
  IN /\ pc = "read"
     /\ \/ /\ Allowed(currAddr, n, "r") /\ n < Word
           /\ total' = total + n
           /\ pc' = IF total' < data_count THEN "read" ELSE "done"
        \/ /\ ~(Allowed(currAddr, n, "r") /\ n < Word)
           /\ pc' = "done"
           /\ UNCHANGED total
     /\ UNCHANGED <<regionVars, written, call, address, data_count, chunk,
                    done, m_page_size, taskMap>>

-----------------------------------------------------------------------------
(* Write *)

Write(a, n) ==
  /\ pc = "idle"
  /\ call' = "write" /\ address' = a /\ data_count' = n
  /\ pc' = "while"
  /\ UNCHANGED <<regionVars, written, total, chunk, done, m_page_size, taskMap>>

\* The loop test, and the Clear that GetRegionForAddress starts with.
WriteTurn ==
  /\ pc = "while"
  /\ \/ total < data_count /\ pc' = "lookup" /\ Clear
     \/ total >= data_count /\ pc' = "destroy" /\ UNCHANGED regionVars
  /\ UNCHANGED <<written, call, address, data_count, total, chunk, done,
                 m_page_size, taskMap>>

Lookup ==
  /\ pc = "lookup"
  /\ GetRegionForAddress(currAddr)
  /\ pc' = IF region'.m_start <= currAddr
                /\ currAddr < region'.m_start + region'.m_size
             THEN "protect" ELSE "destroy"
  /\ UNCHANGED <<prot, refused, written, call, address, data_count, total,
                 chunk, done, m_page_size, taskMap>>

MakeWritable ==
  LET n == Least(data_count - total, BytesRemaining(currAddr))
  IN /\ pc = "protect"
     /\ \/ BytesRemaining(currAddr) = 0 /\ pc' = "destroy"
           /\ UNCHANGED <<regionVars, chunk, done>>
        \/ /\ BytesRemaining(currAddr) # 0
           /\ SetProtections(currAddr, n, RW)
           /\ chunk' = n /\ done' = 0
           /\ pc' = "region"
        \/ /\ BytesRemaining(currAddr) # 0
           /\ SetProtectionsFails(currAddr, n, RW)
           /\ pc' = "destroy"
           /\ UNCHANGED <<chunk, done>>
     /\ UNCHANGED <<written, call, address, data_count, total, m_page_size,
                    taskMap>>

\* Mutant: Write ends with the first region.
OneRegionOnly(n) ==
  /\ total' = total + n
  /\ pc' = "destroy"

\* What WriteRegion has written, when its loop ends.
RegionDone(n) ==
  /\ total' = total + n
  /\ pc' = IF n = 0 THEN "destroy" ELSE "while"

\* Where a turn of WriteRegion starts, and the bytes it is about: the count
\* is cast to 32 bits, and only the page size keeps it that small.
turnAddr == currAddr + done
turnCount == MaxBytesLeftInPage(turnAddr, chunk - done) % Word

\* A turn of WriteRegion begins with mach_vm_write, whose result goes to m_err
\* and is overwritten there by that of the flush.
WriteRegionTurn ==
  /\ pc = "region"
  /\ written' = IF Allowed(turnAddr, turnCount, "w")
                  THEN written \cup turnAddr..(turnAddr + turnCount - 1)
                  ELSE written
  /\ pc' = "flush"
  /\ UNCHANGED <<regionVars, call, address, data_count, total, chunk, done,
                 m_page_size, taskMap>>

\* Mutant: a failed flush does not end the loop.
FlushCacheNoBreak ==
  /\ pc = "flush"
  /\ \/ /\ Mapped(turnAddr, turnCount)
        /\ done' = done + turnCount
        /\ \/ done' < chunk /\ pc' = "region" /\ UNCHANGED total
           \/ done' >= chunk /\ RegionDone(done')
     \/ /\ ~Mapped(turnAddr, turnCount)
        /\ pc' = "region"
        /\ UNCHANGED <<done, total>>
  /\ UNCHANGED <<regionVars, written, call, address, data_count, chunk,
                 m_page_size, taskMap>>

\* vm_machine_attribute on the same bytes, and what its result decides.
FlushCache ==
  /\ pc = "flush"
  /\ \/ /\ Mapped(turnAddr, turnCount)
        /\ done' = done + turnCount
        /\ \/ done' < chunk /\ pc' = "region" /\ UNCHANGED total
           \/ done' >= chunk /\ RegionDone(done')
     \/ /\ ~Mapped(turnAddr, turnCount)
        /\ RegionDone(done)
        /\ UNCHANGED done
  /\ UNCHANGED <<regionVars, written, call, address, data_count, chunk,
                 m_page_size, taskMap>>

\* ~MachVMRegion
Destroy ==
  /\ pc = "destroy"
  /\ Clear
  /\ pc' = "done"
  /\ UNCHANGED <<written, call, address, data_count, total, chunk, done,
                 m_page_size, taskMap>>

-----------------------------------------------------------------------------
\* The task maps or unmaps a page or changes its protection.
TaskChangesMap ==
  /\ TaskRuns /\ pc \notin {"idle", "done"}
  /\ \E p \in Pages, new \in Protections \cup {Unmapped} :
       /\ prot[p] # new
       /\ prot' = [prot EXCEPT ![p] = new]
       /\ taskMap' = [taskMap EXCEPT ![p] = new]
  /\ UNCHANGED <<region, refused, written, pc, call, address, data_count,
                 total, chunk, done, m_page_size>>

Returned == pc = "done" /\ UNCHANGED vars

Debugger ==
  \/ ReadTurn \/ WriteTurn \/ Lookup \/ MakeWritable \/ WriteRegionTurn
  \/ FlushCache \/ Destroy

Next ==
  \/ \E a \in 0..(Invalid - 1), n \in 0..MaxCount : Read(a, n) \/ Write(a, n)
  \/ Debugger
  \/ TaskChangesMap
  \/ Returned

Spec == Init /\ [][Next]_vars /\ WF_vars(Debugger)

-----------------------------------------------------------------------------
\* Write leaves the memory map as it found it: every page it made writable,
\* in whatever region and however the call ended, has its protection back,
\* unless mach_vm_protect refused to restore it.
ProtectionsRestored == pc = "done" /\ "restore" \notin refused => prot = taskMap

\* The number of bytes Write returns is the number of bytes it wrote, from
\* the first one on.
WriteCounts ==
  pc = "done" /\ call = "write" => written = address..(address + total - 1)

\* Write goes on over the borders of pages and regions: it stops short only
\* in front of an unmapped page or one mach_vm_protect refuses to change.
WriteStopsAtHole ==
  pc = "done" /\ call = "write" /\ total < data_count =>
    \/ "change" \in refused
    \/ currAddr >= Invalid \/ taskMap[PageOf(currAddr)] = Unmapped

\* Read returns the longest readable prefix: a page it may not read costs
\* the caller none of the bytes in front of it.
ReadIsMaximal ==
  pc = "done" /\ call = "read" /\ total < data_count /\ m_page_size > 0 =>
    currAddr >= Invalid \/ ~Allowed(currAddr, 1, "r")

\* No byte outside the range the caller named is written, whatever the task
\* does to its memory meanwhile.
WriteInRange == written \subseteq address..(address + data_count - 1)

\* Read and Write return, also when the task changes its memory map.  The one
\* exception is a write the 32-bit count cannot hold when the page size is not
\* known: a turn may then be one of 0 bytes, and the next one the same.
CallReturns ==
  pc # "idle" ~> pc = "done" \/ (m_page_size = 0 /\ data_count >= Word)

=============================================================================
