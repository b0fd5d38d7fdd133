-------------------------- MODULE MemoryRegionInfo --------------------------
(***************************************************************************)
(* MachVMMemory::GetMemoryRegionInfo, as a client uses it to walk through  *)
(* the memory of a stopped task: ask about an address, go on behind the    *)
(* region it is told about.  get_dirty_pages asks the kernel for the pages *)
(* of a region in chunks of at most MaxDispositions; its vector of         *)
(* addresses is a bag here, the number of times each address is in it.     *)
(***************************************************************************)
EXTENDS MachVMMemory, Integers, FiniteSets

CONSTANTS MaxDispositions,  \* MAX_STACK_ALLOC_DISPOSITIONS
          IntLimit          \* 2^31: an int is less than this

ASSUME DispositionsAssumption ==
  MaxDispositions \in Nat \ {0} /\ IntLimit \in Nat \ {0}

VARIABLES
  walking,  \* the client walks through the memory
  dirty,    \* the pages of the task that are dirty (external)
  cursor,   \* the address the client asks about next
  info,     \* the DNBRegionInfo last returned
  crashed   \* the debugger has died in get_dirty_pages

walkVars == <<walking, dirty, cursor, info, crashed>>
memoryVars == <<vars, walkVars>>

NoAddresses == [a \in {} |-> 0]

\* A DNBRegionInfo as it is made; mapped and complete are not part of it.
NoInfo == [addr |-> 0, size |-> 0, permissions |-> {}, mapped |-> FALSE,
           dirty_pages |-> NoAddresses, complete |-> TRUE]

MemoryInit ==
  /\ Init
  /\ walking = FALSE
  /\ dirty = {}
  /\ cursor = 0
  /\ info = NoInfo
  /\ crashed = FALSE

-----------------------------------------------------------------------------
Fewer(a, b) == IF a < b THEN a ELSE b

Permission == [r |-> "readable", w |-> "writable", x |-> "executable"]

\* GetDNBPermissions of the region just looked up
GetDNBPermissions ==
  IF region'.m_start = Invalid \/ region'.m_size = 0 THEN {}
  ELSE {Permission[right] : right \in region'.protection}

\* int pages_to_query = size / vm_page_size: narrowed to an int.
PagesToQuery(size) ==
  LET low == (size \div PageBytes) % (2 * IntLimit)
  IN IF low < IntLimit THEN low ELSE low - 2 * IntLimit

\* The loop runs over the chunks; with a negative number of pages no query
\* succeeds, if one is made at all.
ChunkCount(pages) ==
  IF pages < 0 THEN 0 ELSE (pages + MaxDispositions - 1) \div MaxDispositions

\* Mutant: two chunks share a page.
AlreadyQueriedShort(c) == c * (MaxDispositions - 1)

\* dispositions_already_queried, in front of chunk c
AlreadyQueried(c) == c * MaxDispositions

\* chunk_pages_to_query
ChunkPages(pages, c) ==
  Fewer(pages - AlreadyQueried(c), Fewer(pages, MaxDispositions))

\* The turns of the inner loop in which push_back is called, when the first n
\* queries succeed: page i of chunk c is dirty.
Pushes(addr, pages, n) ==
  {q \in (0..(n - 1)) \X (0..(MaxDispositions - 1)) :
     /\ q[2] < ChunkPages(pages, q[1])
     /\ PageOf(addr) + AlreadyQueried(q[1]) + q[2] \in dirty}

DirtyAddr(addr, q) == addr + (AlreadyQueried(q[1]) + q[2]) * PageBytes

\* get_dirty_pages: how often each address is in the vector it returns.
GetDirtyPages(addr, size, n) ==
  LET pushes == Pushes(addr, PagesToQuery(size), n)
  IN [a \in {DirtyAddr(addr, q) : q \in pushes} |->
        Cardinality({q \in pushes : DirtyAddr(addr, q) = a})]

\* Mutant: the size of the next region, not of the gap in front of it.
GapIsRegion(a) == region'.m_size

\* Mutant: nothing behind the last region.
GapOrNothing(a) == IF a < region'.m_start THEN region'.m_start - a ELSE 0

\* The hole at a: up to the next region, or to the end of the address space.
GapSize(a) ==
  IF a < region'.m_start THEN region'.m_start - a ELSE Invalid - a

\* The client makes no other call; the task is stopped.
StartWalk ==
  /\ pc = "idle" /\ ~walking /\ ~TaskRuns
  /\ walking' = TRUE
  /\ dirty' \in SUBSET {p \in Pages : prot[p] # Unmapped}
  /\ UNCHANGED <<vars, cursor, info, crashed>>

\* GetRegionForAddress has found a region around a.
InRegion(a) ==
  region'.m_start <= a /\ a < region'.m_start + region'.m_size

\* One call, with a new DNBRegionInfo: in a hole dirty_pages is left alone.
\* complete: no query of get_dirty_pages failed.
GetMemoryRegionInfo ==
  /\ walking /\ ~crashed /\ cursor < Invalid
  /\ GetRegionForAddress(cursor)
  /\ LET chunks == ChunkCount(PagesToQuery(region'.m_size))
     IN \/ /\ InRegion(cursor)
           /\ \E n \in 0..chunks :
                info' = [addr |-> region'.m_start, size |-> region'.m_size,
                         permissions |-> GetDNBPermissions, mapped |-> TRUE,
                         dirty_pages |->
                           GetDirtyPages(region'.m_start, region'.m_size, n),
                         complete |-> n = chunks]
        \/ /\ ~InRegion(cursor)
           /\ info' = [NoInfo EXCEPT !.addr = cursor,
                                     !.size = GapSize(cursor)]
  /\ cursor' = info'.addr + info'.size
  /\ UNCHANGED <<prot, refused, written, pc, call, address, data_count, total,
                 chunk, done, m_page_size, taskMap, walking, dirty, crashed>>

\* int dispositions[dispositions_size] with a negative length is undefined:
\* besides an answer without dirty pages, the debugger may crash.
NegativeLength ==
  /\ walking /\ ~crashed /\ cursor < Invalid
  /\ GetRegionForAddress(cursor)
  /\ InRegion(cursor) /\ PagesToQuery(region'.m_size) < 0
  /\ crashed' = TRUE
  /\ UNCHANGED <<prot, refused, written, pc, call, address, data_count, total,
                 chunk, done, m_page_size, taskMap, walking, dirty, cursor,
                 info>>

Walked == walking /\ (cursor = Invalid \/ crashed) /\ UNCHANGED memoryVars

MemoryNext ==
  \/ ~walking /\ Next /\ UNCHANGED walkVars
  \/ StartWalk
  \/ GetMemoryRegionInfo
  \/ NegativeLength
  \/ Walked

MemorySpec ==
  MemoryInit /\ [][MemoryNext]_memoryVars /\ WF_memoryVars(GetMemoryRegionInfo)

-----------------------------------------------------------------------------
InfoPages == {p \in Pages : info.addr <= p * PageBytes
                              /\ p * PageBytes < info.addr + info.size}

\* Every page in the range that is reported has the permissions that are
\* reported for it; a range reported as a hole holds no memory.
InfoExact ==
  \A p \in InfoPages :
    IF info.mapped
      THEN /\ prot[p] # Unmapped
           /\ info.permissions = {Permission[right] : right \in prot[p]}
      ELSE prot[p] = Unmapped

\* Unless a query failed, each dirty page of the region is in the vector just
\* once: none is lost or pushed twice at the border of two chunks.  This is for
\* a region whose pages an int can count (2^31 of them are 8 TB).
DirtyPagesExact ==
  info.complete /\ info.size \div PageBytes < IntLimit =>
    info.dirty_pages =
      [a \in {p * PageBytes : p \in dirty \cap InfoPages} |-> 1]

\* The walk comes to the end of the address space, or to a region with more
\* pages than an int can count: no answer has size 0.
WalkEnds == walking ~> cursor = Invalid \/ crashed

=============================================================================
