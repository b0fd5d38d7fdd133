----------------------- MODULE MemoryRegionInfoProofs -----------------------
(***************************************************************************)
(* What GetMemoryRegionInfo reports is true of every page it is about, for *)
(* every page size, memory map and size of a query for dirty pages.        *)
(***************************************************************************)
EXTENDS MemoryRegionInfo, MachVMMemoryProofs, WellFoundedInduction,
        FiniteSetTheorems

-----------------------------------------------------------------------------
(* Numbers. *)

\* A set of pages that is not empty has a first one.
LEMMA FirstPage ==
  ASSUME NEW T \in SUBSET Nat, T # {}
  PROVE  \E x \in T : \A y \in T : x <= y
<1> DEFINE R == OpToRel(<, Nat)
<1>1. IsWellFoundedOn(R, Nat)
  BY NatLessThanWellFounded
<1>2. \A x, y \in Nat : <<y, x>> \notin R => x <= y
  BY DEF OpToRel
<1> HIDE DEF R
<1>3. PICK x \in T : \A y \in T : ~(<<y, x>> \in R)
  BY <1>1, WFMin
<1> QED  BY <1>2, <1>3

\* The page at a page boundary.
LEMMA PageAtBoundary ==
  ASSUME NEW n \in Nat
  PROVE  n * PageBytes \in Nat /\ PageOf(n * PageBytes) = n
<1> DEFINE a == n * PageBytes
<1>1. a \in Nat /\ a < (n + 1) * PageBytes
  BY PagesSize, MapAssumption
<1>2. n * PageBytes <= a
  BY <1>1
<1> HIDE DEF a
<1>3. n <= PageOf(a) /\ PageOf(a) < n + 1 /\ PageOf(a) \in Nat
  BY <1>1, <1>2, PageRange, PageBounds
<1> QED  BY <1>1, <1>3 DEF a

\* Dividing into chunks: where the chunk of a page starts.
LEMMA ChunkBounds ==
  ASSUME NEW x \in Nat
  PROVE  /\ x \div MaxDispositions \in Nat
         /\ x % MaxDispositions \in 0..(MaxDispositions - 1)
         /\ x = (x \div MaxDispositions) * MaxDispositions
                  + (x % MaxDispositions)
BY DispositionsAssumption

\* More chunks, more pages.
LEMMA ChunksMonotone ==
  ASSUME NEW c \in Nat, NEW k \in Nat
  PROVE  /\ c * MaxDispositions \in Nat
         /\ c * MaxDispositions < k * MaxDispositions => c < k
BY DispositionsAssumption

\* The queries of get_dirty_pages cover the pages of the region, and no other.
LEMMA ChunksCover ==
  ASSUME NEW pages \in Nat
  PROVE  LET k == ChunkCount(pages)
         IN /\ k \in Nat
            /\ \A c \in 0..(k - 1), i \in 0..(MaxDispositions - 1) :
                 i < ChunkPages(pages, c) =>
                   AlreadyQueried(c) + i \in 0..(pages - 1)
            /\ \A j \in 0..(pages - 1) :
                 \E c \in 0..(k - 1), i \in 0..(MaxDispositions - 1) :
                   i < ChunkPages(pages, c) /\ j = AlreadyQueried(c) + i
<1> DEFINE M == MaxDispositions
           k == ChunkCount(pages)
<1>1. M \in Nat \ {0}
  BY DispositionsAssumption
<1>2. k \in Nat /\ pages <= k * M
  <2> DEFINE x == pages + M - 1
  <2>1. x \in Nat
    BY <1>1
  <2>2. x \div M \in Nat /\ x % M \in 0..(M - 1) /\ x = (x \div M) * M + (x % M)
    BY <2>1, ChunkBounds
  <2>3. k = x \div M
    BY DEF ChunkCount
  <2> HIDE DEF x, k, M
  <2>4. k * M \in Nat
    BY <1>1, <2>2, <2>3
  <2>5. x = k * M + (x % M)
    BY <2>2, <2>3
  <2> DEFINE y == k * M
  <2> HIDE DEF y
  <2>6. pages <= y
    BY <1>1, <2>1, <2>2, <2>4, <2>5 DEF x, y
  <2> QED  BY <2>2, <2>3, <2>6 DEF y
<1> HIDE DEF k, M
<1>3. ASSUME NEW c \in 0..(k - 1), NEW i \in 0..(M - 1),
             i < ChunkPages(pages, c)
      PROVE  AlreadyQueried(c) + i \in 0..(pages - 1)
  <2> DEFINE y == c * M
  <2>1. y \in Nat /\ AlreadyQueried(c) = y
    BY <1>1, <1>2 DEF AlreadyQueried, M
  <2>2. i < Fewer(pages - y, Fewer(pages, M))
    BY <1>3, <2>1 DEF ChunkPages, M
  <2> HIDE DEF y
  <2>3. y + i \in 0..(pages - 1)
    BY <1>1, <2>1, <2>2 DEF Fewer
  <2> QED  BY <2>1, <2>3
<1>4. ASSUME NEW j \in 0..(pages - 1)
      PROVE  \E c \in 0..(k - 1), i \in 0..(M - 1) :
               i < ChunkPages(pages, c) /\ j = AlreadyQueried(c) + i
  <2> DEFINE c == j \div M
             i == j % M
             y == c * M
  <2>1. c \in Nat /\ i \in 0..(M - 1) /\ j = y + i /\ j \in Nat
    BY ChunkBounds DEF M
  <2> HIDE DEF c, i
  <2>2. y \in Nat /\ AlreadyQueried(c) = y
    BY <1>1, <2>1 DEF AlreadyQueried, M
  <2>3. c < k
    <3>1. k * M \in Nat
      BY <1>1, <1>2
    <3> HIDE DEF y
    <3>2. y < k * M
      BY <1>2, <2>1, <2>2, <3>1
    <3> QED  BY <1>2, <2>1, <3>2, ChunksMonotone DEF y, M
  <2>4. c \in 0..(k - 1)
    BY <1>2, <2>1, <2>3
  <2>5. i < ChunkPages(pages, c)
    <3>1. ChunkPages(pages, c) = Fewer(pages - y, Fewer(pages, M))
      BY <2>2 DEF ChunkPages, M
    <3> HIDE DEF y
    <3>2. i < Fewer(pages - y, Fewer(pages, M))
      BY <1>1, <2>1, <2>2 DEF Fewer
    <3> QED  BY <3>1, <3>2
  <2>6. j = AlreadyQueried(c) + i
    BY <2>1, <2>2
  <2> QED  BY <2>1, <2>4, <2>5, <2>6
<1> QED  BY <1>2, <1>3, <1>4 DEF k, M

\* A page is asked about in one chunk, and at one place of it.
LEMMA ChunksDisjoint ==
  ASSUME NEW c \in Nat, NEW d \in Nat,
         NEW i \in 0..(MaxDispositions - 1), NEW j \in 0..(MaxDispositions - 1),
         AlreadyQueried(c) + i = AlreadyQueried(d) + j
  PROVE  c = d /\ i = j
<1>1. ASSUME NEW a \in Nat, NEW b \in Nat, a < b
      PROVE  /\ a * MaxDispositions \in Nat /\ b * MaxDispositions \in Nat
             /\ a * MaxDispositions + MaxDispositions <= b * MaxDispositions
  BY <1>1, DispositionsAssumption
<1> DEFINE x == c * MaxDispositions
           y == d * MaxDispositions
<1>2. /\ x \in Nat /\ y \in Nat /\ x + i = y + j
      /\ c < d => x + MaxDispositions <= y
      /\ d < c => y + MaxDispositions <= x
      /\ c = d => x = y
  BY <1>1, DispositionsAssumption DEF AlreadyQueried
<1> HIDE DEF x, y
<1> QED  BY <1>2, DispositionsAssumption

\* A number of pages that an int can hold is not changed.
LEMMA NoNarrowing ==
  ASSUME NEW pages \in Nat, pages < IntLimit, NEW size,
         size \div PageBytes = pages
  PROVE  PagesToQuery(size) = pages
<1>1. pages % (2 * IntLimit) = pages
  BY DispositionsAssumption
<1> QED  BY <1>1 DEF PagesToQuery

\* When no query fails, get_dirty_pages pushes the address of every dirty page
\* of the region once.
LEMMA DirtyPagesOnce ==
  ASSUME NEW lo \in Nat, NEW pages \in Nat, NEW size,
         PagesToQuery(size) = pages
  PROVE  GetDirtyPages(lo * PageBytes, size, ChunkCount(pages)) =
           [a \in {p * PageBytes : p \in dirty \cap (lo..(lo + pages - 1))} |-> 1]
<1> DEFINE addr == lo * PageBytes
           k == ChunkCount(pages)
           P == Pushes(addr, pages, k)
           Page(q) == lo + (AlreadyQueried(q[1]) + q[2])
           D == dirty \cap (lo..(lo + pages - 1))
<1>1. PageOf(addr) = lo /\ addr \in Nat /\ k \in Nat
  BY PageAtBoundary, ChunksCover
<1>2. ASSUME NEW q \in P
      PROVE  /\ q[1] \in 0..(k - 1) /\ q[2] \in 0..(MaxDispositions - 1)
             /\ q = <<q[1], q[2]>>
             /\ AlreadyQueried(q[1]) + q[2] \in 0..(pages - 1)
             /\ Page(q) \in D
             /\ DirtyAddr(addr, q) = Page(q) * PageBytes
  <2>1. /\ q[1] \in 0..(k - 1) /\ q[2] \in 0..(MaxDispositions - 1)
        /\ q = <<q[1], q[2]>> /\ q[2] < ChunkPages(pages, q[1])
        /\ lo + AlreadyQueried(q[1]) + q[2] \in dirty
    BY <1>1 DEF Pushes
  <2>2. AlreadyQueried(q[1]) + q[2] \in 0..(pages - 1)
    BY <2>1, ChunksCover
  <2>3. AlreadyQueried(q[1]) \in Nat
    BY <1>1, <2>1, DispositionsAssumption DEF AlreadyQueried
  <2> DEFINE u == AlreadyQueried(q[1])
             v == q[2]
  <2>4. u \in Nat /\ v \in Nat /\ u + v \in 0..(pages - 1)
        /\ lo + u + v \in dirty
    BY <2>1, <2>2, <2>3, DispositionsAssumption
  <2>5. DirtyAddr(addr, q) = lo * PageBytes + (u + v) * PageBytes
    BY DEF DirtyAddr
  <2> HIDE DEF u, v
  <2>6. lo + (u + v) \in D
    <3>1. lo + (u + v) = lo + u + v
      BY <2>4
    <3> QED  BY <2>4, <3>1
  <2>7. lo * PageBytes + (u + v) * PageBytes = (lo + (u + v)) * PageBytes
    BY <2>4, MapAssumption
  <2> QED  BY <2>1, <2>2, <2>5, <2>6, <2>7 DEF u, v
<1>3. ASSUME NEW p \in D
      PROVE  \E q \in P : Page(q) = p
  <2>1. p \in Nat /\ p - lo \in 0..(pages - 1) /\ p = lo + (p - lo)
    OBVIOUS
  <2>2. PICK c \in 0..(k - 1), i \in 0..(MaxDispositions - 1) :
          i < ChunkPages(pages, c) /\ p - lo = AlreadyQueried(c) + i
    BY <2>1, ChunksCover
  <2> DEFINE q == <<c, i>>
  <2>3. AlreadyQueried(c) \in Nat /\ i \in Nat
    BY <1>1, DispositionsAssumption DEF AlreadyQueried
  <2>4. lo + AlreadyQueried(c) + i = p
    BY <2>1, <2>2, <2>3
  <2>5. q \in P
    BY <1>1, <2>2, <2>4 DEF Pushes
  <2>6. Page(q) = p
    BY <2>1, <2>2
  <2> QED  BY <2>5, <2>6
<1>4. ASSUME NEW q \in P, NEW r \in P, DirtyAddr(addr, q) = DirtyAddr(addr, r)
      PROVE  q = r
  <2>1. Page(q) * PageBytes = Page(r) * PageBytes
    BY <1>2, <1>4
  <2>2. Page(q) \in Nat /\ Page(r) \in Nat
    BY <1>2
  <2>3. Page(q) = Page(r)
    <3> DEFINE x == Page(q)
               y == Page(r)
    <3> HIDE DEF x, y
    <3>1. x * PageBytes = y * PageBytes /\ x \in Nat /\ y \in Nat
      BY <2>1, <2>2 DEF x, y
    <3>2. x = y
      BY <3>1, PageAtBoundary
    <3> QED  BY <3>2 DEF x, y
  <2>4. /\ AlreadyQueried(q[1]) + q[2] = AlreadyQueried(r[1]) + r[2]
        /\ q[1] \in Nat /\ r[1] \in Nat
    <3> DEFINE x == AlreadyQueried(q[1]) + q[2]
               y == AlreadyQueried(r[1]) + r[2]
    <3>1. x \in Nat /\ y \in Nat /\ lo + x = lo + y
      BY <1>2, <2>3
    <3>2. q[1] \in Nat /\ r[1] \in Nat
      BY <1>1, <1>2
    <3> HIDE DEF x, y
    <3>3. x = y
      BY <3>1
    <3> QED  BY <3>2, <3>3 DEF x, y
  <2>5. q[1] = r[1] /\ q[2] = r[2]
    BY <1>2, <2>4, ChunksDisjoint
  <2> QED  BY <1>2, <2>5
<1> HIDE DEF P, Page, D
<1>5. {DirtyAddr(addr, q) : q \in P} = {p * PageBytes : p \in D}
  BY <1>2, <1>3
<1>6. ASSUME NEW a \in {DirtyAddr(addr, q) : q \in P}
      PROVE  Cardinality({q \in P : DirtyAddr(addr, q) = a}) = 1
  <2>1. PICK q \in P : DirtyAddr(addr, q) = a
    BY <1>6
  <2>2. {r \in P : DirtyAddr(addr, r) = a} = {q}
    BY <1>4, <2>1
  <2> QED  BY <2>2, FS_Singleton
<1>7. GetDirtyPages(addr, size, k) =
        [a \in {DirtyAddr(addr, q) : q \in P} |->
           Cardinality({q \in P : DirtyAddr(addr, q) = a})]
  BY DEF GetDirtyPages, P
<1>8. GetDirtyPages(addr, size, k) = [a \in {p * PageBytes : p \in D} |-> 1]
  BY <1>5, <1>6, <1>7
<1> QED  BY <1>8 DEF D

-----------------------------------------------------------------------------
(* The inductive invariant. *)

\* Before the walk the calls of MachVMMemory; during it the map stands still
\* and every answer is exact.
WalkInv ==
  /\ TypeOK
  /\ cursor \in 0..Invalid
  /\ \A p \in dirty : p \in Pages /\ prot[p] # Unmapped
  /\ walking => pc = "idle"
  /\ ~walking => TypeInv /\ info = NoInfo /\ dirty = {}
  /\ InfoExact
  /\ DirtyPagesExact

\* An answer about a region: its pages are those of one entry of the map.
LEMMA InsideRegion ==
  ASSUME NEW lo \in Pages, NEW hi \in Pages, lo <= hi
  PROVE  /\ (hi - lo + 1) * PageBytes \in Nat
         /\ ((hi - lo + 1) * PageBytes) \div PageBytes = hi - lo + 1
         /\ {p \in Pages :
               /\ lo * PageBytes <= p * PageBytes
               /\ p * PageBytes < lo * PageBytes + (hi - lo + 1) * PageBytes}
              = lo..hi
<1>1. /\ lo \in Nat /\ hi \in Nat /\ hi < PageCount /\ PageCount \in Nat
      /\ hi - lo + 1 \in Nat /\ hi + 1 \in Nat
  BY MapAssumption DEF Pages
<1>2. /\ (hi - lo + 1) * PageBytes \in Nat
      /\ ((hi - lo + 1) * PageBytes) \div PageBytes = hi - lo + 1
  BY <1>1, PageAtBoundary DEF PageOf
<1>3. lo * PageBytes + (hi - lo + 1) * PageBytes = (hi + 1) * PageBytes
  BY <1>1, MapAssumption
<1>4. ASSUME NEW p \in Pages
      PROVE  /\ lo * PageBytes <= p * PageBytes <=> lo <= p
             /\ p * PageBytes < (hi + 1) * PageBytes <=> p < hi + 1
  <2>1. p \in Nat
    BY <1>1 DEF Pages
  <2>2. p * PageBytes \in Nat /\ PageOf(p * PageBytes) = p
    BY <2>1, PageAtBoundary
  <2> QED  BY <1>1, <2>2, PageRange
<1>5. \A p \in lo..hi : p \in Pages
  BY <1>1 DEF Pages
<1>6. {p \in Pages :
         /\ lo * PageBytes <= p * PageBytes
         /\ p * PageBytes < lo * PageBytes + (hi - lo + 1) * PageBytes}
        = lo..hi
  <2>1. ASSUME NEW p \in Pages
        PROVE  p \in lo..hi <=> lo <= p /\ p < hi + 1
    BY <1>1 DEF Pages
  <2> QED  BY <1>3, <1>4, <1>5, <2>1
<1> QED  BY <1>2, <1>6

\* A hole: no page from the address asked about to the next region, or to the
\* end of the address space when there is none, has memory.
LEMMA HoleEmpty ==
  ASSUME prot \in Maps, cursor \in Nat, cursor < Invalid,
         GetRegionForAddress(cursor),
         ~(/\ region'.m_start <= cursor
           /\ cursor < region'.m_start + region'.m_size)
  PROVE  /\ GapSize(cursor) \in Nat \ {0}
         /\ cursor + GapSize(cursor) <= Invalid
         /\ \A p \in Pages :
              cursor <= p * PageBytes
                /\ p * PageBytes < cursor + GapSize(cursor)
                => prot[p] = Unmapped
<1>1. /\ Invalid \in Nat /\ PageOf(cursor) \in Nat /\ PageOf(cursor) \in Pages
      /\ PageCount \in Nat
  BY EmptyRegionType, PageBounds, PageInside, MapAssumption
<1>2. ASSUME NEW p \in Pages
      PROVE  /\ p \in Nat /\ p * PageBytes \in Nat
             /\ PageOf(p * PageBytes) = p
             /\ cursor <= p * PageBytes => PageOf(cursor) <= p
  <2>1. p \in Nat
    BY <1>1 DEF Pages
  <2>2. p * PageBytes \in Nat /\ PageOf(p * PageBytes) = p
    BY <2>1, PageAtBoundary
  <2>3. ASSUME cursor <= p * PageBytes
        PROVE  PageOf(cursor) <= p
    <3>1. /\ PageOf(cursor) * PageBytes <= cursor
          /\ PageOf(cursor) * PageBytes \in Nat
      BY <1>1, PageBounds, PagesSize
    <3>2. PageOf(cursor) * PageBytes <= p * PageBytes
      BY <2>2, <2>3, <3>1
    <3> QED  BY <1>1, <2>2, <3>2, PageRange
  <2> QED  BY <2>1, <2>2, <2>3
<1>3. ASSUME NEW lo \in Pages, NEW hi \in Pages,
             RegionRecurse(cursor, lo, hi),
             region' = [EmptyRegion EXCEPT
                          !.m_start = lo * PageBytes,
                          !.m_size = (hi - lo + 1) * PageBytes,
                          !.protection = prot[lo],
                          !.m_curr_protection = prot[lo]]
      PROVE  /\ GapSize(cursor) \in Nat \ {0}
             /\ cursor + GapSize(cursor) <= Invalid
             /\ \A p \in Pages :
                  cursor <= p * PageBytes
                    /\ p * PageBytes < cursor + GapSize(cursor)
                    => prot[p] = Unmapped
  <2>1. /\ region'.m_start = lo * PageBytes
        /\ region'.m_size = (hi - lo + 1) * PageBytes
    BY <1>3 DEF EmptyRegion
  <2>2. /\ lo \in Nat /\ hi \in Nat /\ lo <= hi /\ hi + 1 \in Nat
        /\ lo * PageBytes \in Nat
    BY <1>1, <1>2, <1>3 DEF RegionRecurse, Entry
  <2>3. lo * PageBytes + (hi - lo + 1) * PageBytes = (hi + 1) * PageBytes
    BY <2>2, MapAssumption
  <2>4. ~(lo <= PageOf(cursor) /\ PageOf(cursor) < hi + 1)
    BY <2>1, <2>2, <2>3, PageRange
  <2>5. /\ PageOf(cursor) < lo
        /\ \A p \in PageOf(cursor)..(lo - 1) : prot[p] = Unmapped
    BY <1>1, <1>3, <2>2, <2>4 DEF RegionRecurse
  <2>6. cursor < lo * PageBytes
    BY <1>1, <2>2, <2>5, PageRange
  <2>7. /\ GapSize(cursor) = lo * PageBytes - cursor
        /\ cursor + GapSize(cursor) = lo * PageBytes
        /\ GapSize(cursor) \in Nat \ {0}
    BY <2>1, <2>2, <2>6 DEF GapSize
  <2>8. lo * PageBytes <= Invalid
    <3>1. PageOf(lo * PageBytes) \in Pages
      BY <1>2
    <3> QED  BY <1>1, <2>2, <3>1, PageInside
  <2>9. ASSUME NEW p \in Pages, cursor <= p * PageBytes,
               p * PageBytes < lo * PageBytes
        PROVE  prot[p] = Unmapped
    <3>1. p < lo
      BY <1>2, <2>2, <2>9, PageRange
    <3>2. p \in PageOf(cursor)..(lo - 1)
      BY <1>1, <1>2, <2>2, <2>9, <3>1
    <3> QED  BY <2>5, <3>2
  <2> QED  BY <2>7, <2>8, <2>9
<1>4. ASSUME \A lo, hi \in Pages : ~RegionRecurse(cursor, lo, hi),
             region' = [EmptyRegion EXCEPT !.m_start = cursor]
      PROVE  /\ GapSize(cursor) \in Nat \ {0}
             /\ cursor + GapSize(cursor) <= Invalid
             /\ \A p \in Pages :
                  cursor <= p * PageBytes => prot[p] = Unmapped
  <2>1. region'.m_start = cursor
    BY <1>4 DEF EmptyRegion
  <2>2. GapSize(cursor) = Invalid - cursor
    BY <2>1 DEF GapSize
  <2> DEFINE T == {p \in Pages : PageOf(cursor) <= p /\ prot[p] # Unmapped}
  <2>3. T = {}
    <3> SUFFICES ASSUME T # {}
                 PROVE  FALSE
      OBVIOUS
    <3>1. T \in SUBSET Nat
      BY <1>2
    <3> HIDE DEF T
    <3>2. PICK lo \in T : \A y \in T : lo <= y
      BY <3>1, FirstPage
    <3> USE DEF T
    <3>3. lo \in Pages /\ lo \in Nat /\ prot[lo] # Unmapped
      BY <1>2, <3>2
    <3>4. lo..lo = {lo}
      BY <3>3
    <3>5. \A p \in PageOf(cursor)..(lo - 1) : prot[p] = Unmapped
      <4>1. ASSUME NEW p \in PageOf(cursor)..(lo - 1)
            PROVE  p \in Pages /\ PageOf(cursor) <= p /\ ~(lo <= p)
        BY <1>1, <3>3 DEF Pages
      <4> QED  BY <3>2, <4>1
    <3>6. PageOf(cursor) <= lo
      BY <3>2
    <3>7. RegionRecurse(cursor, lo, lo)
      BY <1>1, <3>3, <3>4, <3>5, <3>6 DEF RegionRecurse, Entry
    <3> QED  BY <1>4, <3>3, <3>7
  <2> QED  BY <1>1, <1>2, <2>2, <2>3
<1> QED  BY <1>3, <1>4 DEF GetRegionForAddress

\* One answer of GetMemoryRegionInfo is exact, and the walk goes on behind
\* the address asked about.
LEMMA AnswerExact ==
  ASSUME WalkInv, GetMemoryRegionInfo
  PROVE  /\ InfoExact' /\ DirtyPagesExact'
         /\ cursor' \in 0..Invalid /\ cursor < cursor'
<1> DEFINE inside == /\ region'.m_start <= cursor
                     /\ cursor < region'.m_start + region'.m_size
           chunks == ChunkCount(PagesToQuery(region'.m_size))
<1>1. /\ cursor \in Nat /\ cursor < Invalid /\ Invalid \in Nat
      /\ prot \in Maps /\ GetRegionForAddress(cursor)
      /\ \A p \in dirty : p \in Pages /\ prot[p] # Unmapped
      /\ prot' = prot /\ dirty' = dirty /\ cursor' = info'.addr + info'.size
  BY EmptyRegionType DEF WalkInv, TypeOK, GetMemoryRegionInfo
<1>2. CASE inside
  <2>1. PICK n \in 0..chunks :
          info' = [addr |-> region'.m_start, size |-> region'.m_size,
                   permissions |-> GetDNBPermissions, mapped |-> TRUE,
                   dirty_pages |->
                     GetDirtyPages(region'.m_start, region'.m_size, n),
                   complete |-> n = chunks]
    BY <1>2 DEF GetMemoryRegionInfo, InRegion
  <2>2. PICK lo \in Pages, hi \in Pages :
          /\ RegionRecurse(cursor, lo, hi)
          /\ region' = [EmptyRegion EXCEPT
                          !.m_start = lo * PageBytes,
                          !.m_size = (hi - lo + 1) * PageBytes,
                          !.protection = prot[lo],
                          !.m_curr_protection = prot[lo]]
    <3>1. region' # [EmptyRegion EXCEPT !.m_start = cursor]
      <4>1. CASE region' = [EmptyRegion EXCEPT !.m_start = cursor]
        <5>1. region'.m_start = cursor /\ region'.m_size = 0
          BY <4>1 DEF EmptyRegion
        <5> QED  BY <1>1, <1>2, <5>1
      <4> QED  BY <4>1
    <3> QED  BY <1>1, <3>1 DEF GetRegionForAddress
  <2>3. /\ region'.m_start = lo * PageBytes
        /\ region'.m_size = (hi - lo + 1) * PageBytes
        /\ region'.protection = prot[lo]
    BY <2>2 DEF EmptyRegion
  <2>4. /\ lo <= hi /\ lo \in Nat /\ hi \in Nat /\ lo * PageBytes \in Nat
        /\ \A p \in lo..hi : prot[p] # Unmapped /\ prot[p] = prot[lo]
        /\ hi - lo + 1 \in Nat
    <3>1. lo <= hi /\ \A p \in lo..hi : prot[p] # Unmapped /\ prot[p] = prot[lo]
      BY <2>2 DEF RegionRecurse, Entry
    <3>2. lo \in Nat /\ hi \in Nat
      BY MapAssumption DEF Pages
    <3> QED  BY <3>1, <3>2, PagesSize
  <2>5. /\ info'.addr = lo * PageBytes
        /\ info'.size = (hi - lo + 1) * PageBytes /\ info'.size \in Nat
        /\ info'.mapped /\ info'.permissions = GetDNBPermissions
        /\ info'.complete <=> n = chunks
        /\ info'.dirty_pages =
             GetDirtyPages(lo * PageBytes, (hi - lo + 1) * PageBytes, n)
    BY <2>1, <2>3, <2>4, InsideRegion
  <2>6. InfoPages' = lo..hi
    BY <2>4, <2>5, InsideRegion DEF InfoPages
  <2>7. GetDNBPermissions = {Permission[right] : right \in prot[lo]}
    <3>1. region'.m_start # Invalid /\ region'.m_size # 0
      BY <1>1, <1>2, <2>3, <2>4
    <3> QED  BY <2>3, <3>1 DEF GetDNBPermissions
  <2>8. InfoExact'
    BY <1>1, <2>4, <2>5, <2>6, <2>7 DEF InfoExact
  <2>9. ASSUME n = chunks, info'.size \div PageBytes < IntLimit
        PROVE  info'.dirty_pages =
                 [a \in {p * PageBytes : p \in dirty \cap (lo..hi)} |-> 1]
    <3> DEFINE pages == hi - lo + 1
    <3>1. ((hi - lo + 1) * PageBytes) \div PageBytes = pages
      BY <2>4, InsideRegion
    <3>2. pages \in Nat /\ PagesToQuery((hi - lo + 1) * PageBytes) = pages
      BY <2>4, <2>5, <2>9, <3>1, NoNarrowing
    <3>3. n = ChunkCount(pages)
      BY <2>3, <2>9, <3>2
    <3>4. lo + pages - 1 = hi
      BY <2>4
    <3> HIDE DEF pages
    <3> QED  BY <2>4, <2>5, <3>2, <3>3, <3>4, DirtyPagesOnce
  <2>10. DirtyPagesExact'
    BY <1>1, <2>5, <2>6, <2>9 DEF DirtyPagesExact
  <2>11. cursor' \in 0..Invalid /\ cursor < cursor'
    <3>1. region'.m_start + region'.m_size <= Invalid
      BY <1>1, <1>2, RegionFacts
    <3> QED  BY <1>1, <1>2, <2>3, <2>4, <2>5, <3>1
  <2> QED  BY <2>8, <2>10, <2>11
<1>3. CASE ~inside
  <2>1. info' = [NoInfo EXCEPT !.addr = cursor, !.size = GapSize(cursor)]
    BY <1>3 DEF GetMemoryRegionInfo, InRegion
  <2>2. /\ info'.addr = cursor /\ info'.size = GapSize(cursor)
        /\ info'.mapped = FALSE /\ info'.dirty_pages = NoAddresses
    BY <2>1 DEF NoInfo
  <2>3. /\ GapSize(cursor) \in Nat \ {0}
        /\ cursor + GapSize(cursor) <= Invalid
        /\ \A p \in Pages :
             cursor <= p * PageBytes
               /\ p * PageBytes < cursor + GapSize(cursor)
               => prot[p] = Unmapped
    BY <1>1, <1>3, HoleEmpty
  <2>4. \A p \in InfoPages' : prot[p] = Unmapped
    BY <2>2, <2>3 DEF InfoPages
  <2>5. InfoExact'
    BY <1>1, <2>2, <2>4 DEF InfoExact
  <2>6. DirtyPagesExact'
    <3>1. dirty \cap InfoPages' = {}
      BY <1>1, <2>4
    <3> QED  BY <1>1, <2>2, <3>1 DEF DirtyPagesExact, NoAddresses
  <2>7. cursor' \in 0..Invalid /\ cursor < cursor'
    BY <1>1, <2>2, <2>3
  <2> QED  BY <2>5, <2>6, <2>7
<1> QED  BY <1>2, <1>3

\* A DNBRegionInfo as it is made is about no page.
LEMMA NoPages ==
  {p \in Pages : NoInfo.addr <= p * PageBytes
                   /\ p * PageBytes < NoInfo.addr + NoInfo.size} = {}
<1>1. ASSUME NEW p \in Pages
      PROVE  p * PageBytes \in Nat
  BY MapAssumption DEF Pages
<1> QED  BY <1>1 DEF NoInfo

\* Every step of a call, and of the walk, keeps the invariant.
LEMMA WalkStep ==
  ASSUME WalkInv, [MemoryNext]_memoryVars
  PROVE  WalkInv'
<1>1. CASE ~walking /\ Next /\ UNCHANGED walkVars
  <2>1. TypeInv' /\ info' = NoInfo /\ dirty' = {} /\ cursor' = cursor
    BY <1>1, TypeStep DEF WalkInv, walkVars
  <2>2. InfoExact' /\ DirtyPagesExact'
    BY <2>1, NoPages
    DEF InfoExact, DirtyPagesExact, InfoPages, NoInfo, NoAddresses
  <2>3. ~walking'
    BY <1>1 DEF walkVars
  <2> QED  BY <2>1, <2>2, <2>3 DEF WalkInv, TypeInv
<1>2. CASE StartWalk
  <2>1. /\ walking' /\ UNCHANGED <<prot, cursor, info>> /\ info = NoInfo
        /\ \A p \in dirty' : p \in Pages /\ prot[p] # Unmapped
    BY <1>2 DEF StartWalk, WalkInv, vars, regionVars
  <2>2. pc' = "idle" /\ TypeOK'
    BY <1>2 DEF StartWalk, WalkInv, vars, regionVars, TypeOK
  <2>3. InfoPages' = {} /\ info'.dirty_pages = NoAddresses
    BY <2>1, NoPages DEF InfoPages, NoInfo
  <2>4. InfoExact' /\ DirtyPagesExact'
    BY <2>3 DEF InfoExact, DirtyPagesExact, NoAddresses
  <2> QED  BY <2>1, <2>2, <2>4 DEF WalkInv
<1>3. CASE GetMemoryRegionInfo
  <2>1. /\ walking' /\ walking /\ pc' = pc
        /\ prot' = prot /\ dirty' = dirty
    BY <1>3 DEF GetMemoryRegionInfo
  <2>2. region' \in Regions
    <3>1. cursor \in Nat /\ prot \in Maps
      BY EmptyRegionType DEF WalkInv, TypeOK
    <3> QED  BY <1>3, <3>1, RegionFound DEF GetMemoryRegionInfo
  <2>3. TypeOK'
    BY <1>3, <2>2 DEF GetMemoryRegionInfo, WalkInv, TypeOK, Regions
  <2> QED  BY <1>3, <2>1, <2>3, AnswerExact DEF WalkInv
<1>5. CASE NegativeLength
  <2>1. /\ walking' /\ walking
        /\ UNCHANGED <<prot, refused, written, pc, call, address, data_count,
                       total, chunk, done, m_page_size, taskMap, dirty,
                       cursor, info>>
    BY <1>5 DEF NegativeLength
  <2>2. region' \in Regions
    <3>1. cursor \in Nat /\ prot \in Maps
      BY EmptyRegionType DEF WalkInv, TypeOK
    <3> QED  BY <1>5, <3>1, RegionFound DEF NegativeLength
  <2>3. TypeOK'
    BY <2>1, <2>2 DEF WalkInv, TypeOK, Regions
  <2>4. InfoExact' = InfoExact /\ DirtyPagesExact' = DirtyPagesExact
    BY <2>1 DEF InfoExact, DirtyPagesExact, InfoPages
  <2> QED  BY <2>1, <2>3, <2>4 DEF WalkInv
<1>4. CASE Walked \/ UNCHANGED memoryVars
  <2>1. UNCHANGED <<vars, walking, dirty, cursor, info>>
    BY <1>4 DEF Walked, memoryVars, walkVars
  <2>2. /\ prot' = prot /\ pc' = pc
        /\ TypeInv' = TypeInv /\ TypeOK' = TypeOK
    BY <2>1
    DEF vars, regionVars, TypeInv, TypeOK, CallInv, WriteInRange
  <2>3. InfoExact' = InfoExact /\ DirtyPagesExact' = DirtyPagesExact
    BY <2>1, <2>2 DEF InfoExact, DirtyPagesExact, InfoPages
  <2> QED  BY <2>1, <2>2, <2>3 DEF WalkInv
<1> QED  BY <1>1, <1>2, <1>3, <1>4, <1>5 DEF MemoryNext

\* The invariant holds in every reachable state.
LEMMA WalkInvariance == MemorySpec => []WalkInv
<1>1. MemoryInit => WalkInv
  <2> SUFFICES ASSUME MemoryInit
               PROVE  WalkInv
    OBVIOUS
  <2>1. InfoExact /\ DirtyPagesExact
    BY NoPages
    DEF MemoryInit, InfoExact, DirtyPagesExact, InfoPages, NoInfo, NoAddresses
  <2>2. TypeInv
    BY InitialInv DEF MemoryInit
  <2> QED
    BY <2>1, <2>2, EmptyRegionType DEF MemoryInit, WalkInv, TypeInv
<1> QED  BY <1>1, WalkStep, PTL DEF MemorySpec

\* The calls a client makes before it walks, in a suspended task.
LEMMA CallsInvariance ==
  ASSUME ~TaskRuns
  PROVE  MemorySpec =>
           [](walking \/ (TypeInv /\ SuspendedInv /\ ReadIsMaximal))
<1> DEFINE J == walking \/ (TypeInv /\ SuspendedInv /\ ReadIsMaximal)
<1>1. MemoryInit => J
  BY InitialInv DEF MemoryInit
<1>2. ASSUME J, [MemoryNext]_memoryVars
      PROVE  J'
  <2>1. CASE ~walking /\ ([Next]_vars) /\ UNCHANGED walkVars
    BY <1>2, <2>1, TypeStep, SuspendedStep, ReadStep
  <2>2. CASE walking'
    BY <2>2
  <2>3. \/ walking'
        \/ ~walking /\ ([Next]_vars) /\ UNCHANGED walkVars
    BY <1>2
    DEF MemoryNext, StartWalk, GetMemoryRegionInfo, NegativeLength, Walked,
        memoryVars, walkVars
  <2> QED  BY <2>1, <2>2, <2>3
<1> QED  BY <1>1, <1>2, PTL DEF MemorySpec

-----------------------------------------------------------------------------
(* What the invariants are for. *)

\* Reads, writes and a walk through the memory keep every variable in its
\* type.
THEOREM MemoryTypeCorrect == MemorySpec => []TypeOK
<1>1. WalkInv => TypeOK
  BY DEF WalkInv
<1> QED  BY <1>1, WalkInvariance, PTL

\* What Read and Write promise in a suspended task holds also beside
\* GetMemoryRegionInfo, which uses a MachVMRegion of its own.
THEOREM CallsKeepPromises ==
  ASSUME ~TaskRuns
  PROVE  MemorySpec => [](/\ ProtectionsRestored /\ WriteCounts
                          /\ WriteStopsAtHole /\ ReadIsMaximal)
<1>1. ASSUME WalkInv,
             walking \/ (TypeInv /\ SuspendedInv /\ ReadIsMaximal)
      PROVE  /\ ProtectionsRestored /\ WriteCounts
             /\ WriteStopsAtHole /\ ReadIsMaximal
  <2>1. CASE walking
    <3>1. pc = "idle"
      BY <1>1, <2>1 DEF WalkInv
    <3> QED
      BY <3>1
      DEF ProtectionsRestored, WriteCounts, WriteStopsAtHole, ReadIsMaximal
  <2>2. CASE TypeInv /\ SuspendedInv /\ ReadIsMaximal
    BY <2>2, Promises
  <2> QED  BY <1>1, <2>1, <2>2
<1> QED  BY <1>1, WalkInvariance, CallsInvariance, PTL

\* GetMemoryRegionInfo tells the truth about every page of the range it
\* reports: the permissions of a region, and that a hole, to the next region
\* or to the end of the address space, holds no memory.  The task stands
\* still during a walk (StartWalk).
THEOREM InfoIsExact == MemorySpec => []InfoExact
<1>1. WalkInv => InfoExact
  BY DEF WalkInv
<1> QED  BY <1>1, WalkInvariance, PTL

\* Whatever the size of the stack buffer of get_dirty_pages, its chunks cover
\* the region once, the last one included: every dirty page is pushed into the
\* vector, none twice, and no page beside the region.  The region has fewer
\* pages than the int they are counted with can hold.
THEOREM DirtyPagesAreExact == MemorySpec => []DirtyPagesExact
<1>1. WalkInv => DirtyPagesExact
  BY DEF WalkInv
<1> QED  BY <1>1, WalkInvariance, PTL

\* Every answer moves the client on: no region and no hole is reported with
\* size 0, and none reaches behind the address space.
THEOREM WalkAdvances ==
  MemorySpec => [][GetMemoryRegionInfo =>
                     cursor < cursor' /\ cursor' <= Invalid]_memoryVars
<1>1. WalkInv /\ [MemoryNext]_memoryVars
        => [GetMemoryRegionInfo =>
              cursor < cursor' /\ cursor' <= Invalid]_memoryVars
  <2> SUFFICES ASSUME WalkInv, GetMemoryRegionInfo
               PROVE  cursor < cursor' /\ cursor' <= Invalid
    OBVIOUS
  <2>1. cursor' \in 0..Invalid /\ cursor < cursor' /\ Invalid \in Nat
    BY AnswerExact, EmptyRegionType
  <2> QED  BY <2>1
<1> QED  BY <1>1, WalkInvariance, PTL DEF MemorySpec

=============================================================================
