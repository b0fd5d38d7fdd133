------------------------- MODULE MachVMMemoryProofs -------------------------
(***************************************************************************)
(* What MachVMMemory::Read and Write promise, for every page size, every   *)
(* memory map and every range: which bytes are written, that the count     *)
(* returned is right and that the protections are put back.                *)
(***************************************************************************)
EXTENDS MachVMMemory, Integers, TLAPS

-----------------------------------------------------------------------------
(* Pages and addresses. *)

\* The bytes of page p are those from p * PageBytes on.
LEMMA PageBounds ==
  ASSUME NEW a \in Nat
  PROVE  /\ PageOf(a) \in Nat
         /\ PageOf(a) * PageBytes <= a
         /\ a < (PageOf(a) + 1) * PageBytes
         /\ a = PageOf(a) * PageBytes + (a % PageBytes)
         /\ a % PageBytes \in 0..(PageBytes - 1)
BY MapAssumption DEF PageOf

\* The size of a number of pages.
LEMMA PagesSize ==
  ASSUME NEW n \in Nat
  PROVE  /\ n * PageBytes \in Nat
         /\ (n + 1) * PageBytes = n * PageBytes + PageBytes
BY MapAssumption

\* More pages, more bytes.
LEMMA TimesMonotone ==
  ASSUME NEW p \in Int, NEW q \in Int, p < q
  PROVE  (p + 1) * PageBytes <= q * PageBytes
BY MapAssumption

\* An address lies in a range of whole pages just when its page does.
LEMMA PageRange ==
  ASSUME NEW a \in Nat, NEW lo \in Nat, NEW hi \in Nat
  PROVE  /\ lo * PageBytes <= a <=> lo <= PageOf(a)
         /\ a < hi * PageBytes <=> PageOf(a) < hi
<1> DEFINE p == PageOf(a)
<1>0. p \in Nat /\ p * PageBytes <= a /\ a < (p + 1) * PageBytes
  BY PageBounds
<1> HIDE DEF p
<1>1. /\ p \in Nat /\ p * PageBytes <= a /\ a < (p + 1) * PageBytes
      /\ PageBytes \in Nat
      /\ lo * PageBytes \in Nat /\ hi * PageBytes \in Nat
      /\ p * PageBytes \in Nat /\ (p + 1) * PageBytes \in Nat
  BY <1>0, PagesSize, MapAssumption
<1>2. lo <= p => lo * PageBytes <= p * PageBytes
  <2>1. CASE lo = p
    BY <1>1, <2>1
  <2>2. CASE lo < p
    <3>1. /\ (lo + 1) * PageBytes <= p * PageBytes
          /\ (lo + 1) * PageBytes = lo * PageBytes + PageBytes
      BY <1>1, <2>2, TimesMonotone
    <3> QED  BY <1>1, <3>1
  <2> QED  BY <1>1, <2>1, <2>2
<1>3. p < lo => (p + 1) * PageBytes <= lo * PageBytes
  BY <1>1, TimesMonotone
<1>4. p < hi => (p + 1) * PageBytes <= hi * PageBytes
  BY <1>1, TimesMonotone
<1>5. hi <= p => hi * PageBytes <= p * PageBytes
  <2>1. CASE hi = p
    BY <1>1, <2>1
  <2>2. CASE hi < p
    <3>1. /\ (hi + 1) * PageBytes <= p * PageBytes
          /\ (hi + 1) * PageBytes = hi * PageBytes + PageBytes
      BY <1>1, <2>2, TimesMonotone
    <3> QED  BY <1>1, <3>1
  <2> QED  BY <1>1, <2>1, <2>2
<1> QED
  <2> DEFINE x == lo * PageBytes
             y == hi * PageBytes
             z == p * PageBytes
             u == (p + 1) * PageBytes
  <2>1. /\ x \in Nat /\ y \in Nat /\ z \in Nat /\ u \in Nat
        /\ z <= a /\ a < u /\ p \in Nat
        /\ lo <= p => x <= z
        /\ p < lo => u <= x
        /\ p < hi => u <= y
        /\ hi <= p => y <= z
    BY <1>1, <1>2, <1>3, <1>4, <1>5
  <2> HIDE DEF x, y, z, u
  <2>2. /\ x <= a <=> lo <= p
        /\ a < y <=> p < hi
    BY <2>1
  <2> QED  BY <2>2 DEF x, y, p

\* An address lies in the address space just when its page does.
LEMMA PageInside ==
  ASSUME NEW a \in Nat
  PROVE  a < Invalid <=> PageOf(a) \in Pages
<1>1. PageOf(a) \in Nat /\ PageCount \in Nat
  BY PageBounds, MapAssumption
<1>2. a < Invalid <=> PageOf(a) < PageCount
  BY <1>1, PageRange DEF Invalid
<1> QED  BY <1>1, <1>2 DEF Pages

\* A chunk MaxBytesLeftInPage gives is not empty, not more than asked for,
\* and lies in one page, which the next one starts behind.
LEMMA ChunkInPage ==
  ASSUME NEW a \in Nat, NEW count \in Nat \ {0},
         m_page_size \in {0, PageBytes}
  PROVE  /\ MaxBytesLeftInPage(a, count) \in 1..count
         /\ m_page_size > 0 =>
              a + MaxBytesLeftInPage(a, count) <= (PageOf(a) + 1) * PageBytes
<1> DEFINE n == MaxBytesLeftInPage(a, count)
           p == PageOf(a)
           r == a % PageBytes
           s == p * PageBytes
<1>1. /\ p \in Nat /\ r \in 0..(PageBytes - 1) /\ a = s + r
      /\ PageBytes \in Nat \ {0}
      /\ s \in Nat /\ (p + 1) * PageBytes = s + PageBytes
  <2>1. p \in Nat /\ r \in 0..(PageBytes - 1) /\ a = s + r
    BY PageBounds
  <2> HIDE DEF p, r
  <2> QED  BY <2>1, PagesSize, MapAssumption
<1>2. CASE m_page_size = 0
  <2>1. n = count
    BY <1>2 DEF MaxBytesLeftInPage
  <2> QED  BY <1>2, <2>1
<1>3. CASE m_page_size = PageBytes
  <2>1. n = Least(count, PageBytes - r)
    BY <1>1, <1>3 DEF MaxBytesLeftInPage
  <2> HIDE DEF n, p, r, s
  <2>2. n \in 1..count /\ n <= PageBytes - r
    BY <1>1, <2>1 DEF Least
  <2>3. a + n <= s + PageBytes
    BY <1>1, <2>2
  <2> QED  BY <1>1, <2>2, <2>3 DEF n, p, s
<1> QED  BY <1>2, <1>3

\* A page fits the 32-bit count: only an unknown page size lets the cast of
\* WriteRegion take bytes away.
LEMMA TurnBounds ==
  ASSUME m_page_size \in {0, PageBytes}, turnAddr \in Nat,
         chunk - done \in Nat \ {0}
  PROVE  /\ turnCount \in 0..(chunk - done)
         /\ m_page_size > 0 => turnCount > 0
<1> DEFINE n == MaxBytesLeftInPage(turnAddr, chunk - done)
<1>1. n \in 1..(chunk - done)
  BY ChunkInPage
<1>2. m_page_size > 0 => n <= PageBytes
  <2> SUFFICES ASSUME m_page_size = PageBytes, PageBytes > 0
               PROVE  n <= PageBytes
    BY MapAssumption
  <2>1. n = Least(chunk - done, PageBytes - (turnAddr % PageBytes))
    BY DEF MaxBytesLeftInPage
  <2>2. turnAddr % PageBytes \in 0..(PageBytes - 1)
    BY PageBounds
  <2> QED  BY <2>1, <2>2, MapAssumption DEF Least
<1>3. Word \in Nat \ {0} /\ PageBytes < Word /\ PageBytes \in Nat
  BY MapAssumption, CallAssumption
<1>4. turnCount = n % Word
  BY DEF turnCount
<1> HIDE DEF n
<1>5. n % Word \in 0..n /\ (n < Word => n % Word = n)
  BY <1>1, <1>3
<1> QED  BY <1>1, <1>2, <1>3, <1>4, <1>5

-----------------------------------------------------------------------------
(* The inductive invariant, in parts. *)

RegionCall == {"region", "flush"}
WriteCall == {"while", "lookup", "protect", "destroy"} \cup RegionCall

\* Where a call is and how far it has come.
CallInv ==
  /\ pc = "idle" =>
       /\ written = {} /\ refused = {} /\ prot = taskMap
       /\ total = 0 /\ chunk = 0 /\ done = 0
  /\ pc = "read" => call = "read"
  /\ pc \in WriteCall => call = "write"
  /\ pc \in {"read", "lookup", "protect"} \cup RegionCall => total < data_count
  /\ pc \in RegionCall => total + chunk <= data_count /\ done < chunk
  /\ pc \in {"idle", "read", "lookup", "done"} => region = EmptyRegion

TypeInv == TypeOK /\ CallInv /\ WriteInRange

\* In a suspended task only SetProtections and Clear change the map, and
\* neither maps or unmaps a page.
MappedInv == \A p \in Pages : prot[p] = Unmapped <=> taskMap[p] = Unmapped

\* What is changed is what the region remembers, and the protection it
\* remembers is the one every changed page had.
RestoreInv ==
  "restore" \notin refused =>
    \A p \in Pages :
      IF /\ RestoreDue
         /\ p \in PagesOf(region.m_protection_addr, region.m_protection_size)
        THEN taskMap[p] = region.protection
        ELSE prot[p] = taskMap[p]

\* The region found holds the next byte; its pages have one protection.
FoundInv ==
  pc = "protect" =>
    /\ ContainsAddress(currAddr) /\ EndAddress <= Invalid
    /\ region.m_curr_protection = region.protection
    /\ region.m_protection_size = 0
    /\ \A b \in region.m_start..(EndAddress - 1) :
         PageOf(b) \in Pages /\ prot[PageOf(b)] = region.protection

\* WriteRegion writes pages that are mapped and writable.
WritableInv ==
  pc \in RegionCall =>
    /\ currAddr + chunk <= Invalid
    /\ \A b \in currAddr..(currAddr + chunk - 1) :
         PageOf(b) \in Pages /\ prot[PageOf(b)] = RW

\* The bytes written so far, without a gap: before the flush they are not
\* counted yet.
inRegion ==
  IF pc = "region" THEN done ELSE IF pc = "flush" THEN done + turnCount ELSE 0

WrittenInv ==
  call = "write" => written = address..(address + total + inRegion - 1)

\* Why Write gives up.
HoleInv ==
  pc \in {"destroy", "done"} /\ call = "write" /\ total < data_count =>
    \/ "change" \in refused
    \/ currAddr >= Invalid \/ taskMap[PageOf(currAddr)] = Unmapped

SuspendedInv ==
  /\ MappedInv /\ RestoreInv /\ FoundInv /\ WritableInv /\ WrittenInv
  /\ HoleInv

-----------------------------------------------------------------------------
(* The proofs. *)

Regions ==
  [m_start : Nat, m_size : Nat, protection : Protections,
   m_curr_protection : Protections, m_protection_addr : Nat,
   m_protection_size : Nat]

\* A region that was never looked up.
LEMMA EmptyRegionType ==
  /\ Invalid \in Nat
  /\ EmptyRegion \in Regions
  /\ EmptyRegion.m_protection_size = 0
<1>1. Invalid \in Nat
  BY MapAssumption DEF Invalid
<1> QED  BY <1>1 DEF EmptyRegion, Regions, Protections

\* Clear forgets the region, and whatever it restores is a protection.
LEMMA ClearKeeps ==
  ASSUME prot \in Maps, region \in Regions, Clear
  PROVE  /\ prot' \in Maps /\ region' = EmptyRegion
         /\ refused \subseteq refused'
         /\ refused' \subseteq refused \cup {"restore"}
BY DEF Clear, Protect, Maps, Regions

\* What GetRegionForAddress finds.
LEMMA RegionFound ==
  ASSUME NEW a \in Nat, prot \in Maps, GetRegionForAddress(a)
  PROVE  region' \in Regions
<1>1. ASSUME NEW lo \in Pages, NEW hi \in Pages, RegionRecurse(a, lo, hi)
      PROVE  /\ lo * PageBytes \in Nat /\ (hi - lo + 1) * PageBytes \in Nat
             /\ prot[lo] \in Protections
  <2>1. lo \in Nat /\ hi \in Nat /\ lo <= hi /\ prot[lo] # Unmapped
    BY <1>1, MapAssumption DEF RegionRecurse, Entry, Pages
  <2>2. prot[lo] \in Protections
    BY <2>1 DEF Maps
  <2>3. hi - lo + 1 \in Nat
    BY <2>1
  <2> QED  BY <2>1, <2>2, <2>3, PagesSize
<1> QED
  BY <1>1, EmptyRegionType DEF GetRegionForAddress, Regions

\* Every step keeps the types, the place of the call and the range written.
LEMMA TypeStep ==
  ASSUME TypeInv, [Next]_vars
  PROVE  TypeInv'
<1> USE EmptyRegionType
    DEF TypeInv, TypeOK, CallInv, WriteInRange, WriteCall, RegionCall,
        regionVars
<1>0. region \in Regions /\ currAddr \in Nat
  BY DEF Regions, currAddr
<1>1. ASSUME NEW a \in 0..(Invalid - 1), NEW n \in 0..MaxCount,
             Read(a, n) \/ Write(a, n)
      PROVE  TypeInv'
  <2>1. /\ pc = "idle" /\ address' \in Nat /\ data_count' \in 0..MaxCount
        /\ written' = {} /\ total' = 0 /\ chunk' = 0 /\ done' = 0
        /\ region' = EmptyRegion /\ prot' = prot /\ taskMap' = taskMap
        /\ refused' = refused /\ m_page_size' = m_page_size
        /\ \/ pc' = "done" /\ call' = "read"
           \/ pc' = "read" /\ call' = "read" /\ data_count' > 0
           \/ pc' = "while" /\ call' = "write"
    <3>1. CASE Read(a, n)
      BY <3>1, CallAssumption DEF Read
    <3>2. CASE Write(a, n)
      BY <3>2, CallAssumption DEF Write
    <3> QED  BY <1>1, <3>1, <3>2
  <2> QED  BY <2>1, CallAssumption DEF Regions
<1>2. CASE ReadTurn
  <2> DEFINE n == MaxBytesLeftInPage(currAddr, data_count - total)
  <2>1. data_count - total \in Nat \ {0}
    BY <1>2, CallAssumption DEF ReadTurn
  <2>2. n \in 1..(data_count - total)
    BY <1>0, <2>1, ChunkInPage
  <2> HIDE DEF n
  <2> QED  BY <1>2, <2>2, CallAssumption DEF ReadTurn, n
<1>3. CASE WriteTurn
  BY <1>0, <1>3, ClearKeeps DEF WriteTurn, Regions
<1>4. CASE Lookup
  BY <1>0, <1>4, RegionFound DEF Lookup, Regions
<1>5. CASE MakeWritable
  <2> DEFINE n == Least(data_count - total, BytesRemaining(currAddr))
  <2>1. BytesRemaining(currAddr) \in Nat
    BY <1>0 DEF BytesRemaining, ContainsAddress, EndAddress
  <2>2. BytesRemaining(currAddr) # 0 => n \in 1..(data_count - total)
    BY <1>5, <2>1, CallAssumption DEF MakeWritable, Least
  <2> HIDE DEF n
  <2>3. ASSUME BytesRemaining(currAddr) # 0, SetProtections(currAddr, n, RW)
        PROVE  /\ prot' \in Maps /\ region' \in Regions
               /\ refused' = refused
    <3> DEFINE size == IF n > EndAddress - currAddr
                         THEN EndAddress - currAddr ELSE n
    <3>1. size \in Nat
      <4>1. ContainsAddress(currAddr)
        BY <2>3 DEF SetProtections
      <4>2. currAddr < EndAddress /\ EndAddress \in Nat
        BY <1>0, <4>1 DEF Regions, ContainsAddress, EndAddress
      <4> HIDE DEF TypeOK, CallInv
      <4> QED  BY <1>0, <2>2, <2>3, <4>2
    <3> HIDE DEF size
    <3>2. /\ refused' = refused
          /\ \/ prot' = prot /\ region' = region
             \/ /\ Protect(currAddr, size, RW)
                /\ region' = [region EXCEPT !.m_curr_protection = RW,
                                            !.m_protection_addr = currAddr,
                                            !.m_protection_size = size]
      BY <2>3 DEF SetProtections, size
    <3>3. RW \in Protections
      BY DEF Protections
    <3> QED  BY <1>0, <3>1, <3>2, <3>3 DEF Protect, Maps, Regions
  <2>4. CASE pc' = "destroy"
    BY <1>5, <2>4 DEF MakeWritable, SetProtectionsFails
  <2>5. CASE pc' # "destroy"
    <3>1. /\ BytesRemaining(currAddr) # 0 /\ SetProtections(currAddr, n, RW)
          /\ chunk' = n /\ done' = 0 /\ pc' = "region" /\ pc = "protect"
          /\ UNCHANGED <<written, call, address, data_count, total,
                         m_page_size, taskMap>>
      BY <1>5, <2>5 DEF MakeWritable, n
    <3>2. prot' \in Maps /\ region' \in Regions /\ refused' = refused
      BY <2>3, <3>1
    <3>3. TypeOK'
      BY <2>2, <3>1, <3>2, CallAssumption DEF Regions
    <3>4. CallInv'
      BY <2>2, <3>1, CallAssumption
    <3> QED  BY <3>1, <3>3, <3>4
  <2> QED  BY <2>4, <2>5
<1>6. CASE WriteRegionTurn \/ FlushCache
  <2> DEFINE a == turnAddr
             n == turnCount
  <2>1. chunk - done \in Nat \ {0} /\ a \in Nat /\ pc \in RegionCall
    BY <1>0, <1>6, CallAssumption DEF WriteRegionTurn, FlushCache, turnAddr
  <2>2. n \in 0..(chunk - done)
    BY <2>1, TurnBounds
  <2>3. /\ address <= a /\ a + n <= address + data_count
        /\ address + data_count \in Nat /\ n \in Nat
    BY <2>1, <2>2, CallAssumption DEF currAddr, turnAddr
  <2> HIDE DEF n, a
  <2>4. CASE WriteRegionTurn
    <3>1. /\ pc' = "flush"
          /\ \/ written' = written
             \/ a + n <= Invalid /\ written' = written \cup a..(a + n - 1)
          /\ UNCHANGED <<regionVars, call, address, data_count, total, chunk,
                         done, m_page_size, taskMap>>
      BY <2>4 DEF WriteRegionTurn, Allowed, a, n
    <3>2. a..(a + n - 1) \subseteq address..(address + data_count - 1)
      BY <2>1, <2>3
    <3>3. a + n <= Invalid => a..(a + n - 1) \subseteq 0..(Invalid - 1)
      BY <2>1, <2>3
    <3>4. written' \subseteq 0..(Invalid - 1) /\ WriteInRange'
      BY <3>1, <3>2, <3>3
    <3> QED  BY <2>1, <3>1, <3>4
  <2>5. CASE FlushCache
    <3>1. /\ written' = written
          /\ \/ done' = done + n /\ done' < chunk /\ total' = total
                /\ pc' = "region"
             \/ done' = done + n /\ done' >= chunk /\ RegionDone(done')
             \/ done' = done /\ RegionDone(done)
          /\ UNCHANGED <<regionVars, call, address, data_count, chunk,
                         m_page_size, taskMap>>
      BY <2>5 DEF FlushCache, n
    <3>2. TypeOK'
      BY <2>1, <2>2, <3>1, CallAssumption DEF RegionDone
    <3>3. CallInv'
      BY <2>1, <2>2, <3>1, CallAssumption DEF RegionDone
    <3> QED  BY <3>1, <3>2, <3>3
  <2> QED  BY <1>6, <2>4, <2>5
<1>7. CASE Destroy
  BY <1>0, <1>7, ClearKeeps DEF Destroy, Regions
<1>8. CASE TaskChangesMap
  BY <1>8 DEF TaskChangesMap, Maps, Protections
<1>9. CASE Returned \/ UNCHANGED vars
  BY <1>9 DEF Returned, vars
<1> QED
  BY <1>1, <1>2, <1>3, <1>4, <1>5, <1>6, <1>7, <1>8, <1>9 DEF Next, Debugger

\* A region GetRegionForAddress finds around the address has one protection
\* on all its pages; when it finds none there is no memory at the address.
LEMMA RegionFacts ==
  ASSUME NEW a \in Nat, prot \in Maps, GetRegionForAddress(a)
  PROVE  LET end == region'.m_start + region'.m_size
         IN /\ region'.m_protection_size = 0
            /\ IF region'.m_start <= a /\ a < end
                 THEN /\ end <= Invalid
                      /\ region'.m_curr_protection = region'.protection
                      /\ \A b \in region'.m_start..(end - 1) :
                           /\ PageOf(b) \in Pages
                           /\ prot[PageOf(b)] = region'.protection
                 ELSE a >= Invalid \/ prot[PageOf(a)] = Unmapped
<1> DEFINE end == region'.m_start + region'.m_size
<1>0. /\ PageOf(a) \in Nat
      /\ a < Invalid <=> PageOf(a) \in Pages
  BY PageBounds, PageInside
<1>1. ASSUME NEW lo \in Pages, NEW hi \in Pages, RegionRecurse(a, lo, hi),
             region' = [EmptyRegion EXCEPT
                          !.m_start = lo * PageBytes,
                          !.m_size = (hi - lo + 1) * PageBytes,
                          !.protection = prot[lo],
                          !.m_curr_protection = prot[lo]]
      PROVE  /\ region'.m_protection_size = 0
             /\ IF region'.m_start <= a /\ a < end
                  THEN /\ end <= Invalid
                       /\ region'.m_curr_protection = region'.protection
                       /\ \A b \in region'.m_start..(end - 1) :
                            /\ PageOf(b) \in Pages
                            /\ prot[PageOf(b)] = region'.protection
                  ELSE a >= Invalid \/ prot[PageOf(a)] = Unmapped
  <2>1. /\ lo \in Nat /\ hi \in Nat /\ lo <= hi /\ hi + 1 <= PageCount
        /\ PageCount \in Nat /\ \A p \in lo..hi : prot[p] = prot[lo]
    BY <1>1, MapAssumption DEF RegionRecurse, Entry, Pages
  <2>2. /\ region'.m_start = lo * PageBytes
        /\ region'.m_size = (hi - lo + 1) * PageBytes
        /\ region'.protection = prot[lo]
        /\ region'.m_curr_protection = prot[lo]
        /\ region'.m_protection_size = 0
    BY <1>1 DEF EmptyRegion
  <2>3. end = (hi + 1) * PageBytes /\ lo * PageBytes \in Nat /\ end \in Nat
    <3>1. lo * PageBytes + (hi - lo + 1) * PageBytes = (hi + 1) * PageBytes
      BY <2>1, MapAssumption
    <3> QED  BY <2>1, <2>2, <3>1, PagesSize
  <2> HIDE DEF end
  <2>4. end <= Invalid
    <3>1. CASE hi + 1 = PageCount
      BY <2>3, <3>1, MapAssumption DEF Invalid
    <3>2. CASE hi + 1 < PageCount
      <4>1. (hi + 1 + 1) * PageBytes <= PageCount * PageBytes
        BY <2>1, <3>2, TimesMonotone
      <4>2. (hi + 1 + 1) * PageBytes = (hi + 1) * PageBytes + PageBytes
        BY <2>1, PagesSize
      <4>3. PageCount * PageBytes \in Nat /\ PageBytes \in Nat
        BY MapAssumption
      <4> QED  BY <2>3, <4>1, <4>2, <4>3 DEF Invalid
    <3> QED  BY <2>1, <3>1, <3>2
  <2>5. ASSUME NEW b \in region'.m_start..(end - 1)
        PROVE  /\ PageOf(b) \in Pages
               /\ prot[PageOf(b)] = region'.protection
    <3>1. /\ b \in Nat /\ lo * PageBytes <= b /\ b < (hi + 1) * PageBytes
          /\ hi + 1 \in Nat
      BY <2>1, <2>2, <2>3
    <3>2. PageOf(b) \in Nat /\ lo <= PageOf(b) /\ PageOf(b) < hi + 1
      BY <2>1, <3>1, PageRange, PageBounds
    <3>3. PageOf(b) \in lo..hi /\ PageOf(b) \in Pages
      BY <2>1, <3>2 DEF Pages
    <3> QED  BY <2>1, <2>2, <3>3
  <2>6. ASSUME ~(region'.m_start <= a /\ a < end), a < Invalid
        PROVE  prot[PageOf(a)] = Unmapped
    <3>1. ~(lo <= PageOf(a) /\ PageOf(a) < hi + 1)
      BY <2>1, <2>2, <2>3, <2>6, PageRange
    <3>2. /\ PageOf(a) < lo
          /\ \A p \in PageOf(a)..(lo - 1) : prot[p] = Unmapped
      BY <1>0, <1>1, <2>1, <3>1 DEF RegionRecurse
    <3>3. PageOf(a) \in PageOf(a)..(lo - 1)
      BY <1>0, <2>1, <3>2
    <3> QED  BY <3>2, <3>3
  <2>7. Invalid \in Nat
    BY EmptyRegionType
  <2> QED  BY <2>2, <2>4, <2>5, <2>6, <2>7
<1>2. ASSUME \A lo, hi \in Pages : ~RegionRecurse(a, lo, hi),
             region' = [EmptyRegion EXCEPT !.m_start = a]
      PROVE  /\ region'.m_protection_size = 0
             /\ ~(region'.m_start <= a /\ a < end)
             /\ a >= Invalid \/ prot[PageOf(a)] = Unmapped
  <2>1. /\ region'.m_start = a /\ region'.m_size = 0
        /\ region'.m_protection_size = 0
    BY <1>2 DEF EmptyRegion
  <2>2. ASSUME PageOf(a) \in Pages, prot[PageOf(a)] # Unmapped
        PROVE  FALSE
    <3>1. PageOf(a)..PageOf(a) = {PageOf(a)}
      BY <1>0
    <3>2. RegionRecurse(a, PageOf(a), PageOf(a))
      BY <1>0, <2>2, <3>1 DEF RegionRecurse, Entry
    <3> QED  BY <1>2, <2>2, <3>2
  <2> QED  BY <1>0, <2>1, <2>2, EmptyRegionType
<1> QED  BY <1>1, <1>2 DEF GetRegionForAddress

\* Clear puts back what the region has changed, or records the refusal.
LEMMA ClearRestores ==
  ASSUME prot \in Maps, region \in Regions, MappedInv, RestoreInv, Clear,
         taskMap' = taskMap
  PROVE  MappedInv' /\ RestoreInv'
<1> DEFINE P == PagesOf(region.m_protection_addr, region.m_protection_size)
<1>1. region' = EmptyRegion /\ ~RestoreDue'
  BY EmptyRegionType DEF Clear, RestoreDue
<1>2. /\ Unmapped \notin Protections /\ region.protection \in Protections
      /\ DOMAIN prot = Pages
  BY MapAssumption DEF Regions, Maps
<1>3. CASE ~RestoreDue /\ UNCHANGED <<prot, refused>>
  BY <1>1, <1>3 DEF MappedInv, RestoreInv
<1>4. CASE /\ RestoreDue /\ \A p \in P : prot[p] # Unmapped
           /\ Protect(region.m_protection_addr, region.m_protection_size,
                      region.protection)
           /\ UNCHANGED refused
  <2>1. \A p \in Pages :
          prot'[p] = IF p \in P THEN region.protection ELSE prot[p]
    BY <1>4 DEF Protect
  <2>2. MappedInv'
    BY <1>2, <1>4, <2>1 DEF MappedInv
  <2>3. RestoreInv'
    BY <1>1, <1>4, <2>1 DEF RestoreInv
  <2> QED  BY <2>2, <2>3
<1>5. CASE "restore" \in refused' /\ UNCHANGED prot
  BY <1>5 DEF MappedInv, RestoreInv
<1> QED
  BY <1>3, <1>4, <1>5 DEF Clear, Protectable

\* SetProtections on pages of the region just found: what it changes is what
\* the region remembers, and the pages are writable.
LEMMA ProtectionsSet ==
  ASSUME NEW n \in Nat \ {0}, TypeOK, MappedInv, RestoreInv, FoundInv,
         pc = "protect", n <= EndAddress - currAddr,
         SetProtections(currAddr, n, RW), taskMap' = taskMap
  PROVE  /\ MappedInv' /\ RestoreInv'
         /\ \A b \in currAddr..(currAddr + n - 1) :
              PageOf(b) \in Pages /\ prot'[PageOf(b)] = RW
<1>1. /\ currAddr \in Nat /\ EndAddress \in Nat /\ region \in Regions
      /\ region.m_start <= currAddr /\ region.m_start \in Nat
      /\ prot \in Maps /\ ~RestoreDue
  BY DEF TypeOK, currAddr, EndAddress, Regions, FoundInv, ContainsAddress,
         RestoreDue
<1>2. ASSUME NEW b \in currAddr..(currAddr + n - 1)
      PROVE  PageOf(b) \in Pages /\ prot[PageOf(b)] = region.protection
  <2>1. b \in region.m_start..(EndAddress - 1)
    BY <1>1
  <2> QED  BY <2>1 DEF FoundInv
<1>3. \A p \in PagesOf(currAddr, n) :
        p \in Pages /\ prot[p] = region.protection
  BY <1>2 DEF PagesOf
<1>4. \A b \in currAddr..(currAddr + n - 1) : PageOf(b) \in PagesOf(currAddr, n)
  BY DEF PagesOf
<1>5. /\ refused' = refused
      /\ \/ RW = region.m_curr_protection /\ UNCHANGED <<prot, region>>
         \/ /\ Protect(currAddr, n, RW) /\ Protectable(currAddr, n)
            /\ RW # region.m_curr_protection
            /\ region' = [region EXCEPT !.m_curr_protection = RW,
                                        !.m_protection_addr = currAddr,
                                        !.m_protection_size = n]
  <2>1. (IF n > EndAddress - currAddr THEN EndAddress - currAddr ELSE n) = n
    BY <1>1
  <2> QED  BY <2>1, Zenon DEF SetProtections
<1>6. region.m_curr_protection = region.protection
  BY DEF FoundInv
<1>7. CASE RW = region.m_curr_protection /\ UNCHANGED <<prot, region>>
  BY <1>2, <1>5, <1>6, <1>7 DEF MappedInv, RestoreInv, RestoreDue
<1>8. CASE /\ Protect(currAddr, n, RW) /\ Protectable(currAddr, n)
           /\ RW # region.m_curr_protection
           /\ region' = [region EXCEPT !.m_curr_protection = RW,
                                       !.m_protection_addr = currAddr,
                                       !.m_protection_size = n]
  <2>1. \A p \in Pages :
          prot'[p] = IF p \in PagesOf(currAddr, n) THEN RW ELSE prot[p]
    BY <1>8 DEF Protect
  <2>2. /\ region'.protection = region.protection
        /\ region'.m_curr_protection = RW
        /\ region'.m_protection_addr = currAddr
        /\ region'.m_protection_size = n
    BY <1>1, <1>8 DEF Regions
  <2>3. RestoreDue'
    BY <1>6, <1>8, <2>2 DEF RestoreDue
  <2>4. MappedInv'
    BY <1>3, <1>8, <2>1, MapAssumption
    DEF MappedInv, Protectable, Protections
  <2>5. RestoreInv'
    <3>1. \A p \in Pages : "restore" \notin refused => prot[p] = taskMap[p]
      BY <1>1 DEF RestoreInv
    <3> QED  BY <1>3, <1>5, <2>1, <2>2, <2>3, <3>1 DEF RestoreInv
  <2> QED  BY <1>2, <1>4, <2>1, <2>4, <2>5
<1> QED  BY <1>5, <1>7, <1>8

\* Every step of a call in a suspended task keeps the map recoverable, the
\* bytes written without a gap and the reason to give up a good one.
LEMMA SuspendedStep ==
  ASSUME ~TaskRuns, TypeInv, SuspendedInv, [Next]_vars
  PROVE  SuspendedInv'
<1> USE
    DEF SuspendedInv, TypeInv, CallInv, WriteCall, RegionCall, regionVars,
        FoundInv, WritableInv, WrittenInv, inRegion, HoleInv
<1>0. /\ region \in Regions /\ currAddr \in Nat /\ prot \in Maps
      /\ address \in Nat /\ data_count \in Nat /\ total \in Nat
      /\ chunk \in Nat /\ done \in Nat
      /\ m_page_size \in {0, PageBytes}
  BY CallAssumption DEF TypeOK, Regions, currAddr
<1>1. ASSUME UNCHANGED <<prot, region, refused, taskMap>>
      PROVE  MappedInv' /\ RestoreInv'
  BY <1>1 DEF MappedInv, RestoreInv, RestoreDue
<1>2. ASSUME NEW a \in 0..(Invalid - 1), NEW n \in 0..MaxCount,
             Read(a, n) \/ Write(a, n)
      PROVE  SuspendedInv'
  <2>1. /\ pc = "idle" /\ UNCHANGED <<prot, region, refused, taskMap>>
        /\ written' = {} /\ total' = 0
        /\ \/ pc' \in {"read", "done"} /\ call' = "read"
           \/ pc' = "while" /\ call' = "write" /\ address' = a
    <3>1. CASE Read(a, n)
      BY <3>1 DEF Read
    <3>2. CASE Write(a, n)
      BY <3>2 DEF Write
    <3> QED  BY <1>2, <3>1, <3>2
  <2>2. a..(a + 0 + 0 - 1) = {}
    BY EmptyRegionType
  <2> QED  BY <1>1, <2>1, <2>2
<1>3. CASE ReadTurn
  BY <1>1, <1>3 DEF ReadTurn
<1>4. CASE WriteTurn
  <2>1. CASE Clear /\ pc' = "lookup"
    BY <1>0, <1>4, <2>1, ClearRestores DEF WriteTurn
  <2>2. CASE total >= data_count /\ pc' = "destroy" /\ UNCHANGED regionVars
    BY <1>0, <1>1, <1>4, <2>2 DEF WriteTurn
  <2> QED  BY <1>4, <2>1, <2>2 DEF WriteTurn
<1>5. CASE Lookup
  <2>1. /\ GetRegionForAddress(currAddr) /\ pc = "lookup"
        /\ region = EmptyRegion /\ currAddr' = currAddr
        /\ UNCHANGED <<prot, refused, written, call, address, data_count,
                       total, taskMap>>
    BY <1>5 DEF Lookup, currAddr
  <2>2. MappedInv'
    BY <2>1 DEF MappedInv
  <2>3. RestoreInv'
    <3>1. region'.m_protection_size = 0
      BY <1>0, <2>1, RegionFacts
    <3>2. ~RestoreDue /\ ~RestoreDue'
      BY <2>1, <3>1, EmptyRegionType DEF RestoreDue
    <3> QED  BY <2>1, <3>2 DEF RestoreInv
  <2>4. CASE /\ region'.m_start <= currAddr
             /\ currAddr < region'.m_start + region'.m_size
    <3>1. pc' = "protect"
      BY <1>5, <2>4 DEF Lookup
    <3>2. FoundInv'
      BY <1>0, <2>1, <2>4, RegionFacts DEF ContainsAddress, EndAddress
    <3> QED  BY <2>1, <2>2, <2>3, <3>1, <3>2
  <2>5. CASE ~(/\ region'.m_start <= currAddr
               /\ currAddr < region'.m_start + region'.m_size)
    <3>1. pc' = "destroy"
      BY <1>5, <2>5 DEF Lookup
    <3>2. currAddr >= Invalid \/ prot[PageOf(currAddr)] = Unmapped
      BY <1>0, <2>1, <2>5, RegionFacts
    <3>3. currAddr >= Invalid \/ taskMap[PageOf(currAddr)] = Unmapped
      BY <1>0, <3>2, PageInside, EmptyRegionType DEF MappedInv
    <3> QED  BY <2>1, <2>2, <2>3, <3>1, <3>3
  <2> QED  BY <2>4, <2>5
<1>6. CASE MakeWritable
  <2> DEFINE n == Least(data_count - total, BytesRemaining(currAddr))
  <2>1. /\ pc = "protect" /\ currAddr' = currAddr
        /\ UNCHANGED <<written, call, address, data_count, total, taskMap>>
    BY <1>6 DEF MakeWritable, currAddr
  <2>2. /\ BytesRemaining(currAddr) = EndAddress - currAddr
        /\ EndAddress \in Nat /\ currAddr < EndAddress
        /\ ContainsAddress(currAddr)
    BY <1>0, <2>1
    DEF BytesRemaining, ContainsAddress, EndAddress, Regions
  <2>3. /\ n \in Nat \ {0} /\ n <= EndAddress - currAddr
        /\ BytesRemaining(currAddr) # 0
    BY <1>0, <2>1, <2>2 DEF Least
  <2> HIDE DEF n
  <2>4. CASE /\ SetProtections(currAddr, n, RW)
             /\ chunk' = n /\ done' = 0 /\ pc' = "region"
    <3>1. /\ MappedInv' /\ RestoreInv'
          /\ \A b \in currAddr..(currAddr + n - 1) :
               PageOf(b) \in Pages /\ prot'[PageOf(b)] = RW
      BY <2>1, <2>3, <2>4, ProtectionsSet
    <3>2. currAddr + n <= Invalid
      BY <1>0, <2>1, <2>2, <2>3, EmptyRegionType
    <3> QED  BY <2>1, <2>4, <3>1, <3>2
  <2>5. CASE SetProtectionsFails(currAddr, n, RW) /\ pc' = "destroy"
    <3>1. (IF n > EndAddress - currAddr THEN EndAddress - currAddr ELSE n) = n
      BY <1>0, <2>2, <2>3
    <3>2. refused' = refused \cup {"change"} /\ UNCHANGED <<prot, region>>
      BY <2>2, <2>3, <2>5, <3>1 DEF SetProtectionsFails
    <3>3. MappedInv' /\ RestoreInv'
      BY <2>1, <3>2 DEF MappedInv, RestoreInv, RestoreDue
    <3> QED  BY <2>1, <2>5, <3>2, <3>3
  <2> QED  BY <1>6, <2>3, <2>4, <2>5 DEF MakeWritable, n
<1>7. CASE WriteRegionTurn \/ FlushCache
  <2> DEFINE a == turnAddr
             n == turnCount
  <2>1. /\ pc \in RegionCall /\ a \in Nat /\ chunk - done \in Nat \ {0}
        /\ call = "write"
        /\ UNCHANGED <<prot, region, refused, taskMap, call, address,
                       data_count, chunk, m_page_size>>
    BY <1>0, <1>7 DEF WriteRegionTurn, FlushCache, turnAddr
  <2>2. n \in 0..(chunk - done)
    BY <1>0, <2>1, TurnBounds
  <2>3. /\ a = currAddr + done /\ a = address + total + done
        /\ a + n <= currAddr + chunk /\ a + n <= Invalid
    BY <1>0, <2>1, <2>2, EmptyRegionType DEF turnAddr, currAddr
  <2> HIDE DEF a, n
  <2>4. \A p \in PagesOf(a, n) : prot[p] = RW
    <3>1. \A b \in a..(a + n - 1) : b \in currAddr..(currAddr + chunk - 1)
      BY <1>0, <2>1, <2>2, <2>3
    <3> QED  BY <2>1, <3>1 DEF PagesOf
  <2>5. Allowed(a, n, "w") /\ Mapped(a, n)
    <3>1. RW # Unmapped /\ "w" \in RW
      BY MapAssumption DEF Protections, RW
    <3> QED  BY <2>3, <2>4, <3>1 DEF Allowed, Mapped, Protectable
  <2>6. MappedInv' /\ RestoreInv'
    BY <1>1, <2>1
  <2>7. CASE WriteRegionTurn
    <3>1. /\ pc = "region" /\ pc' = "flush" /\ done' = done /\ total' = total
          /\ written' = written \cup a..(a + n - 1)
      BY <2>5, <2>7 DEF WriteRegionTurn, a, n
    <3>2. written = address..(a - 1)
      <4>1. written = address..(address + total + done - 1)
        BY <2>1, <3>1
      <4>2. address + total + done - 1 = a - 1
        BY <1>0, <2>1, <2>3
      <4> QED  BY <4>1, <4>2, Zenon
    <3>3. address..(a - 1) \cup a..(a + n - 1) = address..(a + n - 1)
      BY <1>0, <2>1, <2>2, <2>3
    <3>4. currAddr' = currAddr /\ turnCount' = n
      BY <2>1, <3>1 DEF currAddr, turnAddr, turnCount, MaxBytesLeftInPage, n
    <3>5. a + n - 1 = address + total + (done + n) - 1
      BY <1>0, <2>2, <2>3
    <3>6. written' = address..(address + total + (done + n) - 1)
      BY <3>1, <3>2, <3>3, <3>5
    <3>7. WrittenInv'
      BY <2>1, <3>1, <3>4, <3>6
    <3> QED  BY <2>1, <2>6, <3>1, <3>4, <3>7
  <2>8. CASE FlushCache
    <3>1. /\ pc = "flush" /\ written' = written /\ done' = done + n
          /\ \/ done' < chunk /\ total' = total /\ pc' = "region"
             \/ /\ done' >= chunk /\ total' = total + done'
                /\ pc' = IF done' = 0 THEN "destroy" ELSE "while"
      BY <2>5, <2>8 DEF FlushCache, RegionDone, a, n
    <3>2. written' = address..(address + total + done' - 1)
      BY <2>1, <3>1 DEF n
    <3>3. CASE done' < chunk /\ total' = total /\ pc' = "region"
      BY <2>1, <2>6, <3>2, <3>3 DEF currAddr
    <3>4. CASE done' >= chunk /\ total' = total + done' /\ pc' = "while"
      <4>1. address + total' + 0 - 1 = address + total + done' - 1
        BY <1>0, <2>2, <3>1, <3>4
      <4> QED  BY <2>1, <2>6, <3>2, <3>4, <4>1
    <3>5. done' >= chunk => done' # 0
      BY <1>0, <2>1, <2>2, <3>1
    <3> QED  BY <3>1, <3>3, <3>4, <3>5
  <2> QED  BY <1>7, <2>7, <2>8
<1>8. CASE Destroy
  BY <1>0, <1>8, ClearRestores, ClearKeeps DEF Destroy, currAddr
<1>9. CASE Returned \/ UNCHANGED vars
  <2>1. UNCHANGED vars
    BY <1>9 DEF Returned
  <2>2. UNCHANGED <<inRegion, WritableInv, FoundInv>>
    BY <2>1
    DEF vars, currAddr, EndAddress, ContainsAddress, turnCount, turnAddr,
        MaxBytesLeftInPage
  <2>3. HoleInv'
    BY <2>1 DEF vars, currAddr
  <2> HIDE DEF inRegion, WritableInv, FoundInv, HoleInv
  <2> QED  BY <1>1, <2>1, <2>2, <2>3 DEF vars
<1>10. ~TaskChangesMap
  BY DEF TaskChangesMap
<1> QED
  BY <1>2, <1>3, <1>4, <1>5, <1>6, <1>7, <1>8, <1>9, <1>10 DEF Next, Debugger

\* Read stops at the first byte it may not read, however the task changes
\* its map before.
LEMMA ReadStep ==
  ASSUME TypeInv, ReadIsMaximal, [Next]_vars
  PROVE  ReadIsMaximal'
<1> SUFFICES ASSUME pc' = "done", call' = "read", total' < data_count',
                    m_page_size' > 0, currAddr' < Invalid
             PROVE  ~Allowed(currAddr, 1, "r")'
  <2>1. currAddr' \in Nat /\ Invalid \in Nat
    BY TypeStep, EmptyRegionType DEF TypeInv, TypeOK, currAddr
  <2> QED  BY <2>1 DEF ReadIsMaximal
<1>1. CASE ReadTurn
  <2> DEFINE n == MaxBytesLeftInPage(currAddr, data_count - total)
  <2>1. /\ currAddr \in Nat /\ total \in Nat /\ data_count \in Nat
        /\ total < data_count /\ m_page_size \in {0, PageBytes}
        /\ m_page_size > 0 /\ data_count - total \in Nat \ {0}
    BY <1>1, CallAssumption
    DEF ReadTurn, TypeInv, TypeOK, CallInv, currAddr
  <2>2. /\ n \in 1..(data_count - total)
        /\ currAddr + n <= (PageOf(currAddr) + 1) * PageBytes
    BY <2>1, ChunkInPage
  <2> HIDE DEF n
  <2>3. ~Allowed(currAddr, n, "r") /\ UNCHANGED <<prot, address, total>>
    <3>1. n < Word
      <4>1. currAddr + n <= currAddr + PageBytes
        <5> DEFINE s == PageOf(currAddr) * PageBytes
        <5>1. s <= currAddr /\ PageOf(currAddr) \in Nat
          BY <2>1, PageBounds
        <5>2. s \in Nat /\ (PageOf(currAddr) + 1) * PageBytes = s + PageBytes
          BY <5>1, PagesSize
        <5> HIDE DEF s
        <5> QED  BY <2>1, <2>2, <5>1, <5>2, MapAssumption
      <4> QED  BY <2>1, <2>2, <4>1, MapAssumption, CallAssumption
    <3> QED  BY <1>1, <2>1, <2>2, <3>1 DEF ReadTurn, regionVars, n
  <2>4. PageOf(currAddr) \in Pages /\ currAddr < Invalid
    <3>1. currAddr < Invalid
      BY <2>3 DEF currAddr
    <3> QED  BY <2>1, <3>1, PageInside
  <2>5. currAddr + n <= Invalid
    <3> DEFINE q == PageOf(currAddr) + 1
    <3>1. q \in Nat /\ PageCount \in Nat /\ q <= PageCount
      BY <2>4, MapAssumption DEF Pages
    <3>2. q * PageBytes <= Invalid
      <4>1. CASE q = PageCount
        BY <4>1, MapAssumption DEF Invalid
      <4>2. CASE q < PageCount
        <5> HIDE DEF q
        <5>1. /\ (q + 1) * PageBytes <= PageCount * PageBytes
              /\ (q + 1) * PageBytes = q * PageBytes + PageBytes
              /\ q * PageBytes \in Nat /\ PageCount * PageBytes \in Nat
          BY <3>1, <4>2, TimesMonotone, PagesSize
        <5> QED  BY <5>1, MapAssumption DEF Invalid
      <4> QED  BY <3>1, <4>1, <4>2
    <3>3. q * PageBytes \in Nat /\ Invalid \in Nat
      BY <3>1, PagesSize, EmptyRegionType
    <3> QED  BY <2>1, <2>2, <3>2, <3>3
  <2>6. ASSUME NEW b \in currAddr..(currAddr + n - 1)
        PROVE  PageOf(b) = PageOf(currAddr)
    <3> DEFINE q == PageOf(currAddr)
    <3>0. q \in Nat /\ q * PageBytes <= currAddr
      BY <2>1, PageBounds
    <3>1. /\ b \in Nat /\ q \in Nat /\ PageOf(b) \in Nat
          /\ q * PageBytes <= currAddr /\ currAddr <= b
          /\ q * PageBytes \in Nat /\ (q + 1) * PageBytes \in Nat
      <4> HIDE DEF q
      <4>1. b \in Nat /\ currAddr <= b
        BY <2>1, <2>2
      <4>2. PageOf(b) \in Nat
        BY <4>1, PageBounds
      <4>3. q * PageBytes \in Nat /\ (q + 1) * PageBytes \in Nat
        BY <3>0, PagesSize
      <4> QED  BY <3>0, <4>1, <4>2, <4>3
    <3>2. q * PageBytes <= b /\ b < (q + 1) * PageBytes
      BY <2>1, <2>2, <3>1
    <3>3. q <= PageOf(b) /\ PageOf(b) < q + 1
      BY <3>1, <3>2, PageRange
    <3> QED  BY <3>1, <3>3
  <2>7. PICK b \in currAddr..(currAddr + n - 1) :
          ~(prot[PageOf(b)] # Unmapped /\ "r" \in prot[PageOf(b)])
    BY <2>3, <2>5 DEF Allowed, PagesOf
  <2>8. PageOf(currAddr) \in PagesOf(currAddr, 1)
    BY <2>1 DEF PagesOf
  <2>9. ~Allowed(currAddr, 1, "r")
    BY <2>6, <2>7, <2>8 DEF Allowed
  <2> QED  BY <2>3, <2>9 DEF Allowed, currAddr, PagesOf
<1>2. ASSUME NEW a \in 0..(Invalid - 1), NEW n \in 0..MaxCount,
             Read(a, n) \/ Write(a, n)
      PROVE  FALSE
  BY <1>2 DEF Read, Write, TypeInv, CallInv
<1>3. ~WriteTurn /\ ~Lookup /\ ~MakeWritable
  BY DEF WriteTurn, Lookup, MakeWritable
<1>4. ~WriteRegionTurn /\ ~FlushCache /\ ~Destroy
  BY
  DEF WriteRegionTurn, FlushCache, RegionDone, Destroy, TypeInv, CallInv,
      WriteCall, RegionCall
<1>5. ~TaskChangesMap
  BY DEF TaskChangesMap
<1>6. CASE Returned \/ UNCHANGED vars
  <2>1. /\ UNCHANGED <<prot, pc, call, address, data_count, total,
                       m_page_size>>
        /\ currAddr' = currAddr /\ currAddr \in Nat /\ Invalid \in Nat
    BY <1>6, EmptyRegionType
    DEF Returned, vars, regionVars, TypeInv, TypeOK, currAddr
  <2> QED  BY <2>1 DEF ReadIsMaximal, Allowed
<1> QED  BY <1>1, <1>2, <1>3, <1>4, <1>5, <1>6 DEF Next, Debugger

\* The first call finds everything in its initial state.
LEMMA InitialInv == Init => TypeInv /\ ReadIsMaximal /\ SuspendedInv
<1> SUFFICES ASSUME Init
             PROVE  TypeInv /\ ReadIsMaximal /\ SuspendedInv
  OBVIOUS
<1>1. TypeInv
  BY EmptyRegionType, CallAssumption
  DEF Init, TypeInv, TypeOK, CallInv, WriteInRange, WriteCall, RegionCall,
      Regions
<1>2. ReadIsMaximal
  BY DEF Init, ReadIsMaximal
<1>3. SuspendedInv
  BY EmptyRegionType
  DEF Init, SuspendedInv, MappedInv, RestoreInv, RestoreDue, FoundInv,
      WritableInv, RegionCall, WrittenInv, HoleInv
<1> QED  BY <1>1, <1>2, <1>3

\* The invariants hold in every reachable state.
LEMMA Invariance ==
  /\ Spec => [](TypeInv /\ ReadIsMaximal)
  /\ ~TaskRuns => (Spec => [](TypeInv /\ SuspendedInv))
<1>1. TypeInv /\ ReadIsMaximal /\ [Next]_vars => (TypeInv /\ ReadIsMaximal)'
  BY TypeStep, ReadStep
<1>2. Spec => [](TypeInv /\ ReadIsMaximal)
  BY <1>1, InitialInv, PTL DEF Spec
<1>3. ASSUME ~TaskRuns
      PROVE  Spec => [](TypeInv /\ SuspendedInv)
  <2>1. TypeInv /\ SuspendedInv /\ [Next]_vars
          => (TypeInv /\ SuspendedInv)'
    BY <1>3, TypeStep, SuspendedStep
  <2> QED  BY <2>1, InitialInv, PTL DEF Spec
<1> QED  BY <1>2, <1>3

-----------------------------------------------------------------------------
(* What the invariants are for. *)

\* What a call in a suspended task promises follows from the invariant.
LEMMA Promises ==
  TypeInv /\ SuspendedInv =>
    ProtectionsRestored /\ WriteCounts /\ WriteStopsAtHole
<1> SUFFICES ASSUME TypeInv, SuspendedInv, pc = "done"
             PROVE  ProtectionsRestored /\ WriteCounts /\ WriteStopsAtHole
  BY DEF ProtectionsRestored, WriteCounts, WriteStopsAtHole
<1>1. ASSUME "restore" \notin refused
      PROVE  prot = taskMap
  <2>1. ~RestoreDue
    BY EmptyRegionType DEF TypeInv, CallInv, RestoreDue
  <2>2. \A p \in Pages : prot[p] = taskMap[p]
    BY <1>1, <2>1 DEF SuspendedInv, RestoreInv
  <2> QED  BY <2>2 DEF TypeInv, TypeOK, Maps
<1>2. ASSUME call = "write"
      PROVE  written = address..(address + total - 1)
  <2>1. written = address..(address + total + 0 - 1)
    BY <1>2 DEF SuspendedInv, WrittenInv, inRegion
  <2>2. address + total + 0 - 1 = address + total - 1
    BY CallAssumption DEF TypeInv, TypeOK
  <2> QED  BY <2>1, <2>2
<1>3. WriteStopsAtHole
  BY DEF SuspendedInv, HoleInv, WriteStopsAtHole
<1> QED  BY <1>1, <1>2, <1>3 DEF ProtectionsRestored, WriteCounts

\* Read and Write keep every variable in its type: in particular no count
\* runs past what was asked for and no byte is written behind the address
\* space.
THEOREM TypeCorrect == Spec => []TypeOK
<1>1. TypeInv => TypeOK
  BY DEF TypeInv
<1> QED  BY <1>1, Invariance, PTL

\* Write never writes a byte outside the range the caller named, also when
\* the task changes its memory map during the call.
THEOREM WritesStayInRange == Spec => []WriteInRange
<1>1. TypeInv => WriteInRange
  BY DEF TypeInv
<1> QED  BY <1>1, Invariance, PTL

\* Read's loop over MaxBytesLeftInPage returns the longest readable prefix,
\* whatever the page size and also when the task changes its map meanwhile.
THEOREM ReadsAreMaximal == Spec => []ReadIsMaximal
<1>1. TypeInv /\ ReadIsMaximal => ReadIsMaximal
  OBVIOUS
<1> QED  BY <1>1, Invariance, PTL

\* In a suspended task Write puts back the protection of every page, over
\* any number of regions and on every way out of the loop, unless
\* mach_vm_protect refused to.
THEOREM WriteRestores ==
  ASSUME ~TaskRuns
  PROVE  Spec => []ProtectionsRestored
BY Promises, Invariance, PTL

\* In a suspended task the count Write returns is the number of bytes it
\* wrote, and they are the first ones of the range.
THEOREM CountIsWritten ==
  ASSUME ~TaskRuns
  PROVE  Spec => []WriteCounts
BY Promises, Invariance, PTL

\* In a suspended task Write stops short only in front of an unmapped page or
\* one mach_vm_protect refuses to change.
THEOREM WritesUpToHole ==
  ASSUME ~TaskRuns
  PROVE  Spec => []WriteStopsAtHole
BY Promises, Invariance, PTL

=============================================================================
