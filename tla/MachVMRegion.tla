---------------------------- MODULE MachVMRegion ----------------------------
(***************************************************************************)
(* MachVMRegion.cpp: one region of the debugged task's memory, looked up   *)
(* by address, whose protections may be changed for a while and are put    *)
(* back by Clear.  The task's memory map is external: a protection for     *)
(* every page (prot), changed by mach_vm_protect page by page.             *)
(***************************************************************************)
EXTENDS Naturals

CONSTANTS PageCount,  \* pages of the modelled address space
          PageBytes,  \* bytes of a page
          Unmapped,   \* a page with no memory behind it
          Refuses     \* mach_vm_protect may fail on mapped pages (BOOLEAN)

Pages == 0..(PageCount - 1)

\* An address no region reaches: INVALID_NUB_ADDRESS.
Invalid == PageCount * PageBytes

\* VM_PROT_READ | VM_PROT_WRITE, and the other protections of a page.
RW == {"r", "w"}
Protections == {{}, {"r"}, RW, {"r", "x"}}

ASSUME MapAssumption ==
  /\ PageCount \in Nat \ {0} /\ PageBytes \in Nat \ {0}
  /\ Unmapped \notin Protections
  /\ Refuses \in BOOLEAN

VARIABLES
  prot,    \* the task's memory map: page -> protection or Unmapped
  region,  \* the MachVMRegion object
  refused  \* what mach_vm_protect refused: "change", "restore" (history)

regionVars == <<prot, region, refused>>

PageOf(a) == a \div PageBytes

PagesOf(a, n) == {PageOf(b) : b \in a..(a + n - 1)}

\* mach_vm_protect, on every page the range touches, or on none.
Protectable(a, n) == \A p \in PagesOf(a, n) : prot[p] # Unmapped

Protect(a, n, new) ==
  prot' = [p \in Pages |-> IF p \in PagesOf(a, n) THEN new ELSE prot[p]]

-----------------------------------------------------------------------------
\* protection is m_data.protection, what the kernel said at the lookup.
EmptyRegion ==
  [m_start |-> Invalid, m_size |-> 0, protection |-> {},
   m_curr_protection |-> {}, m_protection_addr |-> Invalid,
   m_protection_size |-> 0]

EndAddress == region.m_start + region.m_size

ContainsAddress(a) == region.m_start <= a /\ a < EndAddress

BytesRemaining(a) ==
  IF ContainsAddress(a) THEN region.m_size - (a - region.m_start) ELSE 0

\* The test of RestoreProtections.
RestoreDue ==
  /\ region.m_curr_protection # region.protection
  /\ region.m_protection_size > 0

\* Clear: RestoreProtections, whose result is not looked at, and a reset.
Clear ==
  LET a == region.m_protection_addr
      n == region.m_protection_size
  IN /\ region' = EmptyRegion
     /\ \/ ~RestoreDue /\ UNCHANGED <<prot, refused>>
        \/ /\ RestoreDue /\ Protectable(a, n)
           /\ Protect(a, n, region.protection)
           /\ UNCHANGED refused
        \/ /\ RestoreDue /\ (Refuses \/ ~Protectable(a, n))
           /\ refused' = refused \cup {"restore"}
           /\ UNCHANGED prot

\* mach_vm_region_recurse: the entry of the map that holds address a, or the
\* first one behind it.  The kernel may keep neighbours of equal protection
\* as one entry or as several.
Entry(lo, hi) ==
  lo <= hi /\ \A p \in lo..hi : prot[p] # Unmapped /\ prot[p] = prot[lo]

RegionRecurse(a, lo, hi) ==
  /\ Entry(lo, hi)
  /\ \/ lo <= PageOf(a) /\ PageOf(a) <= hi
     \/ /\ PageOf(a) < lo
        /\ \A p \in PageOf(a)..(lo - 1) : prot[p] = Unmapped

\* GetRegionForAddress, behind its Clear; m_err fails when nothing is found.
GetRegionForAddress(a) ==
  \/ \E lo, hi \in Pages :
          /\ RegionRecurse(a, lo, hi)
          /\ region' = [EmptyRegion EXCEPT
                          !.m_start = lo * PageBytes,
                          !.m_size = (hi - lo + 1) * PageBytes,
                          !.protection = prot[lo],
                          !.m_curr_protection = prot[lo]]
  \/ /\ \A lo, hi \in Pages : ~RegionRecurse(a, lo, hi)
     /\ region' = [EmptyRegion EXCEPT !.m_start = a]

\* Mutant: the start of the region is recorded, not that of the change.
SetProtectionsAtStart(a, n, new) ==
  LET size == IF n > EndAddress - a THEN EndAddress - a ELSE n
  IN /\ ContainsAddress(a) /\ size > 0
     /\ UNCHANGED refused
     /\ \/ new = region.m_curr_protection /\ UNCHANGED <<prot, region>>
        \/ /\ new # region.m_curr_protection
           /\ Protectable(a, size)
           /\ Protect(a, size, new)
           /\ region' = [region EXCEPT !.m_curr_protection = new,
                                       !.m_protection_addr = region.m_start,
                                       !.m_protection_size = size]

\* SetProtections returns true.  The second attempt, with VM_PROT_COPY, only
\* makes success more likely.
SetProtections(a, n, new) ==
  LET size == IF n > EndAddress - a THEN EndAddress - a ELSE n
  IN /\ ContainsAddress(a) /\ size > 0
     /\ UNCHANGED refused
     /\ \/ new = region.m_curr_protection /\ UNCHANGED <<prot, region>>
        \/ /\ new # region.m_curr_protection
           /\ Protectable(a, size)
           /\ Protect(a, size, new)
           /\ region' = [region EXCEPT !.m_curr_protection = new,
                                       !.m_protection_addr = a,
                                       !.m_protection_size = size]

\* SetProtections returns false.
SetProtectionsFails(a, n, new) ==
  LET size == IF n > EndAddress - a THEN EndAddress - a ELSE n
  IN /\ \/ (~ContainsAddress(a) \/ size = 0) /\ UNCHANGED refused
        \/ /\ ContainsAddress(a) /\ size > 0
           /\ new # region.m_curr_protection
           /\ Refuses \/ ~Protectable(a, size)
           /\ refused' = refused \cup {"change"}
     /\ UNCHANGED <<prot, region>>

=============================================================================
