--------------------------- MODULE VirtualMemory ---------------------------
(***************************************************************************)
(* Virtual memory of a guest: VirtualAlloc and VirtualFree                 *)
(* (kernel32_memory.c), sections and views of them (ntdll_memory.c) and    *)
(* their handles (ntdll_handle.c).  Sizes are in pages; a page of the      *)
(* address space is free (0) or belongs to the mapping that begins at the  *)
(* page it holds.  The contents of a mapping is where it came from: a file *)
(* or nothing.                                                             *)
(*                                                                         *)
(* The guest releases what it was given, once.  A careful guest also keeps *)
(* the file of a section open for as long as it maps views of the section. *)
(***************************************************************************)
EXTENDS Integers, Sequences, FiniteSets, FiniteSetsExt

CONSTANTS
    VmPages,        \* pages of the address space, 1..VmPages
    VmSizes,        \* sizes of VirtualAlloc, in pages
    SectionSizes,   \* sizes of sections, in pages
    MAX_VM_ALLOCS,
    MAX_SECTIONS,   \* also the limit of the views
    SectionHandles, \* handles that are free for sections
    Descriptors,    \* descriptors that are free for files
    Contents,       \* the files
    Careful,        \* the guest is careful
    MaxVmOps        \* bound: calls of a behaviour

ASSUME VmAssumption ==
    /\ VmPages \in Nat /\ VmSizes \subseteq Nat \ {0} /\ SectionSizes \subseteq Nat \ {0}
    /\ MAX_VM_ALLOCS \in Nat /\ MAX_SECTIONS \in Nat
    /\ SectionHandles \subseteq Nat /\ Descriptors \subseteq Nat \ {0}

VARIABLES
    pg,         \* the address space
    vm_allocs,  \* base and size of what VirtualAlloc gave
    sections,   \* ko_section: base (0 after NtClose), size, fd (0 for none) and what it was made from
    views,      \* ko_view: base and size
    hs,         \* the handles of sections, index into sections
    fds,        \* the open descriptors and their file
    held,       \* what the guest has, by base: size, kind, what it should see and sees
    leaked,     \* mappings nobody has a pointer to
    misfreed,   \* a VirtualFree took the size of a region that was gone
    vmOps

vmVars == <<pg, vm_allocs, sections, views, hs, fds, held, leaked, misfreed, vmOps>>

VmInit ==
    /\ pg = [p \in 1..VmPages |-> 0] /\ vm_allocs = <<>> /\ sections = <<>> /\ views = <<>>
    /\ hs = <<>> /\ fds = <<>> /\ held = <<>> /\ leaked = {} /\ misfreed = FALSE /\ vmOps = 0

VmCall == vmOps < MaxVmOps /\ vmOps' = vmOps + 1

\* mmap gives any hole that is large enough, or fails.
Room(n) == {b \in 1..VmPages + 1 - n : \A p \in b..b + n - 1 : pg[p] = 0}
Mapped(space, b, n) == [p \in DOMAIN space |-> IF p \in b..b + n - 1 THEN b ELSE space[p]]
Unmapped(space, b, n) == [p \in DOMAIN space |-> IF p \in b..b + n - 1 THEN 0 ELSE space[p]]
Extend(f, k, v) == [x \in DOMAIN f \cup {k} |-> IF x = k THEN v ELSE f[x]]
Without(f, k) == [x \in DOMAIN f \ {k} |-> f[x]]

-----------------------------------------------------------------------------
(* kernel32_memory.c.                                                      *)

\* The first entry of a table with this base, 0 when there is none.
vm_alloc_find(base) ==
    LET at == {i \in DOMAIN vm_allocs : vm_allocs[i].base = base} IN IF at = {} THEN 0 ELSE Min(at)
find_view(base) ==
    LET at == {i \in DOMAIN views : views[i].base = base} IN IF at = {} THEN 0 ELSE Min(at)
vm_alloc_add(base, size) ==
    IF Len(vm_allocs) >= MAX_VM_ALLOCS THEN vm_allocs
    ELSE Append(vm_allocs, [base |-> base, size |-> size])

\* The last entry takes the place of the one that goes.
SwapOut(s, i) == SubSeq([s EXCEPT ![i] = s[Len(s)]], 1, Len(s) - 1)

handler_NtAllocateVirtualMemory(b, n) == pg' = Mapped(pg, b, n)
VirtualAlloc(n) ==
    /\ VmCall
    /\ \E b \in Room(n) :
          /\ handler_NtAllocateVirtualMemory(b, n)
          /\ vm_allocs' = vm_alloc_add(b, n)
          /\ held' = Extend(held, b, [size |-> n, kind |-> "alloc", want |-> "none", sees |-> "none"])
    /\ UNCHANGED <<sections, views, hs, fds, leaked, misfreed>>

\* handler_NtFreeVirtualMemory unmaps and sets the base to 0.
handler_NtFreeVirtualMemory(b, n) == pg' = Unmapped(pg, b, n)

\* Mutant: the size is rounded up to a page more
FreeOneMore(b, given) ==
    LET i == vm_alloc_find(b)
        known == given > 0 \/ i > 0 \/ find_view(b) > 0
        n == (IF given > 0 THEN given ELSE IF i > 0 THEN vm_allocs[i].size ELSE views[find_view(b)].size) + 1
    IN  /\ VmCall
        /\ b \in DOMAIN held /\ held[b].kind = "alloc"
        /\ given \in {0, held[b].size}
        /\ IF known THEN handler_NtFreeVirtualMemory(b, n) /\ held' = Without(held, b)
           ELSE UNCHANGED <<pg, held>>
        /\ UNCHANGED <<vm_allocs, sections, views, hs, fds, leaked, misfreed>>

\* given is dwSize.  When it is 0 the size is that of the first entry with the base.
\* The entry is looked for again once the region is unmapped, with the base that
\* the handler has set to 0, and so is never found and never removed.
VirtualFree(b, given) ==
    LET i == vm_alloc_find(b)
        known == given > 0 \/ i > 0 \/ find_view(b) > 0
        n == IF given > 0 THEN given ELSE IF i > 0 THEN vm_allocs[i].size ELSE views[find_view(b)].size
        idx == vm_alloc_find(0)
    IN  /\ VmCall
        /\ b \in DOMAIN held /\ held[b].kind = "alloc"
        /\ given \in {0, held[b].size}
        /\ IF known
           THEN /\ handler_NtFreeVirtualMemory(b, n) /\ held' = Without(held, b)
                /\ vm_allocs' = IF idx > 0 THEN SwapOut(vm_allocs, idx) ELSE vm_allocs
                /\ misfreed' = (misfreed \/ n # held[b].size)
           ELSE UNCHANGED <<pg, held, vm_allocs, misfreed>>
        /\ UNCHANGED <<sections, views, hs, fds, leaked>>

-----------------------------------------------------------------------------
(* ntdll_memory.c.                                                         *)

\* A file is opened and closed by the calls of GuestFiles; here it is only a descriptor.
OpenFile(c) ==
    /\ VmCall
    /\ Descriptors \ DOMAIN fds # {}
    /\ fds' = Extend(fds, Min(Descriptors \ DOMAIN fds), c)
    /\ UNCHANGED <<pg, vm_allocs, sections, views, hs, held, leaked, misfreed>>
CloseFile(fd) ==
    /\ VmCall
    /\ fd \in DOMAIN fds
    /\ Careful => \A h \in DOMAIN hs : sections[hs[h]].fd # fd
    /\ fds' = Without(fds, fd)
    /\ UNCHANGED <<pg, vm_allocs, sections, views, hs, held, leaked, misfreed>>

\* The section gets memory of its own, into which a file is copied by way of a
\* mapping of the file; when that mapping fails the memory stays.  The handle is
\* not looked at, it may be 0.
handler_NtCreateSection(n, fd) ==
    LET free_ == SectionHandles \ DOMAIN hs
        made == [base |-> 0, size |-> n, fd |-> fd, from |-> IF fd = 0 THEN "none" ELSE fds[fd]]
    IN  /\ VmCall
        /\ Len(sections) < MAX_SECTIONS
        /\ fd # 0 => fd \in DOMAIN fds
        /\ \E b \in Room(n) :
              /\ pg' = Mapped(pg, b, n)
              /\ \/ /\ sections' = Append(sections, [made EXCEPT !.base = b])
                    /\ IF free_ # {}
                       THEN hs' = Extend(hs, Min(free_), Len(sections) + 1) /\ UNCHANGED leaked
                       ELSE leaked' = leaked \cup {b} /\ UNCHANGED hs
                 \/ fd # 0 /\ leaked' = leaked \cup {b} /\ UNCHANGED <<sections, hs>>
        /\ UNCHANGED <<vm_allocs, views, fds, held, misfreed>>

\* A view of a file maps what the section's descriptor is now, any other copies the section.
handler_NtMapViewOfSection(h, commit) ==
    LET sec == sections[hs[h]]
        n == IF commit = 0 THEN sec.size ELSE Min({commit, sec.size})
    IN  /\ VmCall
        /\ h \in DOMAIN hs
        /\ sec.fd # 0 => sec.fd \in DOMAIN fds
        /\ \E b \in Room(n) :
              /\ pg' = Mapped(pg, b, n)
              /\ views' = IF Len(views) < MAX_SECTIONS THEN Append(views, [base |-> b, size |-> n]) ELSE views
              /\ held' = Extend(held, b, [size |-> n, kind |-> "view", want |-> sec.from,
                                          sees |-> IF sec.fd = 0 THEN sec.from ELSE fds[sec.fd]])
        /\ UNCHANGED <<vm_allocs, sections, hs, fds, leaked, misfreed>>

handler_NtUnmapViewOfSection(b) ==
    /\ VmCall
    /\ b \in DOMAIN held /\ held[b].kind = "view"
    /\ IF find_view(b) = 0 THEN UNCHANGED <<pg, views, held>>
       ELSE /\ pg' = Unmapped(pg, b, views[find_view(b)].size)
            /\ views' = SwapOut(views, find_view(b))
            /\ held' = Without(held, b)
    /\ UNCHANGED <<vm_allocs, sections, hs, fds, leaked, misfreed>>

\* NtClose of a section; its entry stays in use.
CloseSection(h) ==
    /\ VmCall
    /\ h \in DOMAIN hs
    /\ pg' = Unmapped(pg, sections[hs[h]].base, sections[hs[h]].size)
    /\ sections' = [sections EXCEPT ![hs[h]].base = 0]
    /\ hs' = Without(hs, h)
    /\ UNCHANGED <<vm_allocs, views, fds, held, leaked, misfreed>>

VmNext ==
    \/ \E n \in VmSizes : VirtualAlloc(n)
    \/ \E b \in DOMAIN held :
          \/ \E given \in {0, held[b].size} : VirtualFree(b, given)
          \/ handler_NtUnmapViewOfSection(b)
    \/ \E c \in Contents : OpenFile(c)
    \/ \E fd \in DOMAIN fds : CloseFile(fd)
    \/ \E n \in SectionSizes, fd \in {0} \cup Descriptors : handler_NtCreateSection(n, fd)
    \/ \E h \in DOMAIN hs :
          \/ \E commit \in {0, 1} : handler_NtMapViewOfSection(h, commit)
          \/ CloseSection(h)

VmSpec == VmInit /\ [][VmNext]_vmVars

-----------------------------------------------------------------------------
(* Properties.                                                             *)

Live == {sections[hs[h]].base : h \in DOMAIN hs}
RegionPages(b, n) == b..b + n - 1

\* The values the variables range over.
VmTypeOK ==
    /\ \A p \in 1..VmPages : pg[p] \in 0..VmPages
    /\ Len(vm_allocs) <= MAX_VM_ALLOCS /\ Len(views) <= MAX_SECTIONS /\ Len(sections) <= MAX_SECTIONS
    /\ DOMAIN hs \subseteq SectionHandles /\ DOMAIN fds \subseteq Descriptors

\* VirtualFree, NtUnmapViewOfSection, NtClose: whatever is released, in whatever
\* order, and by the right size, the regions and views that the guest still has and the memory of the
\* sections that are open stay mapped, to their last page.
RegionsIntact ==
    /\ \A b \in DOMAIN held : \A p \in RegionPages(b, held[b].size) : pg[p] = b
    /\ \A h \in DOMAIN hs :
          LET sec == sections[hs[h]] IN \A p \in RegionPages(sec.base, sec.size) : pg[p] = sec.base

\* NtCreateSection, NtClose, NtUnmapViewOfSection, VirtualFree: a page that is
\* mapped belongs to something the guest can still release, or was lost when
\* NtCreateSection failed half way or found no handle.
NothingStaysMapped == {pg[p] : p \in 1..VmPages} \subseteq {0} \cup DOMAIN held \cup Live \cup leaked

\* NtMapViewOfSection and NtUnmapViewOfSection: an entry of the view table is a
\* view that the guest has, with its size, and no view has two; an entry that
\* stayed would be found first when its address is mapped again.
RegisteredViewsHeld ==
    /\ \A i \in DOMAIN views :
          views[i].base \in DOMAIN held /\ held[views[i].base].kind = "view" /\ held[views[i].base].size = views[i].size
    /\ \A i, j \in DOMAIN views : views[i].base = views[j].base => i = j

\* NtCreateSection and NtMapViewOfSection: a view shows what its section was made
\* from, as long as the guest keeps the file of the section open.
ViewShowsSection == \A b \in DOMAIN held : held[b].sees = held[b].want

\* VirtualAlloc, VirtualFree, NtCreateSection, NtMapViewOfSection,
\* NtUnmapViewOfSection and NtClose, in any order and failing where they can:
\* what the guest has stays mapped and shows what it should, the view table
\* says so, and what it gave back is gone, as long as no VirtualFree with a size
\* of 0 finds the entry of an earlier region of another size at its address.
\* Such a call unmaps too little or the pages of a neighbour.
RegionsKept ==
    /\ VmTypeOK
    /\ ~misfreed => RegionsIntact /\ NothingStaysMapped /\ RegisteredViewsHeld /\ ViewShowsSection
=============================================================================
