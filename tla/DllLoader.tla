----------------------------- MODULE DllLoader -----------------------------
(***************************************************************************)
(* LoadLibraryA and FreeLibraryA: the module registry (module_list.c), the *)
(* PEB loader list (peb_ldr.c), load_dll (dll_loader.c) and the recursive  *)
(* import resolution (import_resolve.c), run by one guest thread.          *)
(*                                                                         *)
(* load_dll and resolve_module_imports call each other; `stack' is the     *)
(* stack of load_dll calls in progress.  DllMain is guest code, so the     *)
(* guest may call LoadLibraryA from it.  Calls for the built-in libraries  *)
(* change nothing and are left out; imports of them are kept.              *)
(***************************************************************************)
EXTENDS Naturals, Sequences, FiniteSets, Functions

CONSTANTS Dlls,               \* the DLL files there are
          Graphs,             \* import tables considered: functions from Dlls to Seq(Dlls \cup {STUB})
          MAX_MODULES,        \* 16 in the source
          MAX_IMPORT_DEPTH,   \* 8 in the source
          LastBase,           \* bound: the last base address there is room for
          MaxHeld             \* bound: how often the guest loads a library again

ASSUME LoaderAssumption ==
    /\ MAX_MODULES \in Nat /\ MAX_MODULES > 1
    /\ MAX_IMPORT_DEPTH \in Nat
    /\ LastBase \in Nat \ {0} /\ MaxHeld \in Nat

STUB == "kernel32.dll"     \* stands for the built-in libraries
MAIN == "main.exe"

ASSUME GraphsAssumption == \A g \in Graphs : g \in [Dlls -> Seq(Dlls \cup {STUB})]

NULL == 0
MainBase == 1
Bases == MainBase .. LastBase
ModuleSlots == 0 .. MAX_MODULES - 1
NoSlot == MAX_MODULES

VARIABLES
    imports,         \* the import descriptors of each DLL, in order
    is_32bit,        \* the main image and its libraries are PE32
    modules,         \* g_loader.modules
    module_count,
    ldr,             \* the PEB lists (the three are kept alike): slots, in order
    mapped,          \* bases of mapped images
    headers,         \* bases of the images whose copy of the NT headers is allocated
    dll_base_next,   \* g_loader.dll_base_next, counted in images
    image_size,      \* whose size g_loader.image_size holds
    stack,           \* the load_dll calls in progress, the innermost last
    held,            \* history: how often the guest has to free each base
    attached         \* history: bases that have seen DLL_PROCESS_ATTACH succeed

registry == <<modules, module_count, ldr>>
memory == <<mapped, headers, dll_base_next, image_size>>
files == <<imports, is_32bit>>
loaderVars == <<files, registry, memory, stack, held, attached>>

NoModule ==
    [base |-> NULL, name |-> "", load_count |-> 0, ldr_linked |-> FALSE,
     exports |-> FALSE, dllmain_called |-> FALSE, iat |-> {}]

\* add_module, then ldr_add_module
NewModule(name, base) ==
    [NoModule EXCEPT !.base = base, !.name = name, !.load_count = 1, !.ldr_linked = TRUE]

\* The main image has been registered by the start-up code
LoaderInit ==
    /\ imports \in Graphs
    /\ is_32bit \in BOOLEAN
    /\ modules = [i \in ModuleSlots |-> IF i = 0 THEN NewModule(MAIN, MainBase) ELSE NoModule]
    /\ module_count = 1
    /\ ldr = <<0>>
    /\ mapped = {MainBase} /\ headers = {}
    /\ dll_base_next = MainBase + 1
    /\ image_size = MAIN
    /\ stack = <<>>
    /\ held = [b \in Bases |-> 0]
    /\ attached = {}

-----------------------------------------------------------------------------
(* The registry.  Every search stops at module_count. *)

FirstOf(slots) == IF slots = {} THEN NoSlot ELSE CHOOSE i \in slots : \A j \in slots : i <= j

Searched == 0 .. module_count - 1

FindByName(name) == FirstOf({i \in Searched : modules[i].base # NULL /\ modules[i].name = name})
FindByAddr(base) == FirstOf({i \in Searched : modules[i].base = base})
FreeSlot == FirstOf({i \in ModuleSlots : modules[i].base = NULL})

RemoveModule(i) ==
    IF i \in Searched
    THEN /\ modules' = [modules EXCEPT ![i] = NoModule]
         /\ module_count' = module_count - 1
    ELSE UNCHANGED <<modules, module_count>>

Unlinked(s, k) == SubSeq(s, 1, k - 1) \o SubSeq(s, k + 1, Len(s))

\* ldr_remove_module: the entry of the module is unlinked, if it is linked
LdrWithout(i) ==
    LET at == {k \in DOMAIN ldr : ldr[k] = i}
    IN  IF at = {} THEN ldr ELSE Unlinked(ldr, CHOOSE k \in at : TRUE)

-----------------------------------------------------------------------------
(* load_dll and resolve_module_imports *)

Innermost == stack[Len(stack)]
At(label) == stack # <<>> /\ Innermost.pc = label
LoadGoto(label) == stack' = [stack EXCEPT ![Len(stack)].pc = label]

Frame(dll, caller, depth) ==
    [dll |-> dll, caller |-> caller, depth |-> depth, slot |-> NoSlot, base |-> NULL,
     next |-> 1, pc |-> "map"]

\* load_dll returns a module: the importer goes on to its next descriptor
Loaded ==
    LET below == SubSeq(stack, 1, Len(stack) - 1) IN
    stack' = IF Innermost.caller = "guest" THEN below
             ELSE [below EXCEPT ![Len(below)].next = @ + 1]

\* load_dll returns NULL: so does the importer, after cleaning up
Refused ==
    LET below == SubSeq(stack, 1, Len(stack) - 1) IN
    stack' = IF Innermost.caller = "guest" THEN below
             ELSE [below EXCEPT ![Len(below)].pc = "undo"]

\* Reserve a base, map the image, copy the headers, compare the PE types.
\* Whatever fails, what was mapped before is unmapped; the base is not reused.
\* The main image's globals are restored, but for image_size.
Map ==
    /\ At("map")
    /\ \/ /\ dll_base_next \in Bases
          /\ mapped' = mapped \cup {dll_base_next}
          /\ headers' = headers \cup {dll_base_next}
          /\ image_size' = Innermost.dll
          /\ dll_base_next' = dll_base_next + 1
          /\ stack' = [stack EXCEPT ![Len(stack)].pc = "register",
                                    ![Len(stack)].base = dll_base_next]
       \/ /\ image_size' \in {image_size, Innermost.dll}
          /\ dll_base_next' = IF dll_base_next \in Bases THEN dll_base_next + 1 ELSE dll_base_next
          /\ Refused
          /\ UNCHANGED <<mapped, headers>>
    /\ UNCHANGED <<files, registry, held, attached>>

\* add_module and ldr_add_module, or no free slot
Register ==
    LET i == FreeSlot IN
    /\ At("register")
    /\ IF i = NoSlot
       THEN /\ mapped' = mapped \ {Innermost.base}
            /\ headers' = headers \ {Innermost.base}
            /\ Refused
            /\ UNCHANGED registry
       ELSE /\ modules' = [modules EXCEPT ![i] = NewModule(Innermost.dll, Innermost.base)]
            /\ module_count' = module_count + 1
            /\ ldr' = Append(ldr, i)
            /\ stack' = [stack EXCEPT ![Len(stack)].pc = "imports", ![Len(stack)].slot = i]
            /\ UNCHANGED <<mapped, headers>>
    /\ UNCHANGED <<files, dll_base_next, image_size, held, attached>>

\* resolve_module_imports is called with depth + 1, and load_dll from there
\* with one more.  A library without imports passes whatever its depth, but the
\* depth is tested first.
TooDeep == Innermost.depth + 1 >= MAX_IMPORT_DEPTH
Descriptor == imports[Innermost.dll][Innermost.next]
MoreImports == Innermost.next <= Len(imports[Innermost.dll])
Present(name) == FindByName(name) # NoSlot \/ name = STUB

CheckDepth ==
    /\ At("imports") /\ TooDeep
    /\ LoadGoto("undo")
    /\ UNCHANGED <<files, registry, memory, held, attached>>

\* Mutant: the walk does not advance over a library that is present
SkipPresentStuck ==
    /\ At("imports") /\ ~TooDeep /\ MoreImports
    /\ Present(Descriptor)
    /\ UNCHANGED loaderVars

SkipPresent ==
    /\ At("imports") /\ ~TooDeep /\ MoreImports
    /\ Present(Descriptor)
    /\ stack' = [stack EXCEPT ![Len(stack)].next = @ + 1]
    /\ UNCHANGED <<files, registry, memory, held, attached>>

LoadImport ==
    /\ At("imports") /\ ~TooDeep /\ MoreImports
    /\ ~Present(Descriptor)
    /\ stack' = Append(stack, Frame(Descriptor, "loader", Innermost.depth + 2))
    /\ UNCHANGED <<files, registry, memory, held, attached>>

\* find_dll_path does not find the next library, or the import directory is
\* malformed, which both passes over it can notice
ImportsFail ==
    /\ At("imports") /\ ~TooDeep
    /\ imports[Innermost.dll] # <<>>
    /\ LoadGoto("undo")
    /\ UNCHANGED <<files, registry, memory, held, attached>>

\* resolve_loader_import: a stub, or an export of the module of that name that
\* the registry finds.  An import that is not found stays as it is.
Bound(dll) ==
    {<<n, modules[FindByName(n)].base>> :
        n \in {m \in Range(imports[dll]) :
                  m # STUB /\ FindByName(m) # NoSlot /\ modules[FindByName(m)].exports}}

\* Mutant: the imports are bound before the libraries they name are loaded
BindEarly ==
    /\ At("imports") /\ ~TooDeep
    /\ modules' = [modules EXCEPT ![Innermost.slot].iat = Bound(Innermost.dll), ![Innermost.slot].exports = TRUE]
    /\ LoadGoto("dllmain")
    /\ UNCHANGED <<files, module_count, ldr, memory, held, attached>>

Bind ==
    /\ At("imports") /\ ~TooDeep /\ ~MoreImports
    /\ modules' = [modules EXCEPT ![Innermost.slot].iat = Bound(Innermost.dll), ![Innermost.slot].exports = TRUE]
    /\ LoadGoto("dllmain")
    /\ UNCHANGED <<files, module_count, ldr, memory, held, attached>>

\* DllMain(DLL_PROCESS_ATTACH) returns TRUE, or FALSE.  It is called in PE32
\* libraries only.
AttachAccepted ==
    /\ At("dllmain")
    /\ modules' = [modules EXCEPT ![Innermost.slot].dllmain_called = is_32bit]
    /\ attached' = IF is_32bit THEN attached \cup {Innermost.base} ELSE attached
    /\ held' = IF Innermost.caller = "guest" THEN [held EXCEPT ![Innermost.base] = @ + 1] ELSE held
    /\ Loaded
    /\ UNCHANGED <<files, module_count, ldr, memory>>

AttachRejected ==
    /\ At("dllmain") /\ is_32bit
    /\ LoadGoto("undo")
    /\ UNCHANGED <<files, registry, memory, held, attached>>

\* Mutant: the image is left mapped
UndoLeaks ==
    /\ At("undo")
    /\ ldr' = LdrWithout(Innermost.slot)
    /\ RemoveModule(Innermost.slot)
    /\ Refused
    /\ UNCHANGED <<files, memory, held, attached>>

\* The clean-up of load_dll.  Libraries loaded for its imports stay.
Undo ==
    /\ At("undo")
    /\ ldr' = LdrWithout(Innermost.slot)
    /\ RemoveModule(Innermost.slot)
    /\ mapped' = mapped \ {Innermost.base}
    /\ headers' = headers \ {Innermost.base}
    /\ Refused
    /\ UNCHANGED <<files, dll_base_next, image_size, held, attached>>

-----------------------------------------------------------------------------
(* The guest's calls *)

GuestRuns == stack = <<>> \/ (At("dllmain") /\ is_32bit)

\* Mutant: a library that is present is not counted again
LoadLibraryUncounted(dll, spelled) ==
    LET i == IF spelled THEN FindByName(dll) ELSE NoSlot IN
    /\ GuestRuns
    /\ IF i # NoSlot
       THEN /\ held[modules[i].base] < MaxHeld
            /\ held' = [held EXCEPT ![modules[i].base] = @ + 1]
            /\ UNCHANGED stack
       ELSE /\ dll_base_next \in Bases
            /\ stack' = Append(stack, Frame(dll, "guest", 0))
            /\ UNCHANGED held
    /\ UNCHANGED <<files, registry, memory, attached>>

\* A name spelled as it was registered is found in the registry.  Another
\* spelling of the file (a path, no extension) is not, and loads a second copy.
LoadLibraryA(dll, spelled) ==
    LET i == IF spelled THEN FindByName(dll) ELSE NoSlot IN
    /\ GuestRuns
    /\ IF i # NoSlot
       THEN /\ held[modules[i].base] < MaxHeld
            /\ modules' = [modules EXCEPT ![i].load_count = @ + 1]
            /\ held' = [held EXCEPT ![modules[i].base] = @ + 1]
            /\ UNCHANGED stack
       ELSE /\ dll_base_next \in Bases
            /\ stack' = Append(stack, Frame(dll, "guest", 0))
            /\ UNCHANGED <<modules, held>>
    /\ UNCHANGED <<files, module_count, ldr, memory, attached>>

Detached(i) == IF modules[i].dllmain_called THEN attached \ {modules[i].base} ELSE attached

\* The guest gives back what it loaded.  A handle that find_module_by_addr does
\* not find is refused.  The copy of the NT headers is not freed.
FreeLibraryA(base) ==
    LET i == FindByAddr(base) IN
    /\ stack = <<>>
    /\ held[base] > 0
    /\ i # NoSlot
    /\ held' = [held EXCEPT ![base] = @ - 1]
    /\ IF modules[i].load_count > 1
       THEN /\ modules' = [modules EXCEPT ![i].load_count = @ - 1]
            /\ UNCHANGED <<module_count, ldr, mapped, attached>>
       ELSE /\ attached' = Detached(i)
            /\ ldr' = LdrWithout(i)
            /\ mapped' = mapped \ {base}
            /\ RemoveModule(i)
    /\ UNCHANGED <<files, headers, dll_base_next, image_size, stack>>

LoaderStep ==
    \/ Map \/ Register \/ CheckDepth \/ SkipPresent \/ LoadImport \/ Bind
    \/ AttachAccepted \/ AttachRejected \/ Undo

LoaderNext ==
    \/ LoaderStep
    \/ ImportsFail
    \/ \E dll \in Dlls, spelled \in BOOLEAN : LoadLibraryA(dll, spelled)
    \/ \E base \in Bases : FreeLibraryA(base)

LoaderSpec == LoaderInit /\ [][LoaderNext]_loaderVars

-----------------------------------------------------------------------------
(* Properties *)

Occupied == {i \in ModuleSlots : modules[i].base # NULL}
NoLoad == stack = <<>>
Loading(b) == \E k \in DOMAIN stack : stack[k].base = b

\* The shape of the state.
LoaderTypeOK ==
    /\ \A i \in ModuleSlots : modules[i].base \in Bases \cup {NULL}
    /\ module_count \in 0 .. MAX_MODULES
    /\ Range(ldr) \subseteq ModuleSlots
    /\ mapped \subseteq Bases /\ headers \subseteq Bases /\ attached \subseteq Bases
    /\ \A k \in DOMAIN stack : stack[k].pc \in {"map", "register", "imports", "dllmain", "undo"}
    /\ held \in [Bases -> 0 .. MaxHeld + 1]

\* The registry, the PEB lists and the address space agree through every failure
\* of load_dll and every order of loads and frees: module_count is the number of
\* modules, the lists hold each of them once and nothing else, a registered module
\* is mapped, two modules are two images, a library whose DllMain was told of the
\* attachment is told of the end before it is unmapped, and between calls no image
\* is left mapped that the registry has forgotten.
RegistryMatchesMemory ==
    /\ LoaderTypeOK
    /\ module_count = Cardinality(Occupied)
    /\ IsInjective(ldr) /\ Range(ldr) = Occupied
    /\ \A i \in Occupied : modules[i].base \in mapped
    /\ \A i, j \in Occupied : i # j => modules[i].base # modules[j].base
    /\ attached \subseteq mapped
    /\ NoLoad => mapped = {modules[i].base : i \in Occupied}

\* A library that loaded successfully stays mapped until the guest has freed it
\* as often as it loaded it, although others import it, fail to load or are freed
\* around it.
KeptWhileHeld ==
    [][\A b \in mapped : held[b] > 0 /\ held'[b] > 0 /\ ~Loading(b) => b \in mapped']_loaderVars

\* A depth-first walk from dll along imports
Reaches(dll) ==
    LET Step(S) == S \cup UNION {Range(imports[d]) \cap Dlls : d \in S}
        f[n \in 0 .. Cardinality(Dlls)] ==
            IF n = 0 THEN Range(imports[dll]) \cap Dlls ELSE Step(f[n - 1])
    IN f[Cardinality(Dlls)]
Acyclic == \A d \in Dlls : d \notin Reaches(d)

\* When imports form no cycle and no DllMain is loading libraries of its own, a
\* library's DllMain runs with every import bound, to an image that is mapped.
ImportsBoundAtAttach ==
    (/\ Acyclic
     /\ At("dllmain")
     /\ \A k \in 1 .. Len(stack) - 1 : stack[k].pc = "imports")
    => \A n \in Range(imports[Innermost.dll]) \cap Dlls :
           \E b \in mapped : <<n, b>> \in modules[Innermost.slot].iat

\* LoadLibraryA returns, also when imports go round in a circle.
LoadReturns == []<>NoLoad

\* The registry tracks all loaded images: one that is mapped can be looked up.
LoadedIsFound == NoLoad => \A i \in Occupied : FindByAddr(modules[i].base) = i
=============================================================================
