------------------------------ MODULE Startup ------------------------------
(***************************************************************************)
(* The start of a guest process, from the command line to the first guest  *)
(* instruction.  The wrapper looks at the file and executes one of two     *)
(* loaders.  my_wine64 (main.c, guest_setup.c) places everything where the *)
(* kernel likes; my_wine32 (pe32_entry.c) uses fixed addresses, so here    *)
(* the address space is modelled: every mapping is an interval of pages,   *)
(* and a MAP_FIXED mapping replaces what was there, as the kernel does.    *)
(* Any mapping may fail.  Mapping and binding the image are                *)
(* ImageMapper's and ImportBinding's, the thunks Dispatcher's.             *)
(***************************************************************************)
EXTENDS Integers

CONSTANTS
    Programs  \* files a user may name: [kind, bytes, commit, entry]

PAGE_SIZE == 4096
Pages(bytes) == (bytes + PAGE_SIZE - 1) \div PAGE_SIZE

\* The fixed addresses of the 32-bit process, in pages.
IMAGE_BASE == 1024            \* 0x00400000
GUEST_STACK_BASE == 1280      \* 0x00500000
GUEST_STACK_SIZE == 128       \* 512 KB, what the dispatcher assumes
SIG_STACK_BASE == 2048        \* 0x00800000
SIG_STACK_SIZE == 16          \* 64 KB
TEB32_FIXED_ADDR == 524254    \* 0x7FFDE000
PEB32_FIXED_ADDR == 524255    \* 0x7FFDF000
UNIX_STACK_SIZE(is32) == IF is32 THEN 32 ELSE 512
AnyAddress == 65536            \* from where on the kernel puts what has no address

\* setup_stack: at least 512 KB, whole pages.
StackBytes(p) ==
    LET commit == IF p.commit < 524288 THEN 524288 ELSE p.commit IN Pages(commit) * PAGE_SIZE

\* What a 32-bit program maps at fixed addresses ends below the area in which
\* the kernel chooses addresses.
ASSUME ProgramsAssumption ==
    \A p \in Programs : /\ p.kind \in {"pe32", "pe64", "other"}
                        /\ p.bytes \in Nat \ {0} /\ p.commit \in Nat
                        /\ p.entry \in {"main", "WinMain"}
                        /\ p.kind = "pe32" => /\ IMAGE_BASE + Pages(p.bytes) <= AnyAddress
                                              /\ GUEST_STACK_BASE + Pages(StackBytes(p)) <= AnyAddress

Null == "null"

VARIABLES
    prog,     \* the file
    spc,      \* the step that comes next
    regions,  \* mapped: name -> [base, pages]
    lost,     \* {<<what was mapped, what replaced it>>}
    teb,      \* fields of the TEB that point somewhere
    peb,      \* fields of the PEB
    cpu0,     \* [gs, fs]: what the selectors show
    glob      \* the loader's globals

startVars == <<prog, spc, regions, lost, teb, peb, cpu0, glob>>

Has32 == glob.is_32bit
Mapped(n) == n \in DOMAIN regions

-----------------------------------------------------------------------------
(* Address space *)

Overlap(r, base, n) == r.base < base + n /\ base < r.base + r.pages
\* mmap with MAP_FIXED: whatever lies there is gone.
MapFixed(name, base, n) ==
    /\ regions' = [x \in DOMAIN regions \cup {name} |->
                     IF x = name THEN [base |-> base, pages |-> n] ELSE regions[x]]
    /\ lost' = lost \cup {<<x, name>> : x \in {y \in DOMAIN regions : Overlap(regions[y], base, n)}}
\* mmap without an address: the kernel takes free pages, in the 32-bit process
\* below the TEB and the PEB.
FreePages ==
    LET below == DOMAIN regions \ (IF Has32 THEN {"teb", "peb"} ELSE {})
        ends == {AnyAddress} \cup {regions[x].base + regions[x].pages : x \in below}
    IN  CHOOSE b \in ends : \A e \in ends : e <= b
MapFree(name, n) == MapFixed(name, FreePages, n)
Unmap(names) ==
    /\ regions' = [x \in DOMAIN regions \ names |-> regions[x]]
    /\ UNCHANGED lost

Exit(status) == spc' = "exit" /\ glob' = [glob EXCEPT !.status = status]
Die(status) == Exit(status) /\ UNCHANGED <<prog, regions, lost, teb, peb, cpu0>>
Goto(step) == spc' = step

-----------------------------------------------------------------------------
(* The wrapper *)

\* detect_pe_type: MZ, the PE signature's two letters and the optional
\* header's magic; anything else, or a file that cannot be read, is no PE.
detect_pe_type(p) == CASE p.kind = "pe32" -> "my_wine32" [] p.kind = "pe64" -> "my_wine64" [] OTHER -> Null

\* wrapper_main.c main: 126 when there is nothing to run or its directory is
\* unknown, 127 when the loader cannot be executed.
Wrapper ==
    /\ spc = "wrapper"
    /\ LET backend == detect_pe_type(prog) IN
       \/ Die(126)     \* no argument, no read access, no /proc/self/exe
       \/ backend # Null /\ Die(127)
       \/ /\ backend # Null
          /\ Goto(IF backend = "my_wine32" THEN "map32" ELSE "map64")
          /\ glob' = [glob EXCEPT !.is_32bit = (backend = "my_wine32")]
          /\ UNCHANGED <<prog, regions, lost, teb, peb, cpu0>>

-----------------------------------------------------------------------------
(* Steps both loaders use *)

StackTop(base, bytes) ==
    LET end == base * PAGE_SIZE + bytes IN
    IF Has32 THEN ((end - 32) \div 16) * 16 ELSE ((end - 24) \div 16) * 16 + 8
setup_stack(next) ==
    LET bytes == StackBytes(prog) n == Pages(bytes) IN
    \/ Die(1)
    \/ /\ IF Has32 THEN MapFixed("stack", GUEST_STACK_BASE, n) ELSE MapFree("stack", n)
       /\ glob' = [glob EXCEPT !.stack_top = StackTop(regions'["stack"].base, bytes), !.stack_size = bytes]
       /\ Goto(next)
       /\ UNCHANGED <<prog, teb, peb, cpu0>>

\* setup_unix_stack: after the image, but not in the guest stack's window and
\* below the signal stack.  Zero stands for no room.
\* Mutant: the window of the guest stack is not looked at.
UnixStackBaseAfterImage ==
    LET after == IMAGE_BASE + Pages(glob.image_size)
    IN  IF after + UNIX_STACK_SIZE(TRUE) > SIG_STACK_BASE THEN 0 ELSE after
UnixStackBase ==
    LET window == GUEST_STACK_BASE + GUEST_STACK_SIZE
        after == IMAGE_BASE + Pages(glob.image_size)
        base == IF after < window /\ after + UNIX_STACK_SIZE(TRUE) > GUEST_STACK_BASE THEN window ELSE after
    IN  IF base + UNIX_STACK_SIZE(TRUE) > SIG_STACK_BASE THEN 0 ELSE base
setup_unix_stack(next) ==
    \/ Die(1)
    \/ /\ Has32 => UnixStackBase # 0
       /\ IF Has32 THEN MapFixed("unix", UnixStackBase, UNIX_STACK_SIZE(TRUE))
                   ELSE MapFree("unix", UNIX_STACK_SIZE(FALSE))
       /\ glob' = [glob EXCEPT !.unix_stack_ptr_val = regions'["unix"].base + regions'["unix"].pages]
       /\ Goto(next)
       /\ UNCHANGED <<prog, teb, peb, cpu0>>

\* install_crash_signal_handlers: without an alternate stack the handlers are
\* installed all the same.
install_crash_signal_handlers(next) ==
    /\ \/ /\ UNCHANGED <<regions, lost>>
          /\ glob' = [glob EXCEPT !.handlers = TRUE, !.alt_stack = FALSE]
       \/ /\ IF Has32 THEN MapFixed("signal", SIG_STACK_BASE, SIG_STACK_SIZE) ELSE MapFree("signal", SIG_STACK_SIZE)
          /\ \E ok \in BOOLEAN :   \* sigaltstack's result counts in my_wine32 only
                glob' = [glob EXCEPT !.handlers = TRUE, !.alt_stack = ok \/ ~Has32]
    /\ Goto(next)
    /\ UNCHANGED <<prog, teb, peb, cpu0>>

-----------------------------------------------------------------------------
(* my_wine64: main.c init_loader, then guest_setup.c setup_guest_and_run *)

\* Everything that can go wrong before the image is mapped ends the loader.
MapImage64 ==
    /\ spc = "map64"
    /\ \/ Die(1)
       \/ /\ prog.kind # "other"
          /\ MapFree("image", Pages(prog.bytes))
          /\ glob' = [glob EXCEPT !.image_size = prog.bytes]
          /\ Goto(IF prog.kind = "pe32" THEN "reject64" ELSE "bind64")
          /\ UNCHANGED <<prog, teb, peb, cpu0>>

RejectPe32 ==
    /\ spc = "reject64"
    /\ Unmap({"image"})
    /\ spc' = "exit"
    /\ glob' = [glob EXCEPT !.status = 1, !.refused = TRUE]
    /\ UNCHANGED <<prog, teb, peb, cpu0>>

\* patch_crt_refptrs and resolve_imports, whose result is not looked at.
ResolveImports64 ==
    /\ spc = "bind64"
    /\ \E ok \in BOOLEAN : glob' = [glob EXCEPT !.bound = ok]
    /\ Goto("teb64")
    /\ UNCHANGED <<prog, regions, lost, teb, peb, cpu0>>

alloc_teb ==
    /\ spc = "teb64"
    /\ \/ Die(1)
       \/ MapFree("teb", 1) /\ teb' = [teb EXCEPT !.self = "teb"] /\ Goto("peb64") /\ UNCHANGED <<prog, peb, cpu0, glob>>

alloc_peb ==
    /\ spc = "peb64"
    /\ \/ Unmap({"teb"}) /\ Exit(1) /\ UNCHANGED <<prog, teb, peb, cpu0>>
       \/ MapFree("peb", 1) /\ Goto("wire64") /\ UNCHANGED <<prog, teb, peb, cpu0, glob>>

\* wire_peb_fields fails only for a PE32 image, which init_loader has refused;
\* a heap or a loader list that cannot be made is a null field.
wire_peb_fields ==
    /\ spc = "wire64"
    /\ \E heap \in {"heap", Null}, ldr \in {"ldr", Null} :
          /\ peb' = [peb EXCEPT !.image = "image", !.heap = heap, !.ldr = ldr]
          /\ glob' = [glob EXCEPT !.main_linked = (ldr # Null)]
    /\ teb' = [teb EXCEPT !.peb = "peb"]
    /\ Goto("stack64")
    /\ UNCHANGED <<prog, regions, lost, cpu0>>

SetupStack64 == spc = "stack64" /\ setup_stack("seed64")

\* The .data tail, argc/argv/envp in .bss, the guest's argument vector (static
\* storage) and the entry point.
SeedGuest64 ==
    /\ spc = "seed64"
    /\ glob' = [glob EXCEPT !.argv = TRUE]
    /\ Goto("signals64")
    /\ UNCHANGED <<prog, regions, lost, teb, peb, cpu0>>

Signals64 == spc = "signals64" /\ install_crash_signal_handlers("thunks64")

\* setup_seh_and_thunks drops the result of generate_all_thunks.
Thunks64 ==
    /\ spc = "thunks64"
    /\ \/ UNCHANGED <<regions, lost, glob>>
       \/ MapFree("thunks", 1) /\ glob' = [glob EXCEPT !.thunks = TRUE]
    /\ Goto("unix64")
    /\ UNCHANGED <<prog, teb, peb, cpu0>>
UnixStack64 == spc = "unix64" /\ setup_unix_stack("patch64")

\* parse_pe_headers leaves nt null when there is no memory, and
\* apply_final_patches follows it: the crash handler ends the process.
FinalPatches ==
    /\ spc = "patch64"
    /\ \/ Die(139)
       \/ Goto("gs64") /\ UNCHANGED <<prog, regions, lost, teb, peb, cpu0, glob>>

\* set_gs_base: the new base and whether it reports success.  arch_prctl may
\* refuse, or answer 0 and do nothing; reading back may fail or be right;
\* wrgsbase may be without effect.
Readings == {r \in [rc : {0, -1}, base : {"teb", "host"}, got : {"teb", "host", "error"}, gs : {"teb", "host"}] :
                /\ r.rc = -1 => r.base = "host"
                /\ r.got # "error" => r.got = r.base
                /\ r.base = "teb" => r.gs = "teb"}
set_gs_base ==
    {IF r.rc = 0 /\ r.got = "teb" THEN [gs |-> r.base, ok |-> TRUE] ELSE [gs |-> r.gs, ok |-> r.gs = "teb"] : r \in Readings}

\* The host's base is read before it is replaced.
finalize_guest_state ==
    /\ spc = "gs64"
    /\ \E r \in set_gs_base :
          /\ cpu0' = [cpu0 EXCEPT !.gs = r.gs]
          /\ glob' = [glob EXCEPT !.host_gs_base = cpu0.gs, !.status = IF r.ok THEN @ ELSE 1]
          /\ teb' = [teb EXCEPT !.seh = IF r.ok THEN "crash handler" ELSE @]
          /\ Goto(IF r.ok THEN "jump64" ELSE "exit")
    /\ UNCHANGED <<prog, regions, lost, peb>>

\* ExitProcess is always in the import table; run_guest takes the top as rsp
\* and its call pushes the return address.
jump_to_guest ==
    /\ spc = "jump64"
    /\ glob' = [glob EXCEPT !.sp = glob.stack_top - 8, !.frame = 8]
    /\ Goto("guest")
    /\ UNCHANGED <<prog, regions, lost, teb, peb, cpu0>>

-----------------------------------------------------------------------------
(* my_wine32: pe32_entry.c main *)

MapImage32 ==
    /\ spc = "map32"
    /\ \/ Die(1)
       \/ /\ prog.kind = "pe64"
          /\ spc' = "exit"
          /\ glob' = [glob EXCEPT !.status = 1, !.refused = TRUE]
          /\ UNCHANGED <<prog, regions, lost, teb, peb, cpu0>>
       \/ /\ prog.kind = "pe32"
          /\ MapFixed("image", IMAGE_BASE, Pages(prog.bytes))
          /\ glob' = [glob EXCEPT !.image_size = prog.bytes]
          /\ Goto("bind32")
          /\ UNCHANGED <<prog, teb, peb, cpu0>>

\* pe32_activate_crt, pe32_resolve_imports_or_exit and the entry point.
ResolveImports32 ==
    /\ spc = "bind32"
    /\ \/ Die(1)
       \/ /\ glob' = [glob EXCEPT !.bound = TRUE]
          /\ Goto("peb32")
          /\ UNCHANGED <<prog, regions, lost, teb, peb, cpu0>>

pe32_init_peb_or_exit ==
    /\ spc = "peb32"
    /\ \/ Die(1)
       \/ /\ MapFixed("peb", PEB32_FIXED_ADDR, 1)
          /\ peb' = [peb EXCEPT !.image = "image"]
          /\ Goto("teb32")
          /\ UNCHANGED <<prog, teb, cpu0, glob>>

\* Mutant: the TEB's pointer to the PEB is left out.
pe32_init_teb_without_peb ==
    /\ spc = "teb32"
    /\ \/ Die(1)
       \/ /\ MapFixed("teb", TEB32_FIXED_ADDR, 1)
          /\ teb' = [teb EXCEPT !.self = "teb", !.seh = "crash handler"]
          /\ Goto("heap32")
          /\ UNCHANGED <<prog, peb, cpu0, glob>>

pe32_init_teb_or_exit ==
    /\ spc = "teb32"
    /\ \/ Die(1)
       \/ /\ MapFixed("teb", TEB32_FIXED_ADDR, 1)
          /\ teb' = [teb EXCEPT !.self = "teb", !.peb = "peb", !.seh = "crash handler"]
          /\ Goto("heap32")
          /\ UNCHANGED <<prog, peb, cpu0, glob>>

\* wire_peb32_fields: each part does without what it cannot have.
wire_peb32_heap ==
    /\ spc = "heap32"
    /\ \E heap \in {"heap", Null} : peb' = [peb EXCEPT !.heap = heap]
    /\ Goto("params32")
    /\ UNCHANGED <<prog, regions, lost, teb, cpu0, glob>>
wire_peb32_params ==
    /\ spc = "params32"
    /\ \/ UNCHANGED <<regions, lost, peb>>
       \/ MapFree("params", 1) /\ peb' = [peb EXCEPT !.params = "params"]
    /\ Goto("ldr32")
    /\ UNCHANGED <<prog, teb, cpu0, glob>>
wire_peb32_ldr ==
    /\ spc = "ldr32"
    /\ \/ UNCHANGED <<regions, lost, peb, glob>>
       \/ /\ MapFree("ldr", 1)
          /\ peb' = [peb EXCEPT !.ldr = "ldr"]
          /\ glob' = [glob EXCEPT !.main_linked = TRUE]
    /\ Goto("stack32")
    /\ UNCHANGED <<prog, teb, cpu0>>

SetupStack32 == spc = "stack32" /\ setup_stack("unix32")
UnixStack32 == spc = "unix32" /\ setup_unix_stack("thunks32")
Thunks32 ==
    /\ spc = "thunks32"
    /\ \/ Die(1)
       \/ /\ MapFree("thunks", 1)
          /\ glob' = [glob EXCEPT !.thunks = TRUE]
          /\ Goto("signals32")
          /\ UNCHANGED <<prog, teb, peb, cpu0>>
Signals32 == spc = "signals32" /\ install_crash_signal_handlers("argv32")

ensure_argv_setup ==
    /\ spc = "argv32"
    /\ \/ Die(1)
       \/ /\ MapFree("argv", 1)
          /\ glob' = [glob EXCEPT !.argv = TRUE]
          /\ Goto("jump32")
          /\ UNCHANGED <<prog, teb, peb, cpu0>>

\* The frame lies at the aligned top minus 4: a return address with argc, argv
\* and envp, or with WinMain's four arguments.  A failing set_thread_area is
\* reported and the guest is entered all the same.
pe32_setup_fs_and_jump ==
    /\ spc = "jump32"
    /\ glob' = [glob EXCEPT !.sp = (glob.stack_top \div 16) * 16 - 4, !.host_fs = cpu0.fs,
                            !.frame = IF prog.entry = "main" THEN 16 ELSE 20]
    /\ \E fs \in {"teb", cpu0.fs} : cpu0' = [cpu0 EXCEPT !.fs = fs]
    /\ Goto("guest")
    /\ UNCHANGED <<prog, regions, lost, teb, peb>>

-----------------------------------------------------------------------------
NoGlobals == [is_32bit |-> FALSE, image_size |-> 0, bound |-> FALSE, main_linked |-> FALSE, stack_top |-> 0,
              stack_size |-> 0, unix_stack_ptr_val |-> 0, handlers |-> FALSE, alt_stack |-> TRUE, thunks |-> FALSE,
              argv |-> FALSE, host_gs_base |-> Null, host_fs |-> Null, sp |-> 0, frame |-> 0, status |-> 0,
              refused |-> FALSE, via |-> "wrapper"]

\* A user starts the wrapper, or one of the loaders directly.
StartInit ==
    /\ prog \in Programs
    /\ regions = [x \in {} |-> 0] /\ lost = {}
    /\ teb = [self |-> Null, peb |-> Null, seh |-> Null]
    /\ peb = [image |-> Null, heap |-> Null, ldr |-> Null, params |-> Null]
    /\ cpu0 = [gs |-> "host", fs |-> "host"]
    /\ spc \in {"wrapper", "map32", "map64"}
    /\ glob = [NoGlobals EXCEPT !.via = IF spc = "wrapper" THEN "wrapper" ELSE "user", !.is_32bit = (spc = "map32")]

StartNext ==
    \/ Wrapper
    \/ MapImage64 \/ RejectPe32 \/ ResolveImports64 \/ alloc_teb \/ alloc_peb \/ wire_peb_fields \/ SetupStack64
    \/ SeedGuest64 \/ Signals64 \/ Thunks64 \/ UnixStack64 \/ FinalPatches \/ finalize_guest_state \/ jump_to_guest
    \/ MapImage32 \/ ResolveImports32 \/ pe32_init_peb_or_exit \/ pe32_init_teb_or_exit \/ wire_peb32_heap
    \/ wire_peb32_params \/ wire_peb32_ldr \/ SetupStack32 \/ UnixStack32 \/ Thunks32 \/ Signals32
    \/ ensure_argv_setup \/ pe32_setup_fs_and_jump

StartSpec == StartInit /\ [][StartNext]_startVars

-----------------------------------------------------------------------------
(* Properties *)

\* Fixed mappings of my_wine32 replace nothing, except the two whose sizes
\* setup_stack takes from the file: an image that ends above 0x00500000 loses
\* pages to the guest stack, and a stack larger than the 512 KB that
\* setup_unix_stack reckons with loses pages to the UNIX or the signal stack.
\* In particular the UNIX stack never lies on the image and the signal stack
\* never on the UNIX stack, whatever the size of the image.
LayoutKept ==
    \A l \in lost :
       \/ l = <<"image", "stack">> /\ IMAGE_BASE + Pages(prog.bytes) > GUEST_STACK_BASE
       \/ l \in {<<"stack", "unix">>, <<"stack", "signal">>} /\ prog.commit > GUEST_STACK_SIZE * PAGE_SIZE

\* The first frame, written by pe32_setup_fs_and_jump or pushed by run_guest,
\* lies inside the guest stack; a 32-bit entry finds it where an i386 call
\* would have left it.
EntryFrame ==
    spc = "guest" =>
       /\ glob.sp >= regions["stack"].base * PAGE_SIZE
       /\ glob.sp + glob.frame <= regions["stack"].base * PAGE_SIZE + glob.stack_size
       /\ Has32 => (glob.sp + 4) % 16 = 0

\* A guest that runs has what it was promised: a TEB and a PEB that point to
\* each other and to the image, arguments, crash handlers and a UNIX stack for
\* its system calls, in my_wine32 also bound imports and thunks; none of them
\* was replaced by a later mapping.
GuestProvided ==
    spc = "guest" =>
       /\ teb = [self |-> "teb", peb |-> "peb", seh |-> "crash handler"]
       /\ peb.image = "image" /\ (peb.ldr # Null <=> glob.main_linked)
       /\ glob.handlers /\ glob.argv
       /\ {"image", "teb", "peb", "stack", "unix"} \subseteq DOMAIN regions
       /\ glob.unix_stack_ptr_val = regions["unix"].base + UNIX_STACK_SIZE(Has32)
       /\ Has32 => glob.bound /\ glob.thunks /\ "argv" \in DOMAIN regions
       /\ \A l \in lost : l[1] \in {"image", "stack"}

\* Whatever arch_prctl and wrgsbase do, a 64-bit guest only runs with GS on
\* its TEB, and the base that call_on_unix_stack will restore is the host's.
TebSelected ==
    spc = "guest" =>
       IF Has32 THEN glob.host_fs = "host"
                ELSE cpu0.gs = "teb" /\ glob.host_gs_base = "host"

\* The wrapper never starts the loader that will refuse the file's type.
RightLoader == glob.refused => glob.via = "user"

\* setup_teb_peb leaves both blocks or none.
TebWithPeb ==
    spc = "exit" => (Mapped("peb") => (~Has32 => Mapped("teb"))) /\ (Mapped("teb") => Mapped("peb"))

\* Start-up ends in a guest that has everything it was promised, its TEB selected
\* and its first frame in its stack, or in an exit that leaves no half-made block,
\* whatever mapping or system call failed on the way.
GuestStarts == RightLoader /\ EntryFrame /\ GuestProvided /\ TebSelected /\ TebWithPeb
=============================================================================
