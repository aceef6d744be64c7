--------------------------- MODULE StartupProofs ---------------------------
(***************************************************************************)
(* The start of a guest process (Startup): for every program and whatever  *)
(* mapping or system call fails, no mapping of the loaders replaces        *)
(* another but where the sizes in the file make it, and a guest that is    *)
(* entered has what it was promised.                                       *)
(***************************************************************************)
EXTENDS Startup, NumberLemmas

-----------------------------------------------------------------------------
(* The inductive invariant *)

Labels32 == {"map32", "bind32", "peb32", "teb32", "heap32", "params32", "ldr32", "stack32", "unix32",
             "thunks32", "signals32", "argv32", "jump32"}
Labels64 == {"map64", "reject64", "bind64", "teb64", "peb64", "wire64", "stack64", "seed64",
             "signals64", "thunks64", "unix64", "patch64", "gs64", "jump64"}
RegionNames == {"image", "teb", "peb", "stack", "unix", "signal", "thunks", "params", "ldr", "argv"}
Region == [base : Nat, pages : Nat \ {0}]
GlobalFields == {"is_32bit", "image_size", "bound", "main_linked", "stack_top", "stack_size",
                 "unix_stack_ptr_val", "handlers", "alt_stack", "thunks", "argv", "host_gs_base",
                 "host_fs", "sp", "frame", "status", "refused", "via"}

Shape ==
    /\ prog \in Programs
    /\ spc \in {"wrapper", "exit", "guest"} \cup Labels32 \cup Labels64
    /\ DOMAIN regions \subseteq RegionNames /\ regions \in [DOMAIN regions -> Region]
    /\ glob = [f \in GlobalFields |-> glob[f]]
    /\ teb = [f \in {"self", "peb", "seh"} |-> teb[f]]
    /\ peb = [f \in {"image", "heap", "ldr", "params"} |-> peb[f]]
    /\ cpu0 = [f \in {"gs", "fs"} |-> cpu0[f]]

\* Which loader runs, on what, and who started it
Loader ==
    /\ spc \in Labels32 => Has32
    /\ spc \in Labels64 \cup {"wrapper"} => ~Has32
    /\ spc = "wrapper" => glob.via = "wrapper"
    /\ spc \in Labels32 => prog.kind = "pe32" \/ (spc = "map32" /\ glob.via = "user")
    /\ spc \in Labels64 => prog.kind = "pe64" \/ glob.via = "user"
    /\ spc = "reject64" => prog.kind = "pe32"
    /\ glob.refused => glob.via = "user"

\* What is mapped before each step: the names of must, and some of may
Holds(must, may) == must \subseteq DOMAIN regions /\ DOMAIN regions \subseteq must \cup may
Existing ==
    /\ spc \in {"wrapper", "map32", "map64"} => DOMAIN regions = {}
    /\ spc \in {"bind32", "peb32", "reject64", "bind64", "teb64"} => Holds({"image"}, {})
    /\ spc = "teb32" => Holds({"image", "peb"}, {})
    /\ spc = "peb64" => Holds({"image", "teb"}, {})
    /\ spc \in {"heap32", "params32", "wire64", "stack64"} => Holds({"image", "peb", "teb"}, {})
    /\ spc = "ldr32" => Holds({"image", "peb", "teb"}, {"params"})
    /\ spc = "stack32" => Holds({"image", "peb", "teb"}, {"params", "ldr"})
    /\ spc = "unix32" => Holds({"image", "peb", "teb", "stack"}, {"params", "ldr"})
    /\ spc = "thunks32" => Holds({"image", "peb", "teb", "stack", "unix"}, {"params", "ldr"})
    /\ spc = "signals32" => Holds({"image", "peb", "teb", "stack", "unix", "thunks"}, {"params", "ldr"})
    /\ spc = "argv32" => Holds({"image", "peb", "teb", "stack", "unix", "thunks"}, {"params", "ldr", "signal"})
    /\ spc = "jump32" => {"image", "peb", "teb", "stack", "unix", "argv"} \subseteq DOMAIN regions
    /\ spc \in {"seed64", "signals64", "thunks64", "unix64"} =>
           {"image", "peb", "teb", "stack"} \subseteq DOMAIN regions
    /\ spc \in {"patch64", "gs64", "jump64", "guest"} =>
           {"image", "peb", "teb", "stack", "unix"} \subseteq DOMAIN regions
    /\ spc = "guest" /\ Has32 => "argv" \in DOMAIN regions
    /\ spc # "peb64" /\ Mapped("teb") => Mapped("peb")
    /\ ~Has32 /\ Mapped("peb") => Mapped("teb")

\* Where the 32-bit process has its mappings: those whose address the kernel
\* chose lie above the fixed ones and below the TEB
Chosen == {"params", "ldr", "thunks", "argv"}
Ceiling ==
    IF spc \in {"map32", "bind32", "peb32", "teb32", "heap32", "params32"} THEN AnyAddress
    ELSE IF spc = "ldr32" THEN AnyAddress + 1
    ELSE IF spc \in {"stack32", "unix32", "thunks32"} THEN AnyAddress + 2
    ELSE IF spc \in {"signals32", "argv32"} THEN AnyAddress + 3
    ELSE AnyAddress + 4
At(name, base, n) == Mapped(name) => regions[name] = [base |-> base, pages |-> n]
Layout32 ==
    Has32 => /\ At("image", IMAGE_BASE, Pages(prog.bytes))
             /\ At("peb", PEB32_FIXED_ADDR, 1)
             /\ At("teb", TEB32_FIXED_ADDR, 1)
             /\ At("stack", GUEST_STACK_BASE, Pages(StackBytes(prog)))
             /\ At("unix", UnixStackBase, UNIX_STACK_SIZE(TRUE))
             /\ Mapped("unix") => UnixStackBase # 0
             /\ At("signal", SIG_STACK_BASE, SIG_STACK_SIZE)
             /\ \A x \in Chosen \cap DOMAIN regions : /\ regions[x].base >= AnyAddress
                                                     /\ regions[x].base + regions[x].pages <= Ceiling
             /\ Mapped("image") => glob.image_size = prog.bytes

\* Nothing was replaced that may not be
Kept == LayoutKept /\ (~Has32 => lost = {})

\* The stacks as the loader recorded them
StackRecorded ==
    /\ glob.stack_size = StackBytes(prog)
    /\ glob.stack_top = StackTop(regions["stack"].base, glob.stack_size)
UnixRecorded == glob.unix_stack_ptr_val = regions["unix"].base + UNIX_STACK_SIZE(Has32)

\* The fields of TEB, PEB and processor that each step relies on
Fields64 ==
    /\ spc \in Labels64 \ {"jump64"} => cpu0.gs = "host"
    /\ spc \in {"peb64", "wire64"} => teb.self = "teb"
    /\ spc \in {"stack64", "seed64", "signals64", "thunks64", "unix64", "patch64", "gs64", "jump64", "guest"}
           => teb.self = "teb" /\ teb.peb = "peb" /\ peb.image = "image"
    /\ spc \in {"seed64", "signals64", "thunks64", "unix64", "patch64", "gs64", "jump64", "guest"}
           => StackRecorded
    /\ spc \in {"signals64", "thunks64", "unix64", "patch64", "gs64", "jump64", "guest"} => glob.argv
    /\ spc \in {"thunks64", "unix64", "patch64", "gs64", "jump64", "guest"} => glob.handlers
    /\ spc \in {"patch64", "gs64", "jump64", "guest"} => UnixRecorded
    /\ spc \in {"jump64", "guest"} =>
           teb.seh = "crash handler" /\ cpu0.gs = "teb" /\ glob.host_gs_base = "host"
    /\ spc = "guest" => glob.sp = glob.stack_top - 8 /\ glob.frame = 8
Fields32 ==
    /\ spc \in Labels32 => cpu0.fs = "host"
    /\ spc \in {"peb32", "teb32", "heap32", "params32", "ldr32", "stack32", "unix32", "thunks32",
                "signals32", "argv32", "jump32", "guest"} => glob.bound
    /\ spc \in {"teb32", "heap32", "params32", "ldr32", "stack32", "unix32", "thunks32",
                "signals32", "argv32", "jump32", "guest"} => peb.image = "image"
    /\ spc \in {"heap32", "params32", "ldr32", "stack32", "unix32", "thunks32",
                "signals32", "argv32", "jump32", "guest"}
           => teb.self = "teb" /\ teb.peb = "peb" /\ teb.seh = "crash handler"
    /\ spc \in {"unix32", "thunks32", "signals32", "argv32", "jump32", "guest"} => StackRecorded
    /\ spc \in {"thunks32", "signals32", "argv32", "jump32", "guest"} => UnixRecorded
    /\ spc \in {"signals32", "argv32", "jump32", "guest"} => glob.thunks
    /\ spc \in {"argv32", "jump32", "guest"} => glob.handlers
    /\ spc \in {"jump32", "guest"} => glob.argv
    /\ spc = "guest" => /\ glob.host_fs = "host" /\ glob.frame \in {16, 20}
                        /\ glob.sp = (glob.stack_top \div 16) * 16 - 4
Fields ==
    /\ (peb.ldr # Null) <=> glob.main_linked
    /\ spc \in {"wrapper", "map32", "map64"} => peb.ldr = Null /\ cpu0.gs = "host" /\ cpu0.fs = "host"
    /\ Has32 => Fields32
    /\ ~Has32 => Fields64

StartInv == Shape /\ Loader /\ Existing /\ Layout32 /\ Kept /\ Fields

-----------------------------------------------------------------------------
(* Sizes *)

\* Pages rounds up: something takes at least one page, and no more than that
\* many bytes can lie in it.
LEMMA PagesRoundUp ==
    ASSUME NEW b \in Nat
    PROVE  /\ Pages(b) \in Nat
           /\ b > 0 => Pages(b) > 0
           /\ Pages(b * PAGE_SIZE) = b
BY DEF Pages, PAGE_SIZE

\* setup_stack reserves whole pages, 128 of them unless the file asks for more
\* than 512 KB.
LEMMA StackPages ==
    ASSUME NEW p, p.commit \in Nat
    PROVE  /\ StackBytes(p) \in Nat /\ StackBytes(p) >= 524288
           /\ Pages(StackBytes(p)) \in Nat /\ Pages(StackBytes(p)) * PAGE_SIZE = StackBytes(p)
           /\ Pages(StackBytes(p)) >= GUEST_STACK_SIZE
           /\ p.commit <= GUEST_STACK_SIZE * PAGE_SIZE => Pages(StackBytes(p)) = GUEST_STACK_SIZE
<1> DEFINE c == IF p.commit < 524288 THEN 524288 ELSE p.commit
<1>1. c \in Nat /\ c >= 524288 /\ (p.commit <= 524288 => c = 524288)
  OBVIOUS
<1>2. StackBytes(p) = Pages(c) * PAGE_SIZE
  BY DEF StackBytes
<1> HIDE DEF c
<1>3. Pages(c) \in Nat /\ Pages(c) >= 128 /\ (c = 524288 => Pages(c) = 128)
  BY <1>1 DEF Pages, PAGE_SIZE
<1>4. Pages(StackBytes(p)) = Pages(c)
  BY <1>2, <1>3, PagesRoundUp
<1> QED
  BY <1>1, <1>2, <1>3, <1>4 DEF PAGE_SIZE, GUEST_STACK_SIZE

-----------------------------------------------------------------------------
(* The address space *)

\* mmap at an address: the mapping is there, every other one is where it was,
\* and only mappings that it overlaps are lost.
LEMMA MapFixedEffect ==
    ASSUME Shape, NEW name \in RegionNames, NEW base \in Nat, NEW n \in Nat \ {0}, MapFixed(name, base, n)
    PROVE  /\ DOMAIN regions' = DOMAIN regions \cup {name}
           /\ DOMAIN regions' \subseteq RegionNames /\ regions' \in [DOMAIN regions' -> Region]
           /\ regions'[name] = [base |-> base, pages |-> n]
           /\ \A x \in DOMAIN regions : x # name => regions'[x] = regions[x]
           /\ \A l \in lost' : l \in lost \/ \E x \in DOMAIN regions : l = <<x, name>> /\ Overlap(regions[x], base, n)
           /\ lost \subseteq lost'
<1>1. /\ DOMAIN regions' = DOMAIN regions \cup {name}
      /\ regions'[name] = [base |-> base, pages |-> n]
      /\ \A x \in DOMAIN regions : x # name => regions'[x] = regions[x]
  BY DEF MapFixed
<1>2. regions' \in [DOMAIN regions' -> Region]
  BY <1>1 DEF MapFixed, Shape, Region
<1> QED
  BY <1>1, <1>2 DEF MapFixed, Shape

\* mmap without an address chooses pages above every mapping, in the 32-bit
\* process above all but the TEB and the PEB.
LEMMA FreePagesAbove ==
    ASSUME Shape
    PROVE  /\ FreePages \in Nat /\ FreePages >= AnyAddress
           /\ \A x \in DOMAIN regions \ (IF Has32 THEN {"teb", "peb"} ELSE {}) :
                 regions[x].base + regions[x].pages <= FreePages
           /\ \/ FreePages = AnyAddress
              \/ \E x \in DOMAIN regions \ (IF Has32 THEN {"teb", "peb"} ELSE {}) :
                    FreePages = regions[x].base + regions[x].pages
<1> DEFINE below == DOMAIN regions \ (IF Has32 THEN {"teb", "peb"} ELSE {})
           ends == {AnyAddress} \cup {regions[x].base + regions[x].pages : x \in below}
           E(x) == IF x \in below THEN regions[x].base + regions[x].pages ELSE 0
           b == AnyAddress + (E("image") + E("teb") + E("peb") + E("stack") + E("unix") + E("signal")
                              + E("thunks") + E("params") + E("ldr") + E("argv"))
<1>1. below \subseteq RegionNames /\ \A x \in below : regions[x].base + regions[x].pages \in Nat
  BY DEF Shape, Region
<1> HIDE DEF below
<1>2. \A x \in RegionNames : E(x) \in Nat
  BY <1>1
<1>3. \A x \in below : regions[x].base + regions[x].pages = E(x)
  OBVIOUS
<1> HIDE DEF E
<1>4. b \in Nat /\ \A x \in RegionNames : E(x) <= b
  BY <1>2 DEF RegionNames, AnyAddress
<1>5. ends \in SUBSET Nat /\ ends # {} /\ \A e \in ends : e <= b
  BY <1>1, <1>2, <1>3, <1>4 DEF AnyAddress, RegionNames
<1> HIDE DEF b
<1>6. \E m \in ends : \A e \in ends : e <= m
  BY <1>4, <1>5, GreatestNatural, Zenon
<1>7. FreePages = CHOOSE m \in ends : \A e \in ends : e <= m
  BY DEF FreePages, below
<1> HIDE DEF ends
<1>8. FreePages \in ends /\ \A e \in ends : e <= FreePages
  BY <1>6, <1>7
<1> QED
  BY <1>5, <1>8 DEF ends, below
-----------------------------------------------------------------------------
(* Steps *)

\* A step that maps nothing leaves the layout as it is.
LEMMA QuietLayout ==
    ASSUME StartInv, UNCHANGED <<prog, regions, lost>>,
           glob'.is_32bit = glob.is_32bit, glob'.image_size = glob.image_size, Ceiling <= Ceiling'
    PROVE  Layout32' /\ Kept'
<1>1. UnixStackBase' = UnixStackBase
  BY DEF UnixStackBase
<1>2. \A x \in Chosen \cap DOMAIN regions : regions[x].base + regions[x].pages \in Nat
  BY DEF StartInv, Shape, Region
<1>3. Ceiling \in Nat /\ Ceiling' \in Nat
  BY DEF Ceiling, AnyAddress
<1>4. Layout32'
  BY <1>1, <1>2, <1>3 DEF StartInv, Layout32, At, Mapped, Has32, Chosen
<1>5. Kept'
  BY DEF StartInv, Kept, LayoutKept, Has32
<1> QED
  BY <1>4, <1>5

\* Where the process gives up, nothing is left to keep but what lies mapped;
\* only between alloc_teb and alloc_peb would it leave a TEB alone.
LEMMA DieKeeps ==
    ASSUME StartInv, NEW status, Die(status), spc # "peb64"
    PROVE  StartInv'
<1> USE DEF StartInv, Die, Exit
<1>1. Shape'
  BY DEF Shape, GlobalFields
<1>2. glob'.is_32bit = glob.is_32bit /\ glob'.refused = glob.refused /\ glob'.via = glob.via
      /\ glob'.main_linked = glob.main_linked /\ glob'.image_size = glob.image_size
  BY DEF Shape, GlobalFields
<1>3. Loader'
  BY <1>2 DEF Loader, Labels32, Labels64
<1>4. Existing'
  BY <1>2 DEF Existing, Mapped, Has32
<1>5. Ceiling <= Ceiling'
  BY DEF Ceiling, AnyAddress
<1>6. Layout32' /\ Kept'
  BY <1>2, <1>5, QuietLayout
<1>7. Fields'
  BY <1>2, Zenon DEF Fields, Fields32, Fields64, Has32, Labels32, Labels64
<1> QED
  BY <1>1, <1>3, <1>4, <1>6, <1>7

\* setup_unix_stack's address, when there is room: after the image, below the
\* signal stack, and outside the 512 KB of the guest stack.
LEMMA UnixStackPlace ==
    ASSUME glob.image_size \in Nat, UnixStackBase # 0
    PROVE  /\ UnixStackBase \in Nat /\ UnixStackBase + 32 <= SIG_STACK_BASE
           /\ IMAGE_BASE + Pages(glob.image_size) <= UnixStackBase
           /\ \/ GUEST_STACK_BASE + GUEST_STACK_SIZE <= UnixStackBase
              \/ UnixStackBase + 32 <= GUEST_STACK_BASE
<1> DEFINE after == IMAGE_BASE + Pages(glob.image_size)
<1>1. after \in Nat
  BY PagesRoundUp DEF IMAGE_BASE
<1>2. UnixStackBase = IF (IF after < 1408 /\ after + 32 > 1280 THEN 1408 ELSE after) + 32 > 2048 THEN 0
                      ELSE IF after < 1408 /\ after + 32 > 1280 THEN 1408 ELSE after
  BY <1>1 DEF UnixStackBase, SIG_STACK_BASE, GUEST_STACK_BASE, GUEST_STACK_SIZE, UNIX_STACK_SIZE
<1> HIDE DEF after
<1>3. /\ UnixStackBase \in Nat /\ UnixStackBase + 32 <= 2048 /\ after <= UnixStackBase
      /\ 1408 <= UnixStackBase \/ UnixStackBase + 32 <= 1280
  BY <1>1, <1>2
<1> QED
  BY <1>3 DEF after, SIG_STACK_BASE, GUEST_STACK_BASE, GUEST_STACK_SIZE

\* In the 64-bit loader every mapping goes where the kernel finds room.
LEMMA FreeMapping64 ==
    ASSUME StartInv, ~Has32, NEW name \in RegionNames, NEW n \in Nat \ {0}, MapFree(name, n),
           prog' = prog, ~Has32'
    PROVE  /\ Layout32' /\ Kept'
           /\ DOMAIN regions' = DOMAIN regions \cup {name}
           /\ DOMAIN regions' \subseteq RegionNames /\ regions' \in [DOMAIN regions' -> Region]
           /\ regions'[name].base \in Nat /\ regions'[name].pages = n
           /\ \A x \in DOMAIN regions : x # name => regions'[x] = regions[x]
<1> USE DEF StartInv
<1>1. /\ FreePages \in Nat
      /\ \A x \in DOMAIN regions : regions[x].base + regions[x].pages <= FreePages
  BY FreePagesAbove
<1>2. MapFixed(name, FreePages, n)
  BY DEF MapFree
<1>3. \A x \in DOMAIN regions : ~Overlap(regions[x], FreePages, n)
  BY <1>1 DEF Overlap, Shape, Region
<1>4. lost' = {}
  BY <1>2, <1>3 DEF MapFixed, Kept
<1>5. Layout32' /\ Kept'
  BY <1>4, Zenon DEF Layout32, Kept, LayoutKept
<1>6. /\ DOMAIN regions' = DOMAIN regions \cup {name}
      /\ DOMAIN regions' \subseteq RegionNames /\ regions' \in [DOMAIN regions' -> Region]
      /\ regions'[name] = [base |-> FreePages, pages |-> n]
      /\ \A x \in DOMAIN regions : x # name => regions'[x] = regions[x]
  BY <1>1, <1>2, MapFixedEffect, Zenon
<1> QED
  BY <1>1, <1>5, <1>6

\* In the 32-bit loader the pages that the kernel chooses lie between the fixed
\* mappings of the program and the TEB.
LEMMA FreePages32 ==
    ASSUME StartInv, Has32, spc \in Labels32 \ {"map32"}
    PROVE  /\ FreePages \in Nat /\ FreePages >= AnyAddress /\ FreePages <= Ceiling
           /\ \A x \in DOMAIN regions : ~Overlap(regions[x], FreePages, 1)
<1> USE DEF StartInv
<1>1. /\ IMAGE_BASE + Pages(prog.bytes) <= AnyAddress
      /\ GUEST_STACK_BASE + Pages(StackBytes(prog)) <= AnyAddress
  BY ProgramsAssumption DEF Shape, Loader
<1>2. Mapped("unix") => UnixStackBase \in Nat /\ UnixStackBase + 32 <= SIG_STACK_BASE
  <2>1. glob.image_size \in Nat \/ ~Mapped("unix")
    BY ProgramsAssumption DEF Shape, Existing, Holds, Layout32, Mapped, Labels32
  <2> QED
    BY <2>1, UnixStackPlace DEF Layout32
<1>3. \A x \in DOMAIN regions \ {"teb", "peb"} : regions[x].base + regions[x].pages <= Ceiling
  <2>1. Ceiling \in Nat /\ Ceiling >= AnyAddress
    BY DEF Ceiling, AnyAddress
  <2> SUFFICES ASSUME NEW x \in DOMAIN regions \ {"teb", "peb"}
               PROVE  regions[x].base + regions[x].pages <= Ceiling
    OBVIOUS
  <2>2. CASE x = "image"
    BY <1>1, <2>1, <2>2, PagesRoundUp, ProgramsAssumption
       DEF Layout32, At, Mapped, AnyAddress, IMAGE_BASE, Shape
  <2>3. CASE x = "stack"
    BY <1>1, <2>1, <2>3, StackPages, ProgramsAssumption
       DEF Layout32, At, Mapped, AnyAddress, GUEST_STACK_BASE, Shape
  <2>4. CASE x = "unix"
    BY <1>2, <2>1, <2>4 DEF Layout32, At, Mapped, AnyAddress, UNIX_STACK_SIZE, SIG_STACK_BASE
  <2>5. CASE x = "signal"
    BY <2>1, <2>5 DEF Layout32, At, Mapped, AnyAddress, SIG_STACK_BASE, SIG_STACK_SIZE
  <2>6. CASE x \in Chosen
    BY <2>6 DEF Layout32
  <2> QED
    BY <2>2, <2>3, <2>4, <2>5, <2>6 DEF Shape, RegionNames, Chosen
<1>4. FreePages \in Nat /\ FreePages >= AnyAddress /\ FreePages <= Ceiling
  BY <1>3, FreePagesAbove DEF Ceiling, AnyAddress
<1>5. ASSUME NEW x \in DOMAIN regions
      PROVE  ~Overlap(regions[x], FreePages, 1)
  <2>1. CASE x \in {"teb", "peb"}
    BY <1>4, <2>1 DEF Layout32, At, Mapped, Overlap, Ceiling, AnyAddress, TEB32_FIXED_ADDR, PEB32_FIXED_ADDR
  <2>2. CASE x \notin {"teb", "peb"}
    BY <1>4, <2>2, FreePagesAbove DEF Overlap, Shape, Region
  <2> QED
    BY <2>1, <2>2
<1> QED
  BY <1>4, <1>5

\* Mapping one page there disturbs nothing.
LEMMA FreeMapping32 ==
    ASSUME StartInv, Has32, Has32', spc \in Labels32 \ {"map32"}, NEW name \in Chosen, ~Mapped(name),
           MapFree(name, 1), prog' = prog, glob'.image_size = glob.image_size, Ceiling + 1 <= Ceiling'
    PROVE  /\ Layout32' /\ Kept'
           /\ DOMAIN regions' = DOMAIN regions \cup {name}
           /\ DOMAIN regions' \subseteq RegionNames /\ regions' \in [DOMAIN regions' -> Region]
           /\ \A x \in DOMAIN regions : regions'[x] = regions[x]
<1> USE DEF StartInv
<1>1. MapFixed(name, FreePages, 1) /\ name \in RegionNames
  BY DEF MapFree, Chosen, RegionNames
<1>2. /\ DOMAIN regions' = DOMAIN regions \cup {name}
      /\ DOMAIN regions' \subseteq RegionNames /\ regions' \in [DOMAIN regions' -> Region]
      /\ regions'[name] = [base |-> FreePages, pages |-> 1]
      /\ \A x \in DOMAIN regions : regions'[x] = regions[x]
  <2>1. PICK n \in Nat \ {0} : n = 1
    OBVIOUS
  <2>3. FreePages \in Nat /\ MapFixed(name, FreePages, n) /\ Shape
    BY <1>1, <2>1, FreePages32
  <2>2. /\ DOMAIN regions' = DOMAIN regions \cup {name}
        /\ DOMAIN regions' \subseteq RegionNames /\ regions' \in [DOMAIN regions' -> Region]
        /\ regions'[name] = [base |-> FreePages, pages |-> n]
        /\ \A x \in DOMAIN regions : x # name => regions'[x] = regions[x]
    <3> HIDE DEF StartInv
    <3> QED
      BY ZenonT(30), <1>1, <2>3, MapFixedEffect
  <2> QED
    BY <2>1, <2>2 DEF Mapped
<1>3. lost' = lost
  BY <1>1, FreePages32 DEF MapFixed
<1>4. Ceiling \in Nat /\ Ceiling' \in Nat
  BY DEF Ceiling, AnyAddress
<1>5. \A x \in Chosen \cap DOMAIN regions' : /\ regions'[x].base >= AnyAddress
                                            /\ regions'[x].base + regions'[x].pages <= Ceiling'
  <2>1. \A x \in Chosen \cap DOMAIN regions : /\ regions[x].base >= AnyAddress
                                             /\ regions[x].base + regions[x].pages <= Ceiling
    BY DEF Layout32
  <2>2. \A x \in DOMAIN regions : regions[x].base \in Nat /\ regions[x].pages \in Nat
    BY DEF Shape, Region
  <2> QED
    BY <1>2, <1>4, <2>1, <2>2, FreePages32
<1>6. UnixStackBase' = UnixStackBase
  BY DEF UnixStackBase
<1>7. Layout32'
  <2>1. \A x \in {"image", "peb", "teb", "stack", "unix", "signal"} :
           (x \in DOMAIN regions' <=> x \in DOMAIN regions) /\ (x \in DOMAIN regions => regions'[x] = regions[x])
    BY <1>2 DEF Chosen
  <2>2. /\ At("image", IMAGE_BASE, Pages(prog.bytes))'
        /\ At("peb", PEB32_FIXED_ADDR, 1)'
        /\ At("teb", TEB32_FIXED_ADDR, 1)'
        /\ At("signal", SIG_STACK_BASE, SIG_STACK_SIZE)'
    BY <2>1 DEF Layout32, At, Mapped
  <2>3. /\ At("stack", GUEST_STACK_BASE, Pages(StackBytes(prog)))'
        /\ At("unix", UnixStackBase, UNIX_STACK_SIZE(TRUE))'
        /\ Mapped("unix")' => UnixStackBase' # 0
        /\ Mapped("image")' => glob'.image_size = prog'.bytes
    BY <1>6, <2>1 DEF Layout32, At, Mapped
  <2> QED
    BY <1>5, <2>2, <2>3, Zenon DEF Layout32
<1>8. Kept'
  BY <1>3 DEF Kept, LayoutKept
<1> QED
  BY <1>2, <1>7, <1>8

\* A mapping at its fixed address in the 32-bit loader: what the layout says of
\* the others stays, and the name has the place that the layout gives it.
FixedPlace(name, base, n) ==
    \/ name = "peb" /\ base = PEB32_FIXED_ADDR /\ n = 1
    \/ name = "teb" /\ base = TEB32_FIXED_ADDR /\ n = 1
    \/ name = "stack" /\ base = GUEST_STACK_BASE /\ n = Pages(StackBytes(prog))
    \/ name = "unix" /\ base = UnixStackBase /\ n = UNIX_STACK_SIZE(TRUE) /\ base # 0
    \/ name = "signal" /\ base = SIG_STACK_BASE /\ n = SIG_STACK_SIZE
LEMMA FixedMapping32 ==
    ASSUME StartInv, Has32, Has32', NEW name \in RegionNames, ~Mapped(name),
           NEW base \in Nat, NEW n \in Nat \ {0}, FixedPlace(name, base, n), MapFixed(name, base, n),
           prog' = prog, glob'.image_size = glob.image_size, Ceiling <= Ceiling'
    PROVE  /\ Layout32'
           /\ DOMAIN regions' = DOMAIN regions \cup {name}
           /\ DOMAIN regions' \subseteq RegionNames /\ regions' \in [DOMAIN regions' -> Region]
           /\ regions'[name] = [base |-> base, pages |-> n]
           /\ \A x \in DOMAIN regions : regions'[x] = regions[x]
           /\ \A l \in lost' : l \in lost \/ \E x \in DOMAIN regions : l = <<x, name>> /\ Overlap(regions[x], base, n)
<1>1. /\ DOMAIN regions' = DOMAIN regions \cup {name}
      /\ DOMAIN regions' \subseteq RegionNames /\ regions' \in [DOMAIN regions' -> Region]
      /\ regions'[name] = [base |-> base, pages |-> n]
      /\ \A x \in DOMAIN regions : regions'[x] = regions[x]
      /\ \A l \in lost' : l \in lost \/ \E x \in DOMAIN regions : l = <<x, name>> /\ Overlap(regions[x], base, n)
  BY MapFixedEffect DEF Mapped, StartInv
<1>2. UnixStackBase' = UnixStackBase
  BY DEF UnixStackBase
<1>3. name \notin Chosen /\ name # "image"
  BY Zenon DEF FixedPlace, Chosen
<1>4. Ceiling \in Nat /\ Ceiling' \in Nat
  BY DEF Ceiling, AnyAddress
<1>5. Layout32
  BY DEF StartInv
<1>6. \A x \in Chosen \cap DOMAIN regions' : /\ regions'[x].base >= AnyAddress
                                            /\ regions'[x].base + regions'[x].pages <= Ceiling'
  <2>1. \A x \in DOMAIN regions : regions[x].base \in Nat /\ regions[x].pages \in Nat
    BY DEF StartInv, Shape, Region
  <2> QED
    BY <1>1, <1>3, <1>4, <1>5, <2>1 DEF Layout32
<1>7. /\ At("image", IMAGE_BASE, Pages(prog.bytes))'
      /\ At("peb", PEB32_FIXED_ADDR, 1)'
      /\ At("teb", TEB32_FIXED_ADDR, 1)'
      /\ At("signal", SIG_STACK_BASE, SIG_STACK_SIZE)'
  BY <1>1, <1>3, <1>5, Zenon DEF Layout32, At, Mapped, FixedPlace
<1>8. /\ At("stack", GUEST_STACK_BASE, Pages(StackBytes(prog)))'
      /\ At("unix", UnixStackBase, UNIX_STACK_SIZE(TRUE))'
      /\ Mapped("unix")' => UnixStackBase' # 0
      /\ Mapped("image")' => glob'.image_size = prog'.bytes
  BY <1>1, <1>2, <1>3, <1>5, Zenon DEF Layout32, At, Mapped, FixedPlace
<1>9. Layout32'
  BY <1>6, <1>7, <1>8, Zenon DEF Layout32
<1> QED
  BY <1>1, <1>9

\* What the loader recorded of its stacks stays true while they stay where they are.
LEMMA RecordsKept ==
    ASSUME prog' = prog, glob'.is_32bit = glob.is_32bit
    PROVE  /\ StackRecorded /\ regions'["stack"] = regions["stack"] /\ glob'.stack_top = glob.stack_top
              /\ glob'.stack_size = glob.stack_size => StackRecorded'
           /\ UnixRecorded /\ regions'["unix"] = regions["unix"]
              /\ glob'.unix_stack_ptr_val = glob.unix_stack_ptr_val => UnixRecorded'
<1>1. ASSUME regions'["stack"] = regions["stack"], glob'.stack_size = glob.stack_size
      PROVE  StackTop(regions["stack"].base, glob.stack_size)' = StackTop(regions["stack"].base, glob.stack_size)
  BY <1>1 DEF StackTop, Has32
<1> QED
  BY <1>1 DEF StackRecorded, UnixRecorded, Has32

-----------------------------------------------------------------------------
(* The wrapper, and the steps that map nothing *)

\* The wrapper executes the loader for the type that it found, with nothing
\* mapped yet.
LEMMA WrapperKeeps ==
    ASSUME StartInv, Wrapper
    PROVE  StartInv'
<1>1. CASE \E s : Die(s)
  BY <1>1, DieKeeps DEF Wrapper
<1>2. CASE ~ \E s : Die(s)
  <2> USE DEF StartInv
  <2>1. /\ spc = "wrapper" /\ UNCHANGED <<prog, regions, lost, teb, peb, cpu0>>
        /\ \/ prog.kind = "pe32" /\ spc' = "map32" /\ glob'.is_32bit
           \/ prog.kind = "pe64" /\ spc' = "map64" /\ ~glob'.is_32bit
        /\ glob'.via = "wrapper" /\ glob'.refused = glob.refused /\ glob'.main_linked = glob.main_linked
    BY <1>2, Zenon DEF Wrapper, Goto, Shape, GlobalFields, detect_pe_type, Null, Loader
  <2>2. Shape'
    BY <1>2, <2>1 DEF Wrapper, Shape, GlobalFields, Labels32, Labels64
  <2>3. Loader'
    BY <2>1 DEF Loader, Has32, Labels32, Labels64
  <2>4. Existing' /\ Layout32' /\ Kept'
    BY <2>1 DEF Existing, Layout32, Kept, LayoutKept, At, Mapped, Loader, Has32
  <2>5. Fields'
    BY <2>1, Zenon DEF Fields, Fields32, Fields64, Has32, Labels32, Labels64
  <2> QED
    BY <2>2, <2>3, <2>4, <2>5
<1> QED
  BY <1>1, <1>2

\* my_wine64 binds the imports and goes on whatever the result.
LEMMA ResolveImports64Keeps ==
    ASSUME StartInv, ResolveImports64
    PROVE  StartInv'
<1> USE DEF StartInv
<1>1. /\ spc = "bind64" /\ spc' = "teb64" /\ UNCHANGED <<prog, regions, lost, teb, peb, cpu0>>
      /\ \A f \in GlobalFields \ {"bound"} : glob'[f] = glob[f]
      /\ ~Has32
  BY DEF ResolveImports64, Goto, Shape, GlobalFields, Loader, Labels64
<1>2. Shape'
  BY <1>1 DEF ResolveImports64, Shape, GlobalFields, Labels32, Labels64
<1>3. Loader' /\ Existing'
  BY <1>1 DEF Loader, Existing, Holds, Mapped, Has32, Labels32, Labels64, GlobalFields
<1>4. Layout32' /\ Kept'
  BY <1>1, QuietLayout DEF Ceiling, AnyAddress, GlobalFields
<1>5. Fields'
  BY <1>1 DEF Fields, Fields64, Has32, Labels64, GlobalFields
<1> QED
  BY <1>2, <1>3, <1>4, <1>5

\* wire_peb_fields: the image is in the PEB, the PEB in the TEB, and the main
\* module is linked exactly when there is a loader list.
LEMMA WirePeb64Keeps ==
    ASSUME StartInv, wire_peb_fields
    PROVE  StartInv'
<1> USE DEF StartInv
<1>1. /\ spc = "wire64" /\ spc' = "stack64" /\ UNCHANGED <<prog, regions, lost, cpu0>>
      /\ \A f \in GlobalFields \ {"main_linked"} : glob'[f] = glob[f]
      /\ peb'.image = "image" /\ (glob'.main_linked <=> peb'.ldr # Null)
      /\ teb'.peb = "peb" /\ teb'.self = teb.self
      /\ ~Has32
  BY Zenon DEF wire_peb_fields, Goto, Shape, GlobalFields, Loader, Labels64
<1>2. Shape'
  BY ZenonT(30), <1>1 DEF wire_peb_fields, Shape, GlobalFields, Labels32, Labels64
<1>3. Loader' /\ Existing'
  BY <1>1 DEF Loader, Existing, Holds, Mapped, Has32, Labels32, Labels64, GlobalFields
<1>4. Layout32' /\ Kept'
  BY <1>1, QuietLayout DEF Ceiling, AnyAddress, GlobalFields
<1>5. Fields'
  BY <1>1 DEF Fields, Fields64, Has32, Labels64, GlobalFields
<1> QED
  BY <1>2, <1>3, <1>4, <1>5

\* The argument vector of my_wine64 is static storage.
LEMMA SeedGuest64Keeps ==
    ASSUME StartInv, SeedGuest64
    PROVE  StartInv'
<1> USE DEF StartInv
<1>1. /\ spc = "seed64" /\ spc' = "signals64" /\ UNCHANGED <<prog, regions, lost, teb, peb, cpu0>>
      /\ \A f \in GlobalFields \ {"argv"} : glob'[f] = glob[f]
      /\ glob'.argv
      /\ ~Has32
  BY DEF SeedGuest64, Goto, Shape, GlobalFields, Loader, Labels64
<1>2. Shape'
  BY <1>1 DEF SeedGuest64, Shape, GlobalFields, Labels32, Labels64
<1>3. Loader' /\ Existing'
  BY <1>1 DEF Loader, Existing, Holds, Mapped, Has32, Labels32, Labels64, GlobalFields
<1>4. Layout32' /\ Kept'
  BY <1>1, QuietLayout DEF Ceiling, AnyAddress, GlobalFields
<1>5. StackRecorded'
  BY <1>1, RecordsKept DEF Fields, Fields64, GlobalFields
<1>6. Fields'
  BY <1>1, <1>5 DEF Fields, Fields64, Has32, Labels64, GlobalFields
<1> QED
  BY <1>2, <1>3, <1>4, <1>6

\* apply_final_patches changes nothing that start-up looks at, or ends the
\* process.
LEMMA FinalPatchesKeeps ==
    ASSUME StartInv, FinalPatches
    PROVE  StartInv'
<1>1. CASE \E s : Die(s)
  BY <1>1, DieKeeps DEF FinalPatches
<1>2. CASE ~ \E s : Die(s)
  <2> USE DEF StartInv
  <2>1. /\ spc = "patch64" /\ spc' = "gs64" /\ UNCHANGED <<prog, regions, lost, teb, peb, cpu0>>
        /\ \A f \in GlobalFields : glob'[f] = glob[f]
        /\ ~Has32
    BY <1>2 DEF FinalPatches, Goto, Shape, GlobalFields, Loader, Labels64
  <2>2. Shape'
    BY <1>2, <2>1 DEF FinalPatches, Shape, GlobalFields, Labels32, Labels64
  <2>3. Loader' /\ Existing'
    BY <2>1 DEF Loader, Existing, Holds, Mapped, Has32, Labels32, Labels64, GlobalFields
  <2>4. Layout32' /\ Kept'
    BY <2>1, QuietLayout DEF Ceiling, AnyAddress, GlobalFields
  <2>5. StackRecorded' /\ UnixRecorded'
    BY <2>1, RecordsKept DEF Fields, Fields64, GlobalFields
  <2>6. Fields'
    BY <2>1, <2>5 DEF Fields, Fields64, Has32, Labels64, GlobalFields
  <2> QED
    BY <2>2, <2>3, <2>4, <2>6
<1> QED
  BY <1>1, <1>2

\* run_guest enters with the recorded top of the stack.
LEMMA Jump64Keeps ==
    ASSUME StartInv, jump_to_guest
    PROVE  StartInv'
<1> USE DEF StartInv
<1>1. /\ spc = "jump64" /\ spc' = "guest" /\ UNCHANGED <<prog, regions, lost, teb, peb, cpu0>>
      /\ \A f \in GlobalFields \ {"sp", "frame"} : glob'[f] = glob[f]
      /\ glob'.sp = glob.stack_top - 8 /\ glob'.frame = 8
      /\ ~Has32
  BY Zenon DEF jump_to_guest, Goto, Shape, GlobalFields, Loader, Labels64
<1>2. Shape'
  BY <1>1, Zenon DEF jump_to_guest, Shape, GlobalFields, Labels32, Labels64
<1>3. Loader' /\ Existing'
  BY <1>1 DEF Loader, Existing, Holds, Mapped, Has32, Labels32, Labels64, GlobalFields
<1>4. Layout32' /\ Kept'
  BY <1>1, QuietLayout DEF Ceiling, AnyAddress, GlobalFields
<1>5. StackRecorded' /\ UnixRecorded'
  BY <1>1, RecordsKept, Zenon DEF Fields, Fields64, GlobalFields
<1>6. Fields'
  BY <1>1, <1>5, Zenon DEF Fields, Fields64, Has32, Labels64, GlobalFields
<1> QED
  BY <1>2, <1>3, <1>4, <1>6

\* my_wine32 goes on only with bound imports.
LEMMA ResolveImports32Keeps ==
    ASSUME StartInv, ResolveImports32
    PROVE  StartInv'
<1>1. CASE \E s : Die(s)
  BY <1>1, DieKeeps DEF ResolveImports32
<1>2. CASE ~ \E s : Die(s)
  <2> USE DEF StartInv
  <2>1. /\ spc = "bind32" /\ spc' = "peb32" /\ UNCHANGED <<prog, regions, lost, teb, peb, cpu0>>
        /\ \A f \in GlobalFields \ {"bound"} : glob'[f] = glob[f]
        /\ glob'.bound
        /\ Has32
    BY <1>2 DEF ResolveImports32, Goto, Shape, GlobalFields, Loader, Labels32
  <2>2. Shape'
    BY <1>2, <2>1 DEF ResolveImports32, Shape, GlobalFields, Labels32, Labels64
  <2>3. Loader' /\ Existing'
    BY <2>1 DEF Loader, Existing, Holds, Mapped, Has32, Labels32, Labels64, GlobalFields
  <2>4. Layout32' /\ Kept'
    BY <2>1, QuietLayout DEF Ceiling, AnyAddress, GlobalFields
  <2>5. Fields'
    BY <2>1 DEF Fields, Fields32, Has32, Labels32, GlobalFields
  <2> QED
    BY <2>2, <2>3, <2>4, <2>5
<1> QED
  BY <1>1, <1>2

\* A heap that cannot be made is a null field of the PEB.
LEMMA WireHeap32Keeps ==
    ASSUME StartInv, wire_peb32_heap
    PROVE  StartInv'
<1> USE DEF StartInv
<1>1. /\ spc = "heap32" /\ spc' = "params32" /\ UNCHANGED <<prog, regions, lost, teb, cpu0, glob>>
      /\ \A f \in GlobalFields : glob'[f] = glob[f]
      /\ peb'.image = peb.image /\ peb'.ldr = peb.ldr
      /\ Has32
  BY DEF wire_peb32_heap, Goto, Shape, GlobalFields, Loader, Labels32
<1>2. Shape'
  BY <1>1 DEF wire_peb32_heap, Shape, GlobalFields, Labels32, Labels64
<1>3. Loader' /\ Existing'
  BY <1>1 DEF Loader, Existing, Holds, Mapped, Has32, Labels32, Labels64, GlobalFields
<1>4. Layout32' /\ Kept'
  BY <1>1, QuietLayout DEF Ceiling, AnyAddress, GlobalFields
<1>5. Fields'
  BY <1>1, Zenon DEF Fields, Fields32, Has32, Labels32, GlobalFields
<1> QED
  BY <1>2, <1>3, <1>4, <1>5

\* my_wine32 enters the guest with the host's FS recorded, whether or not it
\* could select the TEB.
LEMMA Jump32Keeps ==
    ASSUME StartInv, pe32_setup_fs_and_jump
    PROVE  StartInv'
<1> USE DEF StartInv
<1>1. /\ spc = "jump32" /\ spc' = "guest" /\ UNCHANGED <<prog, regions, lost, teb, peb>>
      /\ \A f \in GlobalFields \ {"sp", "frame", "host_fs"} : glob'[f] = glob[f]
      /\ glob'.host_fs = cpu0.fs /\ glob'.frame \in {16, 20}
      /\ glob'.sp = (glob.stack_top \div 16) * 16 - 4
      /\ Has32
  BY Zenon DEF pe32_setup_fs_and_jump, Goto, Shape, GlobalFields, Loader, Labels32
<1>2. Shape'
  BY ZenonT(30), <1>1 DEF pe32_setup_fs_and_jump, Shape, GlobalFields, Labels32, Labels64
<1>3. Loader' /\ Existing'
  BY <1>1 DEF Loader, Existing, Holds, Mapped, Has32, Labels32, Labels64, GlobalFields
<1>4. Layout32' /\ Kept'
  BY <1>1, QuietLayout DEF Ceiling, AnyAddress, GlobalFields
<1>5. glob'.stack_top = glob.stack_top /\ glob'.stack_size = glob.stack_size
      /\ glob'.is_32bit = glob.is_32bit /\ glob'.unix_stack_ptr_val = glob.unix_stack_ptr_val
  BY <1>1 DEF GlobalFields
<1>6. StackRecorded' /\ UnixRecorded'
  <2>1. StackRecorded /\ UnixRecorded
    BY <1>1, Zenon DEF Fields, Fields32
  <2>2. StackTop(regions["stack"].base, glob.stack_size)' = StackTop(regions["stack"].base, glob.stack_size)
    BY <1>1, <1>5 DEF StackTop, Has32
  <2> QED
    BY <1>1, <1>5, <2>1, <2>2 DEF StackRecorded, UnixRecorded, Has32
<1>7. Fields'
  <2>1. glob'.sp = (glob'.stack_top \div 16) * 16 - 4
    BY <1>1, <1>5
  <2>3. /\ cpu0.fs = "host" /\ glob.bound /\ glob.thunks /\ glob.handlers /\ glob.argv /\ peb.image = "image"
        /\ teb.self = "teb" /\ teb.peb = "peb" /\ teb.seh = "crash handler"
    BY <1>1, Zenon DEF Fields, Fields32, Labels32
  <2>4. glob'.bound /\ glob'.thunks /\ glob'.handlers /\ glob'.argv
    BY <1>1, <2>3, Zenon DEF GlobalFields
  <2> HIDE DEF StartInv
  <2>2. Fields32'
    BY <1>1, <1>6, <2>1, <2>3, <2>4, Zenon DEF Fields32, Labels32
  <2> QED
    BY <1>1, <1>5, <2>2 DEF StartInv, Fields, Has32, GlobalFields
<1> QED
  BY <1>2, <1>3, <1>4, <1>7

-----------------------------------------------------------------------------
(* my_wine64: the steps that map something *)

\* my_wine64 maps the image of either type.
LEMMA MapImage64Keeps ==
    ASSUME StartInv, MapImage64
    PROVE  StartInv'
<1>1. CASE \E s : Die(s)
  BY <1>1, DieKeeps DEF MapImage64
<1>2. CASE ~ \E s : Die(s)
  <2> USE DEF StartInv
  <2>1. /\ spc = "map64" /\ UNCHANGED <<prog, teb, peb, cpu0>>
        /\ \/ prog.kind = "pe32" /\ spc' = "reject64"
           \/ prog.kind # "pe32" /\ prog.kind # "other" /\ spc' = "bind64"
        /\ \A f \in GlobalFields \ {"image_size"} : glob'[f] = glob[f]
        /\ ~Has32 /\ MapFree("image", Pages(prog.bytes))
    BY <1>2 DEF MapImage64, Goto, Shape, GlobalFields, Loader, Labels64
  <2>2. ~Has32'
    BY <2>1 DEF Has32, GlobalFields
  <2>3. Pages(prog.bytes) \in Nat \ {0} /\ prog.kind \in {"pe32", "pe64", "other"}
    BY PagesRoundUp, ProgramsAssumption DEF Shape
  <2>4. /\ Layout32' /\ Kept'
        /\ DOMAIN regions' = DOMAIN regions \cup {"image"}
        /\ DOMAIN regions' \subseteq RegionNames /\ regions' \in [DOMAIN regions' -> Region]
    BY <2>1, <2>2, <2>3, FreeMapping64 DEF RegionNames
  <2>5. Shape'
    BY <1>2, <2>1, <2>4 DEF MapImage64, Shape, GlobalFields, Labels32, Labels64
  <2>6. Loader' /\ Existing'
    BY <2>1, <2>2, <2>3, <2>4 DEF Loader, Existing, Holds, Mapped, Labels32, Labels64, GlobalFields
  <2>7. Fields'
    BY <2>1, <2>2, Zenon DEF Fields, Fields64, Labels64, GlobalFields
  <2> QED
    BY <2>4, <2>5, <2>6, <2>7
<1> QED
  BY <1>1, <1>2

\* A PE32 image in my_wine64 is unmapped again; only a user can have started
\* it.
LEMMA RejectPe32Keeps ==
    ASSUME StartInv, RejectPe32
    PROVE  StartInv'
<1> USE DEF StartInv
<1>1. /\ spc = "reject64" /\ spc' = "exit" /\ UNCHANGED <<prog, lost, teb, peb, cpu0>>
      /\ \A f \in GlobalFields \ {"status", "refused"} : glob'[f] = glob[f]
      /\ ~Has32 /\ ~Has32' /\ glob.via = "user"
  BY Zenon DEF RejectPe32, Unmap, Shape, GlobalFields, Loader, Labels64, Has32
<1>2. DOMAIN regions' = {} /\ DOMAIN regions' \subseteq RegionNames /\ regions' \in [DOMAIN regions' -> Region]
  BY <1>1 DEF RejectPe32, Unmap, Existing, Holds
<1>3. Shape'
  BY <1>1, <1>2, Zenon DEF RejectPe32, Shape, GlobalFields
<1>4. Loader' /\ Existing'
  BY <1>1, <1>2 DEF Loader, Existing, Mapped, Labels32, Labels64, GlobalFields
<1>5. Layout32' /\ Kept' /\ Fields'
  BY <1>1, Zenon DEF Layout32, Kept, LayoutKept, Fields, Fields64, Labels64, GlobalFields
<1> QED
  BY <1>3, <1>4, <1>5

\* alloc_teb maps the TEB; the PEB is still missing.
LEMMA AllocTebKeeps ==
    ASSUME StartInv, alloc_teb
    PROVE  StartInv'
<1>1. CASE \E s : Die(s)
  BY <1>1, DieKeeps DEF alloc_teb
<1>2. CASE ~ \E s : Die(s)
  <2> USE DEF StartInv
  <2>1. /\ spc = "teb64" /\ spc' = "peb64" /\ UNCHANGED <<prog, peb, cpu0, glob>>
        /\ ~Has32 /\ ~Has32' /\ MapFree("teb", 1) /\ teb'.self = "teb"
    BY <1>2 DEF alloc_teb, Goto, Shape, Loader, Labels64, Has32
  <2>2. /\ Layout32' /\ Kept'
        /\ DOMAIN regions' = DOMAIN regions \cup {"teb"}
        /\ DOMAIN regions' \subseteq RegionNames /\ regions' \in [DOMAIN regions' -> Region]
    <3>1. PICK n \in Nat \ {0} : n = 1
      OBVIOUS
    <3>2. MapFree("teb", n)
      BY <2>1, <3>1
    <3> QED
      BY <2>1, <3>2, FreeMapping64, Zenon DEF RegionNames
  <2>3. Shape'
    BY <1>2, <2>1, <2>2 DEF alloc_teb, Shape, Labels32, Labels64
  <2>4. Loader' /\ Existing'
    BY <2>1, <2>2 DEF Loader, Existing, Holds, Mapped, Labels32, Labels64
  <2>5. Fields'
    BY <2>1 DEF Fields, Fields64, Labels64
  <2> QED
    BY <2>2, <2>3, <2>4, <2>5
<1> QED
  BY <1>1, <1>2

\* alloc_peb maps the PEB, or takes the TEB away again.
LEMMA AllocPebKeeps ==
    ASSUME StartInv, alloc_peb
    PROVE  StartInv'
<1> USE DEF StartInv
<1>1. CASE Unmap({"teb"}) /\ Exit(1) /\ UNCHANGED <<prog, teb, peb, cpu0>>
  <2>1. /\ spc = "peb64" /\ spc' = "exit" /\ UNCHANGED <<prog, lost, teb, peb, cpu0>>
        /\ \A f \in GlobalFields \ {"status"} : glob'[f] = glob[f]
        /\ ~Has32 /\ ~Has32'
    BY <1>1 DEF alloc_peb, Unmap, Exit, Shape, GlobalFields, Loader, Labels64, Has32
  <2>2. DOMAIN regions' = {"image"} /\ DOMAIN regions' \subseteq RegionNames /\ regions' \in [DOMAIN regions' -> Region]
    BY <1>1, <2>1 DEF Unmap, Existing, Holds, Shape
  <2>3. Shape'
    BY <1>1, <2>1, <2>2 DEF Exit, Shape, GlobalFields
  <2>4. Loader' /\ Existing'
    BY <2>1, <2>2 DEF Loader, Existing, Mapped, Labels32, Labels64, GlobalFields
  <2>5. Layout32' /\ Kept' /\ Fields'
    BY <2>1, Zenon DEF Layout32, Kept, LayoutKept, Fields, Fields64, Labels64, GlobalFields
  <2> QED
    BY <2>3, <2>4, <2>5
<1>2. CASE MapFree("peb", 1) /\ Goto("wire64") /\ UNCHANGED <<prog, teb, peb, cpu0, glob>>
  <2>1. /\ spc = "peb64" /\ spc' = "wire64" /\ UNCHANGED <<prog, teb, peb, cpu0, glob>>
        /\ ~Has32 /\ ~Has32' /\ MapFree("peb", 1)
    BY <1>2 DEF alloc_peb, Goto, Loader, Labels64, Has32
  <2>2. /\ Layout32' /\ Kept'
        /\ DOMAIN regions' = DOMAIN regions \cup {"peb"}
        /\ DOMAIN regions' \subseteq RegionNames /\ regions' \in [DOMAIN regions' -> Region]
    <3>1. PICK n \in Nat \ {0} : n = 1
      OBVIOUS
    <3>2. MapFree("peb", n)
      BY <2>1, <3>1
    <3> QED
      BY <2>1, <3>2, FreeMapping64 DEF RegionNames
  <2>3. Shape'
    BY <2>1, <2>2 DEF Shape, Labels32, Labels64
  <2>4. Loader' /\ Existing'
    BY <2>1, <2>2 DEF Loader, Existing, Holds, Mapped, Labels32, Labels64
  <2>5. Fields'
    BY <2>1 DEF Fields, Fields64, Labels64
  <2> QED
    BY <2>2, <2>3, <2>4, <2>5
<1> QED
  BY <1>1, <1>2 DEF alloc_peb

\* setup_stack in the 64-bit process records where the stack ends.
LEMMA SetupStack64Keeps ==
    ASSUME StartInv, SetupStack64
    PROVE  StartInv'
<1>1. CASE \E s : Die(s)
  BY <1>1, DieKeeps DEF SetupStack64
<1>2. CASE ~ \E s : Die(s)
  <2> USE DEF StartInv
  <2>1. /\ spc = "stack64" /\ spc' = "seed64" /\ UNCHANGED <<prog, teb, peb, cpu0>>
        /\ \A f \in GlobalFields \ {"stack_top", "stack_size"} : glob'[f] = glob[f]
        /\ glob'.stack_size = StackBytes(prog)
        /\ glob'.stack_top = StackTop(regions'["stack"].base, StackBytes(prog))
        /\ glob' = [f \in GlobalFields |-> glob'[f]]
        /\ ~Has32 /\ MapFree("stack", Pages(StackBytes(prog)))
    BY <1>2, Zenon DEF SetupStack64, setup_stack, Goto, Shape, GlobalFields, Loader, Labels64
  <2>2. ~Has32'
    BY <2>1 DEF Has32, GlobalFields
  <2>3. Pages(StackBytes(prog)) \in Nat \ {0}
    BY StackPages, ProgramsAssumption DEF Shape, GUEST_STACK_SIZE
  <2>4. /\ Layout32' /\ Kept'
        /\ DOMAIN regions' = DOMAIN regions \cup {"stack"}
        /\ DOMAIN regions' \subseteq RegionNames /\ regions' \in [DOMAIN regions' -> Region]
    BY <2>1, <2>2, <2>3, FreeMapping64, Zenon DEF RegionNames
  <2>5. Shape'
    BY <2>1, <2>4 DEF Shape, Labels32, Labels64
  <2>6. Loader' /\ Existing'
    BY <2>1, <2>2, <2>4 DEF Loader, Existing, Holds, Mapped, Labels32, Labels64, GlobalFields
  <2>7. StackRecorded'
    <3>1. StackTop(regions["stack"].base, glob.stack_size)' = StackTop(regions'["stack"].base, StackBytes(prog))
      BY <2>1, <2>2 DEF StackTop
    <3> QED
      BY <2>1, <3>1 DEF StackRecorded
  <2>8. Fields'
    BY <2>1, <2>2, <2>7 DEF Fields, Fields64, Labels64, GlobalFields
  <2> QED
    BY <2>4, <2>5, <2>6, <2>8
<1> QED
  BY <1>1, <1>2

\* The crash handlers of my_wine64, with or without a stack of their own.
LEMMA Signals64Keeps ==
    ASSUME StartInv, Signals64
    PROVE  StartInv'
<1> USE DEF StartInv
<1>1. /\ spc = "signals64" /\ spc' = "thunks64" /\ UNCHANGED <<prog, teb, peb, cpu0>>
      /\ \A f \in GlobalFields \ {"handlers", "alt_stack"} : glob'[f] = glob[f]
      /\ glob'.handlers /\ glob' = [f \in GlobalFields |-> glob'[f]]
      /\ ~Has32 /\ (UNCHANGED <<regions, lost>> \/ MapFree("signal", SIG_STACK_SIZE))
  BY Zenon DEF Signals64, install_crash_signal_handlers, Goto, Shape, GlobalFields, Loader, Labels64
<1>2. glob'.is_32bit = glob.is_32bit /\ ~Has32'
  BY <1>1 DEF Has32, GlobalFields
<1>3. /\ Layout32' /\ Kept'
      /\ DOMAIN regions \subseteq DOMAIN regions' /\ DOMAIN regions' \subseteq DOMAIN regions \cup {"signal"}
      /\ DOMAIN regions' \subseteq RegionNames /\ regions' \in [DOMAIN regions' -> Region]
      /\ \A x \in DOMAIN regions : x # "signal" => regions'[x] = regions[x]
  <2>1. CASE UNCHANGED <<regions, lost>>
    BY <1>1, <1>2, <2>1, Zenon DEF Shape, Layout32, Kept, LayoutKept
  <2>2. CASE MapFree("signal", SIG_STACK_SIZE)
    BY <1>1, <1>2, <2>2, FreeMapping64 DEF RegionNames, SIG_STACK_SIZE
  <2> QED
    BY <1>1, <2>1, <2>2
<1>4. Shape'
  BY <1>1, <1>3 DEF Shape, Labels32, Labels64
<1>5. Loader' /\ Existing'
  BY <1>1, <1>2, <1>3 DEF Loader, Existing, Mapped, Labels32, Labels64, GlobalFields
<1>6. StackRecorded'
  BY <1>1, <1>2, <1>3, RecordsKept DEF Fields, Fields64, Existing, GlobalFields
<1>7. Fields'
  BY <1>1, <1>2, <1>6 DEF Fields, Fields64, Labels64, GlobalFields
<1> QED
  BY <1>3, <1>4, <1>5, <1>7

\* my_wine64 goes on with or without thunks.
LEMMA Thunks64Keeps ==
    ASSUME StartInv, Thunks64
    PROVE  StartInv'
<1> USE DEF StartInv
<1>1. /\ spc = "thunks64" /\ spc' = "unix64" /\ UNCHANGED <<prog, teb, peb, cpu0>>
      /\ \A f \in GlobalFields \ {"thunks"} : glob'[f] = glob[f]
      /\ glob' = [f \in GlobalFields |-> glob'[f]]
      /\ ~Has32 /\ (UNCHANGED <<regions, lost>> \/ MapFree("thunks", 1))
  BY DEF Thunks64, Goto, Shape, GlobalFields, Loader, Labels64
<1>2. glob'.is_32bit = glob.is_32bit /\ ~Has32'
  BY <1>1 DEF Has32, GlobalFields
<1>3. /\ Layout32' /\ Kept'
      /\ DOMAIN regions \subseteq DOMAIN regions' /\ DOMAIN regions' \subseteq DOMAIN regions \cup {"thunks"}
      /\ DOMAIN regions' \subseteq RegionNames /\ regions' \in [DOMAIN regions' -> Region]
      /\ \A x \in DOMAIN regions : x # "thunks" => regions'[x] = regions[x]
  <2>1. CASE UNCHANGED <<regions, lost>>
    BY <1>1, <1>2, <2>1, Zenon DEF Shape, Layout32, Kept, LayoutKept
  <2>2. CASE MapFree("thunks", 1)
    <3>1. PICK n \in Nat \ {0} : n = 1
      OBVIOUS
    <3>2. MapFree("thunks", n)
      BY <2>2, <3>1
    <3> QED
      BY <1>1, <1>2, <3>2, FreeMapping64 DEF RegionNames
  <2> QED
    BY <1>1, <2>1, <2>2
<1>4. Shape'
  BY <1>1, <1>3 DEF Shape, Labels32, Labels64
<1>5. Loader' /\ Existing'
  BY <1>1, <1>2, <1>3 DEF Loader, Existing, Mapped, Labels32, Labels64, GlobalFields
<1>6. StackRecorded'
  BY <1>1, <1>2, <1>3, RecordsKept DEF Fields, Fields64, Existing, GlobalFields
<1>7. Fields'
  BY <1>1, <1>2, <1>6 DEF Fields, Fields64, Labels64, GlobalFields
<1> QED
  BY <1>3, <1>4, <1>5, <1>7

\* setup_unix_stack in the 64-bit process.
LEMMA UnixStack64Keeps ==
    ASSUME StartInv, UnixStack64
    PROVE  StartInv'
<1>1. CASE \E s : Die(s)
  BY <1>1, DieKeeps DEF UnixStack64
<1>2. CASE ~ \E s : Die(s)
  <2> USE DEF StartInv
  <2>1. /\ spc = "unix64" /\ spc' = "patch64" /\ UNCHANGED <<prog, teb, peb, cpu0>>
        /\ \A f \in GlobalFields \ {"unix_stack_ptr_val"} : glob'[f] = glob[f]
        /\ glob'.unix_stack_ptr_val = regions'["unix"].base + regions'["unix"].pages
        /\ glob' = [f \in GlobalFields |-> glob'[f]]
        /\ ~Has32 /\ MapFree("unix", 512)
    BY <1>2 DEF UnixStack64, setup_unix_stack, Goto, Shape, GlobalFields, Loader, Labels64, UNIX_STACK_SIZE
  <2>2. glob'.is_32bit = glob.is_32bit /\ ~Has32'
    BY <2>1 DEF Has32, GlobalFields
  <2>3. /\ Layout32' /\ Kept'
        /\ DOMAIN regions' = DOMAIN regions \cup {"unix"}
        /\ DOMAIN regions' \subseteq RegionNames /\ regions' \in [DOMAIN regions' -> Region]
        /\ regions'["unix"].pages = 512
        /\ \A x \in DOMAIN regions : x # "unix" => regions'[x] = regions[x]
    <3>1. PICK n \in Nat \ {0} : n = 512
      OBVIOUS
    <3>2. MapFree("unix", n)
      BY <2>1, <3>1
    <3> QED
      <4>1. "unix" \in RegionNames /\ ~Has32 /\ ~Has32' /\ prog' = prog
        BY <2>1, <2>2 DEF RegionNames
      <4> HIDE DEF StartInv
      <4>2. /\ Layout32' /\ Kept'
            /\ DOMAIN regions' = DOMAIN regions \cup {"unix"}
            /\ DOMAIN regions' \subseteq RegionNames /\ regions' \in [DOMAIN regions' -> Region]
            /\ regions'["unix"].pages = n
            /\ \A x \in DOMAIN regions : x # "unix" => regions'[x] = regions[x]
        BY <3>2, <4>1, FreeMapping64, Zenon
      <4> QED
        BY <3>1, <4>2
  <2>4. Shape'
    BY <2>1, <2>3 DEF Shape, Labels32, Labels64
  <2>5. Loader' /\ Existing'
    BY <2>1, <2>2, <2>3 DEF Loader, Existing, Mapped, Labels32, Labels64, GlobalFields
  <2>6. StackRecorded'
    BY <2>1, <2>2, <2>3, RecordsKept DEF Fields, Fields64, Existing, GlobalFields
  <2>7. UnixRecorded'
    BY <2>1, <2>2, <2>3 DEF UnixRecorded, UNIX_STACK_SIZE
  <2>8. Fields'
    BY <2>1, <2>2, <2>6, <2>7 DEF Fields, Fields64, Labels64, GlobalFields
  <2> QED
    BY <2>3, <2>4, <2>5, <2>8
<1> QED
  BY <1>1, <1>2

\* Whatever arch_prctl, the reading back and wrgsbase answer, set_gs_base
\* reports success only with GS on the TEB.
LEMMA GsBaseReported ==
    ASSUME NEW r \in set_gs_base
    PROVE  r.ok \in BOOLEAN /\ (r.ok => r.gs = "teb")
<1>1. PICK q \in Readings : r = IF q.rc = 0 /\ q.got = "teb" THEN [gs |-> q.base, ok |-> TRUE]
                                                            ELSE [gs |-> q.gs, ok |-> q.gs = "teb"]
  BY DEF set_gs_base
<1>2. CASE q.rc = 0 /\ q.got = "teb"
  <2>1. q.base = "teb"
    BY <1>2 DEF Readings
  <2> QED
    BY <1>1, <1>2, <2>1
<1>3. CASE ~(q.rc = 0 /\ q.got = "teb")
  BY <1>1, <1>3, Zenon
<1> QED
  BY <1>2, <1>3

\* finalize_guest_state reads the host's GS base before it replaces it, and
\* goes on only with GS on the TEB.
LEMMA FinalizeKeeps ==
    ASSUME StartInv, finalize_guest_state
    PROVE  StartInv'
<1> USE DEF StartInv
<1>1. PICK r \in set_gs_base :
          /\ cpu0' = [cpu0 EXCEPT !.gs = r.gs]
          /\ glob' = [glob EXCEPT !.host_gs_base = cpu0.gs, !.status = IF r.ok THEN @ ELSE 1]
          /\ teb' = [teb EXCEPT !.seh = IF r.ok THEN "crash handler" ELSE @]
          /\ Goto(IF r.ok THEN "jump64" ELSE "exit")
  BY Zenon DEF finalize_guest_state
<1>2. /\ spc = "gs64" /\ UNCHANGED <<prog, regions, lost, peb>> /\ ~Has32
      /\ \A f \in GlobalFields \ {"host_gs_base", "status"} : glob'[f] = glob[f]
      /\ glob'.host_gs_base = cpu0.gs /\ glob' = [f \in GlobalFields |-> glob'[f]]
      /\ teb'.self = teb.self /\ teb'.peb = teb.peb
      /\ \/ spc' = "jump64" /\ cpu0'.gs = "teb" /\ teb'.seh = "crash handler"
         \/ spc' = "exit"
  BY ZenonT(30), <1>1, GsBaseReported DEF finalize_guest_state, Goto, Shape, GlobalFields, Loader, Labels64
<1>3. glob'.is_32bit = glob.is_32bit /\ ~Has32'
  BY <1>2, Zenon DEF Has32, GlobalFields
<1>4. Shape'
  BY <1>1, <1>2, Zenon DEF Shape, Labels32, Labels64
<1>5. Loader' /\ Existing'
  BY <1>2, <1>3, Zenon DEF Loader, Existing, Mapped, Labels32, Labels64, GlobalFields
<1>6. Layout32' /\ Kept'
  BY <1>2, <1>3, Zenon DEF Layout32, Kept, LayoutKept
<1>7. StackRecorded' /\ UnixRecorded'
  BY <1>2, <1>3, RecordsKept, Zenon DEF Fields, Fields64, GlobalFields
<1>8. Fields'
  BY <1>2, <1>3, <1>7, Zenon DEF Fields, Fields64, Labels64, GlobalFields
<1> QED
  BY <1>4, <1>5, <1>6, <1>8

-----------------------------------------------------------------------------
(* my_wine32: the steps that map something *)

\* my_wine32 maps the image at its address, into nothing; a PE64 is refused,
\* and only a user can have started it.
LEMMA MapImage32Keeps ==
    ASSUME StartInv, MapImage32
    PROVE  StartInv'
<1>1. CASE \E s : Die(s)
  BY <1>1, DieKeeps DEF MapImage32
<1>2. CASE prog.kind = "pe64" /\ ~ \E s : Die(s)
  <2> USE DEF StartInv
  <2>1. /\ spc = "map32" /\ spc' = "exit" /\ UNCHANGED <<prog, regions, lost, teb, peb, cpu0>>
        /\ \A f \in GlobalFields \ {"status", "refused"} : glob'[f] = glob[f]
        /\ glob' = [f \in GlobalFields |-> glob'[f]] /\ Has32 /\ glob.via = "user"
    BY <1>2, Zenon DEF MapImage32, Shape, GlobalFields, Loader, Labels32
  <2>2. Shape'
    BY <2>1 DEF Shape
  <2>3. Loader' /\ Existing'
    BY <2>1 DEF Loader, Existing, Mapped, Has32, Labels32, Labels64, GlobalFields
  <2>4. Layout32' /\ Kept'
    BY <2>1, QuietLayout DEF Ceiling, AnyAddress, GlobalFields
  <2>5. Fields'
    BY <2>1 DEF Fields, Fields32, Has32, Labels32, GlobalFields
  <2> QED
    BY <2>2, <2>3, <2>4, <2>5
<1>3. CASE prog.kind = "pe32" /\ ~ \E s : Die(s)
  <2> USE DEF StartInv
  <2>1. /\ spc = "map32" /\ spc' = "bind32" /\ UNCHANGED <<prog, teb, peb, cpu0>>
        /\ \A f \in GlobalFields \ {"image_size"} : glob'[f] = glob[f]
        /\ glob'.image_size = prog.bytes /\ glob' = [f \in GlobalFields |-> glob'[f]]
        /\ Has32 /\ MapFixed("image", IMAGE_BASE, Pages(prog.bytes))
    BY <1>3 DEF MapImage32, Goto, Shape, GlobalFields, Loader, Labels32
  <2>2. Has32'
    BY <2>1 DEF Has32, GlobalFields
  <2>3. DOMAIN regions = {}
    BY <2>1 DEF Existing
  <2>4. Pages(prog.bytes) \in Nat \ {0} /\ IMAGE_BASE \in Nat
    BY PagesRoundUp, ProgramsAssumption DEF Shape, IMAGE_BASE
  <2>5. /\ DOMAIN regions' = {"image"}
        /\ DOMAIN regions' \subseteq RegionNames /\ regions' \in [DOMAIN regions' -> Region]
        /\ regions'["image"] = [base |-> IMAGE_BASE, pages |-> Pages(prog.bytes)]
        /\ lost' = lost
    BY <2>1, <2>3, <2>4 DEF MapFixed, RegionNames, Region
  <2>6. Shape'
    BY <2>1, <2>5 DEF Shape, Labels32, Labels64
  <2>7. Loader' /\ Existing'
    BY <1>3, <2>1, <2>2, <2>5 DEF Loader, Existing, Holds, Mapped, Labels32, Labels64, GlobalFields
  <2>8. Layout32' /\ Kept'
    BY <2>1, <2>2, <2>5 DEF Layout32, At, Mapped, Chosen, Kept, LayoutKept
  <2>9. Fields'
    BY <2>1, <2>2 DEF Fields, Fields32, Labels32, GlobalFields
  <2> QED
    BY <2>6, <2>7, <2>8, <2>9
<1> QED
  BY <1>1, <1>2, <1>3 DEF MapImage32

\* The addresses of the image and the guest stack, which end below the pages
\* that the kernel chooses.
LEMMA Sizes32 ==
    ASSUME Shape, Loader, spc \in Labels32 \ {"map32"}
    PROVE  /\ prog.bytes \in Nat
           /\ Pages(prog.bytes) \in Nat \ {0} /\ IMAGE_BASE + Pages(prog.bytes) <= AnyAddress
           /\ Pages(StackBytes(prog)) \in Nat \ {0} /\ GUEST_STACK_BASE + Pages(StackBytes(prog)) <= AnyAddress
           /\ prog.commit \in Nat
           /\ prog.commit <= GUEST_STACK_SIZE * PAGE_SIZE => Pages(StackBytes(prog)) = GUEST_STACK_SIZE
<1>1. prog.kind = "pe32" /\ prog \in Programs /\ prog.bytes \in Nat \ {0} /\ prog.commit \in Nat
  BY ProgramsAssumption DEF Shape, Loader
<1>2. /\ IMAGE_BASE + Pages(prog.bytes) <= AnyAddress
      /\ GUEST_STACK_BASE + Pages(StackBytes(prog)) <= AnyAddress
  BY <1>1, ProgramsAssumption
<1>3. Pages(prog.bytes) \in Nat \ {0}
  BY <1>1, PagesRoundUp
<1> QED
  BY <1>1, <1>2, <1>3, StackPages DEF GUEST_STACK_SIZE

\* The PEB of my_wine32 lies far above the image.
LEMMA InitPeb32Keeps ==
    ASSUME StartInv, pe32_init_peb_or_exit
    PROVE  StartInv'
<1>1. CASE \E s : Die(s)
  BY <1>1, DieKeeps DEF pe32_init_peb_or_exit
<1>2. CASE ~ \E s : Die(s)
  <2> USE DEF StartInv
  <2>1. /\ spc = "peb32" /\ spc' = "teb32" /\ UNCHANGED <<prog, teb, cpu0, glob>>
        /\ peb'.image = "image" /\ peb'.ldr = peb.ldr
        /\ peb' = [f \in {"image", "heap", "ldr", "params"} |-> peb'[f]]
        /\ Has32 /\ Has32' /\ MapFixed("peb", PEB32_FIXED_ADDR, 1)
    BY <1>2 DEF pe32_init_peb_or_exit, Goto, Shape, Loader, Labels32, Has32
  <2>2. DOMAIN regions = {"image"} /\ "peb" \in RegionNames /\ ~Mapped("peb")
    BY <2>1 DEF Existing, Holds, RegionNames, Mapped
  <2>3. PICK base \in Nat, n \in Nat \ {0} : base = PEB32_FIXED_ADDR /\ n = 1
    BY DEF PEB32_FIXED_ADDR
  <2>4. /\ Layout32'
        /\ DOMAIN regions' = DOMAIN regions \cup {"peb"}
        /\ DOMAIN regions' \subseteq RegionNames /\ regions' \in [DOMAIN regions' -> Region]
        /\ \A l \in lost' : l \in lost \/ \E x \in DOMAIN regions : l = <<x, "peb">> /\ Overlap(regions[x], base, n)
    <3>1. /\ MapFixed("peb", base, n) /\ FixedPlace("peb", base, n)
          /\ "peb" \in RegionNames /\ ~Mapped("peb")
      BY <2>1, <2>2, <2>3 DEF FixedPlace
    <3> HIDE DEF StartInv
    <3>2. Has32 /\ Has32' /\ prog' = prog /\ glob'.image_size = glob.image_size
      BY <2>1
    <3>3. Ceiling = AnyAddress /\ Ceiling' = AnyAddress
      BY <2>1 DEF Ceiling
    <3>4. Ceiling <= Ceiling'
      BY <3>3 DEF AnyAddress
    <3> QED
      BY <3>1, <3>2, <3>4, FixedMapping32, Zenon
  <2>5. ~Overlap(regions["image"], base, n)
    BY <2>1, <2>2, <2>3, Sizes32, SMT DEF Overlap, Layout32, At, Mapped, IMAGE_BASE, AnyAddress, PEB32_FIXED_ADDR, Labels32
  <2>6. Kept'
    BY <2>1, <2>2, <2>4, <2>5 DEF Kept, LayoutKept
  <2>7. Shape'
    BY <2>1, <2>4 DEF Shape, Labels32, Labels64
  <2>8. Loader' /\ Existing'
    BY <2>1, <2>4 DEF Loader, Existing, Holds, Mapped, Labels32, Labels64
  <2>9. Fields'
    BY <2>1 DEF Fields, Fields32, Labels32
  <2> QED
    BY <2>4, <2>6, <2>7, <2>8, <2>9
<1> QED
  BY <1>1, <1>2

\* The TEB of my_wine32 lies below the PEB and touches nothing.
LEMMA InitTeb32Keeps ==
    ASSUME StartInv, pe32_init_teb_or_exit
    PROVE  StartInv'
<1>1. CASE \E s : Die(s)
  BY <1>1, DieKeeps DEF pe32_init_teb_or_exit
<1>2. CASE ~ \E s : Die(s)
  <2> USE DEF StartInv
  <2>1. /\ spc = "teb32" /\ spc' = "heap32" /\ UNCHANGED <<prog, peb, cpu0, glob>>
        /\ teb'.self = "teb" /\ teb'.peb = "peb" /\ teb'.seh = "crash handler"
        /\ teb' = [f \in {"self", "peb", "seh"} |-> teb'[f]]
        /\ Has32 /\ Has32' /\ MapFixed("teb", TEB32_FIXED_ADDR, 1)
    BY <1>2, Zenon DEF pe32_init_teb_or_exit, Goto, Shape, Loader, Labels32, Has32
  <2>2. DOMAIN regions = {"image", "peb"} /\ "teb" \in RegionNames /\ ~Mapped("teb")
    BY <2>1, Zenon DEF Existing, Holds, RegionNames, Mapped
  <2>3. PICK base \in Nat, n \in Nat \ {0} : base = TEB32_FIXED_ADDR /\ n = 1
    BY DEF TEB32_FIXED_ADDR
  <2>4. /\ Layout32'
        /\ DOMAIN regions' = DOMAIN regions \cup {"teb"}
        /\ DOMAIN regions' \subseteq RegionNames /\ regions' \in [DOMAIN regions' -> Region]
        /\ \A l \in lost' : l \in lost \/ \E x \in DOMAIN regions : l = <<x, "teb">> /\ Overlap(regions[x], base, n)
    <3>1. /\ MapFixed("teb", base, n) /\ FixedPlace("teb", base, n)
          /\ "teb" \in RegionNames /\ ~Mapped("teb")
      BY <2>1, <2>2, <2>3, Zenon DEF FixedPlace
    <3> HIDE DEF StartInv
    <3>2. Has32 /\ Has32' /\ prog' = prog /\ glob'.image_size = glob.image_size
      BY <2>1, Zenon
    <3>3. Ceiling = AnyAddress /\ Ceiling' = AnyAddress
      BY <2>1, Zenon DEF Ceiling
    <3>4. Ceiling <= Ceiling'
      BY <3>3 DEF AnyAddress
    <3> QED
      BY <3>1, <3>2, <3>4, FixedMapping32, Zenon
  <2>5. ~Overlap(regions["image"], base, n) /\ ~Overlap(regions["peb"], base, n)
    <3>1. /\ Pages(prog.bytes) \in Nat /\ IMAGE_BASE + Pages(prog.bytes) <= AnyAddress
          /\ regions["image"] = [base |-> IMAGE_BASE, pages |-> Pages(prog.bytes)]
          /\ regions["peb"] = [base |-> PEB32_FIXED_ADDR, pages |-> 1]
      BY <2>1, <2>2, Sizes32, Zenon DEF Layout32, At, Mapped, Labels32
    <3> HIDE DEF StartInv
    <3> QED
      BY <2>3, <3>1, SMT DEF Overlap, IMAGE_BASE, AnyAddress, TEB32_FIXED_ADDR, PEB32_FIXED_ADDR
  <2>6. Kept'
    BY <2>1, <2>2, <2>4, <2>5, Zenon DEF Kept, LayoutKept
  <2>7. Shape'
    BY <2>1, <2>4, Zenon DEF Shape, Labels32, Labels64
  <2>8. Loader' /\ Existing'
    BY <2>1, <2>4, Zenon DEF Loader, Existing, Holds, Mapped, Labels32, Labels64
  <2>9. Fields'
    BY <2>1, Zenon DEF Fields, Fields32, Labels32
  <2> QED
    BY <2>4, <2>6, <2>7, <2>8, <2>9
<1> QED
  BY <1>1, <1>2

\* The process parameters of my_wine32, where the kernel finds room.
LEMMA WireParams32Keeps ==
    ASSUME StartInv, wire_peb32_params
    PROVE  StartInv'
<1> USE DEF StartInv
<1>1. /\ spc = "params32" /\ spc' = "ldr32" /\ UNCHANGED <<prog, teb, cpu0, glob>>
      /\ peb'.image = peb.image /\ peb'.ldr = peb.ldr
      /\ peb' = [f \in {"image", "heap", "ldr", "params"} |-> peb'[f]]
      /\ Has32 /\ Has32' /\ (UNCHANGED <<regions, lost>> \/ MapFree("params", 1))
  BY DEF wire_peb32_params, Goto, Shape, Loader, Labels32, Has32
<1>2. Ceiling = AnyAddress /\ Ceiling' = AnyAddress + 1
  BY <1>1 DEF Ceiling
<1>3. /\ Layout32' /\ Kept'
      /\ DOMAIN regions \subseteq DOMAIN regions' /\ DOMAIN regions' \subseteq DOMAIN regions \cup {"params"}
      /\ DOMAIN regions' \subseteq RegionNames /\ regions' \in [DOMAIN regions' -> Region]
  <2>1. CASE UNCHANGED <<regions, lost>>
    BY <1>1, <1>2, <2>1, QuietLayout DEF Shape, AnyAddress
  <2>2. CASE MapFree("params", 1)
    <3>1. /\ spc \in Labels32 \ {"map32"} /\ "params" \in Chosen /\ ~Mapped("params")
          /\ prog' = prog /\ glob'.image_size = glob.image_size /\ Has32 /\ Has32'
      BY <1>1 DEF Labels32, Chosen, Existing, Holds, Mapped
    <3>2. Ceiling + 1 <= Ceiling'
      BY <1>2 DEF AnyAddress
    <3> HIDE DEF StartInv
    <3> QED
      BY <2>2, <3>1, <3>2, FreeMapping32, Zenon
  <2> QED
    BY <1>1, <2>1, <2>2
<1>4. Shape'
  BY <1>1, <1>3 DEF Shape, Labels32, Labels64
<1>5. Loader' /\ Existing'
  BY <1>1, <1>3 DEF Loader, Existing, Holds, Mapped, Labels32, Labels64
<1>6. Fields'
  BY <1>1, Zenon DEF Fields, Fields32, Labels32
<1> QED
  BY <1>3, <1>4, <1>5, <1>6

\* The loader list of my_wine32; the main module is linked exactly when there
\* is one.
LEMMA WireLdr32Keeps ==
    ASSUME StartInv, wire_peb32_ldr
    PROVE  StartInv'
<1> USE DEF StartInv
<1>1. /\ spc = "ldr32" /\ spc' = "stack32" /\ UNCHANGED <<prog, teb, cpu0>>
      /\ peb'.image = peb.image /\ (peb'.ldr # Null <=> glob'.main_linked)
      /\ peb' = [f \in {"image", "heap", "ldr", "params"} |-> peb'[f]]
      /\ \A f \in GlobalFields \ {"main_linked"} : glob'[f] = glob[f]
      /\ glob' = [f \in GlobalFields |-> glob'[f]]
      /\ Has32 /\ (UNCHANGED <<regions, lost>> \/ MapFree("ldr", 1))
  BY DEF wire_peb32_ldr, Goto, Shape, Loader, Labels32, Fields, Null, GlobalFields
<1>2. Ceiling = AnyAddress + 1 /\ Ceiling' = AnyAddress + 2
  BY <1>1 DEF Ceiling
<1>3. Has32' /\ glob'.is_32bit = glob.is_32bit /\ glob'.image_size = glob.image_size
  BY <1>1, Zenon DEF Has32, GlobalFields
<1>4. /\ Layout32' /\ Kept'
      /\ DOMAIN regions \subseteq DOMAIN regions' /\ DOMAIN regions' \subseteq DOMAIN regions \cup {"ldr"}
      /\ DOMAIN regions' \subseteq RegionNames /\ regions' \in [DOMAIN regions' -> Region]
  <2>1. CASE UNCHANGED <<regions, lost>>
    BY <1>1, <1>2, <1>3, <2>1, QuietLayout DEF Shape, AnyAddress
  <2>2. CASE MapFree("ldr", 1)
    <3>1. /\ spc \in Labels32 \ {"map32"} /\ "ldr" \in Chosen /\ ~Mapped("ldr")
          /\ prog' = prog /\ Has32
      BY <1>1 DEF Labels32, Chosen, Existing, Holds, Mapped
    <3>2. Ceiling + 1 <= Ceiling'
      BY <1>2 DEF AnyAddress
    <3> HIDE DEF StartInv
    <3> QED
      BY <1>3, <2>2, <3>1, <3>2, FreeMapping32, Zenon
  <2> QED
    BY <1>1, <2>1, <2>2
<1>5. Shape'
  BY <1>1, <1>4 DEF Shape, Labels32, Labels64
<1>6. Loader' /\ Existing'
  BY <1>1, <1>3, <1>4 DEF Loader, Existing, Holds, Mapped, Labels32, Labels64, GlobalFields
<1>7. Fields'
  BY <1>1, <1>3, Zenon DEF Fields, Fields32, Labels32, GlobalFields
<1> QED
  BY <1>4, <1>5, <1>6, <1>7

\* setup_stack in the 32-bit process: the guest stack may fall on the end of a
\* large image, and on nothing else.
LEMMA SetupStack32Keeps ==
    ASSUME StartInv, SetupStack32
    PROVE  StartInv'
<1>1. CASE \E s : Die(s)
  BY <1>1, DieKeeps DEF SetupStack32
<1>2. CASE ~ \E s : Die(s)
  <2> USE DEF StartInv
  <2>1. /\ spc = "stack32" /\ spc' = "unix32" /\ UNCHANGED <<prog, teb, peb, cpu0>>
        /\ \A f \in GlobalFields \ {"stack_top", "stack_size"} : glob'[f] = glob[f]
        /\ glob'.stack_size = StackBytes(prog)
        /\ glob'.stack_top = StackTop(regions'["stack"].base, StackBytes(prog))
        /\ glob' = [f \in GlobalFields |-> glob'[f]]
        /\ Has32 /\ MapFixed("stack", GUEST_STACK_BASE, Pages(StackBytes(prog)))
    BY <1>2, Zenon DEF SetupStack32, setup_stack, Goto, Shape, GlobalFields, Loader, Labels32
  <2>2. Has32' /\ glob'.image_size = glob.image_size
    BY <2>1 DEF Has32, GlobalFields
  <2>3. DOMAIN regions \subseteq {"image", "peb", "teb", "params", "ldr"}
    BY <2>1 DEF Existing, Holds
  <2>4. /\ Pages(StackBytes(prog)) \in Nat \ {0} /\ GUEST_STACK_BASE + Pages(StackBytes(prog)) <= AnyAddress
        /\ Pages(prog.bytes) \in Nat
    BY <2>1, Sizes32 DEF Labels32
  <2>5. /\ Layout32'
        /\ DOMAIN regions' = DOMAIN regions \cup {"stack"}
        /\ DOMAIN regions' \subseteq RegionNames /\ regions' \in [DOMAIN regions' -> Region]
        /\ \A l \in lost' : l \in lost \/ \E x \in DOMAIN regions :
              l = <<x, "stack">> /\ Overlap(regions[x], GUEST_STACK_BASE, Pages(StackBytes(prog)))
    <3>1. /\ FixedPlace("stack", GUEST_STACK_BASE, Pages(StackBytes(prog)))
          /\ "stack" \in RegionNames /\ ~Mapped("stack") /\ GUEST_STACK_BASE \in Nat
      BY <2>1, <2>3 DEF FixedPlace, RegionNames, Mapped, GUEST_STACK_BASE
    <3>2. Has32 /\ prog' = prog /\ MapFixed("stack", GUEST_STACK_BASE, Pages(StackBytes(prog)))
      BY <2>1
    <3>3. Ceiling = AnyAddress + 2 /\ Ceiling' = AnyAddress + 2
      BY <2>1 DEF Ceiling
    <3>4. Ceiling <= Ceiling'
      BY <3>3 DEF AnyAddress
    <3> HIDE DEF StartInv
    <3> QED
      BY <2>2, <2>4, <3>1, <3>2, <3>4, FixedMapping32, Zenon
  <2>6. ASSUME NEW x \in DOMAIN regions, Overlap(regions[x], GUEST_STACK_BASE, Pages(StackBytes(prog)))
        PROVE  x = "image" /\ IMAGE_BASE + Pages(prog.bytes) > GUEST_STACK_BASE
    <3>1. CASE x = "image"
      <4>1. regions[x] = [base |-> IMAGE_BASE, pages |-> Pages(prog.bytes)]
        BY <2>1, <3>1 DEF Layout32, At, Mapped
      <4> QED
        BY <2>4, <2>6, <3>1, <4>1 DEF Overlap, IMAGE_BASE, GUEST_STACK_BASE
    <3>2. CASE x \in {"peb", "teb"}
      <4>1. regions[x].base >= TEB32_FIXED_ADDR /\ regions[x].base \in Nat
        BY <2>1, <3>2, SMT DEF Layout32, At, Mapped, PEB32_FIXED_ADDR, TEB32_FIXED_ADDR
      <4> QED
        BY <2>4, <2>6, <4>1, SMT DEF Overlap, AnyAddress, GUEST_STACK_BASE, TEB32_FIXED_ADDR
    <3>3. CASE x \in {"params", "ldr"}
      <4>1. regions[x].base >= AnyAddress /\ regions[x].base \in Nat
        BY <2>1, <3>3 DEF Layout32, Chosen, Shape, Region
      <4> QED
        BY <2>4, <2>6, <4>1 DEF Overlap, AnyAddress, GUEST_STACK_BASE
    <3> QED
      BY <2>3, <3>1, <3>2, <3>3
  <2>7. Kept'
    BY <2>1, <2>2, <2>5, <2>6 DEF Kept, LayoutKept
  <2>8. Shape'
    BY <2>1, <2>5 DEF Shape, Labels32, Labels64
  <2>9. Loader' /\ Existing'
    BY <2>1, <2>2, <2>5 DEF Loader, Existing, Holds, Mapped, Labels32, Labels64, GlobalFields
  <2>10. StackRecorded'
    <3>1. StackTop(regions["stack"].base, glob.stack_size)' = StackTop(regions'["stack"].base, StackBytes(prog))
      BY <2>1, <2>2 DEF StackTop
    <3> QED
      BY <2>1, <3>1 DEF StackRecorded
  <2>11. Fields'
    BY ZenonT(30), <2>1, <2>2, <2>10 DEF Fields, Fields32, Labels32, GlobalFields
  <2> QED
    BY <2>5, <2>7, <2>8, <2>9, <2>11
<1> QED
  BY <1>1, <1>2

\* setup_unix_stack in the 32-bit process: its pages may be those of a guest
\* stack above 512 KB, and no others.
LEMMA UnixStack32Keeps ==
    ASSUME StartInv, UnixStack32
    PROVE  StartInv'
<1>1. CASE \E s : Die(s)
  BY <1>1, DieKeeps DEF UnixStack32
<1>2. CASE ~ \E s : Die(s)
  <2> USE DEF StartInv
  <2>1. /\ spc = "unix32" /\ spc' = "thunks32" /\ UNCHANGED <<prog, teb, peb, cpu0>>
        /\ \A f \in GlobalFields \ {"unix_stack_ptr_val"} : glob'[f] = glob[f]
        /\ glob'.unix_stack_ptr_val = regions'["unix"].base + regions'["unix"].pages
        /\ glob' = [f \in GlobalFields |-> glob'[f]]
        /\ Has32 /\ UnixStackBase # 0 /\ MapFixed("unix", UnixStackBase, UNIX_STACK_SIZE(TRUE))
    BY <1>2, Zenon DEF UnixStack32, setup_unix_stack, Goto, Shape, GlobalFields, Loader, Labels32
  <2>2. Has32' /\ glob'.is_32bit = glob.is_32bit /\ glob'.image_size = glob.image_size
    BY <2>1, Zenon DEF Has32, GlobalFields
  <2>3. /\ {"image", "stack"} \subseteq DOMAIN regions
        /\ DOMAIN regions \subseteq {"image", "peb", "teb", "stack", "params", "ldr"}
    BY <2>1 DEF Existing, Holds
  <2>4. /\ Pages(prog.bytes) \in Nat /\ prog.commit \in Nat /\ Pages(StackBytes(prog)) \in Nat
        /\ prog.commit <= GUEST_STACK_SIZE * PAGE_SIZE => Pages(StackBytes(prog)) = GUEST_STACK_SIZE
    BY <2>1, Sizes32 DEF Labels32
  <2>5. /\ UnixStackBase \in Nat /\ UnixStackBase + 32 <= SIG_STACK_BASE
        /\ IMAGE_BASE + Pages(prog.bytes) <= UnixStackBase
        /\ \/ GUEST_STACK_BASE + GUEST_STACK_SIZE <= UnixStackBase
           \/ UnixStackBase + 32 <= GUEST_STACK_BASE
    <3>1. glob.image_size = prog.bytes /\ prog.bytes \in Nat
      BY <2>1, <2>3, Sizes32 DEF Layout32, Mapped, Labels32
    <3> QED
      BY <2>1, <3>1, UnixStackPlace
  <2>6. PICK n \in Nat \ {0} : n = 32 /\ n = UNIX_STACK_SIZE(TRUE)
    BY DEF UNIX_STACK_SIZE
  <2>7. /\ Layout32'
        /\ DOMAIN regions' = DOMAIN regions \cup {"unix"}
        /\ DOMAIN regions' \subseteq RegionNames /\ regions' \in [DOMAIN regions' -> Region]
        /\ regions'["unix"] = [base |-> UnixStackBase, pages |-> n]
        /\ \A x \in DOMAIN regions : regions'[x] = regions[x]
        /\ \A l \in lost' : l \in lost \/ \E x \in DOMAIN regions :
              l = <<x, "unix">> /\ Overlap(regions[x], UnixStackBase, n)
    <3>1. /\ FixedPlace("unix", UnixStackBase, n)
          /\ "unix" \in RegionNames /\ ~Mapped("unix") /\ UnixStackBase \in Nat
      BY <2>1, <2>3, <2>5, <2>6, Zenon DEF FixedPlace, RegionNames, Mapped
    <3>2. Has32 /\ prog' = prog /\ MapFixed("unix", UnixStackBase, n)
      BY <2>1, <2>6, Zenon
    <3>3. Ceiling = AnyAddress + 2 /\ Ceiling' = AnyAddress + 2
      BY <2>1 DEF Ceiling
    <3>4. Ceiling <= Ceiling'
      BY <3>3 DEF AnyAddress
    <3> HIDE DEF StartInv
    <3> QED
      BY <2>2, <3>1, <3>2, <3>4, FixedMapping32
  <2>8. ASSUME NEW x \in DOMAIN regions, Overlap(regions[x], UnixStackBase, n)
        PROVE  x = "stack" /\ prog.commit > GUEST_STACK_SIZE * PAGE_SIZE
    <3>1. CASE x = "image"
      <4>1. regions[x] = [base |-> IMAGE_BASE, pages |-> Pages(prog.bytes)]
        BY <2>1, <3>1 DEF Layout32, At, Mapped
      <4> QED
        BY <2>4, <2>5, <2>6, <2>8, <4>1 DEF Overlap, IMAGE_BASE
    <3>2. CASE x = "stack"
      <4>1. regions[x] = [base |-> GUEST_STACK_BASE, pages |-> Pages(StackBytes(prog))]
        BY <2>1, <3>2 DEF Layout32, At, Mapped
      <4> QED
        BY <2>4, <2>5, <2>6, <2>8, <3>2, <4>1 DEF Overlap, GUEST_STACK_BASE, GUEST_STACK_SIZE, PAGE_SIZE
    <3>3. CASE x \in {"peb", "teb"}
      <4>1. regions[x].base >= TEB32_FIXED_ADDR /\ regions[x].base \in Nat
        BY <2>1, <3>3, SMT DEF Layout32, At, Mapped, PEB32_FIXED_ADDR, TEB32_FIXED_ADDR
      <4> QED
        BY <2>5, <2>6, <2>8, <4>1, SMT DEF Overlap, SIG_STACK_BASE, TEB32_FIXED_ADDR
    <3>4. CASE x \in {"params", "ldr"}
      <4>1. regions[x].base >= AnyAddress /\ regions[x].base \in Nat
        BY <2>1, <3>4 DEF Layout32, Chosen, Shape, Region
      <4> QED
        BY <2>5, <2>6, <2>8, <4>1 DEF Overlap, AnyAddress, SIG_STACK_BASE
    <3> QED
      BY <2>3, <3>1, <3>2, <3>3, <3>4
  <2>9. Kept'
    BY <2>1, <2>2, <2>7, <2>8 DEF Kept, LayoutKept
  <2>10. Shape'
    BY <2>1, <2>7 DEF Shape, Labels32, Labels64
  <2>11. Loader' /\ Existing'
    BY SMTT(30), <2>1, <2>2, <2>7 DEF Loader, Existing, Holds, Mapped, Labels32, Labels64, GlobalFields
  <2>12. StackRecorded'
    BY <2>1, <2>2, <2>3, <2>7, RecordsKept, Zenon DEF Fields, Fields32, GlobalFields
  <2>13. UnixRecorded'
    BY <2>1, <2>2, <2>6, <2>7 DEF UnixRecorded, UNIX_STACK_SIZE
  <2>14. Fields'
    BY <2>1, <2>2, <2>12, <2>13, Zenon DEF Fields, Fields32, Labels32, GlobalFields
  <2> QED
    BY <2>7, <2>9, <2>10, <2>11, <2>14
<1> QED
  BY <1>1, <1>2

\* The thunks of my_wine32, without which it does not go on.
LEMMA Thunks32Keeps ==
    ASSUME StartInv, Thunks32
    PROVE  StartInv'
<1>1. CASE \E s : Die(s)
  BY <1>1, DieKeeps DEF Thunks32
<1>2. CASE ~ \E s : Die(s)
  <2> USE DEF StartInv
  <2>1. /\ spc = "thunks32" /\ spc' = "signals32" /\ UNCHANGED <<prog, teb, peb, cpu0>>
        /\ \A f \in GlobalFields \ {"thunks"} : glob'[f] = glob[f]
        /\ glob'.thunks /\ glob' = [f \in GlobalFields |-> glob'[f]]
        /\ Has32 /\ MapFree("thunks", 1)
    BY <1>2 DEF Thunks32, Goto, Shape, GlobalFields, Loader, Labels32
  <2>2. Has32' /\ glob'.is_32bit = glob.is_32bit /\ glob'.image_size = glob.image_size
    BY <2>1, Zenon DEF Has32, GlobalFields
  <2>3. /\ Layout32' /\ Kept'
        /\ DOMAIN regions' = DOMAIN regions \cup {"thunks"}
        /\ DOMAIN regions' \subseteq RegionNames /\ regions' \in [DOMAIN regions' -> Region]
        /\ \A x \in DOMAIN regions : regions'[x] = regions[x]
    <3>1. /\ spc \in Labels32 \ {"map32"} /\ "thunks" \in Chosen /\ ~Mapped("thunks")
          /\ prog' = prog /\ Has32 /\ MapFree("thunks", 1)
      BY <2>1 DEF Labels32, Chosen, Existing, Holds, Mapped
    <3>2. Ceiling = AnyAddress + 2 /\ Ceiling' = AnyAddress + 3
      BY <2>1 DEF Ceiling
    <3>3. Ceiling + 1 <= Ceiling'
      BY <3>2 DEF AnyAddress
    <3> HIDE DEF StartInv
    <3> QED
      BY <2>2, <3>1, <3>3, FreeMapping32
  <2>4. Shape'
    BY <2>1, <2>3 DEF Shape, Labels32, Labels64
  <2>5. Loader' /\ Existing'
    BY SMTT(30), <2>1, <2>2, <2>3 DEF Loader, Existing, Holds, Mapped, Labels32, Labels64, GlobalFields
  <2>6. StackRecorded' /\ UnixRecorded'
    BY <2>1, <2>2, <2>3, RecordsKept, Zenon DEF Fields, Fields32, Existing, Holds, GlobalFields
  <2>7. Fields'
    BY <2>1, <2>2, <2>6, Zenon DEF Fields, Fields32, Labels32, GlobalFields
  <2> QED
    BY <2>3, <2>4, <2>5, <2>7
<1> QED
  BY <1>1, <1>2

\* The signal stack lies above the image and the UNIX stack; only a guest stack
\* above 512 KB reaches it.
LEMMA Signals32Keeps ==
    ASSUME StartInv, Signals32
    PROVE  StartInv'
<1> USE DEF StartInv
<1>1. /\ spc = "signals32" /\ spc' = "argv32" /\ UNCHANGED <<prog, teb, peb, cpu0>>
      /\ \A f \in GlobalFields \ {"handlers", "alt_stack"} : glob'[f] = glob[f]
      /\ glob'.handlers /\ glob' = [f \in GlobalFields |-> glob'[f]]
      /\ Has32 /\ (UNCHANGED <<regions, lost>> \/ MapFixed("signal", SIG_STACK_BASE, SIG_STACK_SIZE))
  BY Zenon DEF Signals32, install_crash_signal_handlers, Goto, Shape, GlobalFields, Loader, Labels32
<1>2. Has32' /\ glob'.is_32bit = glob.is_32bit /\ glob'.image_size = glob.image_size
  BY <1>1, Zenon DEF Has32, GlobalFields
<1>3. /\ {"image", "peb", "teb", "stack", "unix"} \subseteq DOMAIN regions
      /\ DOMAIN regions \subseteq {"image", "peb", "teb", "stack", "unix", "thunks", "params", "ldr"}
  BY <1>1 DEF Existing, Holds
<1>4. Ceiling <= Ceiling'
  <2>1. Ceiling = AnyAddress + 3 /\ Ceiling' = AnyAddress + 3
    BY <1>1 DEF Ceiling
  <2> QED
    BY <2>1 DEF AnyAddress
<1>5. /\ Layout32' /\ Kept'
      /\ DOMAIN regions \subseteq DOMAIN regions' /\ DOMAIN regions' \subseteq DOMAIN regions \cup {"signal"}
      /\ DOMAIN regions' \subseteq RegionNames /\ regions' \in [DOMAIN regions' -> Region]
      /\ \A x \in DOMAIN regions : regions'[x] = regions[x]
  <2>1. CASE UNCHANGED <<regions, lost>>
    BY <1>1, <1>2, <1>4, <2>1, QuietLayout DEF Shape
  <2>2. CASE MapFixed("signal", SIG_STACK_BASE, SIG_STACK_SIZE)
    <3>1. PICK base \in Nat, n \in Nat \ {0} : base = SIG_STACK_BASE /\ n = SIG_STACK_SIZE
      BY DEF SIG_STACK_BASE, SIG_STACK_SIZE
    <3>2. /\ Layout32'
          /\ DOMAIN regions' = DOMAIN regions \cup {"signal"}
          /\ DOMAIN regions' \subseteq RegionNames /\ regions' \in [DOMAIN regions' -> Region]
          /\ \A x \in DOMAIN regions : regions'[x] = regions[x]
          /\ \A l \in lost' : l \in lost \/ \E x \in DOMAIN regions :
                l = <<x, "signal">> /\ Overlap(regions[x], base, n)
      <4>1. /\ FixedPlace("signal", base, n) /\ MapFixed("signal", base, n)
            /\ "signal" \in RegionNames /\ ~Mapped("signal") /\ Has32 /\ prog' = prog
        BY <1>1, <1>3, <2>2, <3>1 DEF FixedPlace, RegionNames, Mapped
      <4> HIDE DEF StartInv
      <4> QED
        BY <1>2, <1>4, <4>1, FixedMapping32, Zenon
    <3>3. /\ Pages(prog.bytes) \in Nat /\ prog.commit \in Nat /\ Pages(StackBytes(prog)) \in Nat
          /\ prog.commit <= GUEST_STACK_SIZE * PAGE_SIZE => Pages(StackBytes(prog)) = GUEST_STACK_SIZE
      BY <1>1, Sizes32 DEF Labels32
    <3>4. /\ UnixStackBase \in Nat /\ UnixStackBase + 32 <= SIG_STACK_BASE
          /\ IMAGE_BASE + Pages(prog.bytes) <= UnixStackBase
      <4>1. glob.image_size = prog.bytes /\ prog.bytes \in Nat /\ UnixStackBase # 0
        BY <1>1, <1>3, Sizes32 DEF Layout32, Mapped, Labels32
      <4> QED
        BY <4>1, UnixStackPlace
    <3>5. ASSUME NEW x \in DOMAIN regions, Overlap(regions[x], base, n)
          PROVE  x = "stack" /\ prog.commit > GUEST_STACK_SIZE * PAGE_SIZE
      <4>1. CASE x = "image"
        <5>1. regions[x] = [base |-> IMAGE_BASE, pages |-> Pages(prog.bytes)]
          BY <1>1, <4>1 DEF Layout32, At, Mapped
        <5> QED
          BY <3>1, <3>3, <3>4, <3>5, <5>1 DEF Overlap, IMAGE_BASE, SIG_STACK_BASE
      <4>2. CASE x = "stack"
        <5>1. regions[x] = [base |-> GUEST_STACK_BASE, pages |-> Pages(StackBytes(prog))]
          BY <1>1, <4>2 DEF Layout32, At, Mapped
        <5> QED
          BY <3>1, <3>3, <3>5, <4>2, <5>1
             DEF Overlap, GUEST_STACK_BASE, GUEST_STACK_SIZE, PAGE_SIZE, SIG_STACK_BASE
      <4>3. CASE x = "unix"
        <5>1. regions[x] = [base |-> UnixStackBase, pages |-> 32]
          BY <1>1, <4>3 DEF Layout32, At, Mapped, UNIX_STACK_SIZE
        <5> QED
          BY <3>1, <3>4, <3>5, <5>1 DEF Overlap, SIG_STACK_BASE
      <4>4. CASE x \in {"peb", "teb"}
        <5>1. regions[x].base >= TEB32_FIXED_ADDR /\ regions[x].base \in Nat
          BY <1>1, <4>4, SMT DEF Layout32, At, Mapped, PEB32_FIXED_ADDR, TEB32_FIXED_ADDR
        <5> QED
          BY <3>1, <3>5, <5>1, SMT DEF Overlap, SIG_STACK_BASE, SIG_STACK_SIZE, TEB32_FIXED_ADDR
      <4>5. CASE x \in {"thunks", "params", "ldr"}
        <5>1. regions[x].base >= AnyAddress /\ regions[x].base \in Nat
          BY <1>1, <4>5 DEF Layout32, Chosen, Shape, Region
        <5> QED
          BY <3>1, <3>5, <5>1 DEF Overlap, AnyAddress, SIG_STACK_BASE, SIG_STACK_SIZE
      <4> QED
        BY <1>3, <4>1, <4>2, <4>3, <4>4, <4>5
    <3>6. Kept'
      BY <1>1, <1>2, <3>2, <3>5 DEF Kept, LayoutKept
    <3> QED
      BY <3>2, <3>6
  <2> QED
    BY <1>1, <2>1, <2>2
<1>6. Shape'
  BY <1>1, <1>5 DEF Shape, Labels32, Labels64
<1>7. Loader' /\ Existing'
  BY <1>1, <1>2, <1>5 DEF Loader, Existing, Holds, Mapped, Labels32, Labels64, GlobalFields
<1>8. StackRecorded' /\ UnixRecorded'
  BY <1>1, <1>2, <1>3, <1>5, RecordsKept, Zenon DEF Fields, Fields32, GlobalFields
<1>9. Fields'
  BY <1>1, <1>2, <1>8, Zenon DEF Fields, Fields32, Labels32, GlobalFields
<1> QED
  BY <1>5, <1>6, <1>7, <1>9

\* The argument vector of my_wine32, without which it does not go on.
LEMMA Argv32Keeps ==
    ASSUME StartInv, ensure_argv_setup
    PROVE  StartInv'
<1>1. CASE \E s : Die(s)
  BY <1>1, DieKeeps DEF ensure_argv_setup
<1>2. CASE ~ \E s : Die(s)
  <2> USE DEF StartInv
  <2>1. /\ spc = "argv32" /\ spc' = "jump32" /\ UNCHANGED <<prog, teb, peb, cpu0>>
        /\ \A f \in GlobalFields \ {"argv"} : glob'[f] = glob[f]
        /\ glob'.argv /\ glob' = [f \in GlobalFields |-> glob'[f]]
        /\ Has32 /\ MapFree("argv", 1)
    BY <1>2 DEF ensure_argv_setup, Goto, Shape, GlobalFields, Loader, Labels32
  <2>2. Has32' /\ glob'.is_32bit = glob.is_32bit /\ glob'.image_size = glob.image_size
    BY <2>1, Zenon DEF Has32, GlobalFields
  <2>3. /\ Layout32' /\ Kept'
        /\ DOMAIN regions' = DOMAIN regions \cup {"argv"}
        /\ DOMAIN regions' \subseteq RegionNames /\ regions' \in [DOMAIN regions' -> Region]
        /\ \A x \in DOMAIN regions : regions'[x] = regions[x]
    <3>1. /\ spc \in Labels32 \ {"map32"} /\ "argv" \in Chosen /\ ~Mapped("argv")
          /\ prog' = prog /\ Has32 /\ MapFree("argv", 1)
      BY <2>1 DEF Labels32, Chosen, Existing, Holds, Mapped
    <3>2. Ceiling = AnyAddress + 3 /\ Ceiling' = AnyAddress + 4
      BY <2>1 DEF Ceiling
    <3>3. Ceiling + 1 <= Ceiling'
      BY <3>2 DEF AnyAddress
    <3> HIDE DEF StartInv
    <3> QED
      BY <2>2, <3>1, <3>3, FreeMapping32
  <2>4. Shape'
    BY <2>1, <2>3 DEF Shape, Labels32, Labels64
  <2>5. Loader' /\ Existing'
    BY SMTT(30), <2>1, <2>2, <2>3 DEF Loader, Existing, Holds, Mapped, Labels32, Labels64, GlobalFields
  <2>6. StackRecorded' /\ UnixRecorded'
    BY ZenonT(30), <2>1, <2>2, <2>3, RecordsKept DEF Fields, Fields32, Existing, Holds, GlobalFields
  <2>7. Fields'
    BY <2>1, <2>2, <2>6, Zenon DEF Fields, Fields32, Labels32, GlobalFields
  <2> QED
    BY <2>3, <2>4, <2>5, <2>7
<1> QED
  BY <1>1, <1>2

-----------------------------------------------------------------------------
(* The theorems *)

\* Every state that start-up can reach satisfies the invariant.
THEOREM StartInvariance == StartSpec => []StartInv
<1>1. StartInit => StartInv
  <2> SUFFICES ASSUME StartInit PROVE StartInv
    OBVIOUS
  <2>1. Shape
    BY Zenon DEF StartInit, Shape, NoGlobals, GlobalFields, Labels32, Labels64
  <2>2. /\ glob.is_32bit <=> spc = "map32"
        /\ glob.via = IF spc = "wrapper" THEN "wrapper" ELSE "user"
        /\ ~glob.refused /\ ~glob.main_linked
    BY Zenon DEF StartInit, NoGlobals
  <2>3. DOMAIN regions = {} /\ lost = {} /\ spc \in {"wrapper", "map32", "map64"}
        /\ peb.ldr = Null /\ cpu0.gs = "host" /\ cpu0.fs = "host"
    BY DEF StartInit
  <2>4. Loader /\ Existing
    BY <2>2, <2>3 DEF Loader, Existing, Has32, Mapped, Labels32, Labels64
  <2>5. Layout32 /\ Kept
    BY <2>3 DEF Layout32, At, Mapped, Kept, LayoutKept
  <2>6. Fields
    BY <2>2, <2>3, Zenon DEF Fields, Fields32, Fields64, Has32, Labels32, Labels64
  <2> QED
    BY <2>1, <2>4, <2>5, <2>6 DEF StartInv
<1>2. StartInv /\ [StartNext]_startVars => StartInv'
  <2> SUFFICES ASSUME StartInv, [StartNext]_startVars PROVE StartInv'
    OBVIOUS
  <2>1. CASE UNCHANGED startVars
    <3>1. UNCHANGED <<prog, spc, regions, lost, teb, peb, cpu0, glob>>
      BY <2>1 DEF startVars
    <3>2. Shape' /\ Loader'
      BY <3>1 DEF StartInv, Shape, Loader, Has32
    <3>3. Existing'
      BY <3>1 DEF StartInv, Existing, Holds, Mapped, Has32
    <3>4. Layout32' /\ Kept'
      BY <3>1, QuietLayout DEF Ceiling, AnyAddress
    <3>5. (StackRecorded => StackRecorded') /\ (UnixRecorded => UnixRecorded')
      BY <3>1, RecordsKept
    <3>6. Fields'
      <4>1. Fields32 => Fields32'
        BY <3>1, <3>5, Zenon DEF Fields32
      <4>2. Fields64 => Fields64'
        BY <3>1, <3>5, Zenon DEF Fields64
      <4> QED
        BY <3>1, <4>1, <4>2 DEF StartInv, Fields, Has32
    <3> QED
      BY <3>2, <3>3, <3>4, <3>6 DEF StartInv
  <2>2. CASE StartNext
    BY <2>2, WrapperKeeps, MapImage64Keeps, RejectPe32Keeps, ResolveImports64Keeps, AllocTebKeeps, AllocPebKeeps,
       WirePeb64Keeps, SetupStack64Keeps, SeedGuest64Keeps, Signals64Keeps, Thunks64Keeps, UnixStack64Keeps,
       FinalPatchesKeeps, FinalizeKeeps, Jump64Keeps, MapImage32Keeps, ResolveImports32Keeps, InitPeb32Keeps,
       InitTeb32Keeps, WireHeap32Keeps, WireParams32Keeps, WireLdr32Keeps, SetupStack32Keeps, UnixStack32Keeps,
       Thunks32Keeps, Signals32Keeps, Argv32Keeps, Jump32Keeps DEF StartNext
  <2> QED
    BY <2>1, <2>2
<1> QED
  BY <1>1, <1>2, PTL DEF StartSpec

\* Whatever the sizes in the file, and whatever mapping fails, a mapping of the
\* loaders replaces another only in the two cases that LayoutKept names.
THEOREM LayoutSafe == StartSpec => []LayoutKept
<1>1. StartInv => LayoutKept
  BY DEF StartInv, Kept
<1> QED
  BY <1>1, StartInvariance, PTL

\* The first frame: below the top that setup_stack computed, which lies in the
\* mapped stack, and aligned as a 32-bit call would leave it.
LEMMA EntryFrameInStack ==
    ASSUME StartInv
    PROVE  EntryFrame
<1> SUFFICES ASSUME spc = "guest" PROVE EntryFrame
  BY DEF EntryFrame
<1> DEFINE base == regions["stack"].base
           bytes == StackBytes(prog)
           end == base * PAGE_SIZE + bytes
<1>1. base \in Nat /\ "stack" \in DOMAIN regions
  BY DEF StartInv, Shape, Existing, Region
<1>2. bytes \in Nat /\ bytes >= 524288
  BY StackPages, ProgramsAssumption DEF StartInv, Shape
<1>3. glob.stack_size = bytes /\ glob.stack_top = StackTop(base, bytes)
  BY Zenon DEF StartInv, Fields, Fields32, Fields64, StackRecorded
<1>4. base * PAGE_SIZE \in Nat /\ end \in Nat
  BY <1>1, <1>2 DEF PAGE_SIZE
<1>5. CASE Has32
  <2>1. glob.sp = (glob.stack_top \div 16) * 16 - 4 /\ glob.frame \in {16, 20}
    BY <1>5, Zenon DEF StartInv, Fields, Fields32
  <2>2. glob.stack_top = ((end - 32) \div 16) * 16
    BY <1>3, <1>5 DEF StackTop
  <2>3. PICK q \in Int : q = (end - 32) \div 16 /\ 16 * q <= end - 32 /\ end - 32 < 16 * q + 16
    BY <1>4
  <2>4. (q * 16) \div 16 = q
    BY <2>3
  <2>5. glob.sp = q * 16 - 4
    BY <2>1, <2>2, <2>3, <2>4
  <2>6. (glob.sp + 4) % 16 = 0
    BY <2>3, <2>5
  <2> QED
    BY <1>2, <1>3, <1>4, <2>1, <2>3, <2>5, <2>6 DEF EntryFrame
<1>6. CASE ~Has32
  <2>1. glob.sp = glob.stack_top - 8 /\ glob.frame = 8
    BY <1>6, Zenon DEF StartInv, Fields, Fields64
  <2>2. glob.stack_top = ((end - 24) \div 16) * 16 + 8
    BY <1>3, <1>6 DEF StackTop
  <2>3. PICK q \in Int : q = (end - 24) \div 16 /\ 16 * q <= end - 24 /\ end - 24 < 16 * q + 16
    BY <1>4
  <2>4. glob.sp = q * 16
    BY <2>1, <2>2, <2>3
  <2> QED
    BY <1>2, <1>3, <1>4, <1>6, <2>1, <2>3, <2>4 DEF EntryFrame
<1> QED
  BY <1>5, <1>6

\* A guest that is entered has what it was promised, its TEB selected and its
\* first frame in its stack; an exit leaves no half-made block; the wrapper never
\* starts the loader that refuses the file.
THEOREM GuestsStartSafely == StartSpec => []GuestStarts
<1>1. StartInv => GuestStarts
  <2> SUFFICES ASSUME StartInv PROVE GuestStarts
    OBVIOUS
  <2>1. RightLoader
    BY DEF StartInv, Loader, RightLoader
  <2>2. EntryFrame
    BY EntryFrameInStack
  <2>3. TebSelected
    BY Zenon DEF StartInv, Fields, Fields32, Fields64, TebSelected
  <2>4. TebWithPeb
    BY DEF StartInv, Existing, TebWithPeb
  <2>5. GuestProvided
    <3> SUFFICES ASSUME spc = "guest" PROVE GuestProvided
      BY Zenon DEF GuestProvided
    <3>1. /\ teb.self = "teb" /\ teb.peb = "peb" /\ teb.seh = "crash handler" /\ peb.image = "image"
          /\ glob.handlers /\ glob.argv /\ UnixRecorded
          /\ Has32 => glob.bound /\ glob.thunks
      BY Zenon DEF StartInv, Fields, Fields32, Fields64
    <3>2. teb = [self |-> "teb", peb |-> "peb", seh |-> "crash handler"]
      BY <3>1, Zenon DEF StartInv, Shape
    <3>3. \A l \in lost : l[1] \in {"image", "stack"}
      BY DEF StartInv, Kept, LayoutKept
    <3>4. (peb.ldr # Null) <=> glob.main_linked
      BY DEF StartInv, Fields
    <3>5. /\ {"image", "teb", "peb", "stack", "unix"} \subseteq DOMAIN regions
          /\ Has32 => "argv" \in DOMAIN regions
      BY DEF StartInv, Existing
    <3> QED
      BY <3>1, <3>2, <3>3, <3>4, <3>5, Zenon DEF GuestProvided, UnixRecorded
  <2> QED
    BY <2>1, <2>2, <2>3, <2>4, <2>5 DEF GuestStarts
<1> QED
  BY <1>1, StartInvariance, PTL
=============================================================================
