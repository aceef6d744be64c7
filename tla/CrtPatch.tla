------------------------------ MODULE CrtPatch ------------------------------
(***************************************************************************)
(* Bypassing the guest's C runtime: which runtime a program was linked     *)
(* with, where its argc, argv and envp are, which words of the image are   *)
(* patched, and where execution starts.  All of it is decided from the     *)
(* COFF symbol table (pe_symbols.c, crt_offset_discovery.c) by crt.c and   *)
(* its two modules, crt_mingw.c and crt_watcom.c, and by                   *)
(* pe32_entry_resolve.c.  One behaviour follows one program.               *)
(*                                                                         *)
(* A symbol name longer than eight characters is read from the string      *)
(* table.  Its offset counts from the table's length word, which the       *)
(* parsers have already skipped, so four characters are lost: ReadAs gives *)
(* what is left of a long name.                                            *)
(***************************************************************************)
EXTENDS Integers, Sequences, SequencesExt

CONSTANTS
    CrtImages,        \* programs: [pe32, symbols, bss, sections, slots, stub, entry,
                   \*   rw: mprotect succeeds, named95: it is called DOOM95.EXE,
                   \*   runtime95: it has Doom95's size, entry point and runtime words]
    ReadAs,        \* long symbol name -> what get_symbol_name returns
    Within,        \* such a name, if longer than 8 -> the names sought that it contains
    AddressSpace   \* 2^32, scaled down

MINGW_BSS_INITENV == 24
MINGW_BSS_ARGV == 32
MINGW_BSS_ARGC == 40
MINGW_BSS_INITIALIZED == 48
MINGW_INITIALIZED_FALLBACK_BSS_OFFSET == 64
\* Words of Doom95's runtime, scaled with the address space.
DOOM95_STD_HANDLE_COUNT_RVA == AddressSpace - 4
DOOM95_STD_HANDLE_TABLE_RVA == AddressSpace - 3
DOOM95_TRAP_FLAG_RVA == AddressSpace - 2
DOOM95_COMMAND_ARRAY_RVA == AddressSpace - 1

ASSUME CrtPatchAssumption ==
    \A f \in CrtImages : /\ f.bss \in 0 .. AddressSpace - 1
                      /\ \A i \in DOMAIN f.symbols : f.symbols[i].aux \in Nat

VARIABLES
    cfile,   \* the program
    cpc,     \* the step that comes next
    crt,     \* active_crt
    ctx,     \* crt_ctx: [bss_vaddr, argc, argv, envp]
    cmem,    \* words written: address in the image -> value
    centry   \* [rva, type]: entry point and g_entry_type

crtVars == <<cfile, cpc, crt, ctx, cmem, centry>>

-----------------------------------------------------------------------------
(* Symbol tables: entries [name, sec, value, aux], value being the RVA      *)
(* where sec is a section and aux the number of auxiliary records after it. *)

get_symbol_name(s) == IF s.name \in DOMAIN ReadAs THEN ReadAs[s.name] ELSE s.name

\* Entries that follow a symbol as auxiliary records are passed over.
Visited(f) ==
    LET at[i \in DOMAIN f.symbols] ==   \* whether the walk stops at i
          \/ i = 1
          \/ \E j \in 1 .. i - 1 : at[j] /\ i = j + f.symbols[j].aux + 1
    IN  {i \in DOMAIN f.symbols : at[i]}

InSection(s) == s.sec \notin {"absolute", "debug"}

First(S) == CHOOSE i \in S : \A j \in S : i <= j
Latest(S) == CHOOSE i \in S : \A j \in S : j <= i

\* lookup_symbol_rva: the first match that has a section or is absolute.
lookup_symbol_rva(f, name) ==
    LET hits == {i \in Visited(f) : get_symbol_name(f.symbols[i]) = name /\ f.symbols[i].sec # "debug"}
    IN  IF hits = {} THEN 0 ELSE f.symbols[First(hits)].value
\* lookup_symbol_value does not ask for a section.
lookup_symbol_value(f, name) ==
    LET hits == {i \in Visited(f) : get_symbol_name(f.symbols[i]) = name}
    IN  IF hits = {} THEN 0 ELSE f.symbols[First(hits)].value

\* match_symbol_name: equal, behind a .refptr prefix, or anywhere in a name
\* longer than eight.
match_symbol_name(s, name) ==
    LET read == get_symbol_name(s) IN read = name \/ (read \in DOMAIN Within /\ name \in Within[read])
\* find_matching_symbol visits auxiliary records too; the first match with a
\* section wins, before that the last absolute one.
find_symbol_rva_from_file(f, name) ==
    LET hits == {i \in DOMAIN f.symbols : match_symbol_name(f.symbols[i], name) /\ f.symbols[i].sec # "debug"}
        bound == {i \in hits : InSection(f.symbols[i])}
    IN  IF bound # {} THEN f.symbols[First(bound)].value
        ELSE IF hits # {} THEN f.symbols[Latest(hits)].value ELSE 0

-----------------------------------------------------------------------------
(* Detection *)

mingw_detect(f) == \E m \in {"__CTOR_LIST__", "__xi_a", "__xc_a"} : find_symbol_rva_from_file(f, m) # 0
watcom_detect(f) ==
    \/ ".mmh" \in f.sections
    \/ {"BEGTEXT", "DGROUP"} \subseteq f.sections
    \/ \E m \in {"D_DoomMain", "_D_DoomMain", "_cstartup", "_startup"} : lookup_symbol_rva(f, m) # 0
crt_detect_type(f) ==
    IF mingw_detect(f) THEN "mingw"
    ELSE IF watcom_detect(f) THEN "watcom"
    ELSE IF f.pe32 /\ \E m \in {"D_DoomMain", "_D_DoomMain"} : lookup_symbol_value(f, m) # 0 THEN "watcom"
    ELSE "mingw"

DetectCrt ==
    /\ cpc = "detect"
    /\ crt' = crt_detect_type(cfile)
    /\ cpc' = "patch"
    /\ UNCHANGED <<cfile, ctx, cmem, centry>>

-----------------------------------------------------------------------------
(* Where argc, argv and envp are *)

\* The two modules look symbols up differently and agree on the names, the
\* order and the offsets to fall back on; offset 0 counts as not found.
SymbolOffset(names, fallback) ==
    LET find(n) == IF crt = "mingw" THEN find_symbol_rva_from_file(cfile, n) ELSE lookup_symbol_rva(cfile, n)
        hits == {i \in DOMAIN names : find(names[i]) # 0}
        offset == IF hits = {} THEN 0 ELSE (find(names[First(hits)]) - cfile.bss) % AddressSpace
    IN  IF offset = 0 THEN fallback ELSE offset
\* Mutant: argv and envp are taken for each other.
discover_offsets_crossed ==
    [bss_vaddr |-> cfile.bss,
     argc |-> SymbolOffset(<<"_argc", "__argc">>, MINGW_BSS_ARGC),
     argv |-> SymbolOffset(<<"_environ", "__envp">>, MINGW_BSS_ARGV),
     envp |-> SymbolOffset(<<"_argv", "__argv">>, MINGW_BSS_INITENV)]
discover_offsets ==
    [bss_vaddr |-> cfile.bss,
     argc |-> SymbolOffset(<<"_argc", "__argc">>, MINGW_BSS_ARGC),
     argv |-> SymbolOffset(<<"_argv", "__argv">>, MINGW_BSS_ARGV),
     envp |-> SymbolOffset(<<"_environ", "__envp">>, MINGW_BSS_INITENV)]

Write(m, at, v) == [a \in DOMAIN m \cup {at} |-> IF a = at THEN v ELSE m[a]]

-----------------------------------------------------------------------------
(* Reference pointers (mingw) *)

\* mingw_refptr_mappings, shortened: one .CRT list, two variables and initenv.
mingw_refptr_mappings == <<"__xi_a", "_commode", "__imp___initenv", "_fmode">>
IsCrtList(name) == name = "__xi_a"
HasSymbol(name) == find_symbol_rva_from_file(cfile, name) # 0

\* with_mprotect_rw may fail; then the word stays.
apply_refptr_patch(m, at, v) == IF cfile.rw THEN Write(m, at, v) ELSE m

\* First every mapping that has a symbol.
PatchBySymbol(m0) ==
    FoldLeft(LAMBDA m, name : IF HasSymbol(name) THEN apply_refptr_patch(m, find_symbol_rva_from_file(cfile, name), name) ELSE m,
             m0, mingw_refptr_mappings)
\* Then every word of .rdata and .data that points into .bss gets the next
\* mapping that has none and is not a .CRT list.
Candidates(next) ==
    {i \in next .. Len(mingw_refptr_mappings) :
       ~HasSymbol(mingw_refptr_mappings[i]) /\ ~IsCrtList(mingw_refptr_mappings[i])}
PatchByScan(m0) ==
    FoldLeft(LAMBDA acc, s :
               IF s.at \in DOMAIN acc.m \/ ~s.bss \/ Candidates(acc.next) = {} THEN acc
               ELSE LET i == First(Candidates(acc.next)) IN
                    [m |-> apply_refptr_patch(acc.m, s.at, mingw_refptr_mappings[i]), next |-> i + 1,
                     initenv |-> acc.initenv \/ mingw_refptr_mappings[i] = "__imp___initenv"],
             [m |-> m0, next |-> 1, initenv |-> HasSymbol("__imp___initenv")], cfile.slots)
\* scan_text_for_refptrs: words the code reads, follows and stores through.
PatchByCode(m0) ==
    FoldLeft(LAMBDA m, s : IF s.stored THEN apply_refptr_patch(m, s.at, "initenv_stub") ELSE m, m0, cfile.slots)

\* mingw_patch_refptrs.  Without .bss there is no stub for initenv and
\* nothing to scan for.
mingw_patch_refptrs ==
    LET flag == IF cfile.bss # 0 THEN Write(cmem, cfile.bss + MINGW_BSS_INITIALIZED, "one") ELSE cmem
        symbols == PatchBySymbol(flag)
        scan == PatchByScan(symbols)
        m == IF cfile.bss # 0 THEN scan.m ELSE symbols
        initenv == IF cfile.bss # 0 THEN scan.initenv ELSE HasSymbol("__imp___initenv")
    IN  IF ~initenv /\ cfile.bss # 0 THEN PatchByCode(m) ELSE m
\* watcom_seed_doom95_runtime: a fresh table of three handles, if the image
\* reaches the words that name it.
watcom_seed_doom95_runtime(m) ==
    IF ~cfile.runtime95 THEN m
    ELSE Write(Write(Write(m, DOOM95_STD_HANDLE_COUNT_RVA, "three"), DOOM95_STD_HANDLE_TABLE_RVA, "table"),
               DOOM95_TRAP_FLAG_RVA, "null")
\* watcom_patch_refptrs: only the flag, if .bss can be made writable.
watcom_patch_refptrs ==
    LET m == IF cfile.bss # 0 /\ cfile.rw THEN Write(cmem, cfile.bss + MINGW_BSS_INITIALIZED, "one") ELSE cmem
    IN  IF cfile.named95 THEN watcom_seed_doom95_runtime(m) ELSE m

crt_patch_refptrs ==
    /\ cpc = "patch"
    /\ ctx' = discover_offsets
    /\ cmem' = IF crt = "mingw" THEN mingw_patch_refptrs ELSE watcom_patch_refptrs
    /\ cpc' = IF cfile.pe32 THEN "entry" ELSE "seed"
    /\ UNCHANGED <<cfile, crt, centry>>

-----------------------------------------------------------------------------
(* The entry point *)

mingw_entry_symbols ==
    <<"_WinMain@16", "_wWinMain@16", "_WinMain", "_wWinMain", "WinMain@16", "wWinMain@16",
      "Main@16", "wMain@16", "WinMain", "wWinMain", "main">>
watcom_entry_symbols == <<"D_DoomMain", "_D_DoomMain", "main">>
crt_entry_symbols == IF crt = "mingw" THEN mingw_entry_symbols ELSE watcom_entry_symbols

\* The first of names with an address: its position, or 0.
FirstDefined(names) ==
    LET hits == {i \in DOMAIN names : lookup_symbol_rva(cfile, names[i]) # 0}
    IN  IF hits = {} THEN 0 ELSE First(hits)

EntryType(name) ==
    IF name \in {"_WinMain@16", "_WinMain", "WinMain@16", "WinMain", "Main@16"} THEN "winmain"
    ELSE IF name \in {"_wWinMain@16", "_wWinMain", "wWinMain@16", "wWinMain", "wMain@16"} THEN "wwinmain" ELSE "main"

\* pe32_extract_watcom_entry_from_entry_stub: the entry point stores the
\* address of the user's function and branches; the store, the function and
\* the branch must each lie where they should.
WatcomStub == crt = "watcom" /\ cfile.stub.store = "writable" /\ cfile.stub.branch = "code" /\ cfile.stub.func # 0

pe32_resolve_entry_symbol ==
    LET at == FirstDefined(crt_entry_symbols)
        plain == FirstDefined(<<"_main", "main">>)
        rva == IF at # 0 THEN lookup_symbol_rva(cfile, crt_entry_symbols[at])
               ELSE IF plain # 0 THEN lookup_symbol_rva(cfile, <<"_main", "main">>[plain])
               ELSE cfile.entry
    IN  IF cfile.named95 THEN [rva |-> cfile.entry, type |-> "main"]
        ELSE [rva |-> IF rva = cfile.entry /\ WatcomStub THEN cfile.stub.func ELSE rva,
              type |-> IF at # 0 THEN EntryType(crt_entry_symbols[at]) ELSE "main"]

\* init_loader: no names beyond the module's, no stub, always main's frame.
EntrySymbol64 ==
    LET at == FirstDefined(crt_entry_symbols)
    IN  [rva |-> IF at # 0 THEN lookup_symbol_rva(cfile, crt_entry_symbols[at]) ELSE cfile.entry, type |-> "main"]

ResolveEntry ==
    /\ cpc = "entry"
    /\ centry' = IF cfile.pe32 THEN pe32_resolve_entry_symbol ELSE EntrySymbol64
    /\ cpc' = IF cfile.pe32 THEN "initialized" ELSE "done"
    /\ UNCHANGED <<cfile, crt, ctx, cmem>>

\* A mingw program with symbols has its _initialized set, or the word 64
\* bytes into .bss.
pe32_patch_crt_initialized ==
    /\ cpc = "initialized"
    /\ LET named == lookup_symbol_rva(cfile, "_initialized")
           rva == IF named # 0 THEN named
                  ELSE IF cfile.bss # 0 THEN cfile.bss + MINGW_INITIALIZED_FALLBACK_BSS_OFFSET ELSE 0
       IN  cmem' = IF crt = "mingw" /\ cfile.symbols # <<>> /\ rva # 0 /\ cfile.rw THEN Write(cmem, rva, "one") ELSE cmem
    /\ cpc' = "seed"
    /\ UNCHANGED <<cfile, crt, ctx, centry>>

-----------------------------------------------------------------------------
(* Seeding argc, argv and envp *)

\* A 32-bit pointer wraps around; a 64-bit one does not.
BssAddress(offset) ==
    IF cfile.pe32 THEN (ctx.bss_vaddr + offset) % AddressSpace ELSE ctx.bss_vaddr + offset
\* A 64-bit program is given no argv and no envp here.
seed_bss ==
    Write(Write(Write(cmem, BssAddress(ctx.argc), "one"),
                BssAddress(ctx.argv), IF cfile.pe32 THEN "argv" ELSE "null"),
          BssAddress(ctx.envp), IF cfile.pe32 THEN "envp" ELSE "null")
\* The Watcom module ends with Doom95's runtime if the layout is Doom95's.
crt_seed_bss ==
    /\ cpc = "seed"
    /\ cmem' = IF ctx.bss_vaddr = 0 \/ ~cfile.rw THEN cmem
               ELSE IF crt = "watcom" THEN watcom_seed_doom95_runtime(seed_bss) ELSE seed_bss
    /\ cpc' = IF cfile.pe32 THEN "doom95" ELSE "entry"
    /\ UNCHANGED <<cfile, crt, ctx, centry>>

\* pe32_apply_doom95_runtime_compat: once more by name, and the command line.
pe32_apply_doom95_runtime_compat ==
    /\ cpc = "doom95"
    /\ cmem' = IF cfile.named95 /\ cfile.runtime95
               THEN Write(watcom_seed_doom95_runtime(cmem), DOOM95_COMMAND_ARRAY_RVA, "basewad") ELSE cmem
    /\ cpc' = "done"
    /\ UNCHANGED <<cfile, crt, ctx, centry>>

-----------------------------------------------------------------------------
CrtInit ==
    /\ cfile \in CrtImages
    /\ cpc = "detect"
    /\ crt = "none"
    /\ ctx = [bss_vaddr |-> 0, argc |-> 0, argv |-> 0, envp |-> 0]
    /\ cmem = <<>>
    /\ centry = [rva |-> 0, type |-> "main"]

CrtNext == DetectCrt \/ crt_patch_refptrs \/ ResolveEntry \/ pe32_patch_crt_initialized \/ crt_seed_bss
           \/ pe32_apply_doom95_runtime_compat

-----------------------------------------------------------------------------
(* Properties *)

\* The true names whose functions take WinMain's four arguments.
WinMainNames == {"_WinMain@16", "_WinMain", "WinMain@16", "WinMain", "_wWinMain@16", "_wWinMain", "wWinMain@16", "wWinMain"}
Defines(f, i, name) == i \in Visited(f) /\ f.symbols[i].name = name /\ f.symbols[i].sec # "debug"

\* A PE32 program that bypasses its runtime (pe32_resolve_entry_symbol) starts
\* at a symbol of its own, never at an auxiliary record, and gets WinMain's
\* frame exactly when the symbol's true name, which the lookup does not see in
\* full, is that of a WinMain.
FrameFitsEntry ==
    cpc = "done" /\ cfile.pe32 /\ centry.rva \notin {cfile.entry, cfile.stub.func} =>
      \E i \in Visited(cfile) :
        /\ cfile.symbols[i].value = centry.rva
        /\ (centry.type # "main") = (cfile.symbols[i].name \in WinMainNames)

\* A program that names its argc, argv and envp has each of them seeded where
\* its symbol is (crt_patch_refptrs, crt_seed_bss), if none of them is the
\* first word of .bss; a 64-bit program also needs them above .bss.
SeedsLand ==
    cpc = "done" /\ cfile.bss # 0 /\ cfile.rw =>
      \A a, v, e \in DOMAIN cfile.symbols :
        (/\ Defines(cfile, a, "_argc") /\ Defines(cfile, v, "_argv") /\ Defines(cfile, e, "_environ")
         /\ \A i \in {a, v, e} : InSection(cfile.symbols[i]) /\ cfile.symbols[i].value # cfile.bss
         /\ cfile.pe32 \/ \A i \in {a, v, e} : cfile.symbols[i].value > cfile.bss)
        => /\ cmem[cfile.symbols[a].value] = "one"
           /\ cmem[cfile.symbols[v].value] = IF cfile.pe32 THEN "argv" ELSE "null"
           /\ cmem[cfile.symbols[e].value] = IF cfile.pe32 THEN "envp" ELSE "null"

\* No runtime variable is handed out twice (mingw_patch_refptrs): the scan of
\* the data sections gives a mapping to one word at most, and to none if the
\* symbol table has already placed it.
OneSlotEach ==
    crt = "mingw" =>
      \A i \in DOMAIN mingw_refptr_mappings :
        LET name == mingw_refptr_mappings[i]
            holders == {j \in DOMAIN cfile.slots : cfile.slots[j].at \in DOMAIN cmem /\ cmem[cfile.slots[j].at] = name}
        IN  /\ \A j, k \in holders : j = k
            /\ HasSymbol(name) => \A j \in holders : cfile.slots[j].at = find_symbol_rva_from_file(cfile, name)

\* A program whose runtime start-up is skipped finds its runtime's variables in
\* place and enters at its own function with that function's frame.
RuntimePrepared == FrameFitsEntry /\ SeedsLand /\ OneSlotEach
=============================================================================
