------------------------------- MODULE MCLoad -------------------------------
(***************************************************************************)
(* Model-checking instance for loading and starting a program: the module  *)
(* registry, mapping an image, binding its imports, searching libraries,   *)
(* the way into the guest, its runtime's variables, and its system calls.  *)
(* These models share no state, so each behaviour follows one of them,     *)
(* which `half` names.                                                     *)
(***************************************************************************)
EXTENDS DllLoader, ImageMapper, ImportBinding, DllSearch, Startup, CrtPatch, Dispatcher

CONSTANT Halves    \* the models a run explores

(* Libraries: imports that form a chain, a fork with a shared import, or a cycle *)

MCDlls == {"a", "b", "c"}
Chain == "a" :> <<"b", STUB>> @@ "b" :> <<"c">> @@ "c" :> <<>>
Shared == "a" :> <<"b", "c">> @@ "b" :> <<"c">> @@ "c" :> <<STUB>>
Cycle == "a" :> <<"b">> @@ "b" :> <<"a">> @@ "c" :> <<>>
MCGraphs == {Chain, Shared, Cycle}

(* Image files *)

Sec(va, vs, raw, ptr, chars) == [va |-> va, vsize |-> vs, raw |-> raw, ptr |-> ptr, chars |-> chars]
TextSec == Sec(4, 2, 2, 4, {"R", "X"})
DataSec == Sec(6, 2, 2, 6, {"R", "W"})
PlainFile == [size |-> 10, dos |-> TRUE, lfanew |-> 1, signature |-> TRUE, machine |-> TRUE,
          magic |-> "pe32", optional |-> TRUE, image |-> 10, headers |-> 4, base |-> 8,
          stripped |-> FALSE, sections |-> <<TextSec, DataSec>>, dir |-> 8, dirSize |-> 0,
          blocks |-> <<>>]
\* Geometry: sections short, long, empty, without raw data, outside the file or the image.
GeometryFiles ==
    {[PlainFile EXCEPT !.sections = <<Sec(4, v, 2, 4, {"R", "X"}), d>>, !.headers = h, !.image = n] :
        v \in {1, 2}, h \in {0, 3, 4}, n \in {8, 10},
        d \in {Sec(va, vs, raw, ptr, c) : va \in {6}, vs \in {0, 1, 3}, raw \in {0, 2},
                 ptr \in {0, 6, 9}, c \in {{"R", "W"}, {"R", "W", "BSS"}}}}
Block(va, n, entries) == [va |-> va, size |-> n, entries |-> entries]
Entry(t, o) == [type |-> t, offset |-> o]
BlockLists ==
    {<<Block(4, 2, <<Entry("HIGHLOW", 0)>>), Block(6, 3, <<Entry("DIR32", 0), Entry("ABSOLUTE", 0)>>)>>,
     <<Block(4, 3, <<Entry("HIGH", 1), Entry("LOW", 0)>>), Block(6, 2, <<Entry("HIGHADJ", 0)>>)>>,
     <<Block(4, 0, <<>>), Block(6, 2, <<Entry("HIGHLOW", 0)>>)>>,
     <<Block(8, 2, <<Entry("HIGHLOW", 1)>>)>>, <<Block(4, 9, <<>>)>>,
     <<Block(4, 2, <<Entry("DIR64", 0)>>)>>}
RelocFiles ==
    {[PlainFile EXCEPT !.base = b, !.stripped = s, !.blocks = l, !.dirSize = d, !.magic = m] :
        b \in {8, 16}, s \in BOOLEAN, l \in BlockLists, d \in {0, 2, 5}, m \in {"pe32"}}
    \cup
    {[PlainFile EXCEPT !.base = b, !.stripped = s, !.blocks = l, !.dirSize = d, !.magic = "pe32+",
        !.image = 12, !.headers = 6, !.size = 12, !.sections = <<Sec(6, 4, 4, 6, {"R", "W"})>>] :
        b \in {70, 24}, s \in BOOLEAN, d \in {0, 2},
        l \in {<<Block(6, 2, <<Entry("DIR64", 0)>>)>>, <<Block(10, 2, <<Entry("DIR64", 0)>>)>>,
               <<Block(6, 2, <<Entry("HIGHLOW", 0)>>)>>}}
BadFiles ==
    {[PlainFile EXCEPT !.dos = FALSE], [PlainFile EXCEPT !.signature = FALSE],
     [PlainFile EXCEPT !.machine = FALSE], [PlainFile EXCEPT !.optional = FALSE],
     [PlainFile EXCEPT !.magic = "rom"], [PlainFile EXCEPT !.image = 0], [PlainFile EXCEPT !.size = 0],
     [PlainFile EXCEPT !.size = 2, !.sections = <<>>, !.magic = "pe32+"], [PlainFile EXCEPT !.size = 3],
     [PlainFile EXCEPT !.headers = 11], [PlainFile EXCEPT !.lfanew = 10]}
MCFiles == GeometryFiles \cup RelocFiles \cup BadFiles
MainGlobals == [image_base |-> 8, image_size |-> 6, is_32bit |-> TRUE, pe_path |-> "main"]
MCCallers ==
    {[kind |-> "map_image", desired |-> 0, path |-> "main", taken |-> {},
      before |-> [image_base |-> 0, image_size |-> 0, is_32bit |-> FALSE, pe_path |-> ""]]}
    \cup {[kind |-> "load_dll", desired |-> d, path |-> "dll", taken |-> 8 .. 13, before |-> MainGlobals] :
            d \in {24, 60}}

(* Imports *)

MCLower == [d \in {"user32.dll", "user32.DLL", "msvcrt.dll", "ext.dll", "EXT.DLL"} |->
    CASE d = "user32.DLL" -> "user32.dll" [] d = "EXT.DLL" -> "ext.dll" [] OTHER -> d]
MCDynamic == [n \in {2} |-> 202]
Entry4 == <<[dll |-> "user32.dll", name |-> 3, address |-> 203],
            [dll |-> "user32.DLL", name |-> 3, address |-> 203],
            [dll |-> "user32.dll", name |-> 1, address |-> 201],
            [dll |-> "msvcrt.dll", name |-> 2, address |-> 0]>>
MCTables == {[i \in 1 .. 4 |-> Entry4[p[i]]] : p \in {q \in [1 .. 4 -> 1 .. 4] : \A i, j \in 1 .. 4 : q[i] = q[j] => i = j}}
MCOrdinals == <<[dll |-> "user32.dll", ordinal |-> 1, func |-> 3], [dll |-> "user32.dll", ordinal |-> 1, func |-> 1]>>
Ext(inside, names, ordinals, forwarders) ==
    [d \in {"ext.dll"} |-> [inside |-> inside, base |-> 300, base_ordinal |-> 2, names |-> names,
                            ordinals |-> ordinals, functions |-> <<1, 2, 3>>, forwarders |-> forwarders]]
MCExports ==
    {[d \in {} |-> 0], Ext(TRUE, <<1, 4>>, <<0, 1>>, {}), Ext(FALSE, <<1, 4>>, <<0, 1>>, {}),
     Ext(TRUE, <<1, 4>>, <<1, 2>>, {2}), Ext(TRUE, <<2, 3, 4>>, <<0, 1, 1>>, {}), Ext(TRUE, <<1, 20>>, <<0, 1>>, {})}
Image(pe32, a, b, c, own, jumps) ==
    [pe32 |-> pe32, dir |-> "inside", room |-> 3, jumps |-> jumps,
     descs |-> <<[dll |-> "user32.DLL", ilt |-> IF own THEN 1 ELSE 0, iat |-> 4], [dll |-> "EXT.DLL", ilt |-> 7, iat |-> 9]>>,
     mem |-> <<a, b, 0, a, b, 0, c, 0, c, 0>>]
MCImages ==
    {Image(p, a, b, c, o, j) : p \in BOOLEAN, a \in {1, 2, 101}, b \in {0, 1, 3, 4, 20}, c \in {1, 4, 102, 103},
       o \in BOOLEAN, j \in {<<4, 9, 4>>, <<9, 5, 10, 6>>}}
    \cup {[Image(FALSE, 1, 3, 4, TRUE, <<>>) EXCEPT !.dir = d, !.room = r] : d \in {"none", "inside", "outside"}, r \in 0 .. 2}
    \cup {[Image(FALSE, 1, 3, 4, TRUE, <<>>) EXCEPT !.descs[2].iat = 10, !.mem[8] = 1]}

(* Library search *)

Lib(s, e) == [stem |-> s, ext |-> e]
MCUpper == [ext |-> "EXT", EXT |-> "EXT", dll |-> "DLL", DLL |-> "DLL"] @@ ("" :> "")
MCFileSystems ==
    SUBSET {<<".", Lib("EXT", "DLL")>>, <<"app", Lib("ext", "dll")>>, <<"app", Lib("EXT", "DLL")>>,
            <<"p1", Lib("ext", "")>>, <<"p2", Lib("ext", "dll")>>, <<"sub", Lib("ext", "DLL")>>}
MCMainPaths == {<<"app", "main">>, <<"", "main">>, <<"/", "main">>}
MCWinePaths == {<<>>, <<"p1", "p2", "app">>, <<"p2", "p1">>}
MCRequests == {[dir |-> d, name |-> Lib(s, e)] : d \in {"", "sub"}, s \in {"ext", "EXT"}, e \in {"", "dll"}}

(* Programs, their runtime and their system calls *)

\* Image sizes around the 1 MB below the PE32 stack and the 3.9 MB below the
\* 64-bit UNIX stack's neighbours; commits around the 512 KB and 3 MB limits.
Program(k, b, c, e) == [kind |-> k, bytes |-> b, commit |-> c, entry |-> e]
MCPrograms ==
    {Program(k, b, c, "main") :
       k \in {"pe32", "pe64"},
       b \in {4097, 917504, 1048576, 1048577, 2686976, 4063232, 4063233, 5000000},
       c \in {0, 524288, 524289, 3145728, 3145729}}
    \cup {Program("pe32", 65536, 0, "WinMain"), Program("other", 1, 0, "main")}

MCSyscalls ==
    {"NtClose", "NtAllocateVirtualMemory", "NtMapViewOfSection", "NtReadFile", "NtSetEvent",
     "NtQueryInformationProcess", "NtOpenFile", "NtTerminateProcess", "NtCreateSemaphore", "NtCreateThreadEx"}

\* Long names and what is left of them.
MCReadAs ==
    "_WinMain@16" :> "Main@16" @@ "_wWinMain@16" :> "nMain@16" @@ "user_main" :> "_main"
    @@ "D_DoomMain" :> "omMain" @@ "_initialized" :> "tialized" @@ ".refptr.__xi_a" :> "ptr.__xi_a"
    @@ ".refptr._commode" :> "ptr._commode" @@ ".refptr.__imp___initenv" :> "ptr.__imp___initenv"
MCWithin ==
    "ptr.__xi_a" :> {"__xi_a"} @@ "ptr._commode" :> {"_commode"} @@ "ptr.__imp___initenv" :> {"__imp___initenv"}

\* .text at 100, .rdata at 200, .data at 300, .bss at 400.
Symbol(name, sec, value, aux) == [name |-> name, sec |-> sec, value |-> value, aux |-> aux]
EntrySymbols ==
    {Symbol("_WinMain@16", ".text", 110, 0), Symbol("_wWinMain@16", ".text", 112, 0), Symbol("_main", ".text", 114, 0),
     Symbol("main", ".text", 116, 0), Symbol("main", "absolute", 0, 0), Symbol("main", "debug", 7, 0),
     Symbol("_startup", ".text", 118, 0), Symbol("D_DoomMain", ".text", 120, 0), Symbol("__xi_a", ".rdata", 200, 0),
     Symbol("wWinMain", ".text", 122, 0), Symbol("_initialized", ".bss", 420, 0), Symbol(".file", "debug", 0, 1)}
RefptrSymbols ==
    {Symbol(".refptr.__xi_a", ".rdata", 200, 0), Symbol(".refptr._commode", ".rdata", 208, 0),
     Symbol(".refptr.__imp___initenv", ".rdata", 216, 0), Symbol("_fmode", "absolute", 3, 0)}
VariableTables ==
    {<<Symbol("_argc", s, a, 0), Symbol("_argv", s, v, 0), Symbol("_environ", s, e, 0), x>> :
       s \in {".bss", "absolute"}, a \in {404, 448, 304}, v \in {400, 408, 432}, e \in {416, 440, 312},
       x \in {Symbol("_main", ".text", 114, 0), Symbol("_startup", ".text", 118, 0)}}
CrtSlots ==
    {<<[at |-> 200, bss |-> x, stored |-> p], [at |-> 208, bss |-> y, stored |-> q], [at |-> 300, bss |-> z, stored |-> FALSE]>> :
       x \in BOOLEAN, y \in BOOLEAN, z \in BOOLEAN, p \in BOOLEAN, q \in BOOLEAN}
NoStub == [store |-> "none", branch |-> "none", func |-> 0]
CrtImage(b, t, bss, sl, st, rw, d) ==
    [pe32 |-> b, symbols |-> t, bss |-> bss, sections |-> {".text", ".data"}, slots |-> sl, stub |-> st,
     entry |-> 100, rw |-> rw, named95 |-> d, runtime95 |-> d]
MCCrtImages ==
    {CrtImage(b, t, 400, << >>, NoStub, TRUE, FALSE) : b \in BOOLEAN, t \in UNION {[1 .. n -> EntrySymbols] : n \in 0 .. 3}}
    \cup {CrtImage(b, t, 400, << >>, NoStub, rw, FALSE) : b \in BOOLEAN, t \in VariableTables, rw \in BOOLEAN}
    \cup {CrtImage(b, t, bss, sl, NoStub, rw, FALSE) :
            b \in BOOLEAN, t \in UNION {[1 .. n -> RefptrSymbols] : n \in 0 .. 2}, bss \in {0, 400}, sl \in CrtSlots, rw \in BOOLEAN}
    \cup {[CrtImage(TRUE, t, 400, << >>, [store |-> s, branch |-> r, func |-> f], TRUE, d) EXCEPT !.sections = x] :
            t \in {<< >>, <<Symbol("_startup", ".text", 118, 0)>>}, s \in {"none", "writable"}, r \in {"none", "code"},
            f \in {0, 130}, d \in BOOLEAN, x \in {{".text"}, {".mmh"}, {"BEGTEXT"}, {"BEGTEXT", "DGROUP"}}}

VARIABLE half

MCVars == <<half, loaderVars, mapVars, bindVars, searchVars, startVars, crtVars, dispVars>>
Some(S) == CHOOSE x \in S : TRUE

\* A model that is not explored stays in one initial state.
RestMap == file = Some(MCFiles) /\ caller = Some(MCCallers) /\ MapInit
RestBind == img = Some(MCImages) /\ table = Entry4 /\ BindInit /\ DOMAIN loaded = {}
RestSearch == fs = {} /\ main = Some(MCMainPaths) /\ winePath = <<>> /\ SearchInit
RestCrt == cfile = Some(CrtImages) /\ CrtInit
RestDispatch == arch = "x86_64" /\ DispInit /\ cpu["r15"] = 0
RestStart == prog = Some(Programs) /\ spc = "wrapper" /\ StartInit
RestDlls == imports = Chain /\ is_32bit = TRUE /\ LoaderInit

MCInit ==
    /\ half \in Halves
    /\ half # "map" => RestMap
    /\ half # "bind" => RestBind
    /\ half # "search" => RestSearch
    /\ half # "crt" => RestCrt
    /\ half # "dispatch" => RestDispatch
    /\ half # "start" => RestStart
    /\ half # "dlls" => RestDlls
    /\ half = "map" => MapInit
    /\ half = "bind" =>
          /\ BindInit
          /\ table # Entry4 => (img.jumps = <<4, 9, 4>> /\ img.mem[2] = 3 /\ img.mem[1] = 2 /\ img.mem[7] = 4)
    /\ half = "search" => SearchInit
    /\ half = "crt" => CrtInit
    /\ half = "dispatch" => DispInit
    /\ half = "start" => StartInit
    /\ half = "dlls" => LoaderInit
MCNext ==
    /\ UNCHANGED half
    /\ \/ half = "dlls" /\ LoaderNext /\ UNCHANGED <<mapVars, bindVars, searchVars, startVars, crtVars, dispVars>>
       \/ half = "map" /\ MapNext /\ UNCHANGED <<loaderVars, bindVars, searchVars, startVars, crtVars, dispVars>>
       \/ half = "bind" /\ BindNext /\ UNCHANGED <<loaderVars, mapVars, searchVars, startVars, crtVars, dispVars>>
       \/ half = "search" /\ SearchNext /\ UNCHANGED <<loaderVars, mapVars, bindVars, startVars, crtVars, dispVars>>
       \/ half = "start" /\ StartNext /\ UNCHANGED <<loaderVars, mapVars, bindVars, searchVars, crtVars, dispVars>>
       \/ half = "crt" /\ CrtNext /\ UNCHANGED <<loaderVars, mapVars, bindVars, searchVars, startVars, dispVars>>
       \/ half = "dispatch" /\ DispNext /\ UNCHANGED <<loaderVars, mapVars, bindVars, searchVars, startVars, crtVars>>
MCSpec == MCInit /\ [][MCNext]_MCVars

\* The loader runs on, and DllMain returns.  That imports fail is never needed.
MCFairSpec == MCSpec /\ WF_loaderVars(half = "dlls" /\ LoaderStep)
=============================================================================
