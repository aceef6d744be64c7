-------------------------- MODULE MCGuestServices --------------------------
(***************************************************************************)
(* Model-checking instance for what kernel32 and ntdll give a guest:       *)
(* heaps, virtual memory, files, paths, the tables of g_ko and a critical  *)
(* section.  The models share no state, so each behaviour follows one of   *)
(* them, which `half` names.                                               *)
(***************************************************************************)
EXTENDS WineHeap, VirtualMemory, GuestFiles, GuestPaths, KernelObjects, CriticalSection

CONSTANTS t1, t2, t3

OneThread == {t1}
ThreeThreads == {t1, t2, t3}
AnyHandle == Handle \ {1, 2}

MCKeys == {<<"a">>, <<"a", "b">>, <<"b">>}

MCPathNames == {"d", "D", "w", "W", "wx", "WX"}
MCLower == [d |-> "d", D |-> "d", w |-> "w", W |-> "w", wx |-> "wx", WX |-> "wx"]
MCExtended == [w |-> "wx", W |-> "WX"]
MCTrees == {[dirs |-> {<<>>, <<"d">>}, files |-> {<<"w">>, <<"d", "WX">>}],
            [dirs |-> {<<>>, <<"d">>, <<"D">>}, files |-> {<<"d", "w">>, <<"D", "wx">>, <<"wx">>}],
            [dirs |-> {<<>>, <<"d">>, <<"d", "D">>}, files |-> {<<"d", "wx">>, <<"d", "D", "w">>, <<"wx">>}]}
MCOrders == {<<"d", "D", "w", "W", "wx", "WX">>, <<"WX", "wx", "W", "w", "D", "d">>}
MCPePaths == {<<"w">>, <<"/", "w">>, <<"/", "d", "/", "w">>, <<"d", "/", "w">>}
MCHostCwd == <<"/">>
MCAsked == {<<"d">>, <<"D", "\\">>, <<"w">>, <<"W">>, <<"wx">>, <<"\\", "/", "d">>,
            <<"C:", "\\", "\\", "D", "/", "w">>, <<"C:", "d", "/", "\\", "wx">>, <<"D", "/", "\\", "D">>}
MCLists == {<<>>, <<<<"\\", "d", "\\">>>>, <<<<"D">>, <<"C:", "\\", "d">>>>}
MCPatterns == {<<"a">>, <<"?">>, <<"*">>, <<"a", "*">>, <<"a", "?">>, <<"?", "*">>, <<"*", "a">>, <<"*", "a", "?">>}
MCTexts == UNION {[1..n -> {"a", "b"}] : n \in 0..3}

VARIABLE half

MCVars == <<half, heapVars, vmVars, fileVars, pathVars, koVars, sectionVars>>
MCInit ==
    /\ half \in {"heap", "vm", "files", "paths", "objects", "section"}
    /\ HeapInit /\ (half # "heap" => bits = 64 /\ place = "low")
    /\ VmInit /\ KoInit /\ SectionInit
    /\ FileInit /\ (half # "files" => wide /\ DOMAIN dir = Names)
    /\ half # "paths" => /\ tree = CHOOSE t \in Trees : TRUE
                         /\ order = CHOOSE o \in Orders : TRUE
                         /\ pePath = CHOOSE p \in PePaths : TRUE
    /\ PathInit
MCNext ==
    /\ UNCHANGED half
    /\ \/ half = "heap" /\ HeapNext /\ UNCHANGED <<vmVars, fileVars, pathVars, koVars, sectionVars>>
       \/ half = "vm" /\ VmNext /\ UNCHANGED <<heapVars, fileVars, pathVars, koVars, sectionVars>>
       \/ half = "files" /\ FileNext /\ UNCHANGED <<heapVars, vmVars, pathVars, koVars, sectionVars>>
       \/ half = "paths" /\ PathNext /\ UNCHANGED <<heapVars, vmVars, fileVars, koVars, sectionVars>>
       \/ half = "objects" /\ KoNext /\ UNCHANGED <<heapVars, vmVars, fileVars, pathVars, sectionVars>>
       \/ half = "section" /\ SectionNext /\ UNCHANGED <<heapVars, vmVars, fileVars, pathVars, koVars>>
MCSpec == MCInit /\ [][MCNext]_MCVars
=============================================================================
