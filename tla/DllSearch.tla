----------------------------- MODULE DllSearch -----------------------------
(***************************************************************************)
(* Where a library is looked for (dll_path.c), together with the two       *)
(* globals that the search shares with the loading that follows it:        *)
(* LoadLibraryA keeps the path found in g_dll_path, and map_image_at sets  *)
(* pe_path, from which the application directory is derived on first use,  *)
(* until load_dll restores it.                                             *)
(*                                                                         *)
(* A file name is a stem and an extension, each in its own case; a path is *)
(* a directory and a name.  The directory "" is that of a name without a   *)
(* slash.                                                                  *)
(***************************************************************************)
EXTENDS Naturals, Sequences, FiniteSetsExt, SequencesExt

CONSTANTS FileSystems,            \* sets of paths that exist
          MainPaths,              \* paths of the main program
          WinePaths,              \* values of WINE_DLL_PATH, as sequences of directories
          Requests,               \* [dir, name]: dir # "" for an explicit path
          Loaders,                \* threads that load libraries
          UpperOf,                \* the upper-case spelling of a stem or extension
          DLL_PATH_MAX_SEGMENTS,
          MaxLoads                \* bound on the calls of LoadLibraryA

ASSUME SearchAssumption == DLL_PATH_MAX_SEGMENTS \in Nat /\ MaxLoads \in Nat

NoPath == <<"none">>

VARIABLES
    fs,          \* the paths that exist
    main,        \* the path of the main program
    winePath,    \* g_wine_dll_path
    exe_dir,     \* g_exe_dir, "" before its first use
    pe_path,     \* g_loader.pe_path
    g_dll_path,  \* the path LoadLibraryA has found
    thr,         \* thread -> [at, want, found, saved, mapped]
    loads        \* calls so far

searchVars == <<fs, main, winePath, exe_dir, pe_path, g_dll_path, thr, loads>>

-----------------------------------------------------------------------------
(* Spellings and directories                                                *)

dll_ascii_upper_copy(name) == [stem |-> UpperOf[name.stem], ext |-> UpperOf[name.ext]]

dll_name_has_extension(name) == name.ext # ""

BothCases(name) == <<name, dll_ascii_upper_copy(name)>>

\* The names tried in one directory, in order.
Spellings(name) ==
    BothCases(name) \o
    IF dll_name_has_extension(name) THEN <<>> ELSE BothCases([name EXCEPT !.ext = "dll"])

\* An explicit path is tried as given, then with "DLL" too.
ExplicitSpellings(name) ==
    Spellings(name) \o
    IF dll_name_has_extension(name) THEN <<>> ELSE <<[name EXCEPT !.ext = "DLL"]>>

InDirectory(dir, names) == [i \in DOMAIN names |-> <<dir, names[i]>>]

\* The directory of the program; "." when its path has no slash or only the root's.
init_exe_dir == IF exe_dir # "" THEN exe_dir
                ELSE IF pe_path[1] \in {"", "/"} THEN "." ELSE pe_path[1]

Segments == SubSeq(winePath, 1, Min({Len(winePath), DLL_PATH_MAX_SEGMENTS}))

Directories(exe) == <<".">> \o (IF exe = "." THEN <<>> ELSE <<exe>>) \o Segments

\* Mutant: every directory is searched for one spelling before the next is tried.
PathsTriedByName(req, exe) ==
    IF req.dir # "" THEN InDirectory(req.dir, ExplicitSpellings(req.name))
    ELSE FlattenSeq([i \in DOMAIN Spellings(req.name) |->
                       [d \in DOMAIN Directories(exe) |-> <<Directories(exe)[d], Spellings(req.name)[i]>>]])

PathsTried(req, exe) ==
    IF req.dir # "" THEN InDirectory(req.dir, ExplicitSpellings(req.name))
    ELSE FlattenSeq([d \in DOMAIN Directories(exe) |->
                       InDirectory(Directories(exe)[d], Spellings(req.name))])

\* find_dll_path; a library found before the application directory is needed
\* does not initialise it.
find_dll_path(req) ==
    LET tried == PathsTried(req, init_exe_dir)
        hits == {i \in DOMAIN tried : tried[i] \in fs}
    IN [path |-> IF hits = {} THEN NoPath ELSE tried[Min(hits)],
        exe |-> IF req.dir # "" \/ (hits # {} /\ tried[Min(hits)][1] = ".") THEN exe_dir
                ELSE init_exe_dir]

-----------------------------------------------------------------------------
(* LoadLibraryA and load_dll, as far as they touch those globals           *)

NoRequest == [dir |-> "none", name |-> [stem |-> "", ext |-> ""]]
Idle == [at |-> "idle", want |-> NoRequest, found |-> NoPath, saved |-> NoPath, mapped |-> NoPath]

SearchInit ==
    /\ fs \in FileSystems /\ main \in MainPaths /\ winePath \in WinePaths
    /\ exe_dir = "" /\ pe_path = main /\ g_dll_path = NoPath
    /\ thr = [t \in Loaders |-> Idle] /\ loads = 0

\* The search leaves the last path it tried in the buffer; only a hit matters.
LoadLibraryBySearch(t, req) ==
    /\ thr[t].at = "idle" /\ loads < MaxLoads
    /\ LET r == find_dll_path(req)
       IN /\ exe_dir' = r.exe /\ g_dll_path' = r.path
          /\ thr' = [thr EXCEPT ![t] = [Idle EXCEPT !.at = IF r.path = NoPath THEN "idle" ELSE "load",
                                                    !.want = req, !.found = r.path]]
    /\ loads' = loads + 1
    /\ UNCHANGED <<fs, main, winePath, pe_path>>

\* load_dll saves the path of the program and map_image_at replaces it.
BeginLoad(t) ==
    /\ thr[t].at = "load"
    /\ thr' = [thr EXCEPT ![t].at = "mapping", ![t].saved = pe_path, ![t].mapped = g_dll_path]
    /\ pe_path' = g_dll_path
    /\ UNCHANGED <<fs, main, winePath, exe_dir, g_dll_path, loads>>

EndLoad(t) ==
    /\ thr[t].at = "mapping"
    /\ thr' = [thr EXCEPT ![t].at = "idle"]
    /\ pe_path' = thr[t].saved
    /\ UNCHANGED <<fs, main, winePath, exe_dir, g_dll_path, loads>>

SearchNext ==
    \E t \in Loaders :
        \/ \E req \in Requests : LoadLibraryBySearch(t, req)
        \/ BeginLoad(t)
        \/ EndLoad(t)

-----------------------------------------------------------------------------
(* Properties                                                               *)

\* A directory has the library a request names: under the name, or with the
\* extension added, as given or in upper case.
Has(dir, name) ==
    \E n \in {name, dll_ascii_upper_copy(name)} \cup
             (IF name.ext = "" THEN {[name EXCEPT !.ext = "dll"],
                                     dll_ascii_upper_copy([name EXCEPT !.ext = "dll"])} ELSE {}) :
        <<dir, n>> \in fs

\* find_dll_path takes the library from the first place of the documented
\* order that has it - current directory, application directory, then
\* WINE_DLL_PATH - whatever the spelling there, and fails only when no
\* place has it.
NearestDirectory ==
    \A t \in Loaders :
        thr[t].want.dir = "" =>
            LET places == <<".", IF main[1] \in {"", "/"} THEN "." ELSE main[1]>> \o Segments
                having == {i \in DOMAIN places : Has(places[i], thr[t].want.name)}
            IN IF having = {} THEN thr[t].found = NoPath
               ELSE thr[t].found # NoPath /\ thr[t].found[1] = places[Min(having)]

=============================================================================
