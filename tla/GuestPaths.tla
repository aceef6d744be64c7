----------------------------- MODULE GuestPaths -----------------------------
(***************************************************************************)
(* Paths of the guest on the host's file system: kernel32_path.c, and the  *)
(* patterns of directory searches (launcher_kernel32_stubs.c,              *)
(* kernel32_file.c).                                                       *)
(*                                                                         *)
(* A path is a sequence of tokens: a name, a separator "/" or "\\", or the *)
(* drive "C:" in front.  A name has its lower case form and, if it has no  *)
(* extension, its form with the extension that is searched for.  The host  *)
(* file system is a set of nodes, each the sequence of names from the      *)
(* root; directories and files are told apart.                             *)
(***************************************************************************)
EXTENDS Integers, Sequences, FiniteSets, SequencesExt, Functions

CONSTANTS
    PathNames,   \* names
    Lower,       \* their lower case form
    Extended,    \* their form with the extension, for names without one
    Trees,       \* file systems: a set of directories and of files each
    Orders,      \* orders in which readdir gives names
    PePaths,     \* the path of the program, a path of the host
    HostCwd,     \* getcwd of the loader
    GuestPathsAsked, \* paths the guest asks for
    Lists,       \* directories of SearchPathA, sequences of paths
    Patterns, Texts, \* patterns and names of directory searches, by letters
    MaxPathOps   \* bound: calls of a behaviour

VARIABLES
    tree,    \* directories and files of the host
    order,   \* the order of readdir
    pePath,  \* g_loader.pe_path
    cwd,     \* current_directory; empty until the first call that needs it
    answer,  \* the last call, what it was asked and what it answered
    pathOps

pathVars == <<tree, order, pePath, cwd, answer, pathOps>>

Sep == {"/", "\\"}
None == <<>>

\* The names of a path, without the separators and the drive.
Segments(p) == SelectSeq(p, LAMBDA t : t \in PathNames)
Tokens(segs) == FlattenSeq([i \in 1..Len(segs) |-> <<"/", segs[i]>>])

\* stat: a path of the host.  A separator at the end asks for a directory; "." is
\* the directory the loader was started in.
HostNode(p) == IF p # <<>> /\ p[1] = "/" THEN Segments(p) ELSE Segments(HostCwd) \o Segments(p)
stat(p) == IF Last(p) = "/" THEN HostNode(p) \in tree.dirs ELSE HostNode(p) \in tree.dirs \cup tree.files
IsDirectory(p) == HostNode(p) \in tree.dirs

-----------------------------------------------------------------------------
\* The directory of the program, made absolute if it is relative.
ProgramDirectory ==
    LET slashes == {i \in 1..Len(pePath) : pePath[i] = "/"}
        upto == CHOOSE i \in slashes : \A j \in slashes : j <= i
    IN  IF slashes = {} THEN <<".">>
        ELSE IF upto = 1 THEN <<"/">>
        ELSE IF pePath[1] = "/" THEN SubSeq(pePath, 1, upto - 1)
        ELSE (IF Last(HostCwd) = "/" THEN Front(HostCwd) ELSE HostCwd) \o <<"/">> \o SubSeq(pePath, 1, upto - 1)

wine_init_process_directory == IF cwd = None THEN ProgramDirectory ELSE cwd

SkipSeps(p) == LET i == SelectInSeq(p, LAMBDA t : t \notin Sep) IN IF i = 0 THEN <<>> ELSE SubSeq(p, i, Len(p))
SkipOne(p) == IF p # <<>> /\ p[1] \in Sep THEN Tail(p) ELSE p

\* Where the result begins, and what is left to copy to it.
ResolveStart(src, at) ==
    CASE src # <<>> /\ src[1] = "C:" -> [dst |-> <<"/">>, rest |-> SkipOne(Tail(src))]
      [] src # <<>> /\ src[1] \in Sep -> [dst |-> <<"/">>, rest |-> SkipSeps(src)]
      [] OTHER -> [dst |-> IF Last(at) = "/" THEN at ELSE Append(at, "/"), rest |-> src]

\* A separator after a separator is left out.
CopyToken(dst, t) ==
    LET ch == IF t = "\\" THEN "/" ELSE t
    IN  IF ch = "/" /\ Last(dst) = "/" THEN dst ELSE Append(dst, ch)

wine_resolve_path(src, at) ==
    LET s == ResolveStart(src, at) IN FoldLeft(CopyToken, s.dst, s.rest)

-----------------------------------------------------------------------------
\* Mutant: names are compared with their case
MatchExact(d, w) == IF Append(d, w) \in tree.dirs \cup tree.files THEN <<w>> ELSE None
\* The first name that readdir gives in d and that is w but for its case.
FirstMatch(d, w) ==
    LET there == SelectSeq(order, LAMBDA n : Lower[n] = Lower[w] /\ Append(d, n) \in tree.dirs \cup tree.files)
    IN  IF there = <<>> THEN None ELSE <<there[1]>>

\* One segment further: the directory is opened and read.
Descend(found, w) ==
    IF found = {} THEN {}
    ELSE LET d == CHOOSE d \in found : TRUE
         IN  IF d \in tree.dirs /\ FirstMatch(d, w) # None THEN {d \o FirstMatch(d, w)} ELSE {}

\* The path that is there, or <<>>: as it stands, or found name by name.
wine_path_lookup_case_insensitive(p) ==
    IF stat(p) THEN p
    ELSE IF p[1] # "/" THEN None
    ELSE LET found == FoldLeft(Descend, {<<>>}, Segments(p))
         IN  IF found = {} THEN None ELSE Tokens(CHOOSE d \in found : TRUE)

\* The extension goes to a name that has none.
wine_build_search_candidate(dir, file, ext) ==
    LET base == IF dir = None THEN None ELSE IF Last(dir) \in Sep THEN dir ELSE Append(dir, "\\")
    IN  base \o (IF ext /\ Last(file) \in DOMAIN Extended THEN Append(Front(file), Extended[Last(file)]) ELSE file)

wine_search_existing_path(dir, file, ext, at) ==
    wine_path_lookup_case_insensitive(wine_resolve_path(wine_build_search_candidate(dir, file, ext), at))

\* A path is searched as it stands, a name in the directories of the list and
\* then in the current directory.
SearchDirs(list, file) ==
    IF \E i \in 1..Len(file) : file[i] \in Sep \cup {"C:"} THEN <<None>> ELSE Append(list, None)

-----------------------------------------------------------------------------
(* Patterns.  wildcard_match_ci tries every place for a "*"; FindNextFileA *)
(* has a loop of its own, that takes the first place where the next letter *)
(* fits and does not come back.                                            *)

RECURSIVE wildcard_match_ci(_, _)
wildcard_match_ci(p, t) ==
    IF p = <<>> THEN t = <<>>
    ELSE IF p[1] = "*" THEN Len(p) = 1 \/ \E i \in 0..Len(t) : wildcard_match_ci(Tail(p), SubSeq(t, i + 1, Len(t)))
    ELSE t # <<>> /\ (p[1] = "?" \/ p[1] = t[1]) /\ wildcard_match_ci(Tail(p), Tail(t))

\* After a "*" the text is skipped up to the next letter of the pattern, and what
\* is left of it at the end does not matter.
RECURSIVE GreedyMatch(_, _, _)
GreedyMatch(p, t, star) ==
    IF p = <<>> THEN star \/ t = <<>>
    ELSE IF p = <<"*">> THEN TRUE
    ELSE IF p[1] = "*"
         THEN LET i == SelectInSeq(t, LAMBDA c : c = p[2])
              IN  GreedyMatch(Tail(p), IF i = 0 THEN <<>> ELSE SubSeq(t, i, Len(t)), TRUE)
    ELSE t # <<>> /\ (p[1] = "?" \/ p[1] = t[1]) /\ GreedyMatch(Tail(p), Tail(t), star)

-----------------------------------------------------------------------------
PathInit ==
    /\ tree \in Trees /\ order \in Orders /\ pePath \in PePaths
    /\ cwd = None /\ answer = [call |-> "none"] /\ pathOps = 0

\* A call that only asks leaves nothing behind but the current directory that any
\* call sets up, so a behaviour is followed no further than its first question.
PathOp ==
    /\ pathOps < MaxPathOps /\ answer.call \in {"none", "cd", "mkdir"}
    /\ pathOps' = pathOps + 1 /\ UNCHANGED <<order, pePath>>

\* SetCurrentDirectoryA: the path must be there as it is written.
wine_set_current_directory(p) ==
    LET at == wine_init_process_directory
        r == wine_resolve_path(p, at)
    IN  /\ PathOp
        /\ cwd' = IF stat(r) /\ IsDirectory(r) THEN r ELSE at
        /\ answer' = [call |-> "cd", path |-> p, at |-> at, got |-> r]
        /\ UNCHANGED tree

GetFileAttributesA(p) ==
    LET at == wine_init_process_directory
        r == wine_resolve_path(p, at)
    IN  /\ PathOp /\ cwd' = at
        /\ answer' = [call |-> "attributes", path |-> p, at |-> at, got |-> wine_path_lookup_case_insensitive(r)]
        /\ UNCHANGED tree

CreateDirectoryA(p) ==
    LET at == wine_init_process_directory
        node == HostNode(wine_resolve_path(p, at))
    IN  /\ PathOp /\ cwd' = at
        /\ node # <<>> /\ Front(node) \in tree.dirs /\ node \notin tree.dirs \cup tree.files
        /\ tree' = [tree EXCEPT !.dirs = @ \cup {node}]
        /\ answer' = [call |-> "mkdir", path |-> p, at |-> at, got |-> wine_resolve_path(p, at)]

SearchPathA(list, file, ext) ==
    LET at == wine_init_process_directory
        dirs == SearchDirs(list, file)
        results == [i \in 1..Len(dirs) |-> wine_search_existing_path(dirs[i], file, ext, at)]
        hits == SelectSeq(results, LAMBDA r : r # None)
    IN  /\ PathOp /\ cwd' = at
        /\ answer' = [call |-> "search", path |-> file, list |-> list, ext |-> ext, at |-> at,
                      got |-> IF hits = <<>> THEN None ELSE hits[1]]
        /\ UNCHANGED tree

\* The names that FindFirstFileA and FindNextFileA give for a pattern.
MatchNames(p) ==
    /\ PathOp /\ UNCHANGED <<tree, cwd>>
    /\ answer' = [call |-> "match", path |-> p,
                  first |-> {t \in Texts : wildcard_match_ci(p, t)}, got |-> {t \in Texts : GreedyMatch(p, t, FALSE)}]

PathNext ==
    \/ \E p \in GuestPathsAsked : wine_set_current_directory(p) \/ GetFileAttributesA(p) \/ CreateDirectoryA(p)
    \/ \E p \in GuestPathsAsked, list \in Lists, ext \in BOOLEAN : Last(p) \in PathNames /\ SearchPathA(list, p, ext)
    \/ \E p \in Patterns : MatchNames(p)

-----------------------------------------------------------------------------
(* Properties.                                                             *)

\* What a path of the guest means: the names from the root, if it begins with a
\* drive or a separator, or else from the current directory.
Meant(p, at) == IF p # <<>> /\ p[1] \in Sep \cup {"C:"} THEN Segments(p) ELSE HostNode(at) \o Segments(p)
SameButCase(a, b) == Len(a) = Len(b) /\ \A i \in 1..Len(a) : Lower[a[i]] = Lower[b[i]]
Nodes == tree.dirs \cup tree.files
NoTwins == \A a, b \in Nodes : SameButCase(a, b) => a = b
Absolute(p) == p # <<>> /\ p[1] = "/"

\* A path that resolves to one from the root.  The current directory of a program that
\* was started by its bare name is ".", and wine_path_lookup_case_insensitive tries no
\* other case of a path that does not begin with "/".
Rooted(p, at) == Absolute(at) \/ p[1] \in Sep \cup {"C:"}
Reached(node, rooted) == IF rooted THEN \E n \in Nodes : SameButCase(n, node) ELSE node \in Nodes

\* The values the variables range over.
PathTypeOK ==
    /\ \A n \in Nodes : n = <<>> \/ Front(n) \in tree.dirs
    /\ pathOps \in 0..MaxPathOps
    /\ \A i \in 1..Len(cwd) : cwd[i] \in PathNames \cup {"/", "."}

\* wine_init_process_directory, wine_set_current_directory: the current directory
\* is a directory of the host at any time, whatever way the program was started
\* and however paths were written, and has no empty names in it.
CurrentDirectoryExists ==
    cwd # None => IsDirectory(cwd) /\ \A i \in 1..Len(cwd) - 1 : ~(cwd[i] = "/" /\ cwd[i + 1] = "/")

\* wine_resolve_path: the result has the names of the path after those of the
\* directory the path begins at, whatever separators it is written with.
ResolvesAsMeant ==
    answer.call \in {"cd", "mkdir"} => HostNode(answer.got) = Meant(answer.path, answer.at)

\* wine_path_lookup_case_insensitive, GetFileAttributesA: what is found is there
\* and is what was asked for but for the case; and where no directory has two
\* names that differ in case only, whatever is there is found, but from the
\* directory "." only in its own case.
LookupFindsWhatIsThere ==
    answer.call = "attributes" =>
        LET want == Meant(answer.path, answer.at)
        IN  /\ answer.got # None => HostNode(answer.got) \in Nodes /\ SameButCase(HostNode(answer.got), want)
            /\ NoTwins /\ answer.got = None => ~Reached(want, Rooted(answer.path, answer.at))

\* SearchPathA: the file that is found is the first of the list's directories that
\* has it (in its own case, if the directory is relative to "."), and the current
\* directory's only if none does.
SearchInOrder ==
    answer.call = "search" /\ NoTwins =>
        LET named(d) == LET f == Append(d, Last(answer.path))
                        IN  IF answer.ext /\ Last(answer.path) \in DOMAIN Extended
                            THEN Append(d, Extended[Last(answer.path)]) ELSE f
            dirs == IF Len(answer.path) = 1 THEN Append(answer.list, answer.at) ELSE <<Front(answer.path)>>
            place(i) == IF Len(answer.path) = 1 /\ i = Len(dirs) THEN HostNode(answer.at)
                        ELSE Meant(dirs[i], answer.at)
            hit == {i \in 1..Len(dirs) : Reached(named(place(i)), Rooted(dirs[i], answer.at))}
        IN  IF hit = {} THEN answer.got = None
            ELSE \E i \in hit : /\ \A j \in hit : i <= j
                                /\ SameButCase(HostNode(answer.got), named(place(i)))

\* SearchPathA, wine_resolve_path: a path from the root that was found, given back
\* to any call later, means the same file, whatever the current directory is by then.
FoundPathStands ==
    answer.call \in {"search", "attributes"} /\ Absolute(answer.got) =>
        \A at \in {<<"/">>, cwd} : wine_resolve_path(answer.got, at) = answer.got

\* FindFirstFileA, FindNextFileA: for a pattern with no "*", or one "*" at its end,
\* the first and the following names come from the same choice of names.  With a "*"
\* before the end they do not: FindNextFileA stops at the first letter that fits and
\* does not look at what is left of a name.
MatchersAgree ==
    answer.call = "match" /\ (\A i \in 1..Len(answer.path) - 1 : answer.path[i] # "*") => answer.first = answer.got

\* The guest's paths lead to the host's files, whatever separators, drive and case
\* they are written with (from the directory "." in their own case only), the current
\* directory is always one, SearchPathA takes the first that has the file, and the two
\* matchers agree on patterns with no "*" before their end.
PathsResolve ==
    /\ PathTypeOK /\ CurrentDirectoryExists /\ ResolvesAsMeant /\ LookupFindsWhatIsThere
    /\ SearchInOrder /\ FoundPathStands /\ MatchersAgree
=============================================================================
