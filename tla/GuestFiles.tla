----------------------------- MODULE GuestFiles -----------------------------
(***************************************************************************)
(* Files, directory searches and registry keys of a guest, and the handles *)
(* they share: kernel32_file.c, kernel32_console.c, ntdll_io.c,            *)
(* ntdll_handle.c, launcher_kernel32_stubs.c and advapi32_registry.c.      *)
(*                                                                         *)
(* A 64 bit build keeps the descriptor of a file in the handle table.  A   *)
(* 32 bit build has a table of its own for CreateFileA, whose handles have *)
(* the same values as those of the handle table.  The kernel has a         *)
(* directory of names, files with their contents, and descriptors.  A file *)
(* is a sequence of values, one per byte.                                  *)
(*                                                                         *)
(* The guest closes each handle once, with the call for its kind.  A       *)
(* careful guest gives the high part of a distance when it moves back, and *)
(* on 32 bit only opens files with CreateFileA and has no other handles    *)
(* that CloseHandle closes.                                                *)
(***************************************************************************)
EXTENDS Integers, Sequences, FiniteSets, FiniteSetsExt, SequencesExt, Functions

CONSTANTS
    Names,          \* names of files that the guest uses
    OtherNames,     \* names of files that it only sees in searches
    Files,          \* files on disk, numbers
    FileHandles,    \* handles of the handle table, from 3 on
    MaxFds,         \* descriptors are 3..MaxFds
    MAX_CREATEFILE, \* entries of createfile_fds_32, 64 in the code
    MAX_REG_VALUES, \* entries of g_reg_values, 64 in the code
    Keys,           \* paths of registry keys, sequences of names
    MaxSize,        \* bound: bytes of a file
    Beyond,         \* what 2^32 is to the code, larger than any file
    CarefulFiles,   \* the guest is careful
    MaxFileOps      \* bound: calls of a behaviour

VARIABLES
    wide,   \* a 64 bit build
    dir,    \* names on disk and their file
    disk,   \* contents of the files that exist
    fdt,    \* descriptors: file, position and whether it may write
    ht,     \* the handle table: type and object by handle
    t32,    \* createfile_fds_32, -1 for a closed entry
    objs,   \* the find handles and keys that malloc gave, by address
    reg,    \* g_reg_values by path and name
    mine,   \* what the guest knows of its handles, by kind and handle
    lostKeys, \* the keys among objs that got no handle
    fileOps

fileVars == <<wide, dir, disk, fdt, ht, t32, objs, reg, mine, lostKeys, fileOps>>

FileInit ==
    /\ wide \in BOOLEAN
    /\ \E names \in {SetToSeq(Names), SetToSeq(Names \cup OtherNames)} :
          dir = [x \in ToSet(names) |-> CHOOSE i \in 1..Len(names) : names[i] = x] /\ disk = [f \in 1..Len(names) |-> <<1>>]
    /\ fdt = <<>> /\ ht = <<>> /\ t32 = <<>> /\ objs = <<>> /\ reg = <<>>
    /\ mine = <<>> /\ lostKeys = {} /\ fileOps = 0

Op == fileOps < MaxFileOps /\ fileOps' = fileOps + 1
Put(f, k, v) == [x \in DOMAIN f \cup {k} |-> IF x = k THEN v ELSE f[x]]
Drop(f, ks) == [x \in DOMAIN f \ ks |-> f[x]]

-----------------------------------------------------------------------------
(* The kernel, and the handle table (wine_handle_alloc takes the lowest    *)
(* free handle).                                                           *)

FreeFds == (3..MaxFds) \ DOMAIN fdt
NewFd == Min(FreeFds)
\* A file lives while a name or a descriptor refers to it.
Kept(d, t, disk_) == Drop(disk_, {f \in DOMAIN disk_ : f \notin Range(d) /\ f \notin {t[x].file : x \in DOMAIN t}})
FreeFileHandles == FileHandles \ DOMAIN ht
NewHandle == Min(FreeFileHandles)
NewObj == Min((1..Cardinality(DOMAIN objs) + 1) \ DOMAIN objs)

handle_to_fd(h) ==
    IF ~wide /\ h - 2 \in 1..Len(t32) THEN t32[h - 2]
    ELSE IF h \in DOMAIN ht /\ ht[h].type = "file" THEN ht[h].obj ELSE -1

-----------------------------------------------------------------------------
(* Files.                                                                  *)

\* dwCreationDisposition: 1 new, 2 always, 3 existing, 4 open always, 5 truncate
Creates(disp) == disp \in {1, 2, 4}
Truncates(disp) == disp \in {2, 5}
Opens(n, disp) == IF n \in DOMAIN dir THEN disp # 1 ELSE Creates(disp) /\ Files \ DOMAIN disk # {}

\* What open does: the file and the directory and contents afterwards.
Opened(n, disp) ==
    LET f == IF n \in DOMAIN dir THEN dir[n] ELSE Min(Files \ DOMAIN disk)
    IN  [file |-> f, dir |-> Put(dir, n, f),
         disk |-> Put(disk, f, IF n \notin DOMAIN dir \/ Truncates(disp) THEN <<>> ELSE disk[f])]
Believe(kind, h, v) == mine' = Put(mine, <<kind, h>>, v)

RoomForFile == IF wide THEN FreeFileHandles # {} ELSE Len(t32) < MAX_CREATEFILE

\* Without a handle the descriptor is closed again.
FdAfterOpen(o, wr) ==
    IF RoomForFile THEN Put(fdt, NewFd, [file |-> o.file, pos |-> 0, wr |-> wr]) ELSE fdt

\* The file is there, or cut off, even when there is no room for a handle.
CreateFileA(n, disp, wr) ==
    LET o == Opened(n, disp)
        h == IF wide THEN NewHandle ELSE 3 + Len(t32)
    IN  /\ Op /\ FreeFds # {} /\ Opens(n, disp)
        /\ dir' = o.dir /\ disk' = o.disk
        /\ fdt' = FdAfterOpen(o, wr)
        /\ IF ~RoomForFile THEN UNCHANGED <<ht, t32, mine>>
           ELSE /\ Believe("file", h, [of |-> o.file, pos |-> 0])
                /\ IF wide THEN ht' = Put(ht, h, [type |-> "file", obj |-> NewFd]) /\ UNCHANGED t32
                   ELSE t32' = Append(t32, NewFd) /\ UNCHANGED ht
        /\ UNCHANGED <<wide, objs, reg, lostKeys>>

handler_NtOpenFile(n, wr) ==
    /\ Op /\ FreeFds # {} /\ n \in DOMAIN dir
    /\ CarefulFiles => wide
    /\ IF FreeFileHandles = {} THEN UNCHANGED <<fdt, ht, mine>>
       ELSE /\ fdt' = Put(fdt, NewFd, [file |-> dir[n], pos |-> 0, wr |-> wr])
            /\ ht' = Put(ht, NewHandle, [type |-> "file", obj |-> NewFd])
            /\ Believe("file", NewHandle, [of |-> dir[n], pos |-> 0])
    /\ UNCHANGED <<wide, dir, disk, t32, objs, reg, lostKeys>>

\* An event, a mutex or a thread: anything else that CloseHandle closes.
CreateOther ==
    /\ Op /\ FreeFileHandles # {}
    /\ CarefulFiles => wide
    /\ ht' = Put(ht, NewHandle, [type |-> "other", obj |-> 0])
    /\ Believe("other", NewHandle, [of |-> 0])
    /\ UNCHANGED <<wide, dir, disk, fdt, t32, objs, reg, lostKeys>>

\* NtClose of h: the descriptor of a file goes with its handle, a search or a key
\* would be left behind.
handler_NtClose(h) ==
    /\ h \in DOMAIN ht
    /\ fdt' = IF ht[h].type = "file" THEN Drop(fdt, {ht[h].obj}) ELSE fdt
    /\ ht' = Drop(ht, {h})
    /\ UNCHANGED t32

\* An entry of the 32 bit table is never used again.
CloseHandle(kind, h) ==
    /\ Op /\ <<kind, h>> \in DOMAIN mine /\ kind \in {"file", "other"}
    /\ IF ~wide /\ h - 2 \in 1..Len(t32) /\ t32[h - 2] >= 0
       THEN fdt' = Drop(fdt, {t32[h - 2]}) /\ t32' = [t32 EXCEPT ![h - 2] = -1] /\ UNCHANGED ht
       ELSE handler_NtClose(h)
    /\ mine' = Drop(mine, {<<kind, h>>})
    /\ disk' = Kept(dir, fdt', disk)
    /\ UNCHANGED <<wide, dir, objs, reg, lostKeys>>

\* The bytes of s with v written at pos, and zeros up to there.
WriteAt(s, pos, v) ==
    [i \in 1..Max({Len(s), pos + 1}) |-> IF i = pos + 1 THEN v ELSE IF i <= Len(s) THEN s[i] ELSE 0]

\* WriteFile, WriteConsoleA and NtWriteFile of one byte.
WriteFile(h, v) ==
    LET fd == handle_to_fd(h)
        at == fdt[fd]
    IN  /\ Op /\ <<"file", h>> \in DOMAIN mine /\ fd \in DOMAIN fdt
        /\ at.wr /\ at.pos < MaxSize
        /\ disk' = [disk EXCEPT ![at.file] = WriteAt(@, at.pos, v)]
        /\ fdt' = [fdt EXCEPT ![fd].pos = @ + 1]
        /\ mine' = [mine EXCEPT ![<<"file", h>>].pos = @ + 1]
        /\ UNCHANGED <<wide, dir, ht, t32, objs, reg, lostKeys>>

\* ReadFile and NtReadFile of one byte: nothing at the end of the file.
ReadFile(h) ==
    LET fd == handle_to_fd(h)
        at == fdt[fd]
    IN  /\ Op /\ <<"file", h>> \in DOMAIN mine /\ fd \in DOMAIN fdt
        /\ at.pos < Len(disk[at.file])
        /\ fdt' = [fdt EXCEPT ![fd].pos = @ + 1]
        /\ mine' = [mine EXCEPT ![<<"file", h>>].pos = @ + 1]
        /\ UNCHANGED <<wide, dir, disk, ht, t32, objs, reg, lostKeys>>

\* The distance is an unsigned 32 bit value, to which the high part gives its
\* sign; on 32 bit the system call takes the low part, with its sign.
Distance(d, high) == IF wide /\ ~high /\ d < 0 THEN Beyond + d ELSE d

SetFilePointer(h, d, high, method) ==
    LET fd == handle_to_fd(h)
        from == CASE method = "begin" -> 0
                  [] method = "current" -> fdt[fd].pos
                  [] OTHER -> Len(disk[fdt[fd].file])
        base == CASE method = "begin" -> 0
                  [] method = "current" -> mine[<<"file", h>>].pos
                  [] OTHER -> Len(disk[mine[<<"file", h>>].of])
        to == from + Distance(d, high)
    IN  /\ Op /\ <<"file", h>> \in DOMAIN mine /\ fd \in DOMAIN fdt
        /\ CarefulFiles => (wide /\ d < 0 => high)
        /\ base + d \in 0..MaxSize
        /\ fdt' = IF to < 0 THEN fdt ELSE [fdt EXCEPT ![fd].pos = to]
        /\ mine' = [mine EXCEPT ![<<"file", h>>].pos = base + d]
        /\ UNCHANGED <<wide, dir, disk, ht, t32, objs, reg, lostKeys>>

SetEndOfFile(h) ==
    LET fd == handle_to_fd(h)
        at == fdt[fd]
    IN  /\ Op /\ <<"file", h>> \in DOMAIN mine /\ fd \in DOMAIN fdt /\ at.wr
        /\ at.pos <= MaxSize
        /\ disk' = [disk EXCEPT ![at.file] = [i \in 1..at.pos |-> IF i <= Len(@) THEN @[i] ELSE 0]]
        /\ UNCHANGED <<wide, dir, fdt, ht, t32, objs, reg, mine, lostKeys>>

DeleteFileA(n) ==
    /\ Op /\ n \in DOMAIN dir
    /\ dir' = Drop(dir, {n})
    /\ disk' = Kept(dir', fdt, disk)
    /\ mine' = [k \in DOMAIN mine |-> IF k[1] = "find" THEN [mine[k] EXCEPT !.unseen = @ \ {n}] ELSE mine[k]]
    /\ UNCHANGED <<wide, fdt, ht, t32, objs, reg, lostKeys>>

-----------------------------------------------------------------------------
(* Directory searches, for all files or for one name.  readdir gives every *)
(* name that was there when the search began, unless it has gone; the find *)
(* handle is a "search" object: the names still to come and, for the       *)
(* guest, those that have been there all the time and were not seen yet.   *)

FindFirstFileA(n) ==
    /\ Op /\ FreeFileHandles # {}
    /\ n = "*" \/ n \in DOMAIN dir
    /\ \E first \in IF n = "*" THEN DOMAIN dir ELSE {n} :
          /\ objs' = Put(objs, NewObj, [kind |-> "find", left |-> IF n = "*" THEN DOMAIN dir \ {first} ELSE {}])
          /\ Believe("find", NewHandle, [of |-> NewObj, unseen |-> IF n = "*" THEN DOMAIN dir \ {first} ELSE {}])
    /\ ht' = Put(ht, NewHandle, [type |-> "find", obj |-> NewObj])
    /\ UNCHANGED <<wide, dir, disk, fdt, t32, reg, lostKeys>>

\* The names still there: stat fails for the others, which are passed over.
StillThere(left) == left \cap DOMAIN dir

FindNextFileA(h) ==
    LET o == ht[h].obj
        there == StillThere(objs[o].left)
    IN  /\ Op /\ <<"find", h>> \in DOMAIN mine
        /\ IF there = {} THEN objs' = [objs EXCEPT ![o].left = {}] /\ UNCHANGED mine
           ELSE \E n \in there, gone \in SUBSET (objs[o].left \ DOMAIN dir) :
                   /\ objs' = [objs EXCEPT ![o].left = @ \ ({n} \cup gone)]
                   /\ mine' = [mine EXCEPT ![<<"find", h>>].unseen = @ \ {n}]
        /\ UNCHANGED <<wide, dir, disk, fdt, ht, t32, reg, lostKeys>>

FindClose(h) ==
    /\ Op /\ <<"find", h>> \in DOMAIN mine
    /\ objs' = Drop(objs, {ht[h].obj})
    /\ ht' = Drop(ht, {h})
    /\ mine' = Drop(mine, {<<"find", h>>})
    /\ UNCHANGED <<wide, dir, disk, fdt, t32, reg, lostKeys>>

-----------------------------------------------------------------------------
(* The registry.  A key is the path that was joined when it was opened.    *)

\* Mutant: the key it is opened under is not looked at
JoinRootOnly(root, sub) == sub
reg_join_path(root, sub) == (IF root = 0 THEN <<>> ELSE objs[ht[root].obj].path) \o sub

\* Roots are HKEY_CURRENT_USER (0) and the keys the guest has. The key is made
\* before its handle, and not freed when there is none.
RegCreateKeyA(root, sub) ==
    LET path == reg_join_path(root, sub)
        asked == (IF root = 0 THEN <<>> ELSE mine[<<"key", root>>].path) \o sub
    IN  /\ Op
        /\ root = 0 \/ <<"key", root>> \in DOMAIN mine
        /\ asked \in Keys
        /\ objs' = Put(objs, NewObj, [kind |-> "key", path |-> path])
        /\ IF FreeFileHandles = {} THEN lostKeys' = lostKeys \cup {NewObj} /\ UNCHANGED <<ht, mine>>
           ELSE /\ ht' = Put(ht, NewHandle, [type |-> "key", obj |-> NewObj])
                /\ Believe("key", NewHandle, [of |-> NewObj, path |-> asked])
                /\ UNCHANGED lostKeys
        /\ UNCHANGED <<wide, dir, disk, fdt, t32, reg>>

RegCloseKey(h) ==
    /\ Op /\ <<"key", h>> \in DOMAIN mine
    /\ objs' = Drop(objs, {ht[h].obj})
    /\ ht' = Drop(ht, {h})
    /\ mine' = Drop(mine, {<<"key", h>>})
    /\ UNCHANGED <<wide, dir, disk, fdt, t32, reg, lostKeys>>

reg_ensure_value(path) == path \in DOMAIN reg \/ Cardinality(DOMAIN reg) < MAX_REG_VALUES

RegSetValueExA(h, v) ==
    LET path == objs[ht[h].obj].path
    IN  /\ Op /\ <<"key", h>> \in DOMAIN mine /\ reg_ensure_value(path)
        /\ reg' = Put(reg, path, [value |-> v, by |-> mine[<<"key", h>>].path])
        /\ UNCHANGED <<wide, dir, disk, fdt, ht, t32, objs, mine, lostKeys>>

\* Only the values of the key itself go, those of the keys below it stay.
ValuesOf(path) == {path}
RegDeleteKeyA(root, sub) ==
    LET path == reg_join_path(root, sub)
    IN  /\ Op /\ (root = 0 \/ <<"key", root>> \in DOMAIN mine) /\ path \in Keys
        /\ reg' = Drop(reg, ValuesOf(path))
        /\ UNCHANGED <<wide, dir, disk, fdt, ht, t32, objs, mine, lostKeys>>

FileNext ==
    \/ \E n \in Names :
          \/ \E disp \in 1..5, wr \in BOOLEAN : CreateFileA(n, disp, wr)
          \/ \E wr \in BOOLEAN : handler_NtOpenFile(n, wr)
          \/ DeleteFileA(n) \/ FindFirstFileA(n)
    \/ CreateOther \/ FindFirstFileA("*")
    \/ \E k \in DOMAIN mine :
          \/ CloseHandle(k[1], k[2]) \/ FindClose(k[2]) \/ FindNextFileA(k[2]) \/ RegCloseKey(k[2])
          \/ WriteFile(k[2], 2) \/ ReadFile(k[2]) \/ SetEndOfFile(k[2])
          \/ \E d \in {-1, 0, 1}, high \in BOOLEAN, method \in {"begin", "current", "end"} :
                SetFilePointer(k[2], d, high, method)
          \/ \E v \in {1, 2} : RegSetValueExA(k[2], v)
    \/ \E root \in {0} \cup FileHandles, sub \in Keys :
          RegCreateKeyA(root, sub) \/ RegDeleteKeyA(root, sub)

-----------------------------------------------------------------------------
(* Properties.                                                             *)

OpenFds == {x \in {handle_to_fd(k[2]) : k \in {k \in DOMAIN mine : k[1] = "file"}} : x >= 0}

\* The values the variables range over.
FileTypeOK ==
    /\ wide \in BOOLEAN /\ DOMAIN dir \subseteq Names \cup OtherNames /\ DOMAIN disk \subseteq Files
    /\ DOMAIN ht \subseteq FileHandles /\ Len(t32) <= MAX_CREATEFILE
    /\ DOMAIN reg \subseteq Keys /\ fileOps \in 0..MaxFileOps

\* CreateFileA, NtOpenFile, CloseHandle, NtClose, FindFirstFileA, FindClose,
\* RegCreateKeyA, RegCloseKey: every descriptor and every object that was made
\* belongs to one handle that the guest has, in whichever table, so that closing
\* all handles leaves nothing open; no two files of the guest share a descriptor.
\* The exception is a key that RegCreateKeyA made while the handle table was full:
\* the call reports success, and no handle is left to close the key with.
HandlesOwnObjects ==
    /\ DOMAIN fdt = OpenFds
    /\ \A j, k \in DOMAIN mine :
          j # k /\ j[1] = "file" /\ k[1] = "file" => handle_to_fd(j[2]) # handle_to_fd(k[2])
    /\ DOMAIN objs \ lostKeys = {ht[h].obj : h \in {h \in DOMAIN ht : ht[h].type \in {"find", "key"}}}
    /\ \A i, h \in DOMAIN ht : i # h /\ {ht[i].type, ht[h].type} \subseteq {"find", "key"} => ht[i].obj # ht[h].obj

\* handle_to_fd, wine_handle_get: a handle means what the guest opened it for,
\* whatever was opened, closed, deleted and opened again since: the same file,
\* the same search, the key of the same path.
HandlesMeanWhatWasOpened ==
    \A k \in DOMAIN mine :
        /\ k[1] = "file" => handle_to_fd(k[2]) \in DOMAIN fdt /\ fdt[handle_to_fd(k[2])].file = mine[k].of
        /\ k[1] # "file" => k[2] \in DOMAIN ht /\ ht[k[2]].type = k[1] /\ ht[k[2]].obj = mine[k].of
        /\ k[1] = "key" => objs[mine[k].of].path = mine[k].path

\* SetFilePointer, ReadFile, WriteFile: each file handle is where the guest has
\* moved it, also while another handle of the file is moved, cuts the file off or
\* makes it longer.
PositionsAsAsked ==
    \A k \in DOMAIN mine : k[1] = "file" => fdt[handle_to_fd(k[2])].pos = mine[k].pos

\* FindNextFileA: a search that has nothing more to give has given every name
\* that was there all the time, even if others were deleted meanwhile.
SearchesComplete ==
    \A k \in DOMAIN mine :
        k[1] = "find" /\ objs[mine[k].of].left = {} => mine[k].unseen \cap DOMAIN dir = {}

\* reg_join_path, RegSetValueExA: a value is stored for the path that the guest
\* opened its key with, by way of whatever other keys and reused handles.
ValuesUnderTheirKey == \A p \in DOMAIN reg : reg[p].by = p

\* Files, searches and registry keys behind handles that are closed and used
\* again, on both architectures: each handle owns its object, means what it was
\* opened for, stands where it was moved to, and values are under their keys.
HandlesKeepMeaning ==
    /\ FileTypeOK /\ HandlesOwnObjects /\ HandlesMeanWhatWasOpened
    /\ PositionsAsAsked /\ SearchesComplete /\ ValuesUnderTheirKey
=============================================================================
