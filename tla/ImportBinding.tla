--------------------------- MODULE ImportBinding ---------------------------
(***************************************************************************)
(* Import resolution (import_resolve.c): the built-in import table is      *)
(* filled in and sorted (import_init.c, import_table.c), pass 1 binds the  *)
(* address table of every descriptor (import_lookup.c, ordinal_table.c,    *)
(* export_table.c), pass 2 follows the jump thunks found in the code       *)
(* (pe_rip_scan.c, import_flat.c).                                         *)
(*                                                                         *)
(* An image is `mem', a function from slots to thunk values.  A thunk      *)
(* value is 0 (the end of a table), the rva of a name (names are numbered  *)
(* in alphabetical order, the rva is the number), an rva outside the image *)
(* (above MaxName), an ordinal (HighBit and above) or an address           *)
(* (FirstAddress and above).  A descriptor names its library and the slots *)
(* where its lookup and address tables start; ilt = 0 when it has none.    *)
(***************************************************************************)
EXTENDS Integers, Sequences, FiniteSetsExt, SequencesExt

CONSTANTS Images,             \* the images considered
          Tables,             \* the built-in tables considered, as written in the source
          Dynamic,            \* addresses that init_msvcrt_imports fills in: name -> address
          Exports,            \* export directories of the loaded modules considered
          OrdinalTable,       \* ordinal_table.c: <<[dll, ordinal, func]>>
          LowerCase,          \* the lower-case spelling of a library name
          MaxName, HighBit, FirstAddress,
          MAX_EXPORT_NAMES, MAX_EXPORT_FUNCTIONS, MAX_THUNK_TARGETS, MAX_FLAT_IMPORTS

ASSUME BindingAssumption ==
    /\ 0 < MaxName /\ MaxName < HighBit /\ HighBit < FirstAddress
    /\ MAX_EXPORT_NAMES \in Nat /\ MAX_EXPORT_FUNCTIONS \in Nat /\ MAX_THUNK_TARGETS \in Nat /\ MAX_FLAT_IMPORTS \in Nat

NoAddress == 0

VARIABLES
    img,      \* the image whose imports are resolved
    mem,      \* its slots
    table,    \* import_table
    loaded,  \* the loaded modules: lower-case name -> export directory
    ipc,      \* "table", "pass1", "pass2", "done"
    desc,     \* the descriptor pass 1 is at
    rc        \* what resolve_imports returns

bindVars == <<img, mem, table, loaded, ipc, desc, rc>>

-----------------------------------------------------------------------------
(* The built-in table                                                       *)

\* set_import: the first entry of that name.
set_import(t, name, address) ==
    LET at == {i \in DOMAIN t : t[i].name = name}
    IN IF at = {} THEN t ELSE [t EXCEPT ![Min(at)].address = address]

init_msvcrt_imports(t, pe32) ==
    IF pe32 THEN t
    ELSE FoldSet(LAMBDA name, acc : set_import(acc, name, Dynamic[name]), t, DOMAIN Dynamic)

\* One round of the insertion sort: the key moves left over larger names.
InsertEntry(t, i) ==
    LET key == t[i]
        at == CHOOSE j \in 1 .. i :
                 /\ \A k \in j .. i - 1 : t[k].name > key.name
                 /\ j = 1 \/ t[j - 1].name <= key.name
    IN [k \in DOMAIN t |-> IF k < at \/ k > i THEN t[k] ELSE IF k = at THEN key ELSE t[k - 1]]

init_import_table(t) == FoldLeft(LAMBDA acc, i : InsertEntry(acc, i), t, [i \in 1 .. Len(t) |-> i])

\* The hand-written binary search for a name; bounds as in C, 0-based.  A name that
\* cannot be read (image_cstr_valid), which only a module's table can have, ends it.
BinarySearch[t \in Seq([name : Nat]), name \in Nat, lo \in Nat, hi \in Nat] ==
    LET mid == lo + (hi - lo) \div 2
    IN IF lo >= hi \/ t[mid + 1].name > MaxName THEN 0
       ELSE IF name < t[mid + 1].name THEN BinarySearch[t, name, lo, mid]
       ELSE IF name > t[mid + 1].name THEN BinarySearch[t, name, mid + 1, hi]
       ELSE mid + 1

-----------------------------------------------------------------------------
(* Exports of loaded modules                                               *)

\* parse_export_table keeps the first MAX_EXPORT_NAMES names and the first
\* MAX_EXPORT_FUNCTIONS functions; a module whose export directory or one of its
\* three tables is missing or lies outside the image has no exports.
parse_export_table(e) ==
    IF ~e.inside THEN [e EXCEPT !.names = <<>>, !.ordinals = <<>>, !.functions = <<>>]
    ELSE [e EXCEPT !.names = SubSeq(@, 1, Min({Len(@), MAX_EXPORT_NAMES})),
                   !.ordinals = SubSeq(@, 1, Min({Len(@), MAX_EXPORT_NAMES})),
                   !.functions = SubSeq(@, 1, Min({Len(@), MAX_EXPORT_FUNCTIONS}))]

check_forwarder(e, rva) == rva \in e.forwarders

NameTable(e) == [i \in DOMAIN e.names |-> [name |-> e.names[i]]]

lookup_export(e, func) ==
    LET at == BinarySearch[NameTable(e), func, 0, Len(e.names)]
    IN IF at = 0 \/ e.ordinals[at] >= Len(e.functions) THEN NoAddress
       ELSE LET rva == e.functions[e.ordinals[at] + 1]
            IN IF check_forwarder(e, rva) THEN NoAddress ELSE e.base + rva

\* Unused by the loader; the subtraction wraps round in 32 bits.
lookup_export_by_ordinal(e, ordinal) ==
    LET index == (ordinal - e.base_ordinal) % HighBit
    IN IF index >= Len(e.functions) \/ check_forwarder(e, e.functions[index + 1]) THEN NoAddress
       ELSE e.base + e.functions[index + 1]

-----------------------------------------------------------------------------
(* Lookup of one import                                                     *)

import_name_equal(a, b) == LowerCase[a] = LowerCase[b]

\* Tier 1: by library and name in the 32-bit build, by name in the other.
StubEntry(pe32, dll, func) ==
    IF pe32
    THEN LET at == {i \in DOMAIN table : import_name_equal(dll, table[i].dll) /\ table[i].name = func}
         IN IF at = {} THEN 0 ELSE Min(at)
    ELSE BinarySearch[[i \in DOMAIN table |-> [name |-> table[i].name]], func, 0, Len(table)]

\* Mutant: a stub without an address ends the search.
resolve_stub_only(pe32, dll, func) ==
    LET at == StubEntry(pe32, dll, func) IN IF at # 0 THEN table[at].address ELSE NoAddress

resolve_loader_import(pe32, dll, func) ==
    LET at == StubEntry(pe32, dll, func)
        module == LowerCase[dll]
    IN IF at # 0 /\ table[at].address # NoAddress THEN table[at].address
       ELSE IF module \in DOMAIN loaded THEN lookup_export(loaded[module], func)
       ELSE NoAddress

ordinal_lookup(dll, ordinal) ==
    LET at == {i \in DOMAIN OrdinalTable :
                 import_name_equal(OrdinalTable[i].dll, dll) /\ OrdinalTable[i].ordinal = ordinal}
    IN IF at = {} THEN 0 ELSE OrdinalTable[Min(at)].func

-----------------------------------------------------------------------------
(* Pass 1                                                                   *)

Slots == DOMAIN mem
Lookups(d) == IF d.ilt # 0 THEN d.ilt ELSE d.iat

\* One thunk on r = [mem, ok, more]: i is its index in the two tables.
BindThunk(r, d, i) ==
    LET from == Lookups(d) + i
        to == d.iat + i
        value == r.mem[from]
        func == IF value >= HighBit THEN ordinal_lookup(d.dll, value - HighBit) ELSE value
        address == IF func = 0 THEN NoAddress ELSE resolve_loader_import(img.pe32, d.dll, func)
    IN IF ~r.ok \/ ~r.more THEN r
       ELSE IF from \notin Slots \/ to \notin Slots THEN [r EXCEPT !.ok = FALSE]
       ELSE IF value = 0 THEN [r EXCEPT !.more = FALSE]
       ELSE IF value > MaxName /\ value < HighBit THEN [r EXCEPT !.ok = FALSE]
       ELSE IF address = NoAddress THEN r
       ELSE [r EXCEPT !.mem[to] = address]

BindDescriptor(d) ==
    FoldLeft(LAMBDA r, i : BindThunk(r, d, i), [mem |-> mem, ok |-> TRUE, more |-> TRUE],
             [k \in 1 .. Max(Slots) + 1 |-> k - 1])

InitTable ==
    /\ ipc = "table"
    /\ table' = init_import_table(init_msvcrt_imports(table, img.pe32))
    /\ ipc' = "pass1"
    /\ UNCHANGED <<img, mem, loaded, desc, rc>>

\* The descriptors, while the directory has room for one more and it has a
\* name; the descriptor that ends the list must fit too.
resolve_import_pass1 ==
    /\ ipc = "pass1"
    /\ IF img.dir = "none"
       THEN ipc' = "pass2" /\ UNCHANGED <<mem, desc, rc>>
       ELSE IF img.dir = "outside" \/ desc > img.room
       THEN ipc' = "done" /\ rc' = -1 /\ UNCHANGED <<mem, desc>>
       ELSE IF desc > Len(img.descs)
       THEN ipc' = "pass2" /\ UNCHANGED <<mem, desc, rc>>
       ELSE LET r == BindDescriptor(img.descs[desc])
            IN /\ mem' = r.mem
               /\ IF r.ok THEN desc' = desc + 1 /\ UNCHANGED <<ipc, rc>>
                          ELSE ipc' = "done" /\ rc' = -1 /\ UNCHANGED desc
    /\ UNCHANGED <<img, table, loaded>>

-----------------------------------------------------------------------------
(* Pass 2                                                                   *)

\* The slots that jumps in the code go through, in order and without
\* duplicates, at most MAX_THUNK_TARGETS of them.
AddTarget(acc, slot) ==
    IF slot \in Range(acc) \/ Len(acc) >= MAX_THUNK_TARGETS THEN acc ELSE Append(acc, slot)
scan_rip_relative_jumps(jumps) == SetToSortSeq(Range(FoldLeft(AddTarget, <<>>, jumps)), <)

\* One entry per import: its lookup value, its slot and what the slot holds
\* now.  A value that is no name and no ordinal, and the end of the image, end not
\* only the descriptor's list but the whole array.
FlatOf(d) ==
    LET from == Lookups(d)
        ends == {i \in 0 .. Max(Slots) :
                   \/ from + i \notin Slots \/ d.iat + i \notin Slots
                   \/ mem[from + i] = 0
                   \/ mem[from + i] > MaxName /\ mem[from + i] < HighBit
                   \/ mem[from + i] >= FirstAddress}
        n == IF ends = {} THEN Max(Slots) + 1 ELSE Min(ends)
    IN [entries |-> [k \in 1 .. n |-> [ilt_value |-> mem[from + k - 1], iat_addr |-> d.iat + k - 1,
                                       resolved_addr |-> mem[d.iat + k - 1]]],
        more |-> from + n \in Slots /\ d.iat + n \in Slots /\ mem[from + n] = 0]

build_flat_import_array ==
    LET add(acc, d) == IF ~acc.more THEN acc
                       ELSE [FlatOf(d) EXCEPT !.entries = acc.entries \o @]
        all == FoldLeft(add, [entries |-> <<>>, more |-> TRUE], img.descs).entries
    IN SubSeq(all, 1, Min({Len(all), MAX_FLAT_IMPORTS}))

strategy_resolved_overlap(m, flat, slot) ==
    \E f \in Range(flat) : f.iat_addr = slot /\ f.resolved_addr = m[slot]

strategy_ilt_value_match(m, flat, slot) ==
    {f \in Range(flat) : /\ m[slot] # 0
                         /\ f.iat_addr = slot /\ f.ilt_value = m[slot] /\ f.resolved_addr # 0}

strategy_ilt_offset_match(m, flat, slot) ==
    {f \in Range(flat) : m[slot] # 0 /\ f.iat_addr = slot /\ f.resolved_addr # 0}

PatchTarget(m, flat, slot) ==
    LET second == strategy_ilt_value_match(m, flat, slot)
        third == strategy_ilt_offset_match(m, flat, slot)
    IN IF slot \notin Slots \/ strategy_resolved_overlap(m, flat, slot) THEN m
       ELSE IF second # {} THEN [m EXCEPT ![slot] = (CHOOSE f \in second : TRUE).resolved_addr]
       ELSE IF third # {} THEN [m EXCEPT ![slot] = (CHOOSE f \in third : TRUE).resolved_addr]
       ELSE m

patch_thunk_targets(flat) ==
    FoldLeft(LAMBDA m, slot : PatchTarget(m, flat, slot), mem, scan_rip_relative_jumps(img.jumps))

resolve_import_pass2 ==
    /\ ipc = "pass2"
    /\ ipc' = "done" /\ rc' = 0
    /\ mem' = IF img.pe32 \/ img.dir = "none" THEN mem
              ELSE patch_thunk_targets(build_flat_import_array)
    /\ UNCHANGED <<img, table, loaded, desc>>

BindInit ==
    /\ img \in Images /\ mem = img.mem
    /\ table \in Tables
    /\ \E e \in Exports : loaded = [m \in DOMAIN e |-> parse_export_table(e[m])]
    /\ ipc = "table" /\ desc = 1 /\ rc = 1

BindNext == InitTable \/ resolve_import_pass1 \/ resolve_import_pass2

\* GetProcAddress on the handle of a built-in library.
lookup_builtin_export(dll, func) ==
    LET at == {i \in DOMAIN table :
                 /\ import_name_equal(table[i].dll, dll)
                 /\ table[i].name = func /\ table[i].address # NoAddress}
    IN IF at = {} THEN NoAddress ELSE table[Min(at)].address

-----------------------------------------------------------------------------
(* Properties                                                               *)

\* The imports of an image: descriptor, position, library and thunk value.
ImportsOf(d) ==
    LET from == Lookups(d)
        n == CHOOSE k \in 0 .. Max(Slots) :
                /\ from + k \notin Slots \/ img.mem[from + k] = 0
                /\ \A j \in 0 .. k - 1 : from + j \in Slots /\ img.mem[from + j] # 0
    IN {[slot |-> d.iat + i, dll |-> d.dll, value |-> img.mem[from + i]] : i \in 0 .. n - 1}
Imports == UNION {ImportsOf(img.descs[i]) : i \in DOMAIN img.descs}

\* What the tables promise for an import, by a plain search: a stub of that
\* name (of that library, where the build tells libraries apart), else the
\* module's export of that name unless it is a forwarder.
StubsOf(dll, func) ==
    {table[i].address : i \in {j \in DOMAIN table :
        /\ table[j].name = func /\ table[j].address # NoAddress
        /\ img.pe32 => import_name_equal(table[j].dll, dll)}}
ExportsOf(dll, func) ==
    IF LowerCase[dll] \notin DOMAIN loaded THEN {}
    ELSE LET e == loaded[LowerCase[dll]]
         IN {e.base + e.functions[e.ordinals[i] + 1] :
               i \in {j \in DOMAIN e.names :
                        /\ e.names[j] = func /\ e.ordinals[j] < Len(e.functions)
                        /\ e.functions[e.ordinals[j] + 1] \notin e.forwarders}}
\* A module that has a name which cannot be read may hide its other exports.
Hidden(dll) ==
    LowerCase[dll] \in DOMAIN loaded /\ \E n \in Range(loaded[LowerCase[dll]].names) : n > MaxName
Promised(dll, func) ==
    IF StubsOf(dll, func) # {} THEN StubsOf(dll, func) ELSE ExportsOf(dll, func)
FuncOf(x) == IF x.value >= HighBit THEN ordinal_lookup(x.dll, x.value - HighBit) ELSE x.value

\* When resolve_imports succeeds, every slot of every address table holds the
\* address that the tables promise for its library and name - found by binary
\* search in a table sorted after it was filled in - and a slot whose import
\* nobody provides, like every other slot of the image, is as it was.  A module with
\* a name that cannot be read (lookup_export) is not held to its exports.
BoundAsPromised ==
    (ipc = "done" /\ rc = 0 /\ img.dir = "inside") =>
        /\ \A x \in Imports :
              LET promised == IF FuncOf(x) = 0 THEN {} ELSE Promised(x.dll, FuncOf(x))
              IN \/ mem[x.slot] \in promised
                 \/ mem[x.slot] = img.mem[x.slot] /\ (promised = {} \/ Hidden(x.dll))
        /\ \A s \in Slots : s \notin {x.slot : x \in Imports} => mem[s] = img.mem[s]

\* A malformed import directory is refused, and before that only address
\* tables are written.
MalformedRefused ==
    ipc = "done" =>
        /\ (img.dir = "outside" \/ (img.dir = "inside" /\ img.room <= Len(img.descs))) => rc = -1
        /\ \A s \in Slots : mem[s] # img.mem[s] => \E d \in Range(img.descs) : s >= d.iat

\* The sort keeps every entry and puts the names in order, so that the binary
\* search finds a name exactly when the table has it.
TableSearchable ==
    ipc # "table" =>
        /\ \A i, j \in DOMAIN table : i < j => table[i].name <= table[j].name
        /\ \A name \in 1 .. MaxName :
              (\E i \in DOMAIN table : table[i].name = name)
                 <=> StubEntry(FALSE, table[1].dll, name) # 0

\* A program that asks GetProcAddress for a function of a built-in library
\* gets the address that its imports are bound to.
SameAddressEitherWay ==
    ipc = "done" =>
        \A i \in DOMAIN table :
            LET found == lookup_builtin_export(table[i].dll, table[i].name)
            IN found # NoAddress =>
                 resolve_loader_import(img.pe32, table[i].dll, table[i].name) = found

\* Import resolution keeps its promises: malformed directories are refused, the
\* sorted table is searchable, what is bound is what the tables promise, and a
\* later GetProcAddress agrees with it.
ImportsResolved == MalformedRefused /\ TableSearchable /\ BoundAsPromised /\ SameAddressEitherWay
=============================================================================
