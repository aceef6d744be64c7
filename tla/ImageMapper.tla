---------------------------- MODULE ImageMapper ----------------------------
(***************************************************************************)
(* map_image_at (image_mapper.c): a PE file becomes an image in memory.    *)
(* The header checks of pe_headers.c and the base relocations of           *)
(* relocations.c are part of it; load_dll's saving and restoring of the    *)
(* globals is the caller's side.                                           *)
(*                                                                         *)
(* Memory is counted in half-words ("units"), each one of Half values: a   *)
(* 32-bit word is two units, a 64-bit one four, and addresses below        *)
(* ADDR32_LIMIT fit in a 32-bit word.  Sizes of headers are one unit each. *)
(* Any system call may fail.                                               *)
(***************************************************************************)
EXTENDS Integers, Sequences, FiniteSetsExt, SequencesExt

CONSTANTS Files,            \* the PE files considered
          Callers,          \* who maps, at which desired base, with which addresses in use
          Half,             \* values of a half-word, 2^16 in the source
          PageUnits,        \* units in a page
          PE32_DEFAULT_IMAGE_BASE,
          AnyBase           \* where the kernel puts an image it may place freely

ASSUME MapperAssumption ==
    /\ Half \in Nat /\ Half > 1
    /\ PageUnits \in Nat /\ PageUnits > 0
    /\ PE32_DEFAULT_IMAGE_BASE \in Nat

ADDR32_LIMIT == Half * Half
RWX == {"R", "W", "X"}
NoSection == [va |-> 0, vsize |-> 0, raw |-> 0, ptr |-> 0, chars |-> {}]

VARIABLES
    file,      \* the PE file being mapped
    caller,    \* main (map_image) or load_dll, and the base it asks for
    pc,        \* where map_image_at is
    res,       \* what it holds: "fd", "file" (the read-only map), "image"
    base,      \* the address of the image
    image,     \* its units
    prot,      \* the protection of its pages
    idx,       \* the section the current loop is at
    reach,     \* history: one past the highest unit of the image written
    readTo,    \* history: one past the highest unit of the file read
    globals    \* g_loader: image_base, image_size, is_32bit, pe_path

mapVars == <<file, caller, pc, res, base, image, prot, idx, reach, readTo, globals>>

-----------------------------------------------------------------------------
(* Headers: what pe_headers.c accepts.                                      *)

IsPe32(f) == f.magic = "pe32"
NtSize(f) == IF IsPe32(f) THEN 1 ELSE 2
SectionTable(f) == f.lfanew + NtSize(f)

parse_dos_header(f) == f.size >= 1 /\ f.dos

parse_nt_headers(f) ==
    /\ f.lfanew < f.size /\ f.signature
    /\ f.machine
    /\ f.magic \in {"pe32", "pe32+"}
    /\ f.optional
    /\ f.lfanew + NtSize(f) <= f.size

parse_sections(f) ==
    /\ SectionTable(f) + Len(f.sections) <= f.size
    /\ \A i \in DOMAIN f.sections :
          f.sections[i].ptr # 0 => f.sections[i].ptr + f.sections[i].raw <= f.size

HeadersAccepted(f) == parse_dos_header(f) /\ parse_nt_headers(f) /\ parse_sections(f)

pe_rva_range_is_valid(f, rva, len) == len <= f.image /\ rva <= f.image - len

\* The section table that the later loops read: after the headers are copied
\* it is the copy in the image, which ends where the copied headers end.
get_image_sections(f) ==
    [i \in DOMAIN f.sections |->
        IF f.headers = 0 \/ SectionTable(f) + i <= f.headers THEN f.sections[i] ELSE NoSection]

-----------------------------------------------------------------------------
(* Units and words                                                          *)

Put(img, at, units) ==
    [u \in DOMAIN img |-> IF u - at \in 0 .. Len(units) - 1 THEN units[u - at + 1] ELSE img[u]]

Word(img, at, n) == MapThenSumSet(LAMBDA k : img[at + k] * Half ^ k, 0 .. n - 1)

Units(value, n) == [k \in 1 .. n |-> (value \div Half ^ (k - 1)) % Half]

Zeroes(n) == [k \in 1 .. n |-> 0]

\* The unit at an offset of the file: never zero, and unlike its neighbours.
FileUnit(offset) == (offset % (Half - 1)) + 1

FileUnits(at, n) == [k \in 1 .. n |-> FileUnit(at + k - 1)]

PageRound(n) == ((n + PageUnits - 1) \div PageUnits) * PageUnits

-----------------------------------------------------------------------------
(* Base relocations                                                         *)

\* The width of what an entry patches; 0 for the types that are skipped.
Width(pe32, type) ==
    IF pe32
    THEN CASE type \in {"HIGHLOW", "DIR32"} -> 2
           [] type \in {"HIGH", "LOW", "HIGHADJ"} -> 1
           [] OTHER -> 0
    ELSE IF type = "DIR64" THEN 4 ELSE 0

Addend(type, delta) ==
    CASE type \in {"HIGH", "HIGHADJ"} -> (delta \div Half) % Half
      [] type = "LOW" -> delta % Half
      [] OTHER -> delta

\* One entry of a block at rva va, on r = [image, ok, reach].
RelocateEntry(f, delta, va, r, e) ==
    LET n == Width(IsPe32(f), e.type)
        at == va + e.offset
    IN IF ~r.ok \/ n = 0 THEN r
       ELSE IF ~pe_rva_range_is_valid(f, at, n) THEN [r EXCEPT !.ok = FALSE]
       ELSE [r EXCEPT
               !.image = Put(@, at, Units((Word(@, at, n) + Addend(e.type, delta)) % Half ^ n, n)),
               !.reach = Max({@, at + n})]

\* One block; r.left is what remains of the directory and r.more whether the
\* walk goes on.  A block of no size ends the walk without an error.
RelocateBlock(f, delta, r, block) ==
    IF ~r.ok \/ ~r.more THEN r
    ELSE IF block.size = 0 \/ r.left = 0 THEN [r EXCEPT !.more = FALSE]
    ELSE IF block.size > r.left THEN [r EXCEPT !.ok = FALSE]
    ELSE [FoldLeft(LAMBDA acc, e : RelocateEntry(f, delta, block.va, acc, e), r, block.entries)
            EXCEPT !.left = @ - block.size]

\* Mutant: the delta is taken the wrong way round.
apply_relocations_backwards(f, at, img) ==
    LET delta == (f.base - at) % Half ^ 4
        start == [image |-> img, ok |-> TRUE, more |-> TRUE, left |-> f.dirSize, reach |-> 0]
    IN IF delta = 0 \/ (~f.stripped /\ f.dirSize = 0) THEN start
       ELSE IF f.stripped \/ ~pe_rva_range_is_valid(f, f.dir, f.dirSize)
            THEN [start EXCEPT !.ok = FALSE]
       ELSE FoldLeft(LAMBDA r, b : RelocateBlock(f, delta, r, b), start, f.blocks)

apply_relocations(f, at, img) ==
    LET delta == (at - f.base) % Half ^ 4
        start == [image |-> img, ok |-> TRUE, more |-> TRUE, left |-> f.dirSize, reach |-> 0]
    IN IF delta = 0 \/ (~f.stripped /\ f.dirSize = 0) THEN start
       ELSE IF f.stripped \/ ~pe_rva_range_is_valid(f, f.dir, f.dirSize)
            THEN [start EXCEPT !.ok = FALSE]
       ELSE FoldLeft(LAMBDA r, b : RelocateBlock(f, delta, r, b), start, f.blocks)

-----------------------------------------------------------------------------
(* map_image_at                                                             *)

MapInit ==
    /\ file \in Files /\ caller \in Callers
    /\ pc = "open" /\ res = {} /\ base = 0 /\ image = <<>> /\ prot = <<>>
    /\ idx = 1 /\ reach = 0 /\ readTo = 0
    /\ globals = caller.before

\* An early return gives back what its clean-up names.
Fail(given) == pc' = "failed" /\ res' = res \ given

kept == <<file, caller>>

OpenFile ==
    /\ pc = "open"
    /\ globals' = [globals EXCEPT !.pe_path = caller.path]
    /\ \/ pc' = "mapfile" /\ res' = {"fd"}
       \/ Fail({"fd"})
    /\ UNCHANGED <<kept, base, image, prot, idx, reach, readTo>>

MapFile ==
    /\ pc = "mapfile"
    /\ \/ pc' = "parse" /\ res' = res \cup {"file"}
       \/ Fail({"fd"})
    /\ UNCHANGED <<kept, base, image, prot, idx, reach, readTo, globals>>

\* The flag of the image is set before its sizes are checked.
ParseHeaders ==
    /\ pc = "parse"
    /\ globals' = [globals EXCEPT !.is_32bit = IF HeadersAccepted(file) THEN IsPe32(file) ELSE @]
    /\ IF /\ HeadersAccepted(file)
          /\ file.image # 0
          /\ file.headers <= file.size /\ file.headers <= file.image
       THEN pc' = "mapimage" /\ UNCHANGED res
       ELSE Fail({"fd", "file"})
    /\ UNCHANGED <<kept, base, image, prot, idx, reach, readTo>>

ImageBase(f, desired) ==
    LET wanted == IF desired # 0 THEN desired
                  ELSE IF IsPe32(f) THEN PE32_DEFAULT_IMAGE_BASE ELSE f.base
    IN IF IsPe32(f) /\ (wanted >= ADDR32_LIMIT \/ f.image > ADDR32_LIMIT - wanted)
       THEN PE32_DEFAULT_IMAGE_BASE ELSE wanted

Span(at, n) == at .. at + n - 1

\* MAP_FIXED_NOREPLACE refuses an address that is in use; the second mmap
\* lets the kernel choose.
MapImage ==
    /\ pc = "mapimage"
    /\ LET wanted == ImageBase(file, caller.desired)
           free == Span(wanted, file.image) \cap caller.taken = {}
       IN \/ \E at \in (IF free THEN {wanted} ELSE {}) \cup AnyBase :
                /\ pc' = "copy" /\ base' = at /\ res' = res \cup {"image"}
                /\ image' = [u \in 0 .. file.image - 1 |-> 0]
                /\ prot' = [p \in 0 .. (PageRound(file.image) \div PageUnits) - 1 |-> RWX]
          \/ Fail({"fd", "file"}) /\ UNCHANGED <<base, image, prot>>
    /\ UNCHANGED <<kept, idx, reach, readTo, globals>>

\* The copy loop of sections that have raw data in the file.
CopySections ==
    /\ pc = "copy"
    /\ LET s == file.sections[idx]
       IN IF idx > Len(file.sections)
          THEN /\ pc' = "headers" /\ idx' = 1
               /\ UNCHANGED <<res, image, reach, readTo>>
          ELSE IF s.raw = 0 \/ s.ptr = 0
          THEN idx' = idx + 1 /\ UNCHANGED <<pc, res, image, reach, readTo>>
          ELSE IF ~pe_rva_range_is_valid(file, s.va, s.raw)
          THEN Fail({"fd", "file", "image"}) /\ UNCHANGED <<idx, image, reach, readTo>>
          ELSE /\ image' = Put(image, s.va, FileUnits(s.ptr, s.raw))
               /\ reach' = Max({reach, s.va + s.raw})
               /\ readTo' = Max({readTo, s.ptr + s.raw})
               /\ idx' = idx + 1
               /\ UNCHANGED <<pc, res>>
    /\ UNCHANGED <<kept, base, prot, globals>>

CopyHeaders ==
    /\ pc = "headers"
    /\ pc' = "zero"
    /\ image' = Put(image, 0, FileUnits(0, file.headers))
    /\ reach' = Max({reach, file.headers})
    /\ readTo' = Max({readTo, file.headers})
    /\ UNCHANGED <<kept, res, base, prot, idx, globals>>

SectionSize(s) == IF s.vsize # 0 THEN s.vsize ELSE s.raw

Uninitialised(s) == s.ptr = 0 \/ "BSS" \in s.chars

\* The loop that clears the sections without file-backed contents.
ZeroSections ==
    /\ pc = "zero"
    /\ LET s == get_image_sections(file)[idx]
       IN IF idx > Len(file.sections)
          THEN pc' = "relocate" /\ idx' = 1 /\ UNCHANGED <<res, image, reach>>
          ELSE IF ~Uninitialised(s) \/ SectionSize(s) = 0
          THEN idx' = idx + 1 /\ UNCHANGED <<pc, res, image, reach>>
          ELSE IF ~pe_rva_range_is_valid(file, s.va, SectionSize(s))
          THEN Fail({"fd", "file", "image"}) /\ UNCHANGED <<idx, image, reach>>
          ELSE /\ image' = Put(image, s.va, Zeroes(SectionSize(s)))
               /\ reach' = Max({reach, s.va + SectionSize(s)})
               /\ idx' = idx + 1
               /\ UNCHANGED <<pc, res>>
    /\ UNCHANGED <<kept, base, prot, readTo, globals>>

Relocate ==
    /\ pc = "relocate"
    /\ LET r == apply_relocations(file, base, image)
       IN /\ image' = r.image
          /\ reach' = Max({reach, r.reach})
          /\ IF r.ok THEN pc' = "protect" /\ UNCHANGED res ELSE Fail({"fd", "file", "image"})
    /\ UNCHANGED <<kept, base, prot, idx, readTo, globals>>

SectionPages(s) ==
    (s.va \div PageUnits) .. (s.va \div PageUnits) + PageRound(SectionSize(s)) \div PageUnits - 1

SectionAccess(s) == s.chars \cap RWX

\* The protection loop; mprotect may fail, and refuses an address inside a page.
ProtectSections ==
    /\ pc = "protect"
    /\ LET s == get_image_sections(file)[idx]
       IN IF idx > Len(file.sections)
          THEN pc' = "publish" /\ UNCHANGED <<idx, res, prot>>
          ELSE IF s.vsize = 0 /\ s.raw = 0
          THEN idx' = idx + 1 /\ UNCHANGED <<pc, res, prot>>
          ELSE \/ /\ pe_rva_range_is_valid(file, s.va, PageRound(SectionSize(s)))
                  /\ s.va % PageUnits = 0
                  /\ prot' = [p \in DOMAIN prot |->
                                IF p \in SectionPages(s) THEN SectionAccess(s) ELSE prot[p]]
                  /\ idx' = idx + 1
                  /\ UNCHANGED <<pc, res>>
               \/ Fail({"fd", "file", "image"}) /\ UNCHANGED <<idx, prot>>
    /\ UNCHANGED <<kept, base, image, reach, readTo, globals>>

Publish ==
    /\ pc = "publish"
    /\ pc' = "mapped" /\ res' = res \ {"fd", "file"}
    /\ globals' = [globals EXCEPT !.image_base = base, !.image_size = file.image]
    /\ UNCHANGED <<kept, base, image, prot, idx, reach, readTo>>

\* load_dll restores what it saved: all but image_size.
Restore ==
    /\ caller.kind = "load_dll" /\ pc \in {"mapped", "failed"}
    /\ pc' = IF pc = "mapped" THEN "loaded" ELSE "refused"
    /\ globals' = [caller.before EXCEPT !.image_size = globals.image_size]
    /\ UNCHANGED <<kept, res, base, image, prot, idx, reach, readTo>>

MapNext ==
    \/ OpenFile \/ MapFile \/ ParseHeaders \/ MapImage \/ CopySections \/ CopyHeaders
    \/ ZeroSections \/ Relocate \/ ProtectSections \/ Publish \/ Restore

-----------------------------------------------------------------------------
(* Properties                                                               *)

\* What the linker meant: sections are page aligned, apart from each other and
\* from the headers, the headers hold the section table, no unit is patched twice.
Extent(s) == Span(s.va, PageRound(Max({s.vsize, s.raw})))
Entries(f) == {<<b.va + e.offset, Width(IsPe32(f), e.type), e.type>> :
                 <<b, e>> \in UNION {{b} \X Range(b.entries) : b \in Range(f.blocks)}}
Patched(f) == UNION {Span(e[1], e[2]) : e \in Entries(f)}
WellFormed(f) ==
    /\ f.headers >= SectionTable(f) + Len(f.sections)
    /\ \A i \in DOMAIN f.sections :
          /\ f.sections[i].va % PageUnits = 0
          /\ Extent(f.sections[i]) \cap Span(0, f.headers) = {}
          /\ \A j \in DOMAIN f.sections : i # j => Extent(f.sections[i]) \cap Extent(f.sections[j]) = {}
    /\ \A b \in Range(f.blocks) : b.size = 1 + Len(b.entries)
    /\ f.dirSize \in {0, FoldLeft(LAMBDA n, b : n + b.size, 0, f.blocks)}
    /\ \A d, e \in Entries(f) : d # e => Span(d[1], d[2]) \cap Span(e[1], e[2]) = {}

\* Units that belong to the program: a section's padding does not.
Used(f) ==
    {u \in 0 .. f.image - 1 : \A i \in DOMAIN f.sections :
        u \in Extent(f.sections[i]) => u < f.sections[i].va + SectionSize(f.sections[i])}

\* A unit as the linker placed it.
Linked(f, u) ==
    LET here == {i \in DOMAIN f.sections :
                   ~Uninitialised(f.sections[i]) /\ u \in Span(f.sections[i].va, f.sections[i].raw)}
    IN IF u < f.headers THEN FileUnit(u)
       ELSE IF here = {} THEN 0
       ELSE LET s == f.sections[CHOOSE i \in here : TRUE] IN FileUnit(s.ptr + u - s.va)

\* An image that map_image_at returns holds what the linker put there: headers,
\* raw data and zeroes where it should, and every full-width address that the
\* relocation table names moved by the distance to the preferred base, modulo
\* its width, exactly once; nothing else differs.  Away from its preferred base
\* it is never an image whose relocations were stripped.
MappedAsLinked ==
    (pc = "mapped" /\ WellFormed(file)) =>
        LET linked == [u \in DOMAIN image |-> Linked(file, u)]
            moved == base # file.base
        IN /\ moved => ~file.stripped
           /\ \A u \in Used(file) :
                 (~moved \/ u \notin Patched(file)) => image[u] = linked[u]
           /\ moved /\ file.dirSize # 0 =>
                 \A e \in Entries(file) :
                    e[2] > 1 => Word(image, e[1], e[2])
                                  = (Word(linked, e[1], e[2]) + base - file.base) % Half ^ e[2]

\* The pages of a section end up with exactly the access its header asks for,
\* to its last page, and no other page of the image loses access.
SectionsProtected ==
    (pc = "mapped" /\ WellFormed(file)) =>
        \A p \in DOMAIN prot :
            LET here == {i \in DOMAIN file.sections :
                           /\ SectionSize(file.sections[i]) > 0
                           /\ Span(p * PageUnits, PageUnits)
                                 \cap Span(file.sections[i].va, SectionSize(file.sections[i])) # {}}
            IN prot[p] = IF here = {} THEN RWX
                         ELSE file.sections[CHOOSE i \in here : TRUE].chars \cap RWX

\* Whatever the headers say, no unit outside the image is written and none
\* outside the file is read.
CopiesInBounds == reach <= Max({file.image, 0}) /\ readTo <= file.size

\* Every early return of map_image_at has given back the descriptor, the file
\* mapping and the image; success keeps only the image.
NothingLeftBehind ==
    /\ pc \in {"failed", "refused"} => res = {}
    /\ pc \in {"mapped", "loaded"} => res = {"image"}

\* A PE32 image asked for at a fixed address lies below 4 GB, unless the kernel
\* chose the address.
Below4G ==
    (pc = "mapped" /\ IsPe32(file)) => (base + file.image <= ADDR32_LIMIT \/ base \in AnyBase)

\* When load_dll is done with map_image_at, successful or not, the base, the
\* width and the path are those of the main image again.  image_size is not: load_dll
\* does not save it, and it stays that of the last library that was mapped, although
\* loader_state.h calls it the main image's and the crash handler tells by it whether
\* an address is in the main image.
MainImageKept ==
    pc \in {"loaded", "refused"} =>
        globals = [caller.before EXCEPT !.image_size = IF pc = "loaded" THEN file.image ELSE @]

\* What map_image_at promises its callers: an image as the linker meant it,
\* protected as its sections say, made without reading or writing out of bounds,
\* below 4 GB if it is a PE32, with nothing left open or mapped on any early
\* return, and with the main image's base, width and path (not its size) as they were
\* once load_dll is done.
ImageReady ==
    /\ MappedAsLinked /\ SectionsProtected /\ CopiesInBounds
    /\ Below4G /\ NothingLeftBehind /\ MainImageKept
=============================================================================
