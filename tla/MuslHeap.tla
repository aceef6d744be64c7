------------------------------ MODULE MuslHeap ------------------------------
(***************************************************************************)
(* The two backends of the heap: musl's malloc for 64 bit programs         *)
(* (src/heap/musl_src, with the stubs of src/heap/musl_stubs) and one      *)
(* mapping per allocation for 32 bit programs (pe32_mmap_heap_backend.c).  *)
(*                                                                         *)
(* The functions are operators on a record h: pg, the pages of the address *)
(* space; chunk, the headers in memory by address; bins and binmap; end,   *)
(* the end of the last heap area; step, mmap_step; crashed, a_crash ran.   *)
(* Addresses and sizes are in words of 4 bytes, requests are in bytes.  A  *)
(* header is psize and csize with their C_INUSE bits pu and cu; headers    *)
(* that a merge leaves inside a chunk are forgotten.  need_locks is 0 in   *)
(* this build, the locks of malloc.c are never taken and are left out.     *)
(***************************************************************************)
EXTENDS Integers, Sequences, FiniteSets, FiniteSetsExt, SequencesExt

CONSTANTS
    Pages,          \* pages of the address space, 1..Pages
    PAGE,           \* words of a page, 1024
    MMAP_THRESHOLD, \* words above which a chunk is a mapping of its own, 0x1c00 * SIZE_ALIGN in the code
    MaxRequest      \* bytes above which a request is refused, PTRDIFF_MAX less the overheads in the code

SIZE_ALIGN == 8
OVERHEAD == 4
DONTCARE == 4

EmptyHeap == [pg |-> [p \in 1..Pages |-> "free"], chunk |-> <<>>, bins |-> <<>>, binmap |-> {},
              end |-> 0, step |-> 0, crashed |-> FALSE]

-----------------------------------------------------------------------------
(* The address space.  how is where the kernel puts a mapping: in the      *)
(* lowest hole that is large enough, in the highest, or nowhere.           *)

Hows == {"low", "high", "fail"}
PagesFor(words) == (words + PAGE - 1) \div PAGE
Holes(pg, len) == {b \in 1..Pages + 1 - len : \A p \in b..b + len - 1 : pg[p] = "free"}
\* The first page of a new mapping, 0 when there is none.
__mmap(pg, len, how) ==
    IF how = "fail" \/ Holes(pg, len) = {} THEN 0
    ELSE IF how = "low" THEN Min(Holes(pg, len)) ELSE Max(Holes(pg, len))
Mark(pg, base, len, tag) == [p \in DOMAIN pg |-> IF p \in base..base + len - 1 THEN tag ELSE pg[p]]
__munmap(pg, base, len) == Mark(pg, base, len, "free")

-----------------------------------------------------------------------------
(* Bins.                                                                   *)

bin_tab == <<32,33,34,35,36,36,37,37,38,38,39,39,
             40,40,40,40,41,41,41,41,42,42,42,42,43,43,43,43,
             44,44,44,44,44,44,44,44,45,45,45,45,45,45,45,45,
             46,46,46,46,46,46,46,46,47,47,47,47,47,47,47,47>>

bin_index(size) ==
    LET x == size \div SIZE_ALIGN - 1
    IN  IF x <= 32 THEN x
        ELSE IF x < 512 THEN bin_tab[x \div 8 - 4 + 1]
        ELSE IF x > 7168 THEN 63
        ELSE bin_tab[x \div 128 - 4 + 1] + 16

bin_index_up(size) ==
    LET x == size \div SIZE_ALIGN - 1
    IN  IF x <= 32 THEN x
        ELSE IF x - 1 < 512 THEN bin_tab[(x - 1) \div 8 - 4 + 1] + 1
        ELSE bin_tab[(x - 1) \div 128 - 4 + 1] + 17

Bin(h, i) == IF i \in DOMAIN h.bins THEN h.bins[i] ELSE <<>>
SetBin(h, i, list) ==
    [h EXCEPT !.bins = [j \in (DOMAIN @ \cup {i}) \ (IF list = <<>> THEN {i} ELSE {}) |->
                           IF j = i THEN list ELSE @[j]]]
NEXT_CHUNK(h, c) == c + h.chunk[c].csize
\* The headers at the addresses of f are replaced or added, those in gone are forgotten.
Write(h, f, gone) ==
    [h EXCEPT !.chunk = [a \in (DOMAIN @ \cup DOMAIN f) \ gone |-> IF a \in DOMAIN f THEN f[a] ELSE @[a]]]
Between(h, a, b) == {c \in DOMAIN h.chunk : a < c /\ c < b}

\* c leaves the list it is in; the bit of bin i goes when c was alone in it.
unbin(h, c, i) ==
    LET j == CHOOSE x \in DOMAIN h.bins : c \in ToSet(h.bins[x])
        out == SetBin(h, j, SelectSeq(h.bins[j], LAMBDA x : x # c))
        bits == IF Len(h.bins[j]) = 1 THEN [out EXCEPT !.binmap = @ \ {i}] ELSE out
    IN  [bits EXCEPT !.chunk[c].cu = TRUE, !.chunk[NEXT_CHUNK(h, c)].pu = TRUE]
bin_chunk(h, c, i) ==
    LET in == SetBin(h, i, Append(Bin(h, i), c))
    IN  IF Bin(h, i) = <<>> THEN [in EXCEPT !.binmap = @ \cup {i}] ELSE in

-----------------------------------------------------------------------------
(* malloc.c.                                                               *)

TooBig(bytes) == bytes > MaxRequest
adjust_size(bytes) == IF bytes = 0 THEN SIZE_ALIGN ELSE ((bytes + 16 + 31) \div 32) * SIZE_ALIGN

\* brk never works in this build; the area is a mapping that doubles every second time.
Growth(h, words) == Max({PagesFor(words), 2 ^ (h.step \div 2)})

\* A chunk of the size of the new area.  An area that does not continue the last
\* one begins with room for the header of its first chunk; it always ends with a
\* sentinel of size 0, which the next area replaces if it follows directly.
expand_heap(h, n, how) ==
    LET len == Growth(h, n + SIZE_ALIGN)
        base == __mmap(h.pg, len, how)
        on == base * PAGE = h.end
        p == IF on THEN h.end ELSE base * PAGE + SIZE_ALIGN
        size == IF on THEN len * PAGE ELSE len * PAGE - SIZE_ALIGN
        c == p - OVERHEAD
        below == IF on THEN h.chunk[c] ELSE [psize |-> 0, pu |-> TRUE, csize |-> 0, cu |-> TRUE]
        h1 == [h EXCEPT !.pg = Mark(@, base, len, "heap"), !.step = @ + 1, !.end = p + size]
    IN  IF base = 0 THEN [c |-> 0, h |-> h]
        ELSE [c |-> c,
              h |-> Write(h1, [a \in {c, c + size} |->
                        IF a = c THEN [below EXCEPT !.csize = size, !.cu = TRUE]
                        ELSE [psize |-> size, pu |-> TRUE, csize |-> 0, cu |-> TRUE]], {})]

\* The rest of a chunk that is too large becomes a free chunk.
trim(h, c, n) ==
    LET n1 == h.chunk[c].csize
        h1 == Write(h, [a \in {c, c + n} |->
                  IF a = c THEN [h.chunk[c] EXCEPT !.csize = n, !.cu = TRUE]
                  ELSE [psize |-> n, pu |-> TRUE, csize |-> n1 - n, cu |-> FALSE]], {})
        h2 == [h1 EXCEPT !.chunk[c + n1].psize = n1 - n, !.chunk[c + n1].pu = FALSE]
    IN  IF n >= n1 - DONTCARE THEN h ELSE bin_chunk(h2, c + n, bin_index(n1 - n))

MapChunk(h, n, how) ==
    LET len == PagesFor(n + OVERHEAD)
        base == __mmap(h.pg, len, how)
        c == base * PAGE + SIZE_ALIGN - OVERHEAD
    IN  IF base = 0 THEN [p |-> 0, h |-> h]
        ELSE [p |-> c + OVERHEAD,
              h |-> Write([h EXCEPT !.pg = Mark(@, base, len, "big")],
                       [a \in {c} |-> [psize |-> SIZE_ALIGN - OVERHEAD, pu |-> FALSE,
                                       csize |-> len * PAGE - (SIZE_ALIGN - OVERHEAD), cu |-> FALSE]], {})]

\* n is the size of the chunk.  The first bin whose chunks all fit is tried for an
\* exact fit, then the bins from there on are, and then the heap grows.
FromNewArea(h, n, more) ==
    IF more.c = 0 THEN [p |-> 0, h |-> h] ELSE [p |-> more.c + OVERHEAD, h |-> trim(more.h, more.c, n)]
MallocChunk(h, n, how) ==
    LET i == bin_index_up(n)
        first == Head(Bin(h, i))
        exact == i < 63 /\ i \in h.binmap /\ Bin(h, i) # <<>>
                 /\ h.chunk[first].csize >= n /\ h.chunk[first].csize - n <= DONTCARE
        full == {j \in h.binmap : j >= i /\ Bin(h, j) # <<>>}
        c == Head(Bin(h, Min(full)))
    IN  IF n > MMAP_THRESHOLD THEN MapChunk(h, n, how)
        ELSE IF exact THEN [p |-> first + OVERHEAD, h |-> unbin(h, first, i)]
        ELSE IF full # {} THEN [p |-> c + OVERHEAD, h |-> trim(unbin(h, c, Min(full)), c, n)]
        ELSE FromNewArea(h, n, expand_heap(h, n, how))
malloc(h, bytes, how) ==
    IF TooBig(bytes) THEN [p |-> 0, h |-> h] ELSE MallocChunk(h, adjust_size(bytes), how)

\* A free neighbour of n words leaves its bin; with 0 words there is none.
Detach(h, c, n) == IF n > 0 THEN unbin(h, c, bin_index(n)) ELSE h
\* What lies from first to last becomes one free chunk in its bin.
Join(h, first, last) ==
    LET size == last - first
    IN  bin_chunk(Write(h, [a \in {first, last} |->
                      IF a = first THEN [h.chunk[first] EXCEPT !.csize = size, !.cu = FALSE]
                      ELSE [h.chunk[last] EXCEPT !.psize = size, !.pu = FALSE]], Between(h, first, last)),
                  first, bin_index(size))
\* Frees a chunk: free neighbours are merged, and the result goes into its bin.
__bin_chunk(h, self) ==
    LET next == NEXT_CHUNK(h, self)
        prev == IF h.chunk[self].pu THEN 0 ELSE h.chunk[self].psize
        more == IF h.chunk[next].cu THEN 0 ELSE h.chunk[next].csize
    IN  IF h.chunk[next].psize # h.chunk[self].csize \/ h.chunk[next].pu # h.chunk[self].cu
        THEN [h EXCEPT !.crashed = TRUE]
        ELSE Join(Detach(Detach(h, self - prev, prev), next, more), self - prev, next + more)

\* IS_MMAPPED tests the bit that chunks of the heap have while they are in use.
IS_MMAPPED(h, c) == ~h.chunk[c].cu
unmap_chunk(h, c) ==
    LET extra == h.chunk[c].psize
        h1 == Write(h, <<>>, {c})
    IN  IF h.chunk[c].pu THEN [h EXCEPT !.crashed = TRUE]
        ELSE [h1 EXCEPT !.pg = __munmap(@, (c - extra) \div PAGE, PagesFor(h.chunk[c].csize + extra))]
free(h, p) ==
    LET c == p - OVERHEAD IN IF IS_MMAPPED(h, c) THEN unmap_chunk(h, c) ELSE __bin_chunk(h, c)
malloc_usable_size(h, p) == (h.chunk[p - OVERHEAD].csize - OVERHEAD) * 4

\* The results of realloc: kept is how many bytes of the old block the new one has.
Stays(h, p, n) == [p |-> p, h |-> h, kept |-> malloc_usable_size(h, p)]
CopyFree(h, p, new, n0, n) ==
    IF new.p = 0 THEN [p |-> 0, h |-> h, kept |-> 0]
    ELSE [p |-> new.p, h |-> free(new.h, p), kept |-> (Min({n, n0}) - OVERHEAD) * 4]
CopyRealloc(h, p, n, how) ==
    CopyFree(h, p, MallocChunk(h, n, how), h.chunk[p - OVERHEAD].csize, n)

\* A mapping of the new size gets the contents of the old one, which goes.
__mremap(h, self, newlen, how) ==
    LET extra == h.chunk[self].psize
        oldlen == h.chunk[self].csize + extra
        len == PagesFor(newlen)
        base == __mmap(h.pg, len, how)
        new == base * PAGE + extra
        pg1 == __munmap(Mark(h.pg, base, len, "big"), (self - extra) \div PAGE, PagesFor(oldlen))
    IN  [p |-> new + OVERHEAD,
         h |-> Write([h EXCEPT !.pg = pg1],
                     [a \in {new} |-> [h.chunk[self] EXCEPT !.csize = newlen - extra]], {self}),
         kept |-> (Min({oldlen, newlen}) - extra - OVERHEAD) * 4,
         failed |-> base = 0]
\* Into a small chunk, kept, moved, or copied when the kernel moves nothing.
Remapped(h, p, n, newlen, how, small, moved) ==
    LET self == p - OVERHEAD
        extra == h.chunk[self].psize
    IN  IF h.chunk[self].pu THEN [p |-> p, h |-> [h EXCEPT !.crashed = TRUE], kept |-> 0]
        ELSE IF n + extra < PAGE /\ small.p # 0 THEN CopyFree(h, p, small, n, n)
        ELSE IF h.chunk[self].csize + extra = newlen THEN Stays(h, p, n)
        ELSE IF moved.failed THEN CopyRealloc(h, p, n, how)
        ELSE [p |-> moved.p, h |-> moved.h, kept |-> moved.kept]
ReallocMapped(h, p, n, how) ==
    LET self == p - OVERHEAD
        newlen == PagesFor(n + h.chunk[self].psize) * PAGE
    IN  Remapped(h, p, n, newlen, how, MallocChunk(h, n, how), __mremap(h, self, newlen, how))

\* Cuts the end of a chunk off, unless a bin of the smaller size has a chunk to move to.
Shrink(h, p, n, how) ==
    LET self == p - OVERHEAD
        n0 == h.chunk[self].csize
        h1 == Write(h, [a \in {self, self + n, self + n0} |->
                  CASE a = self -> [h.chunk[self] EXCEPT !.csize = n]
                    [] a = self + n -> [psize |-> n, pu |-> TRUE, csize |-> n0 - n, cu |-> TRUE]
                    [] OTHER -> [h.chunk[a] EXCEPT !.psize = n0 - n]], {})
    IN  IF bin_index_up(n) < bin_index(n0) /\ bin_index_up(n) \in h.binmap THEN CopyRealloc(h, p, n, how)
        ELSE [p |-> p, h |-> __bin_chunk(h1, self + n), kept |-> (n - OVERHEAD) * 4]

\* Mutant: the chunk that is taken in is not taken out of its bin
GrowBinned(h, p, n, how) ==
    LET self == p - OVERHEAD
        n0 == h.chunk[self].csize
        next == NEXT_CHUNK(h, self)
        nsize == IF h.chunk[next].cu THEN 0 ELSE h.chunk[next].csize
        last == next + nsize
        h2 == Write(h, [a \in {self, last} |->
                  IF a = self THEN [h.chunk[self] EXCEPT !.csize = n0 + nsize]
                  ELSE [h.chunk[last] EXCEPT !.psize = n0 + nsize, !.pu = TRUE]], {next})
    IN  IF nsize > 0 /\ n0 + nsize >= n
        THEN [p |-> p, h |-> trim(h2, self, n), kept |-> (n0 - OVERHEAD) * 4]
        ELSE CopyRealloc(h, p, n, how)

\* Takes in the free chunk that follows, if together they are large enough.
Grow(h, p, n, how) ==
    LET self == p - OVERHEAD
        n0 == h.chunk[self].csize
        next == NEXT_CHUNK(h, self)
        nsize == IF h.chunk[next].cu THEN 0 ELSE h.chunk[next].csize
        last == next + nsize
        h1 == unbin(h, next, bin_index(nsize))
        h2 == Write(h1, [a \in {self, last} |->
                  IF a = self THEN [h1.chunk[self] EXCEPT !.csize = n0 + nsize]
                  ELSE [h1.chunk[last] EXCEPT !.psize = n0 + nsize, !.pu = TRUE]], {next})
    IN  IF nsize > 0 /\ n0 + nsize >= n
        THEN [p |-> p, h |-> trim(h2, self, n), kept |-> (n0 - OVERHEAD) * 4]
        ELSE CopyRealloc(h, p, n, how)

realloc(h, p, bytes, how) ==
    LET self == p - OVERHEAD
        n0 == h.chunk[self].csize
        n == adjust_size(bytes)
        next == NEXT_CHUNK(h, self)
    IN  IF TooBig(bytes) THEN [p |-> 0, h |-> h, kept |-> 0]
        ELSE IF n <= n0 /\ n0 - n <= DONTCARE THEN Stays(h, p, n)
        ELSE IF IS_MMAPPED(h, self) THEN ReallocMapped(h, p, n, how)
        ELSE IF h.chunk[next].psize # n0 \/ ~h.chunk[next].pu
             THEN [p |-> p, h |-> [h EXCEPT !.crashed = TRUE], kept |-> 0]
        ELSE IF n < n0 THEN Shrink(h, p, n, how) ELSE Grow(h, p, n, how)

\* w is the alignment in words.  The part of the block got below the aligned
\* address is freed, or added to what a mapping has below its chunk.
AlignUp(got, w) ==
    LET c == got.p - OVERHEAD
        new == ((got.p + w - 1) \div w) * w
        n == new - OVERHEAD
        cut == new - got.p
        t == NEXT_CHUNK(got.h, c)
        old == got.h.chunk[c]
        split == Write(got.h, [a \in {c, n, t} |->
                     CASE a = c -> [old EXCEPT !.csize = cut]
                       [] a = n -> [psize |-> cut, pu |-> TRUE, csize |-> old.csize - cut, cu |-> TRUE]
                       [] OTHER -> [got.h.chunk[t] EXCEPT !.psize = @ - cut]], {})
    IN  IF got.p = 0 \/ cut = 0 THEN got
        ELSE IF IS_MMAPPED(got.h, c)
             THEN [p |-> new, h |-> Write(got.h, [a \in {n} |-> [old EXCEPT !.psize = @ + cut, !.csize = @ - cut]], {c})]
        ELSE [p |-> new, h |-> __bin_chunk(split, c)]
\* align is in bytes, a power of two.
aligned_alloc(h, align, bytes, how) ==
    IF align \div 4 <= SIZE_ALIGN THEN malloc(h, bytes, how)
    ELSE AlignUp(malloc(h, bytes + align - 1, how), align \div 4)

-----------------------------------------------------------------------------
(* pe32_mmap_heap_backend.c: a mapping per block, its size in the word     *)
(* below the block.                                                        *)

Alloc32(bytes) == Max({((bytes + 7) \div 8) * 2, PAGE})
malloc32(h, bytes, how) ==
    LET len == PagesFor(Alloc32(bytes) + 1)
        base == __mmap(h.pg, len, how)
    IN  IF bytes = 0 \/ base = 0 THEN [p |-> 0, h |-> h]
        ELSE [p |-> base * PAGE + 1,
              h |-> Write([h EXCEPT !.pg = Mark(@, base, len, "big")], [a \in {base * PAGE} |-> Alloc32(bytes)], {})]

free32(h, p) ==
    LET h1 == Write(h, <<>>, {p - 1})
    IN  [h1 EXCEPT !.pg = __munmap(@, (p - 1) \div PAGE, PagesFor(h.chunk[p - 1] + 1))]
CopyFree32(h, p, new) ==
    IF new.p = 0 THEN [p |-> 0, h |-> h, kept |-> 0]
    ELSE [p |-> new.p, h |-> free32(new.h, p), kept |-> h.chunk[p - 1] * 4]
realloc32(h, p, bytes, how) ==
    IF bytes = 0 THEN [p |-> 0, h |-> free32(h, p), kept |-> 0]
    ELSE IF bytes <= h.chunk[p - 1] * 4 THEN [p |-> p, h |-> h, kept |-> h.chunk[p - 1] * 4]
    ELSE CopyFree32(h, p, malloc32(h, bytes, how))
usable_size32(h, p) == h.chunk[p - 1] * 4
=============================================================================
