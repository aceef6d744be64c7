------------------------------ MODULE WineHeap ------------------------------
(***************************************************************************)
(* The heap calls of a guest (src/heap/wine_heap.c, kernel32_memory.c and  *)
(* the C library's allocation in crt_stdlib.c) over the two backends of    *)
(* MuslHeap.  All heaps of a process share one backend; a heap handle is a *)
(* page with a wine_heap_t, known by g_heap_handles.                       *)
(*                                                                         *)
(* The guest asks for blocks, fills them, resizes them and frees each one  *)
(* once.  The heap mutex of a 64 bit build makes a call one step as long   *)
(* as threads use one heap; with need_locks at 0 nothing else does.        *)
(***************************************************************************)
EXTENDS MuslHeap

CONSTANTS
    MAX_HEAP_HANDLES,
    Requests,        \* sizes in bytes that the guest asks for
    Resizes,         \* sizes in bytes that it resizes blocks to
    Alignments,      \* alignments in bytes, powers of two
    MaxHeapOps,      \* bound: heap calls of a behaviour
    MaxRareOps       \* bound: how far into a behaviour the rare calls are made: those that
                     \* the kernel lets fail, and those about other heaps or alignment

VARIABLES
    bits,   \* 32 or 64, which of the two backends the build has
    place,  \* where the kernel puts mappings when it has room: "low" or "high"
    heap,   \* the record of MuslHeap
    api,    \* table: g_heap_handles, process: g_process_heap, ops: calls made
    blk,    \* the blocks the guest holds: size asked for and heap, by address
    lost,   \* blocks of heaps that were destroyed, which nobody can free any more
    last,   \* the last resize: want and got are bytes of the old contents
    alive   \* the process has not faulted

heapVars == <<bits, place, heap, api, blk, lost, last, alive>>
NoResize == [want |-> 0, got |-> 0]

HeapInit ==
    /\ bits \in {32, 64} /\ place \in {"low", "high"}
    /\ heap = [EmptyHeap EXCEPT !.pg[1] = "handle"]
    /\ api = [table |-> [i \in 1..MAX_HEAP_HANDLES |-> IF i = 1 THEN 1 ELSE 0], process |-> 1, ops |-> 0]
    /\ blk = <<>> /\ lost = {} /\ last = NoResize /\ alive = TRUE

-----------------------------------------------------------------------------
(* heap_backend.h, selected by the build.                                  *)

heap_backend_malloc(h, b, how) == IF bits = 64 THEN malloc(h, b, how) ELSE malloc32(h, b, how)
heap_backend_free(h, p) == IF bits = 64 THEN free(h, p) ELSE free32(h, p)
heap_backend_realloc(h, p, b, how) == IF bits = 64 THEN realloc(h, p, b, how) ELSE realloc32(h, p, b, how)
heap_backend_usable_size(h, p) == IF bits = 64 THEN malloc_usable_size(h, p) ELSE usable_size32(h, p)
heap_backend_aligned_alloc(h, a, b, how) ==
    IF bits = 64 THEN aligned_alloc(h, a, b, how) ELSE malloc32(h, b, how)

Call == alive /\ ~heap.crashed /\ api.ops < MaxHeapOps
Count(a) == [a EXCEPT !.ops = @ + 1]
Rarely(c) == c => api.ops < MaxRareOps
heap_handle_find(a, hh) == {i \in DOMAIN a.table : a.table[i] = hh}
Handles(a) == {a.table[i] : i \in DOMAIN a.table} \ {0}

\* A new block of b bytes of heap hh, if the backend had one.
Given(got, b, hh) ==
    /\ Rarely(hh # 1)
    /\ heap' = got.h
    /\ blk' = IF got.p = 0 THEN blk
              ELSE [p \in DOMAIN blk \cup {got.p} |-> IF p = got.p THEN [req |-> b, hh |-> hh] ELSE blk[p]]
    /\ api' = Count(api) /\ last' = NoResize
    /\ UNCHANGED <<bits, place, lost, alive>>

\* The block at p became the block at q, of b bytes, of which the first got bytes are the old ones.
Resized(h, p, q, b, got) ==
    /\ heap' = h
    /\ blk' = [x \in (DOMAIN blk \ {p}) \cup {q} |-> IF x = q THEN [req |-> b, hh |-> blk[p].hh] ELSE blk[x]]
    /\ last' = [want |-> Min({blk[p].req, b}), got |-> Min({blk[p].req, b, got})]

-----------------------------------------------------------------------------
(* wine_heap.c.                                                            *)

heap_handle_add(a, hh) ==
    LET free_ == heap_handle_find(a, 0)
    IN  IF free_ = {} THEN a ELSE [a EXCEPT !.table[Min(free_)] = hh]
HeapCreate(how) ==
    LET page == __mmap(heap.pg, 1, how)
        full == heap_handle_find(api, 0) = {}
    IN  /\ Call /\ Rarely(TRUE)
        /\ page # 0
        /\ api' = Count(heap_handle_add(api, page))
        /\ heap' = IF full THEN heap ELSE [heap EXCEPT !.pg = Mark(@, page, 1, "handle")]
        /\ last' = NoResize /\ UNCHANGED <<bits, place, blk, lost, alive>>

HeapAlloc(hh, b, how) ==
    /\ Call /\ hh \in Handles(api) /\ b > 0 /\ Rarely(how = "fail")
    /\ Given(heap_backend_malloc(heap, b, how), b, hh)

HeapFree(hh, p) ==
    /\ Call /\ hh \in Handles(api) /\ p \in DOMAIN blk
    /\ heap' = heap_backend_free(heap, p)
    /\ blk' = [x \in DOMAIN blk \ {p} |-> blk[x]]
    /\ api' = Count(api) /\ last' = NoResize
    /\ UNCHANGED <<bits, place, lost, alive>>

\* The bytes from old on are cleared when the call asks for it.
Reallocated(p, b, zero, old, r) ==
    IF r.p = 0 THEN heap' = r.h /\ UNCHANGED <<blk, last>>
    ELSE Resized(r.h, p, r.p, b, IF zero /\ b > old THEN Min({r.kept, old}) ELSE r.kept)

\* Mutant: half of the old size is taken for all of it, as by a count of larger units
HeapReAllocLate(hh, p, b, how, zero) ==
    /\ Call /\ hh \in Handles(api) /\ p \in DOMAIN blk /\ Rarely(how = "fail")
    /\ Reallocated(p, b, zero, blk[p].req \div 2, heap_backend_realloc(heap, p, b, how))
    /\ api' = Count(api) /\ UNCHANGED <<bits, place, lost, alive>>

\* With HEAP_ZERO_MEMORY the bytes from the old usable size on are cleared.
HeapReAlloc(hh, p, b, how, zero) ==
    /\ Call /\ hh \in Handles(api) /\ p \in DOMAIN blk /\ Rarely(how = "fail")
    /\ Reallocated(p, b, zero, heap_backend_usable_size(heap, p), heap_backend_realloc(heap, p, b, how))
    /\ api' = Count(api) /\ UNCHANGED <<bits, place, lost, alive>>

\* Only the handle goes; the blocks of the heap stay allocated for good.
heap_handle_remove(a, hh) == [a EXCEPT !.table = [i \in DOMAIN @ |-> IF @[i] = hh THEN 0 ELSE @[i]]]
HeapDestroy(hh) ==
    /\ Call /\ hh \in Handles(api)
    /\ api' = Count([heap_handle_remove(api, hh) EXCEPT !.process = IF @ = hh THEN 0 ELSE @])
    /\ heap' = [heap EXCEPT !.pg = __munmap(@, hh, 1)]
    /\ lost' = lost \cup {p \in DOMAIN blk : blk[p].hh = hh}
    /\ blk' = [p \in {x \in DOMAIN blk : blk[x].hh # hh} |-> blk[p]]
    /\ last' = NoResize /\ UNCHANGED <<bits, place, alive>>

-----------------------------------------------------------------------------
(* kernel32_memory.c and crt_stdlib.c.                                     *)

\* LocalAlloc and GlobalAlloc allocate from the process heap, if there is one.
LocalAlloc(b, how) == api.process # 0 /\ HeapAlloc(api.process, b, how)
LocalFree(p) == api.process # 0 /\ HeapFree(api.process, p)

\* The C library has no heap handle and takes no mutex.
wine_malloc(b, how) == Call /\ Rarely(how = "fail") /\ Given(heap_backend_malloc(heap, b, how), b, 0)
wine_free(p) ==
    /\ Call /\ p \in DOMAIN blk
    /\ heap' = heap_backend_free(heap, p)
    /\ blk' = [x \in DOMAIN blk \ {p} |-> blk[x]]
    /\ api' = Count(api) /\ last' = NoResize
    /\ UNCHANGED <<bits, place, lost, alive>>
wine_aligned_alloc(a, b, how) == Call /\ Given(heap_backend_aligned_alloc(heap, a, b, how), b, 0)

\* The pages of the n bytes from word p on.
PagesOf(p, n) == (p \div PAGE)..((p * 4 + n - 1) \div (4 * PAGE))

\* Copies as many bytes as the new block has, whatever the old one had; past
\* the end of what is mapped that is a fault.
CopyInto(new, p, b) ==
    LET faults == \E g \in PagesOf(p, b) : g > Pages \/ new.h.pg[g] = "free"
    IN  IF new.p = 0 THEN UNCHANGED <<heap, blk, last, alive>>
        ELSE IF faults THEN alive' = FALSE /\ UNCHANGED <<heap, blk, last>>
        ELSE /\ Resized(heap_backend_free(new.h, p), p, new.p, b, b)
             /\ UNCHANGED alive
wine_realloc(p, b, how) ==
    /\ Call /\ p \in DOMAIN blk /\ Rarely(how = "fail")
    /\ api' = Count(api)
    /\ CopyInto(heap_backend_malloc(heap, b, how), p, b)
    /\ UNCHANGED <<bits, place, lost>>

HeapNext ==
    \/ \E how \in {place, "fail"} : HeapCreate(how)
    \/ \E hh \in Handles(api) : HeapDestroy(hh)
    \/ \E b \in Requests, how \in {place, "fail"} :
          \/ \E hh \in Handles(api) : HeapAlloc(hh, b, how)
          \/ LocalAlloc(b, how) \/ wine_malloc(b, how)
          \/ \E a \in Alignments : wine_aligned_alloc(a, b, how)
    \/ \E p \in DOMAIN blk :
          \/ \E b \in Resizes, how \in {place, "fail"} :
                \/ wine_realloc(p, b, how)
                \/ \E hh \in Handles(api), zero \in BOOLEAN : HeapReAlloc(hh, p, b, how, zero)
          \/ \E hh \in Handles(api) : HeapFree(hh, p)
          \/ LocalFree(p) \/ wine_free(p)

-----------------------------------------------------------------------------
(* Properties.                                                             *)

\* The words of a chunk or of a mapping with its header, for the block at p.
ChunkOf(p) == IF bits = 64 THEN p - OVERHEAD ELSE p - 1
OnHeap(c) == bits = 64 /\ heap.pg[c \div PAGE] = "heap"
Arena == {c \in DOMAIN heap.chunk : OnHeap(c) \/ (bits = 64 /\ heap.pg[(c - 1) \div PAGE] = "heap")}
FreeChunks == {c \in Arena : heap.chunk[c].csize > 0 /\ ~heap.chunk[c].cu}
Mapping(p) ==
    IF bits = 32 THEN (p - 1) \div PAGE .. (p - 1) \div PAGE + PagesFor(heap.chunk[p - 1] + 1) - 1
    ELSE LET c == p - OVERHEAD
             base == (c - heap.chunk[c].psize) \div PAGE
         IN  base .. base + PagesFor(heap.chunk[c].csize + heap.chunk[c].psize) - 1
Held == DOMAIN blk \cup lost
MappedBlocks == {p \in Held : ~OnHeap(ChunkOf(p))}

\* The values the variables of the heap range over.
HeapTypeOK ==
    /\ bits \in {32, 64} /\ place \in Hows /\ alive \in BOOLEAN
    /\ \A p \in 1..Pages : heap.pg[p] \in {"free", "handle", "heap", "big"}
    /\ \A i \in DOMAIN api.table : api.table[i] \in 0..Pages
    /\ \A p \in DOMAIN blk : blk[p].req \in Requests \cup Resizes /\ blk[p].hh \in 0..Pages
    /\ heap.binmap \subseteq 0..63 /\ api.ops \in 0..MaxHeapOps

\* malloc.c, headers and footers: in the areas of the heap every chunk is
\* followed by the header of the next one, whose psize and C_INUSE bit repeat
\* the chunk's own, up to the sentinel of size 0; so a_crash is never reached
\* by a guest that frees each block once and stays within it.
FootersAgree ==
    /\ ~heap.crashed
    /\ \A c \in Arena : heap.chunk[c].csize > 0 =>
          /\ NEXT_CHUNK(heap, c) \in Arena
          /\ Between(heap, c, NEXT_CHUNK(heap, c)) = {}
          /\ heap.chunk[NEXT_CHUNK(heap, c)].psize = heap.chunk[c].csize
          /\ heap.chunk[NEXT_CHUNK(heap, c)].pu = heap.chunk[c].cu

\* malloc.c, unbin, bin_chunk, trim and __bin_chunk: a chunk is in a list
\* exactly while it is free, in one list only, that of its size, and the bit
\* map has the bits of the lists that are not empty.
BinsMatchChunks ==
    /\ heap.binmap = DOMAIN heap.bins
    /\ FreeChunks = UNION {ToSet(heap.bins[i]) : i \in DOMAIN heap.bins}
    /\ \A i \in DOMAIN heap.bins :
          /\ heap.bins[i] # <<>> /\ IsInjective(heap.bins[i])
          /\ \A c \in ToSet(heap.bins[i]) : bin_index(heap.chunk[c].csize) = i

\* malloc.c, __bin_chunk: two free chunks are never neighbours, whatever was
\* freed, cut off or split in whatever order, so that an area nobody uses is
\* one chunk again.
Coalesced == \A c \in FreeChunks : NEXT_CHUNK(heap, c) \notin FreeChunks

\* wine_heap.c over both backends: the blocks a guest holds do not overlap, lie
\* in mapped pages, are in no free chunk and have the size that was asked for.
BlocksApart ==
    /\ \A p, q \in Held : p # q => ChunkOf(p) # ChunkOf(q)
    /\ \A p \in Held : ChunkOf(p) \in DOMAIN heap.chunk /\ ChunkOf(p) \notin FreeChunks
    /\ \A p \in DOMAIN blk :
          /\ blk[p].req <= heap_backend_usable_size(heap, p)
          /\ \A g \in PagesOf(p, blk[p].req) :
                heap.pg[g] = IF p \in MappedBlocks THEN "big" ELSE "heap"

\* unmap_chunk, __mremap, pe32 heap_backend_free, HeapDestroy: the pages that
\* are mapped are those of the heap's areas, of the handles in g_heap_handles
\* and of the large blocks in use, each page of one of them: nothing is left
\* mapped and nothing in use is unmapped, whatever fails in between.
PagesAccounted ==
    /\ {g \in 1..Pages : heap.pg[g] = "handle"} = Handles(api)
    /\ {g \in 1..Pages : heap.pg[g] = "big"} = UNION {Mapping(p) : p \in MappedBlocks}
    /\ \A p, q \in MappedBlocks : p # q => Mapping(p) \cap Mapping(q) = {}

\* realloc and HeapReAlloc: a block that is resized, in place, by splitting, by
\* taking in its neighbour, by moving its mapping or by copying, with or without
\* HEAP_ZERO_MEMORY, keeps the bytes it had, up to the smaller of both sizes.
ContentsKept == last.got = last.want

\* The heap of a guest that frees each block once is sound after every call of
\* HeapAlloc, HeapReAlloc, HeapFree, HeapDestroy, the C library's functions and
\* aligned_alloc, also when the host refuses memory in the middle of one: its
\* chunks, its free lists, its blocks and its pages tell the same story.
HeapIntact ==
    HeapTypeOK /\ FootersAgree /\ BinsMatchChunks /\ Coalesced /\ BlocksApart /\ PagesAccounted
=============================================================================
