--------------------------- MODULE RenderSurfaces ---------------------------
(***************************************************************************)
(* Surfaces, palettes and flip chains of the SDL2 backend                  *)
(* (src/backend/sdl2/rb_surface.c, rb_surface_present.c, rb_palette.c).    *)
(*                                                                         *)
(* The functions are operators on one record r with the backend's state:   *)
(* tab, the slots of the handle table; wnd, the backend windows; mem, the  *)
(* pixel buffers.  A surface's pixels are one colour: the blits of SDL are *)
(* whole copies, its rectangles and its format conversions are left out.   *)
(***************************************************************************)
EXTENDS Integers, FiniteSets, FiniteSetsExt

CONSTANTS
    Slots,      \* slots of the handle table that are used here
    Pixels,     \* pixel buffers
    LowPixels,  \* those that mmap gives below 4 GB; the others are malloc's
    Surfwnds,   \* backend windows
    Ink         \* colours; 0 is what a new buffer is cleared to

FreeSlot == [type |-> "FREE"]
Unallocated == -1

\* shows: what is on the screen in the window.  gen counts how often a slot was freed.
\* History: mixed, a flip has exchanged a buffer of mmap for one of malloc; misfreed, a
\* buffer of one was given back to the other.
RenderInit(open) ==
    [tab |-> [h \in Slots |-> FreeSlot],
     wnd |-> [w \in Surfwnds |-> [live |-> w \in open, primary |-> 0, back |-> 0, shows |-> 0]],
     mem |-> [b \in Pixels |-> Unallocated], gen |-> [h \in Slots |-> 0],
     mixed |-> FALSE, misfreed |-> FALSE]

Has(r, h, type) == h \in Slots /\ r.tab[h].type = type
get_surface(r, h) == Has(r, h, "RB_SURFACE")
get_palette(r, h) == Has(r, h, "RB_PALETTE")
get_window(r, w) == w \in Surfwnds /\ r.wnd[w].live

\* The lowest free slot, 0 when the table is full.
wine_handle_alloc(r) ==
    LET free == {h \in Slots : r.tab[h] = FreeSlot} IN IF free = {} THEN 0 ELSE Min(free)
wine_handle_free(r, h) == [r EXCEPT !.tab[h] = FreeSlot, !.gen[h] = @ + 1]

rb_surface_pitch_for_bpp(w, bpp) == IF bpp = 8 THEN w ELSE IF bpp <= 16 THEN w * 2 ELSE w * 4

-----------------------------------------------------------------------------
(* Surfaces.                                                               *)

\* A buffer below 4 GB if there is one, or else one of malloc.
rb_surface_alloc_buf(r) ==
    LET room == {x \in Pixels : r.mem[x] = Unallocated}
    IN  IF room = {} THEN 0 ELSE IF room \cap LowPixels # {} THEN Min(room \cap LowPixels) ELSE Min(room)

\* A buffer is given back the way its surface's flag says.
rb_surface_free_buf(r, b, used_low32) ==
    [r EXCEPT !.mem[b] = Unallocated, !.misfreed = @ \/ (used_low32 # (b \in LowPixels))]

\* Makes a surface with a cleared buffer of its own.  handle is 0 when there is
\* no memory (for the buffer, for SDL's surface or for the record: what was made by
\* then is given back) or when the table is full; in that case the buffer is not.
rb_surface_create(r, w, bpp, flags) ==
    LET b == rb_surface_alloc_buf(r)
        h == wine_handle_alloc(r)
        s == [type |-> "RB_SURFACE", win |-> 0, flags |-> flags, palette |-> 0, dirty |-> FALSE,
              own_buf |-> b, own_buf_low32 |-> b \in LowPixels, pixels |-> b, w |-> w, bpp |-> bpp]
        cleared == [r EXCEPT !.mem[b] = 0]
    IN  IF b = 0 THEN [handle |-> 0, r |-> r]
        ELSE [handle |-> h, r |-> IF h = 0 THEN cleared ELSE [cleared EXCEPT !.tab[h] = s]]

Roles == {"primary", "flip", "back"}
\* A surface that leaves its flip chain.
Loosen(r, h) == IF get_surface(r, h)
                THEN [r EXCEPT !.tab[h].win = 0, !.tab[h].flags = @ \ Roles] ELSE r

\* The size is computed from SDL's surface just after that was freed; the allocator
\* has not touched the height by then.
FreeSurface(r, h) ==
    wine_handle_free(rb_surface_free_buf(r, r.tab[h].own_buf, r.tab[h].own_buf_low32), h)

\* The primary surface of a window takes the window's back buffer with it.
\* A surface whose window is not set is not looked for in any window.
rb_surface_destroy(r, surf) ==
    IF ~get_surface(r, surf) THEN r
    ELSE LET w == r.tab[surf].win
         IN  IF ~get_window(r, w) THEN FreeSurface(r, surf)
             ELSE IF r.wnd[w].primary = surf
             THEN LET back == r.wnd[w].back
                      bare == [r EXCEPT !.wnd[w].primary = 0, !.wnd[w].back = 0]
                      loose == IF back # surf THEN Loosen(bare, back) ELSE bare
                      once == IF back # surf /\ get_surface(loose, back)
                              THEN FreeSurface(loose, back) ELSE loose
                  IN  FreeSurface(once, surf)
             ELSE IF r.wnd[w].back = surf THEN FreeSurface([r EXCEPT !.wnd[w].back = 0], surf)
             ELSE FreeSurface(r, surf)

Bind(r, h, win, role) ==
    IF get_surface(r, h)
    THEN [r EXCEPT !.tab[h].win = win, !.tab[h].flags = (@ \ Roles) \cup role] ELSE r

\* The chain of a window that has one: the old primary is cut loose and the old
\* back buffer is destroyed, before the new back buffer is made.
ReplaceChain(r, win, primary) ==
    LET old == r.wnd[win].primary
        back == r.wnd[win].back
        cut == IF old # 0 /\ old # primary THEN [Loosen(r, old) EXCEPT !.wnd[win].primary = 0] ELSE r
        gone == IF back # 0 THEN [rb_surface_destroy(Loosen(cut, back), back) EXCEPT !.wnd[win].back = 0]
                ELSE cut
    IN  [gone EXCEPT !.wnd[win].primary = primary]

\* The new back buffer k of a chain.  When there is none the chain has a primary only.
ChainBack(handle, win, k) ==
    [handle |-> handle,
     r |-> IF k.handle = 0 THEN k.r
           ELSE [Bind(k.r, k.handle, win, {"back"}) EXCEPT !.wnd[win].back = k.handle]]
\* The new primary surface p.  A window that is not live keeps no chain.
ChainPrimary(p, win, w, bpp, backbuffers) ==
    LET bound == Bind(p.r, p.handle, win, {"primary", "flip"})
    IN  IF p.handle = 0 THEN p
        ELSE IF ~get_window(p.r, win) THEN [handle |-> p.handle, r |-> bound]
        ELSE IF backbuffers = 0 THEN [handle |-> p.handle, r |-> ReplaceChain(bound, win, p.handle)]
        ELSE ChainBack(p.handle, win,
                       rb_surface_create(ReplaceChain(bound, win, p.handle), w, bpp, {"back"}))

rb_surface_create_flip_chain(r, win, w, bpp, backbuffers) ==
    ChainPrimary(rb_surface_create(r, w, bpp, {"primary", "flip"}), win, w, bpp, backbuffers)

rb_surface_unlock(r, h) == IF get_surface(r, h) THEN [r EXCEPT !.tab[h].dirty = TRUE] ELSE r

\* Fill with a colour, or copy a surface.
rb_surface_blt(r, dst, colour) ==
    [r EXCEPT !.mem[r.tab[dst].pixels] = colour, !.tab[dst].dirty = TRUE]

rb_surface_set_palette(r, h, pal) ==
    IF get_surface(r, h) /\ get_palette(r, pal) THEN [r EXCEPT !.tab[h].palette = pal] ELSE r

Crosses(r, p, k) == (r.tab[p].own_buf \in LowPixels) # (r.tab[k].own_buf \in LowPixels)

\* Mutant: only the pixels are exchanged, not the buffers that are freed later
PresentKeepsOwners(r, w, p, k, shown) ==
    IF get_surface(r, k)
    THEN [r EXCEPT !.wnd[w].shows = IF shown THEN r.mem[r.tab[k].pixels] ELSE @,
                   !.tab[p].pixels = r.tab[k].pixels, !.tab[k].pixels = r.tab[p].pixels,
                   !.tab[p].palette = r.tab[k].palette, !.tab[k].palette = r.tab[p].palette,
                   !.tab[k].dirty = FALSE]
    ELSE [r EXCEPT !.wnd[w].shows = IF shown THEN r.mem[r.tab[p].pixels] ELSE @]
\* Mutant: the surfaces are exchanged before the back buffer is shown
PresentLate(r, w, p, k, shown) ==
    IF get_surface(r, k)
    THEN [r EXCEPT !.wnd[w].shows = IF shown THEN r.mem[r.tab[p].pixels] ELSE @,
                   !.tab[p].pixels = r.tab[k].pixels, !.tab[k].pixels = r.tab[p].pixels,
                   !.tab[p].own_buf = r.tab[k].own_buf, !.tab[k].own_buf = r.tab[p].own_buf,
                   !.tab[p].palette = r.tab[k].palette, !.tab[k].palette = r.tab[p].palette,
                   !.tab[k].dirty = FALSE]
    ELSE [r EXCEPT !.wnd[w].shows = IF shown THEN r.mem[r.tab[p].pixels] ELSE @]

\* The back buffer is shown, if SDL has a surface for the window, and in any case the
\* two surfaces exchange their buffers and palettes, but not own_buf_low32.
rb_surface_present_window(r, w, p, k, shown) ==
    IF get_surface(r, k)
    THEN [r EXCEPT !.wnd[w].shows = IF shown THEN r.mem[r.tab[k].pixels] ELSE @,
                   !.tab[p].pixels = r.tab[k].pixels, !.tab[k].pixels = r.tab[p].pixels,
                   !.tab[p].own_buf = r.tab[k].own_buf, !.tab[k].own_buf = r.tab[p].own_buf,
                   !.tab[p].palette = r.tab[k].palette, !.tab[k].palette = r.tab[p].palette,
                   !.tab[k].dirty = FALSE, !.mixed = @ \/ Crosses(r, p, k)]
    ELSE [r EXCEPT !.wnd[w].shows = IF shown THEN r.mem[r.tab[p].pixels] ELSE @]

\* Whether a flip presents: the surface is the primary one of a live window.
Presents(r, h) ==
    get_surface(r, h) /\ get_window(r, r.tab[h].win) /\ r.wnd[r.tab[h].win].primary = h

rb_surface_flip(r, h, shown) ==
    IF ~get_surface(r, h) THEN r
    ELSE LET w == r.tab[h].win
         IN  IF ~get_window(r, w) THEN [r EXCEPT !.tab[h].dirty = FALSE]
             ELSE IF ~Presents(r, h) THEN r
             ELSE [rb_surface_present_window(r, w, h, r.wnd[w].back, shown) EXCEPT !.tab[h].dirty = FALSE]

\* The surfaces of a window that is destroyed.
rb_window_detach_surfaces(r, w) ==
    LET p == r.wnd[w].primary
        k == r.wnd[w].back
        free == IF get_surface(r, p) THEN [r EXCEPT !.tab[p].win = 0] ELSE r
        alone == IF get_surface(free, k) THEN [free EXCEPT !.tab[k].win = 0] ELSE free
    IN  [rb_surface_destroy(alone, k) EXCEPT !.wnd[w].primary = 0, !.wnd[w].back = 0]
rb_window_destroy(r, w) ==
    IF get_window(r, w) THEN [rb_window_detach_surfaces(r, w) EXCEPT !.wnd[w].live = FALSE] ELSE r

-----------------------------------------------------------------------------
(* Palettes: colours by index.                                             *)

rb_palette_create(r, n) ==
    LET h == wine_handle_alloc(r)
    IN  [handle |-> h,
         r |-> IF h = 0 THEN r
               ELSE [r EXCEPT !.tab[h] = [type |-> "RB_PALETTE", colors |-> [i \in 0..n - 1 |-> 0]]]]
rb_palette_destroy(r, h) == IF get_palette(r, h) THEN wine_handle_free(r, h) ELSE r

\* The indices of a range that the palette has; none when it starts outside.
InRange(colors, start, count) == {i \in DOMAIN colors : start <= i /\ i < start + count}
rb_palette_set_colors(r, h, start, count, colour) ==
    IF ~get_palette(r, h) THEN r
    ELSE [r EXCEPT !.tab[h].colors = [i \in DOMAIN @ |->
            IF i \in InRange(@, start, count) THEN colour ELSE @[i]]]
=============================================================================
