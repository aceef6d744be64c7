----------------------------- MODULE DirectDraw -----------------------------
(***************************************************************************)
(* The DirectDraw objects (src/msvcrt/ddraw_*.c) over the surfaces of the  *)
(* backend.  draw holds the COM objects by address and the backend record  *)
(* of RenderSurfaces; the functions of the code are operators on it.  The  *)
(* guest keeps the rules of COM: it calls objects it holds a reference to  *)
(* and gives back every reference once.                                    *)
(***************************************************************************)
EXTENDS RenderSurfaces, SequencesExt, TLC

CONSTANTS
    DDs,        \* addresses of DirectDraw objects
    Surfaces,   \* addresses of surface objects
    Palettes,   \* addresses of palette objects
    Clippers,   \* addresses of clipper objects
    GuestWnd,   \* the backend window of the guest's window
    Widths,     \* widths of modes and surfaces; 1 is the default mode's
    FullPalette,\* entries of an 8 bit palette; other palettes have one entry
    MaxDraw     \* bound on calls other than the releases

VARIABLES
    draw,   \* dd, srf, pal, clip: the objects; r: the backend; ready: g_ddraw_backend_available
    client  \* the guest.  held: its references; ops: calls made; ptr: pointers from Lock; desc: last
            \* descriptor filled; gdi: handles from GDI; oom: the primary surface that was freed when
            \* there was no memory for its back buffer, or 0

dvars == <<draw, client>>

NoDesc == [v |-> 0]
DrawInit ==
    /\ draw = [dd |-> <<>>, srf |-> <<>>, pal |-> <<>>, clip |-> <<>>,
               r |-> RenderInit({GuestWnd}), ready |-> "unknown"]
    /\ client = [held |-> [k \in {"dd", "srf", "pal", "clip"} |->
                            [o \in DDs \cup Surfaces \cup Palettes \cup Clippers |-> 0]],
                ops |-> 0, ptr |-> <<>>, desc |-> NoDesc, gdi |-> {}, oom |-> 0]

Without(f, x) == [y \in DOMAIN f \ {x} |-> f[y]]
With(f, x, v) == [y \in DOMAIN f \cup {x} |-> IF y = x THEN v ELSE f[y]]
Free(addresses, live) == addresses \ DOMAIN live
\* A call of the guest on an object it holds, counted against the bound.
Calls(k, o) == client.held[k][o] > 0 /\ client.ops < MaxDraw /\ client.oom = 0
Ops == [client EXCEPT !.ops = @ + 1]
Gains(k, o) == [Ops EXCEPT !.held[k][o] = @ + 1]

-----------------------------------------------------------------------------
(* Reference counts and teardown.                                          *)

ddraw_surface_add_ref(st, s) == [st EXCEPT !.srf[s].ref_count = @ + 1]

ddraw_palette_release(st, p) ==
    IF st.pal[p].ref_count > 1 THEN [st EXCEPT !.pal[p].ref_count = @ - 1]
    ELSE [st EXCEPT !.r = rb_palette_destroy(@, st.pal[p].rb), !.pal = Without(@, p)]
ddraw_clipper_release(st, c) ==
    IF st.clip[c].ref_count > 1 THEN [st EXCEPT !.clip[c].ref_count = @ - 1]
    ELSE [st EXCEPT !.clip = Without(@, c)]
ddraw_surface_clear_clipper(st, s) ==
    IF st.srf[s].clipper = 0 THEN st
    ELSE [ddraw_clipper_release(st, st.srf[s].clipper) EXCEPT !.srf[s].clipper = 0]

ddraw_unlink_surface_from_owner(st, s) ==
    LET d == st.srf[s].dd_owner
    IN  IF d = 0 THEN st
        ELSE [st EXCEPT !.dd[d].surface_list = SelectSeq(@, LAMBDA x : x # s), !.srf[s].dd_owner = 0]

RECURSIVE ddraw_surface_release(_, _)

\* The attached surface and the palette and clipper are released first; the
\* backend surface goes whoever else names it.
ddraw_destroy_surface(st, s) ==
    LET cut == IF st.srf[s].next = 0 THEN st
               ELSE ddraw_surface_release([st EXCEPT !.srf[s].next = 0], st.srf[s].next)
        bare == IF cut.srf[s].palette = 0 THEN cut
                ELSE [ddraw_palette_release(cut, cut.srf[s].palette) EXCEPT !.srf[s].palette = 0]
        alone == ddraw_unlink_surface_from_owner(ddraw_surface_clear_clipper(bare, s), s)
    IN  [alone EXCEPT !.r = rb_surface_destroy(@, st.srf[s].rb), !.srf = Without(@, s)]

ddraw_surface_release(st, s) ==
    LET d == st.srf[s].dd_owner
        gone == IF d # 0 /\ st.dd[d].primary_surface = s
                THEN [st EXCEPT !.dd[d].primary_surface = 0] ELSE st
    IN  IF st.srf[s].ref_count > 1 THEN [st EXCEPT !.srf[s].ref_count = @ - 1]
        ELSE ddraw_destroy_surface([gone EXCEPT !.srf[s].ref_count = 0], s)

\* The last reference: the surfaces lose their owner, the object's reference to
\* the primary surface is given back, and a window of its own is destroyed.
ddraw_release(st, d) ==
    IF st.dd[d].ref_count > 1 THEN [st EXCEPT !.dd[d].ref_count = @ - 1]
    ELSE LET p == st.dd[d].primary_surface
             loose == [st EXCEPT !.srf = [s \in DOMAIN @ |->
                          IF s \in ToSet(st.dd[d].surface_list) THEN [@[s] EXCEPT !.dd_owner = 0] ELSE @[s]],
                                 !.dd[d].surface_list = <<>>, !.dd[d].primary_surface = 0]
             left == IF p = 0 THEN loose ELSE ddraw_surface_release(loose, p)
             shut == IF st.dd[d].owns_window
                     THEN [left EXCEPT !.r = rb_window_destroy(@, st.dd[d].win)] ELSE left
         IN  [shut EXCEPT !.dd = Without(@, d)]

-----------------------------------------------------------------------------
(* IDirectDraw.                                                            *)

DirectDrawCreate(d) ==
    /\ client.ops < MaxDraw /\ client.oom = 0 /\ d \in Free(DDs, draw.dd)
    /\ draw' = [draw EXCEPT !.dd = With(@, d,
            [ref_count |-> 1, win |-> 0, owns_window |-> FALSE, w |-> 1,
             bpp |-> 8, primary_surface |-> 0, surface_list |-> <<>>])]
    /\ client' = Gains("dd", d)

ddraw_AddRef(d) ==
    /\ Calls("dd", d) /\ client.held["dd"][d] = 1
    /\ draw' = [draw EXCEPT !.dd[d].ref_count = @ + 1]
    /\ client' = Gains("dd", d)

ddraw_Release(d) ==
    /\ client.held["dd"][d] > 0 /\ client.oom = 0
    /\ draw' = ddraw_release(draw, d)
    /\ client' = [client EXCEPT !.held["dd"][d] = @ - 1]

\* hwnd: a window of the guest that has a backend window, one that has none, or none
\* of its windows, in which case a backend window that was set before is kept.  The
\* cooperative level itself only chooses between full screen and a window.
ddraw_SetCooperativeLevel(d, hwnd) ==
    /\ Calls("dd", d) /\ (hwnd = "window" => draw.r.wnd[GuestWnd].live)
    /\ draw' = [draw EXCEPT !.dd[d].win = CASE hwnd = "window" -> GuestWnd [] hwnd = "bare" -> 0 [] OTHER -> @]
    /\ client' = Ops

\* rb_init is tried once; a failure is remembered for good.
ddraw_ensure_backend(ok) ==
    IF draw.ready = "unknown" THEN (IF ok THEN "yes" ELSE "no") ELSE draw.ready

\* A window is made when none was given; own is 0 when that fails.  The window is then
\* set to full screen or not, which leaves its surfaces alone, whether it succeeds or not.
ddraw_SetDisplayMode(d, w, bpp, ok, own) ==
    /\ Calls("dd", d) /\ (draw.ready # "unknown" => ok)
    /\ own # 0 => ~draw.r.wnd[own].live
    /\ LET ready == ddraw_ensure_backend(ok)
           set == [draw EXCEPT !.ready = ready, !.dd[d].w = w, !.dd[d].bpp = bpp]
       IN  draw' = IF ready = "no" THEN [draw EXCEPT !.ready = ready]
                   ELSE IF draw.dd[d].win # 0 \/ own = 0 THEN set
                   ELSE [set EXCEPT !.dd[d].win = own, !.dd[d].owns_window = TRUE,
                                    !.r.wnd[own].live = TRUE, !.r.wnd[own].shows = 0]
    /\ client' = Ops

-----------------------------------------------------------------------------
(* Creation of surfaces.                                                   *)

\* The object of a backend surface, first in the list of its owner.  gen: history, the
\* times that the handle had been freed by then.
ddraw_surface_alloc(st, s, d, rb, flip, w) ==
    [st EXCEPT !.srf = With(@, s, [ref_count |-> 1, rb |-> rb, gen |-> st.r.gen[rb], flip |-> flip,
                                   w |-> w, pitch |-> w, locked |-> FALSE, dd_owner |-> d, next |-> 0, palette |-> 0, clipper |-> 0]),
               !.dd[d].surface_list = <<s>> \o @]

\* Mutant: the object does not count its reference to the primary surface
MakePrimaryUncounted(st, d, s) == [st EXCEPT !.dd[d].primary_surface = s]

\* The object keeps a reference of its own.  A primary surface it had before is
\* forgotten with the reference it still counts.
MakePrimary(st, d, s) == [ddraw_surface_add_ref(st, s) EXCEPT !.dd[d].primary_surface = s]

\* The back buffer is the window's; when the chain was made without one, one is
\* made here that is not bound to the window.
KeepBack(made, win) ==
    [made EXCEPT !.r = IF made.handle = 0 THEN @ ELSE [@ EXCEPT !.wnd[win].back = made.handle]]
WindowBack(r, win, w, bpp) ==
    IF ~get_window(r, win) THEN [handle |-> 0, r |-> r]
    ELSE IF r.wnd[win].back # 0 THEN [handle |-> r.wnd[win].back, r |-> r]
    ELSE KeepBack(rb_surface_create(r, w, bpp, {"back"}), win)

\* The objects of the primary surface and of the back buffer, if there is one.  When
\* there is no memory for the second, the first is freed and stays in its owner's list:
\* the next walk of that list is undefined, and no call is followed beyond this.
ChainObjects(d, w, free, handle, back) ==
    LET s == Min(free)
        k == Min(free \ {s})
        one == ddraw_surface_alloc([draw EXCEPT !.r = back.r], s, d, handle, TRUE, w)
    IN  IF back.handle = 0 THEN [s |-> s, st |-> MakePrimary(one, d, s), oom |-> 0]
        ELSE IF free = {s}
        THEN [s |-> 0, st |-> [one EXCEPT !.r = rb_surface_destroy(@, handle),
                                          !.srf = Without(@, s)], oom |-> s]
        ELSE [s |-> s, oom |-> 0,
              st |-> MakePrimary([ddraw_surface_alloc(one, k, d, back.handle, TRUE, w)
                                    EXCEPT !.srf[s].next = k], d, s)]
ChainMade(d, w, chain) ==
    LET free == Free(Surfaces, draw.srf)
    IN  IF chain.handle = 0 \/ free = {}
        THEN [s |-> 0, st |-> [draw EXCEPT !.r = chain.r], oom |-> 0]
        ELSE ChainObjects(d, w, free, chain.handle,
                          WindowBack(chain.r, draw.dd[d].win, w, draw.dd[d].bpp))
ddraw_create_flip_chain_surface(d, w, backbuffers) ==
    ChainMade(d, w, rb_surface_create_flip_chain(draw.r, draw.dd[d].win, w, draw.dd[d].bpp, backbuffers))

ddraw_create_regular_surface(d, w, primary) ==
    LET st == draw
        made == rb_surface_create(st.r, w, st.dd[d].bpp, IF primary THEN {"primary"} ELSE {"offscreen"})
        free == Free(Surfaces, st.srf)
        s == Min(free)
        one == ddraw_surface_alloc([st EXCEPT !.r = made.r], s, d, made.handle, FALSE, w)
    IN  IF made.handle = 0 THEN [s |-> 0, st |-> [st EXCEPT !.r = made.r], oom |-> 0]
        ELSE IF free = {}
        THEN [s |-> 0, st |-> [st EXCEPT !.r = rb_surface_destroy(made.r, made.handle)], oom |-> 0]
        ELSE [s |-> s, st |-> IF primary THEN MakePrimary(one, d, s) ELSE one, oom |-> 0]

SurfaceKinds == {"flip0", "flip1", "primary", "plain"}
\* A width of 0 in the descriptor is the width of the mode.
ddraw_CreateSurface(d, kind, width, ok) ==
    /\ Calls("dd", d) /\ (draw.ready # "unknown" => ok)
    /\ LET ready == ddraw_ensure_backend(ok)
           w == IF width = 0 THEN draw.dd[d].w ELSE width
           made == CASE kind = "flip0" -> ddraw_create_flip_chain_surface(d, w, 0)
                     [] kind = "flip1" -> ddraw_create_flip_chain_surface(d, w, 1)
                     [] OTHER -> ddraw_create_regular_surface(d, w, kind = "primary")
       IN  IF ready = "no" \/ (kind # "plain" /\ draw.dd[d].win = 0)
           THEN draw' = [draw EXCEPT !.ready = ready] /\ client' = Ops
           ELSE /\ draw' = [made.st EXCEPT !.ready = ready]
                /\ client' = IF made.s = 0 THEN [Ops EXCEPT !.oom = made.oom] ELSE Gains("srf", made.s)

ddraw_get_gdi_surface(d) ==
    /\ Calls("dd", d) /\ draw.dd[d].primary_surface # 0
    /\ draw' = ddraw_surface_add_ref(draw, draw.dd[d].primary_surface)
    /\ client' = Gains("srf", draw.dd[d].primary_surface)

-----------------------------------------------------------------------------
(* IDirectDrawSurface.                                                     *)

surface_AddRef(s) ==
    /\ Calls("srf", s) /\ client.held["srf"][s] = 1
    /\ draw' = ddraw_surface_add_ref(draw, s)
    /\ client' = Gains("srf", s)
surface_Release(s) ==
    /\ client.held["srf"][s] > 0 /\ client.oom = 0
    /\ draw' = ddraw_surface_release(draw, s)
    /\ client' = [client EXCEPT !.held["srf"][s] = @ - 1,
                              !.ptr = IF s \in DOMAIN draw'.srf THEN @ ELSE Without(@, s)]

surface_AddAttachedSurface(s, t) ==
    /\ Calls("srf", s) /\ client.held["srf"][t] > 0 /\ draw.srf[s].next = 0
    /\ draw' = [ddraw_surface_add_ref(draw, t) EXCEPT !.srf[s].next = t]
    /\ client' = Ops

surface_DeleteAttachedSurface(s) ==
    /\ Calls("srf", s) /\ draw.srf[s].next # 0 /\ client.held["srf"][draw.srf[s].next] > 0
    /\ draw' = ddraw_surface_release([draw EXCEPT !.srf[s].next = 0], draw.srf[s].next)
    /\ client' = Ops
surface_GetAttachedSurface(s) ==
    /\ Calls("srf", s) /\ draw.srf[s].next # 0 /\ client.held["srf"][draw.srf[s].next] < 2
    /\ draw' = ddraw_surface_add_ref(draw, draw.srf[s].next)
    /\ client' = Gains("srf", draw.srf[s].next)

surface_Flip(s, shown) ==
    /\ Calls("srf", s)
    /\ draw' = [draw EXCEPT !.r = rb_surface_flip(@, draw.srf[s].rb, shown)]
    /\ client' = Ops

\* The object takes the size of its backend surface over.
ddraw_normalize_surface_data(s) ==
    IF get_surface(draw.r, draw.srf[s].rb)
    THEN [w |-> draw.r.tab[draw.srf[s].rb].w,
          pitch |-> rb_surface_pitch_for_bpp(draw.r.tab[draw.srf[s].rb].w, draw.r.tab[draw.srf[s].rb].bpp)]
    ELSE [w |-> draw.srf[s].w, pitch |-> draw.srf[s].pitch]

\* A lock gives out the pixels; the guest writes them; the unlock marks the surface.
surface_Lock(s) ==
    /\ Calls("srf", s) /\ ~draw.srf[s].locked /\ get_surface(draw.r, draw.srf[s].rb)
    /\ LET data == ddraw_normalize_surface_data(s)
       IN  draw' = [draw EXCEPT !.srf[s].locked = TRUE, !.srf[s].w = data.w, !.srf[s].pitch = data.pitch]
    /\ client' = [Ops EXCEPT !.ptr = With(@, s, draw.r.tab[draw.srf[s].rb].pixels)]
GuestWrites(s, colour) ==
    /\ s \in DOMAIN client.ptr /\ client.oom = 0 /\ draw.r.mem[client.ptr[s]] \notin {Unallocated, colour}
    /\ draw' = [draw EXCEPT !.r.mem[client.ptr[s]] = colour]
    /\ UNCHANGED client
surface_Unlock(s) ==
    /\ client.held["srf"][s] > 0 /\ client.oom = 0 /\ draw.srf[s].locked
    /\ draw' = [draw EXCEPT !.srf[s].locked = FALSE, !.r = rb_surface_unlock(@, draw.srf[s].rb)]
    /\ client' = [client EXCEPT !.ptr = Without(@, s)]

\* A fill with a colour, or a copy of a surface; without a backend surface
\* on either side the call fails.
surface_Blt(s, from, colour) ==
    /\ Calls("srf", s) /\ get_surface(draw.r, draw.srf[s].rb)
    /\ \/ from = 0 /\ draw' = [draw EXCEPT !.r = rb_surface_blt(@, draw.srf[s].rb, colour)]
       \/ /\ from # 0 /\ client.held["srf"][from] > 0 /\ colour = 0
          /\ get_surface(draw.r, draw.srf[from].rb)
          /\ draw' = [draw EXCEPT !.r = rb_surface_blt(@, draw.srf[s].rb,
                                            draw.r.mem[draw.r.tab[draw.srf[from].rb].pixels])]
    /\ client' = Ops

-----------------------------------------------------------------------------
(* Palettes and clippers.                                                  *)

ddraw_palette_color_count(full) == IF full THEN FullPalette ELSE 1

\* The entries given with the call are colour.
ddraw_CreatePalette(d, full, colour, ok) ==
    /\ Calls("dd", d) /\ (draw.ready # "unknown" => ok)
    /\ LET ready == ddraw_ensure_backend(ok)
           n == ddraw_palette_color_count(full)
           made == rb_palette_create(draw.r, n)
           free == Free(Palettes, draw.pal)
           p == Min(free)
       IN  IF ready = "no" \/ made.handle = 0
           THEN draw' = [draw EXCEPT !.ready = ready] /\ client' = Ops
           ELSE IF free = {}
           THEN draw' = [draw EXCEPT !.ready = ready, !.r = rb_palette_destroy(made.r, made.handle)]
                /\ client' = Ops
           ELSE /\ draw' = [draw EXCEPT !.ready = ready,
                        !.pal = With(@, p, [ref_count |-> 1, rb |-> made.handle, num_colors |-> n]),
                        !.r = rb_palette_set_colors(made.r, made.handle, 0, n, colour)]
                /\ client' = Gains("pal", p)

palette_Release(p) ==
    /\ client.held["pal"][p] > 0 /\ client.oom = 0
    /\ draw' = ddraw_palette_release(draw, p)
    /\ client' = [client EXCEPT !.held["pal"][p] = @ - 1]

palette_SetEntries(p, start, count, colour) ==
    /\ Calls("pal", p)
    /\ draw' = [draw EXCEPT !.r = rb_palette_set_colors(@, draw.pal[p].rb, start,
                                    Min({count, draw.pal[p].num_colors}), colour)]
    /\ client' = Ops

\* A palette that is set again is counted again.  The back buffer gets the
\* palette too, but only in the backend.
surface_SetPalette(s, p) ==
    /\ Calls("srf", s) /\ (p # 0 => client.held["pal"][p] > 0)
    /\ LET old == draw.srf[s].palette
           freed == IF old # 0 /\ old # p THEN ddraw_palette_release(draw, old) ELSE draw
           set == [freed EXCEPT !.srf[s].palette = p, !.pal[p].ref_count = @ + 1]
           first == rb_surface_set_palette(set.r, draw.srf[s].rb, set.pal[p].rb)
           next == draw.srf[s].next
       IN  draw' = IF p = 0 THEN [freed EXCEPT !.srf[s].palette = 0]
                   ELSE IF ~get_surface(set.r, draw.srf[s].rb) \/ next = 0 THEN [set EXCEPT !.r = first]
                   ELSE [set EXCEPT !.r = rb_surface_set_palette(first, draw.srf[next].rb, set.pal[p].rb)]
    /\ client' = Ops
surface_GetPalette(s) ==
    /\ Calls("srf", s) /\ draw.srf[s].palette # 0 /\ client.held["pal"][draw.srf[s].palette] < 2
    /\ draw' = [draw EXCEPT !.pal[draw.srf[s].palette].ref_count = @ + 1]
    /\ client' = Gains("pal", draw.srf[s].palette)

ddraw_clipper_create(d, c) ==
    /\ Calls("dd", d) /\ c \in Free(Clippers, draw.clip)
    /\ draw' = [draw EXCEPT !.clip = With(@, c, [ref_count |-> 1])]
    /\ client' = Gains("clip", c)
clipper_Release(c) ==
    /\ client.held["clip"][c] > 0 /\ client.oom = 0
    /\ draw' = ddraw_clipper_release(draw, c)
    /\ client' = [client EXCEPT !.held["clip"][c] = @ - 1]

ddraw_surface_set_clipper(s, c) ==
    /\ Calls("srf", s) /\ (c # 0 => client.held["clip"][c] > 0) /\ draw.srf[s].clipper # c
    /\ LET clear == ddraw_surface_clear_clipper(draw, s)
       IN  draw' = IF c = 0 THEN clear
                   ELSE [clear EXCEPT !.srf[s].clipper = c, !.clip[c].ref_count = @ + 1]
    /\ client' = Ops
ddraw_surface_get_clipper(s) ==
    /\ Calls("srf", s) /\ draw.srf[s].clipper # 0 /\ client.held["clip"][draw.srf[s].clipper] < 2
    /\ draw' = [draw EXCEPT !.clip[draw.srf[s].clipper].ref_count = @ + 1]
    /\ client' = Gains("clip", draw.srf[s].clipper)

-----------------------------------------------------------------------------
(* Descriptors.  The layout of DirectDraw 1 has one slot for the pitch and *)
(* the width, and one for both sizes; heights are left out.                *)

ddraw_write_desc_v1(w, pitch, backs, flip) ==
    [v |-> 1, pitch_or_width |-> pitch, backs |-> backs, flip |-> flip]
ddraw_write_desc_v2(w, pitch, backs, flip) ==
    [v |-> 2, dwWidth |-> w, lPitch |-> pitch, backs |-> backs, flip |-> flip]

ddraw_parse_surface_desc(desc) ==
    [w |-> IF desc.v = 1 THEN desc.pitch_or_width ELSE desc.dwWidth, backs |-> desc.backs,
     flip |-> desc.flip]

surface_GetSurfaceDesc(s, v) ==
    /\ Calls("srf", s)
    /\ LET data == ddraw_normalize_surface_data(s)
           backs == IF draw.srf[s].next = 0 THEN 0 ELSE 1
       IN  /\ draw' = [draw EXCEPT !.srf[s].w = data.w, !.srf[s].pitch = data.pitch]
           /\ client' = [Ops EXCEPT !.desc =
                 [bits |-> IF data.pitch = data.w THEN 8 ELSE 16, of |-> data.w] @@
                 (IF v = 1 THEN ddraw_write_desc_v1(data.w, data.pitch, backs, draw.srf[s].flip)
                  ELSE ddraw_write_desc_v2(data.w, data.pitch, backs, draw.srf[s].flip))]

\* The guest destroys its window.
DestroyWindow ==
    /\ client.ops < MaxDraw /\ client.oom = 0 /\ draw.r.wnd[GuestWnd].live
    /\ draw' = [draw EXCEPT !.r = rb_window_destroy(@, GuestWnd)]
    /\ client' = Ops

-----------------------------------------------------------------------------
(* The objects of GDI (src/msvcrt/gdi32_doom95.c) share the handle table.  *)

GdiTypes == {"DC", "OBJECT"}
\* CreateDCA, and CreateDIBitmap, CreateFontA and CreatePalette.
CreateGdi(type) ==
    /\ client.ops < MaxDraw /\ client.oom = 0
    /\ LET h == wine_handle_alloc(draw.r)
       IN  /\ draw' = IF h = 0 THEN draw ELSE [draw EXCEPT !.r.tab[h] = [type |-> type]]
           /\ client' = [Ops EXCEPT !.gdi = @ \cup ({h} \ {0})]
\* The guest passes any handle it was given, to either function.
DeleteDC(h) ==
    /\ h \in client.gdi /\ client.oom = 0
    /\ draw' = IF Has(draw.r, h, "DC") THEN [draw EXCEPT !.r = wine_handle_free(@, h)] ELSE draw
    /\ client' = [client EXCEPT !.gdi = @ \ {h}]

DeleteObject(h) ==
    /\ h \in client.gdi /\ client.oom = 0
    /\ draw' = IF Has(draw.r, h, "OBJECT") THEN [draw EXCEPT !.r = wine_handle_free(@, h)] ELSE draw
    /\ UNCHANGED client

-----------------------------------------------------------------------------
DrawNext ==
    \/ \E d \in DDs :
          \/ DirectDrawCreate(d) \/ ddraw_AddRef(d) \/ ddraw_Release(d) \/ ddraw_get_gdi_surface(d)
          \/ \E hwnd \in {"window", "bare", "unknown"} : ddraw_SetCooperativeLevel(d, hwnd)
          \/ \E w \in Widths, bpp \in {8, 16}, ok \in BOOLEAN, own \in {0} \cup (Surfwnds \ {GuestWnd}) :
                ddraw_SetDisplayMode(d, w, bpp, ok, own)
          \/ \E kind \in SurfaceKinds, w \in {0} \cup Widths, ok \in BOOLEAN :
                ddraw_CreateSurface(d, kind, w, ok)
          \/ \E full, ok \in BOOLEAN, colour \in Ink : ddraw_CreatePalette(d, full, colour, ok)
          \/ \E c \in Clippers : ddraw_clipper_create(d, c)
    \/ \E s \in Surfaces :
          \/ surface_AddRef(s) \/ surface_Release(s) \/ surface_Lock(s) \/ surface_Unlock(s)
          \/ \E shown \in BOOLEAN : surface_Flip(s, shown)
          \/ surface_DeleteAttachedSurface(s) \/ surface_GetAttachedSurface(s)
          \/ surface_GetPalette(s) \/ ddraw_surface_get_clipper(s)
          \/ \E t \in Surfaces : surface_AddAttachedSurface(s, t)
          \/ \E colour \in Ink : GuestWrites(s, colour) \/ surface_Blt(s, 0, colour)
          \/ \E t \in Surfaces : surface_Blt(s, t, 0)
          \/ \E p \in {0} \cup Palettes : surface_SetPalette(s, p)
          \/ \E c \in {0} \cup Clippers : ddraw_surface_set_clipper(s, c)
          \/ \E v \in {1, 2} : surface_GetSurfaceDesc(s, v)
    \/ \E p \in Palettes :
          \/ palette_Release(p)
          \/ \E start, count \in 1..FullPalette, colour \in Ink : palette_SetEntries(p, start, count, colour)
    \/ \E c \in Clippers : clipper_Release(c)
    \/ DestroyWindow
    \/ \E type \in GdiTypes : CreateGdi(type)
    \/ \E h \in Slots : DeleteDC(h) \/ DeleteObject(h)
DrawSpec == DrawInit /\ [][DrawNext]_dvars

-----------------------------------------------------------------------------
(* Properties.                                                             *)

Live(k) == DOMAIN draw[k]
AttachedTo(field, o) == {s \in Live("srf") : draw.srf[s][field] = o}

\* Every object counts at least one reference while it exists, pointers are
\* null or addresses of objects, and handles are null or slots.
DrawTypeOK ==
    /\ Live("dd") \subseteq DDs /\ Live("srf") \subseteq Surfaces /\ Live("pal") \subseteq Palettes
    /\ \A d \in Live("dd") : draw.dd[d].ref_count > 0 /\ draw.dd[d].win \in {0} \cup Surfwnds
    /\ \A s \in Live("srf") :
          /\ draw.srf[s].ref_count > 0 /\ draw.srf[s].rb \in Slots
          /\ draw.srf[s].next \in {0} \cup Surfaces /\ draw.srf[s].palette \in {0} \cup Palettes
          /\ draw.srf[s].clipper \in {0} \cup Clippers /\ draw.srf[s].dd_owner \in {0} \cup DDs
    /\ \A w \in Surfwnds : {draw.r.wnd[w].primary, draw.r.wnd[w].back} \subseteq {0} \cup Slots

\* No object is freed while something refers to it: a surface counts the references
\* of the guest, of the DirectDraw object whose primary surface it is and of the
\* surfaces it is attached to, a palette and a clipper those of the guest and of the
\* surfaces they are set on (ddraw_surface_release, ddraw_palette_release and
\* ddraw_clipper_release free at zero).
ReferencesCounted ==
    /\ \A s \in Surfaces :
          LET refs == client.held["srf"][s] + Cardinality({d \in Live("dd") : draw.dd[d].primary_surface = s})
                      + Cardinality(AttachedTo("next", s))
          IN  refs > 0 => s \in Live("srf") /\ draw.srf[s].ref_count >= refs
    /\ \A p \in Palettes :
          LET refs == client.held["pal"][p] + Cardinality(AttachedTo("palette", p))
          IN  refs > 0 => p \in Live("pal") /\ draw.pal[p].ref_count >= refs

\* A clipper is freed with its last reference, no sooner and no later: setting a
\* clipper that is set already does not count it twice (ddraw_surface_set_clipper).
ClippersCounted ==
    \A c \in Clippers :
        LET refs == client.held["clip"][c] + Cardinality(AttachedTo("clipper", c))
        IN  IF refs = 0 THEN c \notin Live("clip")
            ELSE c \in Live("clip") /\ draw.clip[c].ref_count = refs

\* The list of a DirectDraw object names exactly the surfaces it owns, each once, and
\* no surface names an owner that is gone: a release walks the list and writes to its
\* surfaces, the destruction of a surface writes to its owner's list.  Excepted is the
\* primary surface that ddraw_create_flip_chain_surface frees, and leaves in the list,
\* when there is no memory for its back buffer.
OwnersListed ==
    /\ \A d \in Live("dd") :
          LET list == SelectSeq(draw.dd[d].surface_list, LAMBDA s : s # client.oom)
          IN  ToSet(list) = AttachedTo("dd_owner", d) /\ Len(list) = Cardinality(AttachedTo("dd_owner", d))
    /\ \A s \in Live("srf") : draw.srf[s].dd_owner \in {0} \cup Live("dd")

\* Flips exchange buffers between surfaces, and still every backend surface draws into
\* the buffer it frees, and no two of them have the same one.
BuffersApart ==
    LET own == {h \in Slots : get_surface(draw.r, h)}
    IN  /\ \A h \in own : /\ draw.r.tab[h].pixels = draw.r.tab[h].own_buf
                          /\ draw.r.mem[draw.r.tab[h].own_buf] # Unallocated
        /\ \A h, k \in own : h # k => draw.r.tab[h].own_buf # draw.r.tab[k].own_buf

\* Two surface objects that name one backend surface, and so draw into one buffer:
\* the handle of at least one of them is stale, its backend surface was destroyed with
\* a window or with the primary surface of its chain, or was replaced.
Stale(s) == draw.srf[s].gen # draw.r.gen[draw.srf[s].rb]
SharedWhenStale ==
    \A s, t \in Live("srf") : s # t /\ draw.srf[s].rb = draw.srf[t].rb => Stale(s) \/ Stale(t)

\* A buffer is given back the way it was allocated, as own_buf_low32 says, unless a
\* flip exchanged a buffer of mmap for one of malloc: the flag stays behind.
FreedAsMade == draw.r.misfreed => draw.r.mixed

\* Every palette object has a backend palette of its own, although handles are
\* reused and surfaces keep handles of backend surfaces that are gone: destroying
\* through a stale handle never takes a palette (get_surface tests the type).
PalettesApart ==
    /\ \A p \in Live("pal") : get_palette(draw.r, draw.pal[p].rb)
    /\ \A p, q \in Live("pal") : p # q => draw.pal[p].rb # draw.pal[q].rb

\* A descriptor that the code fills reads back as the same width when it is handed
\* to CreateSurface, in the layout of either version, for the 8 bit surfaces of the
\* supported programs.  (In the layout of DirectDraw 1 the width's slot is the pitch's.)
DescriptorReadsBack ==
    client.desc.v # 0 /\ (client.desc.v = 1 => client.desc.bits = 8) =>
        ddraw_parse_surface_desc(client.desc).w = client.desc.of

\* What a window shows changes only when its primary surface is flipped, to what the
\* back buffer holds at that moment, and the primary surface then holds it too.
FlipShows ==
    [][\A w \in Surfwnds :
        LET r == draw.r
            q == draw'.r
        IN  r.wnd[w].live /\ q.wnd[w].live /\ r.wnd[w].shows # q.wnd[w].shows =>
                /\ get_surface(q, q.wnd[w].primary)
                /\ q.wnd[w].shows = q.mem[q.tab[q.wnd[w].primary].pixels]
                /\ get_surface(r, r.wnd[w].back) => q.wnd[w].shows = r.mem[r.tab[r.wnd[w].back].pixels]
      ]_dvars

\* DirectDraw objects, surfaces, palettes and clippers that refer to each other,
\* created, attached, released and re-created in any order, with full tables and
\* until there is no memory for a back buffer: what is referred to exists, lists and
\* owners agree (but for the surface freed in that last case), and descriptors read
\* back as written.
SurfacesConsistent ==
    DrawTypeOK /\ ReferencesCounted /\ ClippersCounted /\ OwnersListed /\ DescriptorReadsBack

\* No two backend surfaces draw into one buffer and no two palettes share colours,
\* whatever was flipped or destroyed under a window; two surface objects share a
\* backend surface only through a handle that is stale, and buffers are freed as they
\* were allocated unless flips mixed the two kinds.
NothingShared == BuffersApart /\ PalettesApart /\ SharedWhenStale /\ FreedAsMade
=============================================================================
