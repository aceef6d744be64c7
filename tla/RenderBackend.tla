---------------------------- MODULE RenderBackend ----------------------------
(***************************************************************************)
(* The window and event half of the SDL2 render backend                    *)
(* (src/backend/sdl2): backend windows, the table that routes SDL windows  *)
(* to guest HWNDs, the synthetic queue, the shutdown list and the          *)
(* translation of SDL events.                                              *)
(*                                                                         *)
(* The C functions are written as operators on the two pieces of state     *)
(* they touch: hm, the process-wide handle table, and be, a record with    *)
(* the backend's globals.  The modules that own those variables apply the  *)
(* operators in their actions.                                             *)
(***************************************************************************)
EXTENDS Integers, Sequences, FiniteSets, SequencesExt

CONSTANTS
    Handles,          \* usable slots of the handle table (a range of naturals)
    RouteDoublings,   \* how often the route table can double before realloc fails
    SynCapacity,      \* messages the synthetic queue holds when realloc fails
    WatchCapacity     \* RB_KEY_WATCH_QUEUE_CAPACITY

ASSUME BackendAssumption ==
    /\ Handles \subseteq Nat \ {0} /\ IsFiniteSet(Handles)
    /\ RouteDoublings \in Nat /\ SynCapacity \in Nat /\ WatchCapacity \in Nat \ {0}

-----------------------------------------------------------------------------
(* The handle table: a slot is free or holds one typed object.             *)

FreeSlot == [type |-> "FREE"]

\* wine_handle_alloc: the lowest free slot, 0 when there is none.
wine_handle_alloc(hm) ==
    LET free == {h \in Handles : hm[h] = FreeSlot}
    IN  IF free = {} THEN 0 ELSE CHOOSE h \in free : \A g \in free : h <= g

HasType(hm, h, type) == h \in Handles /\ hm[h].type = type

wine_handle_free(hm, h) == [hm EXCEPT ![h] = FreeSlot]

-----------------------------------------------------------------------------
(* The backend's globals.                                                  *)

NoMsg == [hwnd |-> 0, msg |-> "NONE", id |-> 0]
Message(hwnd, msg, id) == [hwnd |-> hwnd, msg |-> msg, id |-> id]
NoRoute == [hwnd |-> 0, win |-> 0, sdl |-> 0]

\* routes: g_window_routes up to the highest slot ever used; grown: how often
\* the table was grown; sdl: the SDL windows that exist; nextSdl: the next SDL
\* window id; events: the SDL event queue; watched: g_key_watch_queue; sized: how
\* often the route table had grown when the shutdown list was last made to fit it.
\* History: forgot, the key watch queue overflowed and dropped its oldest note;
\* missed, a key came while there was no window to watch it for; unlisted, there was
\* no memory for the shutdown list.
BackendInit ==
    [routes |-> <<>>, grown |-> 0, active |-> 0, syn |-> <<>>,
     shut |-> <<>>, request |-> FALSE, bad |-> 0,
     sdl |-> {}, nextSdl |-> 1, events |-> <<>>, watched |-> <<>>,
     sized |-> -1, forgot |-> FALSE, missed |-> FALSE, unlisted |-> FALSE]

RouteOf(be, hwnd) ==
    LET hits == {i \in DOMAIN be.routes : hwnd # 0 /\ be.routes[i].hwnd = hwnd}
    IN  IF hits = {} THEN 0 ELSE CHOOSE i \in hits : \A j \in hits : i <= j

\* rb_event_resolve_hwnd_from_sdl_window / _native_window: an SDL window and
\* its native window live and die together, so one id stands for both.
rb_event_resolve_hwnd(be, sdl) ==
    LET hits == {i \in DOMAIN be.routes :
                    be.routes[i].hwnd # 0 /\ be.routes[i].sdl = sdl}
    IN  IF sdl = 0 \/ hits = {} THEN 0
        ELSE be.routes[CHOOSE i \in hits : \A j \in hits : i <= j].hwnd

rb_event_resolve_backend_window(hm, be, hwnd) ==
    LET i == RouteOf(be, hwnd)
    IN  i # 0 /\ HasType(hm, be.routes[i].win, "RB_WINDOW")

\* rb_event_alloc_route_slot asks for one slot more than the capacity, so it
\* doubles the table every time, whatever free slots the table has.
rb_event_alloc_route_slot(be) ==
    LET free == {i \in DOMAIN be.routes : be.routes[i].hwnd = 0}
    IN  IF be.grown = RouteDoublings THEN 0
        ELSE IF free = {} THEN Len(be.routes) + 1
        ELSE CHOOSE i \in free : \A j \in free : i <= j

rb_event_bind_window(hm, be, hwnd, win) ==
    LET old == RouteOf(be, hwnd)
        slot == IF old # 0 THEN old ELSE rb_event_alloc_route_slot(be)
        route == [hwnd |-> hwnd, win |-> win, sdl |-> hm[win].sdl]
    IN  IF slot = 0 THEN [ok |-> FALSE, be |-> be]
        ELSE [ok |-> TRUE,
              be |-> [be EXCEPT
                        !.routes = IF slot > Len(@) THEN Append(@, route)
                                   ELSE [@ EXCEPT ![slot] = route],
                        !.grown = IF old # 0 THEN @ ELSE @ + 1]]

rb_event_unbind_window(be, hwnd) ==
    LET slot == RouteOf(be, hwnd)
    IN  IF slot = 0 THEN be
        ELSE [be EXCEPT !.routes[slot] = NoRoute,
                        !.active = IF @ = hwnd THEN 0 ELSE @]

\* A message for which there is no memory is dropped, and no caller asks.
rb_event_push_synthetic(be, m) == IF Len(be.syn) >= SynCapacity THEN be ELSE [be EXCEPT !.syn = Append(@, m)]

rb_event_queue_focus_messages(be, hwnd, gained) ==
    rb_event_push_synthetic(rb_event_push_synthetic(be, Message(hwnd, "ACTIVATE", 0)),
        Message(hwnd, IF gained THEN "SETFOCUS" ELSE "KILLFOCUS", 0))

rb_event_activate_window(be, hwnd) ==
    rb_event_queue_focus_messages([be EXCEPT !.active = hwnd], hwnd, TRUE)

-----------------------------------------------------------------------------
(* Backend windows.                                                        *)

\* rb_window_create: an SDL window, then a handle for it.  When the handle
\* table is full the SDL window stays behind without an owner.
rb_window_create(hm, be) ==
    LET h == wine_handle_alloc(hm)
        id == be.nextSdl
    IN  [win |-> h,
         hm |-> IF h = 0 THEN hm
                ELSE [hm EXCEPT ![h] = [type |-> "RB_WINDOW", sdl |-> id, known |-> TRUE, guest |-> 0]],
         be |-> [be EXCEPT !.sdl = @ \cup {id}, !.nextSdl = @ + 1]]

rb_window_destroy(hm, be, win) ==
    IF ~HasType(hm, win, "RB_WINDOW") THEN [hm |-> hm, be |-> be]
    ELSE LET w == hm[win]
             unbound == IF w.guest # 0 THEN rb_event_unbind_window(be, w.guest) ELSE be
         IN  [hm |-> wine_handle_free(hm, win),
              be |-> [unbound EXCEPT !.sdl = @ \ {w.sdl}]]

rb_window_attach_guest_hwnd(hm, be, win, hwnd) ==
    LET owned == [hm EXCEPT ![win].guest = hwnd]
        bound == rb_event_bind_window(owned, be, hwnd, win)
    IN  [ok |-> bound.ok, hm |-> owned, be |-> bound.be]

\* The new SDL window exists before the old one is destroyed.
rb_window_host_set_fullscreen(be, old) ==
    [be EXCEPT !.sdl = (@ \ {old}) \cup {be.nextSdl}, !.nextSdl = @ + 1]

\* Mutant: the route keeps the old SDL window
FullscreenNotRebound(hm, be, win, fail) ==
    IF fail = "host" THEN [ok |-> FALSE, hm |-> hm, be |-> be]
    ELSE [ok |-> fail # "ids", hm |-> [hm EXCEPT ![win].sdl = be.nextSdl],
          be |-> rb_window_host_set_fullscreen(be, hm[win].sdl)]

\* The route follows the SDL window and the guest window is activated.
rb_window_rebind_guest(hm, be, hwnd, win) ==
    IF hwnd = 0 THEN be
    ELSE rb_event_activate_window(rb_event_bind_window(hm, be, hwnd, win).be, hwnd)

\* A new SDL window replaces the old one.  fail: none could be made ("host"), or its
\* id could not be read ("ids"); the route then goes on naming the old one.
rb_window_set_fullscreen(hm, be, win, fail) ==
    LET hm1 == [hm EXCEPT ![win].sdl = be.nextSdl, ![win].known = fail # "ids"]
        be1 == rb_window_host_set_fullscreen(be, hm[win].sdl)
    IN  CASE fail = "host" -> [ok |-> FALSE, hm |-> hm, be |-> be]
          [] fail = "ids" -> [ok |-> FALSE, hm |-> hm1, be |-> be1]
          [] OTHER -> [ok |-> TRUE, hm |-> hm1, be |-> rb_window_rebind_guest(hm1, be1, hm[win].guest, win)]

-----------------------------------------------------------------------------
(* Shutdown: the signal handler leaves a request, the event loop turns it  *)
(* into one WM_CLOSE per routed window, the active window first.           *)

\* Mutant: only the active window is closed
ShutdownActiveOnly(hm, be, ok) ==
    [be EXCEPT !.shut = IF be.active = 0 THEN <<>> ELSE <<be.active>>, !.request = FALSE]

\* ok: there is memory for a list as long as the route table.
rb_event_begin_shutdown(hm, be, ok) ==
    LET isActive == be.active # 0 /\ rb_event_resolve_backend_window(hm, be, be.active)
        others == SelectSeq([i \in DOMAIN be.routes |-> be.routes[i].hwnd],
                            LAMBDA h : h # 0 /\ h # be.active)
    IN  IF ~ok THEN [be EXCEPT !.shut = <<>>, !.request = FALSE, !.unlisted = TRUE]
        ELSE [be EXCEPT !.shut = (IF isActive THEN <<be.active>> ELSE <<>>) \o others,
                        !.request = FALSE, !.sized = be.grown]
\* The list has to grow when the route table has grown since.
ShutdownMayFail(be) == be.request /\ be.syn = <<>> /\ be.sized < be.grown

rb_event_translate_shutdown(hm, be) ==
    LET live == {i \in DOMAIN be.shut :
                    rb_event_resolve_backend_window(hm, be, be.shut[i])}
        first == CHOOSE i \in live : \A j \in live : i <= j
    IN  IF live = {} THEN [msg |-> NoMsg, be |-> [be EXCEPT !.shut = <<>>]]
        ELSE [msg |-> Message(be.shut[first], "CLOSE", 0),
              be |-> [be EXCEPT !.shut = SubSeq(@, first + 1, Len(@))]]

\* An X11 BadWindow error names a native window; its guest window is closed.
rb_event_translate_bad_window(be) ==
    LET hwnd == rb_event_resolve_hwnd(be, be.bad)
    IN  [msg |-> IF hwnd = 0 THEN NoMsg ELSE Message(hwnd, "CLOSE", 0),
         be |-> [be EXCEPT !.bad = 0]]

-----------------------------------------------------------------------------
(* SDL events: [type, sdl, id], id naming the event.                       *)

\* Keys: any key ("KEY"), F4 pressed while Alt is down ("ALTF4") and let go
\* ("F4UP"); which key, its repeat count and its scan code are data of the message.
\* A key that Windows has no code for is one of the events that no case handles.
Keys == {"KEY", "ALTF4", "F4UP"}
KeyMessage(hwnd, e) == Message(hwnd, IF e.type = "ALTF4" THEN "ALTF4" ELSE "KEY", e.id)

\* The oldest note makes room.
rb_event_note_watched_key(be, e) ==
    [be EXCEPT !.watched = Append(IF Len(@) >= WatchCapacity THEN Tail(@) ELSE @, e.id),
               !.forgot = @ \/ Len(be.watched) >= WatchCapacity]

rb_event_take_watched_key(be, e) == [be EXCEPT !.watched = Remove(@, e.id)]

\* rb_event_watch runs when SDL queues a key: the key message goes to the
\* synthetic queue at once and the key is noted.
rb_event_watch(be, e) ==
    LET routed == rb_event_resolve_hwnd(be, e.sdl)
        hwnd == IF routed # 0 THEN routed ELSE be.active
    IN  IF hwnd = 0 THEN [be EXCEPT !.missed = TRUE]
        ELSE rb_event_note_watched_key(rb_event_push_synthetic(be, KeyMessage(hwnd, e)), e)

\* The copy of a watched key that comes out of SDL's queue is dropped.  Of the
\* others, Alt+F4 closes the window and the F4 let go is swallowed.
rb_event_translate_key_event(be, e, hwnd) ==
    LET target == IF hwnd # 0 THEN hwnd ELSE be.active
    IN  IF \E i \in DOMAIN be.watched : be.watched[i] = e.id
        THEN [msg |-> NoMsg, be |-> rb_event_take_watched_key(be, e)]
        ELSE [msg |-> IF target = 0 \/ e.type = "F4UP" THEN NoMsg
                      ELSE IF e.type = "ALTF4" THEN Message(target, "CLOSE", e.id)
                      ELSE KeyMessage(target, e), be |-> be]

PopSynthetic(be) ==
    IF be.syn = <<>> THEN [msg |-> NoMsg, be |-> be]
    ELSE [msg |-> Head(be.syn), be |-> [be EXCEPT !.syn = Tail(@)]]

rb_event_translate_focus_window_event(be, e, hwnd) ==
    CASE e.type = "GAINED" /\ hwnd # 0 -> PopSynthetic(rb_event_activate_window(be, hwnd))
      [] e.type = "LOST" /\ hwnd # 0 /\ be.active = hwnd ->
            PopSynthetic([rb_event_queue_focus_messages(be, hwnd, FALSE) EXCEPT !.active = 0])
      [] OTHER -> [msg |-> NoMsg, be |-> be]

\* Coordinates, buttons and sizes are data of the message.
rb_event_translate_window_or_mouse(be, e, hwnd) ==
    [msg |-> IF hwnd = 0 THEN NoMsg ELSE Message(hwnd, e.type, e.id), be |-> be]

\* rb_event_translate_sdl_event; "OTHER" stands for the events that only set
\* the minimised or maximised flag of a window, or that no case handles.
rb_event_translate_sdl_event(be, e) ==
    LET hwnd == rb_event_resolve_hwnd(be, e.sdl)
    IN  CASE e.type \in Keys -> rb_event_translate_key_event(be, e, hwnd)
          [] e.type \in {"GAINED", "LOST"} -> rb_event_translate_focus_window_event(be, e, hwnd)
          [] e.type \in {"MOUSE", "CLOSE"} -> rb_event_translate_window_or_mouse(be, e, hwnd)
          [] e.type = "QUIT" -> [msg |-> Message(0, "QUIT", e.id), be |-> be]
          [] OTHER -> [msg |-> NoMsg, be |-> be]

\* One pass of rb_event_wait, which is also all of rb_event_peek: the
\* synthetic queue, then shutdown, then bad windows, then one SDL event.
rb_event_pass(hm, be, ok) ==
    LET be1 == IF be.request THEN rb_event_begin_shutdown(hm, be, ok) ELSE be
        shut == rb_event_translate_shutdown(hm, be1)
        bad == rb_event_translate_bad_window(shut.be)
        taken == [bad.be EXCEPT !.events = Tail(@)]
    IN  CASE be.syn # <<>> -> PopSynthetic(be)
          [] be.syn = <<>> /\ shut.msg # NoMsg -> shut
          [] be.syn = <<>> /\ shut.msg = NoMsg /\ bad.msg # NoMsg -> bad
          [] OTHER -> IF bad.be.events = <<>> THEN [msg |-> NoMsg, be |-> bad.be]
                      ELSE rb_event_translate_sdl_event(taken, Head(bad.be.events))

==============================================================================
