------------------------------- MODULE Windows -------------------------------
(***************************************************************************)
(* Windows as user32 keeps them (src/msvcrt/user32_window*.c,              *)
(* user32_focus.c, user32_class_registry.c) on top of the SDL2 backend.    *)
(*                                                                         *)
(* CreateWindowExA, DestroyWindow and every change of focus call the       *)
(* guest's window procedure in the middle of their work, and the guest may *)
(* call user32 again from there.  stack holds one frame per user32 call    *)
(* that is waiting for a window procedure: todo is the callbacks it still  *)
(* makes, the first being the one that runs now.                           *)
(***************************************************************************)
EXTENDS RenderBackend

CONSTANTS
    MaxDepth,     \* bound on nested user32 calls
    MaxCreates,   \* bound on CreateWindowExA calls
    MaxSdl        \* bound on SDL windows ever made

VARIABLES
    hm,       \* the handle table
    be,       \* the backend's globals (see RenderBackend)
    ui,       \* user32's globals
    stack     \* user32 calls in progress, innermost first

wvars == <<hm, be, ui, stack>>

\* Window classes: "app" has a guest window procedure and a cursor of its own;
\* "dialog" uses DefWindowProcA and gets LoadCursorA(IDC_ARROW).
Classes == {"app", "dialog"}

\* focus, active: g_user32_focus_window, g_user32_active_window; live:
\* g_user32_live_windows; backend: g_user32_backend_ready / _init_attempted;
\* classes: the registered classes in atom order, those of a guest that has
\* registered some already at the start.  held: what the handle table, which is one
\* for the whole process, holds for the guest at the start; gone: windows that were
\* made and destroyed before.  creates, full and rejected
\* are history: CreateWindowExA calls made, the handle table was found full,
\* a window procedure refused a window that had the focus.  A window's born is
\* history too: the number of the call that created it.
WindowsInit(registered, held, gone) ==
    /\ hm = [h \in Handles |-> IF h \in DOMAIN held THEN [type |-> held[h]] ELSE FreeSlot]
    /\ be = [BackendInit EXCEPT !.grown = gone, !.routes = IF gone = 0 THEN <<>> ELSE <<NoRoute>>]
    /\ ui = [focus |-> 0, active |-> 0, live |-> 0, backend |-> IF gone = 0 THEN "untried" ELSE "up",
             classes |-> registered, creates |-> 0, full |-> FALSE, rejected |-> FALSE]
    /\ stack = <<>>

IsWindow(table, h) == HasType(table, h, "HWIN")
LiveWindows(table) == {h \in Handles : IsWindow(table, h)}
LiveOr0(table, h) == IF IsWindow(table, h) THEN h ELSE 0

\* A user32 function can be called by guest code: by the main program, or by
\* the window procedure that the innermost call is waiting for.
CanCall == Len(stack) < MaxDepth /\ (stack # <<>> => Head(stack).todo # <<>>)

Frame(op, hwnd, todo) == [op |-> op, hwnd |-> hwnd, todo |-> todo]
Push(frame) == IF frame.todo = <<>> THEN <<>> ELSE <<frame>>

\* Only window procedures of the guest run guest code; DefWindowProcA answers
\* the messages of this module without side effect.
Callbacks(table, h, msgs) ==
    IF IsWindow(table, h) /\ table[h].guest
    THEN [i \in DOMAIN msgs |-> [hwnd |-> h, msg |-> msgs[i]]] ELSE <<>>

-----------------------------------------------------------------------------
(* Focus.                                                                  *)

\* The messages of user32_send_focus_transition, the two entries being looked
\* up before the first callback.
user32_send_focus_transition(table, previous, target) ==
    IF previous = target THEN <<>>
    ELSE Callbacks(table, previous, <<"DEACTIVATE", "KILLFOCUS">>)
         \o Callbacks(table, target, <<"ACTIVATE", "SETFOCUS">>)

user32_set_foreground_focus(table, b, u, target) ==
    LET focus == LiveOr0(table, u.focus)
        previous == IF focus # 0 THEN focus ELSE LiveOr0(table, u.active)
    IN  [be |-> [b EXCEPT !.active = target],
         ui |-> [u EXCEPT !.focus = LiveOr0(table, target), !.active = LiveOr0(table, target)],
         frames |-> Push(Frame("focus", target,
                                user32_send_focus_transition(table, previous, target)))]

user32_find_replacement_window(table) ==
    LET live == LiveWindows(table)
    IN  IF live = {} THEN 0 ELSE CHOOSE h \in live : \A g \in live : h <= g

user32_update_window_ownership_after_destroy(table, b, u, hwnd) ==
    LET replacement == user32_find_replacement_window(table)
        u1 == [u EXCEPT !.active = IF @ = hwnd THEN replacement ELSE @,
                        !.focus = IF @ = hwnd THEN replacement ELSE @]
    IN  [ui |-> u1, be |-> [b EXCEPT !.active = LiveOr0(table, u1.active)]]

SetFocus(h) ==
    /\ CanCall
    /\ LET f == user32_set_foreground_focus(hm, be, ui, LiveOr0(hm, h))
       IN  /\ be' = f.be /\ ui' = f.ui /\ stack' = f.frames \o stack
    /\ UNCHANGED hm

\* SetForegroundWindow changes user32's idea of the foreground only.
SetForegroundWindow(h) ==
    /\ CanCall /\ IsWindow(hm, h)
    /\ ui' = [ui EXCEPT !.active = h, !.focus = h]
    /\ UNCHANGED <<hm, be, stack>>

\* ShowWindow and SetWindowPos, for the commands that activate the window.
ShowWindow(h) ==
    /\ CanCall /\ IsWindow(hm, h)
    /\ LET f == user32_set_foreground_focus(hm, be, ui, h)
       IN  /\ be' = f.be /\ ui' = f.ui /\ stack' = f.frames \o stack
    /\ UNCHANGED hm

\* A display mode change replaces the SDL window (rb_window_set_fullscreen) and
\* ends in user32_activate_window_direct; its caller does not ask whether it failed.
SetFullscreen(h, fail) ==
    /\ CanCall /\ IsWindow(hm, h) /\ be.nextSdl <= MaxSdl
    /\ LET r == rb_window_set_fullscreen(hm, be, hm[h].win, fail)
           f == user32_set_foreground_focus(r.hm, r.be, ui, h)
       IN  /\ hm' = r.hm
           /\ IF r.ok THEN be' = f.be /\ ui' = f.ui /\ stack' = f.frames \o stack
              ELSE be' = r.be /\ UNCHANGED <<ui, stack>>

-----------------------------------------------------------------------------
(* Creation.                                                               *)

RegisterClassA(c) ==
    /\ CanCall /\ ~Contains(ui.classes, c)
    /\ ui' = [ui EXCEPT !.classes = Append(@, c)]
    /\ UNCHANGED <<hm, be, stack>>

\* LoadCursorA: a backend cursor and a cursor handle; both or none.
LoadCursorA(table) ==
    LET rb == wine_handle_alloc(table)
        t1 == [table EXCEPT ![rb] = [type |-> "RB_CURSOR"]]
        cur == wine_handle_alloc(t1)
    IN  IF rb = 0 \/ cur = 0 THEN table
        ELSE [t1 EXCEPT ![cur] = [type |-> "HCURSOR", cursor |-> rb]]

user32_cleanup_failed_create(table, b, u, win, hwnd) ==
    LET gone == rb_window_destroy(table, b, win)
    IN  [hm |-> wine_handle_free(gone.hm, hwnd), be |-> gone.be,
         ui |-> [u EXCEPT !.live = @ - 1, !.rejected = @ \/ u.focus = hwnd],
         hwnd |-> 0, frames |-> <<>>]

\* CreateWindowExA up to the first window procedure call.  fail chooses which
\* host call fails, if any: SDL_Init, the heap, or SDL_CreateWindow.  The
\* result's frames are the calls left in progress; u is ui, with the dialog
\* class registered when a dialog is created.
CreateWindowEx(u, c, fail) ==
    LET u0 == [u EXCEPT !.creates = @ + 1]
        refused(t, b, v) == [hm |-> t, be |-> b, ui |-> v, hwnd |-> 0, frames |-> <<>>]
        u1 == [u0 EXCEPT !.backend =
                 IF @ = "untried" THEN IF fail = "init" THEN "down" ELSE "up" ELSE @]
        table == IF c = "dialog" THEN LoadCursorA(hm) ELSE hm
        win == rb_window_create(table, be)
        hwnd == wine_handle_alloc(win.hm)
        entry == [type |-> "HWIN", win |-> win.win, guest |-> (c = "app"),
                  destroying |-> FALSE, born |-> u0.creates]
        owned == [win.hm EXCEPT ![hwnd] = entry]
        u2 == [u1 EXCEPT !.live = @ + 1]
        tie == rb_window_attach_guest_hwnd(owned, win.be, win.win, hwnd)
        first == Callbacks(tie.hm, hwnd, <<"NCCREATE", "CREATE">>)
        f == user32_set_foreground_focus(tie.hm, tie.be, u2, hwnd)
    IN  CASE u1.backend = "down" -> refused(hm, be, u1)
          [] u1.backend = "up" /\ (~Contains(u1.classes, c) \/ fail = "heap") -> refused(hm, be, u1)
          [] u1.backend = "up" /\ Contains(u1.classes, c) /\ fail = "host" -> refused(table, be, u1)
          [] OTHER ->
               IF win.win = 0 THEN refused(win.hm, win.be, [u1 EXCEPT !.full = TRUE])
               ELSE IF hwnd = 0
               THEN LET gone == rb_window_destroy(win.hm, win.be, win.win)
                    IN  refused(gone.hm, gone.be, [u1 EXCEPT !.full = TRUE])
               ELSE IF ~tie.ok
               THEN user32_cleanup_failed_create(tie.hm, tie.be, u2, win.win, hwnd)
               ELSE IF first # <<>>
               THEN [hm |-> tie.hm, be |-> tie.be, ui |-> u2, hwnd |-> hwnd,
                     frames |-> <<Frame("create", hwnd, first)>>]
               ELSE [hm |-> tie.hm, be |-> f.be, ui |-> f.ui, hwnd |-> hwnd, frames |-> f.frames]

CreateWindowExA(c, fail) ==
    /\ CanCall /\ ui.creates < MaxCreates /\ be.nextSdl <= MaxSdl
    /\ LET r == CreateWindowEx(ui, c, fail)
       IN  hm' = r.hm /\ be' = r.be /\ ui' = r.ui /\ stack' = r.frames \o stack

-----------------------------------------------------------------------------
(* Destruction.                                                            *)

\* The part of user32_finish_window_destroy that follows the callbacks.
FinishDestroy(table, b, u, hwnd) ==
    LET gone == rb_window_destroy(table, b, table[hwnd].win)
        table1 == wine_handle_free(gone.hm, hwnd)
        owner == user32_update_window_ownership_after_destroy(
                    table1, gone.be, [u EXCEPT !.live = @ - 1], hwnd)
    IN  [hm |-> table1, be |-> owner.be, ui |-> owner.ui]

\* A frame goes on using the entry of a window it is creating, and of the
\* windows it still has focus messages for.
Pinned(h) ==
    \E i \in DOMAIN stack :
        \/ stack[i].op = "create" /\ stack[i].hwnd = h
        \/ stack[i].op = "focus" /\ \E k \in 2..Len(stack[i].todo) : stack[i].todo[k].hwnd = h

\* Mutant: WM_NCDESTROY is not sent
DestroyNoNc(h) ==
    IF ~IsWindow(hm, h) \/ hm[h].destroying
    THEN [hm |-> hm, be |-> be, ui |-> ui, frames |-> <<>>]
    ELSE IF hm[h].guest
    THEN [hm |-> [hm EXCEPT ![h].destroying = TRUE], be |-> be, ui |-> ui,
          frames |-> <<Frame("destroy", h, Callbacks(hm, h, <<"DESTROY">>))>>]
    ELSE FinishDestroy(hm, be, ui, h) @@ [frames |-> <<>>]

\* Nothing happens to a handle that is no window, or that is being destroyed:
\* DestroyWindow called again from WM_DESTROY returns at once.
user32_finish_window_destroy(h) ==
    IF ~IsWindow(hm, h) \/ hm[h].destroying
    THEN [hm |-> hm, be |-> be, ui |-> ui, frames |-> <<>>]
    ELSE IF hm[h].guest
    THEN [hm |-> [hm EXCEPT ![h].destroying = TRUE], be |-> be, ui |-> ui,
          frames |-> <<Frame("destroy", h, Callbacks(hm, h, <<"DESTROY", "NCDESTROY">>))>>]
    ELSE FinishDestroy(hm, be, ui, h) @@ [frames |-> <<>>]

\* The state after the call of r, with the calls below it still to go on.
Does(r, below) == hm' = r.hm /\ be' = r.be /\ ui' = r.ui /\ stack' = r.frames \o below

DestroyWindow(h) ==
    /\ CanCall /\ IsWindow(hm, h) /\ ~Pinned(h)
    /\ Does(user32_finish_window_destroy(h), stack)

-----------------------------------------------------------------------------
(* The window procedure of the innermost call returns.                     *)

\* answer FALSE: 0 to WM_NCCREATE, -1 to WM_CREATE.
CreateReturns(answer) ==
    LET f == Head(stack)
    IN  /\ f.op = "create"
        /\ IF ~answer
           THEN LET r == user32_cleanup_failed_create(hm, be, ui, hm[f.hwnd].win, f.hwnd)
                IN  hm' = r.hm /\ be' = r.be /\ ui' = r.ui /\ stack' = Tail(stack)
           ELSE IF Len(f.todo) > 1
           THEN /\ stack' = <<[f EXCEPT !.todo = Tail(@)]>> \o Tail(stack)
                /\ UNCHANGED <<hm, be, ui>>
           ELSE LET r == user32_set_foreground_focus(hm, be, ui, f.hwnd)
                IN  /\ be' = r.be /\ ui' = r.ui /\ stack' = r.frames \o Tail(stack)
                    /\ UNCHANGED hm

DestroyReturns ==
    LET f == Head(stack)
    IN  /\ f.op = "destroy"
        /\ IF Len(f.todo) > 1
           THEN /\ stack' = <<[f EXCEPT !.todo = Tail(@)]>> \o Tail(stack)
                /\ UNCHANGED <<hm, be, ui>>
           ELSE LET r == FinishDestroy(hm, be, ui, f.hwnd)
                IN  hm' = r.hm /\ be' = r.be /\ ui' = r.ui /\ stack' = Tail(stack)

FocusReturns ==
    LET f == Head(stack)
    IN  /\ f.op = "focus"
        /\ stack' = Push([f EXCEPT !.todo = Tail(@)]) \o Tail(stack)
        /\ UNCHANGED <<hm, be, ui>>

CallbackReturns ==
    /\ stack # <<>> /\ Head(stack).todo # <<>>
    /\ \/ \E answer \in BOOLEAN : CreateReturns(answer)
       \/ DestroyReturns
       \/ FocusReturns

WindowCalls ==
    \/ \E c \in Classes : RegisterClassA(c)
    \/ \E c \in Classes, fail \in {"none", "init", "heap", "host"} : CreateWindowExA(c, fail)
    \/ \E h \in Handles : \/ DestroyWindow(h)
                          \/ SetFocus(h)
                          \/ SetForegroundWindow(h)
                          \/ ShowWindow(h)
                          \/ \E fail \in {"none", "host", "ids"} : SetFullscreen(h, fail)

-----------------------------------------------------------------------------
(* Properties.                                                             *)

\* The shape of the state.
WindowsTypeOK ==
    /\ \A h \in Handles : hm[h].type \in {"FREE", "HWIN", "RB_WINDOW", "HCURSOR", "RB_CURSOR", "OTHER"}
    /\ {ui.focus, ui.active, be.active} \subseteq Handles \cup {0}
    /\ ui.live \in Nat /\ ui.creates \in 0..MaxCreates
    /\ be.grown \in 0..RouteDoublings /\ Len(be.watched) <= WatchCapacity

\* Every HWND has exactly one route and one backend window, the three agree on
\* each other and on the SDL window, and no backend window is left without an
\* HWND: after every creation, refusal, mode change and destruction
\* (user32_finish_window_create, rb_window_attach_guest_hwnd,
\* rb_window_rebind_guest, user32_finish_window_destroy).  Excepted is a window whose
\* new SDL id could not be read: its route names the SDL window that is gone.
RoutesMatchWindows ==
    /\ \A h \in LiveWindows(hm) :
          LET win == hm[h].win
              slots == {i \in DOMAIN be.routes : be.routes[i].hwnd = h}
          IN  /\ HasType(hm, win, "RB_WINDOW") /\ hm[win].guest = h /\ hm[win].sdl \in be.sdl
              /\ Cardinality(slots) = 1
              /\ \A i \in slots : be.routes[i].win = win /\ (be.routes[i].sdl = hm[win].sdl <=> hm[win].known)
    /\ \A i \in DOMAIN be.routes : be.routes[i].hwnd # 0 => IsWindow(hm, be.routes[i].hwnd)
    /\ \A w \in Handles : HasType(hm, w, "RB_WINDOW") => IsWindow(hm, hm[w].guest)

\* g_user32_live_windows, which decides whether the process may end when the
\* guest's entry point returns, counts the windows on every path.
LiveCountExact == ui.live = Cardinality(LiveWindows(hm))

\* An SDL window that no backend window owns, and that nothing will close, is
\* left behind only when the handle table was full (rb_window_create).
OrphanOnlyWhenFull ==
    be.sdl # {hm[w].sdl : w \in {x \in Handles : HasType(hm, x, "RB_WINDOW")}} => ui.full

\* The focus and the active window are one window, and it is alive: the only way
\* to a stale one is a window procedure that refuses the window it focused
\* (user32_cleanup_failed_create does not update the owners).
FocusAlive ==
    /\ ui.focus = ui.active
    /\ ui.focus # 0 /\ ~IsWindow(hm, ui.focus) => ui.rejected

\* The window the backend sends keys to is routed, so alive
\* (rb_event_unbind_window clears it).
BackendActiveRouted == be.active # 0 => RouteOf(be, be.active) # 0

\* A window is being destroyed by at most one call, and is marked as such
\* (destroy_in_progress), however the guest's WM_DESTROY handler re-enters.
DestroyedOnce ==
    \A i \in DOMAIN stack : stack[i].op = "destroy" =>
        /\ IsWindow(hm, stack[i].hwnd) /\ hm[stack[i].hwnd].destroying
        /\ \A j \in DOMAIN stack : stack[j].op = "destroy" /\ stack[j].hwnd = stack[i].hwnd => i = j

\* A window with a guest window procedure disappears only once that procedure
\* has answered WM_NCDESTROY, or has refused the creation.
DiesAfterNcDestroy ==
    [][\A h \in LiveWindows(hm) \ LiveWindows(hm') :
          hm[h].guest /\ Head(stack).op # "create" =>
              Head(stack).hwnd = h /\ [m \in DOMAIN Head(stack).todo |-> Head(stack).todo[m].msg]
                                      = <<"NCDESTROY">>]_wvars

==============================================================================
