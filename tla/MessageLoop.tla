----------------------------- MODULE MessageLoop -----------------------------
(***************************************************************************)
(* The message loop of a guest program: user32's posted and translated     *)
(* queues (src/msvcrt/user32_message*.c) in front of the backend's event   *)
(* queue, dispatch to window procedures, the keyboard hook, and the host   *)
(* that produces SDL events, signals and X11 errors meanwhile.             *)
(*                                                                         *)
(* The guest is the loop of the samples (samples/sdl2_two_window_close_    *)
(* chain): it fetches, dispatches, answers WM_CLOSE with DestroyWindow and *)
(* may post WM_QUIT when a window is destroyed.  Between the steps of that *)
(* loop, and inside its window procedures, it makes any other call.        *)
(***************************************************************************)
EXTENDS Windows

CONSTANTS
    PostedCapacity,       \* USER32_POSTED_QUEUE_CAPACITY
    TranslatedCapacity,   \* USER32_TRANSLATED_QUEUE_CAPACITY
    MaxCalls,        \* bound on the guest's calls outside its loop
    MaxEvents,       \* bound on SDL events and on posted messages, together
    MaxSignals       \* bound on SIGINT / SIGTERM and on X11 BadWindow errors

VARIABLES
    mq,       \* user32's queues, quit flag and keyboard hook
    guest,    \* what the guest program knows: the message in hand, loop ended
    hist      \* history: posts accepted, messages taken, losses

mvars == <<mq, guest, hist>>
vars == <<wvars, mvars>>

\* The messages user32_is_keyboard_message knows, and the ranges of messages that
\* guests ask for: all of them, or WM_KEYFIRST to WM_KEYLAST.
KeyboardMessages == {"KEY", "ALTF4"}
AnyMessage == KeyboardMessages \cup {"POST", "MOUSE", "CLOSE", "ACTIVATE", "SETFOCUS", "KILLFOCUS", "QUIT"}
Ranges == {AnyMessage, KeyboardMessages}

\* hist.posts: for every message PostMessageA accepted, its window and that
\* window's birth; taken: the identified messages removed from the queues, in
\* order, with whether a hook was installed and their window lived then; seen:
\* those the keyboard hook was called with; lost: the kinds of the backend's
\* messages that found the translated queue full; quit: WM_QUIT was posted or SDL sent it.
Init ==
    /\ WindowsInit(<<"app", "dialog">>, <<>>, 0)
    /\ mq = [posted |-> <<>>, translated |-> <<>>, quit |-> FALSE, hook |-> FALSE]
    /\ guest = [msg |-> NoMsg, ended |-> FALSE, calls |-> 0, signals |-> 0, serial |-> 0]
    /\ hist = [posts |-> <<>>, taken |-> <<>>, seen |-> {}, lost |-> {}, quit |-> FALSE]

-----------------------------------------------------------------------------
(* Queues.                                                                 *)

\* user32_queue_push fails when the ring is full.
user32_queue_push(q, capacity, m) ==
    IF Len(q) >= capacity THEN [ok |-> FALSE, q |-> q] ELSE [ok |-> TRUE, q |-> Append(q, m)]

\* Mutant: thread messages are taken for dead ones
ThreadMessagesDead(m) == m.msg = "QUIT" \/ IsWindow(hm, m.hwnd)

user32_message_target_alive(m) == m.msg = "QUIT" \/ m.hwnd = 0 \/ IsWindow(hm, m.hwnd)

\* A dead filter window is no filter, and keyboard messages ignore it; the range
\* holds for all messages but WM_QUIT.
user32_message_matches_filter(m, filter, range) ==
    \/ m.msg = "QUIT"
    \/ /\ m.msg \in KeyboardMessages \/ LiveOr0(hm, filter) = 0 \/ m.hwnd = filter
       /\ m.msg \in range

user32_queue_discard_dead_targets(q) == SelectSeq(q, user32_message_target_alive)

\* Mutant: the newest match
FindNewest(q, filter, range) ==
    LET hits == {i \in DOMAIN q : user32_message_matches_filter(q[i], filter, range)}
    IN  IF hits = {} THEN 0 ELSE CHOOSE i \in hits : \A j \in hits : i >= j

\* The first match of a queue; index 0 when there is none.
user32_queue_find_matching(q, filter, range) ==
    LET hits == {i \in DOMAIN q : user32_message_matches_filter(q[i], filter, range)}
    IN  IF hits = {} THEN 0 ELSE CHOOSE i \in hits : \A j \in hits : i <= j

user32_queue_take_matching(q, filter, range, remove) ==
    LET kept == user32_queue_discard_dead_targets(q)
        i == user32_queue_find_matching(kept, filter, range)
    IN  [msg |-> IF i = 0 THEN NoMsg ELSE kept[i],
         q |-> IF i = 0 \/ ~remove THEN kept ELSE RemoveAt(kept, i)]

PostMessageA(hwnd) ==
    /\ CanCall /\ guest.serial < MaxEvents
    /\ hwnd = 0 \/ IsWindow(hm, hwnd)
    /\ LET id == guest.serial + 1
           r == user32_queue_push(mq.posted, PostedCapacity, Message(hwnd, "POST", id))
           born == IF hwnd = 0 THEN 0 ELSE hm[hwnd].born
       IN  /\ mq' = [mq EXCEPT !.posted = r.q]
           /\ guest' = [guest EXCEPT !.serial = id]
           /\ hist' = IF r.ok THEN [hist EXCEPT !.posts = Append(@, [id |-> id, hwnd |-> hwnd, born |-> born])]
                      ELSE hist
    /\ UNCHANGED wvars

\* The guest posts WM_QUIT from its WM_DESTROY handler.
PostQuitMessage ==
    /\ CanCall /\ stack # <<>> /\ Head(Head(stack).todo).msg = "DESTROY" /\ ~mq.quit
    /\ mq' = [mq EXCEPT !.quit = TRUE] /\ hist' = [hist EXCEPT !.quit = TRUE]
    /\ UNCHANGED <<wvars, guest>>

SetWindowsHookExA ==
    /\ CanCall /\ guest.calls < MaxCalls /\ ~mq.hook
    /\ mq' = [mq EXCEPT !.hook = TRUE] /\ guest' = [guest EXCEPT !.calls = @ + 1]
    /\ UNCHANGED <<wvars, hist>>

UnhookWindowsHookEx ==
    /\ CanCall /\ mq.hook
    /\ mq' = [mq EXCEPT !.hook = FALSE] /\ UNCHANGED <<wvars, guest, hist>>

-----------------------------------------------------------------------------
(* GetMessageA and PeekMessageA.                                           *)

\* The guest, g, receives m: the hook is called with keyboard messages, and
\* GetMessageA answers 0 to WM_QUIT, which ends the guest's loop.
Deliver(g, m, op) ==
    LET remove == op # "peek"
        taken == [hwnd |-> m.hwnd, msg |-> m.msg, id |-> m.id, hooked |-> mq.hook,
                  alive |-> m.hwnd = 0 \/ IsWindow(hm, m.hwnd)]
    IN
    /\ guest' = [g EXCEPT !.msg = IF m.msg = "QUIT" THEN NoMsg ELSE m,
                          !.ended = @ \/ (m.msg = "QUIT" /\ remove)]
    /\ hist' = [hist EXCEPT
                  !.taken = IF remove /\ m.id # 0 THEN Append(@, taken) ELSE @,
                  !.seen = IF mq.hook /\ m.msg \in KeyboardMessages THEN @ \cup {m.id} ELSE @,
                  !.quit = @ \/ m.msg = "QUIT"]

\* GetMessageA returns 0, the message m being lost.
GiveUp(m, op) ==
    /\ guest' = [guest EXCEPT !.ended = @ \/ op = "get"]
    /\ hist' = [hist EXCEPT !.lost = @ \cup {m.msg}]

\* What a fetch does before it asks the backend: a pending quit, the posted
\* queue, the translated queue.  A fetch that finds nothing becomes a frame.
\* Guests fetch from their main loop or from a dispatched message, not from the
\* middle of a creation or a focus change.  g: the guest, the call being counted.
Fetch(g, op, filter, range) ==
    LET remove == op # "peek"
        posted == user32_queue_take_matching(mq.posted, filter, range, remove)
        translated == user32_queue_take_matching(mq.translated, filter, range, remove)
    IN  /\ CanCall /\ guest.msg = NoMsg /\ ~guest.ended /\ \A h \in Handles : ~Pinned(h)
        /\ IF mq.quit
           THEN /\ mq' = [mq EXCEPT !.quit = ~remove]
                /\ Deliver(g, Message(0, "QUIT", 0), op) /\ UNCHANGED stack
           ELSE IF posted.msg # NoMsg
           THEN /\ mq' = [mq EXCEPT !.posted = posted.q]
                /\ Deliver(g, posted.msg, op) /\ UNCHANGED stack
           ELSE IF translated.msg # NoMsg
           THEN /\ mq' = [mq EXCEPT !.posted = posted.q, !.translated = translated.q]
                /\ Deliver(g, translated.msg, op) /\ UNCHANGED stack
           ELSE /\ mq' = [mq EXCEPT !.posted = posted.q, !.translated = translated.q]
                /\ stack' = <<[op |-> op, hwnd |-> filter, range |-> range, todo |-> <<>>]>> \o stack
                /\ guest' = g /\ UNCHANGED hist
        /\ UNCHANGED <<hm, be, ui>>

\* The GetMessageA of the guest's main loop asks for every message; the others are
\* made from anywhere, with a filter or without.
GetMessage == stack = <<>> /\ Fetch(guest, "get", 0, AnyMessage)
GetMessageA(filter, range) ==
    /\ guest.calls < MaxCalls
    /\ Fetch([guest EXCEPT !.calls = @ + 1], "get", filter, range)
PeekMessageA(op, filter, range) ==
    /\ guest.calls < MaxCalls /\ op \in {"peek", "take"}
    /\ Fetch([guest EXCEPT !.calls = @ + 1], op, filter, range)

MainLoopWaits == Len(stack) = 1 /\ Head(stack).hwnd = 0 /\ Head(stack).range = AnyMessage

BackendBusy ==
    be.syn # <<>> \/ be.request \/ be.shut # <<>> \/ be.bad # 0 \/ be.events # <<>>

\* One turn of the loop in user32_fetch_queued_message, with one pass of
\* rb_event_wait or rb_event_peek.  rb_event_wait blocks while the backend has
\* nothing; rb_event_peek then reports that there is no message.  ok: a shutdown
\* request finds memory for its list of windows.
FetchTurn(ok) ==
    LET f == Head(stack)
        r == rb_event_pass(hm, be, ok)
        m == r.msg
        matches == user32_message_matches_filter(m, f.hwnd, f.range)
        keep == user32_queue_push(mq.translated, TranslatedCapacity, m)
    IN  /\ stack # <<>> /\ f.op \in {"get", "peek", "take"}
        /\ f.op = "get" => BackendBusy
        /\ ~ok => ShutdownMayFail(be)
        /\ be' = r.be
        /\ IF m = NoMsg
           THEN /\ stack' = IF f.op = "get" THEN stack ELSE Tail(stack)
                /\ UNCHANGED <<mq, guest, hist>>
           ELSE IF ~user32_message_target_alive(m)
           THEN UNCHANGED <<stack, mq, guest, hist>>
           ELSE IF matches /\ f.op # "peek"
           THEN stack' = Tail(stack) /\ Deliver(guest, m, f.op) /\ UNCHANGED mq
           ELSE IF ~keep.ok
           THEN stack' = Tail(stack) /\ GiveUp(m, f.op) /\ UNCHANGED mq
           ELSE /\ mq' = [mq EXCEPT !.translated = keep.q]
                /\ IF matches THEN stack' = Tail(stack) /\ Deliver(guest, m, f.op)
                   ELSE UNCHANGED <<stack, guest, hist>>
        /\ UNCHANGED <<hm, ui>>

-----------------------------------------------------------------------------
(* Dispatch.                                                               *)

\* The guest dispatches a message before it does anything else.
\* DispatchMessageA: WM_SETCURSOR goes first for mouse messages; a window
\* without a guest procedure is handled by DefWindowProcA, which destroys it
\* on WM_CLOSE and, by way of SC_CLOSE, on Alt+F4.
DispatchMessageA ==
    LET m == guest.msg
        msgs == IF m.msg = "MOUSE" THEN <<"SETCURSOR", "MOUSE">> ELSE <<m.msg>>
    IN  /\ m # NoMsg /\ (stack # <<>> => Head(stack).todo # <<>>)
        /\ guest' = [guest EXCEPT !.msg = NoMsg]
        /\ IF IsWindow(hm, m.hwnd) /\ ~hm[m.hwnd].guest /\ m.msg \in {"CLOSE", "ALTF4"} /\ ~Pinned(m.hwnd)
           THEN Does(user32_finish_window_destroy(m.hwnd), stack)
           ELSE /\ stack' = Push(Frame("dispatch", m.hwnd, Callbacks(hm, m.hwnd, msgs))) \o stack
                /\ UNCHANGED <<hm, be, ui>>
        /\ UNCHANGED <<mq, hist>>

\* The message the guest is handling is one of msgs, and its window can be destroyed.
Handling(msgs) ==
    /\ stack # <<>> /\ Head(stack).op = "dispatch" /\ Head(Head(stack).todo).msg \in msgs
    /\ IsWindow(hm, Head(stack).hwnd) /\ ~hm[Head(stack).hwnd].destroying /\ ~Pinned(Head(stack).hwnd)

\* The WM_CLOSE the guest is handling still has to destroy its window.
Closing == Handling({"CLOSE"})

\* The guest passes WM_CLOSE, or the key message of Alt+F4, to DefWindowProcA.
DefWindowProcA ==
    /\ Handling({"CLOSE", "ALTF4"})
    /\ Does(user32_finish_window_destroy(Head(stack).hwnd), stack) /\ UNCHANGED mvars

\* After WM_SETCURSOR the window is looked up again.
DispatchReturns ==
    LET f == Head(stack)
    IN  /\ stack # <<>> /\ f.op = "dispatch" /\ ~Closing /\ guest.msg = NoMsg
        /\ stack' = (IF IsWindow(hm, f.hwnd) THEN Push([f EXCEPT !.todo = Tail(@)]) ELSE <<>>)
                    \o Tail(stack)
        /\ UNCHANGED <<hm, be, ui, mvars>>

-----------------------------------------------------------------------------
(* The host.                                                               *)

\* SDL queues an event for one of its windows; the key watch runs first.
HostEvent(type, sdl) ==
    LET e == [type |-> type, sdl |-> sdl, id |-> guest.serial + 1]
        watched == IF type \in Keys THEN rb_event_watch(be, e) ELSE be
    IN  /\ guest.serial < MaxEvents
        /\ be' = [watched EXCEPT !.events = Append(@, e)]
        /\ guest' = [guest EXCEPT !.serial = @ + 1]
        /\ UNCHANGED <<hm, ui, stack, mq, hist>>

\* SIGINT or SIGTERM: the handler only leaves a request.
rb_runtime_note_shutdown_request ==
    /\ ui.backend = "up" /\ guest.signals < MaxSignals
    /\ be' = [be EXCEPT !.request = TRUE]
    /\ guest' = [guest EXCEPT !.signals = @ + 1]
    /\ UNCHANGED <<hm, ui, stack, mq, hist>>

\* The X11 error handler notes the window of a BadWindow error.
rb_runtime_note_bad_window(sdl) ==
    /\ guest.signals < MaxSignals
    /\ be' = [be EXCEPT !.bad = sdl]
    /\ guest' = [guest EXCEPT !.signals = @ + 1]
    /\ UNCHANGED <<hm, ui, stack, mq, hist>>

-----------------------------------------------------------------------------

GuestCall ==
    /\ guest.calls < MaxCalls /\ ~guest.ended /\ guest.msg = NoMsg
    /\ WindowCalls
    /\ guest' = [guest EXCEPT !.calls = @ + 1] /\ UNCHANGED <<mq, hist>>

Callback == guest.msg = NoMsg /\ CallbackReturns /\ UNCHANGED mvars

HostEvents(types) == \E sdl \in be.sdl, t \in types : HostEvent(t, sdl)
HostErrors ==
    \/ ui.backend = "up" /\ HostEvent("QUIT", 0)
    \/ \E sdl \in be.sdl : rb_runtime_note_bad_window(sdl)

Loop ==
    \/ GetMessage \/ \E ok \in BOOLEAN : FetchTurn(ok)
    \/ DispatchMessageA \/ DefWindowProcA \/ DispatchReturns \/ Callback

OtherFetch(ranges) ==
    \E h \in Handles \cup {0}, range \in ranges :
        GetMessageA(h, range) \/ \E op \in {"peek", "take"} : PeekMessageA(op, h, range)

Next ==
    \/ Loop
    \/ GuestCall
    \/ \E h \in Handles \cup {0} : PostMessageA(h)
    \/ PostQuitMessage \/ SetWindowsHookExA \/ UnhookWindowsHookEx
    \/ OtherFetch(Ranges)
    \/ HostEvents(Keys \cup {"MOUSE", "CLOSE", "GAINED", "LOST", "OTHER"}) \/ HostErrors \/ rb_runtime_note_shutdown_request

Spec == Init /\ [][Next]_vars

\* The guest's loop has a step to take: it is ENABLED Loop, written out.
LoopReady ==
    IF stack = <<>> THEN ~guest.ended \/ guest.msg # NoMsg
    ELSE Head(stack).op = "get" => BackendBusy

\* Weak fairness of Loop: the guest keeps running its loop and returns from its
\* window procedures.
LoopFair == []<>~LoopReady \/ []<><<Loop>>_vars
FairSpec == Spec /\ LoopFair

-----------------------------------------------------------------------------
(* Properties.                                                             *)

Ids(q) == {q[i].id : i \in DOMAIN q}

\* The shape of the state.
TypeOK ==
    /\ WindowsTypeOK
    /\ Len(mq.posted) <= PostedCapacity /\ Len(mq.translated) <= TranslatedCapacity
    /\ {mq.quit, mq.hook, guest.ended} \subseteq BOOLEAN
    /\ guest.serial \in 0..MaxEvents /\ guest.calls \in 0..MaxCalls

\* A message PostMessageA accepted is in the posted queue or was taken by the
\* guest, as long as the window it was posted to lives: discarding the messages
\* of dead windows (user32_queue_discard_dead_targets) and removing from the
\* middle of the ring (user32_queue_take_at) lose nothing else.
PostsKept ==
    \A i \in DOMAIN hist.posts :
        LET p == hist.posts[i]
        IN  (p.hwnd = 0 \/ (IsWindow(hm, p.hwnd) /\ hm[p.hwnd].born = p.born))
                => p.id \in Ids(mq.posted) \cup Ids(hist.taken)

\* Messages of one kind for one window are taken in the order they were produced,
\* whatever filters and peeks the guest used before: the translated queue is
\* asked before the backend, and keys overtake nothing of their own kind, unless
\* one of them was not noted when SDL queued it (rb_event_watch).
TakenInOrder ==
    \A i, j \in DOMAIN hist.taken :
        i < j /\ hist.taken[i].hwnd = hist.taken[j].hwnd /\ hist.taken[i].msg = hist.taken[j].msg
            => hist.taken[i].id <= hist.taken[j].id \/ be.forgot \/ be.missed

\* A key press reaches the guest once, although the event watch queues it and
\* SDL's queue holds it as well; twice only when the watch queue overflowed.
KeysTakenOnce ==
    (\E i, j \in DOMAIN hist.taken : i # j /\ hist.taken[i].id = hist.taken[j].id) => be.forgot

\* The guest's loop ends only on a WM_QUIT, except when a full translated queue
\* made GetMessageA return 0 (user32_fetch_queued_message).
EndsOnQuit == guest.ended => hist.quit \/ hist.lost # {}

\* A key that was taken while a hook was installed has been shown to it
\* (user32_call_keyboard_hook), whichever call took it from whichever queue.
HookSeesKeys ==
    \A i \in DOMAIN hist.taken :
        hist.taken[i].msg \in KeyboardMessages /\ hist.taken[i].hooked => hist.taken[i].id \in hist.seen

\* A message is handed to the guest for no window or for a window that is alive
\* at that moment.
DeliveredAlive == \A i \in DOMAIN hist.taken : hist.taken[i].alive

\* What GetMessageA and PeekMessageA hand to the guest, from the posted, the
\* translated and the backend's queue: each message once and in its order, keys
\* by way of the hook, for living windows, and the end of the loop on WM_QUIT.
MessagesTaken ==
    TypeOK /\ TakenInOrder /\ KeysTakenOnce /\ HookSeesKeys /\ DeliveredAlive /\ EndsOnQuit

\* SIGINT or SIGTERM closes the windows: a window that exists while the request
\* is pending is destroyed, or the guest's loop ends, with whatever filters the
\* guest asks for messages in between (rb_event_begin_shutdown,
\* rb_event_translate_shutdown, user32_fetch_queued_message).  Excepted are the
\* behaviours in which a WM_CLOSE found the translated queue full or there was no
\* memory for the shutdown list, both of which lose it, and those in which the guest
\* waits for ever in a GetMessageA other than its loop's: for other messages, or
\* from inside the handler of the WM_CLOSE.
ShutdownCloses ==
    \A h \in Handles :
        \/ (be.request /\ IsWindow(hm, h)) ~>
               (~IsWindow(hm, h) \/ guest.ended \/ "CLOSE" \in hist.lost \/ be.unlisted)
        \/ <>[](stack # <<>> /\ Head(stack).op = "get" /\ ~MainLoopWaits)
==============================================================================
