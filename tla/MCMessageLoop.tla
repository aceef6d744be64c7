---------------------------- MODULE MCMessageLoop ----------------------------
(***************************************************************************)
(* The message loop under three loads: whatever the host and the guest do  *)
(* ("events"); windows, filtered fetches and a signal ("shutdown"); posted *)
(* messages, more than the ring holds, and filtered fetches ("posts").     *)
(***************************************************************************)
EXTENDS MessageLoop

CONSTANTS
    EventCalls,      \* bound on calls and events of the first load
    ShutdownCalls,   \* bound on calls of the second
    PostCalls        \* bound on calls of the third; MaxEvents bounds its posts

VARIABLE load

MCInit == load \in {"events", "shutdown", "posts"} /\ Init

MakeWindow(c) ==
    /\ guest.calls < MaxCalls /\ ~guest.ended /\ guest.msg = NoMsg
    /\ CreateWindowExA(c, "none")
    /\ guest' = [guest EXCEPT !.calls = @ + 1] /\ UNCHANGED <<mq, hist>>

Post == \E h \in Handles \cup {0} : PostMessageA(h)

Events ==
    /\ \/ GuestCall \/ OtherFetch({AnyMessage})
       \/ HostEvents({"KEY", "ALTF4", "MOUSE", "CLOSE", "GAINED", "LOST"}) \/ HostErrors
       \/ PostQuitMessage \/ SetWindowsHookExA \/ UnhookWindowsHookEx
    /\ guest'.calls <= EventCalls /\ guest'.serial <= EventCalls
Shutdown ==
    /\ \/ \E c \in Classes : MakeWindow(c)
       \/ OtherFetch(Ranges) \/ HostEvents({"F4UP", "OTHER"}) \/ rb_runtime_note_shutdown_request
    /\ guest'.calls <= ShutdownCalls /\ guest'.serial <= 1
Posting ==
    /\ \/ MakeWindow("app")
       \/ ui.creates = MaxCreates /\ (OtherFetch(Ranges) \/ Post)
    /\ guest'.calls <= PostCalls

MCNext ==
    /\ \/ Loop
       \/ load = "events" /\ Events
       \/ load = "shutdown" /\ Shutdown
       \/ load = "posts" /\ Posting
    /\ UNCHANGED load
MCSpec == MCInit /\ [][MCNext]_<<load, vars>> /\ LoopFair
==============================================================================
