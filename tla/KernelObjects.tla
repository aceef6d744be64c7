--------------------------- MODULE KernelObjects ---------------------------
(***************************************************************************)
(* The event, mutex and semaphore tables of g_ko and the handlers on them: *)
(* src/msvcrt/ntdll_objects.c, ntdll_synchronization.c, NtClose of         *)
(* ntdll_handle.c and the wrappers of kernel32_sync.c.                     *)
(*                                                                         *)
(* g_ko declares a spinlock that no handler takes, so every access to the  *)
(* tables is a step of its own.  The handle table is used through calls    *)
(* that are atomic (HandleManager implements HandleStore).  Slots of g_ko  *)
(* are never given back: closing a handle leaves its entry behind.         *)
(***************************************************************************)
EXTENDS HandleTable, Integers, FiniteSets

CONSTANTS Callers,          \* guest threads
          MAX_EVENTS, MAX_MUTEXES, MAX_SEMAPHORES,   \* 64 each in the source
          Kinds,            \* the kinds of object the guest creates
          GuestHandles      \* the handle values the guest passes, good or bad

ASSUME ObjectsAssumption ==
    /\ Kinds \subseteq {"event", "mutex", "semaphore"}
    /\ GuestHandles \subseteq Handle
    /\ \A m \in {MAX_EVENTS, MAX_MUTEXES, MAX_SEMAPHORES} : m \in Nat /\ m > 0

AllKinds == {"event", "mutex", "semaphore"}
Limit == [event |-> MAX_EVENTS, mutex |-> MAX_MUTEXES, semaphore |-> MAX_SEMAPHORES]
TypeTag == [event |-> HANDLE_TYPE_EVENT, mutex |-> HANDLE_TYPE_MUTEX,
            semaphore |-> HANDLE_TYPE_SEMAPHORE]

\* Past the end of a table there is room for one stray write per thread
Slots(k) == 0 .. Limit[k] + Cardinality(Callers) - 1

VARIABLES
    handle_table,  \* the handle table
    count,     \* g_ko.event_count, mutex_count, semaphore_count
    owner,     \* the `handle' field of each entry of each table
    events,    \* signaled and event_type of each event entry
    locked,    \* locked of each mutex entry
    sems,      \* count and max_count of each semaphore entry
    kpc, call, slot, handle, status,    \* the handler each thread is in
    made,      \* history: for a handle, the slot it was made with
    successes, \* history: how many creations succeeded, per kind
    recycled   \* history: event handles that had belonged to an earlier event

ko_tables == <<count, owner, events, locked, sems>>
frame == <<kpc, call, slot, handle, status>>
history == <<made, successes, recycled>>
koVars == <<handle_table, ko_tables, frame, history>>

NoCall == [op |-> "none"]
Unmade == -1

CreateCalls ==
    [op : {"CreateEventA"}, kind : {"event"}, manual : BOOLEAN, initial : {0, 1}]
        \cup [op : {"NtCreateMutex"}, kind : {"mutex"}]
        \cup [op : {"NtCreateSemaphore"}, kind : {"semaphore"}, initial : 0 .. 2, maximum : 0 .. 1]
HandleCalls ==
    [op : {"NtSetEvent", "NtResetEvent", "NtReleaseMutex", "NtClose"}, handle : GuestHandles]
        \cup [op : {"NtWaitForSingleObject"}, handle : GuestHandles, timeout : {"infinite", "timed", "poll"}]

\* The creations of the kinds in use, and any handle-taking call
Calls == {c \in CreateCalls : c.kind \in Kinds} \cup HandleCalls

KoInit ==
    /\ handle_table = InitialTable
    /\ count = [k \in AllKinds |-> 0]
    /\ owner = [k \in AllKinds |-> [i \in Slots(k) |-> 0]]
    /\ events = [i \in Slots("event") |-> [signaled |-> 0, event_type |-> 0]]
    /\ locked = [i \in Slots("mutex") |-> 0]
    /\ sems = [i \in Slots("semaphore") |-> [count |-> 0, max_count |-> 0]]
    /\ kpc = [t \in Callers |-> "idle"]
    /\ call = [t \in Callers |-> NoCall]
    /\ slot = [t \in Callers |-> -1]
    /\ handle = [t \in Callers |-> 0]
    /\ status = [t \in Callers |-> "none"]
    /\ made = [h \in Handle |-> Unmade]
    /\ successes = [k \in AllKinds |-> 0]
    /\ recycled = {}

KoGoto(t, label) == kpc' = [kpc EXCEPT ![t] = label]
KoFinish(t, result) == KoGoto(t, "done") /\ status' = [status EXCEPT ![t] = result]

\* Mutant: the scan always answers entry 0
FindAny(k, h) == IF \E i \in 0 .. count[k] - 1 : owner[k][i] = h THEN 0 ELSE -1

\* find_event, find_mutex: the first entry that carries the handle, or -1
Find(k, h) ==
    LET hits == {i \in 0 .. count[k] - 1 : owner[k][i] = h} IN
    IF hits = {} THEN -1 ELSE CHOOSE i \in hits : \A j \in hits : i <= j

\* CreateEventA passes bManualReset on as the event_type
EventTypeOf(manual) == IF manual THEN 1 ELSE 0
SYNCHRONIZATION == 1

\* A guest thread makes a call.  The pointer stored with the handle is the
\* address of the table entry; only its being non-NULL is ever used.
Begin(t, c) ==
    /\ kpc[t] = "idle"
    /\ call' = [call EXCEPT ![t] = c]
    /\ KoGoto(t, c.op)
    /\ UNCHANGED <<handle_table, ko_tables, slot, handle, status, history>>

KoReturn(t) ==
    /\ kpc[t] = "done"
    /\ KoGoto(t, "idle")
    /\ call' = [call EXCEPT ![t] = NoCall]
    /\ slot' = [slot EXCEPT ![t] = -1]
    /\ handle' = [handle EXCEPT ![t] = 0]
    /\ status' = [status EXCEPT ![t] = "none"]
    /\ UNCHANGED <<handle_table, ko_tables, history>>

-----------------------------------------------------------------------------
(* NtCreateEvent, NtCreateMutex, NtCreateSemaphore *)

CheckRoom(t) ==
    LET c == call[t] IN
    /\ kpc[t] \in {"CreateEventA", "NtCreateMutex", "NtCreateSemaphore"}
    /\ IF c.op = "NtCreateSemaphore" /\ c.maximum = 0
       THEN KoFinish(t, "INVALID_PARAMETER")
       ELSE IF count[c.kind] >= Limit[c.kind]
       THEN KoFinish(t, "MEMORY_NOT_AVAILABLE")
       ELSE KoGoto(t, "read_count") /\ UNCHANGED status
    /\ UNCHANGED <<handle_table, ko_tables, call, slot, handle, history>>

ReadCount(t) ==
    /\ kpc[t] = "read_count"
    /\ slot' = [slot EXCEPT ![t] = count[call[t].kind]]
    /\ KoGoto(t, "set_count")
    /\ UNCHANGED <<handle_table, ko_tables, call, handle, status, history>>

SetCount(t) ==
    /\ kpc[t] = "set_count"
    /\ count' = [count EXCEPT ![call[t].kind] = slot[t] + 1]
    /\ KoGoto(t, "alloc")
    /\ UNCHANGED <<handle_table, owner, events, locked, sems, call, slot, handle, status, history>>

AllocHandle(t) ==
    LET h == FirstFree(handle_table) IN
    /\ kpc[t] = "alloc"
    /\ handle_table' = AfterAlloc(handle_table, TypeTag[call[t].kind], 1)
    /\ handle' = [handle EXCEPT ![t] = h]
    /\ KoGoto(t, IF h = 0 THEN "rollback" ELSE "publish")
    /\ UNCHANGED <<ko_tables, call, slot, status, history>>

\* Mutant: the entry is not given back
RollbackForgets(t) ==
    /\ kpc[t] = "rollback"
    /\ KoFinish(t, "MEMORY_NOT_AVAILABLE")
    /\ UNCHANGED <<handle_table, ko_tables, call, slot, handle, history>>

Rollback(t) ==
    /\ kpc[t] = "rollback"
    /\ count' = [count EXCEPT ![call[t].kind] = slot[t]]
    /\ KoFinish(t, "MEMORY_NOT_AVAILABLE")
    /\ UNCHANGED <<handle_table, owner, events, locked, sems, call, slot, handle, history>>

\* The stores into the entry.  Nobody can look it up before its handle is in.
Publish(t) ==
    LET c == call[t]
        i == slot[t]
        h == handle[t]
    IN
    /\ kpc[t] = "publish"
    /\ owner' = [owner EXCEPT ![c.kind][i] = h]
    /\ events' = IF c.kind = "event"
                 THEN [events EXCEPT ![i] = [signaled |-> c.initial,
                                             event_type |-> EventTypeOf(c.manual)]]
                 ELSE events
    /\ locked' = IF c.kind = "mutex" THEN [locked EXCEPT ![i] = 0] ELSE locked
    /\ sems' = IF c.kind = "semaphore"
               THEN [sems EXCEPT ![i] = [count |-> IF c.initial > c.maximum
                                                   THEN c.maximum ELSE c.initial,
                                         max_count |-> c.maximum]]
               ELSE sems
    /\ made' = [made EXCEPT ![h] = i]
    /\ successes' = [successes EXCEPT ![c.kind] = @ + 1]
    /\ recycled' = IF c.kind = "event" /\ Find("event", h) # -1
                   THEN recycled \cup {h} ELSE recycled
    /\ KoFinish(t, "SUCCESS")
    /\ UNCHANGED <<handle_table, count, call, slot, handle>>

-----------------------------------------------------------------------------
(* NtSetEvent, NtResetEvent, NtReleaseMutex *)

SetEvent(t) ==
    LET i == Find("event", call[t].handle) IN
    /\ kpc[t] = "NtSetEvent"
    /\ IF i = -1 THEN KoFinish(t, "INVALID_HANDLE") /\ UNCHANGED events
       ELSE events' = [events EXCEPT ![i].signaled = 1] /\ KoFinish(t, "SUCCESS")
    /\ UNCHANGED <<handle_table, count, owner, locked, sems, call, slot, handle, history>>

ResetEvent(t) ==
    LET i == Find("event", call[t].handle) IN
    /\ kpc[t] = "NtResetEvent"
    /\ IF i = -1 THEN KoFinish(t, "INVALID_HANDLE") /\ UNCHANGED events
       ELSE /\ events' = [events EXCEPT ![i].signaled = 0]
            /\ KoFinish(t, "SUCCESS")
    /\ UNCHANGED <<handle_table, count, owner, locked, sems, call, slot, handle, history>>

ReleaseMutex(t) ==
    LET i == Find("mutex", call[t].handle) IN
    /\ kpc[t] = "NtReleaseMutex"
    /\ IF i = -1 THEN KoFinish(t, "INVALID_HANDLE") /\ UNCHANGED locked
       ELSE IF locked[i] = 0 THEN KoFinish(t, "INVALID_HANDLE") /\ UNCHANGED locked
       ELSE locked' = [locked EXCEPT ![i] = 0] /\ KoFinish(t, "SUCCESS")
    /\ UNCHANGED <<handle_table, count, owner, events, sems, call, slot, handle, history>>

-----------------------------------------------------------------------------
(* NtWaitForSingleObject *)

FindWaited(t) ==
    LET i == Find("event", call[t].handle) IN
    /\ kpc[t] = "NtWaitForSingleObject"
    /\ IF i = -1 THEN KoFinish(t, "INVALID_HANDLE") /\ UNCHANGED slot
       ELSE /\ slot' = [slot EXCEPT ![t] = i]
            /\ KoGoto(t, IF call[t].timeout = "poll" THEN "last_look" ELSE "look")
            /\ UNCHANGED status
    /\ UNCHANGED <<handle_table, ko_tables, call, handle, history>>

\* One turn of a loop that finds the event signaled; a turn that does not
\* sleeps and changes nothing
Look(t) ==
    /\ kpc[t] \in {"look", "last_look"}
    /\ events[slot[t]].signaled = 1
    /\ KoGoto(t, "take")
    /\ UNCHANGED <<handle_table, ko_tables, call, slot, handle, status, history>>

\* The delay of a timed wait has elapsed
Expire(t) ==
    /\ kpc[t] = "look"
    /\ call[t].timeout = "timed"
    /\ KoGoto(t, "last_look")
    /\ UNCHANGED <<handle_table, ko_tables, call, slot, handle, status, history>>

GiveUp(t) ==
    /\ kpc[t] = "last_look"
    /\ events[slot[t]].signaled = 0
    /\ KoFinish(t, "TIMEOUT")
    /\ UNCHANGED <<handle_table, ko_tables, call, slot, handle, history>>

Take(t) ==
    LET i == slot[t] IN
    /\ kpc[t] = "take"
    /\ IF events[i].event_type = SYNCHRONIZATION
       THEN events' = [events EXCEPT ![i].signaled = 0]
       ELSE UNCHANGED events
    /\ KoFinish(t, "SUCCESS")
    /\ UNCHANGED <<handle_table, count, owner, locked, sems, call, slot, handle, history>>

-----------------------------------------------------------------------------
(* NtClose: the type and the release are two calls of the handle manager *)

CloseType(t) ==
    LET h == call[t].handle IN
    /\ kpc[t] = "NtClose"
    /\ IF h < FirstDynamic THEN KoFinish(t, "SUCCESS")
       ELSE IF TypeOf(handle_table, h) = NO_TYPE THEN KoFinish(t, "INVALID_HANDLE")
       ELSE KoGoto(t, "release") /\ UNCHANGED status
    /\ UNCHANGED <<handle_table, ko_tables, call, slot, handle, history>>

CloseRelease(t) ==
    /\ kpc[t] = "release"
    /\ handle_table' = AfterFree(handle_table, call[t].handle)
    /\ made' = [made EXCEPT ![call[t].handle] = Unmade]
    /\ KoFinish(t, "SUCCESS")
    /\ UNCHANGED <<ko_tables, call, slot, handle, successes, recycled>>

Create(t) == CheckRoom(t) \/ ReadCount(t) \/ SetCount(t) \/ AllocHandle(t) \/ Rollback(t) \/ Publish(t)
Wait(t) == FindWaited(t) \/ Look(t) \/ Expire(t) \/ GiveUp(t) \/ Take(t)
KoStep(t) ==
    \/ Create(t) \/ Wait(t)
    \/ SetEvent(t) \/ ResetEvent(t) \/ ReleaseMutex(t)
    \/ CloseType(t) \/ CloseRelease(t)
    \/ KoReturn(t)

KoNext == \E t \in Callers : KoStep(t) \/ \E c \in Calls : Begin(t, c)
KoSpec == KoInit /\ [][KoNext]_koVars

-----------------------------------------------------------------------------
(* Properties *)

Quiet == \A t \in Callers : kpc[t] \in {"idle", "done"}
LiveEvents == {h \in Dynamic : TypeOf(handle_table, h) = HANDLE_TYPE_EVENT}

\* Creation is all or nothing: once no handler is running, every entry below
\* the count belongs to a creation that succeeded and no creation that was
\* refused for want of a handle has used one up.
AllOrNothing ==
    Quiet => \A k \in AllKinds :
        /\ count[k] = successes[k]
        /\ \A i \in 0 .. count[k] - 1 : owner[k][i] \in Dynamic

\* An event handle the guest has not closed is one NtSetEvent, NtResetEvent
\* and NtWaitForSingleObject know, although the handle manager and the event
\* table forget entries by different rules;
\* and as long as the number of a closed event has not been given to a new one,
\* it names the entry that was made for it and not another.
OwnEntryUnlessRecycled ==
    Quiet => \A h \in LiveEvents :
        /\ Find("event", h) # -1
        /\ h \notin recycled => Find("event", h) = made[h]

\* Two events that are both open have an entry each.
DistinctEntries ==
    \A g, h \in LiveEvents :
        g # h /\ made[g] # Unmade /\ made[h] # Unmade /\ recycled = {}
            => made[g] # made[h]

\* A new event starts in the state its creator asked for.
StartsAsRequested ==
    \A t \in Callers :
        kpc[t] = "done" /\ call[t].op = "CreateEventA" /\ status[t] = "SUCCESS" =>
            events[Find("event", handle[t])].signaled = call[t].initial
=============================================================================
