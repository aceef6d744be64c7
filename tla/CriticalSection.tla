-------------------------- MODULE CriticalSection --------------------------
(***************************************************************************)
(* One CRITICAL_SECTION of src/msvcrt/kernel32_sync.c and the threads that *)
(* enter and leave it.  Every access to a field of the structure is a step *)
(* of its own.                                                             *)
(*                                                                         *)
(* The event behind LockSemaphore is what the handlers of KernelObjects    *)
(* make of it: a notification event found by its handle.  Handles come     *)
(* back after NtClose while entries of the event table do not, and a       *)
(* handle that comes back still names the entry of its first event.        *)
(***************************************************************************)
EXTENDS Integers, FiniteSets

CONSTANTS SectionThreads,      \* guest threads; getpid() differs between them
          EventSlots,   \* entries of the event table
          MaxDepth      \* bound: how deep a thread nests its entries

ASSUME SectionAssumption ==
    /\ EventSlots \in Nat
    /\ MaxDepth \in Nat /\ MaxDepth > 0
    /\ 0 \notin SectionThreads

VARIABLES
    LockCount, RecursionCount, OwningThread, LockSemaphore,
    entries,    \* entries of the event table in use
    open,       \* handles of events that are not closed
    signaled,   \* for each handle, the signaled field of the entry it names
    cpc,
    event,      \* the handle a thread has just created or is waiting on
    depth       \* history: entries a thread has made and not yet left

section == <<LockCount, RecursionCount, OwningThread, LockSemaphore>>
objects == <<entries, open, signaled>>
sectionVars == <<section, objects, cpc, event, depth>>

Events == 1 .. EventSlots

SectionInit ==
    /\ LockCount = -1 /\ RecursionCount = 0
    /\ OwningThread = 0 /\ LockSemaphore = 0
    /\ entries = 0 /\ open = {}
    /\ signaled = [e \in Events |-> 0]
    /\ cpc = [t \in SectionThreads |-> "idle"]
    /\ event = [t \in SectionThreads |-> 0]
    /\ depth = [t \in SectionThreads |-> 0]

SectionGoto(t, label) == cpc' = [cpc EXCEPT ![t] = label]

-----------------------------------------------------------------------------
(* EnterCriticalSection *)

EnterCriticalSection(t) ==
    /\ cpc[t] = "idle"
    /\ depth[t] < MaxDepth
    /\ SectionGoto(t, "try")
    /\ UNCHANGED <<section, objects, event, depth>>

\* Mutant: LockCount is tested and set without an atomic exchange
TryUnchecked(t) ==
    /\ cpc[t] \in {"try", "retry"}
    /\ LockCount' = 0
    /\ SectionGoto(t, "count")
    /\ UNCHANGED <<RecursionCount, OwningThread, LockSemaphore, objects, event, depth>>

\* Both compare-and-exchange operations on LockCount
Try(t) ==
    /\ cpc[t] \in {"try", "retry"}
    /\ IF LockCount = -1
       THEN LockCount' = 0 /\ SectionGoto(t, "count")
       ELSE /\ SectionGoto(t, IF cpc[t] = "try" THEN "owner" ELSE "semaphore")
            /\ UNCHANGED LockCount
    /\ UNCHANGED <<RecursionCount, OwningThread, LockSemaphore, objects, event, depth>>

FirstCount(t) ==
    /\ cpc[t] = "count"
    /\ RecursionCount' = 1
    /\ SectionGoto(t, "own")
    /\ UNCHANGED <<LockCount, OwningThread, LockSemaphore, objects, event, depth>>

Own(t) ==
    /\ cpc[t] = "own"
    /\ OwningThread' = t
    /\ depth' = [depth EXCEPT ![t] = 1]
    /\ SectionGoto(t, "idle")
    /\ UNCHANGED <<LockCount, RecursionCount, LockSemaphore, objects, event>>

\* Mutant: the owner enters again without counting it
TestOwnerUncounted(t) ==
    /\ cpc[t] = "owner"
    /\ IF OwningThread = t
       THEN depth' = [depth EXCEPT ![t] = @ + 1] /\ SectionGoto(t, "idle")
       ELSE SectionGoto(t, "semaphore") /\ UNCHANGED depth
    /\ UNCHANGED <<section, objects, event>>

\* The recursive entry of the owner, or the start of the slow path
TestOwner(t) ==
    /\ cpc[t] = "owner"
    /\ IF OwningThread = t
       THEN /\ RecursionCount' = RecursionCount + 1
            /\ depth' = [depth EXCEPT ![t] = @ + 1]
            /\ SectionGoto(t, "idle")
       ELSE SectionGoto(t, "semaphore") /\ UNCHANGED <<RecursionCount, depth>>
    /\ UNCHANGED <<LockCount, OwningThread, LockSemaphore, objects, event>>

TestSemaphore(t) ==
    /\ cpc[t] = "semaphore"
    /\ SectionGoto(t, IF LockSemaphore = 0 THEN "create" ELSE "reset")
    /\ UNCHANGED <<section, objects, event, depth>>

\* NtCreateEvent, not signaled.  It fails when the table is full.
CreateEvent(t) ==
    LET e == CHOOSE h \in Events \ open : \A g \in Events \ open : h <= g IN
    /\ cpc[t] = "create"
    /\ IF entries = EventSlots
       THEN event' = [event EXCEPT ![t] = 0] /\ UNCHANGED objects
       ELSE /\ event' = [event EXCEPT ![t] = e]
            /\ entries' = entries + 1
            /\ open' = open \cup {e}
            /\ UNCHANGED signaled
    /\ SectionGoto(t, "publish")
    /\ UNCHANGED <<section, depth>>

PublishEvent(t) ==
    /\ cpc[t] = "publish"
    /\ LockSemaphore' = event[t]
    /\ SectionGoto(t, "reset")
    /\ UNCHANGED <<LockCount, RecursionCount, OwningThread, objects, event, depth>>

\* NtResetEvent; with handle 0 it fails and changes nothing
Reset(t) ==
    /\ cpc[t] = "reset"
    /\ signaled' = IF LockSemaphore = 0 THEN signaled
                   ELSE [signaled EXCEPT ![LockSemaphore] = 0]
    /\ SectionGoto(t, "call_wait")
    /\ UNCHANGED <<section, entries, open, event, depth>>

CallWait(t) ==
    /\ cpc[t] = "call_wait"
    /\ event' = [event EXCEPT ![t] = LockSemaphore]
    /\ SectionGoto(t, "wait")
    /\ UNCHANGED <<section, objects, depth>>

\* NtWaitForSingleObject returns; with handle 0 it fails at once.  The event is
\* a notification event, so it stays signaled.
Wake(t) ==
    /\ cpc[t] = "wait"
    /\ event[t] # 0 => signaled[event[t]] = 1
    /\ SectionGoto(t, "retry")
    /\ event' = [event EXCEPT ![t] = 0]
    /\ UNCHANGED <<section, objects, depth>>

-----------------------------------------------------------------------------
(* LeaveCriticalSection, by a thread that is in the section *)

Leave(t) ==
    /\ cpc[t] = "idle"
    /\ depth[t] > 0
    /\ RecursionCount' = RecursionCount - 1
    /\ depth' = [depth EXCEPT ![t] = @ - 1]
    /\ SectionGoto(t, "leaving")
    /\ UNCHANGED <<LockCount, OwningThread, LockSemaphore, objects, event>>

Release(t) ==
    /\ cpc[t] = "leaving"
    /\ IF RecursionCount = 0
       THEN LockCount' = -1 /\ SectionGoto(t, "disown")
       ELSE SectionGoto(t, "idle") /\ UNCHANGED LockCount
    /\ UNCHANGED <<RecursionCount, OwningThread, LockSemaphore, objects, event, depth>>

Disown(t) ==
    /\ cpc[t] = "disown"
    /\ OwningThread' = 0
    /\ SectionGoto(t, "signal")
    /\ UNCHANGED <<LockCount, RecursionCount, LockSemaphore, objects, event, depth>>

Signal(t) ==
    /\ cpc[t] = "signal"
    /\ signaled' = IF LockSemaphore = 0 THEN signaled
                   ELSE [signaled EXCEPT ![LockSemaphore] = 1]
    /\ SectionGoto(t, "idle")
    /\ UNCHANGED <<section, entries, open, event, depth>>

-----------------------------------------------------------------------------
(* DeleteCriticalSection followed by InitializeCriticalSection: a guest does *)
(* this to a section nobody is using.  A deleted section is not entered.     *)

Renew ==
    /\ \A t \in SectionThreads : cpc[t] = "idle" /\ depth[t] = 0
    /\ open' = open \ {LockSemaphore}
    /\ LockCount' = -1 /\ RecursionCount' = 0
    /\ OwningThread' = 0 /\ LockSemaphore' = 0
    /\ UNCHANGED <<entries, signaled, cpc, event, depth>>

EnterStep(t) ==
    \/ Try(t) \/ FirstCount(t) \/ Own(t) \/ TestOwner(t)
    \/ TestSemaphore(t) \/ CreateEvent(t) \/ PublishEvent(t)
    \/ Reset(t) \/ CallWait(t) \/ Wake(t)
LeaveStep(t) == Release(t) \/ Disown(t) \/ Signal(t)

SectionNext ==
    \/ \E t \in SectionThreads : EnterCriticalSection(t) \/ EnterStep(t) \/ Leave(t) \/ LeaveStep(t)
    \/ Renew

SectionSpec == SectionInit /\ [][SectionNext]_sectionVars

-----------------------------------------------------------------------------
(* Properties *)

SectionLabels ==
    {"idle", "try", "count", "own", "owner", "semaphore", "create", "publish", "reset",
     "call_wait", "wait", "retry", "leaving", "disown", "signal"}

SectionTypeOK ==
    /\ LockCount \in {-1, 0}
    /\ RecursionCount \in Int
    /\ OwningThread \in SectionThreads \cup {0}
    /\ LockSemaphore \in Events \cup {0}
    /\ entries \in 0 .. EventSlots
    /\ open \subseteq Events
    /\ signaled \in [Events -> {0, 1}]
    /\ cpc \in [SectionThreads -> SectionLabels]
    /\ event \in [SectionThreads -> Events \cup {0}]
    /\ depth \in [SectionThreads -> 0 .. MaxDepth]

\* At most one thread is between its EnterCriticalSection and the matching
\* LeaveCriticalSection, although the owner fields are written outside the
\* atomic exchange.
OneThreadInside == \A t, u \in SectionThreads : depth[t] > 0 /\ depth[u] > 0 => t = u

\* RecursionCount is the number of entries the thread in the section has yet
\* to leave, so that the last LeaveCriticalSection, and no earlier one, frees
\* the section.
RecursionExact ==
    \A t \in SectionThreads : depth[t] > 0 /\ cpc[t] = "idle" => RecursionCount = depth[t]

\* No thread waits for ever for a section that stays free.
NoLostWakeup == ~ <>[](LockCount = -1 /\ \E t \in SectionThreads : cpc[t] = "wait")
=============================================================================
