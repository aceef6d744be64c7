--------------------------- MODULE HandleManager ---------------------------
(***************************************************************************)
(* src/msvcrt/handle_manager.c run by several threads.  A call takes the   *)
(* spinlock of include/handle_manager.h, loads what it needs from the      *)
(* table, stores the result and releases the lock.  Each of these is a     *)
(* step of its own, so that the atomicity of a call comes from the lock    *)
(* and not from the model.                                                 *)
(***************************************************************************)
EXTENDS HandleTable

CONSTANTS Threads,   \* the threads of the process
          Types,     \* the type tags passed to wine_handle_alloc
          Objects,   \* the object pointers passed to wine_handle_alloc
          Inputs     \* the handle values callers pass, out of range included

ASSUME ManagerAssumption ==
    /\ Types \subseteq Nat \ {NO_TYPE}
    /\ Objects \subseteq Nat
    /\ Inputs \subseteq Nat

VARIABLES
    table,   \* state->table
    lock,    \* state->lock.locked
    pc,      \* where each thread is in its call
    req,     \* the call each thread is in
    local,   \* what the call loaded: the slot chosen by the scan, or a ref_count
    ret,     \* what the call returns
    refs,    \* history: references handed out and not given back, per handle
    bound    \* history: the type and object each live handle was allocated with

vars == <<table, lock, pc, req, local, ret, refs, bound>>

\* A call takes effect when it leaves the label "store", "load" for the two
\* getters, "enter" for a call that returns early
Phase ==
    [t \in Threads |->
        IF pc[t] = "idle" THEN "idle"
        ELSE IF pc[t] \in {"unlock", "return"} THEN "done" ELSE "pending"]

Store == INSTANCE HandleStore WITH phase <- Phase

NoBinding == <<NO_TYPE, NULL>>

Init ==
    /\ table = InitialTable
    /\ lock = FALSE
    /\ pc = [t \in Threads |-> "idle"]
    /\ req = [t \in Threads |-> Store!NoRequest]
    /\ local = [t \in Threads |-> 0]
    /\ ret = [t \in Threads |-> 0]
    /\ refs = [h \in Handle |-> IF h < FirstDynamic THEN 1 ELSE 0]
    /\ bound = [h \in Handle |-> IF h < FirstDynamic
                                 THEN <<HANDLE_TYPE_FILE, h>> ELSE NoBinding]

Goto(t, label) == pc' = [pc EXCEPT ![t] = label]

Call(t, r) ==
    /\ pc[t] = "idle"
    /\ Goto(t, "enter")
    /\ req' = [req EXCEPT ![t] = r]
    /\ UNCHANGED <<table, lock, local, ret, refs, bound>>

\* wine_handle_slot, and the check for the standard streams in wine_handle_free
Enter(t) ==
    /\ pc[t] = "enter"
    /\ Goto(t, IF Store!ReturnsEarly(req[t]) THEN "return" ELSE "spin")
    /\ UNCHANGED <<table, lock, req, local, ret, refs, bound>>

\* wine_spinlock_lock: the test-and-set that finds the flag clear.  One that
\* finds it set changes nothing.
Acquire(t) ==
    /\ pc[t] = "spin"
    /\ ~lock
    /\ lock' = TRUE
    /\ Goto(t, "load")
    /\ UNCHANGED <<table, req, local, ret, refs, bound>>

\* Mutant: the getters return without unlocking
LoadFieldKeepsLock(t) ==
    /\ pc[t] = "load"
    /\ req[t].op \in {"get", "get_type"}
    /\ Goto(t, "return")
    /\ UNCHANGED <<table, lock, req, local, ret, refs, bound>>

\* wine_handle_get and wine_handle_get_type
LoadField(t) ==
    /\ pc[t] = "load"
    /\ req[t].op \in {"get", "get_type"}
    /\ ret' = [ret EXCEPT ![t] = IF req[t].op = "get"
                                 THEN ObjectOf(table, req[t].handle)
                                 ELSE TypeOf(table, req[t].handle)]
    /\ Goto(t, "unlock")
    /\ UNCHANGED <<table, lock, req, local, refs, bound>>

\* Mutant: the lock is released between the scan and the store
ScanUnlocks(t) ==
    /\ pc[t] = "load"
    /\ req[t].op = "alloc"
    /\ local' = [local EXCEPT ![t] = FirstFree(table)]
    /\ lock' = FALSE
    /\ Goto(t, "store")
    /\ UNCHANGED <<table, req, ret, refs, bound>>

\* The loop of wine_handle_alloc
Scan(t) ==
    /\ pc[t] = "load"
    /\ req[t].op = "alloc"
    /\ local' = [local EXCEPT ![t] = FirstFree(table)]
    /\ Goto(t, "store")
    /\ UNCHANGED <<table, lock, req, ret, refs, bound>>

StoreNew(t) ==
    /\ pc[t] = "store"
    /\ req[t].op = "alloc"
    /\ table' = WithNew(table, local[t], req[t].type, req[t].object)
    /\ ret' = [ret EXCEPT ![t] = local[t]]
    /\ refs' = IF local[t] = 0 THEN refs ELSE [refs EXCEPT ![local[t]] = @ + 1]
    /\ bound' = IF local[t] = 0 THEN bound
                ELSE [bound EXCEPT ![local[t]] = <<req[t].type, req[t].object>>]
    /\ Goto(t, "unlock")
    /\ UNCHANGED <<lock, req, local>>

\* The ref_count test of wine_handle_add_ref and wine_handle_free
LoadCount(t) ==
    /\ pc[t] = "load"
    /\ req[t].op \in {"add_ref", "free"}
    /\ local' = [local EXCEPT ![t] = table[req[t].handle].ref_count]
    /\ Goto(t, "store")
    /\ UNCHANGED <<table, lock, req, ret, refs, bound>>

\* A call on a dead handle gives out no reference, and neither does one past
\* the saturation point
StoreAddRef(t) ==
    LET h == req[t].handle IN
    /\ pc[t] = "store"
    /\ req[t].op = "add_ref"
    /\ table' = AddedRef(table, h, local[t])
    /\ refs' = IF refs[h] \in 1 .. MAX_REF - 1
               THEN [refs EXCEPT ![h] = @ + 1] ELSE refs
    /\ Goto(t, "unlock")
    /\ UNCHANGED <<lock, req, local, ret, bound>>

StoreFree(t) ==
    LET h == req[t].handle IN
    /\ pc[t] = "store"
    /\ req[t].op = "free"
    /\ table' = Dropped(table, h, local[t])
    /\ refs' = IF refs[h] > 0 THEN [refs EXCEPT ![h] = @ - 1] ELSE refs
    /\ bound' = IF refs[h] <= 1 THEN [bound EXCEPT ![h] = NoBinding] ELSE bound
    /\ Goto(t, "unlock")
    /\ UNCHANGED <<lock, req, local, ret>>

\* wine_spinlock_unlock
Unlock(t) ==
    /\ pc[t] = "unlock"
    /\ lock' = FALSE
    /\ Goto(t, "return")
    /\ UNCHANGED <<table, req, local, ret, refs, bound>>

Return(t) ==
    /\ pc[t] = "return"
    /\ Goto(t, "idle")
    /\ req' = [req EXCEPT ![t] = Store!NoRequest]
    /\ local' = [local EXCEPT ![t] = 0]
    /\ ret' = [ret EXCEPT ![t] = 0]
    /\ UNCHANGED <<table, lock, refs, bound>>

Step(t) ==
    \/ Enter(t) \/ Acquire(t)
    \/ LoadField(t) \/ Scan(t) \/ StoreNew(t)
    \/ LoadCount(t) \/ StoreAddRef(t) \/ StoreFree(t)
    \/ Unlock(t) \/ Return(t)

Next == \E t \in Threads : Step(t) \/ \E r \in Store!Request : Call(t, r)

Spec == Init /\ [][Next]_vars
FairSpec == Spec /\ \A t \in Threads : WF_vars(Step(t))

-----------------------------------------------------------------------------
(* Properties *)

Locked == {"load", "store", "unlock"}
Labels == {"idle", "enter", "spin", "return"} \cup Locked

TypeOK ==
    /\ table \in [Handle -> Slot]
    /\ lock \in BOOLEAN
    /\ pc \in [Threads -> Labels]
    /\ req \in [Threads -> Store!Request \cup {Store!NoRequest}]
    /\ local \in [Threads -> Nat]
    /\ ret \in [Threads -> Nat]
    /\ refs \in [Handle -> 0 .. MAX_REF]
    /\ bound \in [Handle -> Nat \X Nat]

\* The spinlock of handle_manager.h excludes: two threads are never both
\* between wine_spinlock_lock and wine_spinlock_unlock.
MutualExclusion ==
    \A t, u \in Threads : pc[t] \in Locked /\ pc[u] \in Locked => t = u

\* No update of ref_count is lost, whatever calls overlap: the count of every
\* slot is the number of references handed out by wine_handle_alloc and
\* wine_handle_add_ref and not yet given back to wine_handle_free.
RefCountExact == \A h \in Handle : table[h].ref_count = refs[h]

\* A handle that somebody still holds a reference to keeps the type and the
\* object it was allocated with; a slot nobody refers to has been wiped, so
\* a stale handle can never see the previous object.
LiveBinding ==
    \A h \in Handle :
        IF refs[h] > 0 THEN <<table[h].type, table[h].object>> = bound[h]
                       ELSE table[h] = ClearedSlot

\* wine_handle_alloc never hands out a handle that somebody still refers to,
\* even when two threads allocate at the same time.
AllocFresh ==
    [][\A t \in Threads : StoreNew(t) /\ local[t] # 0 => refs[local[t]] = 0]_vars

\* Whatever clients free, handles 0, 1 and 2 stay the standard streams.
StandardStreams ==
    \A h \in Handle : h < FirstDynamic =>
        /\ refs[h] > 0
        /\ bound[h] = <<HANDLE_TYPE_FILE, h>>

\* Every call takes effect atomically: the manager implements HandleStore.
AtomicCalls == Store!SSpec

\* The spinlock is free of deadlock: a thread spins for ever only if the lock
\* keeps being granted to others.  (It is not free of starvation.)
LockProgress ==
    \A t \in Threads :
        []<>(pc[t] # "spin") \/ []<>(\E u \in Threads : pc[u] = "load")
=============================================================================
