------------------------ MODULE HandleManagerProofs ------------------------
(***************************************************************************)
(* Proofs about HandleManager for every number of threads, every table     *)
(* size and every saturation point of ref_count.                           *)
(***************************************************************************)
EXTENDS HandleManager, NumberLemmas

\* A call that got past its early returns: the slot it addresses exists
Admitted(r) ==
    /\ r \in Store!Request
    /\ ~Store!ReturnsEarly(r)

\* The lock is held exactly while somebody is in its scope, by one thread
LockInv ==
    /\ \A t \in Threads : pc[t] \in Locked => lock
    /\ lock => \E t \in Threads : pc[t] \in Locked
    /\ MutualExclusion

\* What a thread knows at each point of its call.  In the scope of the lock
\* what it loaded from the table is still what the table holds.
CallInv ==
    \A t \in Threads :
        /\ pc[t] = "enter" => req[t] \in Store!Request
        /\ pc[t] \in {"spin"} \cup Locked => Admitted(req[t])
        /\ pc[t] \in {"idle", "enter", "spin", "load", "store"} => ret[t] = 0
        /\ pc[t] = "store" =>
             /\ req[t].op \in {"alloc", "add_ref", "free"}
             /\ req[t].op = "alloc" => local[t] = FirstFree(table)
             /\ req[t].op \in {"add_ref", "free"} =>
                    local[t] = table[req[t].handle].ref_count

\* The inductive invariant
IInv ==
    /\ TypeOK
    /\ LockInv
    /\ CallInv
    /\ RefCountExact
    /\ LiveBinding
    /\ StandardStreams

-----------------------------------------------------------------------------
(* The operators of HandleTable *)

\* The scan of wine_handle_alloc finds the lowest free slot from 3 on, or 0.
LEMMA FirstFreeFacts ==
    ASSUME NEW tbl
    PROVE  /\ FirstFree(tbl) \in FreeHandles(tbl) \cup {0}
           /\ FirstFree(tbl) = 0 => FreeHandles(tbl) = {}
           /\ \A g \in FreeHandles(tbl) : FirstFree(tbl) <= g
<1>1. FreeHandles(tbl) \in SUBSET Nat /\ 0 \notin FreeHandles(tbl)
  BY TableAssumption DEF FreeHandles, Dynamic, FirstDynamic
<1>2. CASE FreeHandles(tbl) = {}
  BY <1>2 DEF FirstFree
<1>3. CASE FreeHandles(tbl) # {}
  <2>1. \E h \in FreeHandles(tbl) : \A g \in FreeHandles(tbl) : h <= g
    BY <1>1, <1>3, LeastNatural
  <2>2. /\ FirstFree(tbl) \in FreeHandles(tbl)
        /\ \A g \in FreeHandles(tbl) : FirstFree(tbl) <= g
    BY <2>1, <1>3 DEF FirstFree
  <2> QED
    BY <2>2, <1>1
<1> QED
  BY <1>2, <1>3

-----------------------------------------------------------------------------
(* The inductive invariant *)

\* wine_handle_manager_runtime_init establishes the invariant.
LEMMA InitInv == Init => IInv
<1> SUFFICES ASSUME Init PROVE IInv
  OBVIOUS
<1> USE TableAssumption, ManagerAssumption
<1>1. TypeOK
  <2>1. table \in [Handle -> Slot]
    BY DEF Init, InitialTable, NewSlot, ClearedSlot, Slot, Handle, FirstDynamic,
           NO_TYPE, NULL, HANDLE_TYPE_FILE
  <2>2. bound \in [Handle -> Nat \X Nat]
    BY DEF Init, Handle, NoBinding, FirstDynamic, NO_TYPE, NULL, HANDLE_TYPE_FILE
  <2>3. refs \in [Handle -> 0 .. MAX_REF]
    BY DEF Init, Handle, FirstDynamic
  <2>4. /\ lock \in BOOLEAN /\ pc \in [Threads -> Labels]
        /\ req \in [Threads -> Store!Request \cup {Store!NoRequest}]
        /\ local \in [Threads -> Nat] /\ ret \in [Threads -> Nat]
    BY Zenon DEF Init, Labels
  <2> QED
    BY <2>1, <2>2, <2>3, <2>4 DEF TypeOK
<1>2. LockInv /\ CallInv
  BY DEF Init, LockInv, CallInv, MutualExclusion, Locked
<1>3. RefCountExact /\ LiveBinding /\ StandardStreams
  BY DEF Init, RefCountExact, LiveBinding, StandardStreams, InitialTable, NewSlot,
         ClearedSlot, Handle, FirstDynamic, NO_TYPE, NULL, HANDLE_TYPE_FILE
<1> QED
  BY <1>1, <1>2, <1>3 DEF IInv

\* A request that got past its early returns addresses a slot of the table,
\* and one to free addresses an allocatable slot.
LEMMA AdmittedFacts ==
    ASSUME NEW r, Admitted(r)
    PROVE  /\ r.op \in {"alloc", "get", "get_type", "add_ref", "free"}
           /\ r.op = "alloc" => r.type \in Nat /\ r.object \in Nat
           /\ r.op # "alloc" => r.handle \in Handle
           /\ r.op = "free" => r.handle \in Dynamic
<1>1. \/ r \in [op : {"alloc"}, handle : {0}, type : Types, object : Objects]
      \/ r \in [op : Store!HandleOps, handle : Inputs, type : {NO_TYPE}, object : {NULL}]
  BY DEF Admitted, Store!Request, Store!NO_TYPE, Store!NULL, NO_TYPE, NULL
<1>2. r.op # "alloc" => r.handle < HANDLE_TABLE_SIZE
  BY DEF Admitted, Store!ReturnsEarly, Store!InTable
<1>3. r.op = "free" => ~(r.handle < FirstDynamic)
  BY DEF Admitted, Store!ReturnsEarly, Store!FirstDynamic, FirstDynamic
<1>4. CASE r \in [op : {"alloc"}, handle : {0}, type : Types, object : Objects]
  BY <1>4, ManagerAssumption, Zenon
<1>5. CASE r \in [op : Store!HandleOps, handle : Inputs, type : {NO_TYPE}, object : {NULL}]
  <2>1. r.op \in Store!HandleOps /\ r.handle \in Nat
    BY <1>5, ManagerAssumption, Zenon
  <2> QED
    BY <2>1, <1>2, <1>3, TableAssumption DEF Store!HandleOps, Handle, Dynamic, FirstDynamic
<1> QED
  BY <1>1, <1>4, <1>5

\* Every step of every thread preserves the invariant.
LEMMA StepInv == IInv /\ [Next]_vars => IInv'
<1> SUFFICES ASSUME IInv, [Next]_vars PROVE IInv'
  OBVIOUS
<1> USE TableAssumption, ManagerAssumption DEF IInv
<1>1. ASSUME NEW t \in Threads, NEW r \in Store!Request, Call(t, r)
      PROVE  IInv'
  <2>1. TypeOK'
    BY <1>1 DEF TypeOK, Call, Goto, Labels
  <2>2. LockInv' /\ CallInv'
    BY <1>1 DEF TypeOK, LockInv, CallInv, MutualExclusion, Locked, Call, Goto
  <2>3. (RefCountExact /\ LiveBinding /\ StandardStreams)'
    BY <1>1 DEF RefCountExact, LiveBinding, StandardStreams, Call
  <2> QED
    BY <2>1, <2>2, <2>3
<1>2. ASSUME NEW t \in Threads, Enter(t)
      PROVE  IInv'
  <2>1. TypeOK'
    BY <1>2 DEF TypeOK, Enter, Goto, Labels
  <2>2. LockInv' /\ CallInv'
    BY <1>2 DEF TypeOK, LockInv, CallInv, MutualExclusion, Locked, Admitted, Enter, Goto
  <2>3. (RefCountExact /\ LiveBinding /\ StandardStreams)'
    BY <1>2 DEF RefCountExact, LiveBinding, StandardStreams, Enter
  <2> QED
    BY <2>1, <2>2, <2>3
<1>3. ASSUME NEW t \in Threads, Acquire(t)
      PROVE  IInv'
  <2>1. TypeOK'
    BY <1>3 DEF TypeOK, Acquire, Goto, Labels, Locked
  <2>2. LockInv'
    BY <1>3 DEF TypeOK, LockInv, MutualExclusion, Locked, Acquire, Goto
  <2>3. CallInv'
    BY <1>3 DEF TypeOK, CallInv, Locked, Acquire, Goto
  <2>4. (RefCountExact /\ LiveBinding /\ StandardStreams)'
    BY <1>3 DEF RefCountExact, LiveBinding, StandardStreams, Acquire
  <2> QED
    BY <2>1, <2>2, <2>3, <2>4
<1>4. ASSUME NEW t \in Threads, LoadField(t)
      PROVE  IInv'
  <2>1. Admitted(req[t]) /\ req[t].handle \in Handle
    BY <1>4, AdmittedFacts DEF LoadField, CallInv, Locked
  <2>2. TypeOK'
    BY <1>4, <2>1 DEF TypeOK, LoadField, Goto, Labels, Locked, ObjectOf, TypeOf, Slot, NULL, NO_TYPE
  <2>3. LockInv'
    BY <1>4 DEF TypeOK, LockInv, MutualExclusion, Locked, LoadField, Goto
  <2>4. CallInv'
    BY <1>4 DEF TypeOK, CallInv, Locked, LoadField, Goto
  <2>5. (RefCountExact /\ LiveBinding /\ StandardStreams)'
    BY <1>4 DEF RefCountExact, LiveBinding, StandardStreams, LoadField
  <2> QED
    BY <2>2, <2>3, <2>4, <2>5
<1>5. ASSUME NEW t \in Threads, Scan(t)
      PROVE  IInv'
  <2>1. FirstFree(table) \in Nat
    BY FirstFreeFacts DEF FreeHandles, Dynamic, FirstDynamic
  <2>2. TypeOK'
    BY <1>5, <2>1 DEF TypeOK, Scan, Goto, Labels, Locked
  <2>3. LockInv'
    BY <1>5 DEF TypeOK, LockInv, MutualExclusion, Locked, Scan, Goto
  <2>4. CallInv'
    BY <1>5 DEF TypeOK, CallInv, Locked, Scan, Goto
  <2>5. (RefCountExact /\ LiveBinding /\ StandardStreams)'
    BY <1>5 DEF RefCountExact, LiveBinding, StandardStreams, Scan
  <2> QED
    BY <2>2, <2>3, <2>4, <2>5
<1>6. ASSUME NEW t \in Threads, StoreNew(t)
      PROVE  IInv'
  <2> DEFINE h == local[t]
  <2>1. /\ Admitted(req[t]) /\ req[t].type \in Nat /\ req[t].object \in Nat
        /\ h = FirstFree(table)
    BY <1>6, AdmittedFacts DEF StoreNew, CallInv, Locked
  <2>2. h # 0 => h \in Dynamic /\ h \in Handle /\ table[h].ref_count = 0
    BY <2>1, FirstFreeFacts DEF FreeHandles, Dynamic, Handle, FirstDynamic
  <2>3. \A u \in Threads : u # t => pc[u] \notin Locked
    BY <1>6 DEF StoreNew, LockInv, MutualExclusion, Locked
  <2>4. TypeOK'
    BY SMTT(30), <1>6, <2>1, <2>2 DEF TypeOK, RefCountExact, StoreNew, Goto, WithNew, NewSlot, Slot, Labels, Locked
  <2>5. LockInv'
    BY <1>6 DEF TypeOK, LockInv, MutualExclusion, Locked, StoreNew, Goto
  <2>6. CallInv'
    BY <1>6, <2>3 DEF TypeOK, CallInv, Locked, StoreNew, Goto
  <2>7. CASE h = 0
    BY <1>6, <2>4, <2>5, <2>6, <2>7
       DEF RefCountExact, LiveBinding, StandardStreams, StoreNew, WithNew
  <2>8. CASE h # 0
    <3>1. /\ table' = [table EXCEPT ![h] = NewSlot(h, req[t].type, req[t].object)]
          /\ refs' = [refs EXCEPT ![h] = @ + 1]
          /\ bound' = [bound EXCEPT ![h] = <<req[t].type, req[t].object>>]
      BY <1>6, <2>8 DEF StoreNew, WithNew
    <3>2. refs[h] = 0
      BY <2>2, <2>8 DEF RefCountExact
    <3>3. RefCountExact'
      BY <2>2, <2>8, <3>1, <3>2 DEF RefCountExact, TypeOK, NewSlot
    <3>4. LiveBinding'
      BY <2>2, <2>8, <3>1, <3>2 DEF LiveBinding, TypeOK, NewSlot
    <3>5. StandardStreams'
      <4> SUFFICES ASSUME NEW g \in Handle, g < FirstDynamic
                   PROVE  refs'[g] > 0 /\ bound'[g] = <<HANDLE_TYPE_FILE, g>>
        BY DEF StandardStreams
      <4>1. g # h
        BY <2>2, <2>8 DEF Dynamic, FirstDynamic
      <4>2. refs'[g] = refs[g] /\ bound'[g] = bound[g]
        BY <3>1, <4>1 DEF TypeOK
      <4> QED
        BY <4>2 DEF StandardStreams
    <3> QED
      BY <2>4, <2>5, <2>6, <3>3, <3>4, <3>5
  <2> QED
    BY <2>7, <2>8
<1>7. ASSUME NEW t \in Threads, LoadCount(t)
      PROVE  IInv'
  <2>1. Admitted(req[t]) /\ req[t].handle \in Handle
    BY <1>7, AdmittedFacts DEF LoadCount, CallInv, Locked
  <2>2. TypeOK'
    BY <1>7, <2>1 DEF TypeOK, LoadCount, Goto, Labels, Locked, Slot
  <2>3. LockInv'
    BY <1>7 DEF TypeOK, LockInv, MutualExclusion, Locked, LoadCount, Goto
  <2>4. CallInv'
    BY <1>7 DEF TypeOK, CallInv, Locked, LoadCount, Goto
  <2>5. (RefCountExact /\ LiveBinding /\ StandardStreams)'
    BY <1>7 DEF RefCountExact, LiveBinding, StandardStreams, LoadCount
  <2> QED
    BY <2>2, <2>3, <2>4, <2>5
<1>8. ASSUME NEW t \in Threads, StoreAddRef(t)
      PROVE  IInv'
  <2> DEFINE h == req[t].handle
  <2>1. h \in Handle /\ local[t] = table[h].ref_count /\ table[h].ref_count = refs[h]
    BY <1>8, AdmittedFacts DEF StoreAddRef, CallInv, Locked, RefCountExact
  <2>2. \A u \in Threads : u # t => pc[u] \notin Locked
    BY <1>8 DEF StoreAddRef, LockInv, MutualExclusion, Locked
  <2>3. TypeOK'
    <3>1. table' \in [Handle -> Slot]
      <4>1. \/ table' = table
            \/ /\ table' = [table EXCEPT ![h].ref_count = table[h].ref_count + 1]
               /\ refs[h] + 1 \in 0 .. MAX_REF
        <5>1. table' = IF refs[h] # 0 /\ refs[h] < MAX_REF
                       THEN [table EXCEPT ![h].ref_count = table[h].ref_count + 1] ELSE table
          BY <1>8, <2>1 DEF StoreAddRef, AddedRef
        <5>2. refs[h] \in 0 .. MAX_REF /\ MAX_REF \in Nat
          BY <2>1, TableAssumption DEF TypeOK
        <5>3. refs[h] < MAX_REF => refs[h] + 1 \in 0 .. MAX_REF
          BY <5>2
        <5>4. CASE refs[h] # 0 /\ refs[h] < MAX_REF
          BY <5>1, <5>3, <5>4, Zenon
        <5>5. CASE ~(refs[h] # 0 /\ refs[h] < MAX_REF)
          BY <5>1, <5>5, Zenon
        <5> QED
          BY <5>4, <5>5
      <4>2. \A r \in Slot, n \in 0 .. MAX_REF : [r EXCEPT !.ref_count = n] \in Slot
        BY DEF Slot
      <4>3. table \in [Handle -> Slot] /\ table[h] \in Slot
        BY <2>1 DEF TypeOK
      <4>4. [table[h] EXCEPT !.ref_count = table[h].ref_count + 1] \in Slot
            \/ table' = table
        BY <2>1, <4>1, <4>2, <4>3
      <4> QED
        BY <4>1, <4>3, <4>4
    <3>2. refs' \in [Handle -> 0 .. MAX_REF]
      BY <1>8, <2>1 DEF TypeOK, StoreAddRef
    <3> QED
      BY <1>8, <3>1, <3>2 DEF TypeOK, StoreAddRef, Goto, Labels, Locked
  <2>4. LockInv'
    BY <1>8 DEF TypeOK, LockInv, MutualExclusion, Locked, StoreAddRef, Goto
  <2>5. CallInv'
    BY <1>8, <2>2 DEF TypeOK, CallInv, Locked, StoreAddRef, Goto
  <2>6. RefCountExact'
    BY <1>8, <2>1 DEF TypeOK, Slot, RefCountExact, StoreAddRef, AddedRef
  <2>7. (LiveBinding /\ StandardStreams)'
    BY SMTT(30), <1>8, <2>1 DEF TypeOK, Slot, LiveBinding, StandardStreams, StoreAddRef, AddedRef
  <2> QED
    BY <2>3, <2>4, <2>5, <2>6, <2>7
<1>9. ASSUME NEW t \in Threads, StoreFree(t)
      PROVE  IInv'
  <2> DEFINE h == req[t].handle
  <2>1. /\ h \in Handle /\ h \in Dynamic
        /\ local[t] = table[h].ref_count /\ table[h].ref_count = refs[h]
    BY <1>9, AdmittedFacts DEF StoreFree, CallInv, Locked, RefCountExact
  <2>2. \A u \in Threads : u # t => pc[u] \notin Locked
    BY <1>9 DEF StoreFree, LockInv, MutualExclusion, Locked
  <2>3. TypeOK'
    BY SMTT(30), <1>9, <2>1 DEF TypeOK, StoreFree, Goto, Dropped, ClearedSlot, Slot, Labels, Locked,
                      NoBinding, NO_TYPE, NULL
  <2>4. LockInv'
    BY <1>9 DEF TypeOK, LockInv, MutualExclusion, Locked, StoreFree, Goto
  <2>5. CallInv'
    BY <1>9, <2>2 DEF TypeOK, CallInv, Locked, StoreFree, Goto
  <2>6. RefCountExact'
    BY <1>9, <2>1 DEF TypeOK, Slot, RefCountExact, StoreFree, Dropped, ClearedSlot
  <2>7. LiveBinding'
    BY SMTT(30), <1>9, <2>1 DEF TypeOK, Slot, LiveBinding, StoreFree, Dropped
  <2>8. StandardStreams'
    <3> SUFFICES ASSUME NEW g \in Handle, g < FirstDynamic
                 PROVE  refs'[g] > 0 /\ bound'[g] = <<HANDLE_TYPE_FILE, g>>
      BY DEF StandardStreams
    <3>1. g # h
      BY <2>1 DEF Dynamic, FirstDynamic
    <3>2. refs'[g] = refs[g] /\ bound'[g] = bound[g]
      BY <1>9, <3>1 DEF TypeOK, StoreFree
    <3> QED
      BY <3>2 DEF StandardStreams
  <2> QED
    BY <2>3, <2>4, <2>5, <2>6, <2>7, <2>8
<1>10. ASSUME NEW t \in Threads, Unlock(t)
       PROVE  IInv'
  <2>1. TypeOK'
    BY <1>10, Zenon DEF TypeOK, Unlock, Goto, Labels
  <2>2. LockInv'
    BY <1>10 DEF TypeOK, LockInv, MutualExclusion, Locked, Unlock, Goto
  <2>3. CallInv'
    BY <1>10 DEF TypeOK, CallInv, Locked, Unlock, Goto
  <2>4. (RefCountExact /\ LiveBinding /\ StandardStreams)'
    BY <1>10 DEF RefCountExact, LiveBinding, StandardStreams, Unlock
  <2> QED
    BY <2>1, <2>2, <2>3, <2>4
<1>11. ASSUME NEW t \in Threads, Return(t)
       PROVE  IInv'
  <2>1. TypeOK'
    BY <1>11 DEF TypeOK, Return, Goto, Labels
  <2>2. LockInv' /\ CallInv'
    BY <1>11 DEF TypeOK, LockInv, CallInv, MutualExclusion, Locked, Return, Goto
  <2>3. (RefCountExact /\ LiveBinding /\ StandardStreams)'
    BY <1>11 DEF RefCountExact, LiveBinding, StandardStreams, Return
  <2> QED
    BY <2>1, <2>2, <2>3
<1>12. CASE UNCHANGED vars
  BY <1>12 DEF vars, TypeOK, LockInv, CallInv, MutualExclusion, RefCountExact,
               LiveBinding, StandardStreams
<1> QED
  BY <1>1, <1>2, <1>3, <1>4, <1>5, <1>6, <1>7, <1>8, <1>9, <1>10, <1>11, <1>12
     DEF Next, Step

\* Every reachable state satisfies the invariant.
THEOREM Invariance == Spec => []IInv
  BY InitInv, StepInv, PTL DEF Spec

\* The spinlock excludes, no update of a reference count is lost, a live
\* handle keeps its type and object while a dead slot is wiped, and the
\* standard streams cannot be freed.
THEOREM Safety ==
    Spec => [](MutualExclusion /\ RefCountExact /\ LiveBinding /\ StandardStreams)
<1>1. IInv => MutualExclusion /\ RefCountExact /\ LiveBinding /\ StandardStreams
  BY DEF IInv, LockInv
<1> QED
  BY <1>1, Invariance, PTL

\* wine_handle_alloc never hands out a handle that is still referred to.
THEOREM AllocIsFresh == Spec => AllocFresh
<1>1. ASSUME IInv, NEW t \in Threads, StoreNew(t), local[t] # 0
      PROVE  refs[local[t]] = 0
  <2>1. local[t] = FirstFree(table)
    BY <1>1 DEF IInv, CallInv, StoreNew
  <2>2. local[t] \in FreeHandles(table)
    BY <1>1, <2>1, FirstFreeFacts
  <2> QED
    BY SMTT(30), <1>1, <2>2, TableAssumption
       DEF IInv, RefCountExact, FreeHandles, Dynamic, Handle, FirstDynamic
<1>2. IInv /\ [Next]_vars =>
          [\A t \in Threads : StoreNew(t) /\ local[t] # 0 => refs[local[t]] = 0]_vars
  BY <1>1
<1> QED
  BY <1>2, Invariance, PTL DEF Spec, AllocFresh

-----------------------------------------------------------------------------
(* The manager implements HandleStore *)

\* HandleStore has its own copy of the operators of HandleTable.
LEMMA SameOperators ==
    ASSUME NEW tbl, NEW r, Admitted(r)
    PROVE  /\ Store!FirstFree(tbl) = FirstFree(tbl)
           /\ Store!Effect(tbl, r) =
                CASE r.op = "alloc" -> WithNew(tbl, FirstFree(tbl), r.type, r.object)
                  [] r.op = "add_ref" -> AddedRef(tbl, r.handle, tbl[r.handle].ref_count)
                  [] r.op = "free" -> Dropped(tbl, r.handle, tbl[r.handle].ref_count)
                  [] OTHER -> tbl
           /\ Store!Result(tbl, r) =
                CASE r.op = "alloc" -> FirstFree(tbl)
                  [] r.op = "get" -> ObjectOf(tbl, r.handle)
                  [] r.op = "get_type" -> TypeOf(tbl, r.handle)
                  [] OTHER -> 0
<1>1. Store!FreeHandles(tbl) = FreeHandles(tbl)
  BY DEF Store!FreeHandles, FreeHandles, Store!Dynamic, Dynamic, Store!FirstDynamic, FirstDynamic
<1>2. Store!FirstFree(tbl) = FirstFree(tbl)
  BY <1>1 DEF Store!FirstFree, FirstFree
<1>3. /\ r.op \in {"alloc", "get", "get_type", "add_ref", "free"}
      /\ ~Store!ReturnsEarly(r)
  BY AdmittedFacts DEF Admitted
<1>4. CASE r.op = "alloc"
  BY <1>2, <1>3, <1>4 DEF Store!Effect, Store!Result, Store!AfterAlloc, Store!WithNew,
     WithNew, Store!NewSlot, NewSlot
<1>5. CASE r.op = "add_ref"
  BY <1>2, <1>3, <1>5 DEF Store!Effect, Store!Result, Store!AfterAddRef, Store!AddedRef, AddedRef
<1>6. CASE r.op = "free"
  <2>1. Store!InTable(r.handle) /\ ~(r.handle < Store!FirstDynamic)
    BY <1>3, <1>6 DEF Store!ReturnsEarly
  <2> QED
    BY <1>2, <1>3, <1>6, <2>1 DEF Store!Effect, Store!Result, Store!AfterFree, Store!Dropped,
       Dropped, Store!ClearedSlot, ClearedSlot, Store!NO_TYPE, NO_TYPE, Store!NULL, NULL
<1>7. CASE r.op \in {"get", "get_type"}
  BY <1>2, <1>3, <1>7 DEF Store!Effect, Store!Result, Store!ObjectOf, ObjectOf, Store!TypeOf,
     TypeOf, Store!NO_TYPE, NO_TYPE, Store!NULL, NULL
<1> QED
  BY <1>3, <1>4, <1>5, <1>6, <1>7

\* Moving thread t to another label moves it to the phase of that label.
LEMMA PhaseStep ==
    ASSUME TypeOK, NEW t \in Threads, NEW l \in Labels, Goto(t, l)
    PROVE  /\ l = "idle" => Phase' = [Phase EXCEPT ![t] = "idle"]
           /\ l \in {"enter", "spin", "load", "store"} => Phase' = [Phase EXCEPT ![t] = "pending"]
           /\ l \in {"unlock", "return"} => Phase' = [Phase EXCEPT ![t] = "done"]
<1>1. pc'[t] = l /\ \A u \in Threads : u # t => pc'[u] = pc[u]
  BY DEF TypeOK, Goto
<1>2. \A u \in Threads : u # t => Phase'[u] = Phase[u]
  BY <1>1 DEF Phase
<1>3. /\ l = "idle" => Phase'[t] = "idle"
      /\ l \in {"enter", "spin", "load", "store"} => Phase'[t] = "pending"
      /\ l \in {"unlock", "return"} => Phase'[t] = "done"
  BY <1>1 DEF Phase
<1>4. \A x : Phase'[t] = x => Phase' = [Phase EXCEPT ![t] = x]
  <2>1. /\ DOMAIN Phase = Threads /\ Phase = [u \in Threads |-> Phase[u]]
        /\ DOMAIN Phase' = Threads /\ Phase' = [u \in Threads |-> Phase'[u]]
    BY DEF Phase
  <2> QED
    BY <1>2, <2>1
<1> QED
  BY <1>3, <1>4

\* A step that stays in the same phase and touches nothing the caller can see
\* is a stutter of HandleStore.
LEMMA QuietStep ==
    ASSUME TypeOK, NEW t \in Threads, NEW l \in Labels, Goto(t, l),
           UNCHANGED <<table, req, ret>>,
           \/ pc[t] \in {"enter", "spin", "load"} /\ l \in {"spin", "load", "store"}
           \/ pc[t] = "unlock" /\ l = "return"
    PROVE  UNCHANGED Store!svars
<1>1. /\ pc[t] \in {"enter", "spin", "load"} => Phase[t] = "pending"
      /\ pc[t] = "unlock" => Phase[t] = "done"
  BY DEF Phase
<1>2. Phase' = [Phase EXCEPT ![t] = Phase[t]]
  BY <1>1, PhaseStep
<1>3. Phase' = Phase
  BY <1>2, Zenon DEF Phase
<1> QED
  BY <1>3 DEF Store!svars

\* Every step of the manager is a step or a stutter of HandleStore.
LEMMA StepSimulation == IInv /\ [Next]_vars => [Store!SNext]_(Store!svars)
<1> SUFFICES ASSUME IInv, [Next]_vars PROVE [Store!SNext]_(Store!svars)
  OBVIOUS
<1> USE DEF IInv
<1> Labels = {"idle", "enter", "spin", "return", "load", "store", "unlock"}
  BY DEF Labels, Locked
<1>1. ASSUME NEW t \in Threads, NEW r \in Store!Request, Call(t, r)
      PROVE  Store!SNext
  <2>1. Phase[t] = "idle" /\ Phase' = [Phase EXCEPT ![t] = "pending"]
    BY <1>1, PhaseStep, Zenon DEF Call, Phase
  <2>2. Store!Invoke(t, r)
    BY <1>1, <2>1 DEF Call, Store!Invoke
  <2> QED
    BY <2>2 DEF Store!SNext
<1>2. ASSUME NEW t \in Threads, Enter(t)
      PROVE  [Store!SNext]_(Store!svars)
  <2>1. CASE Store!ReturnsEarly(req[t])
    <3>1. Phase[t] = "pending" /\ Phase' = [Phase EXCEPT ![t] = "done"]
      BY <1>2, <2>1, PhaseStep, Zenon DEF Enter, Phase
    <3>2. Store!Effect(table, req[t]) = table /\ Store!Result(table, req[t]) = 0
      BY <2>1 DEF Store!Effect, Store!Result, Store!ReturnsEarly
    <3>3. ret' = [ret EXCEPT ![t] = 0]
      BY <1>2 DEF Enter, CallInv, TypeOK
    <3>4. Store!Perform(t)
      BY <1>2, <3>1, <3>2, <3>3, Zenon DEF Enter, Store!Perform
    <3> QED
      BY <3>4 DEF Store!SNext
  <2>2. CASE ~Store!ReturnsEarly(req[t])
    BY <1>2, <2>2, QuietStep DEF Enter
  <2> QED
    BY <2>1, <2>2
<1>3. ASSUME NEW t \in Threads, Acquire(t) \/ Scan(t) \/ LoadCount(t) \/ Unlock(t)
      PROVE  UNCHANGED Store!svars
  BY <1>3, QuietStep DEF Acquire, Scan, LoadCount, Unlock
<1>4. ASSUME NEW t \in Threads, LoadField(t) \/ StoreNew(t) \/ StoreAddRef(t) \/ StoreFree(t)
      PROVE  Store!SNext
  <2>1. Phase[t] = "pending" /\ Phase' = [Phase EXCEPT ![t] = "done"]
    BY <1>4, PhaseStep, Zenon DEF LoadField, StoreNew, StoreAddRef, StoreFree, Phase
  <2>2. Admitted(req[t])
    BY <1>4 DEF LoadField, StoreNew, StoreAddRef, StoreFree, CallInv, Locked
  <2>3. table' = Store!Effect(table, req[t])
    <3>1. CASE LoadField(t)
      BY <2>2, <3>1, SameOperators DEF LoadField
    <3>2. CASE StoreNew(t)
      BY <2>2, <3>2, SameOperators DEF StoreNew, CallInv
    <3>3. CASE StoreAddRef(t)
      BY <2>2, <3>3, SameOperators DEF StoreAddRef, CallInv
    <3>4. CASE StoreFree(t)
      BY <2>2, <3>4, SameOperators DEF StoreFree, CallInv
    <3> QED
      BY <1>4, <3>1, <3>2, <3>3, <3>4
  <2>4. ret' = [ret EXCEPT ![t] = Store!Result(table, req[t])]
    <3>1. CASE LoadField(t)
      BY <2>2, <3>1, SameOperators, Zenon DEF LoadField
    <3>2. CASE StoreNew(t)
      BY <2>2, <3>2, SameOperators, Zenon DEF StoreNew, CallInv
    <3>3. CASE StoreAddRef(t) \/ StoreFree(t)
      <4>1. Store!Result(table, req[t]) = 0
        BY <2>2, <3>3, SameOperators DEF StoreAddRef, StoreFree
      <4>2. ret' = ret /\ ret[t] = 0
        BY <3>3 DEF StoreAddRef, StoreFree, CallInv
      <4> QED
        BY <4>1, <4>2 DEF TypeOK
    <3> QED
      BY <1>4, <3>1, <3>2, <3>3
  <2>5. UNCHANGED req
    BY <1>4 DEF LoadField, StoreNew, StoreAddRef, StoreFree
  <2>6. Store!Perform(t)
    BY <2>1, <2>3, <2>4, <2>5 DEF Store!Perform
  <2> QED
    BY <2>6 DEF Store!SNext
<1>5. ASSUME NEW t \in Threads, Return(t)
      PROVE  Store!SNext
  <2>1. Phase[t] = "done" /\ Phase' = [Phase EXCEPT ![t] = "idle"]
    BY <1>5, PhaseStep, Zenon DEF Return, Phase
  <2>2. Store!Finish(t)
    BY <1>5, <2>1 DEF Return, Store!Finish
  <2> QED
    BY <2>2 DEF Store!SNext
<1>6. CASE UNCHANGED vars
  BY <1>6 DEF vars, Store!svars, Phase
<1> QED
  BY <1>1, <1>2, <1>3, <1>4, <1>5, <1>6 DEF Next, Step

\* Every wine_handle_* call takes effect atomically, for any number of threads.
THEOREM Atomicity == Spec => AtomicCalls
<1>1. Init => Store!SInit
  BY DEF Init, Store!SInit, Phase, InitialTable, Store!InitialTable, Handle, Store!Handle,
         NewSlot, Store!NewSlot, ClearedSlot, Store!ClearedSlot, FirstDynamic,
         Store!FirstDynamic, NO_TYPE, Store!NO_TYPE, NULL, Store!NULL, HANDLE_TYPE_FILE,
         Store!HANDLE_TYPE_FILE
<1> QED
  BY <1>1, Invariance, StepSimulation, PTL DEF Spec, AtomicCalls, Store!SSpec
=============================================================================
