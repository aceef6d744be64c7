------------------------ MODULE KernelObjectsProofs ------------------------
(***************************************************************************)
(* Proofs about the kernel objects of ntdll: the tables of g_ko            *)
(* (KernelObjects) when one thread at a time calls, and the timed wait     *)
(* (TimedWait).                                                            *)
(***************************************************************************)
EXTENDS KernelObjects, TimedWait, NumberLemmas, FiniteSetTheorems

-----------------------------------------------------------------------------
(* The timed wait *)

\* What the loop of NtWaitForSingleObject knows at each point.  The slice it is
\* about to sleep fits into what is left of the delay, which is why the time
\* counted as elapsed can reach the delay and never pass it.
WaitInv ==
    /\ delay \in Nat /\ elapsed \in Nat /\ sleep_us \in Nat /\ real \in Nat
    /\ cut \in BOOLEAN
    /\ wpc \in {"loop", "sleep", "last_look", "done"}
    /\ elapsed + sleep_us * UnitsPerUs <= delay
    /\ wpc # "sleep" => sleep_us = 0
    /\ ~cut => real = elapsed
    /\ wpc = "last_look" => elapsed = delay
    /\ wait_status = "TIMEOUT" => elapsed = delay

\* The slice is a whole number of microseconds no longer than what is left.
LEMMA SliceFits ==
    ASSUME NEW remaining \in Nat
    PROVE  Slice(remaining) \in Nat /\ Slice(remaining) * UnitsPerUs <= remaining
<1>1. /\ remaining \div 10 \in Nat
      /\ (remaining \div 10) * 10 <= remaining
  OBVIOUS
<1>2. MAX_SLEEP_US \in Nat
  BY WaitAssumption
<1> QED
  BY <1>1, <1>2 DEF Slice, UnitsPerUs

\* The wait starts with nothing elapsed.
LEMMA WaitInitInv == WaitInit => WaitInv
<1> SUFFICES ASSUME WaitInit PROVE WaitInv
  OBVIOUS
<1>1. delay \in Nat
  BY WaitAssumption DEF WaitInit
<1>2. elapsed + sleep_us * UnitsPerUs <= delay
  BY <1>1 DEF WaitInit, UnitsPerUs
<1> QED
  BY <1>1, <1>2, Zenon DEF WaitInit, WaitInv

\* Every turn of the loop, every sleep and every signal keeps the account.
LEMMA WaitStepInv == WaitInv /\ [WaitNext]_waitVars => WaitInv'
<1> SUFFICES ASSUME WaitInv, [WaitNext]_waitVars PROVE WaitInv'
  OBVIOUS
<1>1. CASE Set
  BY <1>1 DEF Set, WaitInv
<1>2. CASE Loop
  <2>1. CASE elapsed < delay /\ event_set # 1
    <3>1. delay - elapsed \in Nat
      BY <2>1 DEF WaitInv
    <3>2. Slice(delay - elapsed) \in Nat /\ Slice(delay - elapsed) * 10 <= delay - elapsed
      BY <3>1, SliceFits DEF UnitsPerUs
    <3> QED
      BY <1>2, <2>1, <3>2 DEF Loop, WaitInv, UnitsPerUs
  <2>2. CASE ~(elapsed < delay /\ event_set # 1)
    BY <1>2, <2>2 DEF Loop, Answer, WaitInv, UnitsPerUs
  <2> QED
    BY <2>1, <2>2
<1>3. CASE Sleep
  BY <1>3 DEF Sleep, WaitInv, UnitsPerUs
<1>4. CASE Interrupted
  BY <1>4 DEF Interrupted, WaitInv, UnitsPerUs
<1>5. CASE LastLook
  BY <1>5 DEF LastLook, Answer, WaitInv, UnitsPerUs
<1>6. CASE UNCHANGED waitVars
  BY <1>6 DEF waitVars, WaitInv
<1> QED
  BY <1>1, <1>2, <1>3, <1>4, <1>5, <1>6 DEF WaitNext

\* For every delay and every longest slice: the elapsed time never passes the
\* delay, and a wait no signal disturbed times out after exactly the delay.
THEOREM WaitLength == WaitSpec => []SlicesAddUp
<1>1. WaitInv => SlicesAddUp
  BY DEF WaitInv, SlicesAddUp, UnitsPerUs
<1> QED
  BY <1>1, WaitInitInv, WaitStepInv, PTL DEF WaitSpec

-----------------------------------------------------------------------------
(* The tables of g_ko, with one guest thread calling *)

\* No handler takes the lock of g_ko; the tables are consistent when one thread
\* makes all the calls (the run event_race shows what two can do).
OneCaller == \E t : Callers = {t}

Creating == {"read_count", "set_count", "alloc", "rollback", "publish"}
Holding == {"alloc", "rollback", "publish"}    \* an entry is counted, not published
KoLabels ==
    Creating \cup {"idle", "done", "look", "last_look", "take", "release",
                  "CreateEventA", "NtCreateMutex", "NtCreateSemaphore", "NtSetEvent",
                  "NtResetEvent", "NtReleaseMutex", "NtClose", "NtWaitForSingleObject"}

\* One reference for every handle: nothing here calls wine_handle_add_ref
TablesInv ==
    /\ handle_table \in [Handle -> Slot]
    /\ \A h \in Dynamic : handle_table[h].ref_count <= 1
    /\ count \in [AllKinds -> Nat]
    /\ successes \in [AllKinds -> Nat]
    /\ \A k \in AllKinds : count[k] <= Limit[k]
    /\ owner = [k \in AllKinds |-> owner[k]]
    /\ \A k \in AllKinds : owner[k] \in [Slots(k) -> Handle]
    /\ made \in [Handle -> Int]

\* What the thread knows at each point of a creation and of NtClose
FrameInv ==
    /\ kpc \in [Callers -> KoLabels]
    /\ slot \in [Callers -> Int]
    /\ handle \in [Callers -> Handle]
    /\ call = [t \in Callers |-> call[t]]
    /\ \A t \in Callers :
         /\ kpc[t] \in Creating \cup {"CreateEventA", "NtCreateMutex", "NtCreateSemaphore"} =>
                call[t].kind \in AllKinds
         /\ kpc[t] \in {"read_count", "set_count"} => count[call[t].kind] < Limit[call[t].kind]
         /\ kpc[t] = "set_count" => slot[t] = count[call[t].kind]
         /\ kpc[t] \in Holding => slot[t] = count[call[t].kind] - 1
         /\ kpc[t] = "publish" => /\ handle[t] \in Dynamic
                                  /\ handle_table[handle[t]] =
                                         NewSlot(handle[t], TypeTag[call[t].kind], 1)
         /\ kpc[t] = "NtClose" => call[t].handle \in Handle
         /\ kpc[t] = "release" => call[t].handle \in Dynamic

\* The count is the number of creations that succeeded, and the one under way
CountInv ==
    \A t \in Callers : \A k \in AllKinds :
        count[k] = successes[k] + (IF kpc[t] \in Holding /\ call[t].kind = k THEN 1 ELSE 0)

\* Entries carry a handle once published, and only then
OwnerInv ==
    \A k \in AllKinds : \A i \in Slots(k) :
        IF i < successes[k] THEN owner[k][i] \in Dynamic ELSE owner[k][i] = 0

Published(h) == {i \in 0 .. successes["event"] - 1 : owner["event"][i] = h}

\* An open event, its entry once published, has an entry; and just one unless
\* its number had belonged to an event before
EventInv ==
    \A h \in Dynamic :
        /\ TypeOf(handle_table, h) = HANDLE_TYPE_EVENT
        /\ \A t \in Callers : ~ (kpc[t] = "publish" /\ handle[t] = h)
        => /\ Published(h) # {}
           /\ h \notin recycled => Published(h) = {made[h]}

\* The inductive invariant
KoInv == TablesInv /\ FrameInv /\ CountInv /\ OwnerInv /\ EventInv

-----------------------------------------------------------------------------
(* The operators of HandleTable and KernelObjects *)

\* The scan of wine_handle_alloc answers a free dynamic handle, or 0.
LEMMA ScanFindsFree ==
    ASSUME NEW tbl
    PROVE  FirstFree(tbl) \in FreeHandles(tbl) \cup {0}
<1>1. FreeHandles(tbl) \in SUBSET Nat
  BY TableAssumption DEF FreeHandles, Dynamic, FirstDynamic
<1>2. CASE FreeHandles(tbl) # {}
  <2>1. \E h \in FreeHandles(tbl) : \A g \in FreeHandles(tbl) : h <= g
    BY <1>1, <1>2, LeastNatural
  <2> QED
    BY <1>2, <2>1 DEF FirstFree
<1> QED
  BY <1>2 DEF FirstFree

\* find_event and find_mutex answer an entry that carries the handle, and -1
\* when there is none.
LEMMA FindFacts ==
    ASSUME NEW k, NEW h, count[k] \in Nat
    PROVE  LET hits == {i \in 0 .. count[k] - 1 : owner[k][i] = h} IN
           /\ hits = {} => Find(k, h) = -1
           /\ hits # {} => Find(k, h) \in hits
<1> DEFINE hits == {i \in 0 .. count[k] - 1 : owner[k][i] = h}
<1>1. CASE hits # {}
  <2>1. hits \in SUBSET Nat
    OBVIOUS
  <2>2. \E i \in hits : \A j \in hits : i <= j
    BY <1>1, <2>1, LeastNatural, Zenon
  <2>3. (CHOOSE i \in hits : \A j \in hits : i <= j) \in hits
    BY <2>2
  <2> QED
    BY <1>1, <2>3 DEF Find
<1>2. CASE hits = {}
  BY <1>2 DEF Find
<1> QED
  BY <1>1, <1>2

\* With one caller a table has one entry more than its limit.
LEMMA SlotRange ==
    ASSUME OneCaller, NEW k \in AllKinds
    PROVE  Limit[k] \in Nat \ {0} /\ Slots(k) = 0 .. Limit[k]
<1>1. Cardinality(Callers) = 1
  BY FS_Singleton DEF OneCaller
<1>2. Limit[k] \in Nat /\ Limit[k] > 0
  BY ObjectsAssumption DEF Limit, AllKinds
<1> QED
  BY <1>1, <1>2 DEF Slots

\* Every call the guest makes names its handler and carries its arguments.
LEMMA CallFacts ==
    ASSUME NEW c \in Calls
    PROVE  /\ c.op \in {"CreateEventA", "NtCreateMutex", "NtCreateSemaphore", "NtSetEvent",
                        "NtResetEvent", "NtReleaseMutex", "NtClose", "NtWaitForSingleObject"}
           /\ c.op \in {"CreateEventA", "NtCreateMutex", "NtCreateSemaphore"} => c.kind \in AllKinds
           /\ c.op = "NtClose" => c.handle \in Handle
<1>1. CASE c \in CreateCalls
  BY <1>1 DEF CreateCalls, AllKinds
<1>2. CASE c \in HandleCalls
  BY <1>2, ObjectsAssumption DEF HandleCalls
<1> QED
  BY <1>1, <1>2 DEF Calls

\* A handle the table gives out was free, and a release frees the one handle it
\* names: every other slot stays as it was.
LEMMA AllocFacts ==
    ASSUME NEW tbl \in [Handle -> Slot], NEW type \in Nat
    PROVE  LET h == FirstFree(tbl)
               new == AfterAlloc(tbl, type, 1)
           IN  /\ new \in [Handle -> Slot]
               /\ h = 0 => new = tbl
               /\ h # 0 => /\ h \in Dynamic /\ tbl[h].ref_count = 0
                           /\ new[h] = NewSlot(h, type, 1)
                           /\ \A g \in Handle : g # h => new[g] = tbl[g]
<1> DEFINE h == FirstFree(tbl)
           new == AfterAlloc(tbl, type, 1)
<1>1. h = 0 \/ (h \in Dynamic /\ tbl[h].ref_count = 0)
  BY ScanFindsFree DEF FreeHandles
<1>2. CASE h = 0
  BY <1>2 DEF AfterAlloc, WithNew
<1>3. CASE h # 0
  <2>1. h \in Handle /\ h \in Nat
    BY <1>1, <1>3, TableAssumption DEF Dynamic, FirstDynamic, Handle
  <2>2. new = [tbl EXCEPT ![h] = NewSlot(h, type, 1)]
    BY <1>3 DEF AfterAlloc, WithNew
  <2>3. NewSlot(h, type, 1) \in Slot
    BY <2>1, TableAssumption DEF NewSlot, Slot
  <2> QED
    BY <1>1, <1>3, <2>1, <2>2, <2>3
<1> QED
  BY <1>2, <1>3

LEMMA FreeFacts ==
    ASSUME NEW tbl \in [Handle -> Slot], NEW h \in Dynamic, tbl[h].ref_count <= 1
    PROVE  /\ AfterFree(tbl, h) \in [Handle -> Slot]
           /\ AfterFree(tbl, h)[h].ref_count = 0
           /\ \A g \in Handle : g # h => AfterFree(tbl, h)[g] = tbl[g]
<1>1. h \in Handle /\ h \in Nat /\ InTable(h) /\ ~ (h < FirstDynamic)
  BY TableAssumption DEF Dynamic, FirstDynamic, Handle, InTable
<1>2. tbl[h].ref_count \in Nat
  BY <1>1 DEF Slot
<1>3. ClearedSlot \in Slot /\ ClearedSlot.ref_count = 0
  BY TableAssumption DEF ClearedSlot, Slot, NO_TYPE, NULL
<1>4. CASE tbl[h].ref_count = 0
  BY <1>1, <1>4 DEF AfterFree, Dropped
<1>5. CASE tbl[h].ref_count = 1
  BY <1>1, <1>3, <1>5 DEF AfterFree, Dropped
<1> QED
  BY <1>2, <1>4, <1>5

-----------------------------------------------------------------------------
(* The invariant *)

\* Nothing is created before the first call.
LEMMA KoInitInv == OneCaller /\ KoInit => KoInv
<1> SUFFICES ASSUME OneCaller, KoInit PROVE KoInv
  OBVIOUS
<1>1. InitialTable \in [Handle -> Slot] /\ \A h \in Dynamic : InitialTable[h].ref_count = 0
  <2>1. ClearedSlot \in Slot /\ ClearedSlot.ref_count = 0
    BY TableAssumption DEF ClearedSlot, Slot, NO_TYPE, NULL
  <2>2. \A h \in Handle : NewSlot(h, HANDLE_TYPE_FILE, h) \in Slot
    BY TableAssumption DEF NewSlot, Slot, HANDLE_TYPE_FILE, Handle
  <2>3. \A h \in Dynamic : h \in Handle /\ ~ (h < FirstDynamic)
    BY TableAssumption DEF Dynamic, Handle, FirstDynamic
  <2> QED
    BY <2>1, <2>2, <2>3 DEF InitialTable
<1>2. \A k \in AllKinds : Limit[k] \in Nat \ {0} /\ Slots(k) = 0 .. Limit[k]
  BY SlotRange
<1>3. 0 \in Handle
  BY TableAssumption DEF Handle
<1>4. TablesInv
  BY <1>1, <1>2, <1>3 DEF KoInit, TablesInv, Unmade
<1>5. FrameInv
  BY <1>3 DEF KoInit, FrameInv, KoLabels, Creating, Holding
<1>6. CountInv /\ OwnerInv
  BY <1>2 DEF KoInit, CountInv, OwnerInv, Holding
<1>7. EventInv
  BY <1>1 DEF KoInit, EventInv, TypeOf, NO_TYPE, HANDLE_TYPE_EVENT
<1> QED
  BY <1>4, <1>5, <1>6, <1>7 DEF KoInv

\* A step that creates and closes nothing only has to keep what the thread
\* knows about its own call.
LEMMA AsideStep ==
    ASSUME KoInv, NEW t, Callers = {t}, kpc[t] \notin Holding, kpc'[t] \notin Holding,
           UNCHANGED <<handle_table, count, owner, made, successes, recycled>>, FrameInv'
    PROVE  KoInv'
<1>1. TablesInv'
  BY DEF KoInv, TablesInv
<1>2. CountInv' /\ OwnerInv'
  BY DEF KoInv, CountInv, OwnerInv
<1>3. \A h : Published(h)' = Published(h)
  BY DEF Published
<1>4. EventInv'
  BY <1>3 DEF KoInv, EventInv, Holding
<1> QED
  BY <1>1, <1>2, <1>4 DEF KoInv

\* At these points the thread relies on nothing.
LEMMA FrameAnywhere ==
    ASSUME FrameInv, NEW t, Callers = {t}, NEW label \in {"idle", "done", "look", "last_look", "take"},
           kpc' = [kpc EXCEPT ![t] = label],
           slot' \in [Callers -> Int], handle' \in [Callers -> Handle],
           call' = [u \in Callers |-> call'[u]]
    PROVE  FrameInv' /\ kpc'[t] \notin Holding
<1>1. kpc' \in [Callers -> KoLabels] /\ kpc'[t] = label
  BY DEF FrameInv, KoLabels
<1> QED
  BY <1>1 DEF FrameInv, Creating, Holding

\* wine_handle_alloc takes a handle that was free: no open handle is disturbed.
LEMMA AllocStep ==
    ASSUME KoInv, NEW t, Callers = {t}, AllocHandle(t)
    PROVE  KoInv'
<1> DEFINE h == FirstFree(handle_table)
           tag == TypeTag[call[t].kind]
<1>1. call[t].kind \in AllKinds /\ tag \in Nat /\ kpc[t] = "alloc"
  BY DEF KoInv, FrameInv, AllocHandle, Creating, TypeTag, AllKinds, HANDLE_TYPE_EVENT,
         HANDLE_TYPE_MUTEX, HANDLE_TYPE_SEMAPHORE
<1>2. handle_table \in [Handle -> Slot]
  BY DEF KoInv, TablesInv
<1>3. /\ handle_table' \in [Handle -> Slot]
      /\ h = 0 => handle_table' = handle_table
      /\ h # 0 => /\ h \in Dynamic
                  /\ handle_table[h].ref_count = 0
                  /\ handle_table'[h] = NewSlot(h, tag, 1)
                  /\ \A g \in Handle : g # h => handle_table'[g] = handle_table[g]
  BY <1>1, <1>2, AllocFacts DEF AllocHandle
<1>4. Dynamic \subseteq Handle /\ 0 \in Handle /\ h \in Handle
  BY <1>3, TableAssumption DEF Dynamic, Handle, FirstDynamic
<1>5. /\ kpc' = [kpc EXCEPT ![t] = IF h = 0 THEN "rollback" ELSE "publish"]
      /\ handle' = [handle EXCEPT ![t] = h]
      /\ UNCHANGED <<count, owner, call, slot, made, successes, recycled>>
  BY DEF AllocHandle, KoGoto, ko_tables, history
<1>6. TablesInv'
  <2>1. \A g \in Dynamic : handle_table'[g].ref_count <= 1
    BY <1>3, <1>4 DEF KoInv, TablesInv, NewSlot
  <2> QED
    BY <1>3, <1>5, <2>1 DEF KoInv, TablesInv
<1>7. kpc'[t] \in {"rollback", "publish"} /\ handle'[t] = h /\ (kpc'[t] = "publish" <=> h # 0)
  BY <1>5 DEF KoInv, FrameInv
<1>8. FrameInv'
  <2>1. kpc' \in [Callers -> KoLabels] /\ handle' \in [Callers -> Handle]
    BY <1>4, <1>5 DEF KoInv, FrameInv, KoLabels, Creating
  <2>2. slot[t] = count[call[t].kind] - 1
    BY <1>1 DEF KoInv, FrameInv, Holding
  <2> QED
    BY <1>1, <1>3, <1>5, <1>7, <2>1, <2>2 DEF KoInv, FrameInv, Creating, Holding
<1>9. CountInv' /\ OwnerInv'
  BY <1>1, <1>5, <1>7 DEF KoInv, CountInv, OwnerInv, Holding
<1>10. EventInv'
  <2>1. \A g : Published(g)' = Published(g)
    BY <1>5 DEF Published
  <2>2. \A g \in Dynamic : g # h \/ h = 0 => handle_table'[g] = handle_table[g]
    BY <1>3, <1>4
  <2>3. \A g \in Dynamic : g = h => kpc'[t] = "publish" /\ handle'[t] = g
    BY <1>7, TableAssumption DEF Dynamic, FirstDynamic
  <2> QED
    BY <1>1, <1>5, <2>1, <2>2, <2>3 DEF KoInv, EventInv, TypeOf
<1> QED
  BY <1>6, <1>8, <1>9, <1>10 DEF KoInv

\* The stores of a creation that succeeded: the entry was nobody's, and the
\* handle was not open before.
LEMMA PublishStep ==
    ASSUME KoInv, NEW t, Callers = {t}, OneCaller, Publish(t)
    PROVE  KoInv'
<1> DEFINE k == call[t].kind
           i == slot[t]
           h == handle[t]
<1>1. /\ k \in AllKinds /\ kpc[t] = "publish" /\ h \in Dynamic
      /\ i = successes[k] /\ count[k] = i + 1 /\ i \in Nat
      /\ handle_table[h] = NewSlot(h, TypeTag[k], 1)
  BY SMTT(30) DEF Publish, KoInv, FrameInv, CountInv, TablesInv, Creating, Holding
<1>2. \A m \in AllKinds : Limit[m] \in Nat \ {0} /\ Slots(m) = 0 .. Limit[m]
  BY SlotRange
<1>3. i \in Slots(k)
  BY <1>1, <1>2 DEF KoInv, TablesInv
<1>4. /\ owner' = [owner EXCEPT ![k][i] = h]
      /\ made' = [made EXCEPT ![h] = i]
      /\ successes' = [successes EXCEPT ![k] = @ + 1]
      /\ recycled' = IF k = "event" /\ Find("event", h) # -1 THEN recycled \cup {h} ELSE recycled
      /\ kpc' = [kpc EXCEPT ![t] = "done"]
      /\ UNCHANGED <<handle_table, count, call, slot, handle>>
  BY DEF Publish, KoFinish, KoGoto
<1>5. Dynamic \subseteq Handle
  BY TableAssumption DEF Dynamic, Handle, FirstDynamic
<1>6. /\ \A m \in AllKinds : owner'[m] \in [Slots(m) -> Handle]
      /\ \A m \in AllKinds : m # k => owner'[m] = owner[m] /\ successes'[m] = successes[m]
      /\ owner'[k] = [owner[k] EXCEPT ![i] = h]
      /\ owner' = [m \in AllKinds |-> owner'[m]]
      /\ successes' \in [AllKinds -> Nat] /\ successes'[k] = i + 1
      /\ made' \in [Handle -> Int]
  <2>1. /\ owner = [m \in AllKinds |-> owner[m]] /\ owner[k] \in [Slots(k) -> Handle]
        /\ \A m \in AllKinds : owner[m] \in [Slots(m) -> Handle]
        /\ successes \in [AllKinds -> Nat] /\ made \in [Handle -> Int]
    BY <1>1 DEF KoInv, TablesInv
  <2>2. /\ owner'[k] = [owner[k] EXCEPT ![i] = h]
        /\ \A m \in AllKinds : m # k => owner'[m] = owner[m]
        /\ owner' = [m \in AllKinds |-> owner'[m]]
    BY <1>1, <1>4, <2>1
  <2>3. [owner[k] EXCEPT ![i] = h] \in [Slots(k) -> Handle]
    BY <1>1, <1>5, <2>1, Zenon
  <2>4. \A m \in AllKinds : owner'[m] \in [Slots(m) -> Handle]
    BY <2>1, <2>2, <2>3, Zenon
  <2>5. /\ successes' \in [AllKinds -> Nat] /\ successes'[k] = i + 1
        /\ \A m \in AllKinds : m # k => successes'[m] = successes[m]
    BY SMTT(30), <1>1, <1>4, <2>1
  <2>6. made' \in [Handle -> Int]
    BY SMTT(30), <1>1, <1>4, <1>5, <2>1
  <2> QED
    BY <2>2, <2>4, <2>5, <2>6
<1>7. TablesInv'
  <2>1. TablesInv
    BY DEF KoInv
  <2> QED
    BY <1>4, <1>6, <2>1, Zenon DEF TablesInv
<1>8. FrameInv' /\ kpc'[t] = "done"
  BY <1>4, FrameAnywhere, Zenon DEF KoInv, FrameInv
<1>9. CountInv'
  <2>1. count' = count /\ \A m \in AllKinds : count[m] \in Nat /\ successes[m] \in Nat
    BY <1>4 DEF KoInv, TablesInv
  <2>2. ASSUME NEW m \in AllKinds PROVE count[m] = successes'[m]
    <3>1. CASE m = k
      BY <1>1, <1>6, <3>1
    <3>2. CASE m # k
      <4>1. count[m] = successes[m] + 0
        BY <1>1, <3>2 DEF KoInv, CountInv
      <4> QED
        BY <1>6, <2>1, <3>2, <4>1
    <3> QED
      BY <3>1, <3>2
  <2>3. \A m \in AllKinds : successes'[m] = successes'[m] + 0
    BY <1>6
  <2>4. kpc'[t] \notin Holding
    BY <1>8 DEF Holding
  <2> QED
    BY <2>1, <2>2, <2>3, <2>4 DEF CountInv
<1>10. OwnerInv'
  <2> SUFFICES ASSUME NEW m \in AllKinds, NEW j \in Slots(m)
               PROVE  IF j < successes'[m] THEN owner'[m][j] \in Dynamic ELSE owner'[m][j] = 0
    BY DEF OwnerInv, Slots
  <2>1. IF j < successes[m] THEN owner[m][j] \in Dynamic ELSE owner[m][j] = 0
    BY DEF KoInv, OwnerInv
  <2>2. CASE m # k
    BY <1>6, <2>1, <2>2
  <2>3. CASE m = k /\ j = i
    BY SMTT(30), <1>1, <1>3, <1>6, <2>3 DEF KoInv, TablesInv
  <2>4. CASE m = k /\ j # i
    <3>1. owner'[m][j] = owner[m][j]
      BY <1>6, <2>4 DEF KoInv, TablesInv
    <3>2. j \in Nat
      BY <1>2
    <3>3. j < successes'[m] <=> j < successes[m]
      <4>1. successes[m] = i /\ successes'[m] = i + 1 /\ j # i
        BY <1>1, <1>6, <2>4
      <4>2. i \in Nat
        BY <1>1
      <4> QED
        BY <3>2, <4>1, <4>2
    <3> QED
      BY <2>1, <3>1, <3>3
  <2> QED
    BY <2>2, <2>3, <2>4
<1>11. EventInv'
  <2> SUFFICES ASSUME NEW g \in Dynamic, TypeOf(handle_table, g) = HANDLE_TYPE_EVENT
               PROVE  /\ Published(g)' # {}
                      /\ g \notin recycled' => Published(g)' = {made'[g]}
    BY <1>4 DEF EventInv
  <2>1. g # h => /\ Published(g) # {}
                 /\ g \notin recycled => Published(g) = {made[g]}
    BY <1>1 DEF KoInv, EventInv
  <2>2. g # h => made'[g] = made[g] /\ (g \notin recycled' => g \notin recycled)
    BY <1>4, <1>5 DEF KoInv, TablesInv
  <2>3. CASE k # "event"
    <3>1. Published(g)' = Published(g)
      BY <1>6, <2>3 DEF Published, AllKinds
    <3>2. g # h
      BY SMTT(30), <1>1, <2>3 DEF TypeOf, NewSlot, TypeTag, AllKinds, HANDLE_TYPE_EVENT, HANDLE_TYPE_MUTEX,
                        HANDLE_TYPE_SEMAPHORE
    <3> QED
      BY <2>1, <2>2, <3>1, <3>2
  <2>4. CASE k = "event"
    <3>1. /\ Published(g) = {j \in 0 .. i - 1 : owner[k][j] = g}
          /\ Published(g)' = {j \in 0 .. i : owner'[k][j] = g}
      <4>1. successes["event"] = i /\ successes'["event"] - 1 = i
        BY <1>1, <1>6, <2>4
      <4> QED
        BY <2>4, <4>1 DEF Published
    <3>2. \A j \in 0 .. i : j \in Slots(k)
      BY SMTT(30), <1>1, <1>2, <1>3
    <3>3. /\ \A j \in 0 .. i - 1 : owner'[k][j] = owner[k][j]
          /\ owner'[k][i] = h
      <4>1. owner[k] \in [Slots(k) -> Handle] /\ owner'[k] = [owner[k] EXCEPT ![i] = h]
        BY <1>1, <1>6 DEF KoInv, TablesInv
      <4>2. \A j \in 0 .. i - 1 : j \in 0 .. i /\ j # i
        BY <1>1
      <4> QED
        BY <1>3, <3>2, <4>1, <4>2
    <3>4. CASE g # h
      <4>1. Published(g)' = Published(g)
        BY SMTT(30), <1>1, <3>1, <3>3, <3>4
      <4> QED
        BY <2>1, <2>2, <3>4, <4>1
    <3>5. CASE g = h
      <4>1. i \in Published(g)'
        BY SMTT(30), <1>1, <3>1, <3>3, <3>5
      <4>2. ASSUME g \notin recycled' PROVE Published(g)' = {made'[g]}
        <5>1. Find(k, h) = -1
          BY <1>4, <2>4, <3>5, <4>2
        <5>2. {j \in 0 .. count[k] - 1 : owner[k][j] = h} = {}
          <6>1. count[k] \in Nat
            BY <1>1
          <6> QED
            BY <5>1, <6>1, FindFacts
        <5>3. \A j \in 0 .. i - 1 : owner[k][j] # h
          BY <1>1, <5>2
        <5>4. Published(g)' = {i}
          <6>1. \A j \in 0 .. i : j = i \/ j \in 0 .. i - 1
            BY <1>1
          <6>2. \A j \in 0 .. i : owner'[k][j] = g <=> j = i
            BY <3>3, <3>5, <5>3, <6>1
          <6>3. i \in 0 .. i
            BY <1>1
          <6> QED
            BY <3>1, <6>2, <6>3, Zenon
        <5>5. made'[g] = i
          BY <1>4, <1>5, <3>5 DEF KoInv, TablesInv
        <5> QED
          BY <5>4, <5>5
      <4> QED
        BY <4>1, <4>2
    <3> QED
      BY <3>4, <3>5
  <2> QED
    BY <2>3, <2>4
<1> QED
  BY <1>7, <1>8, <1>9, <1>10, <1>11 DEF KoInv

\* The release of NtClose: the entry stays behind, its handle is open no more.
LEMMA CloseStep ==
    ASSUME KoInv, NEW t, Callers = {t}, CloseRelease(t)
    PROVE  KoInv'
<1> DEFINE h == call[t].handle
<1>1. kpc[t] = "release" /\ h \in Dynamic /\ handle_table \in [Handle -> Slot]
      /\ handle_table[h].ref_count <= 1
  BY DEF CloseRelease, KoInv, FrameInv, TablesInv
<1>2. /\ handle_table' = AfterFree(handle_table, h)
      /\ made' = [made EXCEPT ![h] = Unmade]
      /\ kpc' = [kpc EXCEPT ![t] = "done"]
      /\ UNCHANGED <<count, owner, call, slot, handle, successes, recycled>>
  BY DEF CloseRelease, KoFinish, KoGoto, ko_tables
<1>3. /\ handle_table' \in [Handle -> Slot]
      /\ handle_table'[h].ref_count = 0
      /\ \A g \in Handle : g # h => handle_table'[g] = handle_table[g]
  BY <1>1, <1>2, FreeFacts
<1>4. Dynamic \subseteq Handle
  BY TableAssumption DEF Dynamic, Handle, FirstDynamic
<1>5. TablesInv'
  <2>1. made' \in [Handle -> Int]
    BY <1>1, <1>2, <1>4 DEF KoInv, TablesInv, Unmade
  <2>2. \A g \in Dynamic : handle_table'[g].ref_count <= 1
    BY <1>3, <1>4 DEF KoInv, TablesInv
  <2> QED
    BY <1>2, <1>3, <2>1, <2>2 DEF KoInv, TablesInv
<1>6. FrameInv' /\ kpc'[t] = "done"
  BY <1>2, FrameAnywhere, Zenon DEF KoInv, FrameInv
<1>7. CountInv' /\ OwnerInv'
  BY <1>1, <1>2, <1>6, Zenon DEF KoInv, CountInv, OwnerInv, Holding
<1>8. EventInv'
  <2>1. \A g : Published(g)' = Published(g)
    BY <1>2 DEF Published
  <2>2. \A g \in Dynamic : TypeOf(handle_table', g) = HANDLE_TYPE_EVENT =>
            g # h /\ TypeOf(handle_table, g) = HANDLE_TYPE_EVENT /\ made'[g] = made[g]
    BY <1>2, <1>3, <1>4 DEF TypeOf, NO_TYPE, HANDLE_TYPE_EVENT, KoInv, TablesInv
  <2> QED
    BY <1>1, <1>2, <2>1, <2>2 DEF KoInv, EventInv
<1> QED
  BY <1>5, <1>6, <1>7, <1>8 DEF KoInv

\* The count is taken, and given back when no handle was left.
LEMMA CountSteps ==
    ASSUME KoInv, NEW t, Callers = {t}, SetCount(t) \/ Rollback(t)
    PROVE  KoInv'
<1> DEFINE k == call[t].kind
<1>1. k \in AllKinds /\ count[k] \in Nat /\ count[k] <= Limit[k]
  BY DEF SetCount, Rollback, KoInv, FrameInv, TablesInv, Creating
<1>2. UNCHANGED <<handle_table, owner, call, slot, handle, made, successes, recycled>>
  BY DEF SetCount, Rollback, history
<1>3. \A h : Published(h)' = Published(h)
  BY <1>2 DEF Published
<1>4. CASE SetCount(t)
  <2>1. /\ kpc[t] = "set_count" /\ slot[t] = count[k] /\ count[k] < Limit[k]
        /\ kpc' = [kpc EXCEPT ![t] = "alloc"] /\ count' = [count EXCEPT ![k] = slot[t] + 1]
    BY <1>4, Zenon DEF SetCount, KoGoto, KoInv, FrameInv
  <2>2. kpc' \in [Callers -> KoLabels] /\ kpc'[t] = "alloc"
    BY <2>1 DEF KoInv, FrameInv, KoLabels, Creating
  <2>3. /\ count' \in [AllKinds -> Nat] /\ count'[k] = count[k] + 1
        /\ \A m \in AllKinds : m # k => count'[m] = count[m]
    BY <1>1, <2>1 DEF KoInv, TablesInv
  <2>4. Limit[k] \in Nat
    BY <1>1, ObjectsAssumption DEF Limit, AllKinds
  <2>5. TablesInv'
    BY SMTT(30), <1>1, <1>2, <2>1, <2>3, <2>4 DEF KoInv, TablesInv
  <2>6. FrameInv'
    BY SMTT(30), <1>1, <1>2, <2>1, <2>2, <2>3 DEF KoInv, FrameInv, Creating, Holding
  <2>7. CountInv' /\ OwnerInv'
    BY SMTT(30), <1>1, <1>2, <2>1, <2>2, <2>3 DEF KoInv, CountInv, OwnerInv, Holding, TablesInv
  <2>8. EventInv'
    BY <1>2, <1>3, <2>1, <2>2 DEF KoInv, EventInv
  <2> QED
    BY <2>5, <2>6, <2>7, <2>8 DEF KoInv
<1>5. CASE Rollback(t)
  <2>1. /\ kpc[t] = "rollback" /\ slot[t] = count[k] - 1 /\ count[k] = successes[k] + 1
        /\ successes[k] \in Nat
        /\ kpc' = [kpc EXCEPT ![t] = "done"] /\ count' = [count EXCEPT ![k] = slot[t]]
    BY <1>1, <1>5, Zenon DEF Rollback, KoFinish, KoGoto, KoInv, FrameInv, CountInv, TablesInv, Holding
  <2>2. FrameInv' /\ kpc'[t] = "done"
    BY <1>2, <2>1, FrameAnywhere, Zenon DEF KoInv, FrameInv
  <2>3. /\ count' \in [AllKinds -> Nat] /\ count'[k] = successes[k]
        /\ \A m \in AllKinds : m # k => count'[m] = count[m]
    BY <1>1, <2>1 DEF KoInv, TablesInv
  <2>4. Limit[k] \in Nat
    BY <1>1, ObjectsAssumption DEF Limit, AllKinds
  <2>5. TablesInv'
    BY SMTT(30), <1>1, <1>2, <2>1, <2>3, <2>4 DEF KoInv, TablesInv
  <2>6. CountInv' /\ OwnerInv'
    BY SMTT(30), <1>1, <1>2, <2>1, <2>2, <2>3 DEF KoInv, CountInv, OwnerInv, Holding, TablesInv
  <2>7. EventInv'
    BY <1>2, <1>3, <2>1, <2>2 DEF KoInv, EventInv
  <2> QED
    BY <2>2, <2>5, <2>6, <2>7 DEF KoInv
<1> QED
  BY <1>4, <1>5

\* Every step of the one thread keeps the invariant.
LEMMA KoStepInv == OneCaller /\ KoInv /\ [KoNext]_koVars => KoInv'
<1> SUFFICES ASSUME OneCaller, KoInv, [KoNext]_koVars PROVE KoInv'
  OBVIOUS
<1> PICK t : Callers = {t}
  BY DEF OneCaller
<1> USE DEF KoFinish, KoGoto, ko_tables, history
<1>1. FrameInv
  BY DEF KoInv
<1>2. 0 \in Handle
  BY TableAssumption DEF Handle
<1>3. ASSUME NEW c \in Calls, Begin(t, c) PROVE KoInv'
  <2>1. /\ c.op \in {"CreateEventA", "NtCreateMutex", "NtCreateSemaphore", "NtSetEvent",
                     "NtResetEvent", "NtReleaseMutex", "NtClose", "NtWaitForSingleObject"}
        /\ c.op \in {"CreateEventA", "NtCreateMutex", "NtCreateSemaphore"} => c.kind \in AllKinds
        /\ c.op = "NtClose" => c.handle \in Handle
    BY CallFacts
  <2>2. /\ kpc[t] = "idle" /\ kpc' = [kpc EXCEPT ![t] = c.op] /\ call' = [call EXCEPT ![t] = c]
        /\ UNCHANGED <<handle_table, count, owner, slot, handle, made, successes, recycled>>
    BY <1>3 DEF Begin
  <2>3. /\ kpc' \in [Callers -> KoLabels] /\ kpc'[t] = c.op
        /\ call'[t] = c /\ call' = [u \in Callers |-> call'[u]]
    BY <1>1, <2>1, <2>2 DEF FrameInv, KoLabels
  <2>4. FrameInv'
    BY SMTT(30), <1>1, <2>1, <2>2, <2>3 DEF FrameInv, Creating, Holding
  <2> QED
    BY <2>1, <2>2, <2>3, <2>4, AsideStep DEF Holding
<1>4. ASSUME CheckRoom(t) PROVE KoInv'
  <2>1. CASE kpc' = [kpc EXCEPT ![t] = "done"]
    <3>1. FrameInv' /\ kpc'[t] \notin Holding
      BY <1>1, <1>4, <2>1, FrameAnywhere, Zenon DEF CheckRoom, FrameInv
    <3> QED
      BY <1>4, <3>1, AsideStep DEF CheckRoom, Holding
  <2>2. CASE ~ (kpc' = [kpc EXCEPT ![t] = "done"])
    <3>1. kpc' = [kpc EXCEPT ![t] = "read_count"] /\ ~ (count[call[t].kind] >= Limit[call[t].kind])
      BY <1>4, <2>2 DEF CheckRoom
    <3>2. call[t].kind \in AllKinds
      BY <1>1, <1>4 DEF CheckRoom, FrameInv
    <3>3. count[call[t].kind] \in Nat /\ Limit[call[t].kind] \in Nat
      BY <3>2, ObjectsAssumption DEF KoInv, TablesInv, Limit, AllKinds
    <3>4. kpc' \in [Callers -> KoLabels] /\ kpc'[t] = "read_count"
      BY <1>1, <3>1 DEF FrameInv, KoLabels, Creating
    <3>5. FrameInv'
      BY SMTT(30), <1>1, <1>4, <3>1, <3>2, <3>3, <3>4 DEF CheckRoom, FrameInv, Creating, Holding
    <3> QED
      BY <1>4, <3>4, <3>5, AsideStep DEF CheckRoom, Holding
  <2> QED
    BY <2>1, <2>2
<1>5. ASSUME ReadCount(t) PROVE KoInv'
  <2>1. call[t].kind \in AllKinds /\ count[call[t].kind] \in Nat /\ kpc[t] = "read_count"
    BY <1>1, <1>5 DEF ReadCount, FrameInv, Creating, KoInv, TablesInv
  <2>2. /\ kpc' \in [Callers -> KoLabels] /\ kpc'[t] = "set_count"
        /\ slot' \in [Callers -> Int] /\ slot'[t] = count[call[t].kind]
    BY SMTT(30), <1>1, <1>5, <2>1 DEF ReadCount, FrameInv, KoLabels, Creating
  <2>3. FrameInv'
    BY <1>1, <1>5, <2>1, <2>2 DEF ReadCount, FrameInv, Creating, Holding
  <2> QED
    BY <1>5, <2>2, <2>3, AsideStep DEF ReadCount, Holding
<1>6. ASSUME CloseType(t) PROVE KoInv'
  <2>1. CASE kpc' = [kpc EXCEPT ![t] = "done"]
    <3>1. FrameInv' /\ kpc'[t] \notin Holding
      BY <1>1, <1>6, <2>1, FrameAnywhere, Zenon DEF CloseType, FrameInv
    <3> QED
      BY <1>6, <3>1, AsideStep DEF CloseType, Holding
  <2>2. CASE ~ (kpc' = [kpc EXCEPT ![t] = "done"])
    <3>1. kpc' = [kpc EXCEPT ![t] = "release"] /\ ~ (call[t].handle < FirstDynamic)
      BY <1>6, <2>2 DEF CloseType
    <3>2. call[t].handle \in Dynamic
      BY <1>1, <1>6, <3>1, TableAssumption DEF CloseType, FrameInv, Dynamic, FirstDynamic, Handle
    <3>3. kpc' \in [Callers -> KoLabels] /\ kpc'[t] = "release"
      BY <1>1, <3>1 DEF FrameInv, KoLabels
    <3>4. FrameInv'
      BY <1>1, <1>6, <3>2, <3>3 DEF CloseType, FrameInv, Creating, Holding
    <3> QED
      BY <1>6, <3>3, <3>4, AsideStep DEF CloseType, Holding
  <2> QED
    BY <2>1, <2>2
<1>7. ASSUME SetEvent(t) \/ ResetEvent(t) \/ ReleaseMutex(t) PROVE KoInv'
  <2>1. /\ kpc' = [kpc EXCEPT ![t] = "done"] /\ kpc[t] \notin Holding
        /\ UNCHANGED <<handle_table, count, owner, call, slot, handle, made, successes, recycled>>
    BY <1>7 DEF SetEvent, ResetEvent, ReleaseMutex, Holding
  <2>2. FrameInv' /\ kpc'[t] \notin Holding
    BY <1>1, <2>1, FrameAnywhere, Zenon DEF FrameInv
  <2> QED
    BY <2>1, <2>2, AsideStep
<1>8. ASSUME FindWaited(t) PROVE KoInv'
  <2>1. /\ \E label \in {"done", "look", "last_look"} : kpc' = [kpc EXCEPT ![t] = label]
        /\ kpc[t] \notin Holding
        /\ UNCHANGED <<handle_table, count, owner, call, handle, made, successes, recycled>>
    BY <1>8 DEF FindWaited, Holding
  <2>2. slot' \in [Callers -> Int]
    <3>1. count["event"] \in Nat
      BY DEF KoInv, TablesInv, AllKinds
    <3>2. Find("event", call[t].handle) \in Int
      BY SMTT(30), <3>1, FindFacts
    <3> QED
      BY <1>1, <1>8, <3>2 DEF FindWaited, FrameInv
  <2>3. FrameInv' /\ kpc'[t] \notin Holding
    BY ZenonT(30), <1>1, <2>1, <2>2, FrameAnywhere DEF FrameInv
  <2> QED
    BY <2>1, <2>3, AsideStep
<1>9. ASSUME Look(t) \/ Expire(t) \/ GiveUp(t) \/ Take(t) PROVE KoInv'
  <2>1. /\ \E label \in {"done", "take", "last_look"} : kpc' = [kpc EXCEPT ![t] = label]
        /\ kpc[t] \notin Holding
        /\ UNCHANGED <<handle_table, count, owner, call, slot, handle, made, successes, recycled>>
    BY <1>9 DEF Look, Expire, GiveUp, Take, Holding
  <2>2. FrameInv' /\ kpc'[t] \notin Holding
    BY <1>1, <2>1, FrameAnywhere, Zenon DEF FrameInv
  <2> QED
    BY <2>1, <2>2, AsideStep
<1>10. ASSUME KoReturn(t) PROVE KoInv'
  <2>1. /\ kpc' = [kpc EXCEPT ![t] = "idle"] /\ kpc[t] \notin Holding
        /\ UNCHANGED <<handle_table, count, owner, made, successes, recycled>>
    BY <1>10 DEF KoReturn, Holding
  <2>2. /\ slot' \in [Callers -> Int] /\ handle' \in [Callers -> Handle]
        /\ call' = [u \in Callers |-> call'[u]]
    <3>1. slot \in [Callers -> Int] /\ handle \in [Callers -> Handle]
          /\ call = [u \in Callers |-> call[u]]
      BY <1>1 DEF FrameInv
    <3>2. /\ slot' = [slot EXCEPT ![t] = -1] /\ handle' = [handle EXCEPT ![t] = 0]
          /\ call' = [call EXCEPT ![t] = NoCall]
      BY <1>10 DEF KoReturn
    <3>3. slot' \in [Callers -> Int]
      BY <3>1, <3>2
    <3>4. handle' \in [Callers -> Handle]
      BY <1>2, <3>1, <3>2
    <3>5. call' = [u \in Callers |-> call'[u]]
      BY <3>1, <3>2, Zenon
    <3> QED
      BY <3>3, <3>4, <3>5
  <2>3. FrameInv' /\ kpc'[t] \notin Holding
    BY <1>1, <2>1, <2>2, FrameAnywhere, Zenon
  <2> QED
    BY <2>1, <2>3, AsideStep
<1>11. CASE UNCHANGED koVars
  <2>1. UNCHANGED <<handle_table, count, owner, kpc, call, slot, handle, made, successes, recycled>>
    BY <1>11 DEF koVars, frame
  <2>2. \A h : Published(h)' = Published(h)
    BY <2>1 DEF Published
  <2> QED
    BY SMTT(30), <2>1, <2>2 DEF KoInv, TablesInv, FrameInv, CountInv, OwnerInv, EventInv
<1> QED
  BY <1>3, <1>4, <1>5, <1>6, <1>7, <1>8, <1>9, <1>10, <1>11, AllocStep, PublishStep, CloseStep,
     CountSteps DEF KoNext, KoStep, Create, Wait

\* With one guest thread the creations of ntdll are all or nothing, whatever the
\* sizes of its tables and of the handle table: a creation refused for want of a
\* handle gives its entry back, and the entries of the others stay contiguous.
THEOREM CreationAllOrNothing ==
    ASSUME OneCaller
    PROVE  KoSpec => []AllOrNothing
<1>1. KoInv => AllOrNothing
  <2> SUFFICES ASSUME KoInv, Quiet, NEW k \in AllKinds
               PROVE  count[k] = successes[k] /\ \A i \in 0 .. count[k] - 1 : owner[k][i] \in Dynamic
    BY DEF AllOrNothing
  <2>1. count[k] = successes[k] /\ successes[k] \in Nat /\ successes[k] <= Limit[k]
    BY DEF OneCaller, KoInv, CountInv, TablesInv, Quiet, Holding
  <2>2. Limit[k] \in Nat /\ Slots(k) = 0 .. Limit[k]
    BY SlotRange
  <2> QED
    BY <2>1, <2>2 DEF KoInv, OwnerInv
<1>2. KoInit => KoInv
  BY KoInitInv
<1>3. KoInv /\ [KoNext]_koVars => KoInv'
  BY KoStepInv
<1> QED
  BY <1>1, <1>2, <1>3, PTL DEF KoSpec

\* With one guest thread an open event is one that NtSetEvent, NtResetEvent and
\* NtWaitForSingleObject find, and they find its own entry unless the number of
\* its handle belonged to an earlier event, whose entry NtClose left behind.
THEOREM OpenEventsFound ==
    ASSUME OneCaller
    PROVE  KoSpec => []OwnEntryUnlessRecycled
<1>1. KoInv => OwnEntryUnlessRecycled
  <2> SUFFICES ASSUME KoInv, Quiet, NEW h \in LiveEvents
               PROVE  /\ Find("event", h) # -1
                      /\ h \notin recycled => Find("event", h) = made[h]
    BY DEF OwnEntryUnlessRecycled
  <2>1. count["event"] = successes["event"] /\ count["event"] \in Nat
    BY DEF OneCaller, KoInv, CountInv, TablesInv, Quiet, Holding, AllKinds
  <2>2. Published(h) # {} /\ (h \notin recycled => Published(h) = {made[h]})
    BY DEF KoInv, EventInv, LiveEvents, Quiet
  <2>3. Find("event", h) \in Published(h)
    BY <2>1, <2>2, FindFacts DEF Published
  <2> QED
    BY <2>1, <2>2, <2>3 DEF Published
<1>2. KoInit => KoInv
  BY KoInitInv
<1>3. KoInv /\ [KoNext]_koVars => KoInv'
  BY KoStepInv
<1> QED
  BY <1>1, <1>2, <1>3, PTL DEF KoSpec
=============================================================================
