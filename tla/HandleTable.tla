---------------------------- MODULE HandleTable ----------------------------
(***************************************************************************)
(* The table of the handle manager (src/msvcrt/handle_manager.c) as a      *)
(* value, and what the body of each wine_handle_* function computes from   *)
(* it.  Who may run those bodies, and when, is left to the modules that    *)
(* hold the table in a variable.                                           *)
(*                                                                         *)
(* A `void *object' is a number and NULL is 0, so that the descriptors 0,  *)
(* 1 and 2 of the standard streams are stored as the code stores them.     *)
(***************************************************************************)
EXTENDS Naturals

CONSTANTS HANDLE_TABLE_SIZE,   \* 512 in the source
          MAX_REF              \* largest value of the uint8_t ref_count: 255

ASSUME TableAssumption ==
    /\ HANDLE_TABLE_SIZE \in Nat /\ HANDLE_TABLE_SIZE > 3
    /\ MAX_REF \in Nat /\ MAX_REF > 0

Handle == 0 .. HANDLE_TABLE_SIZE - 1
FirstDynamic == 3
Dynamic == FirstDynamic .. HANDLE_TABLE_SIZE - 1

NULL == 0
NO_TYPE == 0
HANDLE_TYPE_FILE == 1
HANDLE_TYPE_EVENT == 2
HANDLE_TYPE_MUTEX == 3
HANDLE_TYPE_THREAD == 4
HANDLE_TYPE_SEMAPHORE == 5
HANDLE_TYPE_SECTION == 6

Slot == [id : Nat, type : Nat, ref_count : 0 .. MAX_REF, object : Nat]
ClearedSlot == [id |-> 0, type |-> NO_TYPE, ref_count |-> 0, object |-> NULL]
NewSlot(h, type, object) ==
    [id |-> h, type |-> type, ref_count |-> 1, object |-> object]

\* wine_handle_manager_runtime_init: the standard streams, everything else clear
InitialTable ==
    [h \in Handle |-> IF h < FirstDynamic
                      THEN NewSlot(h, HANDLE_TYPE_FILE, h)
                      ELSE ClearedSlot]

\* wine_handle_slot
InTable(h) == h < HANDLE_TABLE_SIZE

\* Mutant: the scan takes a handle with one reference left for a free one
FreeByOne(tbl) == {h \in Dynamic : tbl[h].ref_count <= 1}

\* The scan of wine_handle_alloc; 0 is its error value
FreeHandles(tbl) == {h \in Dynamic : tbl[h].ref_count = 0}
FirstFree(tbl) ==
    IF FreeHandles(tbl) = {} THEN 0
    ELSE CHOOSE h \in FreeHandles(tbl) : \A g \in FreeHandles(tbl) : h <= g

\* The store of wine_handle_alloc into the slot the scan chose
WithNew(tbl, h, type, object) ==
    IF h = 0 THEN tbl ELSE [tbl EXCEPT ![h] = NewSlot(h, type, object)]

ObjectOf(tbl, h) == IF tbl[h].ref_count = 0 THEN NULL ELSE tbl[h].object
TypeOf(tbl, h) == IF tbl[h].ref_count = 0 THEN NO_TYPE ELSE tbl[h].type

\* Mutant: a dead handle is brought back to life
AddedRefToDead(tbl, h, count) ==
    IF count < MAX_REF THEN [tbl EXCEPT ![h].ref_count = count + 1] ELSE tbl

\* wine_handle_add_ref, given the count it loaded: silently saturates
AddedRef(tbl, h, count) ==
    IF count # 0 /\ count < MAX_REF
    THEN [tbl EXCEPT ![h].ref_count = count + 1] ELSE tbl

\* wine_handle_free, given the count it loaded
Dropped(tbl, h, count) ==
    IF count = 0 THEN tbl
    ELSE IF count = 1 THEN [tbl EXCEPT ![h] = ClearedSlot]
    ELSE [tbl EXCEPT ![h].ref_count = count - 1]

(***************************************************************************)
(* The same bodies when nothing runs between the load and the store.       *)
(***************************************************************************)
AfterAlloc(tbl, type, object) == WithNew(tbl, FirstFree(tbl), type, object)
AfterAddRef(tbl, h) == AddedRef(tbl, h, tbl[h].ref_count)
AfterFree(tbl, h) ==
    IF ~InTable(h) \/ h < FirstDynamic THEN tbl
    ELSE Dropped(tbl, h, tbl[h].ref_count)
=============================================================================
