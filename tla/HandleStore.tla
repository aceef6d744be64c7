---------------------------- MODULE HandleStore ----------------------------
(***************************************************************************)
(* What the handle manager promises its callers: every wine_handle_* call  *)
(* takes effect on the table in one step somewhere between its invocation  *)
(* and its return, and returns what that step computes.  HandleManager is  *)
(* shown to implement this.                                                *)
(***************************************************************************)
EXTENDS HandleTable

CONSTANTS Threads,   \* the threads of the process
          Types,     \* the type tags passed to wine_handle_alloc
          Objects,   \* the object pointers passed to wine_handle_alloc
          Inputs     \* the handle values callers pass, out of range included

VARIABLES table, phase, req, ret
svars == <<table, phase, req, ret>>

HandleOps == {"get", "get_type", "add_ref", "free"}

\* A call in progress; the fields a call does not have are 0
Request ==
    [op : {"alloc"}, handle : {0}, type : Types, object : Objects]
        \cup [op : HandleOps, handle : Inputs, type : {NO_TYPE}, object : {NULL}]
NoRequest == [op |-> "none", handle |-> 0, type |-> NO_TYPE, object |-> NULL]

\* The returns before the lock is taken
ReturnsEarly(r) ==
    /\ r.op # "alloc"
    /\ ~InTable(r.handle) \/ (r.op = "free" /\ r.handle < FirstDynamic)

Effect(tbl, r) ==
    CASE ReturnsEarly(r) -> tbl
      [] r.op = "alloc" -> AfterAlloc(tbl, r.type, r.object)
      [] r.op = "add_ref" /\ ~ReturnsEarly(r) -> AfterAddRef(tbl, r.handle)
      [] r.op = "free" /\ ~ReturnsEarly(r) -> AfterFree(tbl, r.handle)
      [] OTHER -> tbl

Result(tbl, r) ==
    CASE ReturnsEarly(r) -> 0
      [] r.op = "alloc" -> FirstFree(tbl)
      [] r.op = "get" /\ ~ReturnsEarly(r) -> ObjectOf(tbl, r.handle)
      [] r.op = "get_type" /\ ~ReturnsEarly(r) -> TypeOf(tbl, r.handle)
      [] OTHER -> 0

SInit ==
    /\ table = InitialTable
    /\ phase = [t \in Threads |-> "idle"]
    /\ req = [t \in Threads |-> NoRequest]
    /\ ret = [t \in Threads |-> 0]

Invoke(t, r) ==
    /\ phase[t] = "idle"
    /\ phase' = [phase EXCEPT ![t] = "pending"]
    /\ req' = [req EXCEPT ![t] = r]
    /\ UNCHANGED <<table, ret>>

Perform(t) ==
    /\ phase[t] = "pending"
    /\ phase' = [phase EXCEPT ![t] = "done"]
    /\ table' = Effect(table, req[t])
    /\ ret' = [ret EXCEPT ![t] = Result(table, req[t])]
    /\ UNCHANGED req

Finish(t) ==
    /\ phase[t] = "done"
    /\ phase' = [phase EXCEPT ![t] = "idle"]
    /\ req' = [req EXCEPT ![t] = NoRequest]
    /\ ret' = [ret EXCEPT ![t] = 0]
    /\ UNCHANGED table

SNext ==
    \E t \in Threads :
        \/ \E r \in Request : Invoke(t, r)
        \/ Perform(t)
        \/ Finish(t)

SSpec == SInit /\ [][SNext]_svars
=============================================================================
