-------------------------- MODULE MCHandleManager --------------------------
(***************************************************************************)
(* The handle manager, and the clock of one timed wait.  They share no     *)
(* state, so each behaviour follows one of them, which `half` names.       *)
(*                                                                         *)
(* Two threads on a table with two allocatable slots and a count that      *)
(* saturates at two.  The inputs are a standard stream, both allocatable   *)
(* handles and a number outside the table.  Slices of at most three        *)
(* microseconds and waits of up to ten.                                    *)
(***************************************************************************)
EXTENDS HandleManager, TimedWait

CONSTANTS t1, t2

MCThreads == {t1, t2}
MCTypes == {HANDLE_TYPE_FILE, HANDLE_TYPE_EVENT}
MCObjects == {7}
MCInputs == {1, 3, 4, 5}
WholeUs == {UnitsPerUs * n : n \in 1 .. 10}   \* what WaitForSingleObject passes

VARIABLE half

MCInit ==
    /\ half \in {"handles", "wait"}
    /\ half = "handles" => delay = UnitsPerUs /\ event_set = 0
    /\ Init /\ WaitInit
MCNext ==
    \/ half = "handles" /\ Next /\ UNCHANGED <<half, waitVars>>
    \/ half = "wait" /\ WaitNext /\ UNCHANGED <<half, vars>>

\* A thread in a call keeps running, and so does the one that waits.
MCFairSpec ==
    /\ MCInit /\ [][MCNext]_<<half, vars, waitVars>>
    /\ \A t \in Threads : WF_vars(half = "handles" /\ Step(t))
    /\ WF_waitVars(half = "wait" /\ (Loop \/ Sleep \/ LastLook))
=============================================================================
