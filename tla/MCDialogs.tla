------------------------------ MODULE MCDialogs ------------------------------
(***************************************************************************)
(* Windows, dialogs and the controls of dialogs.  Controls do not touch    *)
(* the state of windows, so they are explored on their own; "windows"      *)
(* makes every call on windows, "dialogs" opens and closes dialogs and     *)
(* windows from inside each other.                                         *)
(***************************************************************************)
EXTENDS Dialogs, DialogControls

VARIABLE load

\* At the start two cursors are loaded, by an earlier dialog or by the guest itself,
\* and the guest has two handles that it can close.  There may have been two windows
\* before, so that the route table can grow for one more only, or the dialog, which
\* was closed by DestroyWindow and had handle 6.
Held == 3 :> "RB_CURSOR" @@ 4 :> "HCURSOR" @@ 5 :> "OTHER" @@ 6 :> "OTHER"

MCInit ==
    /\ load \in {"windows", "dialogs", "controls"}
    /\ \/ DialogsInit(Held, 0, 0)
       \/ load # "controls" /\ DialogsInit(Held, 2, 0)
       \/ load = "dialogs" /\ DialogsInit(Held, 1, 6)
    /\ ControlsInit

OpenClose ==
    \/ CreateWindowExA("app", "none") /\ UNCHANGED modals
    \/ \E h \in Handles : DestroyWindow(h) /\ UNCHANGED modals
    \/ CallbackReturns /\ UNCHANGED modals
    \/ DialogCalls

MCNext ==
    \/ load = "windows" /\ (WindowCalls \/ CallbackReturns) /\ UNCHANGED <<load, modals, cvars>>
    \/ load = "dialogs" /\ OpenClose /\ UNCHANGED <<load, cvars>>
    \/ load = "controls" /\ ControlsNext /\ UNCHANGED <<load, dlgvars>>
MCSpec == MCInit /\ [][MCNext]_<<load, dlgvars, cvars>>

==============================================================================
