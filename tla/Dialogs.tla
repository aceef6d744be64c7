------------------------------- MODULE Dialogs -------------------------------
(***************************************************************************)
(* Dialogs (src/msvcrt/user32_dialog_*.c, launcher_ui_stubs.c): modeless   *)
(* and modal dialogs over the windows of module Windows, and the table of  *)
(* dialog procedures and results.                                          *)
(*                                                                         *)
(* DialogBoxParamA has no message loop of its own: it sends WM_INITDIALOG, *)
(* then IDOK, then WM_CLOSE, until the guest has called EndDialog.         *)
(***************************************************************************)
EXTENDS Windows

CONSTANTS
    MaxModals    \* entries of g_dialog_modals

VARIABLE modals    \* g_dialog_modals

dlgvars == <<wvars, modals>>

\* The result that EndDialog is given is data of the entry.
NoModal == [dialog |-> 0, proc |-> FALSE, ended |-> FALSE]

\* left: the handle that a dialog had of which an entry is left, or 0; gone:
\* windows, that dialog among them, that were made and destroyed before.
DialogsInit(held, gone, left) ==
    /\ WindowsInit(IF left = 0 THEN <<"app">> ELSE <<"app", "dialog">>, held, gone)
    /\ modals = [i \in 1..MaxModals |->
                    IF i = 1 /\ left # 0 THEN [NoModal EXCEPT !.dialog = left, !.proc = TRUE] ELSE NoModal]

First(S) == IF S = {} THEN 0 ELSE CHOOSE i \in S : \A j \in S : i <= j

\* dialog_find_modal: the entry of a dialog, or, to create it, the first unused
\* entry; 0 when there is neither.
dialog_find_modal(dialog, create) ==
    LET old == First({i \in DOMAIN modals : modals[i].dialog = dialog})
    IN  IF old # 0 \/ ~create THEN old ELSE First({i \in DOMAIN modals : modals[i].dialog = 0})

\* The entry dialog_find_modal returns is filled in for the dialog.
OpenModal(i, dialog) ==
    IF i = 0 \/ modals[i].dialog = dialog THEN modals
    ELSE [modals EXCEPT ![i] = [NoModal EXCEPT !.dialog = dialog]]

MarkEnd(table, dialog) ==
    LET i == First({k \in DOMAIN table : table[k].dialog = dialog})
    IN  IF i = 0 THEN table ELSE [table EXCEPT ![i].ended = TRUE]

-----------------------------------------------------------------------------
(* Creation: the window, then the dialog procedure, then WM_INITDIALOG.    *)

\* CreateDialogParamA ("dialog") and the part of DialogBoxParamA ("box") up to
\* the return of CreateWindowExA.  found: the template resource exists.
CreateDialogParamA(op, found, fail) ==
    /\ CanCall /\ ui.creates < MaxCreates /\ be.nextSdl <= MaxSdl
    /\ found
    /\ LET registered == IF Contains(ui.classes, "dialog") THEN ui
                         ELSE [ui EXCEPT !.classes = Append(@, "dialog")]
           r == CreateWindowEx(registered, "dialog", fail)
       IN  /\ hm' = r.hm /\ be' = r.be /\ ui' = r.ui
           /\ stack' = IF r.hwnd = 0 THEN stack
                       ELSE r.frames \o <<Frame(op, r.hwnd, <<>>)>> \o stack
    /\ UNCHANGED modals

\* CreateWindowExA has returned: user32_dialog_set_modal_dlgproc, WM_INITDIALOG.
\* A frame is fresh when no entry of an earlier dialog was found.
StartDialog ==
    LET f == Head(stack)
        i == dialog_find_modal(f.hwnd, TRUE)
        opened == OpenModal(i, f.hwnd)
    IN  /\ stack # <<>> /\ f.op \in {"dialog", "box"} /\ f.todo = <<>>
        /\ modals' = IF i = 0 THEN modals ELSE [opened EXCEPT ![i].proc = TRUE]
        /\ stack' = <<[op |-> f.op, hwnd |-> f.hwnd, slot |-> 0,
                       born |-> IF IsWindow(hm, f.hwnd) THEN hm[f.hwnd].born ELSE 0,
                       fresh |-> i # 0 /\ modals[i].dialog = 0,
                       todo |-> <<[hwnd |-> f.hwnd, msg |-> "INITDIALOG"]>>]>> \o Tail(stack)
        /\ UNCHANGED <<hm, be, ui>>

-----------------------------------------------------------------------------
(* EndDialog and the modal life cycle.                                     *)

\* user32_dialog_end: the result is noted, then the window destroyed.
EndDialog(h) ==
    /\ CanCall /\ ~Pinned(h)
    /\ modals' = MarkEnd(modals, h)
    /\ Does(user32_finish_window_destroy(h), stack)

\* Mutant: a dialog that was not ended is left open
FinishBoxOpen(f) ==
    /\ modals' = MarkEnd(modals, f.hwnd)
    /\ stack' = <<[f EXCEPT !.op = "clear", !.todo = <<>>]>> \o Tail(stack)
    /\ UNCHANGED <<hm, be, ui>>

\* The end of user32_dialog_run_modal: a dialog that was not ended is ended
\* now; when DestroyWindow has returned its entry is cleared.
FinishBox(f) ==
    LET below == <<[f EXCEPT !.op = "clear", !.todo = <<>>]>> \o Tail(stack)
    IN  /\ modals' = MarkEnd(modals, f.hwnd)
        /\ IF modals[f.slot].ended THEN stack' = below /\ UNCHANGED <<hm, be, ui>>
           ELSE Does(user32_finish_window_destroy(f.hwnd), below)

user32_dialog_clear_modal ==
    LET f == Head(stack)
    IN  /\ stack # <<>> /\ f.op = "clear"
        /\ modals' = [i \in DOMAIN modals |-> IF modals[i].dialog = f.hwnd THEN NoModal ELSE modals[i]]
        /\ stack' = Tail(stack)
        /\ UNCHANGED <<hm, be, ui>>

\* The dialog procedure of a DialogBoxParamA returns
\* (user32_dialog_run_modal_lifecycle).  Without an entry the call gives up.
BoxReturns ==
    LET f == Head(stack)
        i == IF f.slot # 0 THEN f.slot ELSE dialog_find_modal(f.hwnd, TRUE)
        ended == i # 0 /\ modals[i].ended
        next == IF Head(f.todo).msg = "INITDIALOG" THEN "IDOK" ELSE "CLOSE"
    IN  /\ stack # <<>> /\ f.op = "box" /\ f.todo # <<>>
        /\ IF i = 0 THEN stack' = Tail(stack) /\ UNCHANGED <<hm, be, ui, modals>>
           ELSE IF ended \/ Head(f.todo).msg = "CLOSE" THEN FinishBox([f EXCEPT !.slot = i])
           ELSE /\ modals' = IF f.slot = 0 THEN OpenModal(i, f.hwnd) ELSE modals
                /\ stack' = <<[f EXCEPT !.slot = i, !.todo = <<[hwnd |-> f.hwnd, msg |-> next]>>]>>
                            \o Tail(stack)
                /\ UNCHANGED <<hm, be, ui>>

\* The dialog procedure of a modeless dialog, or of a message, returns.
DialogReturns ==
    /\ stack # <<>> /\ Head(stack).op \in {"dialog", "message"} /\ Head(stack).todo # <<>>
    /\ stack' = Tail(stack) /\ UNCHANGED <<hm, be, ui, modals>>

\* The Doom95 launcher's dialog: after WM_INITDIALOG a provider is selected, a WAD
\* if there is one to select, the guest's list of maps is refreshed, and the Start
\* button is clicked, each with a call into the guest; then DestroyWindow is called
\* on the handle the dialog had.  Without a WAD control nothing is selected or
\* refreshed; without a provider the dialog is like any other (DialogReturns).
Autostarts == {<<"PROVIDER", "START">>, <<"PROVIDER", "REFRESH", "START">>,
               <<"PROVIDER", "WAD", "REFRESH", "START">>}
user32_dialog_try_doom95_autostart(steps) ==
    LET f == Head(stack)
        calls == [i \in DOMAIN steps |-> [hwnd |-> f.hwnd, msg |-> steps[i]]]
    IN  /\ stack # <<>> /\ f.op \in {"dialog", "autostart"} /\ f.todo # <<>>
        /\ UNCHANGED modals
        /\ IF f.op = "autostart" /\ Len(f.todo) = 1
           THEN Does(user32_finish_window_destroy(f.hwnd), Tail(stack))
           ELSE /\ stack' = <<[f EXCEPT !.op = "autostart",
                                       !.todo = IF f.op = "dialog" THEN calls ELSE Tail(@)]>> \o Tail(stack)
                /\ UNCHANGED <<hm, be, ui>>

\* IsDialogMessageA with a message for the dialog itself.
IsDialogMessageA(h) ==
    LET i == dialog_find_modal(h, FALSE)
    IN  /\ CanCall /\ i # 0 /\ modals[i].proc
        /\ stack' = <<Frame("message", h, <<[hwnd |-> h, msg |-> "DIALOGMSG"]>>)>> \o stack
        /\ UNCHANGED <<hm, be, ui, modals>>

-----------------------------------------------------------------------------

\* The guest closes one of its other handles, which a window may get next.
CloseHandle(h) ==
    /\ CanCall /\ HasType(hm, h, "OTHER")
    /\ hm' = wine_handle_free(hm, h) /\ UNCHANGED <<be, ui, stack, modals>>

DialogCalls ==
    \/ \E op \in {"dialog", "box"}, found \in BOOLEAN, fail \in {"none", "host"} :
            CreateDialogParamA(op, found, fail)
    \/ StartDialog \/ BoxReturns \/ user32_dialog_clear_modal \/ DialogReturns
    \/ \E steps \in Autostarts : user32_dialog_try_doom95_autostart(steps)
    \/ \E h \in Handles : \/ EndDialog(h)
                          \/ IsDialogMessageA(h)
                          \/ CloseHandle(h)

DialogsNext == ((WindowCalls \/ CallbackReturns) /\ UNCHANGED modals) \/ DialogCalls

-----------------------------------------------------------------------------
(* Properties.                                                             *)

\* The shape of the state.
DialogsTypeOK ==
    /\ WindowsTypeOK
    /\ \A i \in DOMAIN modals : modals[i].dialog \in Handles \cup {0} /\ modals[i].ended \in BOOLEAN

\* A dialog has at most one entry with its procedure and result, through every
\* reuse of window handles and every nested dialog (dialog_find_modal).
ModalsKeyed ==
    \A i, j \in DOMAIN modals : modals[i].dialog # 0 /\ modals[i].dialog = modals[j].dialog => i = j

\* When DialogBoxParamA returns, its window is gone, whatever its procedure did
\* in between; unless the table of dialog procedures had no room for it, or held
\* the entry of an earlier dialog with the same handle.
BoxClosesDialog ==
    [][(stack # <<>> /\ Head(stack).op = "clear" /\ Head(stack).fresh /\ stack' = Tail(stack))
          => ~(IsWindow(hm', Head(stack).hwnd) /\ hm'[Head(stack).hwnd].born = Head(stack).born)]_dlgvars

\* Windows and dialogs created, refused, focused, made full screen and destroyed
\* from inside each other's callbacks, with every host call failing: HWNDs,
\* backend windows, routes, the live count, the focus and the table of dialogs
\* stay in step.
WindowsInStep ==
    /\ DialogsTypeOK /\ RoutesMatchWindows /\ LiveCountExact /\ OrphanOnlyWhenFull
    /\ FocusAlive /\ BackendActiveRouted /\ DestroyedOnce /\ ModalsKeyed
==============================================================================
