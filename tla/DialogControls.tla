--------------------------- MODULE DialogControls ---------------------------
(***************************************************************************)
(* Dialog items (src/msvcrt/user32_dialog_state.c, _items.c, _controls.c): *)
(* the table of controls, created on first use and never freed, and the    *)
(* list box, combo box, edit and up-down messages a control answers.  Rows *)
(* and selections are counted from 1, no selection being 0 (-1 in C).      *)
(***************************************************************************)
EXTENDS SequencesExt, Integers

CONSTANTS
    DialogHandles,   \* HWNDs of dialogs
    ListIds,         \* ids of list and combo boxes
    SpinIds,         \* ids of up-downs
    Texts,           \* strings
    MaxItems,        \* entries of g_dialog_items
    MaxRows,         \* rows of a control
    MaxSerial        \* bound on rows ever added

VARIABLES
    items,       \* g_dialog_items in use, in table order
    serial       \* history: rows added so far

cvars == <<items, serial>>

\* A row is a string with its item data; its no is history and names the row.
\* edited: WM_SETTEXT, or the position of an up-down, has replaced the text;
\* deselected: the selection was removed while there were rows, and no row was
\* selected or deleted since.
ControlsInit == items = <<>> /\ serial = 0

NewItem(dialog, id, handle) ==
    [dialog |-> dialog, id |-> id, handle |-> handle, text |-> "", rows |-> <<>>, sel |-> 0,
     pos |-> 0, buddy |-> 0, edited |-> FALSE, deselected |-> FALSE]

\* Handles are given out by a counter; the first is 1 here.
user32_dialog_find_item(dialog, id, create) ==
    /\ create => Len(items) < MaxItems
    /\ create <=> \A i \in DOMAIN items : <<items[i].dialog, items[i].id>> # <<dialog, id>>

GetDlgItem(dialog, id) ==
    /\ user32_dialog_find_item(dialog, id, TRUE)
    /\ items' = Append(items, NewItem(dialog, id, Len(items) + 1))
    /\ UNCHANGED serial

user32_dialog_find_item_by_handle(handle) == SelectInSeq(items, LAMBDA i : i.handle = handle)

\* A message changes one item, found by its handle.
Update(handle, item) ==
    items' = [items EXCEPT ![user32_dialog_find_item_by_handle(handle)] = item]

-----------------------------------------------------------------------------
(* Strings of list and combo boxes.                                        *)

Row(text) == [text |-> text, data |-> 0, no |-> serial + 1]

\* The first row becomes the selection of a control that has none, and the text
\* becomes that of the row just added, whichever it is.
Selected(item, row) ==
    IF item.sel # 0 THEN item ELSE [item EXCEPT !.sel = 1, !.text = row.text, !.edited = FALSE]

dialog_item_append_string(item, row) ==
    Selected([item EXCEPT !.rows = Append(@, row)], row)

\* Mutant: the data stays in its place
InsertKeepsData(item, i, row) ==
    LET n == Len(item.rows)
        rows == InsertAt(item.rows, IF i > n THEN n + 1 ELSE i, row)
    IN  Selected([item EXCEPT
            !.rows = [k \in DOMAIN rows |->
                        [rows[k] EXCEPT !.data = IF k <= n THEN item.rows[k].data ELSE 0]],
            !.sel = IF @ # 0 /\ @ >= i THEN @ + 1 ELSE @], row)

\* A row at or after the end is appended; a selection at or after the new row
\* moves with its string.
dialog_item_insert_string(item, i, row) ==
    IF i > Len(item.rows) THEN dialog_item_append_string(item, row)
    ELSE LET moved == [item EXCEPT !.rows = InsertAt(@, i, row),
                                   !.sel = IF @ # 0 /\ @ >= i THEN @ + 1 ELSE @]
         IN  Selected(moved, row)

dialog_item_delete_string(item, i) ==
    LET rows == RemoveAt(item.rows, i)
        sel == IF rows = <<>> \/ item.sel = i THEN 0
               ELSE IF item.sel > i THEN item.sel - 1 ELSE item.sel
    IN  [item EXCEPT !.rows = rows, !.sel = sel,
                     !.text = IF sel = 0 THEN "" ELSE rows[sel].text,
                     !.edited = FALSE, !.deselected = sel = 0 /\ rows # <<>>]

ADDSTRING(handle, i, text) ==
    LET item == items[handle]
        added == dialog_item_insert_string(item, i, Row(text))
    IN  /\ serial < MaxSerial /\ Len(item.rows) < MaxRows
        /\ Update(handle, added)
        /\ serial' = serial + 1

DELETESTRING(handle, i) ==
    /\ i \in DOMAIN items[handle].rows
    /\ Update(handle, dialog_item_delete_string(items[handle], i))
    /\ UNCHANGED serial

RESETCONTENT(handle) ==
    /\ Update(handle, [items[handle] EXCEPT !.rows = <<>>, !.sel = 0, !.text = "",
                                            !.edited = FALSE, !.deselected = FALSE])
    /\ UNCHANGED serial

\* The first row from start on, wrapping around, whose text matches.
user32_dialog_find_string(item, start, text) ==
    LET n == Len(item.rows)
        from == IF start > n THEN 1 ELSE start
        order == [k \in 1..n |-> ((from + k - 2) % n) + 1]
        hit == SelectInSeq(order, LAMBDA i : item.rows[i].text = text)
    IN  IF hit = 0 THEN 0 ELSE order[hit]

Select(item, i) ==
    [item EXCEPT !.sel = i, !.text = item.rows[i].text, !.edited = FALSE, !.deselected = FALSE]

SELECTSTRING(handle, start, text) ==
    LET i == user32_dialog_find_string(items[handle], start, text)
    IN  i # 0 /\ Update(handle, Select(items[handle], i)) /\ UNCHANGED serial

\* A negative row removes the selection and leaves the text.
SETCURSEL(handle, i) ==
    /\ i \in 0..Len(items[handle].rows)
    /\ Update(handle, IF i # 0 THEN Select(items[handle], i)
                      ELSE [items[handle] EXCEPT !.sel = 0, !.deselected = @ \/ items[handle].rows # <<>>])
    /\ UNCHANGED serial

\* The guest attaches to a row data that names it.
SETITEMDATA(handle, i) ==
    /\ i \in DOMAIN items[handle].rows
    /\ Update(handle, [items[handle] EXCEPT !.rows[i].data = items[handle].rows[i].no])
    /\ UNCHANGED serial

-----------------------------------------------------------------------------
(* Text and up-downs.                                                      *)

SETTEXT(handle, text) ==
    /\ Update(handle, [items[handle] EXCEPT !.text = text, !.edited = TRUE])
    /\ UNCHANGED serial

SETBUDDY(handle, buddy) ==
    /\ Update(handle, [items[handle] EXCEPT !.buddy = buddy]) /\ UNCHANGED serial

\* The buddy of an up-down shows its position.
SETPOS(handle, pos) ==
    LET at == user32_dialog_find_item_by_handle(items[handle].buddy)
        moved == [items EXCEPT ![handle].pos = pos]
    IN  /\ items' = IF at = 0 THEN moved
                    ELSE [moved EXCEPT ![at].text = ToString(pos), ![at].edited = TRUE]
        /\ UNCHANGED serial

-----------------------------------------------------------------------------

\* The guest sends list messages to lists and up-down messages to up-downs.
ControlsNext ==
    \/ \E d \in DialogHandles, id \in ListIds \cup SpinIds : GetDlgItem(d, id)
    \/ \E handle \in DOMAIN items :
         \/ /\ items[handle].id \in ListIds
            /\ \/ \E i \in 1..(MaxRows + 1), t \in Texts : ADDSTRING(handle, i, t) \/ SELECTSTRING(handle, i, t)
               \/ \E i \in 0..MaxRows : DELETESTRING(handle, i) \/ SETCURSEL(handle, i) \/ SETITEMDATA(handle, i)
               \/ RESETCONTENT(handle)
               \/ \E t \in Texts : SETTEXT(handle, t)
         \/ /\ items[handle].id \in SpinIds
            /\ \/ \E b \in 0..MaxItems : SETBUDDY(handle, b)
               \/ \E p \in {1} : SETPOS(handle, p)

-----------------------------------------------------------------------------
(* Properties.                                                             *)

\* The shape of the state.
ControlsTypeOK ==
    \A i \in DOMAIN items : /\ items[i].handle = i
                            /\ items[i].sel \in 0..Len(items[i].rows)
                            /\ Len(items[i].rows) <= MaxRows

\* A control of a dialog is one item, so the guest's GetDlgItem always gives it
\* the same handle (user32_dialog_find_item).
ItemsKeyed ==
    \A i, j \in DOMAIN items :
        <<items[i].dialog, items[i].id>> = <<items[j].dialog, items[j].id>> => i = j

\* Inserting and deleting rows moves each row's data with its string: a row has
\* no data yet or the data the guest gave this very row.
DataFollowsRow ==
    \A i \in DOMAIN items : \A k \in DOMAIN items[i].rows :
        items[i].rows[k].data \in {0, items[i].rows[k].no}

\* The text of a control with a selection is the selected string, through
\* insertions before it and deletions around it; after a selection was removed
\* from a control with rows, the next string added may leave them different until
\* a row is selected.
TextFollowsSelection ==
    \A i \in DOMAIN items :
        items[i].sel # 0 /\ ~items[i].edited /\ ~items[i].deselected
            => items[i].text = items[i].rows[items[i].sel].text

\* The control messages of user32_dialog_send_control_message, in any order:
\* each control is one item, its rows keep their data and its text the selection.
ControlsConsistent ==
    ControlsTypeOK /\ ItemsKeyed /\ DataFollowsRow /\ TextFollowsSelection
=============================================================================
