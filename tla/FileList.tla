------------------------------- MODULE FileList -------------------------------
(***************************************************************************)
(* The list of files of the desktop client (FileListWidget of              *)
(* entrusted_client/src/main_gui.rs): its rows and the vector of the       *)
(* indices of the rows that the user has selected for deletion. Indices    *)
(* count from 0 as in the code; row i is rows[i + 1].                      *)
(***************************************************************************)
EXTENDS Integers, SequencesExt, Lists

CONSTANTS
    Files,
    MaxSelected  \* bound: length of selected_indices after "Select all"

ASSUME FileListAssumption == MaxSelected \in Nat

VARIABLES
    rows,      \* the rows: file, state of the checkbox, status shown
    selected,  \* selected_indices
    panicked   \* an index was out of bounds: the program has aborted

listVars == <<rows, selected, panicked>>

Status == {"pending", "in_progress", "succeeded", "failed", "cancelled"}
Row == [file : Files, checked : BOOLEAN, active : BOOLEAN, status : Status]
NewRow(f) == [file |-> f, checked |-> FALSE, active |-> TRUE, status |-> "pending"]

FilesOf(list) == {list[i].file : i \in DOMAIN list}
ContainsPath(f) == f \in FilesOf(rows)
\* The first row with this file.
RowIndex(f) ==
    (CHOOSE i \in DOMAIN rows : rows[i].file = f /\ \A j \in 1 .. i - 1 : rows[j].file # f) - 1
Checked == {i \in DOMAIN rows : rows[i].checked}

TypeOKList ==
    /\ rows \in Seq(Row)
    /\ selected \in Seq(0 .. Len(rows) - 1)
    /\ panicked \in BOOLEAN

\* The callback of a row's checkbox: fltk flips it, then the callback runs.
ClickRow(i) ==
    LET now == ~rows[i].checked
        idx == RowIndex(rows[i].file)
    IN  /\ rows[i].active
        /\ rows' = [rows EXCEPT ![i].checked = now]
        /\ selected' = IF now THEN Append(selected, idx)
                              ELSE Without(selected, {idx})
        /\ UNCHANGED panicked

\* toggle_selection: what it does to the rows, and whether it changed one.
Toggled(select) == [i \in DOMAIN rows |->
    IF rows[i].active THEN [rows[i] EXCEPT !.checked = select] ELSE rows[i]]

RowIndicesFromOne == [i \in DOMAIN rows |-> i] \* mutant of RowIndices
RowIndices == [i \in DOMAIN rows |-> i - 1]

\* Rows that are already in the vector are added to it a second time.
SelectAll ==
    /\ Len(selected) + Len(rows) <= MaxSelected
    /\ Toggled(TRUE) # rows
    /\ rows' = Toggled(TRUE)
    /\ selected' = selected \o RowIndices
    /\ UNCHANGED panicked

DeselectWithoutClear == \* mutant of DeselectAll: the vector is forgotten
    /\ Toggled(FALSE) # rows
    /\ rows' = Toggled(FALSE)
    /\ UNCHANGED <<selected, panicked>>

DeselectAll ==
    /\ Toggled(FALSE) # rows
    /\ rows' = Toggled(FALSE)
    /\ selected' = <<>>
    /\ UNCHANGED panicked

\* delete_selection pops the sorted vector from its end and removes that row;
\* Vec::remove panics on an index that is out of bounds.
LastUnsorted(list) == Len(list) \* mutant of Greatest: the vector is not sorted
Greatest(list) == CHOOSE k \in DOMAIN list : \A l \in DOMAIN list : list[l] <= list[k]
RemoveRow(list) ==
    LET k   == Greatest(list.left)
        idx == list.left[k]
    IN  IF list.ok /\ idx < Len(list.rows)
        THEN [list EXCEPT !.rows = RemoveAt(@, idx + 1), !.left = RemoveAt(@, k)]
        ELSE [list EXCEPT !.ok = FALSE]
Deleted ==
    LET popped[n \in 0 .. Len(selected)] ==
            IF n = 0 THEN [rows |-> rows, left |-> selected, ok |-> TRUE]
            ELSE RemoveRow(popped[n - 1])
    IN  popped[Len(selected)]

DeleteSelection ==
    /\ selected # <<>>
    /\ rows' = Deleted.rows
    /\ panicked' = ~Deleted.ok
    /\ selected' = <<>>

=============================================================================
