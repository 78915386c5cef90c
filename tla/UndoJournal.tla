----------------------------- MODULE UndoJournal -----------------------------
(***************************************************************************)
(* What the transaction log and undo promise a caller (README, "Undo"): a  *)
(* view of the rows that are visible, and a journal of the changes made to *)
(* it.  A change is entered in the journal when it is made; undo takes     *)
(* back the newest entry and replays its inverse.                          *)
(***************************************************************************)
EXTENDS Integers

CONSTANTS Rows, Images, Absent, Stamps

VARIABLES
    view,    \* row -> the image queries show, or Absent
    journal  \* the changes not undone: when, of which row, from and to what

Shown == Images \cup {Absent}

Entry == [at : Stamps, row : Rows, from : Shown, to : Shown]

Init ==
    /\ view = [r \in Rows |-> Absent]
    /\ journal = {}

\* A row appears, changes or disappears, at a time later than any entry.
Change(at, r, to) ==
    /\ \A e \in journal : e.at < at
    /\ view[r] # Absent \/ to # Absent
    /\ view' = [view EXCEPT ![r] = to]
    /\ journal' = journal \cup {[at |-> at, row |-> r, from |-> view[r], to |-> to]}

\* The newest entry is taken back.
Undo(e) ==
    /\ \A f \in journal : f.at <= e.at
    /\ view' = [view EXCEPT ![e.row] = e.from]
    /\ journal' = journal \ {e}

Next ==
    \/ \E at \in Stamps, r \in Rows, to \in Shown : Change(at, r, to)
    \/ \E e \in journal : Undo(e)

Spec == Init /\ [][Next]_<<view, journal>>
=============================================================================
