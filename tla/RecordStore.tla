----------------------------- MODULE RecordStore -----------------------------
(***************************************************************************)
(* Soft-deleted rows, their transaction log, and undo                      *)
(* (src/db/entries.ts, src/db/triples.ts, src/db/history.ts).              *)
(*                                                                         *)
(* entries and triples follow one protocol, so a row stands for a row of   *)
(* either table.  The tool handlers of every session (each a Durable       *)
(* Object of its own) share one D1 database.  A handler waits for D1       *)
(* between its steps, so what other handlers commit falls between them:    *)
(*                                                                         *)
(*   create         stamp, then one atomic batch                           *)
(*   update, delete read the live row, stamp, then one atomic batch        *)
(*   undo           read the transactions to undo, then for each of them   *)
(*                  stamp, then one atomic batch                           *)
(*                                                                         *)
(* A stamp is the pair (created_at, ulid) drawn before a batch is sent; it *)
(* orders the log.  It is a number here; the row a create inserts takes    *)
(* the stamp of its transaction as its id.                                 *)
(***************************************************************************)
EXTENDS Integers, FiniteSets

CONSTANTS
    Handlers,   \* the tool handlers that may be running at once
    Columns,    \* the columns a snapshot records
    Values,     \* what a column holds
    NULL,       \* the NULL snapshot
    MaxClock,   \* bound on the number of stamps drawn
    MaxUndo     \* bound on the count argument of undo

Image    == [Columns -> Values]
Snapshot == Image \cup {NULL}

ASSUME NullAssumption  == NULL \notin Image
ASSUME BoundAssumption == MaxClock \in Nat /\ MaxUndo \in Nat

VARIABLES
    clock,  \* the last stamp drawn
    rows,   \* row id -> its columns and whether deleted_at is set
    txns,   \* stamp -> the transaction; reverted_by = 0 stands for NULL
    call    \* handler -> the call it is running

vars == <<clock, rows, txns, call>>

Row  == [image : Image, deleted : BOOLEAN]
Txn  == [op : {"CREATE", "UPDATE", "DELETE", "REVERT"}, row : Nat,
         before : Snapshot, after : Snapshot, reverted_by : Nat]
Call == [op : {"none", "CREATE", "UPDATE", "DELETE", "UNDO"},
         phase : {"idle", "read", "sent"}, row : Nat,
         before : Snapshot, after : Snapshot, stamp : Nat, todo : SUBSET Nat]

Running(op, phase, row, before, after, stamp, todo) ==
    [op |-> op, phase |-> phase, row |-> row, before |-> before,
     after |-> after, stamp |-> stamp, todo |-> todo]

Idle == Running("none", "idle", 0, NULL, NULL, 0, {})

-----------------------------------------------------------------------------
(* Readings of the database *)

Live(r) == r \in DOMAIN rows /\ ~rows[r].deleted

\* What undo selects from: op != 'REVERT' AND reverted_by IS NULL.
Undoable == {n \in DOMAIN txns : txns[n].op # "REVERT" /\ txns[n].reverted_by = 0}

\* mutant of Latest: ORDER BY ... ASC.
OldestSelected(T, count) ==
    /\ T \subseteq Undoable
    /\ \A n \in T, m \in Undoable \ T : n < m
    /\ Cardinality(T) <= count
    /\ T = Undoable \/ Cardinality(T) = count

\* ORDER BY created_at DESC, id DESC LIMIT count.
Latest(T, count) ==
    /\ T \subseteq Undoable
    /\ \A n \in T, m \in Undoable \ T : m < n
    /\ Cardinality(T) <= count
    /\ T = Undoable \/ Cardinality(T) = count

\* mutant of NextToRevert: the selection is walked from its oldest end.
OldestFirst(todo, n) == n \in todo /\ \A m \in todo : n <= m

\* The turn of the loop over the selection: n is the next of todo.
NextToRevert(todo, n) == n \in todo /\ \A m \in todo : m <= n

\* mutant of Patched: the fields that are not given are not kept.
PatchAlone(image, patch) == patch

\* The fields of a patch that are given replace those of the row.
Patched(image, patch) ==
    [c \in Columns |-> IF c \in DOMAIN patch THEN patch[c] ELSE image[c]]

Patches == UNION {[S -> Values] : S \in SUBSET Columns}

\* One INSERT into transactions.
Logged(log, n, op, r, before, after) ==
    [m \in DOMAIN log \cup {n} |->
        IF m = n
        THEN [op |-> op, row |-> r, before |-> before, after |-> after, reverted_by |-> 0]
        ELSE log[m]]

\* mutant of LoggedRevert: the snapshots are not swapped.
RevertUnswapped(log, n, revertId) ==
    Logged(log, revertId, "REVERT", log[n].row, log[n].before, log[n].after)

\* The REVERT that records the inverse of transaction n: its snapshots swapped.
LoggedRevert(log, n, revertId) ==
    Logged(log, revertId, "REVERT", log[n].row, log[n].after, log[n].before)

\* mutant of MarkReverted: the undone transaction is removed from the log.
DropReverted(log, n, revertId) == [m \in DOMAIN log \ {n} |-> log[m]]

\* UPDATE transactions SET reverted_by = revertId WHERE id = txId.
MarkReverted(log, n, revertId) == [log EXCEPT ![n].reverted_by = revertId]

-----------------------------------------------------------------------------
Init ==
    /\ clock = 0
    /\ rows = <<>>
    /\ txns = <<>>
    /\ call = [h \in Handlers |-> Idle]

\* createEntry, createTriple up to the batch they send.
BeginCreate(h, image) ==
    /\ call[h].phase = "idle"
    /\ clock < MaxClock
    /\ clock' = clock + 1
    /\ call' = [call EXCEPT ![h] =
           Running("CREATE", "sent", clock + 1, NULL, image, clock + 1, {})]
    /\ UNCHANGED <<rows, txns>>

\* updateEntry, updateTriple: SELECT the live row.
BeginUpdate(h, r, patch) ==
    /\ call[h].phase = "idle"
    /\ Live(r)
    /\ call' = [call EXCEPT ![h] =
           Running("UPDATE", "read", r, rows[r].image, Patched(rows[r].image, patch), 0, {})]
    /\ UNCHANGED <<clock, rows, txns>>

\* deleteEntry, deleteTriple: SELECT the live row.
BeginDelete(h, r) ==
    /\ call[h].phase = "idle"
    /\ Live(r)
    /\ call' = [call EXCEPT ![h] =
           Running("DELETE", "read", r, rows[r].image, NULL, 0, {})]
    /\ UNCHANGED <<clock, rows, txns>>

\* undoTransactions: SELECT the newest transactions.
BeginUndo(h, T) ==
    /\ call[h].phase = "idle"
    /\ T # {}
    /\ \E count \in 1..MaxUndo : Latest(T, count)
    /\ call' = [call EXCEPT ![h] =
           Running("UNDO", "read", 0, NULL, NULL, 0, T)]
    /\ UNCHANGED <<clock, rows, txns>>

\* The answer of D1 has come: draw now and ulid() and send the batch.
Send(h) ==
    /\ call[h].phase = "read"
    /\ clock < MaxClock
    /\ clock' = clock + 1
    /\ call' = [call EXCEPT ![h] = [@ EXCEPT !.phase = "sent", !.stamp = clock + 1]]
    /\ UNCHANGED <<rows, txns>>

\* The transaction half of the batch of a create, an update or a delete.
LogCall(h) ==
    LET c == call[h] IN
    txns' = Logged(txns, c.stamp, c.op, c.row, c.before, c.after)

\* The batch of a create: INSERT the row.
CommitCreate(h) ==
    LET c == call[h] IN
    /\ c.phase = "sent" /\ c.op = "CREATE"
    /\ LogCall(h)
    /\ rows' = [r \in DOMAIN rows \cup {c.row} |->
           IF r = c.row THEN [image |-> c.after, deleted |-> FALSE] ELSE rows[r]]
    /\ call' = [call EXCEPT ![h] = Idle]
    /\ UNCHANGED clock

\* The batch of an update: UPDATE ... WHERE id = ?, whatever became of the row.
CommitUpdate(h) ==
    LET c == call[h] IN
    /\ c.phase = "sent" /\ c.op = "UPDATE"
    /\ LogCall(h)
    /\ rows' = [rows EXCEPT ![c.row].image = c.after]
    /\ call' = [call EXCEPT ![h] = Idle]
    /\ UNCHANGED clock

\* The batch of a delete: UPDATE ... SET deleted_at WHERE id = ?.
CommitDelete(h) ==
    LET c == call[h] IN
    /\ c.phase = "sent" /\ c.op = "DELETE"
    /\ LogCall(h)
    /\ rows' = [rows EXCEPT ![c.row].deleted = TRUE]
    /\ call' = [call EXCEPT ![h] = Idle]
    /\ UNCHANGED clock

\* mutants of Restored: the undo of a DELETE leaves deleted_at set; the undo of a
\* CREATE leaves the row; the undo of an UPDATE misses a column.
LeavesDeleted(row, t) ==
    IF t.op = "UPDATE" THEN [row EXCEPT !.image = t.before] ELSE [row EXCEPT !.deleted = TRUE]

LeavesCreated(row, t) ==
    IF t.op = "UPDATE" THEN [row EXCEPT !.image = t.before] ELSE [row EXCEPT !.deleted = FALSE]

MissesColumn(row, t) ==
    LET missed == CHOOSE c \in Columns : TRUE IN
    CASE t.op = "CREATE" -> [row EXCEPT !.deleted = TRUE]
      [] t.op = "DELETE" -> [row EXCEPT !.deleted = FALSE]
      [] t.op = "UPDATE" -> [row EXCEPT !.image = [t.before EXCEPT ![missed] = row.image[missed]]]

\* The row half of a REVERT batch: the inverse of transaction t.
Restored(row, t) ==
    CASE t.op = "CREATE" -> [row EXCEPT !.deleted = TRUE]
      [] t.op = "DELETE" -> [row EXCEPT !.deleted = FALSE]
      [] t.op = "UPDATE" -> [row EXCEPT !.image = t.before]

\* One turn of the loop of undoTransactions: the newest transaction left to do.
CommitRevert(h, n) ==
    LET c == call[h]
        t == txns[n]
    IN
    /\ c.phase = "sent" /\ c.op = "UNDO"
    /\ NextToRevert(c.todo, n)
    /\ txns' = MarkReverted(LoggedRevert(txns, n, c.stamp), n, c.stamp)
    /\ rows' = [rows EXCEPT ![t.row] = Restored(rows[t.row], t)]
    /\ call' = [call EXCEPT ![h] =
           IF c.todo = {n} THEN Idle
           ELSE [c EXCEPT !.phase = "read", !.stamp = 0, !.todo = c.todo \ {n}]]
    /\ UNCHANGED clock

\* D1 fails or the isolate is lost: the batch in flight is not applied, what
\* was committed before it stays.
Fail(h) ==
    /\ call[h].phase # "idle"
    /\ call' = [call EXCEPT ![h] = Idle]
    /\ UNCHANGED <<clock, rows, txns>>

Next ==
    \E h \in Handlers :
        \/ \E image \in Image : BeginCreate(h, image)
        \/ \E r \in DOMAIN rows, patch \in Patches : BeginUpdate(h, r, patch)
        \/ \E r \in DOMAIN rows : BeginDelete(h, r)
        \/ \E T \in SUBSET Undoable : BeginUndo(h, T)
        \/ Send(h)
        \/ CommitCreate(h)
        \/ CommitUpdate(h)
        \/ CommitDelete(h)
        \/ \E n \in call[h].todo : CommitRevert(h, n)
        \/ Fail(h)

Spec == Init /\ [][Next]_vars

-----------------------------------------------------------------------------
(* Properties that hold however the calls interleave *)

\* The stamps in use are those drawn, and every record has its type.
TypeOK ==
    /\ clock \in Nat
    /\ DOMAIN rows \subseteq 1..clock
    /\ \A r \in DOMAIN rows : rows[r] \in Row
    /\ DOMAIN txns \subseteq 1..clock
    /\ \A n \in DOMAIN txns : txns[n] \in Txn
    /\ call \in [Handlers -> Call]

\* A row that queries no longer show can be brought back: either a DELETE of
\* it waits in the log to be undone, or its CREATE was undone.
DeletionLogged ==
    \A r \in DOMAIN rows : rows[r].deleted =>
        \/ \E n \in Undoable : txns[n].op = "DELETE" /\ txns[n].row = r
        \/ \E n \in DOMAIN txns :
               txns[n].op = "CREATE" /\ txns[n].row = r /\ txns[n].reverted_by # 0

\* No row is a mixture of two writes: its columns are together the image one
\* transaction on it recorded, even when updates of it and undos race.
ImageLogged ==
    \A r \in DOMAIN rows : \E n \in DOMAIN txns :
        txns[n].row = r /\ rows[r].image \in {txns[n].before, txns[n].after}

\* A transaction marked reverted names a later REVERT of the same row that
\* records the inverse change, even when two undos revert it twice.
RevertRecorded ==
    \A n \in DOMAIN txns : txns[n].reverted_by # 0 =>
        LET k == txns[n].reverted_by IN
        /\ k \in DOMAIN txns /\ n < k
        /\ txns[n].op # "REVERT"
        /\ txns[k].op = "REVERT" /\ txns[k].row = txns[n].row
        /\ txns[k].before = txns[n].after /\ txns[k].after = txns[n].before

\* The log is never rewritten: a step keeps every transaction as recorded and
\* never clears a reverted_by that is set.
KeepsLog ==
    \A n \in DOMAIN txns :
        /\ n \in DOMAIN txns'
        /\ txns'[n].op = txns[n].op /\ txns'[n].row = txns[n].row
        /\ txns'[n].before = txns[n].before /\ txns'[n].after = txns[n].after
        /\ txns[n].reverted_by # 0 => txns'[n].reverted_by # 0

LogOnlyGrows == [][KeepsLog]_vars

-----------------------------------------------------------------------------
(* Properties of calls that run one after the other *)

Sequential == \A g, h \in Handlers : g = h

\* The transactions on row r that undo has not reverted.
Standing(r) == {n \in Undoable : txns[n].row = r}

IsNewest(n, S) == n \in S /\ \A m \in S : m <= n

\* Row r is as transaction t left it.
Shows(r, t) ==
    IF t.op = "DELETE"
    THEN rows[r].deleted /\ rows[r].image = t.before
    ELSE ~rows[r].deleted /\ rows[r].image = t.after

\* README, Undo: the inverse is replayed.  Every row is as the newest
\* transaction on it that was not undone left it, and a row whose every
\* transaction was undone is gone from the queries.
UndoExact ==
    \A r \in DOMAIN rows :
        IF Standing(r) = {} THEN rows[r].deleted
        ELSE \E n \in Standing(r) : IsNewest(n, Standing(r)) /\ Shows(r, txns[n])

\* Undo reverts in the reverse order of the log: what stands reverted at a
\* later stamp was logged earlier, unless it was logged after the REVERT.
LastInFirstOut ==
    \A m, n \in DOMAIN txns :
        (m < n /\ txns[m].reverted_by # 0 /\ txns[n].op # "REVERT" /\ n < txns[m].reverted_by)
            => txns[n].reverted_by # 0 /\ txns[n].reverted_by < txns[m].reverted_by

\* The journal that undo keeps for its callers: the visible rows, and the
\* transactions that are not reverted with the change each of them made.
Journal == INSTANCE UndoJournal WITH
    Rows    <- 1..MaxClock,
    Stamps  <- 1..MaxClock,
    Images  <- Image,
    Absent  <- NULL,
    view    <- [r \in 1..MaxClock |-> IF Live(r) THEN rows[r].image ELSE NULL],
    journal <- {[at |-> n, row |-> txns[n].row, from |-> txns[n].before,
                 to |-> txns[n].after] : n \in Undoable}

\* Calls that run one after the other implement the journal: every commit is
\* one change or one undo of it, and the other steps leave it alone.
ImplementsJournal == Journal!Spec
=============================================================================
