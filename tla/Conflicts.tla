------------------------------ MODULE Conflicts ------------------------------
(***************************************************************************)
(* relate with conflict detection, resolve_conflict, and the other ways to *)
(* write a triple (src/mcp/tools.ts, src/domain/conflict.ts,               *)
(* src/db/triples.ts).                                                     *)
(*                                                                         *)
(* A key is a subject and predicate.  Triples are in D1 and shared by all  *)
(* sessions; a conflict is kept in the storage of the session (the Durable *)
(* Object) whose relate raised it.  While a storage call of a session is   *)
(* pending, the platform delivers no other event to it (its input gate),   *)
(* so what a handler does between an answer of D1 and the end of its       *)
(* storage calls is one step here.  Undo is in RecordStore.                *)
(***************************************************************************)
EXTENDS Integers, FiniteSets

CONSTANTS
    Handlers,   \* the tool handlers that may be running at once
    Session,    \* handler -> the session it runs in
    Keys,       \* the (subject, predicate) pairs
    Objects,
    NoFact,     \* stands in the fields that mean nothing yet
    Ops,        \* the tools and strategies in use
    MaxClock    \* bound on the ids drawn

ASSUME SessionAssumption == DOMAIN Session = Handlers

VARIABLES
    clock,      \* the last id drawn
    triples,    \* triple id -> key, object, deleted
    txns,       \* the log, with the tool and the conflict of each transaction
    conflicts,  \* every ConflictInfo raised, and the session that holds it
    stored,     \* the ids of the conflicts in storage
    aged,       \* the ids of the conflicts stored more than an hour ago
    closed,     \* history: the conflicts rejected, or expired when loaded
    call        \* handler -> the call it is running

vars == <<clock, triples, txns, conflicts, stored, aged, closed, call>>

Fact     == [key : Keys, object : Objects]
Conflict == [session : {Session[h] : h \in Handlers}, existing : Nat,
             incoming : Fact, seen : Fact]

\* A call: op and phase; the row it changes (0: none yet); what it will write;
\* the snapshot it read; the conflict it resolves (0: none); its tool; and
\* (history) since, the last id drawn when relate or upsert looked.
Call(op, phase, tool, row, fact, before, cid) ==
    [op |-> op, phase |-> phase, tool |-> tool, row |-> row,
     fact |-> fact, before |-> before, cid |-> cid,
     since |-> IF op = "create" /\ cid = 0 THEN clock ELSE 0]

Idle == Call("none", "idle", "none", 0, NoFact, NoFact, 0)

With(f, x, y) == [z \in DOMAIN f \cup {x} |-> IF z = x THEN y ELSE f[z]]

-----------------------------------------------------------------------------
Live == {i \in DOMAIN triples : ~triples[i].deleted}

FactOf(i) == [key |-> triples[i].key, object |-> triples[i].object]

\* findActiveTriples: the live triples of a key.
Active(key) == {i \in Live : triples[i].key = key}

\* mutant of Conflicting: a key that holds the object already is not in conflict.
NoneAgrees(fact) ==
    IF \E i \in Active(fact.key) : triples[i].object = fact.object
    THEN {} ELSE Active(fact.key)

\* detectConflict: the active triples of the key with a different object.
Conflicting(fact) == {i \in Active(fact.key) : triples[i].object # fact.object}

-----------------------------------------------------------------------------
Init ==
    /\ clock = 0
    /\ triples = <<>> /\ txns = <<>> /\ conflicts = <<>>
    /\ stored = {} /\ aged = {} /\ closed = {}
    /\ call = [h \in Handlers |-> Idle]

Free(h, op) == op \in Ops /\ call[h] = Idle

Runs(h, c) == call' = [call EXCEPT ![h] = c]

Creates(h, tool, fact, cid) ==
    Runs(h, Call("create", "read", tool, 0, fact, NoFact, cid))

\* updateTriple is called; its SELECT is still to come.
Updates(h, tool, row, fact, cid) ==
    Runs(h, Call("update", "lookup", tool, row, fact, NoFact, cid))

\* relate: no active triple contradicts the fact, so createTriple follows.
RelateAgrees(h, fact) ==
    /\ Free(h, "relate")
    /\ Conflicting(fact) = {}
    /\ Creates(h, "relate", fact, 0)
    /\ UNCHANGED <<clock, triples, txns, conflicts, stored, aged, closed>>

\* mutant of Named: the first triple of the key, whether it contradicts or not.
FirstActive(fact, i) == CHOOSE j \in Active(fact.key) : \A k \in Active(fact.key) : j <= k

\* The triple that the conflict names: the one that contradicts.
Named(fact, i) == i

\* relate: a triple contradicts it; the conflict is saved and is the answer.
RelateConflicts(h, fact, i) ==
    /\ Free(h, "relate")
    /\ i \in Conflicting(fact)
    /\ clock < MaxClock
    /\ clock' = clock + 1
    /\ conflicts' = With(conflicts, clock + 1,
           [session |-> Session[h], existing |-> Named(fact, i), incoming |-> fact, seen |-> FactOf(i)])
    /\ stored' = stored \cup {clock + 1}
    /\ UNCHANGED <<triples, txns, aged, closed, call>>

\* mutant of UpsertFinds: the existing triple is looked for by the whole fact.
FindsSameFact(fact) == {i \in Active(fact.key) : triples[i].object = fact.object}

\* upsertTriple: SELECT by subject and predicate, LIMIT 1 (any of them).
UpsertFinds(fact) == Active(fact.key)

UpsertCreates(h, fact) ==
    /\ Free(h, "upsert")
    /\ UpsertFinds(fact) = {}
    /\ Creates(h, "upsert", fact, 0)
    /\ UNCHANGED <<clock, triples, txns, conflicts, stored, aged, closed>>

UpsertUpdates(h, fact, i) ==
    /\ Free(h, "upsert")
    /\ i \in UpsertFinds(fact)
    /\ Updates(h, "upsert", i, fact, 0)
    /\ UNCHANGED <<clock, triples, txns, conflicts, stored, aged, closed>>

\* update_triple: a new object, or a new predicate too.
UpdateTriple(h, i, fact) ==
    /\ Free(h, "update")
    /\ fact.key = triples[i].key \/ "rekey" \in Ops
    /\ Updates(h, "update", i, fact, 0)
    /\ UNCHANGED <<clock, triples, txns, conflicts, stored, aged, closed>>

\* deleteTriple: SELECT the live row.
DeleteTriple(h, i) ==
    /\ Free(h, "delete")
    /\ Runs(h, Call("delete", "read", "delete", i, FactOf(i), FactOf(i), 0))
    /\ UNCHANGED <<clock, triples, txns, conflicts, stored, aged, closed>>

\* updateTriple: SELECT the live row; it may be gone.  A replace keeps the key
\* the row has, and so does an upsert: only update_triple gives a predicate.
UpdateRead(h) ==
    LET c == call[h] IN
    /\ c.op = "update" /\ c.phase = "lookup"
    /\ IF c.row \in Live
       THEN Runs(h, [c EXCEPT !.phase = "read", !.before = FactOf(c.row),
                              !.fact.key = IF c.tool = "update" THEN @ ELSE triples[c.row].key])
       ELSE Runs(h, Idle)
    /\ UNCHANGED <<clock, triples, txns, conflicts, stored, aged, closed>>

-----------------------------------------------------------------------------
(* resolve_conflict *)

Held(h, cid) == cid \in stored /\ conflicts[cid].session = Session[h]

\* mutant of Removed: the conflict is left in storage.
LeftStored(cid) == stored

\* removeConflict: storage.delete, before the resolution is applied.
Removed(cid) == stored \ {cid}

\* The conflict has expired: loadConflict deletes it and finds nothing.
ResolveExpired(h, cid) ==
    /\ call[h] = Idle
    /\ Held(h, cid) /\ cid \in aged
    /\ stored' = stored \ {cid}
    /\ closed' = closed \cup {cid}
    /\ UNCHANGED <<clock, triples, txns, conflicts, aged, call>>

ResolveReject(h, cid) ==
    /\ Free(h, "reject")
    /\ Held(h, cid) /\ cid \notin aged
    /\ stored' = Removed(cid)
    /\ closed' = closed \cup {cid}
    /\ UNCHANGED <<clock, triples, txns, conflicts, aged, call>>

ResolveReplace(h, cid) ==
    /\ Free(h, "replace")
    /\ Held(h, cid) /\ cid \notin aged
    /\ stored' = Removed(cid)
    /\ Updates(h, "replace", conflicts[cid].existing, conflicts[cid].incoming, cid)
    /\ UNCHANGED <<clock, triples, txns, conflicts, aged, closed>>

ResolveRetainBoth(h, cid) ==
    /\ Free(h, "retain_both")
    /\ Held(h, cid) /\ cid \notin aged
    /\ stored' = Removed(cid)
    /\ Creates(h, "retain_both", conflicts[cid].incoming, cid)
    /\ UNCHANGED <<clock, triples, txns, conflicts, aged, closed>>

\* An hour has passed since the conflict was stored, and since those before it.
Age(cid) ==
    /\ "expire" \in Ops
    /\ cid \in stored \ aged
    /\ \A d \in stored \ aged : cid <= d
    /\ aged' = aged \cup {cid}
    /\ UNCHANGED <<clock, triples, txns, conflicts, stored, closed, call>>

-----------------------------------------------------------------------------
(* The batches *)

\* A batch draws an id, inserts its transaction and ends the call.
Batch(h, op, row, before, after) ==
    /\ clock < MaxClock
    /\ clock' = clock + 1
    /\ txns' = With(txns, clock + 1, [op |-> op, tool |-> call[h].tool, row |-> row,
                                      before |-> before, after |-> after, cid |-> call[h].cid,
                                      since |-> call[h].since])
    /\ Runs(h, Idle)
    /\ UNCHANGED <<conflicts, stored, aged, closed>>

CommitCreate(h) ==
    LET c == call[h] IN
    /\ c.op = "create"
    /\ Batch(h, "CREATE", clock + 1, NoFact, c.fact)
    /\ triples' = With(triples, clock + 1,
                       [key |-> c.fact.key, object |-> c.fact.object, deleted |-> FALSE])

\* UPDATE ... WHERE id = ?: every column is written, as read or as given.
CommitUpdate(h) ==
    LET c == call[h] IN
    /\ c.op = "update" /\ c.phase = "read"
    /\ Batch(h, "UPDATE", c.row, c.before, c.fact)
    /\ triples' = [triples EXCEPT ![c.row].key = c.fact.key, ![c.row].object = c.fact.object]

CommitDelete(h) ==
    LET c == call[h] IN
    /\ c.op = "delete"
    /\ Batch(h, "DELETE", c.row, c.before, NoFact)
    /\ triples' = [triples EXCEPT ![c.row].deleted = TRUE]

\* D1 fails, or the isolate is lost with the calls it was running.
Fail(h) ==
    /\ "fail" \in Ops
    /\ call[h] # Idle
    /\ Runs(h, Idle)
    /\ UNCHANGED <<clock, triples, txns, conflicts, stored, aged, closed>>

Next ==
    \/ \E h \in Handlers :
          \/ \E fact \in Fact : RelateAgrees(h, fact)
          \/ \E fact \in Fact, i \in Live : RelateConflicts(h, fact, i)
          \/ \E fact \in Fact : UpsertCreates(h, fact)
          \/ \E fact \in Fact, i \in Live : UpsertUpdates(h, fact, i)
          \/ \E fact \in Fact, i \in Live : UpdateTriple(h, i, fact)
          \/ \E i \in Live : DeleteTriple(h, i)
          \/ UpdateRead(h)
          \/ \E cid \in stored : \/ ResolveExpired(h, cid) \/ ResolveReject(h, cid)
                                 \/ ResolveReplace(h, cid) \/ ResolveRetainBoth(h, cid)
          \/ CommitCreate(h) \/ CommitUpdate(h) \/ CommitDelete(h)
          \/ Fail(h)
    \/ \E cid \in stored : Age(cid)

Spec == Init /\ [][Next]_vars

-----------------------------------------------------------------------------
(* Properties *)

\* A conflict is acted on at most once, however its session's handlers race and
\* fail: at most one write is ever made for it, and none while it is still
\* stored, closed, or another resolution of it is running.
ResolvedOnce ==
    LET written(cid)  == {n \in DOMAIN txns : txns[n].cid = cid}
        applying(cid) == {h \in Handlers : call[h].cid = cid}
    IN  \A cid \in DOMAIN conflicts :
            Cardinality(written(cid)) + Cardinality(applying(cid))
                <= IF cid \in stored \cup closed THEN 0 ELSE 1

\* Triple i was written by a transaction committed after n was drawn; ids are drawn
\* with their commit here.
WrittenSince(i, n) == \E m \in DOMAIN txns : m > n /\ txns[m].row = i

\* What transaction n wrote is contradicted only by what it could not have seen.
UncontradictedAsSeen(n) ==
    \A i \in Active(txns[n].after.key) :
        triples[i].object = txns[n].after.object \/ WrittenSince(i, txns[n].since)

\* README, Conflict detection: when relate creates a triple, no live triple of
\* its subject and predicate has a different object, except what other calls have
\* written since it looked.
RelateNeverContradicts ==
    [][\A n \in DOMAIN txns' \ DOMAIN txns :
          txns'[n].tool = "relate" => UncontradictedAsSeen(n)']_vars

\* A replace overwrites what its conflict showed, up to an hour later, unless that
\* triple was written after the conflict was raised.
ReplacesWhatWasShown ==
    \A n \in DOMAIN txns : LET t == txns[n] IN
        t.tool = "replace" =>
            \/ t.before = conflicts[t.cid].seen
            \/ \E m \in DOMAIN txns : m \in t.cid..(n - 1) /\ txns[m].row = t.row

\* The triple was moved to another key by update_triple.
Rekeyed(i) == \E n \in DOMAIN txns :
    txns[n].op = "UPDATE" /\ txns[n].row = i /\ txns[n].before.key # txns[n].after.key

CreatedBy(i) == txns[i].tool

\* upsert_triple creates or updates by subject and predicate: it creates no
\* second triple of a key beside one that was there when it looked, whatever is
\* related, retained, deleted or replaced at any time.
UpsertedOnce ==
    \A i, j \in Live :
        (/\ i < j /\ triples[i].key = triples[j].key
         /\ CreatedBy(j) = "upsert" /\ ~Rekeyed(i) /\ ~Rekeyed(j)) => i > txns[j].since
=============================================================================
