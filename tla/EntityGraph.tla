----------------------------- MODULE EntityGraph -----------------------------
(***************************************************************************)
(* Canonical entities, their aliases, the triples and entries that refer   *)
(* to them, merge and its undo (src/db/entities.ts, src/db/triples.ts,     *)
(* src/db/history.ts).                                                     *)
(*                                                                         *)
(* A triple names its subject and object; an entry is linked by entity id. *)
(* mergeEntities reads both entities, captures in four more reads the ids  *)
(* it is about to change, and then changes by WHERE clause in one batch;   *)
(* undo changes back the captured ids, one by one, in one batch.  Stamps   *)
(* and ids are numbers drawn from one clock, as in RecordStore.            *)
(***************************************************************************)
EXTENDS Integers, FiniteSets

CONSTANTS
    Handlers,   \* the tool handlers that may be running at once
    Names,      \* entity names, which are also subjects and objects
    Fold,       \* toLowerCase, as a function of a name
    None,       \* no snapshot, no link
    Ops,        \* the tools that are called, and whether they may fail
    MaxClock,   \* bound on the stamps drawn
    MaxUndo     \* bound on the count argument of undo

ASSUME FoldAssumption == DOMAIN Fold = Names

VARIABLES
    clock,      \* the last stamp drawn
    entities,   \* canonical_entities: id -> name
    aliases,    \* entity_aliases: id -> alias and canonical_entity_id
    triples,    \* triples: id -> subject, object, deleted
    entries,    \* entries: id -> canonical_entity_id, deleted
    txns,       \* the transaction log: stamp -> transaction
    past,       \* history: stamp -> the graph before that transaction
    call        \* handler -> the call it is running

db   == <<entities, aliases, triples, entries, txns, past>>
vars == <<clock, entities, aliases, triples, entries, txns, past, call>>

Idle == [op |-> "none", phase |-> "idle", stamp |-> 0]

\* f with x mapped to y, whether or not it was in its domain.
With(f, x, y) == [z \in DOMAIN f \cup {x} |-> IF z = x THEN y ELSE f[z]]

-----------------------------------------------------------------------------
(* Readings of the database *)

LiveTriples == {i \in DOMAIN triples : ~triples[i].deleted}
LiveEntries == {i \in DOMAIN entries : ~entries[i].deleted}

\* What a caller can see of the graph.
Graph ==
    [entities |-> entities,
     aliases  |-> {<<aliases[i].alias, aliases[i].entity>> : i \in DOMAIN aliases},
     triples  |-> [i \in LiveTriples |-> <<triples[i].subject, triples[i].object>>],
     links    |-> [i \in LiveEntries |-> entries[i].entity]]

\* resolveAliasExact: the entities one of whose aliases is this name.
Resolves(name) == {aliases[i].entity : i \in {j \in DOMAIN aliases : aliases[j].alias = Fold[name]}}

Undoable == {n \in DOMAIN txns : txns[n].op # "REVERT" /\ txns[n].reverted_by = 0}

\* ORDER BY created_at DESC, id DESC LIMIT count.
Latest(T, count) ==
    /\ T \subseteq Undoable
    /\ \A n \in T, m \in Undoable \ T : m < n
    /\ Cardinality(T) <= count
    /\ T = Undoable \/ Cardinality(T) = count

\* INSERT INTO transactions; the history variable keeps the graph before it.
LogTxn(stamp, op, type, row, snap) ==
    /\ txns' = With(txns, stamp, [op |-> op, type |-> type, row |-> row,
                                  snap |-> snap, reverted_by |-> 0])
    /\ past' = With(past, stamp, Graph)

-----------------------------------------------------------------------------
Init ==
    /\ clock = 0
    /\ entities = <<>> /\ aliases = <<>> /\ triples = <<>> /\ entries = <<>>
    /\ txns = <<>> /\ past = <<>>
    /\ call = [h \in Handlers |-> Idle]

\* A call of tool op starts in this state.
Begin(h, op, state) ==
    /\ op \in Ops
    /\ call[h] = Idle
    /\ call' = [call EXCEPT ![h] = state]
    /\ UNCHANGED <<clock, db>>

\* upsertEntity: the exact alias lookup finds nothing, so createEntity follows.
\* (When it finds an entity, that entity is the answer and nothing changes.)
UpsertLookup(h, name) ==
    /\ Resolves(name) = {}
    /\ Begin(h, "upsert", [op |-> "upsert", phase |-> "read", stamp |-> 0, name |-> name])

\* createTriple begins with its stamp.
RelateBegin(h, subject, object) ==
    Begin(h, "relate", [op |-> "relate", phase |-> "read", stamp |-> 0,
                        subject |-> subject, object |-> object])

\* updateTriple with a new object: SELECT the live row.
UpdateLookup(h, i, object) ==
    Begin(h, "update", [op |-> "update", phase |-> "read", stamp |-> 0, row |-> i,
                        object |-> object,
                        before |-> [subject |-> triples[i].subject, object |-> triples[i].object]])

\* deleteTriple, deleteEntry: SELECT the live row.
DeleteLookup(h, tool, type, i) ==
    Begin(h, tool, [op |-> "delete", phase |-> "read", stamp |-> 0, type |-> type, row |-> i])

\* undoTransactions: SELECT the newest transactions.
UndoSelect(h, T) ==
    /\ T # {}
    /\ \E count \in 1..MaxUndo : Latest(T, count)
    /\ Begin(h, "undo", [op |-> "undo", phase |-> "read", stamp |-> 0, todo |-> T])

\* now and ulid() are drawn and the batch is sent.
Send(h) ==
    /\ call[h].phase = "read"
    /\ clock < MaxClock
    /\ clock' = clock + 1
    /\ call' = [call EXCEPT ![h] = [@ EXCEPT !.phase = "sent", !.stamp = clock + 1]]
    /\ UNCHANGED db

\* D1 refuses or loses the batch (a foreign key, a failure, the isolate gone):
\* nothing of it is applied.
Fail(h) ==
    /\ "fail" \in Ops
    /\ call[h] # Idle
    /\ call' = [call EXCEPT ![h] = Idle]
    /\ UNCHANGED <<clock, db>>

\* The handler of h is done.
Done(h) == call' = [call EXCEPT ![h] = Idle] /\ UNCHANGED clock

Sent(h, op) == call[h].op = op /\ call[h].phase = "sent"

-----------------------------------------------------------------------------
(* One batch each *)

\* createEntity: the entity and the alias that is its name.
CommitEntity(h) ==
    LET c == call[h] IN
    /\ Sent(h, "upsert")
    /\ LogTxn(c.stamp, "CREATE", "entity", c.stamp, None)
    /\ entities' = With(entities, c.stamp, c.name)
    /\ aliases' = With(aliases, c.stamp, [alias |-> Fold[c.name], entity |-> c.stamp])
    /\ Done(h)
    /\ UNCHANGED <<triples, entries>>

CommitTriple(h) ==
    LET c == call[h] IN
    /\ Sent(h, "relate")
    /\ LogTxn(c.stamp, "CREATE", "triple", c.stamp, None)
    /\ triples' = With(triples, c.stamp,
                       [subject |-> c.subject, object |-> c.object, deleted |-> FALSE])
    /\ Done(h)
    /\ UNCHANGED <<entities, aliases, entries>>

CommitUpdate(h) ==
    LET c == call[h] IN
    /\ Sent(h, "update")
    /\ LogTxn(c.stamp, "UPDATE", "triple", c.row, c.before)
    /\ triples' = [triples EXCEPT ![c.row].object = c.object]
    /\ Done(h)
    /\ UNCHANGED <<entities, aliases, entries>>

CommitDelete(h) ==
    LET c == call[h] IN
    /\ Sent(h, "delete")
    /\ LogTxn(c.stamp, "DELETE", c.type, c.row, None)
    /\ IF c.type = "entry"
       THEN entries' = [entries EXCEPT ![c.row].deleted = TRUE] /\ UNCHANGED triples
       ELSE triples' = [triples EXCEPT ![c.row].deleted = TRUE] /\ UNCHANGED entries
    /\ Done(h)
    /\ UNCHANGED <<entities, aliases>>

\* An entry linked to an entity.  Nothing under src/ links entries: the tests do,
\* by SQL between two calls, and merge and its undo move the links.
ImportEntry(e) ==
    /\ "link" \in Ops
    /\ \A h \in Handlers : call[h] = Idle
    /\ clock < MaxClock
    /\ clock' = clock + 1
    /\ entries' = With(entries, clock + 1, [entity |-> e, deleted |-> FALSE])
    /\ UNCHANGED <<entities, aliases, triples, txns, past, call>>

-----------------------------------------------------------------------------
(* mergeEntities: six reads and a batch *)

\* The entity to keep is read.
MergeBegin(h, keep, merged) ==
    /\ keep # merged
    /\ Begin(h, "merge", [op |-> "merge", phase |-> "keep", stamp |-> 0, keep |-> keep,
                          merged |-> merged, keepName |-> entities[keep]])

\* The entity to merge is read and now is drawn; it may be gone.
ReadMerged(h) ==
    LET c == call[h] IN
    /\ c.op = "merge" /\ c.phase = "keep"
    /\ IF c.merged \in DOMAIN entities
       THEN /\ clock < MaxClock
            /\ clock' = clock + 1
            /\ call' = [call EXCEPT ![h] =
                   [op |-> "merge", phase |-> "subjects", stamp |-> clock + 1,
                    keep |-> c.keep, merged |-> c.merged, keepName |-> c.keepName,
                    mergeName |-> entities[c.merged],
                    subj |-> {}, obj |-> {}, ents |-> {}, als |-> {}]]
       ELSE Done(h)
    /\ UNCHANGED db

\* The ids to be changed are captured, by the column they are changed in.
Capture(h, phase, field, ids, next) ==
    /\ call[h].op = "merge" /\ call[h].phase = phase
    /\ call' = [call EXCEPT ![h] = [@ EXCEPT !.phase = next, ![field] = ids]]
    /\ UNCHANGED <<clock, db>>

CaptureSubjects(h) ==
    Capture(h, "subjects", "subj",
            {i \in LiveTriples : triples[i].subject = call[h].mergeName}, "objects")

CaptureObjects(h) ==
    Capture(h, "objects", "obj",
            {i \in LiveTriples : triples[i].object = call[h].mergeName}, "entries")

CaptureEntries(h) ==
    Capture(h, "entries", "ents",
            {i \in LiveEntries : entries[i].entity = call[h].merged}, "aliases")

CaptureAliases(h) ==
    Capture(h, "aliases", "als",
            {i \in DOMAIN aliases : aliases[i].entity = call[h].merged}, "sent")

Renamed(name, from, to) == IF name = from THEN to ELSE name

\* The aliases after a merge: those of the merged entity are moved, and its
\* name becomes an alias of the one that is kept.
MovedAliases(c) ==
    With([i \in DOMAIN aliases |->
             [aliases[i] EXCEPT !.entity = Renamed(@, c.merged, c.keep)]],
         c.stamp, [alias |-> Fold[c.mergeName], entity |-> c.keep])

\* mutant of ForeignKey: it is not enforced.
NoForeignKey(entity) == TRUE

\* The foreign key entity_aliases.canonical_entity_id REFERENCES canonical_entities.
ForeignKey(entity) == entity \in DOMAIN entities

\* The batch renames by WHERE clause: live triples, but entries deleted or not.
CommitMerge(h) ==
    LET c == call[h] IN
    /\ Sent(h, "merge")
    /\ ForeignKey(c.keep)
    /\ LogTxn(c.stamp, "MERGE", "entity", c.keep,
              [keep |-> c.keep, keepName |-> c.keepName, merged |-> c.merged,
               mergeName |-> c.mergeName,
               subj |-> c.subj, obj |-> c.obj, ents |-> c.ents, als |-> c.als])
    /\ triples' = [i \in DOMAIN triples |->
           IF triples[i].deleted THEN triples[i]
           ELSE [triples[i] EXCEPT !.subject = Renamed(@, c.mergeName, c.keepName),
                                   !.object  = Renamed(@, c.mergeName, c.keepName)]]
    /\ entries' = [i \in DOMAIN entries |->
           [entries[i] EXCEPT !.entity = Renamed(@, c.merged, c.keep)]]
    /\ aliases' = MovedAliases(c)
    /\ entities' = [e \in DOMAIN entities \ {c.merged} |-> entities[e]]
    /\ Done(h)

-----------------------------------------------------------------------------
(* Undo *)

\* mutant of Unrenamed: every row that holds what the merge wrote is changed back.
UnrenamedAll(ids, i, value, keep, merged) ==
    IF value = keep THEN merged ELSE value

\* A captured row is changed back if it still holds what the merge wrote.
Unrenamed(ids, i, value, keep, merged) ==
    IF i \in ids /\ value = keep THEN merged ELSE value

\* history.ts picks the table: entries for an entry, triples for anything else,
\* so the undo of the CREATE of an entity finds no row to change.
OfTable(t, table) == (t.type = "entry") = (table = "entries")

RevertedTriple(t, i) ==
    LET r == triples[i] IN
    CASE t.op = "CREATE" /\ OfTable(t, "triples") /\ i = t.row -> [r EXCEPT !.deleted = TRUE]
      [] t.op = "DELETE" /\ OfTable(t, "triples") /\ i = t.row -> [r EXCEPT !.deleted = FALSE]
      [] t.op = "UPDATE" /\ i = t.row ->
             [r EXCEPT !.subject = t.snap.subject, !.object = t.snap.object]
      [] t.op = "MERGE" ->
             [r EXCEPT
                !.subject = Unrenamed(t.snap.subj, i, @, t.snap.keepName, t.snap.mergeName),
                !.object  = Unrenamed(t.snap.obj, i, @, t.snap.keepName, t.snap.mergeName)]
      [] OTHER -> r

RevertedEntry(t, i) ==
    LET r == entries[i] IN
    CASE t.op = "DELETE" /\ OfTable(t, "entries") /\ i = t.row -> [r EXCEPT !.deleted = FALSE]
      [] t.op = "MERGE" ->
             [r EXCEPT !.entity = Unrenamed(t.snap.ents, i, @, t.snap.keep, t.snap.merged)]
      [] OTHER -> r

\* INSERT OR IGNORE of the merged entity.
RevertedEntities(t) ==
    IF t.op = "MERGE" /\ t.snap.merged \notin DOMAIN entities
    THEN With(entities, t.snap.merged, t.snap.mergeName)
    ELSE entities

\* mutants of RevertedAliases: the deletion comes before the aliases move back;
\* the alias the merge made is left behind.
DeletesBeforeMoving(t) ==
    IF t.op # "MERGE" THEN aliases
    ELSE LET made == {i \in DOMAIN aliases : /\ aliases[i].entity = t.snap.keep
                                             /\ aliases[i].alias = Fold[t.snap.mergeName]}
         IN  [i \in DOMAIN aliases \ made |-> [aliases[i] EXCEPT
                 !.entity = Unrenamed(t.snap.als, i, @, t.snap.keep, t.snap.merged)]]

LeavesMergeAlias(t) ==
    IF t.op # "MERGE" THEN aliases
    ELSE [i \in DOMAIN aliases |-> [aliases[i] EXCEPT
             !.entity = Unrenamed(t.snap.als, i, @, t.snap.keep, t.snap.merged)]]

\* The captured aliases move back, then the aliases of the kept entity that are
\* the name of the merged one are deleted.
RevertedAliases(t) ==
    IF t.op # "MERGE" THEN aliases
    ELSE LET moved == [i \in DOMAIN aliases |-> [aliases[i] EXCEPT
                          !.entity = Unrenamed(t.snap.als, i, @, t.snap.keep, t.snap.merged)]]
             made  == {i \in DOMAIN moved : /\ moved[i].entity = t.snap.keep
                                            /\ moved[i].alias = Fold[t.snap.mergeName]}
         IN  [i \in DOMAIN moved \ made |-> moved[i]]

\* One turn of the loop of undoTransactions.
CommitRevert(h, n) ==
    LET c == call[h]
        t == txns[n]
    IN
    /\ Sent(h, "undo")
    /\ n \in c.todo /\ \A m \in c.todo : m <= n
    /\ txns' = [With(txns, c.stamp, [op |-> "REVERT", type |-> t.type, row |-> t.row,
                                     snap |-> None, reverted_by |-> 0])
                    EXCEPT ![n].reverted_by = c.stamp]
    /\ past' = With(past, c.stamp, Graph)
    /\ triples' = [i \in DOMAIN triples |-> RevertedTriple(t, i)]
    /\ entries' = [i \in DOMAIN entries |-> RevertedEntry(t, i)]
    /\ entities' = RevertedEntities(t)
    /\ aliases' = RevertedAliases(t)
    /\ call' = [call EXCEPT ![h] =
           IF c.todo = {n} THEN Idle
           ELSE [c EXCEPT !.phase = "read", !.stamp = 0, !.todo = c.todo \ {n}]]
    /\ UNCHANGED clock

Next ==
    \/ \E e \in DOMAIN entities : ImportEntry(e)
    \/ \E h \in Handlers :
          \/ \E name \in Names : UpsertLookup(h, name)
          \/ \E subject, object \in Names : RelateBegin(h, subject, object)
          \/ \E i \in LiveTriples, object \in Names : UpdateLookup(h, i, object)
          \/ \E i \in LiveTriples : DeleteLookup(h, "delete", "triple", i)
          \/ \E i \in LiveEntries : DeleteLookup(h, "delete_entry", "entry", i)
          \/ \E T \in SUBSET Undoable : UndoSelect(h, T)
          \/ \E keep \in DOMAIN entities, merged \in DOMAIN entities : MergeBegin(h, keep, merged)
          \/ Send(h)
          \/ ReadMerged(h)
          \/ CaptureSubjects(h) \/ CaptureObjects(h) \/ CaptureEntries(h) \/ CaptureAliases(h)
          \/ CommitEntity(h) \/ CommitTriple(h) \/ CommitUpdate(h) \/ CommitDelete(h)
          \/ CommitMerge(h)
          \/ call[h].op = "undo" /\ \E n \in call[h].todo : CommitRevert(h, n)
          \/ Fail(h)

Spec == Init /\ [][Next]_vars

-----------------------------------------------------------------------------
(* Properties *)

\* Every alias leads to an entity that exists, whatever merges and undos race:
\* two merges of the same pair in opposite directions never leave neither.
AliasTargetsExist == \A i \in DOMAIN aliases : aliases[i].entity \in DOMAIN entities

\* Every entity is found by its own name, before and after merges and undos.
NamesResolve == \A e \in DOMAIN entities : e \in Resolves(entities[e])

\* One name leads to one entity: upsertEntity never makes a duplicate.
OneEntityPerName == \A name \in Names : Cardinality(Resolves(name)) <= 1

\* The graph is as it was at g, up to entities whose creation cannot be undone
\* and entries imported since.
BackTo(g) ==
    /\ \A e \in DOMAIN g.entities : e \in DOMAIN entities /\ entities[e] = g.entities[e]
    /\ {<<aliases[i].alias, aliases[i].entity>> :
           i \in {j \in DOMAIN aliases : aliases[j].entity \in DOMAIN g.entities}} = g.aliases
    /\ Graph.triples = g.triples
    /\ \A i \in DOMAIN g.links : i \in LiveEntries /\ entries[i].entity = g.links[i]

\* Transaction n is reverted by this step.
NowReverted(n) == txns[n].reverted_by = 0 /\ txns'[n].reverted_by # 0

\* README, Undo: the inverse is replayed, including full reversal of merges.
\* Undoing a transaction brings back the graph that was there before it.
UndoRestoresGraph ==
    [][\A n \in DOMAIN txns : NowReverted(n) => BackTo(past[n])']_vars
=============================================================================
