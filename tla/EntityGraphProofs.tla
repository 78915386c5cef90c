-------------------------- MODULE EntityGraphProofs --------------------------
(***************************************************************************)
(* Two results, for any names and bounds, whatever fails.                  *)
(*                                                                         *)
(* However many handlers run, no alias is ever left without its entity.    *)
(* AliasTargetsExist alone is not inductive: the batch of a merge deletes  *)
(* the merged entity after it has moved its aliases to the one that is     *)
(* kept, so it must be known that the two differ (MergesDiffer, which      *)
(* holds from the call on).  CallShape and AliasShape say which fields the *)
(* records have.                                                           *)
(*                                                                         *)
(* While one call runs at a time (OneHandler), names and entities stay one *)
(* to one, and undo brings back the graph that a transaction found.  What  *)
(* undo will bring back is not in the database: it follows from the rows   *)
(* as they are and from what the transactions that still stand would put   *)
(* back.  So the invariant SeqInv speaks of the value that a cell held     *)
(* before a stamp (Was), says that the graph made of these values is the   *)
(* one the history recorded (Stood), and that names were one to one in     *)
(* it.  Each batch only adds to what is put back, and each undo takes the  *)
(* newest of it away (HeldBefore).                                         *)
(***************************************************************************)
EXTENDS EntityGraph, FiniteSetTheorems, TLAPS

CallShape ==
    /\ DOMAIN call = Handlers
    /\ \A h \in Handlers : {"op", "phase", "stamp"} \subseteq DOMAIN call[h]

AliasShape ==
    \A i \in DOMAIN aliases :
        aliases[i] = [alias |-> aliases[i].alias, entity |-> aliases[i].entity]

MergesDiffer ==
    \A h \in Handlers : call[h].op = "merge" =>
        {"keep", "merged"} \subseteq DOMAIN call[h] /\ call[h].keep # call[h].merged

GraphInv == CallShape /\ AliasShape /\ MergesDiffer /\ AliasTargetsExist

-----------------------------------------------------------------------------
\* The empty database satisfies the invariant.
LEMMA InitGraphInv == Init => GraphInv
  BY DEF Init, GraphInv, CallShape, AliasShape, MergesDiffer, AliasTargetsExist, Idle

\* A call that begins, ends or goes on without a batch.
LEMMA QuietStep ==
  ASSUME GraphInv,
         entities' = entities, aliases' = aliases, CallShape', MergesDiffer'
  PROVE  GraphInv'
  BY DEF GraphInv, AliasShape, AliasTargetsExist

\* The state of one handler changes, and the new one has the fields it needs.
LEMMA OneCallChanges ==
  ASSUME CallShape, MergesDiffer, NEW h \in Handlers, NEW state,
         {"op", "phase", "stamp"} \subseteq DOMAIN state,
         state.op = "merge" =>
            {"keep", "merged"} \subseteq DOMAIN state /\ state.keep # state.merged,
         call' = [call EXCEPT ![h] = state]
  PROVE  CallShape' /\ MergesDiffer'
<1>1. DOMAIN call' = Handlers /\ \A g \in Handlers : call'[g] = IF g = h THEN state ELSE call[g]
  BY DEF CallShape
<1> QED
  BY <1>1 DEF CallShape, MergesDiffer

\* A batch: a call ends, and the aliases it leaves have an entity each.
LEMMA BatchStep ==
  ASSUME GraphInv, AliasShape', AliasTargetsExist', CallShape', MergesDiffer'
  PROVE  GraphInv'
  BY DEF GraphInv

\* The handler of a batch is idle after it.
LEMMA DoneShape ==
  ASSUME CallShape, MergesDiffer, NEW h \in Handlers, Done(h)
  PROVE  CallShape' /\ MergesDiffer'
<1>1. {"op", "phase", "stamp"} \subseteq DOMAIN Idle /\ Idle.op # "merge"
  BY DEF Idle
<1> QED
  BY <1>1, OneCallChanges DEF Done

\* Tools begin with a state of their own.
LEMMA BeginStep ==
  ASSUME GraphInv, NEW h \in Handlers, NEW op, NEW state, Begin(h, op, state),
         {"op", "phase", "stamp"} \subseteq DOMAIN state,
         state.op = "merge" =>
            {"keep", "merged"} \subseteq DOMAIN state /\ state.keep # state.merged
  PROVE  GraphInv'
<1>1. CallShape' /\ MergesDiffer'
  BY OneCallChanges DEF Begin, GraphInv
<1> QED
  BY <1>1, QuietStep DEF Begin, db

-----------------------------------------------------------------------------
\* A merge moves the aliases of the merged entity before it deletes it.
LEMMA MergeKeepsTargets ==
  ASSUME GraphInv, NEW h \in Handlers, CommitMerge(h)
  PROVE  GraphInv'
<1> DEFINE c == call[h]
<1>1. c.op = "merge" /\ c.keep # c.merged /\ c.keep \in DOMAIN entities
  BY DEF CommitMerge, Sent, ForeignKey, GraphInv, MergesDiffer
<1>2. DOMAIN entities' = DOMAIN entities \ {c.merged}
  BY DEF CommitMerge
<1>3. aliases' = MovedAliases(c)
  BY DEF CommitMerge
<1>4. ASSUME NEW i \in DOMAIN aliases'
      PROVE  /\ aliases'[i] = [alias |-> aliases'[i].alias, entity |-> aliases'[i].entity]
             /\ aliases'[i].entity \in DOMAIN entities'
  <2>1. CASE i = c.stamp
    BY <1>1, <1>2, <1>3, <2>1 DEF MovedAliases, With
  <2>2. CASE i # c.stamp
    <3>1. i \in DOMAIN aliases
      BY <1>3, <2>2, <1>4 DEF MovedAliases, With
    <3>2. aliases'[i] = [aliases[i] EXCEPT !.entity = Renamed(@, c.merged, c.keep)]
      BY <1>3, <2>2, <3>1 DEF MovedAliases, With
    <3>3. /\ aliases[i] = [alias |-> aliases[i].alias, entity |-> aliases[i].entity]
          /\ aliases[i].entity \in DOMAIN entities
      BY <3>1 DEF GraphInv, AliasShape, AliasTargetsExist
    <3>4. aliases'[i] = [alias |-> aliases[i].alias,
                         entity |-> Renamed(aliases[i].entity, c.merged, c.keep)]
      BY <3>2, <3>3
    <3> QED
      BY <3>3, <3>4, <1>1, <1>2 DEF Renamed
  <2> QED
    BY <2>1, <2>2
<1>5. CallShape' /\ MergesDiffer'
  BY DoneShape DEF CommitMerge, GraphInv
<1> QED
  BY <1>4, <1>5, BatchStep DEF AliasShape, AliasTargetsExist

\* The undo of a merge inserts the merged entity before aliases move back to it.
LEMMA RevertKeepsTargets ==
  ASSUME GraphInv, NEW h \in Handlers, NEW n \in call[h].todo, CommitRevert(h, n)
  PROVE  GraphInv'
<1> DEFINE c == call[h]
           t == txns[n]
<1>1. entities' = RevertedEntities(t) /\ aliases' = RevertedAliases(t)
  BY DEF CommitRevert
<1>2. CallShape' /\ MergesDiffer'
  <2> DEFINE next == IF c.todo = {n} THEN Idle
                     ELSE [c EXCEPT !.phase = "read", !.stamp = 0, !.todo = c.todo \ {n}]
  <2>1. c.op = "undo" /\ {"op", "phase", "stamp"} \subseteq DOMAIN c
    BY DEF CommitRevert, Sent, GraphInv, CallShape
  <2>2. {"op", "phase", "stamp"} \subseteq DOMAIN next /\ next.op # "merge"
    BY <2>1 DEF Idle
  <2>3. call' = [call EXCEPT ![h] = next]
    BY DEF CommitRevert
  <2> HIDE DEF next
  <2> QED
    BY <2>2, <2>3, OneCallChanges DEF GraphInv
<1>3. ASSUME t.op # "MERGE" PROVE GraphInv'
  BY <1>1, <1>2, <1>3, QuietStep DEF RevertedEntities, RevertedAliases
<1>4. ASSUME t.op = "MERGE" PROVE GraphInv'
  <2>1. DOMAIN entities' = DOMAIN entities \cup {t.snap.merged}
    BY <1>1, <1>4 DEF RevertedEntities, With
  <2>2. ASSUME NEW i \in DOMAIN aliases'
        PROVE  /\ i \in DOMAIN aliases
               /\ aliases'[i] = [aliases[i] EXCEPT !.entity =
                      Unrenamed(t.snap.als, i, @, t.snap.keep, t.snap.merged)]
    BY <1>1, <1>4, <2>2 DEF RevertedAliases
  <2>3. ASSUME NEW i \in DOMAIN aliases'
        PROVE  /\ aliases'[i] = [alias |-> aliases'[i].alias, entity |-> aliases'[i].entity]
               /\ aliases'[i].entity \in DOMAIN entities'
    <3>1. /\ aliases[i] = [alias |-> aliases[i].alias, entity |-> aliases[i].entity]
          /\ aliases[i].entity \in DOMAIN entities
      BY <2>2 DEF GraphInv, AliasShape, AliasTargetsExist
    <3>2. aliases'[i] = [alias |-> aliases[i].alias,
              entity |-> Unrenamed(t.snap.als, i, aliases[i].entity, t.snap.keep, t.snap.merged)]
      BY <2>2, <3>1
    <3> QED
      BY <2>1, <3>1, <3>2 DEF Unrenamed
  <2> QED
    BY <2>3, <1>2, BatchStep DEF AliasShape, AliasTargetsExist
<1> QED
  BY <1>3, <1>4

\* A new entity comes with the alias that is its name.
LEMMA EntityKeepsTargets ==
  ASSUME GraphInv, NEW h \in Handlers, CommitEntity(h)
  PROVE  GraphInv'
<1> DEFINE c == call[h]
<1>1. /\ entities' = With(entities, c.stamp, c.name)
      /\ aliases' = With(aliases, c.stamp, [alias |-> Fold[c.name], entity |-> c.stamp])
  BY DEF CommitEntity
<1>2. AliasShape' /\ AliasTargetsExist'
  BY <1>1 DEF With, AliasShape, AliasTargetsExist, GraphInv
<1>3. CallShape' /\ MergesDiffer'
  BY DoneShape DEF CommitEntity, GraphInv
<1> QED
  BY <1>2, <1>3, BatchStep

-----------------------------------------------------------------------------
\* Every step keeps the invariant: one case per action.
LEMMA NextGraphInv == GraphInv /\ [Next]_vars => GraphInv'
<1> SUFFICES ASSUME GraphInv, [Next]_vars PROVE GraphInv'
  OBVIOUS
<1>1. CASE UNCHANGED vars
  BY <1>1 DEF vars, GraphInv, CallShape, AliasShape, MergesDiffer, AliasTargetsExist
<1>2. ASSUME NEW e \in DOMAIN entities, ImportEntry(e) PROVE GraphInv'
  BY <1>2 DEF ImportEntry, GraphInv, CallShape, AliasShape, MergesDiffer, AliasTargetsExist
<1>3. ASSUME NEW h \in Handlers, NEW name \in Names, UpsertLookup(h, name) PROVE GraphInv'
  BY <1>3, BeginStep DEF UpsertLookup
<1>4. ASSUME NEW h \in Handlers, NEW s \in Names, NEW o \in Names, RelateBegin(h, s, o)
      PROVE GraphInv'
  BY <1>4, BeginStep DEF RelateBegin
<1>5. ASSUME NEW h \in Handlers, NEW i \in LiveTriples, NEW o \in Names, UpdateLookup(h, i, o)
      PROVE GraphInv'
  BY <1>5, BeginStep DEF UpdateLookup
<1>6. ASSUME NEW h \in Handlers, NEW tool, NEW type, NEW i, DeleteLookup(h, tool, type, i)
      PROVE GraphInv'
  BY <1>6, BeginStep DEF DeleteLookup
<1>7. ASSUME NEW h \in Handlers, NEW T \in SUBSET Undoable, UndoSelect(h, T) PROVE GraphInv'
  BY <1>7, BeginStep DEF UndoSelect
<1>8. ASSUME NEW h \in Handlers, NEW keep \in DOMAIN entities, NEW merged \in DOMAIN entities,
             MergeBegin(h, keep, merged)
      PROVE GraphInv'
  BY <1>8, BeginStep DEF MergeBegin
<1>9. ASSUME NEW h \in Handlers, Send(h) PROVE GraphInv'
  <2> DEFINE state == [call[h] EXCEPT !.phase = "sent", !.stamp = clock + 1]
  <2>1. call' = [call EXCEPT ![h] = state]
    BY <1>9 DEF Send
  <2>2. DOMAIN state = DOMAIN call[h]
    OBVIOUS
  <2>3. {"op", "phase", "stamp"} \subseteq DOMAIN call[h] /\ state.op = call[h].op
    BY DEF GraphInv, CallShape
  <2>4. state.op = "merge" =>
            {"keep", "merged"} \subseteq DOMAIN state /\ state.keep # state.merged
    BY <2>2, <2>3 DEF GraphInv, MergesDiffer
  <2>5. entities' = entities /\ aliases' = aliases
    BY <1>9 DEF Send, db
  <2> HIDE DEF state
  <2>6. CallShape' /\ MergesDiffer'
    BY <2>1, <2>2, <2>3, <2>4, OneCallChanges DEF GraphInv
  <2> QED
    BY <2>5, <2>6, QuietStep
<1>10. ASSUME NEW h \in Handlers, ReadMerged(h) PROVE GraphInv'
  <2>1. entities' = entities /\ aliases' = aliases
    BY <1>10 DEF ReadMerged, db
  <2>2. CASE call[h].merged \in DOMAIN entities
    <3> DEFINE state == [op |-> "merge", phase |-> "subjects", stamp |-> clock + 1,
                    keep |-> call[h].keep, merged |-> call[h].merged,
                    keepName |-> call[h].keepName, mergeName |-> entities[call[h].merged],
                    subj |-> {}, obj |-> {}, ents |-> {}, als |-> {}]
    <3>1. call' = [call EXCEPT ![h] = state]
      BY <1>10, <2>2 DEF ReadMerged
    <3>2. call[h].keep # call[h].merged
      BY <1>10 DEF ReadMerged, GraphInv, MergesDiffer
    <3>3. CallShape' /\ MergesDiffer'
      BY <3>1, <3>2, OneCallChanges DEF GraphInv
    <3> QED
      BY <2>1, <3>3, QuietStep
  <2>3. CASE call[h].merged \notin DOMAIN entities
    <3>1. CallShape' /\ MergesDiffer'
      BY <1>10, <2>3, DoneShape DEF ReadMerged, GraphInv
    <3> QED
      BY <2>1, <3>1, QuietStep
  <2> QED
    BY <2>2, <2>3
<1>11. ASSUME NEW h \in Handlers, NEW phase, NEW field \in {"subj", "obj", "ents", "als"},
              NEW ids, NEW next, Capture(h, phase, field, ids, next)
       PROVE GraphInv'
  <2> DEFINE state == [call[h] EXCEPT !.phase = next, ![field] = ids]
  <2>1. call' = [call EXCEPT ![h] = state]
    BY <1>11 DEF Capture
  <2>2. DOMAIN state = DOMAIN call[h]
    OBVIOUS
  <2>3. /\ call[h].op = "merge" /\ call[h].keep # call[h].merged
        /\ {"op", "phase", "stamp", "keep", "merged"} \subseteq DOMAIN call[h]
    BY <1>11 DEF Capture, GraphInv, CallShape, MergesDiffer
  <2>4. state.op = "merge" /\ state.keep = call[h].keep /\ state.merged = call[h].merged
    BY <2>3
  <2>5. entities' = entities /\ aliases' = aliases
    BY <1>11 DEF Capture, db
  <2> HIDE DEF state
  <2>6. CallShape' /\ MergesDiffer'
    BY <2>1, <2>2, <2>3, <2>4, OneCallChanges DEF GraphInv
  <2> QED
    BY <2>5, <2>6, QuietStep
<1>12. ASSUME NEW h \in Handlers,
              CaptureSubjects(h) \/ CaptureObjects(h) \/ CaptureEntries(h) \/ CaptureAliases(h)
       PROVE GraphInv'
  BY <1>11, <1>12 DEF CaptureSubjects, CaptureObjects, CaptureEntries, CaptureAliases
<1>13. ASSUME NEW h \in Handlers, CommitTriple(h) \/ CommitUpdate(h) \/ CommitDelete(h)
       PROVE GraphInv'
  <2>1. entities' = entities /\ aliases' = aliases /\ Done(h)
    BY <1>13 DEF CommitTriple, CommitUpdate, CommitDelete
  <2> QED
    BY <2>1, DoneShape, QuietStep DEF GraphInv
<1>14. ASSUME NEW h \in Handlers, Fail(h) PROVE GraphInv'
  <2>1. entities' = entities /\ aliases' = aliases /\ call' = [call EXCEPT ![h] = Idle]
    BY <1>14 DEF Fail, db
  <2>2. {"op", "phase", "stamp"} \subseteq DOMAIN Idle /\ Idle.op # "merge"
    BY DEF Idle
  <2> QED
    BY <2>1, <2>2, OneCallChanges, QuietStep DEF GraphInv
<1> QED
  BY <1>1, <1>2, <1>3, <1>4, <1>5, <1>6, <1>7, <1>8, <1>9, <1>10, <1>12, <1>13, <1>14,
     MergeKeepsTargets, RevertKeepsTargets, EntityKeepsTargets DEF Next

\* Every alias leads to an entity that exists, whatever interleaves: the foreign
\* key is the only thing that refuses a batch, and no batch breaks it silently.
THEOREM AliasesNeverDangle == Spec => []AliasTargetsExist
<1>1. GraphInv => AliasTargetsExist
  BY DEF GraphInv
<1> QED
  BY InitGraphInv, NextGraphInv, <1>1, PTL DEF Spec

-----------------------------------------------------------------------------
(* One call at a time: what a cell held before a transaction *)

OneHandler == \A g, h \in Handlers : g = h

\* The fields that undo changes back: the entity of an alias; the subject, the object
\* and the absence of a triple; and, where no entry is ever deleted, the link of one.
Fields == {"alias", "subject", "object", "gone"}
             \cup (IF "delete_entry" \in Ops THEN {} ELSE {"link"})

Table(f) == IF f = "alias" THEN DOMAIN aliases
            ELSE IF f = "link" THEN DOMAIN entries ELSE DOMAIN triples

Value(f, i) ==
    CASE f = "alias"   -> aliases[i].entity
      [] f = "subject" -> triples[i].subject
      [] f = "object"  -> triples[i].object
      [] f = "gone"    -> IF triples[i].deleted THEN 1 ELSE 0
      [] f = "link"    -> entries[i].entity

\* The rows of which a merge captured field f, and what it changed there.
Captured(snap, f) ==
    CASE f = "alias"   -> snap.als
      [] f = "subject" -> snap.subj
      [] f = "object"  -> snap.obj
      [] f = "link"    -> snap.ents
      [] OTHER         -> {}
From(snap, f) == IF f \in {"subject", "object"} THEN snap.mergeName ELSE snap.merged
To(snap, f)   == IF f \in {"subject", "object"} THEN snap.keepName ELSE snap.keep

\* What the undo of t puts into field f of row i, as a set: {} if it leaves it alone.
Restores(t, f, i) ==
    IF t.op = "MERGE" THEN IF i \in Captured(t.snap, f) THEN {From(t.snap, f)} ELSE {}
    ELSE IF i # t.row THEN {}
    ELSE IF t.op = "UPDATE" THEN
         IF f = "subject" THEN {t.snap.subject}
         ELSE IF f = "object" THEN {t.snap.object} ELSE {}
    ELSE IF t.op \in {"CREATE", "DELETE"} /\ f = "gone" /\ t.type # "entry"
         THEN {IF t.op = "CREATE" THEN 1 ELSE 0}
    ELSE {}

\* A cell with this value now held x just before stamp n, if the undo of a later
\* transaction m puts old[m] into it.
Held(old, now, n, x) ==
    \/ \E m \in DOMAIN old :
          /\ m >= n /\ x \in old[m]
          /\ \A k \in DOMAIN old : n <= k /\ k < m => old[k] = {}
    \/ (\A k \in DOMAIN old : k >= n => old[k] = {}) /\ x = now

History(f, i) == [n \in Undoable |-> Restores(txns[n], f, i)]
Was(f, i, n, x) == Held(History(f, i), Value(f, i), n, x)

\* new is old with one more transaction at the end, which replaced v by w and keeps v.
Longer(old, new, s, v, w) ==
    /\ DOMAIN old \subseteq Int /\ DOMAIN new = DOMAIN old \cup {s}
    /\ \A k \in DOMAIN old : k < s /\ new[k] = old[k]
    /\ new[s] = {v} \/ (new[s] = {} /\ w = v)

\* That changes nothing in what was held before.
LEMMA HeldBefore ==
  ASSUME NEW old, NEW new, NEW s \in Int, NEW v, NEW w, Longer(old, new, s, v, w),
         NEW n \in Int, NEW x
  PROVE  /\ n <= s => (Held(new, w, n, x) <=> Held(old, v, n, x))
         /\ n > s  => (Held(new, w, n, x) <=> x = w)
  BY DEF Held, Longer

\* After all transactions a cell holds what it holds.
LEMMA HeldNow ==
  ASSUME NEW old, NEW v, NEW n, \A k \in DOMAIN old : k >= n => old[k] = {}, NEW x
  PROVE  Held(old, v, n, x) <=> x = v
  BY DEF Held

\* A transaction that keeps what it replaces changes nothing in what was held before it.
LEMMA WasBeforeNew ==
  ASSUME NEW s \in Int, Undoable \subseteq Int, Undoable' = Undoable \cup {s},
         \A k \in Undoable : k < s /\ txns'[k] = txns[k],
         NEW f, NEW i,
         \/ Restores(txns'[s], f, i) = {Value(f, i)}
         \/ Restores(txns'[s], f, i) = {} /\ Value(f, i)' = Value(f, i)
  PROVE  \A n \in Int : \A x :
            /\ n <= s => (Was(f, i, n, x)' <=> Was(f, i, n, x))
            /\ n > s  => (Was(f, i, n, x)' <=> x = Value(f, i)')
<1>1. PICK v : v = Value(f, i) OBVIOUS
<1>2. PICK w : w = Value(f, i)' OBVIOUS
<1>3. PICK old : old = History(f, i) OBVIOUS
<1>4. PICK new : new = History(f, i)' OBVIOUS
<1>5. DOMAIN old = Undoable /\ \A k \in Undoable : old[k] = Restores(txns[k], f, i)
  BY <1>3 DEF History
<1>6. DOMAIN new = Undoable' /\ \A k \in Undoable' : new[k] = Restores(txns'[k], f, i)
  BY <1>4 DEF History, Restores
<1>7. Longer(old, new, s, v, w)
  BY <1>1, <1>2, <1>5, <1>6 DEF Longer
<1>9. \A n \in Int : \A x :
            /\ n <= s => (Held(new, w, n, x) <=> Held(old, v, n, x))
            /\ n > s  => (Held(new, w, n, x) <=> x = w)
  BY <1>7, HeldBefore
<1> QED BY <1>1, <1>2, <1>3, <1>4, <1>9 DEF Was

\* After all transactions that can be undone, a cell holds what it holds.
LEMMA WasNow ==
  ASSUME NEW n, \A k \in Undoable : k < n, Undoable \subseteq Int, n \in Int, NEW f, NEW i, NEW x
  PROVE  Was(f, i, n, x) <=> x = Value(f, i)
<1>1. PICK old : old = History(f, i) OBVIOUS
<1>2. \A k \in DOMAIN old : k >= n => old[k] = {}
  BY <1>1 DEF History
<1> QED BY <1>1, <1>2, HeldNow DEF Was

\* The undo of the last transaction changes nothing in what was held before it.
LEMMA WasBeforeUndone ==
  ASSUME Undoable \subseteq Int, NEW s \in Undoable, \A k \in Undoable : k <= s,
         Undoable' = Undoable \ {s}, \A k \in Undoable' : txns'[k] = txns[k],
         NEW f, NEW i,
         \/ Restores(txns[s], f, i) = {Value(f, i)'}
         \/ Restores(txns[s], f, i) = {} /\ Value(f, i)' = Value(f, i)
  PROVE  \A n \in Int : \A x : n <= s => (Was(f, i, n, x)' <=> Was(f, i, n, x))
<1>1. PICK v : v = Value(f, i)' OBVIOUS
<1>2. PICK w : w = Value(f, i) OBVIOUS
<1>3. PICK old : old = History(f, i)' OBVIOUS
<1>4. PICK new : new = History(f, i) OBVIOUS
<1>5. DOMAIN new = Undoable /\ \A k \in Undoable : new[k] = Restores(txns[k], f, i)
  BY <1>4 DEF History
<1>6. DOMAIN old = Undoable' /\ \A k \in Undoable' : old[k] = Restores(txns'[k], f, i)
  BY <1>3 DEF History, Restores
<1>7. Longer(old, new, s, v, w) /\ s \in Int
  <2>1. DOMAIN old \subseteq Int /\ DOMAIN new = DOMAIN old \cup {s} /\ s \in Int
    BY <1>5, <1>6
  <2>2. ASSUME NEW k \in DOMAIN old PROVE k < s /\ new[k] = old[k]
    <3>1. k \in Undoable /\ k # s /\ s \in Int /\ k \in Int /\ k <= s
      BY <1>6
    <3>2. txns'[k] = txns[k] BY <1>6
    <3> QED BY <3>1, <3>2, <1>5, <1>6
  <2>3. new[s] = {v} \/ (new[s] = {} /\ w = v)
    BY <1>1, <1>2, <1>5
  <2> QED BY <2>1, <2>2, <2>3 DEF Longer
<1>8. \A n \in Int : \A x : n <= s => (Held(new, w, n, x) <=> Held(old, v, n, x))
  BY <1>7, HeldBefore
<1> QED BY <1>1, <1>2, <1>3, <1>4, <1>8 DEF Was

-----------------------------------------------------------------------------
(* One call at a time: the graph before a transaction *)

\* The merges that can be undone.
Standing == {n \in Undoable : txns[n].op = "MERGE"}

\* The aliases and the names of the entities that there were just before stamp n.
RowsAt(n) == DOMAIN aliases \ {m \in Standing : m >= n}
Named(e, n, x) ==
    \/ e \in DOMAIN entities /\ entities[e] = x
    \/ \E m \in Standing : m >= n /\ txns[m].snap.merged = e /\ txns[m].snap.mergeName = x

\* Just before stamp n a name led to one entity, and entities were found by their names.
OneAt(n) ==
    \A i, j \in RowsAt(n) : \A d, e :
        aliases[i].alias = aliases[j].alias /\ Was("alias", i, n, d) /\ Was("alias", j, n, e)
            => d = e
NamedAt(n) ==
    \A e, x : Named(e, n, x) =>
        \E i \in RowsAt(n) : aliases[i].alias = Fold[x] /\ Was("alias", i, n, e)

\* Just before stamp n the graph was g, but for entities that were made since, which
\* undo leaves there, and for entries.
EntitiesAt(n, g) ==
    /\ DOMAIN g.entities \subseteq 1..(n - 1)
    /\ \A e \in DOMAIN g.entities : Named(e, n, g.entities[e])
AliasesAt(n, g) ==
    /\ \A i \in RowsAt(n), e \in DOMAIN g.entities :
          Was("alias", i, n, e) => <<aliases[i].alias, e>> \in g.aliases
    /\ \A p \in g.aliases : \E i \in RowsAt(n), e \in DOMAIN g.entities :
          p = <<aliases[i].alias, e>> /\ Was("alias", i, n, e)
TriplesAt(n, g) ==
    /\ g.triples = [i \in DOMAIN g.triples |-> <<g.triples[i][1], g.triples[i][2]>>]
    /\ \A i : i \in DOMAIN g.triples <=> i \in DOMAIN triples /\ Was("gone", i, n, 0)
    /\ \A i \in DOMAIN g.triples :
          Was("subject", i, n, g.triples[i][1]) /\ Was("object", i, n, g.triples[i][2])
LinksAt(n, g) ==
    "link" \in Fields =>
        \A i \in DOMAIN g.links : i \in DOMAIN entries /\ Was("link", i, n, g.links[i])

Stood(n, g) ==
    OneAt(n) /\ NamedAt(n) /\ EntitiesAt(n, g) /\ AliasesAt(n, g) /\ TriplesAt(n, g)
    /\ LinksAt(n, g)

\* The step leaves alone what was there before stamp s.  It may make rows of its own
\* number s: then they were never anything else.
Earlier(s) ==
    /\ \A f \in Fields : \A i \in Table(f) : i \in Table(f)' \/ (f = "alias" /\ i = s)
    /\ \A f \in Fields : \A i \in Table(f) : i \in Table(f)' =>
          \A n \in Int : n <= s => \A x : Was(f, i, n, x)' <=> Was(f, i, n, x)
    /\ \A i \in DOMAIN aliases : i \in DOMAIN aliases' => aliases'[i].alias = aliases[i].alias
    /\ \A n \in Int : n <= s =>
          /\ RowsAt(n) \subseteq RowsAt(n)'
          /\ \A i \in RowsAt(n)' \ RowsAt(n) :
                /\ i = s /\ s \in DOMAIN entities'
                /\ aliases'[i].alias = Fold[entities'[s]]
                /\ \A j \in DOMAIN aliases : aliases[j].alias # aliases'[i].alias
                /\ \A x : Was("alias", i, n, x)' <=> x = s
          /\ \A e, x : Named(e, n, x)' <=>
                Named(e, n, x) \/ (e = s /\ s \in RowsAt(n)' \ RowsAt(n) /\ x = entities'[s])
          /\ \A i \in DOMAIN triples' \ DOMAIN triples : ~Was("gone", i, n, 0)'

\* Such a step keeps what is known of the graph at an earlier stamp.
LEMMA StoodStays ==
  ASSUME NEW s \in Int, Earlier(s), NEW n \in Int, n <= s, NEW g, Stood(n, g)
  PROVE  Stood(n, g)'
<1>1. PICK R : R = RowsAt(n) OBVIOUS
<1>2. PICK Q : Q = RowsAt(n)' OBVIOUS
<1>3. R \subseteq DOMAIN aliases /\ Q \subseteq DOMAIN aliases'
  BY <1>1, <1>2 DEF RowsAt
<1>4. /\ R \subseteq Q
      /\ \A i \in Q \ R :
                /\ i = s /\ s \in DOMAIN entities'
                /\ aliases'[i].alias = Fold[entities'[s]]
                /\ \A j \in DOMAIN aliases : aliases[j].alias # aliases'[i].alias
                /\ \A x : Was("alias", i, n, x)' <=> x = s
      /\ \A e, x : Named(e, n, x)' <=>
                Named(e, n, x) \/ (e = s /\ s \in Q \ R /\ x = entities'[s])
      /\ \A i \in DOMAIN triples' \ DOMAIN triples : ~Was("gone", i, n, 0)'
  BY <1>1, <1>2 DEF Earlier
<1>5. \A i \in R : aliases'[i].alias = aliases[i].alias
  BY <1>3, <1>4 DEF Earlier
<1>6. \A i \in R : \A x : Was("alias", i, n, x)' <=> Was("alias", i, n, x)
  <2>1. "alias" \in Fields /\ Table("alias") = DOMAIN aliases /\ Table("alias")' = DOMAIN aliases'
    BY DEF Fields, Table
  <2> QED BY <2>1, <1>3, <1>4 DEF Earlier
<1>7. OneAt(n)'
  <2> SUFFICES ASSUME NEW i \in Q, NEW j \in Q, NEW d, NEW e,
                      aliases'[i].alias = aliases'[j].alias,
                      Was("alias", i, n, d)', Was("alias", j, n, e)'
               PROVE  d = e
    BY <1>2 DEF OneAt
  <2>1. CASE i \in R /\ j \in R
    BY <2>1, <1>1, <1>5, <1>6 DEF Stood, OneAt
  <2>2. CASE i \notin R /\ j \notin R
    BY <2>2, <1>4
  <2>3. CASE i \in R /\ j \notin R
    BY <2>3, <1>3, <1>4, <1>5
  <2>4. CASE i \notin R /\ j \in R
    BY <2>4, <1>3, <1>4, <1>5
  <2> QED BY <2>1, <2>2, <2>3, <2>4
<1>8. NamedAt(n)'
  <2> SUFFICES ASSUME NEW e, NEW x, Named(e, n, x)'
               PROVE  \E i \in Q : aliases'[i].alias = Fold[x] /\ Was("alias", i, n, e)'
    BY <1>2 DEF NamedAt
  <2>1. CASE Named(e, n, x)
    BY <2>1, <1>1, <1>4, <1>5, <1>6 DEF Stood, NamedAt
  <2>2. CASE e = s /\ s \in Q \ R /\ x = entities'[s]
    BY <2>2, <1>4
  <2> QED BY <2>1, <2>2, <1>4
<1>9. EntitiesAt(n, g)'
  BY <1>4 DEF Stood, EntitiesAt
<1>10. s \notin DOMAIN g.entities
  BY DEF Stood, EntitiesAt
<1>11. AliasesAt(n, g)'
  <2>1. ASSUME NEW i \in Q, NEW e \in DOMAIN g.entities, Was("alias", i, n, e)'
        PROVE  <<aliases'[i].alias, e>> \in g.aliases
    <3>1. i \in R BY <2>1, <1>4, <1>10
    <3> QED BY <2>1, <3>1, <1>1, <1>5, <1>6 DEF Stood, AliasesAt
  <2>2. ASSUME NEW p \in g.aliases
        PROVE  \E i \in Q, e \in DOMAIN g.entities :
                   p = <<aliases'[i].alias, e>> /\ Was("alias", i, n, e)'
    BY <1>1, <1>4, <1>5, <1>6 DEF Stood, AliasesAt
  <2> QED BY <2>1, <2>2, <1>2 DEF AliasesAt
<1>12. \A f \in {"subject", "object", "gone"} : \A i \in DOMAIN triples : \A x :
          i \in DOMAIN triples' /\ (Was(f, i, n, x)' <=> Was(f, i, n, x))
  <2>1. \A f \in {"subject", "object", "gone"} :
           f \in Fields /\ f # "alias" /\ Table(f) = DOMAIN triples /\ Table(f)' = DOMAIN triples'
    BY DEF Fields, Table
  <2> QED BY <2>1 DEF Earlier
<1>13. TriplesAt(n, g)'
  BY <1>4, <1>12 DEF Stood, TriplesAt
<1>14. LinksAt(n, g)'
  <2>1. ASSUME "link" \in Fields
        PROVE  \A i \in DOMAIN entries : \A x :
                  i \in DOMAIN entries' /\ (Was("link", i, n, x)' <=> Was("link", i, n, x))
    <3>1. Table("link") = DOMAIN entries /\ Table("link")' = DOMAIN entries'
      BY DEF Table
    <3> QED BY <2>1, <3>1 DEF Earlier
  <2>2. Fields' = Fields
    BY DEF Fields
  <2> QED BY <2>1, <2>2 DEF Stood, LinksAt
<1> QED BY <1>7, <1>8, <1>9, <1>11, <1>13, <1>14 DEF Stood

-----------------------------------------------------------------------------
(* One call at a time: the invariant *)

Keys == DOMAIN txns \cup DOMAIN entities \cup DOMAIN aliases \cup DOMAIN triples
            \cup DOMAIN entries

\* Stamps and ids are drawn before they are used; s is drawn and not used.
Drawn    == clock \in Nat /\ Keys \subseteq 1..clock /\ DOMAIN past = DOMAIN txns
Fresh(s) == s \in 1..clock /\ Keys \subseteq 1..(s - 1)

Shapes ==
    /\ \A i \in DOMAIN triples : DOMAIN triples[i] = {"subject", "object", "deleted"}
    /\ \A i \in DOMAIN entries : DOMAIN entries[i] = {"entity", "deleted"}
    /\ "link" \in Fields => \A i \in DOMAIN entries : ~entries[i].deleted

\* One name leads to one entity, and entities are found by their names, now.
OneNow   == \A i, j \in DOMAIN aliases :
                aliases[i].alias = aliases[j].alias => aliases[i].entity = aliases[j].entity
NamedNow == \A e \in DOMAIN entities : \E i \in DOMAIN aliases :
                aliases[i].alias = Fold[entities[e]] /\ aliases[i].entity = e

\* A merge that can be undone: its alias, the rows it captured and the entity that
\* it merged are as it left them.
Stand(n) ==
    LET snap == txns[n].snap IN
    /\ n \in DOMAIN aliases /\ aliases[n].alias = Fold[snap.mergeName]
    /\ Was("alias", n, n + 1, snap.keep)
    /\ snap.keep # snap.merged /\ snap.merged \in 1..(n - 1)
    /\ snap.merged \notin DOMAIN entities
    /\ \A m \in Standing : txns[m].snap.merged = snap.merged => m = n
    /\ \A i \in snap.als : i < n
    /\ \A f \in Fields : \A i \in Captured(snap, f) :
          i \in Table(f) /\ Was(f, i, n + 1, To(snap, f))

TxnOps == {"CREATE", "UPDATE", "DELETE", "MERGE"}

Logged(n) ==
    /\ txns[n].op \in TxnOps /\ "reverted_by" \in DOMAIN txns[n]
    /\ \A f \in Fields : \A i : Restores(txns[n], f, i) # {} => i \in 1..n

Recorded(n) == Logged(n) /\ Stood(n, past[n]) /\ (txns[n].op = "MERGE" => Stand(n))

\* What the one call that is running has read is still so.
MergeKnows(c) ==
    /\ c.phase \in {"keep", "subjects", "objects", "entries", "aliases", "sent"}
    /\ {"keep", "merged", "keepName"} \subseteq DOMAIN c
    /\ c.phase # "keep" => {"mergeName", "subj", "obj", "ents", "als"} \subseteq DOMAIN c
    /\ c.keep # c.merged /\ c.keep \in DOMAIN entities /\ c.merged \in DOMAIN entities
    /\ c.keepName = entities[c.keep]
    /\ c.phase # "keep" => c.stamp # 0 /\ c.mergeName = entities[c.merged]
    /\ c.phase \in {"objects", "entries", "aliases", "sent"} =>
          c.subj = {i \in LiveTriples : triples[i].subject = c.mergeName}
    /\ c.phase \in {"entries", "aliases", "sent"} =>
          c.obj = {i \in LiveTriples : triples[i].object = c.mergeName}
    /\ c.phase \in {"aliases", "sent"} =>
          c.ents = {i \in LiveEntries : entries[i].entity = c.merged}
    /\ c.phase = "sent" => c.als = {i \in DOMAIN aliases : aliases[i].entity = c.merged}

Knows(c) ==
    /\ {"op", "phase", "stamp"} \subseteq DOMAIN c
    /\ c.stamp # 0 => Fresh(c.stamp)
    /\ c.phase = "sent" => c.stamp # 0
    /\ c.op = "upsert" => /\ "name" \in DOMAIN c
                          /\ \A i \in DOMAIN aliases : aliases[i].alias # Fold[c.name]
    /\ c.op = "update" => /\ {"row", "before"} \subseteq DOMAIN c
                          /\ c.row \in LiveTriples
                          /\ c.before = [subject |-> triples[c.row].subject,
                                         object  |-> triples[c.row].object]
    /\ c.op = "delete" => /\ {"type", "row"} \subseteq DOMAIN c
                          /\ c.type = "triple" => c.row \in LiveTriples
                          /\ c.type # "triple" => c.type = "entry" /\ "link" \notin Fields
                          /\ c.type = "entry" => c.row \in LiveEntries
    /\ c.op = "merge" => MergeKnows(c)
    /\ c.op = "undo" => /\ "todo" \in DOMAIN c /\ c.todo \subseteq Undoable
                        /\ \A n \in c.todo, m \in Undoable \ c.todo : m < n

CallKnows == DOMAIN call = Handlers /\ \A h \in Handlers : Knows(call[h])

SeqInv ==
    /\ GraphInv /\ Drawn /\ Shapes /\ OneNow /\ NamedNow
    /\ \A n \in Undoable : Recorded(n)
    /\ CallKnows

\* Transactions that can be undone have numbers that were drawn.
LEMMA UndoableInRange == Drawn => Undoable \subseteq DOMAIN txns /\ Undoable \subseteq 1..clock
  BY DEF Drawn, Keys, Undoable

\* Before a stamp that is drawn and not used, the graph was as it is.
LEMMA StoodNow ==
  ASSUME SeqInv, NEW s \in Int, Keys \subseteq 1..(s - 1), NEW g, g = Graph
  PROVE  Stood(s, g)
<1>1. Undoable \subseteq Int /\ \A k \in Undoable : k < s
  BY DEF Keys, Undoable
<1>2. \A f, i, x : Was(f, i, s, x) <=> x = Value(f, i)
  BY <1>1, WasNow
<1>3. \A m \in Standing : ~(m >= s)
  BY <1>1 DEF Standing
<1>4. RowsAt(s) = DOMAIN aliases
  BY <1>3 DEF RowsAt
<1>5. \A e, x : Named(e, s, x) <=> e \in DOMAIN entities /\ entities[e] = x
  BY <1>3 DEF Named
<1>6. \A i : Value("alias", i) = aliases[i].entity
  BY DEF Value
<1>7. OneAt(s)
  BY <1>2, <1>4, <1>6 DEF OneAt, SeqInv, OneNow
<1>8. NamedAt(s)
  BY <1>2, <1>4, <1>5, <1>6 DEF NamedAt, SeqInv, NamedNow
<1>9. /\ g.entities = entities
      /\ g.aliases = {<<aliases[i].alias, aliases[i].entity>> : i \in DOMAIN aliases}
      /\ g.triples = [i \in LiveTriples |-> <<triples[i].subject, triples[i].object>>]
      /\ g.links = [i \in LiveEntries |-> entries[i].entity]
  BY DEF Graph
<1>10. EntitiesAt(s, g)
  BY <1>5, <1>9 DEF EntitiesAt, Keys
<1>11. AliasesAt(s, g)
  <2>1. \A i \in DOMAIN aliases : aliases[i].entity \in DOMAIN entities
    BY DEF SeqInv, GraphInv, AliasTargetsExist
  <2> QED BY <2>1, <1>2, <1>4, <1>6, <1>9 DEF AliasesAt
<1>12. TriplesAt(s, g)
  <2>1. \A i : /\ Value("subject", i) = triples[i].subject /\ Value("object", i) = triples[i].object
               /\ Value("gone", i) = IF triples[i].deleted THEN 1 ELSE 0
    BY DEF Value
  <2> QED BY <2>1, <1>2, <1>9 DEF TriplesAt, LiveTriples
<1>13. LinksAt(s, g)
  <2>1. \A i : Value("link", i) = entries[i].entity
    BY DEF Value
  <2> QED BY <2>1, <1>2, <1>9 DEF LinksAt, LiveEntries
<1> QED BY <1>7, <1>8, <1>10, <1>11, <1>12, <1>13 DEF Stood

\* What is recorded of a merge stays so.
LEMMA StandStays ==
  ASSUME NEW s \in Int, Earlier(s), NEW n \in Standing, n \in Int, n < s, Stand(n),
         txns'[n] = txns[n], Standing' \subseteq Standing \cup {s},
         \A m \in Standing : m \in Standing' => txns'[m] = txns[m],
         s \in Standing' /\ s \notin Standing => txns'[s].snap.merged # txns[n].snap.merged,
         txns[n].snap.merged \notin DOMAIN entities'
  PROVE  Stand(n)'
<1>1. PICK snap : snap = txns[n].snap OBVIOUS
<1>2. snap = txns'[n].snap BY <1>1
<1>3. \A f \in Fields : \A i \in Captured(snap, f) : i \in Table(f) /\ Was(f, i, n + 1, To(snap, f))
  BY <1>1 DEF Stand
<1>4. "alias" \in Fields /\ Table("alias") = DOMAIN aliases /\ Table("alias")' = DOMAIN aliases'
      /\ Fields' = Fields
  BY DEF Fields, Table
<1>5. Captured(snap, "alias") = snap.als
  BY DEF Captured
<1>6. \A i \in snap.als : i < n
  BY <1>1 DEF Stand
<1>7. n + 1 \in Int /\ n + 1 <= s OBVIOUS
<1>8. \A f \in Fields : \A i \in Captured(snap, f) : i \in Table(f)' /\ i \in Table(f)
  <2> SUFFICES ASSUME NEW f \in Fields, NEW i \in Captured(snap, f)
               PROVE  i \in Table(f)' /\ i \in Table(f)
    OBVIOUS
  <2>1. i \in Table(f) BY <1>3
  <2>2. i \in Table(f)' \/ (f = "alias" /\ i = s)
    BY <2>1 DEF Earlier
  <2>3. ~(f = "alias" /\ i = s)
    BY <1>5, <1>6
  <2> QED BY <2>1, <2>2, <2>3
<1>9. \A f \in Fields : \A i \in Captured(snap, f) : Was(f, i, n + 1, To(snap, f))'
  <2> SUFFICES ASSUME NEW f \in Fields, NEW i \in Captured(snap, f)
               PROVE  Was(f, i, n + 1, To(snap, f))'
    OBVIOUS
  <2>1. \A x : Was(f, i, n + 1, x)' <=> Was(f, i, n + 1, x)
    BY <1>7, <1>8 DEF Earlier
  <2> QED BY <2>1, <1>3
<1>10. /\ n \in DOMAIN aliases /\ aliases[n].alias = Fold[snap.mergeName]
       /\ Was("alias", n, n + 1, snap.keep)
  BY <1>1 DEF Stand
<1>11. n \in DOMAIN aliases' /\ aliases'[n].alias = aliases[n].alias
  BY <1>4, <1>10 DEF Earlier
<1>12. Was("alias", n, n + 1, snap.keep)'
  <2>1. \A x : Was("alias", n, n + 1, x)' <=> Was("alias", n, n + 1, x)
    BY <1>4, <1>7, <1>10, <1>11 DEF Earlier
  <2> QED BY <2>1, <1>10
<1>13. snap.keep # snap.merged /\ snap.merged \in 1..(n - 1) /\ snap.merged \notin DOMAIN entities'
  BY <1>1 DEF Stand
<1>14. \A m \in Standing' : txns'[m].snap.merged = snap.merged => m = n
  BY <1>1 DEF Stand
<1> QED
  BY <1>2, <1>4, <1>6, <1>8, <1>9, <1>10, <1>11, <1>12, <1>13, <1>14
  DEF Stand, Captured, To, Restores

\* The transactions that can be undone after a step are old ones, which it leaves
\* alone, and perhaps one more, s.
Onward(s) ==
    /\ \A n \in Undoable' : n = s \/ (n \in Undoable /\ n < s)
    /\ \A n \in Undoable \ {s} : n \in Undoable' /\ txns'[n] = txns[n] /\ past'[n] = past[n]

\* Nothing that is recorded is lost.
LEMMA RecordedStays ==
  ASSUME SeqInv, NEW s \in Int, Earlier(s), Onward(s),
         s \in Undoable' => s \notin Undoable /\ Recorded(s)',
         s \in Standing' => \A n \in Standing : txns'[s].snap.merged # txns[n].snap.merged,
         \A n \in Standing : n < s => txns[n].snap.merged \notin DOMAIN entities'
  PROVE  (\A n \in Undoable : Recorded(n))'
<1> SUFFICES ASSUME NEW n \in Undoable' PROVE Recorded(n)'
  OBVIOUS
<1>1. CASE n = s
  BY <1>1
<1>2. CASE n # s
  <2>1. n \in Undoable /\ n < s /\ n \in Int
    BY <1>2, UndoableInRange DEF Onward, SeqInv, Drawn
  <2>2. txns'[n] = txns[n] /\ past'[n] = past[n]
    BY <1>2, <2>1 DEF Onward
  <2>3. Recorded(n)
    BY <2>1 DEF SeqInv
  <2>4. Logged(n)'
    BY <2>2, <2>3 DEF Recorded, Logged, Restores, Fields, Captured, From
  <2>5. Stood(n, past[n])'
    <3>1. PICK g : g = past[n] OBVIOUS
    <3>2. Stood(n, g)' BY <2>1, <2>3, <3>1, StoodStays DEF Recorded
    <3> QED BY <2>2, <3>1, <3>2
  <2>6. ASSUME txns'[n].op = "MERGE" PROVE Stand(n)'
    <3>1. n \in Standing BY <2>1, <2>2, <2>6 DEF Standing
    <3>2. \A m \in Standing' : m = s \/ (m \in Standing /\ txns'[m] = txns[m])
      BY DEF Standing, Onward
    <3>3. \A m \in Standing : m \in Standing' => txns'[m] = txns[m]
      BY DEF Standing, Onward
    <3>4. Stand(n) BY <2>2, <2>3, <2>6 DEF Recorded
    <3> QED BY <2>1, <2>2, <3>1, <3>2, <3>3, <3>4, StandStays
  <2> QED BY <2>4, <2>5, <2>6 DEF Recorded
<1> QED BY <1>1, <1>2

-----------------------------------------------------------------------------
(* One call at a time: the steps *)

\* The values of cells that no step but a batch changes.
LEMMA SameCells ==
  ASSUME NEW f \in Fields, NEW i \in Table(f),
         aliases' = aliases, triples' = triples,
         entries' = entries \/ \A j \in DOMAIN entries : entries'[j] = entries[j]
  PROVE  Value(f, i)' = Value(f, i)
  BY DEF Value, Table, Fields

\* The one call that runs becomes d.
LEMMA CallBecomes ==
  ASSUME OneHandler, DOMAIN call = Handlers, NEW h \in Handlers, NEW d,
         call' = [call EXCEPT ![h] = d], Knows(d)'
  PROVE  CallKnows'
<1>1. DOMAIN call' = Handlers /\ \A g \in Handlers : call'[g] = d
  BY DEF OneHandler
<1> QED BY <1>1 DEF CallKnows

\* A handler without a call knows nothing.
LEMMA IdleKnows == Knows(Idle)
  BY DEF Knows, Idle

\* A step that changes nothing but clock, call and perhaps adds an entry keeps what is
\* recorded.
LEMMA QuietKeeps ==
  ASSUME SeqInv, clock' \in Nat, clock' >= clock,
         UNCHANGED <<entities, aliases, triples, txns, past>>,
         \/ entries' = entries
         \/ \E e : entries' = With(entries, clock + 1, [entity |-> e, deleted |-> FALSE])
                   /\ clock' = clock + 1,
         CallKnows', GraphInv'
  PROVE  SeqInv'
<1>1. PICK s : s = clock + 1 OBVIOUS
<1>2. clock \in Nat /\ Keys \subseteq 1..clock /\ DOMAIN past = DOMAIN txns /\ s \in Int
  BY <1>1 DEF SeqInv, Drawn
<1>3. \A j \in DOMAIN entries : j \in DOMAIN entries' /\ entries'[j] = entries[j]
  BY <1>2 DEF With, Keys
<1>4. Drawn'
  BY <1>2 DEF Drawn, Keys, With
<1>5. Shapes'
  BY <1>2 DEF SeqInv, Shapes, With, Fields
<1>6. OneNow' /\ NamedNow'
  BY DEF SeqInv, OneNow, NamedNow
<1>7. Undoable' = Undoable /\ Standing' = Standing
  BY DEF Undoable, Standing
<1>8. Undoable \subseteq 1..clock
  BY UndoableInRange DEF SeqInv
<1>9. ASSUME NEW f \in Fields, NEW i \in Table(f) 
      PROVE  i \in Table(f)' /\ Value(f, i)' = Value(f, i)
  <2>1. i \in Table(f)' BY <1>3, <1>9 DEF Table
  <2>2. Value(f, i)' = Value(f, i) BY <1>3, <1>9, SameCells
  <2> QED BY <2>1, <2>2
<1>10. \A f \in Fields : \A i \in Table(f) : \A n \in Int : \A x : 
           Was(f, i, n, x)' <=> Was(f, i, n, x)
  <2> SUFFICES ASSUME NEW f \in Fields, NEW i \in Table(f), NEW n \in Int, NEW x
               PROVE  Was(f, i, n, x)' <=> Was(f, i, n, x)
    OBVIOUS
  <2>1. History(f, i)' = History(f, i)
    BY <1>7 DEF History, Restores
  <2>2. Value(f, i)' = Value(f, i) BY <1>9
  <2> QED BY <2>1, <2>2 DEF Was, Held
<1>11. \A n \in Int : RowsAt(n)' = RowsAt(n) /\ \A e, x : Named(e, n, x)' <=> Named(e, n, x)
  BY <1>7 DEF RowsAt, Named
<1>12. s \notin DOMAIN aliases
  BY <1>1, <1>2 DEF Keys
<1>13. Earlier(s)
  BY <1>9, <1>10, <1>11, <1>12 DEF Earlier, RowsAt
<1>14. Onward(s)
  BY <1>1, <1>2, <1>7, <1>8 DEF Onward
<1>15. s \notin Undoable
  BY <1>1, <1>2, <1>8
<1>16. \A n \in Standing : txns[n].snap.merged \notin DOMAIN entities'
  BY DEF Standing, SeqInv, Recorded, Stand
<1>17. (\A n \in Undoable : Recorded(n))'
  BY <1>2, <1>7, <1>13, <1>14, <1>15, <1>16, RecordedStays DEF Standing
<1> QED BY <1>4, <1>5, <1>6, <1>17 DEF SeqInv

\* A batch logs transaction t under stamp s.
Appends(s, t) ==
    /\ Fresh(s) /\ t.op \in TxnOps /\ "reverted_by" \in DOMAIN t /\ t.reverted_by = 0
    /\ txns' = With(txns, s, t) /\ past' = With(past, s, Graph)

\* What a batch that logs a transaction does to the log.
LEMMA AppendedTxn ==
  ASSUME SeqInv, NEW s, NEW t, Appends(s, t)
  PROVE  /\ s \in Int /\ s \notin Keys /\ Keys \subseteq 1..(s - 1)
         /\ Undoable \subseteq Int /\ Undoable' = Undoable \cup {s} /\ s \notin Undoable
         /\ \A n \in Undoable : n < s /\ txns'[n] = txns[n] /\ past'[n] = past[n]
         /\ txns'[s] = t /\ past'[s] = Graph
         /\ Standing' = IF t.op = "MERGE" THEN Standing \cup {s} ELSE Standing
         /\ DOMAIN txns' = DOMAIN txns \cup {s} /\ DOMAIN past' = DOMAIN txns'
         /\ Onward(s)
<1>1. s \in Int /\ Keys \subseteq 1..(s - 1) /\ s \notin Keys
  BY DEF Appends, Fresh
<1>2. DOMAIN past = DOMAIN txns /\ DOMAIN txns \subseteq Keys
  BY DEF SeqInv, Drawn, Keys
<1>3. /\ DOMAIN txns' = DOMAIN txns \cup {s} /\ DOMAIN past' = DOMAIN txns'
      /\ txns'[s] = t /\ past'[s] = Graph
      /\ \A n \in DOMAIN txns : txns'[n] = txns[n] /\ past'[n] = past[n]
  BY <1>1, <1>2 DEF Appends, With
<1>4. t.op # "REVERT" /\ t.reverted_by = 0
  BY DEF Appends, TxnOps
<1>5. Undoable' = Undoable \cup {s}
  BY <1>3, <1>4 DEF Undoable
<1>6. Undoable \subseteq DOMAIN txns
  BY DEF Undoable
<1>7. \A n \in Undoable : n < s /\ n \in Int
  <2>1. \A n \in 1..(s - 1) : n < s /\ n \in Int BY <1>1
  <2> QED BY <1>1, <1>2, <1>6, <2>1
<1>8. Standing' = IF t.op = "MERGE" THEN Standing \cup {s} ELSE Standing
  BY <1>3, <1>5, <1>6 DEF Standing
<1>9. Onward(s)
  BY <1>3, <1>5, <1>6, <1>7 DEF Onward
<1> QED BY <1>1, <1>2, <1>3, <1>5, <1>6, <1>7, <1>8, <1>9

\* Cells that the batch changes are the ones whose values t keeps.
LEMMA AppendedWas ==
  ASSUME SeqInv, NEW s, NEW t, Appends(s, t), NEW f, NEW i,
         \/ Restores(t, f, i) = {Value(f, i)}
         \/ Restores(t, f, i) = {} /\ Value(f, i)' = Value(f, i)
  PROVE  \A n \in Int : \A x :
            /\ n <= s => (Was(f, i, n, x)' <=> Was(f, i, n, x))
            /\ n > s  => (Was(f, i, n, x)' <=> x = Value(f, i)')
<1>1. /\ s \in Int /\ Undoable \subseteq Int /\ Undoable' = Undoable \cup {s}
      /\ \A k \in Undoable : k < s /\ txns'[k] = txns[k]
      /\ txns'[s] = t
  BY AppendedTxn
<1>2. \/ Restores(txns'[s], f, i) = {Value(f, i)}
      \/ Restores(txns'[s], f, i) = {} /\ Value(f, i)' = Value(f, i)
  BY <1>1
<1> QED BY <1>1, <1>2, WasBeforeNew

\* A batch that leaves alone what was there before it: all is recorded, itself included.
LEMMA AppendedRecorded ==
  ASSUME SeqInv, NEW s, NEW t, Appends(s, t), Earlier(s),
         t.op = "MERGE" => Stand(s)' /\ t.snap.merged \in DOMAIN entities,
         \A f \in Fields : \A i : Restores(t, f, i) # {} => i \in 1..s,
         DOMAIN entities' \subseteq DOMAIN entities \cup {s}
  PROVE  (\A n \in Undoable : Recorded(n))'
<1>1. /\ s \in Int /\ s \notin Keys /\ Keys \subseteq 1..(s - 1)
      /\ Undoable' = Undoable \cup {s} /\ s \notin Undoable
      /\ \A n \in Undoable : n < s
      /\ txns'[s] = t /\ past'[s] = Graph
      /\ Standing' = IF t.op = "MERGE" THEN Standing \cup {s} ELSE Standing
      /\ Onward(s)
  BY AppendedTxn
<1>2. PICK g : g = Graph OBVIOUS
<1>3. Stood(s, g) BY <1>1, <1>2, StoodNow
<1>4. Stood(s, g)' BY <1>1, <1>3, StoodStays
<1>5. Stood(s, past[s])' BY <1>1, <1>2, <1>4
<1>6. Logged(s)'
  <2>1. Fields' = Fields BY DEF Fields
  <2>2. t.op \in TxnOps /\ "reverted_by" \in DOMAIN t BY DEF Appends
  <2> QED BY <1>1, <2>1, <2>2 DEF Logged, Restores, Captured, From
<1>7. Recorded(s)'
  BY <1>1, <1>5, <1>6 DEF Recorded
<1>8. ASSUME NEW n \in Standing
      PROVE  txns[n].snap.merged \notin DOMAIN entities /\ txns[n].snap.merged # s
  <2>1. n \in Undoable /\ Stand(n)
    BY DEF Standing, SeqInv, Recorded
  <2>2. n < s /\ n \in Int BY <1>1, <2>1, UndoableInRange DEF SeqInv, Drawn
  <2> QED BY <1>1, <2>1, <2>2 DEF Stand
<1>9. s \in Standing' => \A n \in Standing : txns'[s].snap.merged # txns[n].snap.merged
  BY <1>1, <1>8 DEF Standing
<1> QED BY <1>1, <1>7, <1>8, <1>9, RecordedStays

\* A batch on triples or entries, of which new rows have the number s.
LEMMA RowBatch ==
  ASSUME OneHandler, SeqInv, NEW h \in Handlers, NEW s, NEW t, Appends(s, t), clock' = clock,
         call' = [call EXCEPT ![h] = Idle], t.op # "MERGE",
         UNCHANGED <<entities, aliases>>, Shapes', GraphInv',
         DOMAIN triples \subseteq DOMAIN triples',
         DOMAIN triples' \subseteq DOMAIN triples \cup {s},
         DOMAIN entries' = DOMAIN entries,
         \A f \in Fields : \A i : Restores(t, f, i) # {} => i \in 1..s,
         \A f \in Fields : \A i \in Table(f) :
            \/ Restores(t, f, i) = {Value(f, i)}
            \/ Restores(t, f, i) = {} /\ Value(f, i)' = Value(f, i),
         s \in DOMAIN triples' => Restores(t, "gone", s) = {1}
  PROVE  SeqInv'
<1>1. /\ s \in Int /\ s \notin Keys /\ Keys \subseteq 1..(s - 1)
      /\ Undoable \subseteq Int /\ Undoable' = Undoable \cup {s} /\ s \notin Undoable
      /\ \A n \in Undoable : n < s /\ txns'[n] = txns[n]
      /\ txns'[s] = t /\ Standing' = Standing
      /\ DOMAIN txns' = DOMAIN txns \cup {s} /\ DOMAIN past' = DOMAIN txns'
  BY AppendedTxn
<1>2. Keys' \subseteq 1..clock
  BY <1>1 DEF SeqInv, Drawn, Keys, Appends, Fresh
<1>3. Drawn' BY <1>1, <1>2 DEF Drawn, SeqInv
<1>4. OneNow' /\ NamedNow'
  BY DEF SeqInv, OneNow, NamedNow
<1>5. CallKnows'
  <2>1. Knows(Idle)' BY DEF Knows, Idle
  <2> QED BY <2>1, CallBecomes DEF SeqInv, CallKnows
<1>6. \A f \in Fields : \A i \in Table(f) : i \in Table(f)' /\
         \A n \in Int : \A x : n <= s => (Was(f, i, n, x)' <=> Was(f, i, n, x))
  <2> SUFFICES ASSUME NEW f \in Fields, NEW i \in Table(f)
               PROVE  /\ i \in Table(f)'
                      /\ \A n \in Int : \A x : n <= s => (Was(f, i, n, x)' <=> Was(f, i, n, x))
    OBVIOUS
  <2>1. i \in Table(f)' BY DEF Table
  <2> QED BY <2>1, AppendedWas
<1>7. \A n \in Int : RowsAt(n)' = RowsAt(n) /\ \A e, x : Named(e, n, x)' <=> Named(e, n, x)
  <2>1. \A m \in Standing : txns'[m] = txns[m] BY <1>1 DEF Standing
  <2> QED BY <1>1, <2>1 DEF RowsAt, Named
<1>8. \A n : s \notin RowsAt(n)
  BY <1>1 DEF Keys, RowsAt
<1>9. ASSUME NEW i \in DOMAIN triples' \ DOMAIN triples, NEW n \in Int, n <= s
      PROVE  ~Was("gone", i, n, 0)'
  <2>1. i = s /\ Restores(t, "gone", s) = {1} BY <1>9
  <2>2. PICK new : new = History("gone", s)' OBVIOUS
  <2>3. PICK w : w = Value("gone", s)' OBVIOUS
  <2>4. DOMAIN new = Undoable \cup {s} /\ new[s] = {1}
        /\ \A k \in Undoable : new[k] = Restores(txns[k], "gone", s)
    BY <1>1, <2>1, <2>2 DEF History, Restores
  <2>5. \A k \in Undoable : new[k] = {}
    <3> SUFFICES ASSUME NEW k \in Undoable, Restores(txns[k], "gone", s) # {} PROVE FALSE
      BY <2>4
    <3>1. "gone" \in Fields BY DEF Fields
    <3>2. s \in 1..k BY <3>1 DEF SeqInv, Recorded, Logged
    <3> QED BY <1>1, <3>2
  <2>6. ~Held(new, w, n, 0)
    <3>1. new[s] # {} /\ s >= n /\ s \in DOMAIN new BY <1>1, <1>9, <2>4
    <3>2. \A m \in DOMAIN new : 0 \notin new[m] BY <2>4, <2>5
    <3> QED BY <3>1, <3>2 DEF Held
  <2> QED BY <2>1, <2>2, <2>3, <2>6 DEF Was
<1>10. Earlier(s)
  BY <1>6, <1>7, <1>8, <1>9 DEF Earlier
<1>11. (\A n \in Undoable : Recorded(n))'
  BY <1>10, AppendedRecorded
<1> QED BY <1>3, <1>4, <1>5, <1>11 DEF SeqInv

\* What is known of a call whose batch is sent.
LEMMA SentKnows ==
  ASSUME SeqInv, NEW h \in Handlers, NEW op, Sent(h, op), NEW c, c = call[h]
  PROVE  Knows(c) /\ c.op = op /\ c.phase = "sent" /\ Fresh(c.stamp)
  BY DEF SeqInv, CallKnows, Sent, Knows

\* createTriple: the new triple was gone before.
LEMMA CommitTripleKeeps ==
  ASSUME OneHandler, SeqInv, GraphInv', NEW h \in Handlers, CommitTriple(h)
  PROVE  SeqInv'
<1>1. PICK c : c = call[h] OBVIOUS
<1>2. PICK s : s = c.stamp OBVIOUS
<1>3. PICK t : t = [op |-> "CREATE", type |-> "triple", row |-> s, snap |-> None,
                    reverted_by |-> 0]
  OBVIOUS
<1>4. Fresh(s) BY <1>1, <1>2, SentKnows DEF CommitTriple
<1>5. Appends(s, t) BY <1>1, <1>2, <1>3, <1>4 DEF CommitTriple, LogTxn, Appends, TxnOps
<1>6. s \in Int /\ s \notin Keys BY <1>5, AppendedTxn
<1>7. \A f, i : Restores(t, f, i) = IF i = s /\ f = "gone" THEN {1} ELSE {}
  BY <1>3 DEF Restores
<1>8. /\ DOMAIN triples' = DOMAIN triples \cup {s}
      /\ \A i \in DOMAIN triples : triples'[i] = triples[i]
      /\ DOMAIN triples'[s] = {"subject", "object", "deleted"}
  BY <1>1, <1>2, <1>6 DEF CommitTriple, With, Keys
<1>9. UNCHANGED <<entities, aliases, entries, clock>> /\ call' = [call EXCEPT ![h] = Idle]
  BY DEF CommitTriple, Done
<1>10. Shapes' BY <1>8, <1>9 DEF Shapes, SeqInv, Fields
<1>11. ASSUME NEW f \in Fields, NEW i \in Table(f)
       PROVE  Restores(t, f, i) = {} /\ Value(f, i)' = Value(f, i)
  <2>1. i # s BY <1>6, <1>11 DEF Table, Keys
  <2>2. Value(f, i)' = Value(f, i) BY <1>8, <1>9, <1>11 DEF Value, Table, Fields
  <2> QED BY <2>1, <2>2, <1>7
<1>12. s \in 1..s BY <1>4 DEF Fresh
<1>13. \A f \in Fields : \A i : Restores(t, f, i) # {} => i \in 1..s
  BY <1>7, <1>12
<1> QED BY <1>5, <1>7, <1>8, <1>9, <1>10, <1>11, <1>13, <1>3, RowBatch

\* updateTriple: the transaction keeps the subject and the object that were read.
LEMMA CommitUpdateKeeps ==
  ASSUME OneHandler, SeqInv, GraphInv', NEW h \in Handlers, CommitUpdate(h)
  PROVE  SeqInv'
<1>1. PICK c : c = call[h] OBVIOUS
<1>2. PICK s : s = c.stamp OBVIOUS
<1>3. PICK t : t = [op |-> "UPDATE", type |-> "triple", row |-> c.row, snap |-> c.before,
                    reverted_by |-> 0]
  OBVIOUS
<1>4. Fresh(s) /\ Knows(c) /\ c.op = "update" BY <1>1, <1>2, SentKnows DEF CommitUpdate
<1>5. Appends(s, t) BY <1>1, <1>2, <1>3, <1>4 DEF CommitUpdate, LogTxn, Appends, TxnOps
<1>6. s \in Int /\ s \notin Keys /\ Keys \subseteq 1..(s - 1) BY <1>5, AppendedTxn
<1>7. /\ c.row \in DOMAIN triples
      /\ t.snap.subject = triples[c.row].subject /\ t.snap.object = triples[c.row].object
  BY <1>3, <1>4 DEF Knows, LiveTriples
<1>8. /\ triples' = [triples EXCEPT ![c.row].object = c.object]
      /\ UNCHANGED <<entities, aliases, entries, clock>> /\ call' = [call EXCEPT ![h] = Idle]
  BY <1>1 DEF CommitUpdate, Done
<1>9. \A i \in DOMAIN triples : DOMAIN triples[i] = {"subject", "object", "deleted"}
  BY DEF SeqInv, Shapes
<1>10. /\ DOMAIN triples' = DOMAIN triples
       /\ \A i \in DOMAIN triples : i # c.row => triples'[i] = triples[i]
       /\ triples'[c.row].subject = triples[c.row].subject
       /\ triples'[c.row].deleted = triples[c.row].deleted
       /\ DOMAIN triples'[c.row] = {"subject", "object", "deleted"}
  BY <1>7, <1>8, <1>9
<1>11. Shapes' BY <1>8, <1>9, <1>10 DEF Shapes, SeqInv, Fields
<1>12. \A f, i : Restores(t, f, i) = IF i = c.row /\ f = "subject" THEN {triples[c.row].subject}
                                     ELSE IF i = c.row /\ f = "object" THEN {triples[c.row].object}
                                     ELSE {}
  BY <1>3, <1>7 DEF Restores
<1>13. ASSUME NEW f \in Fields, NEW i \in Table(f)
       PROVE  \/ Restores(t, f, i) = {Value(f, i)}
              \/ Restores(t, f, i) = {} /\ Value(f, i)' = Value(f, i)
  <2>1. CASE f \in {"alias", "link"}
    <3>1. Restores(t, f, i) = {} BY <2>1, <1>12
    <3>2. Value(f, i)' = Value(f, i) BY <2>1, <1>8 DEF Value
    <3> QED BY <3>1, <3>2
  <2>2. CASE f = "subject"
    <3>1. Value(f, i) = triples[i].subject /\ Value(f, i)' = triples'[i].subject
      BY <2>2 DEF Value
    <3>2. i \in DOMAIN triples BY <2>2, <1>13 DEF Table
    <3> QED BY <2>2, <3>1, <3>2, <1>10, <1>12
  <2>3. CASE f = "object"
    <3>1. Value(f, i) = triples[i].object /\ Value(f, i)' = triples'[i].object
      BY <2>3 DEF Value
    <3>2. i \in DOMAIN triples BY <2>3, <1>13 DEF Table
    <3> QED BY <2>3, <3>1, <3>2, <1>10, <1>12
  <2>4. CASE f = "gone"
    <3>1. i \in DOMAIN triples BY <2>4, <1>13 DEF Table
    <3>2. Value(f, i)' = Value(f, i) BY <2>4, <3>1, <1>10 DEF Value
    <3> QED BY <2>4, <3>2, <1>12
  <2> QED BY <2>1, <2>2, <2>3, <2>4 DEF Fields
<1>14. c.row \in 1..s
  <2>1. c.row \in 1..(s - 1) BY <1>6, <1>7 DEF Keys
  <2> QED BY <2>1, <1>6
<1>15. \A f \in Fields : \A i : Restores(t, f, i) # {} => i \in 1..s
  BY <1>12, <1>14
<1>16. s \notin DOMAIN triples' BY <1>6, <1>10 DEF Keys
<1>17. t.op # "MERGE" BY <1>3
<1>18. /\ UNCHANGED <<entities, aliases>> /\ clock' = clock
       /\ call' = [call EXCEPT ![h] = Idle]
       /\ DOMAIN entries' = DOMAIN entries
       /\ DOMAIN triples \subseteq DOMAIN triples'
       /\ DOMAIN triples' \subseteq DOMAIN triples \cup {s}
  BY <1>8, <1>10
<1> QED BY <1>5, <1>11, <1>13, <1>15, <1>16, <1>17, <1>18, RowBatch

\* deleteTriple and deleteEntry: the row was live when it was read, and is.
LEMMA CommitDeleteKeeps ==
  ASSUME OneHandler, SeqInv, GraphInv', NEW h \in Handlers, CommitDelete(h)
  PROVE  SeqInv'
<1>1. PICK c : c = call[h] OBVIOUS
<1>2. PICK s : s = c.stamp OBVIOUS
<1>3. PICK t : t = [op |-> "DELETE", type |-> c.type, row |-> c.row, snap |-> None,
                    reverted_by |-> 0]
  OBVIOUS
<1>4. Fresh(s) /\ Knows(c) /\ c.op = "delete" BY <1>1, <1>2, SentKnows DEF CommitDelete
<1>5. Appends(s, t) BY <1>1, <1>2, <1>3, <1>4 DEF CommitDelete, LogTxn, Appends, TxnOps
<1>6. s \in Int /\ s \notin Keys /\ Keys \subseteq 1..(s - 1) BY <1>5, AppendedTxn
<1>7. /\ UNCHANGED <<entities, aliases, clock>> /\ call' = [call EXCEPT ![h] = Idle]
      /\ IF c.type = "entry"
         THEN entries' = [entries EXCEPT ![c.row].deleted = TRUE] /\ UNCHANGED triples
         ELSE triples' = [triples EXCEPT ![c.row].deleted = TRUE] /\ UNCHANGED entries
  BY <1>1 DEF CommitDelete, Done
<1>8. \A f, i : Restores(t, f, i) =
         IF i = c.row /\ f = "gone" /\ c.type # "entry" THEN {0} ELSE {}
  BY <1>3 DEF Restores
<1>9. CASE c.type = "entry"
  <2>1. "link" \notin Fields /\ c.row \in LiveEntries
    BY <1>4, <1>9 DEF Knows
  <2>2. c.row \in DOMAIN entries BY <2>1 DEF LiveEntries
  <2>3. Shapes'
    <3>1. \A i \in DOMAIN entries : DOMAIN entries[i] = {"entity", "deleted"}
      BY DEF SeqInv, Shapes
    <3>2. DOMAIN entries' = DOMAIN entries
          /\ \A i \in DOMAIN entries : DOMAIN entries'[i] = {"entity", "deleted"}
      BY <1>7, <1>9, <2>2, <3>1
    <3> QED BY <1>7, <1>9, <2>1, <3>2 DEF Shapes, SeqInv, Fields
  <2>4. \A f \in Fields : \A i \in Table(f) :
           Restores(t, f, i) = {} /\ Value(f, i)' = Value(f, i)
    BY <1>7, <1>8, <1>9, <2>1 DEF Value, Fields
  <2>5. \A f \in Fields : \A i : Restores(t, f, i) # {} => i \in 1..s
    BY <1>8, <1>9
  <2>6. s \notin DOMAIN triples' BY <1>6, <1>7, <1>9 DEF Keys
  <2>7. DOMAIN entries' = DOMAIN entries BY <1>7, <1>9
  <2> QED BY <1>5, <1>7, <1>9, <2>3, <2>4, <2>5, <2>6, <2>7, <1>3, RowBatch
<1>10. CASE c.type # "entry"
  <2>1. c.row \in DOMAIN triples /\ ~triples[c.row].deleted
    BY <1>4, <1>10 DEF Knows, LiveTriples
  <2>2. \A i \in DOMAIN triples : DOMAIN triples[i] = {"subject", "object", "deleted"}
    BY DEF SeqInv, Shapes
  <2>3. /\ DOMAIN triples' = DOMAIN triples
        /\ \A i \in DOMAIN triples : i # c.row => triples'[i] = triples[i]
        /\ triples'[c.row].subject = triples[c.row].subject
        /\ triples'[c.row].object = triples[c.row].object
        /\ DOMAIN triples'[c.row] = {"subject", "object", "deleted"}
    BY <1>7, <1>10, <2>1, <2>2
  <2>4. Shapes' BY <1>7, <1>10, <2>2, <2>3 DEF Shapes, SeqInv, Fields
  <2>5. ASSUME NEW f \in Fields, NEW i \in Table(f)
        PROVE  \/ Restores(t, f, i) = {Value(f, i)}
               \/ Restores(t, f, i) = {} /\ Value(f, i)' = Value(f, i)
    <3>1. CASE f \in {"alias", "link"}
      <4>1. Restores(t, f, i) = {} BY <3>1, <1>8
      <4>2. Value(f, i)' = Value(f, i) BY <3>1, <1>7, <1>10 DEF Value
      <4> QED BY <4>1, <4>2
    <3>2. CASE f \in {"subject", "object"}
      <4>1. i \in DOMAIN triples BY <3>2, <2>5 DEF Table
      <4>2. Value(f, i)' = Value(f, i) BY <3>2, <4>1, <2>3 DEF Value
      <4>3. Restores(t, f, i) = {} BY <3>2, <1>8
      <4> QED BY <4>2, <4>3
    <3>3. CASE f = "gone"
      <4>1. i \in DOMAIN triples BY <3>3, <2>5 DEF Table
      <4>2. CASE i = c.row
        <5>1. Value(f, i) = 0 BY <3>3, <4>2, <2>1 DEF Value
        <5> QED BY <5>1, <3>3, <4>2, <1>8, <1>10
      <4>3. CASE i # c.row
        <5>1. Value(f, i)' = Value(f, i) BY <3>3, <4>1, <4>3, <2>3 DEF Value
        <5> QED BY <5>1, <3>3, <4>3, <1>8
      <4> QED BY <4>2, <4>3
    <3> QED BY <3>1, <3>2, <3>3 DEF Fields
  <2>6. c.row \in 1..s
    <3>1. c.row \in 1..(s - 1) BY <1>6, <2>1 DEF Keys
    <3> QED BY <3>1, <1>6
  <2>7. \A f \in Fields : \A i : Restores(t, f, i) # {} => i \in 1..s
    BY <1>8, <2>6
  <2>8. s \notin DOMAIN triples' BY <1>6, <2>3 DEF Keys
  <2> QED BY <1>5, <1>7, <1>10, <2>3, <2>4, <2>5, <2>7, <2>8, <1>3, RowBatch
<1> QED BY <1>9, <1>10

\* What a cell holds after a step is what it held after the transactions that stand.
LEMMA WasNowAfter ==
  ASSUME NEW n \in Int, Undoable' \subseteq Int, \A k \in Undoable' : k < n, NEW f, NEW i, NEW x
  PROVE  Was(f, i, n, x)' <=> x = Value(f, i)'
<1>1. PICK old : old = History(f, i)' OBVIOUS
<1>2. PICK v : v = Value(f, i)' OBVIOUS
<1>3. \A k \in DOMAIN old : k >= n => old[k] = {}
  BY <1>1 DEF History
<1> QED BY <1>1, <1>2, <1>3, HeldNow DEF Was

\* createEntity: its alias is new, since the lookup found none and nothing ran between.
LEMMA CommitEntityKeeps ==
  ASSUME OneHandler, SeqInv, GraphInv', NEW h \in Handlers, CommitEntity(h)
  PROVE  SeqInv'
<1>1. PICK c : c = call[h] OBVIOUS
<1>2. PICK s : s = c.stamp OBVIOUS
<1>3. PICK t : t = [op |-> "CREATE", type |-> "entity", row |-> s, snap |-> None,
                    reverted_by |-> 0]
  OBVIOUS
<1>4. Fresh(s) /\ Knows(c) /\ c.op = "upsert" BY <1>1, <1>2, SentKnows DEF CommitEntity
<1>5. Appends(s, t) BY <1>1, <1>2, <1>3, <1>4 DEF CommitEntity, LogTxn, Appends, TxnOps
<1>6. /\ s \in Int /\ s \notin Keys /\ Keys \subseteq 1..(s - 1) /\ Standing' = Standing
      /\ Undoable \subseteq Int /\ Undoable' = Undoable \cup {s}
      /\ \A n \in Undoable : n < s /\ txns'[n] = txns[n]
      /\ txns'[s] = t /\ DOMAIN txns' = DOMAIN txns \cup {s} /\ DOMAIN past' = DOMAIN txns'
  <2>1. t.op # "MERGE" BY <1>3
  <2> QED BY <1>5, <2>1, AppendedTxn
<1>7. \A f, i : Restores(t, f, i) = IF i = s /\ f = "gone" THEN {1} ELSE {}
  BY <1>3 DEF Restores
<1>8. /\ DOMAIN entities' = DOMAIN entities \cup {s} /\ entities'[s] = c.name
      /\ \A e \in DOMAIN entities : e # s /\ entities'[e] = entities[e]
      /\ DOMAIN aliases' = DOMAIN aliases \cup {s}
      /\ aliases'[s].alias = Fold[c.name] /\ aliases'[s].entity = s
      /\ \A i \in DOMAIN aliases : i # s /\ aliases'[i] = aliases[i]
  BY <1>1, <1>2, <1>6 DEF CommitEntity, With, Keys
<1>9. UNCHANGED <<triples, entries, clock>> /\ call' = [call EXCEPT ![h] = Idle]
  BY DEF CommitEntity, Done
<1>10. \A i \in DOMAIN aliases : aliases[i].alias # Fold[c.name]
  BY <1>4 DEF Knows
<1>11. Drawn'
  <2>1. Keys' \subseteq 1..clock
    BY <1>6, <1>8, <1>9, <1>4 DEF SeqInv, Drawn, Keys, Fresh
  <2> QED BY <1>6, <1>9, <2>1 DEF Drawn, SeqInv
<1>12. Shapes' BY <1>9 DEF Shapes, SeqInv, Fields
<1>13. OneNow'
  BY <1>8, <1>10 DEF OneNow, SeqInv
<1>14. NamedNow'
  BY <1>8 DEF NamedNow, SeqInv
<1>15. CallKnows'
  <2>1. Knows(Idle)' BY DEF Knows, Idle
  <2> QED BY <1>9, <2>1, CallBecomes DEF SeqInv, CallKnows
<1>16. ASSUME NEW f \in Fields, NEW i \in Table(f)
       PROVE  /\ i \in Table(f)'
              /\ \A n \in Int : \A x : n <= s => (Was(f, i, n, x)' <=> Was(f, i, n, x))
  <2>1. i \in Table(f)' BY <1>8, <1>9 DEF Table
  <2>2. i # s BY <1>6 DEF Table, Keys
  <2>3. Restores(t, f, i) = {} BY <1>7, <2>2
  <2>4. Value(f, i)' = Value(f, i) BY <1>8, <1>9 DEF Value, Table, Fields
  <2> QED BY <1>5, <2>1, <2>3, <2>4, AppendedWas
<1>17. \A n, x : Was("alias", s, n, x)' <=> x = s
  <2> SUFFICES ASSUME NEW n, NEW x PROVE Was("alias", s, n, x)' <=> x = s
    OBVIOUS
  <2>1. PICK old : old = History("alias", s)' OBVIOUS
  <2>2. ASSUME NEW k \in DOMAIN old PROVE old[k] = {}
    <3>1. k \in Undoable' /\ old[k] = Restores(txns'[k], "alias", s)
      BY <2>1, <2>2 DEF History
    <3>2. CASE k = s
      BY <3>1, <3>2, <1>6, <1>7
    <3>3. CASE k # s
      <4>1. k \in Undoable /\ k < s /\ txns'[k] = txns[k] BY <3>1, <3>3, <1>6
      <4>2. s \notin 1..k BY <4>1, <1>6
      <4>3. "alias" \in Fields BY DEF Fields
      <4>4. Restores(txns[k], "alias", s) = {}
        BY <4>1, <4>2, <4>3 DEF SeqInv, Recorded, Logged
      <4> QED BY <3>1, <4>1, <4>4
    <3> QED BY <3>2, <3>3
  <2>3. Value("alias", s)' = s BY <1>8 DEF Value
  <2>4. Held(old, s, n, x) <=> x = s BY <2>2, HeldNow
  <2> QED BY <2>1, <2>3, <2>4 DEF Was
<1>18. ASSUME NEW n \in Int, n <= s
       PROVE  /\ s \notin RowsAt(n) /\ RowsAt(n)' = RowsAt(n) \cup {s}
              /\ \A e, x : Named(e, n, x)' <=>
                    Named(e, n, x) \/ (e = s /\ x = entities'[s])
  <2>1. s \notin Standing BY <1>6 DEF Standing
  <2>2. \A m \in Standing : txns'[m] = txns[m] BY <1>6 DEF Standing
  <2>3. s \notin RowsAt(n) BY <1>6 DEF RowsAt, Keys
  <2>4. RowsAt(n)' = RowsAt(n) \cup {s} BY <1>6, <1>8, <2>1 DEF RowsAt
  <2>5. \A e, x : Named(e, n, x)' <=> Named(e, n, x) \/ (e = s /\ x = entities'[s])
    BY <1>6, <1>8, <2>2 DEF Named
  <2> QED BY <2>3, <2>4, <2>5
<1>19. Earlier(s)
  <2>1. \A i \in DOMAIN aliases : aliases'[i].alias = aliases[i].alias BY <1>8
  <2>2. \A j \in DOMAIN aliases : aliases[j].alias # aliases'[s].alias BY <1>8, <1>10
  <2>3. aliases'[s].alias = Fold[entities'[s]] /\ s \in DOMAIN entities' BY <1>8
  <2>4. DOMAIN triples' \ DOMAIN triples = {} BY <1>9
  <2> QED BY <1>16, <1>17, <1>18, <2>1, <2>2, <2>3, <2>4 DEF Earlier
<1>20. \A f \in Fields : \A i : Restores(t, f, i) # {} => i \in 1..s
  BY <1>4, <1>7 DEF Fresh
<1>21. (\A n \in Undoable : Recorded(n))'
  BY <1>3, <1>5, <1>8, <1>19, <1>20, AppendedRecorded
<1> QED BY <1>11, <1>12, <1>13, <1>14, <1>15, <1>21 DEF SeqInv

\* mergeEntities: the captured rows are exactly those the batch changes, and the names that
\* led to the merged entity lead to the one that is kept.
LEMMA CommitMergeKeeps ==
  ASSUME OneHandler, SeqInv, GraphInv', NEW h \in Handlers, CommitMerge(h)
  PROVE  SeqInv'
<1>1. PICK c : c = call[h] OBVIOUS
<1>2. PICK s : s = c.stamp OBVIOUS
<1>3. PICK snap : snap = [keep |-> c.keep, keepName |-> c.keepName, merged |-> c.merged,
                          mergeName |-> c.mergeName,
                          subj |-> c.subj, obj |-> c.obj, ents |-> c.ents, als |-> c.als]
  OBVIOUS
<1>4. PICK t : t = [op |-> "MERGE", type |-> "entity", row |-> c.keep, snap |-> snap,
                    reverted_by |-> 0]
  OBVIOUS
<1>5. /\ snap.keep = c.keep /\ snap.merged = c.merged
      /\ snap.keepName = c.keepName /\ snap.mergeName = c.mergeName
      /\ snap.subj = c.subj /\ snap.obj = c.obj /\ snap.ents = c.ents /\ snap.als = c.als
  BY <1>3
<1>6. Fresh(s) /\ Knows(c) /\ c.op = "merge" /\ c.phase = "sent"
  BY <1>1, <1>2, SentKnows DEF CommitMerge
<1>7. Appends(s, t)
  BY <1>1, <1>2, <1>3, <1>4, <1>6 DEF CommitMerge, LogTxn, Appends, TxnOps
<1>8. t.op = "MERGE" /\ t.snap = snap BY <1>4
<1>9. /\ s \in Int /\ s \notin Keys /\ Keys \subseteq 1..(s - 1)
      /\ Undoable \subseteq Int /\ Undoable' = Undoable \cup {s}
      /\ \A n \in Undoable : n < s /\ txns'[n] = txns[n]
      /\ Standing' = Standing \cup {s}
      /\ txns'[s] = t /\ DOMAIN txns' = DOMAIN txns \cup {s} /\ DOMAIN past' = DOMAIN txns'
  BY <1>7, <1>8, AppendedTxn
<1>10. /\ c.keep # c.merged /\ c.keep \in DOMAIN entities /\ c.merged \in DOMAIN entities
       /\ c.keepName = entities[c.keep] /\ c.mergeName = entities[c.merged]
       /\ c.subj = {i \in LiveTriples : triples[i].subject = c.mergeName}
       /\ c.obj  = {i \in LiveTriples : triples[i].object = c.mergeName}
       /\ c.ents = {i \in LiveEntries : entries[i].entity = c.merged}
       /\ c.als  = {i \in DOMAIN aliases : aliases[i].entity = c.merged}
  BY <1>6 DEF Knows, MergeKnows
<1>11. /\ entities' = [e \in DOMAIN entities \ {c.merged} |-> entities[e]]
       /\ aliases' = MovedAliases(c)
       /\ entries' = [i \in DOMAIN entries |->
             [entries[i] EXCEPT !.entity = Renamed(@, c.merged, c.keep)]]
       /\ triples' = [i \in DOMAIN triples |->
             IF triples[i].deleted THEN triples[i]
             ELSE [triples[i] EXCEPT !.subject = Renamed(@, c.mergeName, c.keepName),
                                     !.object  = Renamed(@, c.mergeName, c.keepName)]]
       /\ clock' = clock /\ call' = [call EXCEPT ![h] = Idle]
  BY <1>1 DEF CommitMerge, Done
<1>12. \A i \in DOMAIN aliases :
          /\ DOMAIN aliases[i] = {"alias", "entity"} /\ i # s
  BY <1>9 DEF SeqInv, GraphInv, AliasShape, Keys
<1>13. /\ DOMAIN aliases' = DOMAIN aliases \cup {s}
       /\ \A i \in DOMAIN aliases :
             /\ aliases'[i].alias = aliases[i].alias
             /\ aliases'[i].entity = Renamed(aliases[i].entity, c.merged, c.keep)
       /\ aliases'[s].alias = Fold[c.mergeName] /\ aliases'[s].entity = c.keep
  BY <1>2, <1>11, <1>12 DEF MovedAliases, With
<1>14. \A i \in DOMAIN triples : DOMAIN triples[i] = {"subject", "object", "deleted"}
  BY DEF SeqInv, Shapes
<1>15. /\ DOMAIN triples' = DOMAIN triples
       /\ \A i \in DOMAIN triples :
             /\ triples'[i].deleted = triples[i].deleted
             /\ DOMAIN triples'[i] = {"subject", "object", "deleted"}
             /\ triples[i].deleted => triples'[i] = triples[i]
             /\ ~triples[i].deleted =>
                   /\ triples'[i].subject = Renamed(triples[i].subject, c.mergeName, c.keepName)
                   /\ triples'[i].object = Renamed(triples[i].object, c.mergeName, c.keepName)
  BY <1>11, <1>14
<1>16. \A i \in DOMAIN entries : DOMAIN entries[i] = {"entity", "deleted"}
  BY DEF SeqInv, Shapes
<1>17. /\ DOMAIN entries' = DOMAIN entries
       /\ \A i \in DOMAIN entries :
             /\ entries'[i].entity = Renamed(entries[i].entity, c.merged, c.keep)
             /\ entries'[i].deleted = entries[i].deleted
             /\ DOMAIN entries'[i] = {"entity", "deleted"}
  BY <1>11, <1>16
<1>18. DOMAIN entities' = DOMAIN entities \ {c.merged}
       /\ \A e \in DOMAIN entities' : entities'[e] = entities[e]
  BY <1>11
<1>19. Drawn'
  <2>1. Keys' \subseteq 1..clock
    BY <1>9, <1>13, <1>15, <1>17, <1>18, <1>6 DEF SeqInv, Drawn, Keys, Fresh
  <2> QED BY <1>9, <1>11, <2>1 DEF Drawn, SeqInv
<1>20. Shapes' BY <1>15, <1>17 DEF Shapes, SeqInv, Fields
<1>21. \A j \in DOMAIN aliases :
          aliases[j].alias = Fold[c.mergeName] => aliases[j].entity = c.merged
  BY <1>10 DEF SeqInv, OneNow, NamedNow
<1>22. OneNow'
  <2> SUFFICES ASSUME NEW i \in DOMAIN aliases', NEW j \in DOMAIN aliases',
                      aliases'[i].alias = aliases'[j].alias
               PROVE  aliases'[i].entity = aliases'[j].entity
    BY DEF OneNow
  <2>1. CASE i # s /\ j # s BY <2>1, <1>13 DEF SeqInv, OneNow
  <2>2. CASE i = s /\ j # s BY <2>2, <1>13, <1>21 DEF Renamed
  <2>3. CASE i # s /\ j = s BY <2>3, <1>13, <1>21 DEF Renamed
  <2>4. CASE i = s /\ j = s BY <2>4
  <2> QED BY <2>1, <2>2, <2>3, <2>4
<1>23. NamedNow'
  BY <1>13, <1>18 DEF SeqInv, NamedNow, Renamed
<1>24. CallKnows'
  <2>1. Knows(Idle)' BY DEF Knows, Idle
  <2> QED BY <1>11, <2>1, CallBecomes DEF SeqInv, CallKnows
<1>25. \A f, i : Restores(t, f, i) = IF i \in Captured(snap, f) THEN {From(snap, f)} ELSE {}
  BY <1>8 DEF Restores
<1>26. ASSUME NEW f \in Fields, NEW i \in Table(f)
       PROVE  /\ i \in Captured(snap, f) =>
                    Value(f, i) = From(snap, f) /\ Value(f, i)' = To(snap, f)
              /\ i \notin Captured(snap, f) => Value(f, i)' = Value(f, i)
  <2>1. CASE f = "alias"
    <3>1. i \in DOMAIN aliases BY <2>1, <1>26 DEF Table
    <3>2. Value(f, i) = aliases[i].entity /\ Value(f, i)' = aliases'[i].entity
      BY <2>1 DEF Value
    <3>3. Captured(snap, f) = c.als /\ From(snap, f) = c.merged /\ To(snap, f) = c.keep
      BY <2>1, <1>5 DEF Captured, From, To
    <3> QED BY <3>1, <3>2, <3>3, <1>10, <1>13 DEF Renamed
  <2>2. CASE f = "subject"
    <3>1. i \in DOMAIN triples BY <2>2, <1>26 DEF Table
    <3>2. Value(f, i) = triples[i].subject /\ Value(f, i)' = triples'[i].subject
      BY <2>2 DEF Value
    <3>3. Captured(snap, f) = c.subj /\ From(snap, f) = c.mergeName /\ To(snap, f) = c.keepName
      BY <2>2, <1>5 DEF Captured, From, To
    <3> QED BY <3>1, <3>2, <3>3, <1>10, <1>15 DEF Renamed, LiveTriples
  <2>3. CASE f = "object"
    <3>1. i \in DOMAIN triples BY <2>3, <1>26 DEF Table
    <3>2. Value(f, i) = triples[i].object /\ Value(f, i)' = triples'[i].object
      BY <2>3 DEF Value
    <3>3. Captured(snap, f) = c.obj /\ From(snap, f) = c.mergeName /\ To(snap, f) = c.keepName
      BY <2>3, <1>5 DEF Captured, From, To
    <3> QED BY <3>1, <3>2, <3>3, <1>10, <1>15 DEF Renamed, LiveTriples
  <2>4. CASE f = "gone"
    <3>1. i \in DOMAIN triples BY <2>4, <1>26 DEF Table
    <3>2. Captured(snap, f) = {} BY <2>4 DEF Captured
    <3>3. Value(f, i)' = Value(f, i) BY <2>4, <3>1, <1>15 DEF Value
    <3> QED BY <3>2, <3>3
  <2>5. CASE f = "link"
    <3>1. i \in DOMAIN entries /\ ~entries[i].deleted
      BY <2>5, <1>26 DEF Table, SeqInv, Shapes
    <3>2. Value(f, i) = entries[i].entity /\ Value(f, i)' = entries'[i].entity
      BY <2>5 DEF Value
    <3>3. Captured(snap, f) = c.ents /\ From(snap, f) = c.merged /\ To(snap, f) = c.keep
      BY <2>5, <1>5 DEF Captured, From, To
    <3> QED BY <3>1, <3>2, <3>3, <1>10, <1>17 DEF Renamed, LiveEntries
  <2> QED BY <2>1, <2>2, <2>3, <2>4, <2>5 DEF Fields
<1>27. ASSUME NEW f \in Fields, NEW i \in Table(f)
       PROVE  /\ i \in Table(f)'
              /\ \A n \in Int : \A x : n <= s => (Was(f, i, n, x)' <=> Was(f, i, n, x))
  <2>1. i \in Table(f)' BY <1>13, <1>15, <1>17 DEF Table
  <2>2. \/ Restores(t, f, i) = {Value(f, i)}
        \/ Restores(t, f, i) = {} /\ Value(f, i)' = Value(f, i)
    BY <1>25, <1>26
  <2> QED BY <1>7, <2>1, <2>2, AppendedWas
<1>28. ASSUME NEW n \in Int, n <= s
       PROVE  /\ s \notin RowsAt(n) /\ RowsAt(n)' = RowsAt(n)
              /\ \A e, x : Named(e, n, x)' <=> Named(e, n, x)
  <2>1. s \notin DOMAIN aliases BY <1>9 DEF Keys
  <2>2. \A m \in Standing : txns'[m] = txns[m] BY <1>9 DEF Standing
  <2>3. s >= n /\ s \in Standing' BY <1>9, <1>28
  <2>4. RowsAt(n)' = RowsAt(n) BY <1>9, <1>13, <2>1, <2>3 DEF RowsAt
  <2>5. \A e, x : Named(e, n, x)' <=>
            \/ e \in DOMAIN entities' /\ entities'[e] = x
            \/ e = c.merged /\ x = c.mergeName
            \/ \E m \in Standing : m >= n /\ txns[m].snap.merged = e /\ txns[m].snap.mergeName = x
    BY <1>5, <1>8, <1>9, <2>2, <2>3 DEF Named
  <2>6. ASSUME NEW e, NEW x PROVE Named(e, n, x)' <=> Named(e, n, x)
    <3>1. (e \in DOMAIN entities /\ entities[e] = x) <=>
              \/ e \in DOMAIN entities' /\ entities'[e] = x
              \/ e = c.merged /\ x = c.mergeName
      BY <1>10, <1>18
    <3> QED BY <3>1, <2>5 DEF Named
  <2>7. s \notin RowsAt(n) BY <2>1 DEF RowsAt
  <2> QED BY <2>4, <2>6, <2>7
<1>29. Earlier(s)
  <2>1. \A i \in DOMAIN aliases : aliases'[i].alias = aliases[i].alias BY <1>13
  <2>2. DOMAIN triples' \ DOMAIN triples = {} BY <1>15
  <2>3. \A n \in Int : n <= s => s \notin RowsAt(n)' BY <1>28
  <2> QED BY <1>27, <1>28, <2>1, <2>2, <2>3 DEF Earlier
<1>30. \A f \in Fields : \A i \in Captured(snap, f) : i \in Table(f)
  <2> SUFFICES ASSUME NEW f \in Fields, NEW i \in Captured(snap, f) PROVE i \in Table(f)
    OBVIOUS
  <2>1. CASE f = "alias" BY <2>1, <1>5, <1>10 DEF Captured, Table
  <2>2. CASE f = "subject" BY <2>2, <1>5, <1>10 DEF Captured, Table, LiveTriples
  <2>3. CASE f = "object" BY <2>3, <1>5, <1>10 DEF Captured, Table, LiveTriples
  <2>4. CASE f = "gone" BY <2>4 DEF Captured
  <2>5. CASE f = "link" BY <2>5, <1>5, <1>10 DEF Captured, Table, LiveEntries
  <2> QED BY <2>1, <2>2, <2>3, <2>4, <2>5 DEF Fields
<1>31. \A f \in Fields : \A i \in Table(f) : i \in 1..(s - 1)
  <2>1. \A f \in Fields : Table(f) \subseteq Keys BY DEF Table, Keys
  <2> QED BY <1>9, <2>1
<1>32. Stand(s)'
  <2>1. s + 1 \in Int /\ Undoable' \subseteq Int /\ \A k \in Undoable' : k < s + 1
    BY <1>9
  <2>2. \A f, i, x : Was(f, i, s + 1, x)' <=> x = Value(f, i)'
    BY <2>1, WasNowAfter
  <2>3. Value("alias", s)' = c.keep BY <1>13 DEF Value
  <2>4. Was("alias", s, s + 1, c.keep)' BY <2>2, <2>3
  <2>5. \A f \in Fields : \A i \in Captured(snap, f) :
            i \in Table(f)' /\ Was(f, i, s + 1, To(snap, f))'
    BY <1>26, <1>27, <1>30, <2>2
  <2>6. c.merged \in 1..(s - 1) BY <1>9, <1>10 DEF Keys
  <2>7. ASSUME NEW m \in Standing', txns'[m].snap.merged = c.merged PROVE m = s
    <3> SUFFICES ASSUME m # s PROVE FALSE OBVIOUS
    <3>1. m \in Standing /\ txns'[m] = txns[m] BY <1>9 DEF Standing
    <3>2. Stand(m) BY <3>1 DEF Standing, SeqInv, Recorded
    <3> QED BY <2>7, <3>1, <3>2, <1>10 DEF Stand
  <2>8. "alias" \in Fields /\ Captured(snap, "alias") = snap.als /\ Table("alias") = DOMAIN aliases
    BY DEF Fields, Captured, Table
  <2>9. \A i \in snap.als : i < s
    <3>1. \A i \in 1..(s - 1) : i < s BY <1>9
    <3> QED BY <2>8, <3>1, <1>30, <1>31
  <2>10. Fields' = Fields BY DEF Fields
  <2>11. txns'[s].snap = snap BY <1>8, <1>9
  <2>12. s \in DOMAIN aliases' BY <1>13
  <2>13. c.merged \notin DOMAIN entities' BY <1>18
  <2> QED BY <1>5, <1>10, <1>13, <2>4, <2>5, <2>6, <2>7, <2>9, <2>10, <2>11, <2>12, <2>13
          DEF Stand, Captured, To
<1>33. \A f \in Fields : \A i : Restores(t, f, i) # {} => i \in 1..s
  <2>1. \A i \in 1..(s - 1) : i \in 1..s BY <1>9
  <2> QED BY <1>25, <1>30, <1>31, <2>1
<1>34. (\A n \in Undoable : Recorded(n))'
  BY <1>5, <1>7, <1>8, <1>10, <1>18, <1>29, <1>32, <1>33, AppendedRecorded
<1> QED BY <1>19, <1>20, <1>22, <1>23, <1>24, <1>34 DEF SeqInv

-----------------------------------------------------------------------------
(* One call at a time: undo *)

\* Of the transactions that can be undone, undo takes back the last.
LEMMA RevertedTxn ==
  ASSUME SeqInv, NEW h \in Handlers, NEW n, CommitRevert(h, n), NEW c, c = call[h]
  PROVE  /\ Knows(c) /\ c.op = "undo" /\ c.phase = "sent" /\ Fresh(c.stamp)
         /\ n \in Int /\ n \in Undoable /\ n \in c.todo /\ Undoable \subseteq Int
         /\ \A k \in Undoable : k <= n
         /\ Undoable' = Undoable \ {n}
         /\ \A k \in Undoable' : txns'[k] = txns[k] /\ past'[k] = past[k]
         /\ Standing' = Standing \ {n}
         /\ DOMAIN txns' = DOMAIN txns \cup {c.stamp} /\ DOMAIN past' = DOMAIN txns'
         /\ Onward(n)
<1>1. Sent(h, "undo") /\ n \in c.todo /\ \A m \in c.todo : m <= n
  BY DEF CommitRevert
<1>2. Knows(c) /\ c.op = "undo" /\ c.phase = "sent" /\ Fresh(c.stamp)
  BY <1>1, SentKnows
<1>3. c.todo \subseteq Undoable /\ \A k \in c.todo, m \in Undoable \ c.todo : m < k
  BY <1>2 DEF Knows
<1>4. Undoable \subseteq Int /\ Undoable \subseteq DOMAIN txns
  BY UndoableInRange DEF SeqInv, Drawn
<1>5. ASSUME NEW k \in Undoable PROVE k <= n
  <2>1. n \in Int /\ k \in Int BY <1>1, <1>3, <1>4
  <2>2. CASE k \in c.todo BY <2>2, <1>1
  <2>3. CASE k \notin c.todo BY <2>1, <2>3, <1>1, <1>3
  <2> QED BY <2>2, <2>3
<1>6. PICK r : r = c.stamp OBVIOUS
<1>7. r # 0 /\ r \notin DOMAIN txns
  BY <1>2, <1>6 DEF Fresh, Keys
<1>8. DOMAIN past = DOMAIN txns BY DEF SeqInv, Drawn
<1>9. PICK u : u.op = "REVERT" /\ txns' = [With(txns, r, u) EXCEPT ![n].reverted_by = r]
  <2>1. txns' = [With(txns, r, [op |-> "REVERT", type |-> txns[n].type, row |-> txns[n].row,
                               snap |-> None, reverted_by |-> 0]) EXCEPT ![n].reverted_by = r]
    BY <1>6 DEF CommitRevert
  <2> QED BY <2>1
<1>10. n \in DOMAIN txns /\ n # r BY <1>1, <1>3, <1>4, <1>7
<1>11. PICK w : w = With(txns, r, u) OBVIOUS
<1>12. DOMAIN w = DOMAIN txns \cup {r} /\ w[r] = u /\ \A k \in DOMAIN txns : w[k] = txns[k]
  BY <1>7, <1>11 DEF With
<1>13. /\ DOMAIN txns' = DOMAIN txns \cup {r} /\ txns'[r] = u
       /\ \A k \in DOMAIN txns : k # n => txns'[k] = txns[k]
       /\ txns'[n] = [txns[n] EXCEPT !.reverted_by = r]
  BY <1>9, <1>10, <1>11, <1>12
<1>14. n \notin Undoable'
  <2>1. "reverted_by" \in DOMAIN txns[n]
    BY <1>1, <1>3 DEF SeqInv, Recorded, Logged
  <2> QED BY <2>1, <1>7, <1>13 DEF Undoable
<1>15. Undoable' = Undoable \ {n}
  <2>1. r \notin Undoable' BY <1>9, <1>13 DEF Undoable
  <2>2. \A k \in DOMAIN txns : k # n => (k \in Undoable' <=> k \in Undoable)
    BY <1>13 DEF Undoable
  <2>3. Undoable' \subseteq DOMAIN txns' BY DEF Undoable
  <2> QED BY <1>4, <1>13, <1>14, <2>1, <2>2, <2>3
<1>16. \A k \in DOMAIN txns : past'[k] = past[k]
  BY <1>6, <1>7, <1>8 DEF CommitRevert, With
<1>17. DOMAIN past' = DOMAIN txns'
  BY <1>6, <1>8, <1>13 DEF CommitRevert, With
<1>18. \A k \in Undoable' : txns'[k] = txns[k] /\ past'[k] = past[k] /\ k \in Undoable /\ k # n
  BY <1>4, <1>13, <1>15, <1>16
<1>19. Standing' = Standing \ {n}
  BY <1>15, <1>18 DEF Standing
<1>20. Onward(n)
  <2>1. \A k \in Undoable' : k \in Undoable /\ k < n
    <3>1. \A k \in Undoable' : k \in Int /\ n \in Int /\ k <= n /\ k # n
      BY <1>1, <1>3, <1>4, <1>5, <1>18
    <3> QED BY <3>1, <1>18
  <2> QED BY <2>1, <1>15, <1>18 DEF Onward
<1> QED BY <1>1, <1>2, <1>3, <1>4, <1>5, <1>6, <1>13, <1>15, <1>17, <1>18, <1>19, <1>20

\* What a cell held before the last transaction is what its undo puts there, or what is
\* there.
LEMMA WasBeforeLast ==
  ASSUME NEW n \in Undoable, Undoable \subseteq Int, \A k \in Undoable : k <= n,
         NEW f, NEW i, NEW x,
         Restores(txns[n], f, i) = {x} \/ (Restores(txns[n], f, i) = {} /\ x = Value(f, i))
  PROVE  Was(f, i, n, x)
<1>1. PICK old : old = History(f, i) OBVIOUS
<1>2. PICK v : v = Value(f, i) OBVIOUS
<1>3. n \in Int /\ n \in DOMAIN old /\ DOMAIN old = Undoable /\ old[n] = Restores(txns[n], f, i)
  BY <1>1 DEF History
<1>4. \A k \in DOMAIN old : k >= n => k = n
  <2> SUFFICES ASSUME NEW k \in DOMAIN old, k >= n PROVE k = n
    OBVIOUS
  <2>1. k \in Int /\ n \in Int /\ k <= n BY <1>3
  <2> QED BY <2>1
<1>5. Held(old, v, n, x)
  <2>1. CASE old[n] = {x}
    <3>1. ASSUME NEW k \in DOMAIN old, n <= k, k < n PROVE FALSE
      <4>1. k \in Int /\ n \in Int BY <1>3
      <4> QED BY <3>1, <4>1
    <3>2. x \in old[n] /\ n >= n BY <2>1, <1>3
    <3> QED BY <3>1, <3>2, <1>3 DEF Held
  <2>2. CASE old[n] = {} /\ x = v
    BY <2>2, <1>4 DEF Held
  <2> QED BY <2>1, <2>2, <1>2, <1>3
<1> QED BY <1>1, <1>2, <1>5 DEF Was

\* The undo of a merge deletes the alias that the merge made and no other.
LEMMA RevertedMerge ==
  ASSUME SeqInv, NEW h \in Handlers, NEW n, CommitRevert(h, n),
         NEW t, t = txns[n], t.op = "MERGE"
  PROVE  /\ DOMAIN aliases' = DOMAIN aliases \ {n}
         /\ \A i \in DOMAIN aliases' :
               /\ aliases'[i].alias = aliases[i].alias
               /\ aliases'[i].entity = IF i \in t.snap.als THEN t.snap.merged
                                       ELSE aliases[i].entity
         /\ DOMAIN entities' = DOMAIN entities \cup {t.snap.merged}
         /\ entities'[t.snap.merged] = t.snap.mergeName
         /\ \A e \in DOMAIN entities : e # t.snap.merged /\ entities'[e] = entities[e]
<1>1. PICK snap : snap = t.snap OBVIOUS
<1>2. /\ n \in Int /\ n \in Undoable /\ Undoable \subseteq Int
      /\ \A k \in Undoable : k <= n
  <2>1. PICK c : c = call[h] OBVIOUS
  <2> QED BY <2>1, RevertedTxn
<1>3. Stand(n) /\ Stood(n, past[n])
  BY <1>2 DEF SeqInv, Recorded
<1>4. /\ n \in DOMAIN aliases /\ aliases[n].alias = Fold[snap.mergeName]
      /\ Was("alias", n, n + 1, snap.keep)
      /\ snap.keep # snap.merged /\ snap.merged \notin DOMAIN entities
      /\ \A i \in snap.als : i < n
      /\ \A f \in Fields : \A i \in Captured(snap, f) :
            i \in Table(f) /\ Was(f, i, n + 1, To(snap, f))
  BY <1>1, <1>3 DEF Stand
<1>5. \A k \in Undoable : k < n + 1
  <2>1. \A k \in Undoable : k \in Int /\ k <= n BY <1>2
  <2> QED BY <1>2, <2>1
<1>6. \A f, i, x : Was(f, i, n + 1, x) <=> x = Value(f, i)
  BY <1>2, <1>5, WasNow
<1>7. \A i : Value("alias", i) = aliases[i].entity
  BY DEF Value
<1>8. aliases[n].entity = snap.keep BY <1>4, <1>6, <1>7
<1>9. \A i \in snap.als : aliases[i].entity = snap.keep
  <2>1. "alias" \in Fields /\ Captured(snap, "alias") = snap.als /\ To(snap, "alias") = snap.keep
    BY DEF Fields, Captured, To
  <2> QED BY <2>1, <1>4, <1>6, <1>7
<1>10. n \notin snap.als BY <1>2, <1>4
<1>11. \A i : Restores(t, "alias", i) = IF i \in snap.als THEN {snap.merged} ELSE {}
  BY <1>1 DEF Restores, Captured, From
<1>12. \A i : Was("alias", i, n, IF i \in snap.als THEN snap.merged ELSE aliases[i].entity)
  BY <1>2, <1>7, <1>11, WasBeforeLast
<1>13. PICK moved : moved = [i \in DOMAIN aliases |-> [aliases[i] EXCEPT
                          !.entity = Unrenamed(snap.als, i, @, snap.keep, snap.merged)]]
  OBVIOUS
<1>14. \A i \in DOMAIN aliases : DOMAIN aliases[i] = {"alias", "entity"}
  BY DEF SeqInv, GraphInv, AliasShape
<1>15. /\ DOMAIN moved = DOMAIN aliases
       /\ \A i \in DOMAIN aliases :
             /\ moved[i].alias = aliases[i].alias
             /\ moved[i].entity = IF i \in snap.als THEN snap.merged ELSE aliases[i].entity
  BY <1>9, <1>13, <1>14 DEF Unrenamed
<1>16. PICK made : made = {i \in DOMAIN moved : /\ moved[i].entity = snap.keep
                                                /\ moved[i].alias = Fold[snap.mergeName]}
  OBVIOUS
<1>17. aliases' = [i \in DOMAIN moved \ made |-> moved[i]]
  BY <1>1, <1>13, <1>16 DEF CommitRevert, RevertedAliases
<1>18. n \in made BY <1>4, <1>8, <1>10, <1>15, <1>16
<1>19. \A i \in made : i = n
  <2> SUFFICES ASSUME NEW i \in made, i # n PROVE FALSE
    OBVIOUS
  <2>1. /\ i \in DOMAIN aliases /\ aliases[i].alias = Fold[snap.mergeName]
        /\ moved[i].entity = snap.keep
    BY <1>15, <1>16
  <2>2. Was("alias", i, n, snap.keep) BY <1>12, <1>15, <2>1
  <2>3. \A m \in Standing : m >= n => m = n
    <3>1. \A k \in Undoable : k \in Int /\ k <= n BY <1>2
    <3> QED BY <1>2, <3>1 DEF Standing
  <2>4. i \in RowsAt(n) BY <2>1, <2>3 DEF RowsAt
  <2>5. Named(snap.merged, n, snap.mergeName)
    <3>1. n \in Standing /\ n >= n BY <1>2 DEF Standing
    <3> QED BY <1>1, <3>1 DEF Named
  <2>6. PICK j \in RowsAt(n) :
            aliases[j].alias = Fold[snap.mergeName] /\ Was("alias", j, n, snap.merged)
    BY <1>3, <2>5 DEF Stood, NamedAt
  <2>7. snap.keep = snap.merged
    BY <1>3, <2>1, <2>2, <2>4, <2>6 DEF Stood, OneAt
  <2> QED BY <2>7, <1>4
<1>20. /\ DOMAIN aliases' = DOMAIN aliases \ {n}
       /\ \A i \in DOMAIN aliases' : aliases'[i] = moved[i] /\ i \in DOMAIN aliases
  BY <1>15, <1>17, <1>18, <1>19
<1>21. entities' = With(entities, snap.merged, snap.mergeName)
  BY <1>1, <1>4 DEF CommitRevert, RevertedEntities
<1>22. /\ DOMAIN entities' = DOMAIN entities \cup {snap.merged}
       /\ entities'[snap.merged] = snap.mergeName
       /\ \A e \in DOMAIN entities : e # snap.merged /\ entities'[e] = entities[e]
  BY <1>4, <1>21 DEF With
<1> QED BY <1>1, <1>15, <1>20, <1>22

\* A step of undo puts into each cell what the transaction restores.
LEMMA RevertedValue ==
  ASSUME SeqInv, NEW h \in Handlers, NEW n, CommitRevert(h, n),
         NEW f \in Fields, NEW i \in Table(f), i \in Table(f)'
  PROVE  \/ Restores(txns[n], f, i) = {Value(f, i)'}
         \/ Restores(txns[n], f, i) = {} /\ Value(f, i)' = Value(f, i)
<1>1. PICK t : t = txns[n] OBVIOUS
<1>2. /\ n \in Int /\ n \in Undoable /\ Undoable \subseteq Int
      /\ \A k \in Undoable : k <= n
  <2>1. PICK c : c = call[h] OBVIOUS
  <2> QED BY <2>1, RevertedTxn
<1>3. Logged(n) /\ (t.op = "MERGE" => Stand(n))
  BY <1>1, <1>2 DEF SeqInv, Recorded
<1>4. /\ triples' = [j \in DOMAIN triples |-> RevertedTriple(t, j)]
      /\ entries' = [j \in DOMAIN entries |-> RevertedEntry(t, j)]
      /\ aliases' = RevertedAliases(t)
  BY <1>1 DEF CommitRevert
<1>5. /\ \A j \in DOMAIN triples : DOMAIN triples[j] = {"subject", "object", "deleted"}
      /\ \A j \in DOMAIN entries : DOMAIN entries[j] = {"entity", "deleted"}
  BY DEF SeqInv, Shapes
<1>6. CASE t.op = "MERGE"
  <2>1. PICK snap : snap = t.snap OBVIOUS
  <2>2. \A j \in Captured(snap, f) : Value(f, j) = To(snap, f)
    <3>1. \A k \in Undoable : k < n + 1
      <4>1. \A k \in Undoable : k \in Int /\ k <= n BY <1>2
      <4> QED BY <1>2, <4>1
    <3>2. \A j, x : Was(f, j, n + 1, x) <=> x = Value(f, j)
      BY <1>2, <3>1, WasNow
    <3> QED BY <1>1, <1>3, <1>6, <2>1, <3>2 DEF Stand
  <2>3. Restores(t, f, i) = IF i \in Captured(snap, f) THEN {From(snap, f)} ELSE {}
    BY <1>6, <2>1 DEF Restores
  <2>4. Value(f, i)' = IF i \in Captured(snap, f) THEN From(snap, f) ELSE Value(f, i)
    <3>1. CASE f = "alias"
      <4>1. i \in DOMAIN aliases' BY <3>1 DEF Table
      <4>2. Value(f, i)' = aliases'[i].entity /\ Value(f, i) = aliases[i].entity
        BY <3>1 DEF Value
      <4>3. Captured(snap, f) = snap.als /\ From(snap, f) = snap.merged
        BY <3>1 DEF Captured, From
      <4>4. \A j \in DOMAIN aliases' : aliases'[j].entity =
                IF j \in t.snap.als THEN t.snap.merged ELSE aliases[j].entity
        BY <1>1, <1>6, RevertedMerge
      <4> QED BY <2>1, <4>1, <4>2, <4>3, <4>4
    <3>2. CASE f \in {"subject", "object", "gone"}
      <4>1. i \in DOMAIN triples BY <3>2 DEF Table
      <4>2. triples'[i] = [triples[i] EXCEPT
                !.subject = Unrenamed(snap.subj, i, @, snap.keepName, snap.mergeName),
                !.object  = Unrenamed(snap.obj, i, @, snap.keepName, snap.mergeName)]
        BY <1>4, <1>6, <2>1, <4>1 DEF RevertedTriple
      <4>3. /\ triples'[i].subject =
                  Unrenamed(snap.subj, i, triples[i].subject, snap.keepName, snap.mergeName)
            /\ triples'[i].object =
                  Unrenamed(snap.obj, i, triples[i].object, snap.keepName, snap.mergeName)
            /\ triples'[i].deleted = triples[i].deleted
        BY <1>5, <4>1, <4>2
      <4>4. CASE f = "subject"
        <5>1. Value(f, i)' = triples'[i].subject /\ Value(f, i) = triples[i].subject
          BY <4>4 DEF Value
        <5>2. Captured(snap, f) = snap.subj /\ From(snap, f) = snap.mergeName
              /\ To(snap, f) = snap.keepName
          BY <4>4 DEF Captured, From, To
        <5> QED BY <5>1, <5>2, <4>3, <2>2 DEF Unrenamed
      <4>5. CASE f = "object"
        <5>1. Value(f, i)' = triples'[i].object /\ Value(f, i) = triples[i].object
          BY <4>5 DEF Value
        <5>2. Captured(snap, f) = snap.obj /\ From(snap, f) = snap.mergeName
              /\ To(snap, f) = snap.keepName
          BY <4>5 DEF Captured, From, To
        <5> QED BY <5>1, <5>2, <4>3, <2>2 DEF Unrenamed
      <4>6. CASE f = "gone"
        <5>1. Captured(snap, f) = {} BY <4>6 DEF Captured
        <5>2. Value(f, i)' = Value(f, i) BY <4>3, <4>6 DEF Value
        <5> QED BY <5>1, <5>2
      <4> QED BY <3>2, <4>4, <4>5, <4>6
    <3>3. CASE f = "link"
      <4>1. i \in DOMAIN entries BY <3>3 DEF Table
      <4>2. entries'[i].entity =
                Unrenamed(snap.ents, i, entries[i].entity, snap.keep, snap.merged)
        BY <1>4, <1>5, <1>6, <2>1, <4>1 DEF RevertedEntry
      <4>3. Value(f, i)' = entries'[i].entity /\ Value(f, i) = entries[i].entity
        BY <3>3 DEF Value
      <4>4. Captured(snap, f) = snap.ents /\ From(snap, f) = snap.merged
            /\ To(snap, f) = snap.keep
        BY <3>3 DEF Captured, From, To
      <4> QED BY <4>2, <4>3, <4>4, <2>2 DEF Unrenamed
    <3> QED BY <3>1, <3>2, <3>3 DEF Fields
  <2> QED BY <1>1, <2>3, <2>4
<1>7. CASE t.op # "MERGE"
  <2>1. CASE f = "alias"
    <3>1. Value(f, i)' = Value(f, i) BY <1>4, <1>7, <2>1 DEF Value, RevertedAliases
    <3>2. Restores(t, f, i) = {} BY <1>7, <2>1 DEF Restores
    <3> QED BY <1>1, <3>1, <3>2
  <2>2. CASE f = "link"
    <3>1. i \in DOMAIN entries BY <2>2 DEF Table
    <3>2. entries'[i].entity = entries[i].entity
      BY <1>4, <1>5, <1>7, <3>1 DEF RevertedEntry
    <3>3. Value(f, i)' = Value(f, i) BY <2>2, <3>2 DEF Value
    <3>4. Restores(t, f, i) = {} BY <1>7, <2>2 DEF Restores
    <3> QED BY <1>1, <3>3, <3>4
  <2>3. CASE f \in {"subject", "object", "gone"}
    <3>1. i \in DOMAIN triples BY <2>3 DEF Table
    <3>2. triples'[i] = RevertedTriple(t, i) BY <1>4, <3>1
    <3>3. DOMAIN triples[i] = {"subject", "object", "deleted"} BY <1>5, <3>1
    <3>4. CASE t.op = "UPDATE" /\ i = t.row
      <4>1. triples'[i] = [triples[i] EXCEPT !.subject = t.snap.subject, !.object = t.snap.object]
        BY <3>2, <3>4 DEF RevertedTriple
      <4>2. /\ triples'[i].subject = t.snap.subject /\ triples'[i].object = t.snap.object
            /\ triples'[i].deleted = triples[i].deleted
        BY <4>1, <3>3
      <4> QED BY <1>1, <2>3, <3>4, <4>2 DEF Value, Restores
    <3>5. CASE t.op = "CREATE" /\ t.type # "entry" /\ i = t.row
      <4>1. triples'[i] = [triples[i] EXCEPT !.deleted = TRUE]
        BY <3>2, <3>5 DEF RevertedTriple, OfTable
      <4>2. /\ triples'[i].subject = triples[i].subject /\ triples'[i].object = triples[i].object
            /\ triples'[i].deleted
        BY <4>1, <3>3
      <4> QED BY <1>1, <2>3, <3>5, <4>2 DEF Value, Restores
    <3>6. CASE t.op = "DELETE" /\ t.type # "entry" /\ i = t.row
      <4>1. triples'[i] = [triples[i] EXCEPT !.deleted = FALSE]
        BY <3>2, <3>6 DEF RevertedTriple, OfTable
      <4>2. /\ triples'[i].subject = triples[i].subject /\ triples'[i].object = triples[i].object
            /\ ~triples'[i].deleted
        BY <4>1, <3>3
      <4> QED BY <1>1, <2>3, <3>6, <4>2 DEF Value, Restores
    <3>7. CASE i # t.row \/ (t.op \in {"CREATE", "DELETE"} /\ t.type = "entry")
      <4>1. triples'[i] = triples[i]
        BY <1>7, <3>2, <3>7 DEF RevertedTriple, OfTable
      <4>2. Value(f, i)' = Value(f, i) BY <2>3, <4>1 DEF Value
      <4>3. Restores(t, f, i) = {} BY <1>7, <3>7 DEF Restores
      <4> QED BY <1>1, <4>2, <4>3
    <3> QED BY <1>3, <1>1, <1>7, <3>4, <3>5, <3>6, <3>7 DEF Logged, TxnOps
  <2> QED BY <2>1, <2>2, <2>3 DEF Fields
<1> QED BY <1>6, <1>7

\* A step of undo leaves alone what was there before the transaction it undoes.
LEMMA RevertedEarlier ==
  ASSUME SeqInv, NEW h \in Handlers, NEW n, CommitRevert(h, n)
  PROVE  Earlier(n)
<1>1. PICK t : t = txns[n] OBVIOUS
<1>2. /\ n \in Int /\ n \in Undoable /\ Undoable \subseteq Int
      /\ \A k \in Undoable : k <= n
      /\ Undoable' = Undoable \ {n}
      /\ \A k \in Undoable' : txns'[k] = txns[k]
      /\ Standing' = Standing \ {n}
  <2>1. PICK c : c = call[h] OBVIOUS
  <2> QED BY <2>1, RevertedTxn
<1>3. DOMAIN triples' = DOMAIN triples /\ DOMAIN entries' = DOMAIN entries
  BY DEF CommitRevert
<1>4. \/ /\ t.op = "MERGE" /\ n \in Standing
         /\ DOMAIN aliases' = DOMAIN aliases \ {n}
         /\ \A i \in DOMAIN aliases' : aliases'[i].alias = aliases[i].alias
         /\ DOMAIN entities' = DOMAIN entities \cup {t.snap.merged}
         /\ entities'[t.snap.merged] = t.snap.mergeName
         /\ \A e \in DOMAIN entities : e # t.snap.merged /\ entities'[e] = entities[e]
      \/ n \notin Standing /\ aliases' = aliases /\ entities' = entities
  <2>1. CASE t.op = "MERGE"
    <3>1. n \in Standing BY <1>1, <1>2, <2>1 DEF Standing
    <3> QED BY <1>1, <2>1, <3>1, RevertedMerge
  <2>2. CASE t.op # "MERGE"
    <3>1. n \notin Standing BY <1>1, <2>2 DEF Standing
    <3>2. aliases' = aliases /\ entities' = entities
      BY <1>1, <2>2 DEF CommitRevert, RevertedAliases, RevertedEntities
    <3> QED BY <3>1, <3>2
  <2> QED BY <2>1, <2>2
<1>5. \A f \in Fields : \A i \in Table(f) : i \in Table(f)' \/ (f = "alias" /\ i = n)
  BY <1>3, <1>4 DEF Table
<1>6. ASSUME NEW f \in Fields, NEW i \in Table(f), i \in Table(f)'
      PROVE  \A k \in Int : k <= n => \A x : Was(f, i, k, x)' <=> Was(f, i, k, x)
  <2>1. \/ Restores(txns[n], f, i) = {Value(f, i)'}
        \/ Restores(txns[n], f, i) = {} /\ Value(f, i)' = Value(f, i)
    BY <1>6, RevertedValue
  <2> QED BY <1>2, <2>1, WasBeforeUndone
<1>7. \A i \in DOMAIN aliases : i \in DOMAIN aliases' => aliases'[i].alias = aliases[i].alias
  BY <1>4
<1>8. \A m \in Standing : m # n => m \in Standing' /\ txns'[m] = txns[m]
  BY <1>2 DEF Standing
<1>9. ASSUME NEW k \in Int, k <= n
      PROVE  RowsAt(k)' = RowsAt(k) /\ \A e, x : Named(e, k, x)' <=> Named(e, k, x)
  <2>1. n >= k BY <1>2, <1>9
  <2>2. RowsAt(k)' = RowsAt(k) BY <1>2, <1>4, <2>1 DEF RowsAt
  <2>3. ASSUME NEW e, NEW x PROVE Named(e, k, x)' <=> Named(e, k, x)
    <3>1. CASE n \notin Standing
      BY <1>2, <1>4, <1>8, <3>1 DEF Named
    <3>2. CASE n \in Standing
      <4>1. t.op = "MERGE" BY <1>1, <3>2 DEF Standing
      <4>2. (e \in DOMAIN entities' /\ entities'[e] = x) <=>
              \/ e \in DOMAIN entities /\ entities[e] = x
              \/ e = t.snap.merged /\ x = t.snap.mergeName
        BY <1>4, <3>2
      <4>3. Named(e, k, x) <=>
              \/ e \in DOMAIN entities /\ entities[e] = x
              \/ e = t.snap.merged /\ x = t.snap.mergeName
              \/ \E m \in Standing' :
                    m >= k /\ txns[m].snap.merged = e /\ txns[m].snap.mergeName = x
        BY <1>1, <1>2, <2>1, <3>2 DEF Named
      <4>4. Named(e, k, x)' <=>
              \/ e \in DOMAIN entities' /\ entities'[e] = x
              \/ \E m \in Standing' :
                    m >= k /\ txns[m].snap.merged = e /\ txns[m].snap.mergeName = x
        BY <1>2, <1>8 DEF Named
      <4> QED BY <4>2, <4>3, <4>4
    <3> QED BY <3>1, <3>2
  <2> QED BY <2>2, <2>3
<1> QED BY <1>3, <1>5, <1>6, <1>7, <1>9 DEF Earlier

\* undoTransactions, one turn: what stood before the transaction is now.
LEMMA CommitRevertKeeps ==
  ASSUME OneHandler, SeqInv, GraphInv', NEW h \in Handlers, NEW n, CommitRevert(h, n)
  PROVE  SeqInv' /\ Stood(n, past[n])'
<1>1. PICK t : t = txns[n] OBVIOUS
<1>2. PICK c : c = call[h] OBVIOUS
<1>3. PICK r : r = c.stamp OBVIOUS
<1>4. /\ Knows(c) /\ c.op = "undo" /\ Fresh(r)
      /\ n \in Int /\ n \in Undoable /\ n \in c.todo /\ Undoable \subseteq Int
      /\ \A k \in Undoable : k <= n
      /\ Undoable' = Undoable \ {n}
      /\ \A k \in Undoable' : txns'[k] = txns[k] /\ past'[k] = past[k]
      /\ Standing' = Standing \ {n}
      /\ DOMAIN txns' = DOMAIN txns \cup {r} /\ DOMAIN past' = DOMAIN txns'
      /\ Onward(n)
  BY <1>2, <1>3, RevertedTxn
<1>5. Earlier(n) BY RevertedEarlier
<1>6. DOMAIN triples' = DOMAIN triples /\ DOMAIN entries' = DOMAIN entries /\ clock' = clock
  BY DEF CommitRevert
<1>7. past'[n] = past[n]
  <2>1. n \in DOMAIN past /\ n # r
    BY <1>4 DEF Fresh, Keys, SeqInv, Drawn, Undoable
  <2> QED BY <1>2, <1>3, <2>1 DEF CommitRevert, With
<1>8. Stood(n, past[n])'
  <2>1. PICK g : g = past[n] OBVIOUS
  <2>2. Stood(n, g) BY <1>4, <2>1 DEF SeqInv, Recorded
  <2>3. Stood(n, g)' BY <1>4, <1>5, <2>2, StoodStays
  <2> QED BY <1>7, <2>1, <2>3
<1>9. \/ /\ t.op = "MERGE" /\ n \in Standing /\ Stand(n)
         /\ DOMAIN aliases' = DOMAIN aliases \ {n}
         /\ DOMAIN entities' = DOMAIN entities \cup {t.snap.merged}
      \/ aliases' = aliases /\ entities' = entities
  <2>1. CASE t.op = "MERGE"
    <3>1. n \in Standing BY <1>1, <1>4, <2>1 DEF Standing
    <3>2. Stand(n) BY <1>1, <1>4, <2>1 DEF SeqInv, Recorded
    <3> QED BY <1>1, <2>1, <3>1, <3>2, RevertedMerge
  <2>2. CASE t.op # "MERGE"
    BY <1>1, <2>2 DEF CommitRevert, RevertedAliases, RevertedEntities
  <2> QED BY <2>1, <2>2
<1>10. Drawn'
  <2>1. \A e \in DOMAIN entities' : e \in DOMAIN entities \/ e \in 1..(n - 1)
    BY <1>1, <1>9 DEF Stand
  <2>2. DOMAIN aliases' \subseteq DOMAIN aliases BY <1>9
  <2>3. n \in 1..clock /\ clock \in Nat BY <1>4, UndoableInRange DEF SeqInv, Drawn
  <2>4. Keys \subseteq 1..clock /\ r \in 1..clock BY <1>4 DEF SeqInv, Drawn, Fresh
  <2>5. \A e \in 1..(n - 1) : e \in 1..clock BY <2>3
  <2>6. Keys' \subseteq Keys \cup {r} \cup 1..(n - 1)
    BY <1>4, <1>6, <2>1, <2>2 DEF Keys
  <2> QED BY <1>4, <1>6, <2>3, <2>4, <2>5, <2>6 DEF Drawn
<1>11. Shapes'
  <2>1. /\ triples' = [j \in DOMAIN triples |-> RevertedTriple(t, j)]
        /\ entries' = [j \in DOMAIN entries |-> RevertedEntry(t, j)]
    BY <1>1 DEF CommitRevert
  <2>2. \A i \in DOMAIN triples : DOMAIN RevertedTriple(t, i) = DOMAIN triples[i]
    BY DEF RevertedTriple
  <2>3. \A i \in DOMAIN entries : DOMAIN RevertedEntry(t, i) = DOMAIN entries[i]
    BY DEF RevertedEntry
  <2>4. ASSUME NEW i \in DOMAIN entries, ~entries[i].deleted PROVE ~entries'[i].deleted
    <3>1. DOMAIN entries[i] = {"entity", "deleted"} BY DEF SeqInv, Shapes
    <3>2. entries'[i] = RevertedEntry(t, i) BY <2>1
    <3>3. CASE t.op = "DELETE" /\ OfTable(t, "entries") /\ i = t.row
      BY <3>1, <3>2, <3>3 DEF RevertedEntry
    <3>4. CASE t.op = "MERGE"
      BY <3>1, <3>2, <3>4, <2>4 DEF RevertedEntry
    <3>5. CASE ~(t.op = "DELETE" /\ OfTable(t, "entries") /\ i = t.row) /\ t.op # "MERGE"
      <4>1. entries'[i] = entries[i] BY <3>2, <3>5 DEF RevertedEntry
      <4> QED BY <4>1, <2>4
    <3> QED BY <3>3, <3>4, <3>5
  <2> QED BY <2>1, <2>2, <2>3, <2>4 DEF SeqInv, Shapes, Fields
<1>12. \A k \in Undoable' : k < n
  <2> SUFFICES ASSUME NEW k \in Undoable' PROVE k < n OBVIOUS
  <2>1. k \in Int /\ k <= n /\ k # n BY <1>4
  <2> QED BY <1>4, <2>1
<1>13. \A f, i, x : Was(f, i, n, x)' <=> x = Value(f, i)'
  <2>1. Undoable' \subseteq Int BY <1>4
  <2> QED BY <1>4, <1>12, <2>1, WasNowAfter
<1>14. RowsAt(n)' = DOMAIN aliases'
  <2>1. \A m \in Standing' : ~(m >= n)
    <3> SUFFICES ASSUME NEW m \in Standing', m >= n PROVE FALSE OBVIOUS
    <3>1. m \in Undoable' BY DEF Standing
    <3>2. m \in Int /\ m < n BY <1>4, <1>12, <3>1
    <3> QED BY <1>4, <3>2
  <2> QED BY <2>1 DEF RowsAt
<1>15. \A i : Value("alias", i)' = aliases'[i].entity
  BY DEF Value
<1>16. OneNow'
  <2>1. OneAt(n)' BY <1>8 DEF Stood
  <2>2. ASSUME NEW i \in DOMAIN aliases', NEW j \in DOMAIN aliases',
               aliases'[i].alias = aliases'[j].alias
        PROVE  aliases'[i].entity = aliases'[j].entity
    <3>1. PICK d : d = aliases'[i].entity OBVIOUS
    <3>2. PICK e : e = aliases'[j].entity OBVIOUS
    <3>3. Was("alias", i, n, d)' /\ Was("alias", j, n, e)'
      BY <1>13, <1>15, <3>1, <3>2
    <3>4. i \in RowsAt(n)' /\ j \in RowsAt(n)' BY <1>14
    <3>5. d = e BY <2>1, <2>2, <3>3, <3>4 DEF OneAt
    <3> QED BY <3>1, <3>2, <3>5
  <2> QED BY <2>2 DEF OneNow
<1>17. NamedNow'
  <2>1. NamedAt(n)' BY <1>8 DEF Stood
  <2>2. ASSUME NEW e \in DOMAIN entities'
        PROVE  \E i \in DOMAIN aliases' :
                  aliases'[i].alias = Fold[entities'[e]] /\ aliases'[i].entity = e
    <3>1. PICK x : x = entities'[e] OBVIOUS
    <3>2. Named(e, n, x)' BY <3>1 DEF Named
    <3>3. \E i \in RowsAt(n)' : aliases'[i].alias = Fold[x] /\ Was("alias", i, n, e)'
      BY <2>1, <3>2 DEF NamedAt
    <3> QED BY <1>13, <1>14, <1>15, <3>1, <3>3
  <2> QED BY <2>2 DEF NamedNow
<1>18. CallKnows'
  <2>1. PICK d : d = IF c.todo = {n} THEN Idle
                     ELSE [c EXCEPT !.phase = "read", !.stamp = 0, !.todo = c.todo \ {n}]
    OBVIOUS
  <2>2. call' = [call EXCEPT ![h] = d] BY <1>2, <2>1 DEF CommitRevert
  <2>3. Knows(d)'
    <3>1. CASE c.todo = {n} BY <2>1, <3>1 DEF Knows, Idle
    <3>2. CASE c.todo # {n}
      <4>1. {"op", "phase", "stamp", "todo"} \subseteq DOMAIN c /\ c.todo \subseteq Undoable
            /\ \A k \in c.todo, m \in Undoable \ c.todo : m < k
        BY <1>4 DEF Knows
      <4>2. d = [c EXCEPT !.phase = "read", !.stamp = 0, !.todo = c.todo \ {n}]
        BY <2>1, <3>2
      <4>3. /\ d.op = "undo" /\ d.phase = "read" /\ d.stamp = 0 /\ d.todo = c.todo \ {n}
            /\ {"op", "phase", "stamp", "todo"} \subseteq DOMAIN d
        BY <1>4, <4>1, <4>2
      <4>4. /\ c.todo \ {n} \subseteq Undoable'
            /\ \A k \in c.todo \ {n}, m \in Undoable' \ (c.todo \ {n}) : m < k
        BY <1>4, <4>1
      <4> QED BY <4>3, <4>4 DEF Knows
    <3> QED BY <3>1, <3>2
  <2> QED BY <2>2, <2>3, CallBecomes DEF SeqInv, CallKnows
<1>19. ASSUME NEW m \in Standing, m < n PROVE txns[m].snap.merged \notin DOMAIN entities'
  <2>1. Stand(m) /\ m # n
    <3>1. m # n BY <1>4, <1>19
    <3>2. m \in Undoable /\ txns[m].op = "MERGE" BY DEF Standing
    <3> QED BY <3>1, <3>2 DEF SeqInv, Recorded
  <2>2. txns[m].snap.merged \notin DOMAIN entities BY <2>1 DEF Stand
  <2> QED BY <1>1, <1>9, <2>1, <2>2 DEF Stand
<1>20. (\A k \in Undoable : Recorded(k))'
  <2>1. n \notin Undoable' /\ n \notin Standing' BY <1>4
  <2> QED BY <1>4, <1>5, <1>19, <2>1, RecordedStays
<1> QED BY <1>8, <1>10, <1>11, <1>16, <1>17, <1>18, <1>20 DEF SeqInv

-----------------------------------------------------------------------------
(* One call at a time: the steps between the batches *)

\* What a call knows does not change while the database does not.
LEMMA KnowsSame ==
  ASSUME NEW d, UNCHANGED <<clock, db>>, Knows(d)
  PROVE  Knows(d)'
<1>1. UNCHANGED <<clock, entities, aliases, triples, entries, txns, past>>
  BY DEF db
<1>2. /\ LiveTriples' = LiveTriples /\ LiveEntries' = LiveEntries /\ Fields' = Fields
      /\ Keys' = Keys /\ Undoable' = Undoable
  BY <1>1 DEF LiveTriples, LiveEntries, Fields, Keys, Undoable
<1>3. MergeKnows(d)' <=> MergeKnows(d)
  BY <1>1, <1>2 DEF MergeKnows
<1> QED BY <1>1, <1>2, <1>3 DEF Knows, Fresh

\* The call of h goes on as d, and the database is as it was.
LEMMA OneCallKeeps ==
  ASSUME OneHandler, SeqInv, GraphInv', NEW h \in Handlers, NEW d,
         call' = [call EXCEPT ![h] = d], Knows(d)', UNCHANGED db,
         clock' = clock \/ clock' = clock + 1
  PROVE  SeqInv'
<1>1. CallKnows' BY CallBecomes DEF SeqInv, CallKnows
<1>2. clock' \in Nat /\ clock' >= clock BY DEF SeqInv, Drawn
<1> QED BY <1>1, <1>2, QuietKeeps DEF db

\* A call that begins.
LEMMA BeginKeeps ==
  ASSUME OneHandler, SeqInv, GraphInv', NEW h \in Handlers, NEW op, NEW d, Begin(h, op, d),
         Knows(d)
  PROVE  SeqInv'
<1>1. call' = [call EXCEPT ![h] = d] /\ UNCHANGED <<clock, db>>
  BY DEF Begin
<1>2. Knows(d)' BY <1>1, KnowsSame
<1> QED BY <1>1, <1>2, OneCallKeeps

\* The lookup of upsertEntity finds no alias of that name.
LEMMA UpsertLookupKeeps ==
  ASSUME OneHandler, SeqInv, GraphInv', NEW h \in Handlers, NEW name \in Names,
         UpsertLookup(h, name)
  PROVE  SeqInv'
<1>1. PICK d : d = [op |-> "upsert", phase |-> "read", stamp |-> 0, name |-> name]
  OBVIOUS
<1>2. Begin(h, "upsert", d) /\ \A i \in DOMAIN aliases : aliases[i].alias # Fold[name]
  BY <1>1 DEF UpsertLookup, Resolves
<1>3. Knows(d) BY <1>1, <1>2 DEF Knows
<1> QED BY <1>2, <1>3, BeginKeeps

\* createTriple begins with nothing read.
LEMMA RelateBeginKeeps ==
  ASSUME OneHandler, SeqInv, GraphInv', NEW h \in Handlers, NEW s, NEW o, RelateBegin(h, s, o)
  PROVE  SeqInv'
<1>1. PICK d : d = [op |-> "relate", phase |-> "read", stamp |-> 0, subject |-> s, object |-> o]
  OBVIOUS
<1>2. Begin(h, "relate", d) BY <1>1 DEF RelateBegin
<1>3. Knows(d) BY <1>1 DEF Knows
<1> QED BY <1>2, <1>3, BeginKeeps

\* updateTriple reads the row it will change.
LEMMA UpdateLookupKeeps ==
  ASSUME OneHandler, SeqInv, GraphInv', NEW h \in Handlers, NEW i \in LiveTriples, NEW o,
         UpdateLookup(h, i, o)
  PROVE  SeqInv'
<1>1. PICK b : b = [subject |-> triples[i].subject, object |-> triples[i].object] OBVIOUS
<1>2. PICK d : d = [op |-> "update", phase |-> "read", stamp |-> 0, row |-> i, object |-> o,
                    before |-> b]
  OBVIOUS
<1>3. Begin(h, "update", d) BY <1>1, <1>2 DEF UpdateLookup
<1>4. Knows(d) BY <1>1, <1>2 DEF Knows
<1> QED BY <1>3, <1>4, BeginKeeps

\* The deletions read a live row; where entries are deleted their links are not followed.
LEMMA DeleteLookupKeeps ==
  ASSUME OneHandler, SeqInv, GraphInv', NEW h \in Handlers, NEW tool, NEW type, NEW i,
         DeleteLookup(h, tool, type, i),
         \/ type = "triple" /\ i \in LiveTriples
         \/ type = "entry" /\ i \in LiveEntries /\ tool = "delete_entry"
  PROVE  SeqInv'
<1>1. PICK d : d = [op |-> "delete", phase |-> "read", stamp |-> 0, type |-> type, row |-> i]
  OBVIOUS
<1>2. Begin(h, tool, d) BY <1>1 DEF DeleteLookup
<1>3. tool = "delete_entry" => "link" \notin Fields BY <1>2 DEF Begin, Fields
<1>4. Knows(d) BY <1>1, <1>3 DEF Knows
<1> QED BY <1>2, <1>4, BeginKeeps

\* undoTransactions reads the newest transactions.
LEMMA UndoSelectKeeps ==
  ASSUME OneHandler, SeqInv, GraphInv', NEW h \in Handlers, NEW T, UndoSelect(h, T)
  PROVE  SeqInv'
<1>1. PICK d : d = [op |-> "undo", phase |-> "read", stamp |-> 0, todo |-> T]
  OBVIOUS
<1>2. Begin(h, "undo", d) BY <1>1 DEF UndoSelect
<1>3. T \subseteq Undoable /\ \A n \in T, m \in Undoable \ T : m < n
  BY DEF UndoSelect, Latest
<1>4. Knows(d) BY <1>1, <1>3 DEF Knows
<1> QED BY <1>2, <1>4, BeginKeeps

\* mergeEntities reads the entity to keep.
LEMMA MergeBeginKeeps ==
  ASSUME OneHandler, SeqInv, GraphInv', NEW h \in Handlers, NEW keep \in DOMAIN entities,
         NEW merged \in DOMAIN entities, MergeBegin(h, keep, merged)
  PROVE  SeqInv'
<1>1. PICK d : d = [op |-> "merge", phase |-> "keep", stamp |-> 0, keep |-> keep,
                    merged |-> merged, keepName |-> entities[keep]]
  OBVIOUS
<1>2. Begin(h, "merge", d) /\ keep # merged BY <1>1 DEF MergeBegin
<1>3. Knows(d) BY <1>1, <1>2 DEF Knows, MergeKnows
<1> QED BY <1>2, <1>3, BeginKeeps

\* A batch is sent: its stamp is above every number in use.
LEMMA SendKeeps ==
  ASSUME OneHandler, SeqInv, GraphInv', NEW h \in Handlers, Send(h)
  PROVE  SeqInv'
<1>1. PICK c : c = call[h] OBVIOUS
<1>s. PICK s : s = clock + 1 OBVIOUS
<1>2. PICK d : d = [c EXCEPT !.phase = "sent", !.stamp = s] OBVIOUS
<1>3. /\ c.phase = "read" /\ call' = [call EXCEPT ![h] = d]
      /\ UNCHANGED db /\ clock' = clock + 1
  BY <1>1, <1>s, <1>2 DEF Send
<1>4. Knows(c) BY <1>1 DEF SeqInv, CallKnows
<1>5. UNCHANGED <<entities, aliases, triples, entries, txns, past>> BY <1>3 DEF db
<1>6. /\ LiveTriples' = LiveTriples /\ LiveEntries' = LiveEntries /\ Fields' = Fields
      /\ Keys' = Keys /\ Undoable' = Undoable
  BY <1>5 DEF LiveTriples, LiveEntries, Fields, Keys, Undoable
<1>7. Fresh(s)' BY <1>s, <1>3, <1>6 DEF Fresh, SeqInv, Drawn
<1>8. c.op # "merge" BY <1>3, <1>4 DEF Knows, MergeKnows
<1>9. /\ DOMAIN d = DOMAIN c /\ d.phase = "sent" /\ d.stamp = s
      /\ \A x \in DOMAIN c \ {"phase", "stamp"} : d[x] = c[x]
  BY <1>2, <1>4 DEF Knows
<1>10. s # 0 BY <1>s DEF SeqInv, Drawn
<1>11. Knows(d)'
  BY <1>4, <1>5, <1>6, <1>7, <1>8, <1>9, <1>10 DEF Knows
<1> QED BY <1>3, <1>11, OneCallKeeps

\* mergeEntities reads the entity to merge; nothing ran in between, so it is there.
LEMMA ReadMergedKeeps ==
  ASSUME OneHandler, SeqInv, GraphInv', NEW h \in Handlers, ReadMerged(h)
  PROVE  SeqInv'
<1>1. PICK c : c = call[h] OBVIOUS
<1>2. Knows(c) /\ c.op = "merge" /\ c.phase = "keep" /\ UNCHANGED db
  BY <1>1 DEF SeqInv, CallKnows, ReadMerged
<1>3. /\ c.keep # c.merged /\ c.keep \in DOMAIN entities /\ c.merged \in DOMAIN entities
      /\ c.keepName = entities[c.keep]
  BY <1>2 DEF Knows, MergeKnows
<1>s. PICK s : s = clock + 1 OBVIOUS
<1>4. PICK d : d = [op |-> "merge", phase |-> "subjects", stamp |-> s,
                    keep |-> c.keep, merged |-> c.merged, keepName |-> c.keepName,
                    mergeName |-> entities[c.merged],
                    subj |-> {}, obj |-> {}, ents |-> {}, als |-> {}]
  OBVIOUS
<1>5. call' = [call EXCEPT ![h] = d] /\ clock' = clock + 1
  BY <1>1, <1>3, <1>s, <1>4 DEF ReadMerged
<1>6. UNCHANGED <<entities, aliases, triples, entries, txns, past>> BY <1>2 DEF db
<1>7. Keys' = Keys BY <1>6 DEF Keys
<1>8. Fresh(s)' BY <1>s, <1>5, <1>7 DEF Fresh, SeqInv, Drawn
<1>9. s # 0 BY <1>s DEF SeqInv, Drawn
<1>10. MergeKnows(d)' BY <1>3, <1>4, <1>6, <1>9 DEF MergeKnows
<1>11. Knows(d)' BY <1>4, <1>8, <1>10 DEF Knows
<1> QED BY <1>2, <1>5, <1>11, OneCallKeeps

\* The four reads of a merge: what is captured is what there is.
LEMMA CaptureKeeps ==
  ASSUME OneHandler, SeqInv, GraphInv', NEW h \in Handlers,
         CaptureSubjects(h) \/ CaptureObjects(h) \/ CaptureEntries(h) \/ CaptureAliases(h)
  PROVE  SeqInv'
<1>1. PICK c : c = call[h] OBVIOUS
<1>2. Knows(c) BY <1>1 DEF SeqInv, CallKnows
<1>3. ASSUME NEW phase \in {"subjects", "objects", "entries", "aliases"},
             NEW field \in {"subj", "obj", "ents", "als"},
             NEW ids, NEW next, Capture(h, phase, field, ids, next),
             next # "keep", \A d : d = [c EXCEPT !.phase = next, ![field] = ids] /\ MergeKnows(c)
                                   /\ c.phase = phase => MergeKnows(d)
      PROVE  SeqInv'
  <2>1. PICK d : d = [c EXCEPT !.phase = next, ![field] = ids] OBVIOUS
  <2>2. /\ c.op = "merge" /\ c.phase = phase /\ UNCHANGED <<clock, db>>
        /\ call' = [call EXCEPT ![h] = d]
    BY <1>1, <1>3, <2>1 DEF Capture
  <2>3. MergeKnows(c) BY <1>2, <2>2 DEF Knows
  <2>4. MergeKnows(d) BY <1>3, <2>1, <2>2, <2>3
  <2>5. d.op = "merge" /\ d.stamp = c.stamp /\ {"op", "phase", "stamp"} \subseteq DOMAIN d
    BY <1>2, <2>1, <2>2 DEF Knows
  <2>6. c.stamp # 0 BY <1>3, <2>2, <2>3 DEF MergeKnows
  <2>7. Knows(d) BY <1>2, <2>4, <2>5, <2>6 DEF Knows
  <2>8. Knows(d)' BY <2>2, <2>7, KnowsSame
  <2> QED BY <2>2, <2>8, OneCallKeeps
<1>4. CASE CaptureSubjects(h)
  <2>1. PICK ids : ids = {i \in LiveTriples : triples[i].subject = c.mergeName} OBVIOUS
  <2>2. Capture(h, "subjects", "subj", ids, "objects") BY <1>1, <1>4, <2>1 DEF CaptureSubjects
  <2>3. ASSUME NEW d, d = [c EXCEPT !.phase = "objects", !.subj = ids], MergeKnows(c),
               c.phase = "subjects"
        PROVE  MergeKnows(d)
    BY <2>1, <2>3 DEF MergeKnows
  <2> QED BY <1>3, <2>2, <2>3
<1>5. CASE CaptureObjects(h)
  <2>1. PICK ids : ids = {i \in LiveTriples : triples[i].object = c.mergeName} OBVIOUS
  <2>2. Capture(h, "objects", "obj", ids, "entries") BY <1>1, <1>5, <2>1 DEF CaptureObjects
  <2>3. ASSUME NEW d, d = [c EXCEPT !.phase = "entries", !.obj = ids], MergeKnows(c),
               c.phase = "objects"
        PROVE  MergeKnows(d)
    BY <2>1, <2>3 DEF MergeKnows
  <2> QED BY <1>3, <2>2, <2>3
<1>6. CASE CaptureEntries(h)
  <2>1. PICK ids : ids = {i \in LiveEntries : entries[i].entity = c.merged} OBVIOUS
  <2>2. Capture(h, "entries", "ents", ids, "aliases") BY <1>1, <1>6, <2>1 DEF CaptureEntries
  <2>3. ASSUME NEW d, d = [c EXCEPT !.phase = "aliases", !.ents = ids], MergeKnows(c),
               c.phase = "entries"
        PROVE  MergeKnows(d)
    BY <2>1, <2>3 DEF MergeKnows
  <2> QED BY <1>3, <2>2, <2>3
<1>7. CASE CaptureAliases(h)
  <2>1. PICK ids : ids = {i \in DOMAIN aliases : aliases[i].entity = c.merged} OBVIOUS
  <2>2. Capture(h, "aliases", "als", ids, "sent") BY <1>1, <1>7, <2>1 DEF CaptureAliases
  <2>3. ASSUME NEW d, d = [c EXCEPT !.phase = "sent", !.als = ids], MergeKnows(c),
               c.phase = "aliases"
        PROVE  MergeKnows(d)
    BY <2>1, <2>3 DEF MergeKnows
  <2> QED BY <1>3, <2>2, <2>3
<1> QED BY <1>4, <1>5, <1>6, <1>7

\* A batch that is refused or lost changes nothing.
LEMMA FailKeeps ==
  ASSUME OneHandler, SeqInv, GraphInv', NEW h \in Handlers, Fail(h)
  PROVE  SeqInv'
<1>1. Knows(Idle)' BY DEF Knows, Idle
<1> QED BY <1>1, OneCallKeeps DEF Fail

\* An entry that is linked between two calls has a new number.
LEMMA ImportEntryKeeps ==
  ASSUME OneHandler, SeqInv, GraphInv', NEW e, ImportEntry(e)
  PROVE  SeqInv'
<1>1. /\ clock' = clock + 1 /\ UNCHANGED <<entities, aliases, triples, txns, past, call>>
      /\ entries' = With(entries, clock + 1, [entity |-> e, deleted |-> FALSE])
  BY DEF ImportEntry
<1>2. clock' \in Nat /\ clock' >= clock BY <1>1 DEF SeqInv, Drawn
<1>3. CallKnows'
  <2>1. DOMAIN call' = Handlers /\ \A h \in Handlers : call'[h] = Idle
    BY <1>1 DEF ImportEntry, SeqInv, CallKnows
  <2>2. Knows(Idle)' BY DEF Knows, Idle
  <2> QED BY <2>1, <2>2 DEF CallKnows
<1> QED BY <1>1, <1>2, <1>3, QuietKeeps

-----------------------------------------------------------------------------
(* One call at a time: the theorems *)

\* The empty database satisfies the invariant.
LEMMA InitSeqInv == Init => SeqInv
<1> SUFFICES ASSUME Init PROVE SeqInv
  OBVIOUS
<1>1. /\ clock = 0 /\ entities = <<>> /\ aliases = <<>> /\ triples = <<>> /\ entries = <<>>
      /\ txns = <<>> /\ past = <<>> /\ call = [h \in Handlers |-> Idle]
  BY DEF Init
<1>2. DOMAIN entities = {} /\ DOMAIN aliases = {} /\ DOMAIN triples = {} /\ DOMAIN entries = {}
      /\ DOMAIN txns = {} /\ DOMAIN past = {}
  BY <1>1
<1>3. GraphInv BY InitGraphInv
<1>4. Drawn BY <1>1, <1>2 DEF Drawn, Keys
<1>5. Shapes /\ OneNow /\ NamedNow BY <1>2 DEF Shapes, OneNow, NamedNow
<1>6. Undoable = {} BY <1>2 DEF Undoable
<1>7. CallKnows
  <2>1. Knows(Idle) BY IdleKnows
  <2>2. DOMAIN call = Handlers /\ \A h \in Handlers : call[h] = Idle BY <1>1
  <2> QED BY <2>1, <2>2 DEF CallKnows
<1> QED BY <1>3, <1>4, <1>5, <1>6, <1>7 DEF SeqInv

\* Every step keeps the invariant: one case per action.
LEMMA NextSeqInv ==
  ASSUME OneHandler, SeqInv, [Next]_vars
  PROVE  SeqInv'
<1>1. GraphInv' BY NextGraphInv DEF SeqInv
<1>2. CASE UNCHANGED vars
  <2>1. CallKnows'
    <3>1. UNCHANGED <<clock, db>> /\ call' = call BY <1>2 DEF vars, db
    <3>2. ASSUME NEW h \in Handlers, NEW c, c = call[h] PROVE Knows(c)'
      <4>1. Knows(c) BY <3>2 DEF SeqInv, CallKnows
      <4> QED BY <3>1, <4>1, KnowsSame
    <3>3. DOMAIN call' = Handlers BY <3>1 DEF SeqInv, CallKnows
    <3>4. ASSUME NEW h \in Handlers PROVE Knows(call[h])'
      <4>1. PICK c : c = call[h] OBVIOUS
      <4>2. Knows(c)' BY <3>2, <4>1
      <4> QED BY <3>1, <4>1, <4>2
    <3> QED BY <3>3, <3>4 DEF CallKnows
  <2>2. clock' \in Nat /\ clock' >= clock BY <1>2 DEF vars, SeqInv, Drawn
  <2>3. UNCHANGED <<entities, aliases, triples, entries, txns, past>> BY <1>2 DEF vars, db
  <2> QED BY <1>1, <2>1, <2>2, <2>3, QuietKeeps
<1>3. CASE Next
  <2>1. ASSUME NEW e \in DOMAIN entities, ImportEntry(e) PROVE SeqInv'
    BY <1>1, <2>1, ImportEntryKeeps
  <2>2. ASSUME NEW h \in Handlers, NEW name \in Names, UpsertLookup(h, name) PROVE SeqInv'
    BY <1>1, <2>2, UpsertLookupKeeps
  <2>3. ASSUME NEW h \in Handlers, NEW s \in Names, NEW o \in Names, RelateBegin(h, s, o)
        PROVE  SeqInv'
    BY <1>1, <2>3, RelateBeginKeeps
  <2>4. ASSUME NEW h \in Handlers, NEW i \in LiveTriples, NEW o \in Names, UpdateLookup(h, i, o)
        PROVE  SeqInv'
    BY <1>1, <2>4, UpdateLookupKeeps
  <2>5. ASSUME NEW h \in Handlers, NEW i \in LiveTriples, DeleteLookup(h, "delete", "triple", i)
        PROVE  SeqInv'
    BY <1>1, <2>5, DeleteLookupKeeps
  <2>6. ASSUME NEW h \in Handlers, NEW i \in LiveEntries,
               DeleteLookup(h, "delete_entry", "entry", i)
        PROVE  SeqInv'
    BY <1>1, <2>6, DeleteLookupKeeps
  <2>7. ASSUME NEW h \in Handlers, NEW T \in SUBSET Undoable, UndoSelect(h, T) PROVE SeqInv'
    BY <1>1, <2>7, UndoSelectKeeps
  <2>8. ASSUME NEW h \in Handlers, NEW keep \in DOMAIN entities, NEW merged \in DOMAIN entities,
               MergeBegin(h, keep, merged)
        PROVE  SeqInv'
    BY <1>1, <2>8, MergeBeginKeeps
  <2>9. ASSUME NEW h \in Handlers, Send(h) \/ ReadMerged(h) \/ Fail(h) PROVE SeqInv'
    BY <1>1, <2>9, SendKeeps, ReadMergedKeeps, FailKeeps
  <2>10. ASSUME NEW h \in Handlers, CaptureSubjects(h) \/ CaptureObjects(h)
                                    \/ CaptureEntries(h) \/ CaptureAliases(h)
         PROVE  SeqInv'
    BY <1>1, <2>10, CaptureKeeps
  <2>11. ASSUME NEW h \in Handlers, CommitEntity(h) \/ CommitTriple(h) \/ CommitUpdate(h)
                                    \/ CommitDelete(h) \/ CommitMerge(h)
         PROVE  SeqInv'
    BY <1>1, <2>11, CommitEntityKeeps, CommitTripleKeeps, CommitUpdateKeeps, CommitDeleteKeeps,
       CommitMergeKeeps
  <2>12. ASSUME NEW h \in Handlers, NEW n \in call[h].todo, CommitRevert(h, n) PROVE SeqInv'
    BY <1>1, <2>12, CommitRevertKeeps
  <2> QED
    BY <1>3, <2>1, <2>2, <2>3, <2>4, <2>5, <2>6, <2>7, <2>8, <2>9, <2>10, <2>11, <2>12 DEF Next
<1> QED BY <1>2, <1>3

\* While calls run one at a time, every entity is found by its own name, before and after
\* merges (mergeEntities) and the undo of any of them (undoTransactions), whatever fails.
THEOREM EntitiesAreFound == ASSUME OneHandler PROVE Spec => []NamesResolve
<1>1. SeqInv => NamesResolve
  <2> SUFFICES ASSUME SeqInv, NEW e \in DOMAIN entities PROVE e \in Resolves(entities[e])
    BY DEF NamesResolve
  <2> QED BY DEF SeqInv, NamedNow, Resolves
<1>2. SeqInv /\ [Next]_vars => SeqInv'
  BY NextSeqInv
<1> QED
  BY InitSeqInv, <1>1, <1>2, PTL DEF Spec

\* While calls run one at a time, no name leads to two entities: upsertEntity never makes a
\* duplicate, and neither a merge nor its undo leaves one.
THEOREM NamesAreUnique == ASSUME OneHandler PROVE Spec => []OneEntityPerName
<1>1. SeqInv => OneEntityPerName
  <2> SUFFICES ASSUME SeqInv, NEW name \in Names PROVE Cardinality(Resolves(name)) <= 1
    BY DEF OneEntityPerName
  <2>1. CASE Resolves(name) = {}
    <3>1. Cardinality(Resolves(name)) = 0 BY <2>1, FS_EmptySet
    <3> QED BY <3>1
  <2>2. CASE Resolves(name) # {}
    <3>1. PICK e : e \in Resolves(name) BY <2>2
    <3>2. \A d \in Resolves(name) : d = e BY <3>1 DEF Resolves, SeqInv, OneNow
    <3>3. Resolves(name) = {e} BY <3>1, <3>2
    <3>4. Cardinality({e}) = 1 BY FS_Singleton
    <3>5. Cardinality(Resolves(name)) = 1 BY <3>3, <3>4
    <3> QED BY <3>5
  <2> QED BY <2>1, <2>2
<1>2. SeqInv /\ [Next]_vars => SeqInv'
  BY NextSeqInv
<1> QED
  BY InitSeqInv, <1>1, <1>2, PTL DEF Spec

\* After the undo of transaction n the graph is the one that n found.
LEMMA BackAgain ==
  ASSUME NEW n \in Int, "link" \in Fields, Shapes', Stood(n, past[n])',
         Undoable' \subseteq Int, \A k \in Undoable' : k < n
  PROVE  BackTo(past[n])'
<1>1. PICK g : g = past'[n] OBVIOUS
<1>2. OneAt(n)' /\ EntitiesAt(n, g)' /\ AliasesAt(n, g)' /\ TriplesAt(n, g)' /\ LinksAt(n, g)'
  BY <1>1 DEF Stood
<1>3. \A f, i, x : Was(f, i, n, x)' <=> x = Value(f, i)'
  BY WasNowAfter
<1>4. \A m \in Standing' : ~(m >= n)
  <2> SUFFICES ASSUME NEW m \in Standing', m >= n PROVE FALSE OBVIOUS
  <2>1. m \in Undoable' BY DEF Standing
  <2>2. m \in Int /\ m < n BY <2>1
  <2> QED BY <2>2
<1>5. RowsAt(n)' = DOMAIN aliases' BY <1>4 DEF RowsAt
<1>6. \A e, x : Named(e, n, x)' <=> e \in DOMAIN entities' /\ entities'[e] = x
  BY <1>4 DEF Named
<1>7. \A i : /\ Value("alias", i)' = aliases'[i].entity /\ Value("link", i)' = entries'[i].entity
             /\ Value("subject", i)' = triples'[i].subject
             /\ Value("object", i)' = triples'[i].object
             /\ Value("gone", i)' = IF triples'[i].deleted THEN 1 ELSE 0
  BY DEF Value
<1>8. \A e \in DOMAIN g.entities : e \in DOMAIN entities' /\ entities'[e] = g.entities[e]
  BY <1>2, <1>6 DEF EntitiesAt
<1>9. {<<aliases'[i].alias, aliases'[i].entity>> :
           i \in {j \in DOMAIN aliases' : aliases'[j].entity \in DOMAIN g.entities}} = g.aliases
  <2>1. \A i \in DOMAIN aliases' : aliases'[i].entity \in DOMAIN g.entities =>
            <<aliases'[i].alias, aliases'[i].entity>> \in g.aliases
    BY <1>2, <1>3, <1>5, <1>7 DEF AliasesAt
  <2>2. \A p \in g.aliases : \E i \in DOMAIN aliases' :
            aliases'[i].entity \in DOMAIN g.entities
            /\ p = <<aliases'[i].alias, aliases'[i].entity>>
    BY <1>2, <1>3, <1>5, <1>7 DEF AliasesAt
  <2> QED BY <2>1, <2>2
<1>10. LiveTriples' = DOMAIN g.triples
  <2>1. \A i : i \in DOMAIN g.triples <=> i \in DOMAIN triples' /\ 0 = Value("gone", i)'
    BY <1>2, <1>3 DEF TriplesAt
  <2>2. \A i : i \in DOMAIN g.triples <=> i \in DOMAIN triples' /\ ~triples'[i].deleted
    BY <2>1, <1>7
  <2> QED BY <2>2 DEF LiveTriples
<1>11. [i \in LiveTriples' |-> <<triples'[i].subject, triples'[i].object>>] = g.triples
  <2>1. \A i \in DOMAIN g.triples : /\ g.triples[i][1] = triples'[i].subject
                                    /\ g.triples[i][2] = triples'[i].object
    BY <1>2, <1>3, <1>7 DEF TriplesAt
  <2>2. g.triples = [i \in DOMAIN g.triples |-> <<g.triples[i][1], g.triples[i][2]>>]
    BY <1>2 DEF TriplesAt
  <2> QED BY <1>10, <2>1, <2>2
<1>12. Graph'.triples = g.triples BY <1>11 DEF Graph
<1>13. \A i \in DOMAIN g.links : i \in LiveEntries' /\ entries'[i].entity = g.links[i]
  <2>1. "link" \in Fields' BY DEF Fields
  <2>2. \A i \in DOMAIN entries' : i \in LiveEntries' BY <2>1 DEF Shapes, LiveEntries
  <2> QED BY <1>2, <1>3, <1>7, <2>1, <2>2 DEF LinksAt
<1> QED BY <1>1, <1>8, <1>9, <1>12, <1>13 DEF BackTo

\* No step but one of undo marks a transaction as reverted.
LEMMA OnlyUndoReverts ==
  ASSUME SeqInv, [Next]_vars, NEW n \in DOMAIN txns, NowReverted(n)
  PROVE  \E h \in Handlers : CommitRevert(h, n)
<1>1. txns'[n] # txns[n] BY DEF NowReverted
<1>2. ASSUME NEW h \in Handlers, NEW op, NEW t, Sent(h, op),
             txns' = With(txns, call[h].stamp, t)
      PROVE  FALSE
  <2>1. Fresh(call[h].stamp) BY <1>2, SentKnows
  <2>2. call[h].stamp \notin DOMAIN txns BY <2>1 DEF Fresh, Keys
  <2> QED BY <1>1, <1>2, <2>2 DEF With
<1>3. ASSUME NEW h \in Handlers,
             CommitEntity(h) \/ CommitTriple(h) \/ CommitUpdate(h) \/ CommitDelete(h)
                \/ CommitMerge(h)
      PROVE  FALSE
  BY <1>2, <1>3 DEF CommitEntity, CommitTriple, CommitUpdate, CommitDelete, CommitMerge, LogTxn
<1>4. ASSUME NEW h \in Handlers, NEW m \in call[h].todo, CommitRevert(h, m), m # n
      PROVE  FALSE
  <2>1. PICK c : c = call[h] OBVIOUS
  <2>2. Fresh(c.stamp) BY <1>4, <2>1, SentKnows DEF CommitRevert
  <2>3. c.stamp \notin DOMAIN txns BY <2>2 DEF Fresh, Keys
  <2>4. PICK u : txns' = [With(txns, c.stamp, u) EXCEPT ![m].reverted_by = c.stamp]
    BY <1>4, <2>1 DEF CommitRevert
  <2>5. txns'[n] = txns[n] BY <1>4, <2>3, <2>4 DEF With
  <2> QED BY <1>1, <2>5
<1>5. txns' # txns BY <1>1
<1>6. PICK h \in Handlers :
         \/ CommitEntity(h) \/ CommitTriple(h) \/ CommitUpdate(h) \/ CommitDelete(h)
         \/ CommitMerge(h)
         \/ \E m \in call[h].todo : CommitRevert(h, m)
  BY <1>5 DEF Next, vars, db, ImportEntry, UpsertLookup, RelateBegin, UpdateLookup, DeleteLookup,
              UndoSelect, MergeBegin, Begin, Send, ReadMerged, Capture, CaptureSubjects,
              CaptureObjects, CaptureEntries, CaptureAliases, Fail
<1> QED BY <1>3, <1>4, <1>6

\* While calls run one at a time and no entry is deleted, the undo of a transaction brings
\* back the graph that was there before it, merges included (README, Undo), up to entities
\* whose creation is not undone and entries imported since.
THEOREM UndoRestores ==
  ASSUME OneHandler, "delete_entry" \notin Ops
  PROVE  Spec => UndoRestoresGraph
<1>1. SeqInv /\ [Next]_vars => SeqInv'
  BY NextSeqInv
<1>2. SeqInv /\ [Next]_vars => [\A n \in DOMAIN txns : NowReverted(n) => BackTo(past[n])']_vars
  <2> SUFFICES ASSUME SeqInv, [Next]_vars, NEW n \in DOMAIN txns, NowReverted(n)
               PROVE  BackTo(past[n])'
    OBVIOUS
  <2>1. PICK h \in Handlers : CommitRevert(h, n) BY OnlyUndoReverts
  <2>2. GraphInv' BY NextGraphInv DEF SeqInv
  <2>3. SeqInv' /\ Stood(n, past[n])' BY <2>1, <2>2, CommitRevertKeeps
  <2>4. /\ n \in Int /\ Undoable \subseteq Int /\ \A k \in Undoable : k <= n
        /\ Undoable' = Undoable \ {n}
    <3>1. PICK c : c = call[h] OBVIOUS
    <3> QED BY <2>1, <3>1, RevertedTxn
  <2>5. \A k \in Undoable' : k < n
    <3> SUFFICES ASSUME NEW k \in Undoable' PROVE k < n OBVIOUS
    <3>1. k \in Int /\ k <= n /\ k # n BY <2>4
    <3> QED BY <2>4, <3>1
  <2>6. "link" \in Fields BY DEF Fields
  <2>7. Shapes' BY <2>3 DEF SeqInv
  <2> QED BY <2>3, <2>4, <2>5, <2>6, <2>7, BackAgain
<1> QED
  BY InitSeqInv, <1>1, <1>2, PTL DEF Spec, UndoRestoresGraph
=============================================================================
