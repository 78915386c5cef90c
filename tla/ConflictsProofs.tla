--------------------------- MODULE ConflictsProofs ---------------------------
(***************************************************************************)
(* A conflict is acted on at most once, and what relate, upsert and a      *)
(* replace have read stays true but for what was written since, for any    *)
(* number of sessions, handlers, keys, objects and conflicts: whatever is  *)
(* resolved twice, expires or fails.                                       *)
(*                                                                         *)
(* ResolvedOnce counts; the invariant names the four places an id may be   *)
(* in (stored, closed, held by a running call, written in the log), says   *)
(* that it is in at most one of them, and once only, and that an id not    *)
(* drawn yet is in none.  The second part carries what each call, stored   *)
(* conflict and transaction has seen through every step (SeenInv): a step  *)
(* that changes a triple logs a transaction on it (Grown).                 *)
(***************************************************************************)
EXTENDS Conflicts, FiniteSetTheorems, TLAPS

Shape ==
    /\ clock \in Nat
    /\ DOMAIN txns \subseteq 1..clock
    /\ DOMAIN conflicts \subseteq 1..clock
    /\ DOMAIN call = Handlers
    /\ \A h \in Handlers : "cid" \in DOMAIN call[h]

Drawn ==
    /\ \A n \in DOMAIN txns : txns[n].cid \in 0..clock
    /\ \A h \in Handlers : call[h].cid \in 0..clock
    /\ stored \cup closed \subseteq DOMAIN conflicts

\* What is stored or closed has not been acted on.
OpenUntouched ==
    /\ stored \cap closed = {}
    /\ \A cid \in stored \cup closed :
          /\ \A n \in DOMAIN txns : txns[n].cid # cid
          /\ \A h \in Handlers : call[h].cid # cid

OneWrite ==
    \A m, n \in DOMAIN txns : (txns[m].cid # 0 /\ txns[m].cid = txns[n].cid) => m = n

OneCall ==
    \A g, h \in Handlers : (call[g].cid # 0 /\ call[g].cid = call[h].cid) => g = h

NotBoth ==
    \A h \in Handlers, n \in DOMAIN txns : call[h].cid # 0 => txns[n].cid # call[h].cid

Once == OpenUntouched /\ OneWrite /\ OneCall /\ NotBoth

ConflictInv == Shape /\ Drawn /\ Once

-----------------------------------------------------------------------------
\* Nothing has been raised at first.
LEMMA InitConflictInv == Init => ConflictInv
  BY DEF Init, ConflictInv, Shape, Drawn, Once, OpenUntouched, OneWrite, OneCall,
         NotBoth, Idle, Call

\* A call that begins, goes on or ends without a batch has the conflict it had,
\* or none.
LEMMA CallGoesOn ==
  ASSUME ConflictInv, NEW h \in Handlers, NEW c,
         "cid" \in DOMAIN c, c.cid \in {0, call[h].cid},
         call' = [call EXCEPT ![h] = c],
         UNCHANGED <<clock, txns, conflicts, stored, closed>>
  PROVE  ConflictInv'
<1>1. /\ DOMAIN call' = Handlers
      /\ \A g \in Handlers : call'[g] = IF g = h THEN c ELSE call[g]
  BY DEF ConflictInv, Shape
<1>2. Shape' /\ Drawn'
  BY <1>1 DEF ConflictInv, Shape, Drawn
<1>3. Once'
  BY <1>1 DEF ConflictInv, Shape, Drawn, Once, OpenUntouched, OneWrite, OneCall, NotBoth
<1> QED
  BY <1>2, <1>3 DEF ConflictInv

\* A call that has no conflict begins.
LEMMA CallBegins ==
  ASSUME ConflictInv, NEW h \in Handlers, NEW op, NEW phase, NEW tool, NEW row, NEW fact,
         NEW before, Runs(h, Call(op, phase, tool, row, fact, before, 0)),
         UNCHANGED <<clock, txns, conflicts, stored, closed>>
  PROVE  ConflictInv'
<1> DEFINE c == Call(op, phase, tool, row, fact, before, 0)
<1>1. "cid" \in DOMAIN c /\ c.cid = 0
  BY DEF Call
<1>2. call' = [call EXCEPT ![h] = c]
  BY DEF Runs
<1> HIDE DEF c
<1> QED
  BY <1>1, <1>2, CallGoesOn

\* A call ends without a batch.
LEMMA CallEnds ==
  ASSUME ConflictInv, NEW h \in Handlers, Runs(h, Idle),
         UNCHANGED <<clock, txns, conflicts, stored, closed>>
  PROVE  ConflictInv'
  BY CallBegins DEF Idle

\* A conflict is raised under an id that nothing has yet.
LEMMA ConflictRaised ==
  ASSUME ConflictInv, NEW info,
         clock' = clock + 1, conflicts' = With(conflicts, clock + 1, info),
         stored' = stored \cup {clock + 1}, UNCHANGED <<txns, closed, call>>
  PROVE  ConflictInv'
<1>1. DOMAIN conflicts' = DOMAIN conflicts \cup {clock + 1}
  BY DEF With
<1>2. Shape' /\ Drawn'
  BY <1>1 DEF ConflictInv, Shape, Drawn
<1>3. Once'
  BY DEF ConflictInv, Shape, Drawn, Once, OpenUntouched, OneWrite, OneCall, NotBoth
<1> QED
  BY <1>2, <1>3 DEF ConflictInv

\* A stored conflict is rejected or has expired.
LEMMA ConflictClosed ==
  ASSUME ConflictInv, NEW cid \in stored,
         stored' = stored \ {cid}, closed' = closed \cup {cid},
         UNCHANGED <<clock, txns, conflicts, call>>
  PROVE  ConflictInv'
  BY DEF ConflictInv, Shape, Drawn, Once, OpenUntouched, OneWrite, OneCall, NotBoth

\* A stored conflict is removed and a call goes on to act on it.
LEMMA ConflictTaken ==
  ASSUME ConflictInv, NEW cid \in stored, NEW h \in Handlers, NEW op, NEW phase, NEW tool,
         NEW row, NEW fact, NEW before, call[h] = Idle,
         Runs(h, Call(op, phase, tool, row, fact, before, cid)), stored' = stored \ {cid},
         UNCHANGED <<clock, txns, conflicts, closed>>
  PROVE  ConflictInv'
<1> DEFINE c == Call(op, phase, tool, row, fact, before, cid)
<1>1. "cid" \in DOMAIN c /\ c.cid = cid
  BY DEF Call
<1>2. /\ DOMAIN call' = Handlers
      /\ \A g \in Handlers : call'[g] = IF g = h THEN c ELSE call[g]
  BY DEF ConflictInv, Shape, Runs
<1> HIDE DEF c
<1>3. cid \in 1..clock /\ cid \notin closed
  BY DEF ConflictInv, Shape, Drawn, Once, OpenUntouched
<1>4. Shape' /\ Drawn'
  BY <1>1, <1>2, <1>3 DEF ConflictInv, Shape, Drawn
<1>5. Once'
  BY <1>1, <1>2, <1>3
     DEF ConflictInv, Shape, Drawn, Once, OpenUntouched, OneWrite, OneCall, NotBoth
<1> QED
  BY <1>4, <1>5 DEF ConflictInv

\* A batch writes the conflict of its call into the log as the call ends.
LEMMA ConflictWritten ==
  ASSUME ConflictInv, NEW h \in Handlers, NEW op, NEW row, NEW before, NEW after,
         Batch(h, op, row, before, after)
  PROVE  ConflictInv'
<1>1. /\ DOMAIN call' = Handlers
      /\ \A g \in Handlers : call'[g] = IF g = h THEN Idle ELSE call[g]
  BY DEF ConflictInv, Shape, Batch, Runs
<1>2. "cid" \in DOMAIN Idle /\ Idle.cid = 0
  BY DEF Idle, Call
<1>3. /\ DOMAIN txns' = DOMAIN txns \cup {clock + 1}
      /\ txns'[clock + 1].cid = call[h].cid
      /\ \A n \in DOMAIN txns : txns'[n] = txns[n]
  <2> DEFINE t == [op |-> op, tool |-> call[h].tool, row |-> row, before |-> before,
                   after |-> after, cid |-> call[h].cid, since |-> call[h].since]
  <2>1. clock + 1 \notin DOMAIN txns
    BY DEF ConflictInv, Shape
  <2>2. txns' = With(txns, clock + 1, t) /\ t.cid = call[h].cid
    BY DEF Batch
  <2> HIDE DEF t
  <2>3. /\ DOMAIN txns' = DOMAIN txns \cup {clock + 1}
        /\ txns'[clock + 1] = t
        /\ \A n \in DOMAIN txns \ {clock + 1} : txns'[n] = txns[n]
    BY <2>2 DEF With
  <2> QED
    BY <2>1, <2>2, <2>3
<1>4. clock' = clock + 1 /\ UNCHANGED <<conflicts, stored, closed>>
  BY DEF Batch
<1>5. Shape' /\ Drawn'
  BY <1>1, <1>2, <1>3, <1>4 DEF ConflictInv, Shape, Drawn
<1>6. Once'
  BY <1>1, <1>2, <1>3, <1>4
     DEF ConflictInv, Shape, Drawn, Once, OpenUntouched, OneWrite, OneCall, NotBoth
<1> QED
  BY <1>5, <1>6 DEF ConflictInv

-----------------------------------------------------------------------------
\* Every step keeps the invariant.
LEMMA NextConflictInv == ConflictInv /\ [Next]_vars => ConflictInv'
<1> SUFFICES ASSUME ConflictInv, [Next]_vars PROVE ConflictInv'
  OBVIOUS
<1>1. ASSUME NEW h \in Handlers, NEW fact \in Fact, RelateAgrees(h, fact)
      PROVE  ConflictInv'
  BY <1>1, CallBegins DEF RelateAgrees, Creates
<1>2. ASSUME NEW h \in Handlers, NEW fact \in Fact, NEW i \in Live, RelateConflicts(h, fact, i)
      PROVE  ConflictInv'
  BY <1>2, ConflictRaised DEF RelateConflicts
<1>3. ASSUME NEW h \in Handlers, NEW fact \in Fact, UpsertCreates(h, fact)
      PROVE  ConflictInv'
  BY <1>3, CallBegins DEF UpsertCreates, Creates
<1>4. ASSUME NEW h \in Handlers, NEW fact \in Fact, NEW i \in Live, UpsertUpdates(h, fact, i)
      PROVE  ConflictInv'
  BY <1>4, CallBegins DEF UpsertUpdates, Updates
<1>5. ASSUME NEW h \in Handlers, NEW fact \in Fact, NEW i \in Live, UpdateTriple(h, i, fact)
      PROVE  ConflictInv'
  BY <1>5, CallBegins DEF UpdateTriple, Updates
<1>6. ASSUME NEW h \in Handlers, NEW i \in Live, DeleteTriple(h, i)
      PROVE  ConflictInv'
  BY <1>6, CallBegins DEF DeleteTriple
<1>7. ASSUME NEW h \in Handlers, UpdateRead(h)
      PROVE  ConflictInv'
  <2> DEFINE c == call[h]
             read == [c EXCEPT !.phase = "read", !.before = FactOf(c.row),
                               !.fact.key = IF c.tool = "update" THEN @
                                            ELSE triples[c.row].key]
  <2>1. CASE c.row \in Live
    <3>1. call' = [call EXCEPT ![h] = read] /\ UNCHANGED <<clock, txns, conflicts, stored, closed>>
      BY <1>7, <2>1 DEF UpdateRead, Runs
    <3>2. "cid" \in DOMAIN read /\ read.cid = call[h].cid
      BY DEF ConflictInv, Shape
    <3> HIDE DEF read
    <3> QED
      BY <3>1, <3>2, CallGoesOn
  <2>2. CASE c.row \notin Live
    BY <1>7, <2>2, CallEnds DEF UpdateRead
  <2> QED
    BY <2>1, <2>2
<1>8. ASSUME NEW h \in Handlers, NEW cid \in stored, ResolveExpired(h, cid)
      PROVE  ConflictInv'
  BY <1>8, ConflictClosed DEF ResolveExpired
<1>9. ASSUME NEW h \in Handlers, NEW cid \in stored, ResolveReject(h, cid)
      PROVE  ConflictInv'
  BY <1>9, ConflictClosed DEF ResolveReject, Removed
<1>10. ASSUME NEW h \in Handlers, NEW cid \in stored, ResolveReplace(h, cid)
       PROVE  ConflictInv'
  BY <1>10, ConflictTaken DEF ResolveReplace, Free, Removed, Updates
<1>11. ASSUME NEW h \in Handlers, NEW cid \in stored, ResolveRetainBoth(h, cid)
       PROVE  ConflictInv'
  BY <1>11, ConflictTaken DEF ResolveRetainBoth, Free, Removed, Creates
<1>12. ASSUME NEW h \in Handlers, CommitCreate(h)
       PROVE  ConflictInv'
  BY <1>12, ConflictWritten DEF CommitCreate
<1>13. ASSUME NEW h \in Handlers, CommitUpdate(h)
       PROVE  ConflictInv'
  BY <1>13, ConflictWritten DEF CommitUpdate
<1>14. ASSUME NEW h \in Handlers, CommitDelete(h)
       PROVE  ConflictInv'
  BY <1>14, ConflictWritten DEF CommitDelete
<1>15. ASSUME NEW h \in Handlers, Fail(h)
       PROVE  ConflictInv'
  BY <1>15, CallEnds DEF Fail
<1>16. ASSUME NEW cid \in stored, Age(cid)
       PROVE  ConflictInv'
  BY <1>16 DEF Age, ConflictInv, Shape, Drawn, Once, OpenUntouched, OneWrite, OneCall, NotBoth
<1>17. CASE UNCHANGED vars
  BY <1>17 DEF vars, ConflictInv, Shape, Drawn, Once, OpenUntouched, OneWrite, OneCall, NotBoth
<1> QED
  BY <1>1, <1>2, <1>3, <1>4, <1>5, <1>6, <1>7, <1>8, <1>9, <1>10, <1>11, <1>12, <1>13,
     <1>14, <1>15, <1>16, <1>17 DEF Next

\* A set in which no two elements differ has at most one.
LEMMA AtMostOne ==
  ASSUME NEW S, \A x, y \in S : x = y
  PROVE  Cardinality(S) \in 0..1 /\ (S = {} => Cardinality(S) = 0)
<1>1. CASE S = {}
  BY <1>1, FS_EmptySet
<1>2. CASE S # {}
  <2>1. PICK x \in S : TRUE
    BY <1>2
  <2>2. S = {x}
    BY <2>1
  <2> QED
    BY <1>2, <2>2, FS_Singleton
<1> QED
  BY <1>1, <1>2

\* The four places an id may be in, counted.
LEMMA InvResolvedOnce == ConflictInv => ResolvedOnce
<1> SUFFICES ASSUME ConflictInv, NEW cid \in DOMAIN conflicts
             PROVE  Cardinality({n \in DOMAIN txns : txns[n].cid = cid})
                        + Cardinality({h \in Handlers : call[h].cid = cid})
                    <= IF cid \in stored \cup closed THEN 0 ELSE 1
  BY DEF ResolvedOnce
<1> DEFINE W == {n \in DOMAIN txns : txns[n].cid = cid}
           A == {h \in Handlers : call[h].cid = cid}
<1>1. cid # 0
  BY DEF ConflictInv, Shape
<1>2. (\A m, n \in W : m = n) /\ (\A g, h \in A : g = h)
  BY <1>1 DEF ConflictInv, Once, OneWrite, OneCall
<1>3. W = {} \/ A = {}
  BY <1>1 DEF ConflictInv, Once, NotBoth
<1>4. cid \in stored \cup closed => W = {} /\ A = {}
  BY DEF ConflictInv, Once, OpenUntouched
<1> HIDE DEF W, A
<1>5. /\ Cardinality(W) \in 0..1 /\ (W = {} => Cardinality(W) = 0)
      /\ Cardinality(A) \in 0..1 /\ (A = {} => Cardinality(A) = 0)
  BY <1>2, AtMostOne
<1>6. Cardinality(W) + Cardinality(A) <= IF cid \in stored \cup closed THEN 0 ELSE 1
  BY <1>3, <1>4, <1>5
<1> QED
  BY <1>6 DEF W, A

\* A conflict is resolved at most once, by one call and with one write, and
\* never once it was rejected or has expired (removeConflict before the write,
\* loadConflict's expiry), whatever the handlers of its session do.
THEOREM ConflictsResolvedOnce == Spec => []ResolvedOnce
<1>1. Init => ConflictInv
  BY InitConflictInv
<1>2. ConflictInv /\ [Next]_vars => ConflictInv'
  BY NextConflictInv
<1>3. ConflictInv => ResolvedOnce
  BY InvResolvedOnce
<1> QED
  BY <1>1, <1>2, <1>3, PTL DEF Spec

-----------------------------------------------------------------------------
(* What a call has read, and what may have changed since *)

CallFields == {"op", "phase", "tool", "row", "fact", "before", "cid", "since"}

\* Every triple is created by a transaction of its own id, with a key that only
\* update_triple changes.
RowsLogged ==
    \A i \in DOMAIN triples :
        /\ DOMAIN triples[i] = {"key", "object", "deleted"}
        /\ i \in DOMAIN txns /\ txns[i].op = "CREATE"
        /\ Rekeyed(i) \/ triples[i].key = txns[i].after.key

\* No triple drawn up to n still has the key it was created with, if that is this key.
NoneBefore(n, key) ==
    \A i \in DOMAIN triples :
        i <= n => triples[i].deleted \/ Rekeyed(i) \/ txns[i].after.key # key

\* What the call of a tool has seen holds but for what was written since.
RelateKnows(c) ==
    c.tool = "relate" =>
        /\ c.op = "create"
        /\ \A i \in Active(c.fact.key) :
              triples[i].object = c.fact.object \/ WrittenSince(i, c.since)

UpsertKnows(c) ==
    c.tool = "upsert" /\ c.op = "create" => NoneBefore(c.since, c.fact.key)

ReplaceKnows(c) ==
    c.tool = "replace" =>
        /\ c.op = "update" /\ c.cid \in DOMAIN conflicts
        /\ c.row = conflicts[c.cid].existing
        /\ c.phase = "read" => c.before = conflicts[c.cid].seen \/ WrittenSince(c.row, c.cid)

UpdateKnows(c) ==
    c.op = "update" /\ c.phase = "read" =>
        /\ c.row \in DOMAIN triples
        /\ Rekeyed(c.row) \/ c.before.key = txns[c.row].after.key

Knows(c) ==
    /\ DOMAIN c = CallFields /\ c.since \in 0..clock
    /\ RelateKnows(c) /\ UpsertKnows(c) /\ ReplaceKnows(c) /\ UpdateKnows(c)

\* The triple that a conflict names is as the conflict shows it, or was written.
ConflictKnown(cid) ==
    LET i == conflicts[cid].existing IN
    i \in DOMAIN triples /\ (FactOf(i) = conflicts[cid].seen \/ WrittenSince(i, cid))

\* What was replaced was what its conflict showed, or was written in between.
ReplacedShown(n) ==
    txns[n].tool = "replace" =>
        /\ txns[n].cid \in DOMAIN conflicts
        /\ \/ txns[n].before = conflicts[txns[n].cid].seen
           \/ \E m \in DOMAIN txns :
                  txns[n].cid < m /\ m < n /\ txns[m].row = txns[n].row

UpsertedBeside(n) ==
    txns[n].tool = "upsert" /\ txns[n].op = "CREATE" =>
        txns[n].since \in 0..clock /\ NoneBefore(txns[n].since, txns[n].after.key)

SeenInv ==
    /\ RowsLogged
    /\ \A h \in Handlers : Knows(call[h])
    /\ \A cid \in DOMAIN conflicts : ConflictKnown(cid)
    /\ \A n \in DOMAIN txns : ReplacedShown(n) /\ UpsertedBeside(n)

\* The log and the conflicts grow; a triple changes only with a transaction on it.
Grown ==
    /\ clock' \in Nat /\ clock' >= clock
    /\ \A n \in DOMAIN txns : n \in DOMAIN txns' /\ txns'[n] = txns[n]
    /\ \A cid \in DOMAIN conflicts : cid \in DOMAIN conflicts' /\ conflicts'[cid] = conflicts[cid]
    /\ \A i \in DOMAIN triples : i \in DOMAIN triples' /\ (triples[i].deleted => triples'[i].deleted)
    /\ \A i \in DOMAIN triples' :
          \/ i \in DOMAIN triples /\ triples'[i] = triples[i]
          \/ \E m \in DOMAIN txns' : m > clock /\ txns'[m].row = i
    /\ \A i \in DOMAIN triples' \ DOMAIN triples : i \in Nat /\ i > clock
    /\ DOMAIN txns' \subseteq Nat

LEMMA InitSeenInv == Init => SeenInv
  BY DEF Init, SeenInv, RowsLogged, Knows, RelateKnows, UpsertKnows, ReplaceKnows, UpdateKnows,
         CallFields, Idle, Call

-----------------------------------------------------------------------------
(* What is known stays known *)

LEMMA WrittenStays ==
  ASSUME Grown, NEW i, NEW n, WrittenSince(i, n)
  PROVE  WrittenSince(i, n)'
  BY DEF Grown, WrittenSince

LEMMA RekeyedStays ==
  ASSUME Grown, NEW i, Rekeyed(i)
  PROVE  Rekeyed(i)'
  BY DEF Grown, Rekeyed

LEMMA NoneBeforeStays ==
  ASSUME ConflictInv, RowsLogged, Grown, NEW n \in 0..clock, NEW key, NoneBefore(n, key)
  PROVE  NoneBefore(n, key)'
<1>1. ASSUME NEW i \in DOMAIN triples', i <= n
      PROVE  triples'[i].deleted \/ Rekeyed(i)' \/ txns'[i].after.key # key
  <2>1. i \in DOMAIN triples
    <3>1. i \notin DOMAIN triples => i \in Nat /\ i > clock
      BY <1>1 DEF Grown
    <3>2. clock \in Nat /\ n \in Nat /\ n <= clock
      BY DEF ConflictInv, Shape
    <3> QED
      BY <1>1, <3>1, <3>2
  <2>2. triples[i].deleted \/ Rekeyed(i) \/ txns[i].after.key # key
    BY <1>1, <2>1 DEF NoneBefore
  <2>3. /\ triples[i].deleted => triples'[i].deleted
        /\ txns'[i] = txns[i]
    BY <2>1 DEF Grown, RowsLogged
  <2> QED
    BY <2>2, <2>3, RekeyedStays
<1> QED
  BY <1>1 DEF NoneBefore

LEMMA KnowsStays ==
  ASSUME ConflictInv, RowsLogged, Grown, NEW c, Knows(c)
  PROVE  Knows(c)'
<1>1. DOMAIN c = CallFields /\ c.since \in 0..clock'
  BY DEF Knows, Grown, ConflictInv, Shape
<1>2. RelateKnows(c)'
  <2>1. ASSUME c.tool = "relate", NEW i \in Active(c.fact.key)'
        PROVE  triples'[i].object = c.fact.object \/ WrittenSince(i, c.since)'
    <3>1. i \in DOMAIN triples' /\ triples'[i].key = c.fact.key /\ ~triples'[i].deleted
      BY <2>1 DEF Active, Live
    <3>2. CASE i \in DOMAIN triples /\ triples'[i] = triples[i]
      <4>1. i \in Active(c.fact.key)
        BY <3>1, <3>2 DEF Active, Live
      <4>2. triples[i].object = c.fact.object \/ WrittenSince(i, c.since)
        BY <2>1, <4>1 DEF Knows, RelateKnows
      <4> QED
        BY <3>2, <4>2, WrittenStays
    <3>3. CASE \E m \in DOMAIN txns' : m > clock /\ txns'[m].row = i
      <4>1. PICK m \in DOMAIN txns' : m > clock /\ txns'[m].row = i
        BY <3>3
      <4>2. m \in Nat /\ clock \in Nat /\ c.since \in Nat /\ c.since <= clock
        BY <4>1 DEF Grown, ConflictInv, Shape, Knows
      <4> QED
        BY <4>1, <4>2 DEF WrittenSince
    <3> QED
      BY <3>1, <3>2, <3>3 DEF Grown
  <2> QED
    BY <2>1 DEF Knows, RelateKnows
<1>3. UpsertKnows(c)'
  BY NoneBeforeStays DEF Knows, UpsertKnows
<1>4. ReplaceKnows(c)'
  BY WrittenStays DEF Knows, ReplaceKnows, Grown
<1>5. UpdateKnows(c)'
  BY RekeyedStays DEF Knows, UpdateKnows, Grown, RowsLogged
<1> QED
  BY <1>1, <1>2, <1>3, <1>4, <1>5 DEF Knows

LEMMA ConflictKnownStays ==
  ASSUME ConflictInv, Grown, NEW cid \in DOMAIN conflicts, ConflictKnown(cid)
  PROVE  ConflictKnown(cid)'
<1> DEFINE i == conflicts[cid].existing
<1>1. /\ i \in DOMAIN triples /\ i \in DOMAIN triples'
      /\ conflicts'[cid] = conflicts[cid]
  BY DEF ConflictKnown, Grown
<1>2. CASE triples'[i] = triples[i]
  <2>1. FactOf(i)' = FactOf(i)
    BY <1>1, <1>2 DEF FactOf
  <2> QED
    BY <1>1, <2>1, WrittenStays DEF ConflictKnown
<1>3. CASE \E m \in DOMAIN txns' : m > clock /\ txns'[m].row = i
  <2>1. PICK m \in DOMAIN txns' : m > clock /\ txns'[m].row = i
    BY <1>3
  <2>2. m \in Nat /\ clock \in Nat /\ cid \in Nat /\ cid <= clock
    BY <2>1 DEF Grown, ConflictInv, Shape
  <2>3. m > cid
    BY <2>1, <2>2
  <2>4. WrittenSince(i, cid)'
    BY <1>1, <2>1, <2>3 DEF WrittenSince
  <2> QED
    BY <1>1, <2>4 DEF ConflictKnown
<1> QED
  BY <1>1, <1>2, <1>3 DEF Grown

LEMMA TxnKnownStays ==
  ASSUME ConflictInv, RowsLogged, Grown, NEW n \in DOMAIN txns,
         ReplacedShown(n), UpsertedBeside(n)
  PROVE  ReplacedShown(n)' /\ UpsertedBeside(n)'
<1>1. n \in DOMAIN txns' /\ txns'[n] = txns[n]
  BY DEF Grown
<1>2. ReplacedShown(n)'
  BY <1>1 DEF ReplacedShown, Grown
<1>3. UpsertedBeside(n)'
  <2>1. txns[n].since \in 0..clock => txns[n].since \in 0..clock'
    BY DEF ConflictInv, Shape, Grown
  <2> QED
    BY <1>1, <2>1, NoneBeforeStays DEF UpsertedBeside
<1> QED
  BY <1>2, <1>3

-----------------------------------------------------------------------------
(* The steps *)

\* A call that is c after the step knows what c knows then.
LEMMA CallKnows ==
  ASSUME NEW h, NEW c, call'[h] = c, Knows(c)'
  PROVE  Knows(call[h])'
  BY DEF Knows, RelateKnows, UpsertKnows, ReplaceKnows, UpdateKnows, Active, Live,
         NoneBefore, WrittenSince, Rekeyed

\* A step of one call, which is d after it.
LEMMA SeenStep ==
  ASSUME ConflictInv, SeenInv, Grown, NEW h \in Handlers, NEW d, Runs(h, d), Knows(d)',
         RowsLogged',
         \A cid \in DOMAIN conflicts' \ DOMAIN conflicts : ConflictKnown(cid)',
         \A n \in DOMAIN txns' \ DOMAIN txns : ReplacedShown(n)' /\ UpsertedBeside(n)'
  PROVE  SeenInv'
<1>1. ASSUME NEW g \in Handlers PROVE Knows(call[g])'
  <2>1. PICK c : c = call[g]
    OBVIOUS
  <2>2. Knows(c)'
    BY <2>1, KnowsStays DEF SeenInv
  <2>3. call'[g] = IF g = h THEN d ELSE c
    BY <2>1 DEF Runs, ConflictInv, Shape
  <2> QED
    BY <2>2, <2>3, CallKnows
<1>2. ASSUME NEW cid \in DOMAIN conflicts' PROVE ConflictKnown(cid)'
  BY ConflictKnownStays DEF SeenInv
<1>3. ASSUME NEW n \in DOMAIN txns' PROVE ReplacedShown(n)' /\ UpsertedBeside(n)'
  BY TxnKnownStays DEF SeenInv
<1> QED
  BY <1>1, <1>2, <1>3 DEF SeenInv

\* A call moves on to d and nothing is written.
LEMMA SeenCallMoves ==
  ASSUME ConflictInv, SeenInv, NEW h \in Handlers, NEW d, Knows(d), Runs(h, d),
         UNCHANGED <<clock, triples, txns, conflicts>>
  PROVE  SeenInv'
<1>1. Grown
  BY DEF Grown, ConflictInv, Shape, SeenInv, RowsLogged
<1>2. Knows(d)'
  BY <1>1, KnowsStays DEF SeenInv
<1>3. RowsLogged'
  BY DEF SeenInv, RowsLogged, Rekeyed
<1> QED
  BY <1>1, <1>2, <1>3, SeenStep

LEMMA IdleKnows ==
  ASSUME clock \in Nat
  PROVE  Knows(Idle)
  BY DEF Idle, Call, Knows, RelateKnows, UpsertKnows, ReplaceKnows, UpdateKnows, CallFields

LEMMA SeenCallEnds ==
  ASSUME ConflictInv, SeenInv, NEW h \in Handlers, Runs(h, Idle),
         UNCHANGED <<clock, triples, txns, conflicts>>
  PROVE  SeenInv'
<1>1. PICK d : d = Idle
  OBVIOUS
<1>2. Knows(d)
  BY <1>1, IdleKnows DEF ConflictInv, Shape, Knows, RelateKnows, UpsertKnows, ReplaceKnows,
         UpdateKnows
<1>3. Runs(h, d)
  BY <1>1
<1> QED
  BY <1>2, <1>3, SeenCallMoves

\* A create is called: relate found no contradiction, upsert no triple.
LEMMA SeenCreates ==
  ASSUME ConflictInv, SeenInv, NEW h \in Handlers, NEW tool, NEW fact, NEW cid,
         tool # "replace",
         tool = "relate" => Conflicting(fact) = {},
         tool = "upsert" => Active(fact.key) = {} /\ cid = 0,
         Creates(h, tool, fact, cid),
         UNCHANGED <<clock, triples, txns, conflicts>>
  PROVE  SeenInv'
<1>1. PICK d : d = Call("create", "read", tool, 0, fact, NoFact, cid)
  OBVIOUS
<1>2. /\ d.op = "create" /\ d.tool = tool /\ d.fact = fact /\ DOMAIN d = CallFields
      /\ d.since = IF cid = 0 THEN clock ELSE 0
  BY <1>1 DEF Call, CallFields
<1>3. clock \in Nat
  BY DEF ConflictInv, Shape
<1>4. RelateKnows(d)
  BY <1>2 DEF RelateKnows, Conflicting
<1>5. UpsertKnows(d)
  <2>1. ASSUME tool = "upsert" PROVE NoneBefore(d.since, d.fact.key)
    BY <2>1, <1>2 DEF SeenInv, RowsLogged, NoneBefore, Active, Live
  <2> QED
    BY <1>2, <2>1 DEF UpsertKnows
<1>6. Knows(d)
  BY <1>2, <1>3, <1>4, <1>5 DEF Knows, ReplaceKnows, UpdateKnows
<1>7. Runs(h, d)
  BY <1>1 DEF Creates
<1> QED
  BY <1>6, <1>7, SeenCallMoves

\* An update is called; its SELECT is still to come.
LEMMA SeenUpdates ==
  ASSUME ConflictInv, SeenInv, NEW h \in Handlers, NEW tool, NEW row, NEW fact, NEW cid,
         tool # "relate",
         tool = "replace" => cid \in DOMAIN conflicts /\ row = conflicts[cid].existing,
         Updates(h, tool, row, fact, cid),
         UNCHANGED <<clock, triples, txns, conflicts>>
  PROVE  SeenInv'
<1>1. PICK d : d = Call("update", "lookup", tool, row, fact, NoFact, cid)
  OBVIOUS
<1>2. /\ d.op = "update" /\ d.phase = "lookup" /\ d.tool = tool /\ d.row = row /\ d.cid = cid
      /\ DOMAIN d = CallFields /\ d.since = 0
  BY <1>1 DEF Call, CallFields
<1>3. clock \in Nat
  BY DEF ConflictInv, Shape
<1>4. Knows(d)
  BY <1>2, <1>3 DEF Knows, RelateKnows, UpsertKnows, ReplaceKnows, UpdateKnows
<1>5. Runs(h, d)
  BY <1>1 DEF Updates
<1> QED
  BY <1>4, <1>5, SeenCallMoves

LEMMA SeenDelete ==
  ASSUME ConflictInv, SeenInv, NEW h \in Handlers, NEW i, DeleteTriple(h, i)
  PROVE  SeenInv'
<1>1. PICK d : d = Call("delete", "read", "delete", i, FactOf(i), FactOf(i), 0)
  OBVIOUS
<1>2. /\ d.op = "delete" /\ d.tool = "delete"
      /\ DOMAIN d = CallFields /\ d.since = 0
  BY <1>1 DEF Call, CallFields
<1>3. clock \in Nat
  BY DEF ConflictInv, Shape
<1>4. Knows(d)
  BY <1>2, <1>3 DEF Knows, RelateKnows, UpsertKnows, ReplaceKnows, UpdateKnows
<1>5. Runs(h, d) /\ UNCHANGED <<clock, triples, txns, conflicts>>
  BY <1>1 DEF DeleteTriple
<1> QED
  BY <1>4, <1>5, SeenCallMoves

\* The SELECT of an update reads the row as it is.
LEMMA SeenUpdateRead ==
  ASSUME ConflictInv, SeenInv, NEW h \in Handlers, UpdateRead(h)
  PROVE  SeenInv'
<1>1. PICK c : c = call[h]
  OBVIOUS
<1>2. /\ c.op = "update" /\ c.phase = "lookup" /\ Knows(c)
      /\ UNCHANGED <<clock, triples, txns, conflicts>>
  BY <1>1 DEF UpdateRead, SeenInv, Knows, RelateKnows, UpsertKnows, ReplaceKnows, UpdateKnows
<1>3. CASE c.row \in Live
  <2>1. PICK key : key = IF c.tool = "update" THEN c.fact.key ELSE triples[c.row].key
    OBVIOUS
  <2>2. PICK d : d = [c EXCEPT !.phase = "read", !.before = FactOf(c.row),
                               !.fact.key = IF c.tool = "update" THEN @
                                            ELSE triples[c.row].key]
    OBVIOUS
  <2>3. Runs(h, d)
    BY <1>1, <1>3, <2>2 DEF UpdateRead
  <2>4. /\ DOMAIN d = CallFields /\ d.op = "update" /\ d.tool = c.tool /\ d.row = c.row
        /\ d.cid = c.cid /\ d.before = FactOf(c.row) /\ d.since = c.since
    BY <1>2, <2>2 DEF Knows, CallFields
  <2>5. RelateKnows(d) /\ UpsertKnows(d)
    BY <1>2, <2>4 DEF Knows, RelateKnows, UpsertKnows
  <2>6. ReplaceKnows(d)
    <3>1. ASSUME c.tool = "replace"
          PROVE  d.before = conflicts[d.cid].seen \/ WrittenSince(d.row, d.cid)
      <4>1. c.cid \in DOMAIN conflicts /\ c.row = conflicts[c.cid].existing
        BY <1>2, <3>1 DEF Knows, ReplaceKnows
      <4>2. ConflictKnown(c.cid)
        BY <4>1 DEF SeenInv
      <4> QED
        BY <2>4, <4>1, <4>2 DEF ConflictKnown
    <3> QED
      BY <1>2, <2>4, <3>1 DEF Knows, ReplaceKnows
  <2>7. UpdateKnows(d)
    BY <1>3, <2>4 DEF UpdateKnows, Live, FactOf, SeenInv, RowsLogged
  <2>8. Knows(d)
    BY <1>2, <2>4, <2>5, <2>6, <2>7 DEF Knows
  <2> QED
    BY <1>2, <2>3, <2>8, SeenCallMoves
<1>4. CASE c.row \notin Live
  BY <1>1, <1>2, <1>4, SeenCallEnds DEF UpdateRead
<1> QED
  BY <1>3, <1>4

\* A conflict is raised that shows the triple as it is.
LEMMA SeenConflicts ==
  ASSUME ConflictInv, SeenInv, NEW h \in Handlers, NEW fact, NEW i,
         RelateConflicts(h, fact, i)
  PROVE  SeenInv'
<1>1. /\ clock' = clock + 1 /\ clock \in Nat
      /\ UNCHANGED <<triples, txns, call>>
      /\ i \in DOMAIN triples
  BY DEF RelateConflicts, ConflictInv, Shape, Conflicting, Active, Live
<1>2. /\ DOMAIN conflicts' = DOMAIN conflicts \cup {clock + 1}
      /\ \A cid \in DOMAIN conflicts : conflicts'[cid] = conflicts[cid]
      /\ conflicts'[clock + 1].existing = i /\ conflicts'[clock + 1].seen = FactOf(i)
  <2>1. PICK info : info = [session |-> Session[h], existing |-> Named(fact, i),
                            incoming |-> fact, seen |-> FactOf(i)]
    OBVIOUS
  <2>2. info.existing = i /\ info.seen = FactOf(i)
    BY <2>1 DEF Named
  <2>3. conflicts' = With(conflicts, clock + 1, info)
    BY <2>1 DEF RelateConflicts
  <2>4. clock + 1 \notin DOMAIN conflicts
    BY DEF ConflictInv, Shape
  <2> QED
    BY <2>2, <2>3, <2>4 DEF With
<1>3. Grown
  BY <1>1, <1>2 DEF Grown, ConflictInv, Shape, SeenInv, RowsLogged
<1>4. RowsLogged'
  BY <1>1 DEF SeenInv, RowsLogged, Rekeyed
<1>6. ASSUME NEW cid \in DOMAIN conflicts' PROVE ConflictKnown(cid)'
  <2>1. CASE cid \in DOMAIN conflicts
    BY <1>3, <2>1, ConflictKnownStays DEF SeenInv
  <2>2. CASE cid = clock + 1
    BY <1>1, <1>2, <2>2 DEF ConflictKnown, FactOf
  <2> QED
    BY <1>2, <2>1, <2>2
<1>7. ASSUME NEW n \in DOMAIN txns' PROVE ReplacedShown(n)' /\ UpsertedBeside(n)'
  BY <1>1, <1>3, TxnKnownStays DEF SeenInv
<1>8. ASSUME NEW g \in Handlers PROVE Knows(call[g])'
  <2>1. PICK c : c = call[g]
    OBVIOUS
  <2>2. Knows(c)'
    BY <1>3, <2>1, KnowsStays DEF SeenInv
  <2> QED
    BY <1>1, <2>1, <2>2, CallKnows
<1> QED
  BY <1>4, <1>6, <1>7, <1>8 DEF SeenInv

-----------------------------------------------------------------------------
(* The batches *)

\* What a batch adds to the log.
LEMMA BatchLogs ==
  ASSUME ConflictInv, NEW h \in Handlers, NEW op, NEW row, NEW before, NEW after,
         Batch(h, op, row, before, after), NEW n, n = clock + 1
  PROVE  /\ clock \in Nat /\ clock' = n /\ conflicts' = conflicts
         /\ n \notin DOMAIN txns /\ DOMAIN txns' = DOMAIN txns \cup {n}
         /\ \A m \in DOMAIN txns : txns'[m] = txns[m]
         /\ txns'[n].op = op /\ txns'[n].tool = call[h].tool /\ txns'[n].row = row
         /\ txns'[n].before = before /\ txns'[n].after = after
         /\ txns'[n].cid = call[h].cid /\ txns'[n].since = call[h].since
<1>1. PICK t : t = [op |-> op, tool |-> call[h].tool, row |-> row, before |-> before,
                    after |-> after, cid |-> call[h].cid, since |-> call[h].since]
  OBVIOUS
<1>2. txns' = With(txns, n, t) /\ clock' = n /\ conflicts' = conflicts
  BY <1>1 DEF Batch
<1>3. clock \in Nat /\ n \notin DOMAIN txns
  BY DEF ConflictInv, Shape
<1>4. /\ DOMAIN txns' = DOMAIN txns \cup {n}
      /\ txns'[n] = t
      /\ \A m \in DOMAIN txns \ {n} : txns'[m] = txns[m]
  BY <1>2 DEF With
<1>5. /\ t.op = op /\ t.tool = call[h].tool /\ t.row = row /\ t.before = before
      /\ t.after = after /\ t.cid = call[h].cid /\ t.since = call[h].since
  BY <1>1
<1> QED
  BY <1>2, <1>3, <1>4, <1>5

\* The transaction that a batch of call c writes, when the call was right.
LEMMA BatchSeen ==
  ASSUME ConflictInv, SeenInv, NEW h \in Handlers, NEW op, NEW row, NEW before, NEW after,
         Batch(h, op, row, before, after), Grown, RowsLogged',
         call[h].tool = "replace" =>
             /\ call[h].cid \in DOMAIN conflicts
             /\ before = conflicts[call[h].cid].seen \/ WrittenSince(row, call[h].cid),
         call[h].tool = "upsert" /\ op = "CREATE" => UpsertKnows(call[h]) /\ call[h].op = "create"
             /\ after = call[h].fact
  PROVE  SeenInv'
<1>1. PICK c : c = call[h]
  OBVIOUS
<1>2. PICK n : n = clock + 1
  OBVIOUS
<1>3. /\ clock \in Nat /\ clock' = n /\ conflicts' = conflicts
      /\ n \notin DOMAIN txns /\ DOMAIN txns' = DOMAIN txns \cup {n}
      /\ \A m \in DOMAIN txns : txns'[m] = txns[m]
      /\ txns'[n].op = op /\ txns'[n].tool = c.tool /\ txns'[n].row = row
      /\ txns'[n].before = before /\ txns'[n].after = after /\ txns'[n].cid = c.cid
      /\ txns'[n].since = c.since
  BY <1>1, <1>2, BatchLogs
<1>4. DOMAIN txns \subseteq 1..clock
  BY DEF ConflictInv, Shape
<1>5. ReplacedShown(n)'
  <2>1. ASSUME c.tool = "replace", NEW m \in DOMAIN txns, m > c.cid, txns[m].row = row
        PROVE  c.cid < m /\ m < n /\ txns'[m].row = row /\ m \in DOMAIN txns'
    <3>1. m < n
      BY <1>2, <1>3, <1>4
    <3>2. c.cid \in Nat /\ m \in Nat
      BY <1>1, <1>4, <2>1 DEF ConflictInv, Shape
    <3> QED
      BY <1>3, <2>1, <3>1, <3>2
  <2>2. c.tool = "replace" =>
            /\ c.cid \in DOMAIN conflicts
            /\ before = conflicts[c.cid].seen
               \/ \E m \in DOMAIN txns : m > c.cid /\ txns[m].row = row
    BY <1>1 DEF WrittenSince
  <2> QED
    BY <1>3, <2>1, <2>2 DEF ReplacedShown
<1>6. UpsertedBeside(n)'
  <2>1. ASSUME c.tool = "upsert", op = "CREATE"
        PROVE  c.since \in 0..clock' /\ NoneBefore(c.since, after.key)'
    <3>1. c.since \in 0..clock
      BY <1>1 DEF SeenInv, Knows
    <3>2. NoneBefore(c.since, after.key)
      BY <1>1, <2>1 DEF UpsertKnows
    <3>3. NoneBefore(c.since, after.key)'
      BY <3>1, <3>2, NoneBeforeStays DEF SeenInv
    <3> QED
      BY <1>2, <1>3, <3>1, <3>3
  <2> QED
    BY <1>3, <2>1 DEF UpsertedBeside
<1>7. \A m \in DOMAIN txns' \ DOMAIN txns : m = n
  BY <1>3
<1>8. \A m \in DOMAIN txns' \ DOMAIN txns : ReplacedShown(m)' /\ UpsertedBeside(m)'
  BY <1>5, <1>6, <1>7 DEF ReplacedShown, UpsertedBeside, NoneBefore, Rekeyed
<1>9. PICK d : d = Idle
  OBVIOUS
<1>10. Knows(d)'
  <2>1. clock' \in Nat
    BY <1>2, <1>3
  <2> QED
    BY <1>9, <2>1
       DEF Idle, Call, CallFields, Knows, RelateKnows, UpsertKnows, ReplaceKnows, UpdateKnows
<1>11. Runs(h, d)
  BY <1>9 DEF Batch
<1> QED
  BY <1>3, <1>8, <1>10, <1>11, SeenStep

LEMMA SeenCommitCreate ==
  ASSUME ConflictInv, SeenInv, NEW h \in Handlers, CommitCreate(h)
  PROVE  SeenInv'
<1>1. PICK c : c = call[h]
  OBVIOUS
<1>2. PICK n : n = clock + 1
  OBVIOUS
<1>3. c.op = "create" /\ Batch(h, "CREATE", n, NoFact, c.fact)
  BY <1>1, <1>2 DEF CommitCreate
<1>4. /\ clock \in Nat /\ clock' = n /\ conflicts' = conflicts
      /\ n \notin DOMAIN txns /\ DOMAIN txns' = DOMAIN txns \cup {n}
      /\ \A m \in DOMAIN txns : txns'[m] = txns[m]
      /\ txns'[n].op = "CREATE" /\ txns'[n].row = n /\ txns'[n].after = c.fact
  BY <1>2, <1>3, BatchLogs
<1>5. DOMAIN txns \subseteq 1..clock /\ DOMAIN triples \subseteq DOMAIN txns
  BY DEF ConflictInv, Shape, SeenInv, RowsLogged
<1>6. /\ DOMAIN triples' = DOMAIN triples \cup {n}
      /\ \A i \in DOMAIN triples : triples'[i] = triples[i]
      /\ DOMAIN triples'[n] = {"key", "object", "deleted"}
      /\ triples'[n].key = c.fact.key
  <2>1. PICK row : row = [key |-> c.fact.key, object |-> c.fact.object, deleted |-> FALSE]
    OBVIOUS
  <2>2. triples' = With(triples, n, row)
    BY <1>1, <1>2, <2>1 DEF CommitCreate
  <2>3. DOMAIN row = {"key", "object", "deleted"} /\ row.key = c.fact.key
    BY <2>1
  <2>4. n \notin DOMAIN triples
    BY <1>4, <1>5
  <2> QED
    BY <2>2, <2>3, <2>4 DEF With
<1>7. Grown
  BY <1>2, <1>4, <1>5, <1>6 DEF Grown
<1>8. RowsLogged'
  <2>1. ASSUME NEW i \in DOMAIN triples
        PROVE  /\ DOMAIN triples'[i] = {"key", "object", "deleted"}
               /\ i \in DOMAIN txns' /\ txns'[i].op = "CREATE"
               /\ Rekeyed(i)' \/ triples'[i].key = txns'[i].after.key
    BY <1>4, <1>6, <1>7, RekeyedStays DEF SeenInv, RowsLogged
  <2> QED
    BY <1>4, <1>6, <2>1 DEF RowsLogged
<1>9. c.tool # "replace" /\ (c.tool = "upsert" => UpsertKnows(c))
  BY <1>1, <1>3 DEF SeenInv, Knows, ReplaceKnows
<1>10. c.tool = "upsert" => UpsertKnows(call[h])
  BY <1>1, <1>9
<1> QED
  BY <1>1, <1>3, <1>7, <1>8, <1>9, <1>10, BatchSeen

\* A batch that changes one row, or finds none.
LEMMA RowChanges ==
  ASSUME ConflictInv, SeenInv, NEW h \in Handlers, NEW op, NEW row, NEW before, NEW after,
         Batch(h, op, row, before, after)
  PROVE  (/\ DOMAIN triples' = DOMAIN triples
          /\ \A i \in DOMAIN triples : i # row => triples'[i] = triples[i]
          /\ row \in DOMAIN triples /\ triples[row].deleted => triples'[row].deleted) => Grown
<1>1. PICK n : n = clock + 1
  OBVIOUS
<1>2. /\ clock \in Nat /\ clock' = n /\ conflicts' = conflicts
      /\ n \notin DOMAIN txns /\ DOMAIN txns' = DOMAIN txns \cup {n}
      /\ \A m \in DOMAIN txns : txns'[m] = txns[m]
      /\ txns'[n].row = row
  BY <1>1, BatchLogs
<1>3. DOMAIN txns \subseteq 1..clock
  BY DEF ConflictInv, Shape
<1> HAVE /\ DOMAIN triples' = DOMAIN triples
         /\ \A i \in DOMAIN triples : i # row => triples'[i] = triples[i]
         /\ row \in DOMAIN triples /\ triples[row].deleted => triples'[row].deleted
<1>4. \A i \in DOMAIN triples : i \in DOMAIN triples' /\ (triples[i].deleted => triples'[i].deleted)
  OBVIOUS
<1>5. n \in DOMAIN txns' /\ n > clock
  BY <1>1, <1>2
<1>6. ASSUME NEW i \in DOMAIN triples'
      PROVE  \/ i \in DOMAIN triples /\ triples'[i] = triples[i]
             \/ \E m \in DOMAIN txns' : m > clock /\ txns'[m].row = i
  BY <1>2, <1>5
<1>7. clock' \in Nat /\ clock' >= clock /\ DOMAIN txns' \subseteq Nat
  BY <1>1, <1>2, <1>3
<1> QED
  BY <1>2, <1>4, <1>6, <1>7 DEF Grown

LEMMA SeenCommitUpdate ==
  ASSUME ConflictInv, SeenInv, NEW h \in Handlers, CommitUpdate(h)
  PROVE  SeenInv'
<1>1. PICK c : c = call[h]
  OBVIOUS
<1>2. PICK n : n = clock + 1
  OBVIOUS
<1>3. c.op = "update" /\ c.phase = "read" /\ Batch(h, "UPDATE", c.row, c.before, c.fact)
  BY <1>1 DEF CommitUpdate
<1>4. Knows(c)
  BY <1>1 DEF SeenInv, Knows, RelateKnows, UpsertKnows, ReplaceKnows, UpdateKnows
<1>5. /\ clock \in Nat /\ clock' = n /\ conflicts' = conflicts
      /\ n \notin DOMAIN txns /\ DOMAIN txns' = DOMAIN txns \cup {n}
      /\ \A m \in DOMAIN txns : txns'[m] = txns[m]
      /\ txns'[n].op = "UPDATE" /\ txns'[n].row = c.row
      /\ txns'[n].before = c.before /\ txns'[n].after = c.fact
  BY <1>2, <1>3, BatchLogs
<1>6. c.row \in DOMAIN triples /\ (Rekeyed(c.row) \/ c.before.key = txns[c.row].after.key)
  BY <1>3, <1>4 DEF Knows, UpdateKnows
<1>7. /\ DOMAIN triples' = DOMAIN triples
      /\ \A i \in DOMAIN triples : i # c.row => triples'[i] = triples[i]
      /\ DOMAIN triples'[c.row] = {"key", "object", "deleted"}
      /\ triples'[c.row].key = c.fact.key
      /\ triples'[c.row].deleted = triples[c.row].deleted
  <2>1. PICK row : row = [triples[c.row] EXCEPT !.key = c.fact.key, !.object = c.fact.object]
    OBVIOUS
  <2>2. DOMAIN triples[c.row] = {"key", "object", "deleted"}
    BY <1>6 DEF SeenInv, RowsLogged
  <2>3. /\ DOMAIN row = {"key", "object", "deleted"} /\ row.key = c.fact.key
        /\ row.deleted = triples[c.row].deleted
    BY <2>1, <2>2
  <2>4. triples' = [triples EXCEPT ![c.row].key = c.fact.key, ![c.row].object = c.fact.object]
    BY <1>1 DEF CommitUpdate
  <2>5. /\ DOMAIN triples' = DOMAIN triples
        /\ \A i \in DOMAIN triples : i # c.row => triples'[i] = triples[i]
        /\ triples'[c.row] = row
    BY <1>6, <2>1, <2>4
  <2> QED
    BY <2>3, <2>5
<1>8. Grown
  BY <1>3, <1>7, RowChanges
<1>9. RowsLogged'
  <2>1. ASSUME NEW i \in DOMAIN triples
        PROVE  /\ DOMAIN triples'[i] = {"key", "object", "deleted"}
               /\ i \in DOMAIN txns' /\ txns'[i].op = "CREATE"
    BY <1>5, <1>7 DEF SeenInv, RowsLogged
  <2>2. ASSUME NEW i \in DOMAIN triples, i # c.row
        PROVE  Rekeyed(i)' \/ triples'[i].key = txns'[i].after.key
    BY <1>5, <1>7, <1>8, <2>2, RekeyedStays DEF SeenInv, RowsLogged
  <2>3. Rekeyed(c.row)' \/ triples'[c.row].key = txns'[c.row].after.key
    <3>1. CASE Rekeyed(c.row)
      BY <1>8, <3>1, RekeyedStays
    <3>2. CASE c.before.key # c.fact.key
      BY <1>5, <3>2 DEF Rekeyed
    <3>3. CASE c.before.key = c.fact.key /\ c.before.key = txns[c.row].after.key
      BY <1>5, <1>6, <1>7, <3>3 DEF SeenInv, RowsLogged
    <3> QED
      BY <1>6, <3>1, <3>2, <3>3
  <2> QED
    BY <1>7, <2>1, <2>2, <2>3 DEF RowsLogged
<1>10. c.tool = "replace" =>
          /\ c.cid \in DOMAIN conflicts
          /\ c.before = conflicts[c.cid].seen \/ WrittenSince(c.row, c.cid)
  BY <1>3, <1>4 DEF Knows, ReplaceKnows
<1> QED
  BY <1>1, <1>3, <1>8, <1>9, <1>10, BatchSeen

LEMMA SeenCommitDelete ==
  ASSUME ConflictInv, SeenInv, NEW h \in Handlers, CommitDelete(h)
  PROVE  SeenInv'
<1>1. PICK c : c = call[h]
  OBVIOUS
<1>2. c.op = "delete" /\ Batch(h, "DELETE", c.row, c.before, NoFact)
  BY <1>1 DEF CommitDelete
<1>3. triples' = [triples EXCEPT ![c.row].deleted = TRUE]
  BY <1>1 DEF CommitDelete
<1>4. /\ DOMAIN triples' = DOMAIN triples
      /\ \A i \in DOMAIN triples : i # c.row => triples'[i] = triples[i]
      /\ c.row \in DOMAIN triples => triples'[c.row] = [triples[c.row] EXCEPT !.deleted = TRUE]
  BY <1>3
<1>5. ASSUME c.row \in DOMAIN triples
      PROVE  /\ DOMAIN triples'[c.row] = {"key", "object", "deleted"}
             /\ triples'[c.row].key = triples[c.row].key /\ triples'[c.row].deleted
  BY <1>4, <1>5 DEF SeenInv, RowsLogged
<1>6. Grown
  BY <1>2, <1>4, <1>5, RowChanges
<1>7. RowsLogged'
  <2>1. \A i \in DOMAIN triples : /\ DOMAIN triples'[i] = {"key", "object", "deleted"}
                                  /\ triples'[i].key = triples[i].key
    BY <1>4, <1>5 DEF SeenInv, RowsLogged
  <2>2. \A i \in DOMAIN txns : i \in DOMAIN txns' /\ txns'[i] = txns[i]
    BY <1>6 DEF Grown
  <2> QED
    BY <1>4, <1>6, <2>1, <2>2, RekeyedStays DEF SeenInv, RowsLogged
<1>8. c.tool # "replace"
  BY <1>1, <1>2 DEF SeenInv, Knows, ReplaceKnows
<1> QED
  BY <1>1, <1>2, <1>6, <1>7, <1>8, BatchSeen

\* Every step keeps what was seen.
LEMMA NextSeenInv == ConflictInv /\ SeenInv /\ [Next]_vars => SeenInv'
<1> SUFFICES ASSUME ConflictInv, SeenInv, [Next]_vars PROVE SeenInv'
  OBVIOUS
<1>1. ASSUME NEW h \in Handlers, NEW fact \in Fact, RelateAgrees(h, fact)
      PROVE  SeenInv'
  BY <1>1, SeenCreates DEF RelateAgrees
<1>2. ASSUME NEW h \in Handlers, NEW fact \in Fact, NEW i \in Live, RelateConflicts(h, fact, i)
      PROVE  SeenInv'
  BY <1>2, SeenConflicts
<1>3. ASSUME NEW h \in Handlers, NEW fact \in Fact, UpsertCreates(h, fact)
      PROVE  SeenInv'
  BY <1>3, SeenCreates DEF UpsertCreates, UpsertFinds
<1>4. ASSUME NEW h \in Handlers, NEW fact \in Fact, NEW i \in Live, UpsertUpdates(h, fact, i)
      PROVE  SeenInv'
  BY <1>4, SeenUpdates DEF UpsertUpdates
<1>5. ASSUME NEW h \in Handlers, NEW fact \in Fact, NEW i \in Live, UpdateTriple(h, i, fact)
      PROVE  SeenInv'
  BY <1>5, SeenUpdates DEF UpdateTriple
<1>6. ASSUME NEW h \in Handlers, NEW i \in Live, DeleteTriple(h, i)
      PROVE  SeenInv'
  BY <1>6, SeenDelete
<1>7. ASSUME NEW h \in Handlers, UpdateRead(h)
      PROVE  SeenInv'
  BY <1>7, SeenUpdateRead
<1>8. ASSUME UNCHANGED <<clock, triples, txns, conflicts, call>>
      PROVE  SeenInv'
  BY <1>8 DEF SeenInv, RowsLogged, Knows, RelateKnows, UpsertKnows, ReplaceKnows, UpdateKnows,
              ConflictKnown, ReplacedShown, UpsertedBeside, NoneBefore, Active, Live, FactOf,
              WrittenSince, Rekeyed
<1>9. ASSUME NEW h \in Handlers, NEW cid \in stored,
             ResolveExpired(h, cid) \/ ResolveReject(h, cid)
      PROVE  SeenInv'
  BY <1>8, <1>9 DEF ResolveExpired, ResolveReject
<1>10. ASSUME NEW h \in Handlers, NEW cid \in stored, ResolveReplace(h, cid)
       PROVE  SeenInv'
  <2>1. cid \in DOMAIN conflicts
    BY DEF ConflictInv, Drawn
  <2> QED
    BY <1>10, <2>1, SeenUpdates DEF ResolveReplace
<1>11. ASSUME NEW h \in Handlers, NEW cid \in stored, ResolveRetainBoth(h, cid)
       PROVE  SeenInv'
  BY <1>11, SeenCreates DEF ResolveRetainBoth
<1>12. ASSUME NEW h \in Handlers, CommitCreate(h) \/ CommitUpdate(h) \/ CommitDelete(h)
       PROVE  SeenInv'
  BY <1>12, SeenCommitCreate, SeenCommitUpdate, SeenCommitDelete
<1>13. ASSUME NEW h \in Handlers, Fail(h)
       PROVE  SeenInv'
  BY <1>13, SeenCallEnds DEF Fail
<1>14. ASSUME NEW cid \in stored, Age(cid)
       PROVE  SeenInv'
  BY <1>8, <1>14 DEF Age
<1>15. CASE UNCHANGED vars
  BY <1>8, <1>15 DEF vars
<1> QED
  BY <1>1, <1>2, <1>3, <1>4, <1>5, <1>6, <1>7, <1>9, <1>10, <1>11, <1>12, <1>13, <1>14, <1>15
     DEF Next

LEMMA SeenHolds == Spec => [](ConflictInv /\ SeenInv)
<1>1. Init => ConflictInv /\ SeenInv
  BY InitConflictInv, InitSeenInv
<1>2. ConflictInv /\ SeenInv /\ [Next]_vars => (ConflictInv /\ SeenInv)'
  BY NextConflictInv, NextSeenInv
<1> QED
  BY <1>1, <1>2, PTL DEF Spec

-----------------------------------------------------------------------------
\* A replace overwrites what the conflict showed (resolve_conflict, updateTriple
\* by id), or a triple that some transaction wrote after the conflict was raised,
\* for any number of sessions and handlers.
THEOREM ReplaceShowsTheTriple == Spec => []ReplacesWhatWasShown
<1>1. ConflictInv /\ SeenInv => ReplacesWhatWasShown
  <2> SUFFICES ASSUME ConflictInv, SeenInv, NEW n \in DOMAIN txns, txns[n].tool = "replace"
               PROVE  \/ txns[n].before = conflicts[txns[n].cid].seen
                      \/ \E m \in DOMAIN txns :
                             m \in txns[n].cid..(n - 1) /\ txns[m].row = txns[n].row
    BY DEF ReplacesWhatWasShown
  <2>1. ReplacedShown(n) /\ txns[n].cid \in DOMAIN conflicts
    BY DEF SeenInv, ReplacedShown
  <2>2. CASE txns[n].before = conflicts[txns[n].cid].seen
    BY <2>2
  <2>3. ASSUME NEW m \in DOMAIN txns, txns[n].cid < m, m < n, txns[m].row = txns[n].row
        PROVE  m \in txns[n].cid..(n - 1) /\ txns[m].row = txns[n].row
    <3>1. m \in Int /\ n \in Int /\ txns[n].cid \in Int
      BY <2>1 DEF ConflictInv, Shape
    <3> QED
      BY <2>3, <3>1
  <2> QED
    BY <2>1, <2>2, <2>3 DEF ReplacedShown
<1> QED
  BY <1>1, SeenHolds, PTL

\* upsert_triple creates no second triple of a key beside one that was there when
\* it looked (upsertTriple), whatever other calls relate, retain, delete, replace
\* or move meanwhile.
THEOREM UpsertCreatesAlone == Spec => []UpsertedOnce
<1>1. ConflictInv /\ SeenInv => UpsertedOnce
  <2> SUFFICES ASSUME ConflictInv, SeenInv, NEW i \in Live, NEW j \in Live,
                      triples[i].key = triples[j].key, txns[j].tool = "upsert",
                      ~Rekeyed(i), ~Rekeyed(j)
               PROVE  i > txns[j].since
    BY DEF UpsertedOnce, CreatedBy
  <2>1. /\ i \in DOMAIN triples /\ j \in DOMAIN triples /\ ~triples[i].deleted
        /\ i \in DOMAIN txns /\ j \in DOMAIN txns /\ txns[j].op = "CREATE"
        /\ triples[i].key = txns[i].after.key /\ triples[j].key = txns[j].after.key
    BY DEF Live, SeenInv, RowsLogged
  <2>2. txns[j].since \in 0..clock /\ NoneBefore(txns[j].since, txns[j].after.key)
    BY <2>1 DEF SeenInv, UpsertedBeside
  <2>3. ~(i <= txns[j].since)
    BY <2>1, <2>2 DEF NoneBefore
  <2>4. i \in Int /\ txns[j].since \in Int
    BY <2>1, <2>2 DEF ConflictInv, Shape
  <2> QED
    BY <2>3, <2>4
<1> QED
  BY <1>1, SeenHolds, PTL

\* A batch of any other kind writes no transaction of relate.
LEMMA OthersCommit ==
  ASSUME ConflictInv, SeenInv, NEW h \in Handlers, CommitUpdate(h) \/ CommitDelete(h)
  PROVE  \A n \in DOMAIN txns' \ DOMAIN txns : txns'[n].tool # "relate"
<1>1. call[h].op # "create"
  BY DEF CommitUpdate, CommitDelete
<1>2. call[h].tool # "relate"
  BY <1>1 DEF SeenInv, Knows, RelateKnows
<1>3. PICK op, row, before, after : Batch(h, op, row, before, after)
  BY DEF CommitUpdate, CommitDelete
<1>4. PICK k : k = clock + 1
  OBVIOUS
<1>5. DOMAIN txns' = DOMAIN txns \cup {k} /\ txns'[k].tool = call[h].tool
  BY <1>3, <1>4, BatchLogs
<1> QED
  BY <1>2, <1>5

\* The transaction that a batch of relate writes contradicts no triple that the
\* call could see.
LEMMA RelateCommits ==
  ASSUME ConflictInv, SeenInv, NEW h \in Handlers, CommitCreate(h)
  PROVE  \A n \in DOMAIN txns' \ DOMAIN txns :
             txns'[n].tool = "relate" => UncontradictedAsSeen(n)'
<1>1. PICK c : c = call[h]
  OBVIOUS
<1>2. PICK k : k = clock + 1
  OBVIOUS
<1>3. c.op = "create" /\ Batch(h, "CREATE", k, NoFact, c.fact)
  BY <1>1, <1>2 DEF CommitCreate
<1>4. /\ clock \in Nat /\ DOMAIN txns' = DOMAIN txns \cup {k}
      /\ \A m \in DOMAIN txns : txns'[m] = txns[m]
      /\ txns'[k].tool = c.tool /\ txns'[k].after = c.fact /\ txns'[k].since = c.since
  BY <1>1, <1>2, <1>3, BatchLogs
<1> SUFFICES ASSUME NEW n \in DOMAIN txns' \ DOMAIN txns, txns'[n].tool = "relate"
             PROVE  UncontradictedAsSeen(n)'
  OBVIOUS
<1>5. n = k /\ c.tool = "relate"
  BY <1>4
<1>6. \A i \in Active(c.fact.key) : triples[i].object = c.fact.object \/ WrittenSince(i, c.since)
  BY <1>1, <1>5 DEF SeenInv, Knows, RelateKnows
<1>7. /\ DOMAIN triples' = DOMAIN triples \cup {k}
      /\ \A i \in DOMAIN triples \ {k} : triples'[i] = triples[i]
      /\ triples'[k].object = c.fact.object
  BY <1>1, <1>2 DEF CommitCreate, With
<1>8. ASSUME NEW i \in Active(c.fact.key)'
      PROVE  triples'[i].object = c.fact.object \/ WrittenSince(i, c.since)'
  <2>1. i \in DOMAIN triples' /\ triples'[i].key = c.fact.key /\ ~triples'[i].deleted
    BY <1>8 DEF Active, Live
  <2>2. CASE i = k
    BY <1>7, <2>2
  <2>3. CASE i # k
    <3>1. i \in Active(c.fact.key) /\ triples'[i] = triples[i]
      BY <1>7, <2>1, <2>3 DEF Active, Live
    <3>2. WrittenSince(i, c.since) => WrittenSince(i, c.since)'
      BY <1>4 DEF WrittenSince
    <3> QED
      BY <1>6, <3>1, <3>2
  <2> QED
    BY <2>2, <2>3
<1> QED
  BY <1>4, <1>5, <1>8 DEF UncontradictedAsSeen

\* README, Conflict detection: when relate creates a triple, no live triple of its
\* subject and predicate has another object but by a transaction committed
\* after detectConflict looked, however the handlers of all sessions interleave.
THEOREM RelateContradictsNothingSeen == Spec => RelateNeverContradicts
<1> DEFINE New == \A n \in DOMAIN txns' \ DOMAIN txns :
                     txns'[n].tool = "relate" => UncontradictedAsSeen(n)'
<1>1. ConflictInv /\ SeenInv /\ [Next]_vars => [New]_vars
  <2> SUFFICES ASSUME ConflictInv, SeenInv, Next, NEW n \in DOMAIN txns' \ DOMAIN txns,
                      txns'[n].tool = "relate"
               PROVE  UncontradictedAsSeen(n)'
    OBVIOUS
  <2>1. txns' # txns
    OBVIOUS
  <2>2. PICK h \in Handlers : CommitCreate(h) \/ CommitUpdate(h) \/ CommitDelete(h)
    BY <2>1 DEF Next, RelateAgrees, RelateConflicts, UpsertCreates, UpsertUpdates, UpdateTriple,
                DeleteTriple, UpdateRead, ResolveExpired, ResolveReject, ResolveReplace,
                ResolveRetainBoth, Fail, Age
  <2>3. CASE CommitCreate(h)
    BY <2>3, RelateCommits
  <2>4. CASE CommitUpdate(h) \/ CommitDelete(h)
    BY <2>4, OthersCommit
  <2> QED
    BY <2>2, <2>3, <2>4
<1> QED
  BY <1>1, SeenHolds, PTL DEF Spec, RelateNeverContradicts
=============================================================================
