-------------------------- MODULE RecordStoreProofs --------------------------
(***************************************************************************)
(* What is proved of RecordStore for every number of handlers, columns,    *)
(* values, stamps and transactions: first what holds however calls         *)
(* interleave, then that undo is exact when they run one after the other.  *)
(***************************************************************************)
EXTENDS RecordStore, TLAPS

-----------------------------------------------------------------------------
(* The invariant of interleaved calls *)

\* What a call in flight knows of the log: its stamp is not in it yet, and an
\* undo holds transactions of the log that are older than its stamp.
CallOK(h) ==
    LET c == call[h] IN
    /\ c.phase = "sent" => c.stamp \in 1..clock /\ c.stamp \notin DOMAIN txns
    /\ c.op = "CREATE" => c.row = c.stamp /\ c.phase = "sent" /\ c.after \in Image
    /\ c.op = "UPDATE" => c.row \in 1..clock /\ c.before \in Image /\ c.after \in Image
    /\ c.op = "DELETE" => c.row \in 1..clock
    /\ c.op = "UNDO" => \A n \in c.todo :
           /\ n \in DOMAIN txns /\ txns[n].op # "REVERT"
           /\ c.phase = "sent" => n < c.stamp

\* No two calls drew the same stamp.
StampsDiffer ==
    \A g, h \in Handlers :
        (g # h /\ call[g].phase = "sent" /\ call[h].phase = "sent")
            => call[g].stamp # call[h].stamp

\* Every UPDATE recorded the image it replaced.
UpdatesRecorded ==
    \A n \in DOMAIN txns : txns[n].op = "UPDATE" => txns[n].before \in Image

CallInv == (\A h \in Handlers : CallOK(h)) /\ StampsDiffer /\ UpdatesRecorded

StoreInv == TypeOK /\ CallInv

\* The state of a running call is a call.
LEMMA RunningIsACall ==
  ASSUME NEW op \in {"none", "CREATE", "UPDATE", "DELETE", "UNDO"},
         NEW phase \in {"idle", "read", "sent"}, NEW row \in Nat,
         NEW before \in Snapshot, NEW after \in Snapshot, NEW stamp \in Nat,
         NEW todo \in SUBSET Nat
  PROVE  Running(op, phase, row, before, after, stamp, todo) \in Call
  BY DEF Running, Call

\* So is that of a handler with no call.
LEMMA IdleIsACall == Idle \in Call
  BY RunningIsACall DEF Idle, Snapshot

\* A patched image is an image.
LEMMA PatchedIsAnImage ==
  ASSUME NEW image \in Image, NEW patch \in Patches
  PROVE  Patched(image, patch) \in Image
<1>1. PICK S \in SUBSET Columns : patch \in [S -> Values]
  BY DEF Patches
<1> QED
  BY <1>1 DEF Patched, Image

\* An INSERT into the log adds one transaction and keeps the others.
LEMMA LoggedFacts ==
  ASSUME NEW n, NEW op, NEW r, NEW before, NEW after
  PROVE  LET log == Logged(txns, n, op, r, before, after) IN
         /\ DOMAIN log = DOMAIN txns \cup {n}
         /\ log[n] = [op |-> op, row |-> r, before |-> before, after |-> after,
                      reverted_by |-> 0]
         /\ \A m \in DOMAIN txns \ {n} : log[m] = txns[m]
  BY DEF Logged

\* A REVERT batch adds the REVERT and marks the transaction it reverts.
LEMMA RevertedFacts ==
  ASSUME NEW n \in DOMAIN txns, NEW s \in Nat, s \notin DOMAIN txns, txns[n] \in Txn
  PROVE  LET log == MarkReverted(LoggedRevert(txns, n, s), n, s) IN
         /\ DOMAIN log = DOMAIN txns \cup {s}
         /\ log[s] = [op |-> "REVERT", row |-> txns[n].row, before |-> txns[n].after,
                      after |-> txns[n].before, reverted_by |-> 0]
         /\ log[n] = [op |-> txns[n].op, row |-> txns[n].row, before |-> txns[n].before,
                      after |-> txns[n].after, reverted_by |-> s]
         /\ \A m \in DOMAIN txns \ {n, s} : log[m] = txns[m]
<1> DEFINE new == LoggedRevert(txns, n, s)
<1>1. /\ DOMAIN new = DOMAIN txns \cup {s}
      /\ new[s] = [op |-> "REVERT", row |-> txns[n].row, before |-> txns[n].after,
                   after |-> txns[n].before, reverted_by |-> 0]
      /\ \A m \in DOMAIN txns \ {s} : new[m] = txns[m]
  BY DEF LoggedRevert, Logged
<1>2. n # s /\ new[n] = txns[n]
  BY <1>1
<1>3. [txns[n] EXCEPT !.reverted_by = s] =
        [op |-> txns[n].op, row |-> txns[n].row, before |-> txns[n].before,
         after |-> txns[n].after, reverted_by |-> s]
  BY DEF Txn
<1>4. MarkReverted(new, n, s) = [new EXCEPT ![n] = [txns[n] EXCEPT !.reverted_by = s]]
  BY <1>2 DEF MarkReverted
<1> HIDE DEF new
<1> QED
  BY <1>1, <1>2, <1>3, <1>4 DEF new

\* The empty store satisfies the invariant.
LEMMA InitInv == Init => StoreInv
<1> SUFFICES ASSUME Init PROVE StoreInv
  OBVIOUS
<1>1. TypeOK
  BY IdleIsACall DEF Init, TypeOK
<1>2. CallInv
  BY DEF Init, CallInv, CallOK, StampsDiffer, UpdatesRecorded, Idle, Running
<1> QED
  BY <1>1, <1>2 DEF StoreInv

\* Every step keeps the type invariant: one case per action.
LEMMA NextType ==
  ASSUME StoreInv, [Next]_vars
  PROVE  TypeOK'
<1> USE DEF StoreInv, TypeOK
<1>1. ASSUME NEW h \in Handlers, NEW image \in Image, BeginCreate(h, image)
      PROVE  TypeOK'
  <2>1. Running("CREATE", "sent", clock + 1, NULL, image, clock + 1, {}) \in Call
    <3>1. clock + 1 \in Nat /\ NULL \in Snapshot /\ image \in Snapshot
      BY DEF Snapshot
    <3> QED
      BY <3>1, RunningIsACall
  <2> QED
    BY <1>1, <2>1 DEF BeginCreate
<1>2. ASSUME NEW h \in Handlers, NEW r \in DOMAIN rows, NEW patch \in Patches,
             BeginUpdate(h, r, patch)
      PROVE  TypeOK'
  <2>1. r \in Nat /\ rows[r].image \in Image
    BY DEF Row
  <2>2. Running("UPDATE", "read", r, rows[r].image,
                Patched(rows[r].image, patch), 0, {}) \in Call
    BY <2>1, RunningIsACall, PatchedIsAnImage DEF Snapshot
  <2> QED
    BY <1>2, <2>2 DEF BeginUpdate
<1>3. ASSUME NEW h \in Handlers, NEW r \in DOMAIN rows, BeginDelete(h, r)
      PROVE  TypeOK'
  <2>1. r \in Nat /\ rows[r].image \in Image
    BY DEF Row
  <2>2. Running("DELETE", "read", r, rows[r].image, NULL, 0, {}) \in Call
    BY <2>1, RunningIsACall DEF Snapshot
  <2> QED
    BY <1>3, <2>2 DEF BeginDelete
<1>4. ASSUME NEW h \in Handlers, NEW T \in SUBSET Undoable, BeginUndo(h, T)
      PROVE  TypeOK'
  <2>1. T \in SUBSET Nat
    BY DEF Undoable
  <2>2. Running("UNDO", "read", 0, NULL, NULL, 0, T) \in Call
    BY <2>1, RunningIsACall DEF Snapshot
  <2> QED
    BY <1>4, <2>2 DEF BeginUndo
<1>5. ASSUME NEW h \in Handlers, Send(h)
      PROVE  TypeOK'
  <2>1. [call[h] EXCEPT !.phase = "sent", !.stamp = clock + 1] \in Call
    <3>1. call[h] \in Call /\ clock + 1 \in Nat
      OBVIOUS
    <3> QED
      BY <3>1 DEF Call
  <2> QED
    BY <1>5, <2>1 DEF Send
<1>6. ASSUME NEW h \in Handlers, Fail(h)
      PROVE  TypeOK'
  BY <1>6, IdleIsACall DEF Fail
<1>7. ASSUME NEW h \in Handlers, CommitCreate(h)
      PROVE  TypeOK'
  BY <1>7, IdleIsACall DEF CommitCreate, LogCall, Logged, Call, Txn, Row, CallInv, CallOK
<1>8. ASSUME NEW h \in Handlers, CommitUpdate(h)
      PROVE  TypeOK'
  BY <1>8, IdleIsACall DEF CommitUpdate, LogCall, Logged, Call, Txn, Row, CallInv, CallOK
<1>9. ASSUME NEW h \in Handlers, CommitDelete(h)
      PROVE  TypeOK'
  BY <1>9, IdleIsACall DEF CommitDelete, LogCall, Logged, Call, Txn, Row, CallInv, CallOK
<1>10. ASSUME NEW h \in Handlers, NEW n \in call[h].todo, CommitRevert(h, n)
      PROVE  TypeOK'
  <2> DEFINE c == call[h]
             t == txns[n]
             s == c.stamp
  <2>1. /\ c \in Call /\ s \in 1..clock /\ s \notin DOMAIN txns
        /\ n \in DOMAIN txns /\ t \in Txn /\ t.op # "REVERT"
        /\ t.op = "UPDATE" => t.before \in Image
    BY <1>10 DEF CommitRevert, CallInv, CallOK, UpdatesRecorded
  <2>2. call' \in [Handlers -> Call]
    <3>1. [c EXCEPT !.phase = "read", !.stamp = 0, !.todo = c.todo \ {n}] \in Call
      BY <2>1 DEF Call
    <3> QED
      BY <3>1, <1>10, IdleIsACall DEF CommitRevert
  <2>3. DOMAIN txns' \subseteq 1..clock /\ \A m \in DOMAIN txns' : txns'[m] \in Txn
    <3>1. /\ DOMAIN txns' = DOMAIN txns \cup {s}
          /\ txns'[s] = [op |-> "REVERT", row |-> t.row, before |-> t.after,
                         after |-> t.before, reverted_by |-> 0]
          /\ txns'[n] = [op |-> t.op, row |-> t.row, before |-> t.before,
                         after |-> t.after, reverted_by |-> s]
          /\ \A m \in DOMAIN txns \ {n, s} : txns'[m] = txns[m]
      <4>1. txns' = MarkReverted(LoggedRevert(txns, n, s), n, s)
        BY <1>10 DEF CommitRevert
      <4> QED
        BY <2>1, <4>1, RevertedFacts
    <3>2. txns'[s] \in Txn /\ txns'[n] \in Txn
      BY <2>1, <3>1 DEF Txn
    <3> QED
      BY <2>1, <3>1, <3>2
  <2>4. DOMAIN rows' = DOMAIN rows /\ \A r \in DOMAIN rows : rows'[r] \in Row
    <3>1. rows' = [rows EXCEPT ![t.row] = Restored(rows[t.row], t)]
      BY <1>10 DEF CommitRevert
    <3>2. ASSUME t.row \in DOMAIN rows PROVE Restored(rows[t.row], t) \in Row
      BY <2>1, <3>2 DEF Restored, Row, Txn
    <3> QED
      BY <3>1, <3>2
  <2> QED
    BY <1>10, <2>2, <2>3, <2>4 DEF CommitRevert
<1>11. CASE UNCHANGED vars
  BY <1>11 DEF vars
<1> QED
  BY <1>1, <1>2, <1>3, <1>4, <1>5, <1>6, <1>7, <1>8, <1>9, <1>10, <1>11 DEF Next

\* A call that begins, takes its stamp or ends without a batch keeps the call
\* invariant if it keeps its own part and its stamp is new.
LEMMA CallStepKeepsCallInv ==
  ASSUME StoreInv, NEW h \in Handlers, UNCHANGED <<rows, txns>>,
         clock' \in {clock, clock + 1},
         NEW c, call' = [call EXCEPT ![h] = c],
         c.phase = "sent" => c.stamp = clock' /\ clock' = clock + 1,
         CallOK(h)'
  PROVE  CallInv'
<1>1. ASSUME NEW g \in Handlers, g # h PROVE CallOK(g)' /\ call'[g] = call[g]
  BY <1>1 DEF StoreInv, TypeOK, CallInv, CallOK
<1>2. call'[h] = c
  BY DEF StoreInv, TypeOK
<1>3. StampsDiffer'
  <2>1. ASSUME NEW g \in Handlers, g # h, call'[g].phase = "sent"
        PROVE  call'[g].stamp \in 1..clock
    BY <1>1, <2>1 DEF StoreInv, CallInv, CallOK
  <2>2. ASSUME NEW g \in Handlers, NEW k \in Handlers, g # h, k # h, g # k,
               call'[g].phase = "sent", call'[k].phase = "sent"
        PROVE  call'[g].stamp # call'[k].stamp
    BY <1>1, <2>2 DEF StoreInv, CallInv, StampsDiffer
  <2>3. clock \in Nat
    BY DEF StoreInv, TypeOK
  <2> QED
    BY <1>2, <2>1, <2>2, <2>3 DEF StampsDiffer
<1>4. UpdatesRecorded'
  BY DEF StoreInv, CallInv, UpdatesRecorded
<1> QED
  BY <1>1, <1>3, <1>4 DEF CallInv

\* So does a batch, which adds the stamp of its call to the log.
LEMMA BatchKeepsCallInv ==
  ASSUME StoreInv, NEW h \in Handlers, call[h].phase = "sent", clock' = clock,
         NEW c, call' = [call EXCEPT ![h] = c], c.phase # "sent",
         DOMAIN txns' = DOMAIN txns \cup {call[h].stamp},
         \A m \in DOMAIN txns : txns'[m].op = txns[m].op /\ txns'[m].before = txns[m].before,
         txns'[call[h].stamp].op = "UPDATE" => txns'[call[h].stamp].before \in Image,
         CallOK(h)'
  PROVE  CallInv'
<1>1. ASSUME NEW g \in Handlers, g # h PROVE call'[g] = call[g]
  BY <1>1 DEF StoreInv, TypeOK
<1>2. call'[h] = c
  BY DEF StoreInv, TypeOK
<1>3. ASSUME NEW g \in Handlers, g # h PROVE CallOK(g)'
  <2>1. call[g].phase = "sent" => call[g].stamp \notin DOMAIN txns'
    BY <1>3 DEF StoreInv, CallInv, CallOK, StampsDiffer
  <2>2. CallOK(g)
    BY DEF StoreInv, CallInv
  <2> QED
    BY <1>1, <1>3, <2>1, <2>2 DEF CallOK
<1>4. StampsDiffer'
  BY <1>1, <1>2 DEF StoreInv, CallInv, StampsDiffer
<1>5. UpdatesRecorded'
  BY DEF StoreInv, CallInv, UpdatesRecorded
<1> QED
  BY <1>3, <1>4, <1>5 DEF CallInv

\* Every step keeps the call invariant: one case per action.
LEMMA NextCallInv ==
  ASSUME StoreInv, [Next]_vars
  PROVE  CallInv'
<1>1. clock \in Nat /\ call \in [Handlers -> Call]
  BY DEF StoreInv, TypeOK
<1>2. ASSUME NEW h \in Handlers, NEW image \in Image, BeginCreate(h, image)
      PROVE  CallInv'
  <2> DEFINE c == Running("CREATE", "sent", clock + 1, NULL, image, clock + 1, {})
  <2>1. /\ UNCHANGED <<rows, txns>> /\ clock' = clock + 1
        /\ call' = [call EXCEPT ![h] = c] /\ call'[h] = c
    BY <1>1, <1>2 DEF BeginCreate
  <2>2. c.phase = "sent" /\ c.op = "CREATE" /\ c.row = clock + 1 /\ c.after = image
        /\ c.stamp = clock + 1
    BY DEF Running
  <2>3. CallOK(h)'
    BY <1>1, <2>1, <2>2 DEF CallOK, StoreInv, TypeOK
  <2> QED
    BY <2>1, <2>2, <2>3, CallStepKeepsCallInv
<1>3. ASSUME NEW h \in Handlers, NEW r \in DOMAIN rows, NEW patch \in Patches,
             BeginUpdate(h, r, patch)
      PROVE  CallInv'
  <2> DEFINE c == Running("UPDATE", "read", r, rows[r].image,
                          Patched(rows[r].image, patch), 0, {})
  <2>1. /\ UNCHANGED <<rows, txns>> /\ clock' = clock
        /\ call' = [call EXCEPT ![h] = c] /\ call'[h] = c
    BY <1>1, <1>3 DEF BeginUpdate
  <2>2. c.phase = "read" /\ c.op = "UPDATE" /\ c.row = r /\ c.before = rows[r].image
        /\ c.after = Patched(rows[r].image, patch)
    BY DEF Running
  <2>3. r \in 1..clock /\ rows[r].image \in Image /\ Patched(rows[r].image, patch) \in Image
    BY PatchedIsAnImage DEF StoreInv, TypeOK, Row
  <2>4. CallOK(h)'
    BY <2>1, <2>2, <2>3 DEF CallOK
  <2> QED
    BY <2>1, <2>2, <2>4, CallStepKeepsCallInv
<1>4. ASSUME NEW h \in Handlers, NEW r \in DOMAIN rows, BeginDelete(h, r)
      PROVE  CallInv'
  <2> DEFINE c == Running("DELETE", "read", r, rows[r].image, NULL, 0, {})
  <2>1. /\ UNCHANGED <<rows, txns>> /\ clock' = clock
        /\ call' = [call EXCEPT ![h] = c] /\ call'[h] = c
    BY <1>1, <1>4 DEF BeginDelete
  <2>2. c.phase = "read" /\ c.op = "DELETE" /\ c.row = r
    BY DEF Running
  <2>3. CallOK(h)'
    BY <2>1, <2>2 DEF CallOK, StoreInv, TypeOK
  <2> QED
    BY <2>1, <2>2, <2>3, CallStepKeepsCallInv
<1>5. ASSUME NEW h \in Handlers, NEW T \in SUBSET Undoable, BeginUndo(h, T)
      PROVE  CallInv'
  <2> DEFINE c == Running("UNDO", "read", 0, NULL, NULL, 0, T)
  <2>1. /\ UNCHANGED <<rows, txns>> /\ clock' = clock
        /\ call' = [call EXCEPT ![h] = c] /\ call'[h] = c
    BY <1>1, <1>5 DEF BeginUndo
  <2>2. c.phase = "read" /\ c.op = "UNDO" /\ c.todo = T
    BY DEF Running
  <2>3. CallOK(h)'
    BY <2>1, <2>2 DEF CallOK, Undoable
  <2> QED
    BY <2>1, <2>2, <2>3, CallStepKeepsCallInv
<1>6. ASSUME NEW h \in Handlers, Send(h)
      PROVE  CallInv'
  <2> DEFINE c == [call[h] EXCEPT !.phase = "sent", !.stamp = clock + 1]
  <2>1. /\ UNCHANGED <<rows, txns>> /\ clock' = clock + 1
        /\ call' = [call EXCEPT ![h] = c] /\ call'[h] = c
        /\ call[h].phase = "read"
    BY <1>1, <1>6 DEF Send
  <2>2. /\ c.phase = "sent" /\ c.stamp = clock + 1 /\ c.op = call[h].op
        /\ c.row = call[h].row /\ c.before = call[h].before /\ c.after = call[h].after
        /\ c.todo = call[h].todo
    BY <1>1 DEF Call
  <2>3. CallOK(h) /\ DOMAIN txns \subseteq 1..clock
    BY DEF StoreInv, CallInv, TypeOK
  <2>4. CallOK(h)'
    <3> HIDE DEF c
    <3> QED
      BY <1>1, <2>1, <2>2, <2>3 DEF CallOK
  <2> QED
    BY <2>1, <2>2, <2>4, CallStepKeepsCallInv
<1>7. ASSUME NEW h \in Handlers, Fail(h)
      PROVE  CallInv'
  <2>1. /\ UNCHANGED <<rows, txns>> /\ clock' = clock
        /\ call' = [call EXCEPT ![h] = Idle] /\ call'[h] = Idle
    BY <1>1, <1>7 DEF Fail
  <2>2. Idle.phase = "idle" /\ Idle.op = "none"
    BY DEF Idle, Running
  <2>3. CallOK(h)'
    BY <2>1, <2>2 DEF CallOK
  <2> QED
    BY <2>1, <2>2, <2>3, CallStepKeepsCallInv
<1>8. ASSUME NEW h \in Handlers, CommitCreate(h) \/ CommitUpdate(h) \/ CommitDelete(h)
      PROVE  CallInv'
  <2> DEFINE c == call[h]
  <2>1. /\ c.phase = "sent" /\ c.op \in {"CREATE", "UPDATE", "DELETE"} /\ clock' = clock
        /\ call' = [call EXCEPT ![h] = Idle] /\ call'[h] = Idle
        /\ txns' = Logged(txns, c.stamp, c.op, c.row, c.before, c.after)
    BY <1>1, <1>8 DEF CommitCreate, CommitUpdate, CommitDelete, LogCall
  <2>2. CallOK(h)
    BY DEF StoreInv, CallInv
  <2>3. /\ DOMAIN txns' = DOMAIN txns \cup {c.stamp}
        /\ \A m \in DOMAIN txns : txns'[m] = txns[m]
        /\ txns'[c.stamp].op = c.op /\ txns'[c.stamp].before = c.before
    BY <2>1, <2>2 DEF Logged, CallOK
  <2>4. Idle.phase = "idle" /\ Idle.op = "none"
    BY DEF Idle, Running
  <2>5. CallOK(h)'
    BY <2>1, <2>4 DEF CallOK
  <2>6. txns'[c.stamp].op = "UPDATE" => txns'[c.stamp].before \in Image
    BY <2>2, <2>3 DEF CallOK
  <2> QED
    BY <2>1, <2>3, <2>4, <2>5, <2>6, BatchKeepsCallInv
<1>9. ASSUME NEW h \in Handlers, NEW n \in call[h].todo, CommitRevert(h, n)
      PROVE  CallInv'
  <2> DEFINE c == call[h]
             s == c.stamp
             d == IF c.todo = {n} THEN Idle
                  ELSE [c EXCEPT !.phase = "read", !.stamp = 0, !.todo = c.todo \ {n}]
  <2>1. /\ c.phase = "sent" /\ c.op = "UNDO" /\ clock' = clock
        /\ call' = [call EXCEPT ![h] = d] /\ call'[h] = d
        /\ txns' = MarkReverted(LoggedRevert(txns, n, s), n, s)
    BY <1>1, <1>9 DEF CommitRevert
  <2>2. CallOK(h) /\ c \in Call /\ \A m \in DOMAIN txns : txns[m] \in Txn
    BY <1>1 DEF StoreInv, CallInv, TypeOK
  <2>3. /\ n \in DOMAIN txns /\ txns[n].op # "REVERT"
        /\ s \in Nat /\ s \notin DOMAIN txns
    BY <1>1, <2>1, <2>2 DEF CallOK
  <2>4. /\ DOMAIN txns' = DOMAIN txns \cup {s}
        /\ txns'[s].op = "REVERT"
        /\ \A m \in DOMAIN txns : txns'[m].op = txns[m].op /\ txns'[m].before = txns[m].before
    <3>1. /\ DOMAIN txns' = DOMAIN txns \cup {s}
          /\ txns'[s] = [op |-> "REVERT", row |-> txns[n].row, before |-> txns[n].after,
                         after |-> txns[n].before, reverted_by |-> 0]
          /\ txns'[n] = [op |-> txns[n].op, row |-> txns[n].row,
                         before |-> txns[n].before, after |-> txns[n].after,
                         reverted_by |-> s]
          /\ \A m \in DOMAIN txns \ {n, s} : txns'[m] = txns[m]
      BY <2>1, <2>2, <2>3, RevertedFacts
    <3> QED
      BY <2>3, <3>1
  <2>5. CASE c.todo = {n}
    <3>1. d = Idle /\ Idle.phase = "idle" /\ Idle.op = "none"
      BY <2>5 DEF Idle, Running
    <3>2. CallOK(h)'
      BY <2>1, <3>1 DEF CallOK
    <3> HIDE DEF d
    <3> QED
      BY <2>1, <2>4, <3>1, <3>2, BatchKeepsCallInv
  <2>6. CASE c.todo # {n}
    <3>1. d.phase = "read" /\ d.op = "UNDO" /\ d.todo = c.todo \ {n}
      BY <2>1, <2>2, <2>6 DEF Call
    <3> HIDE DEF d
    <3>2. CallOK(h)'
      BY <2>1, <2>2, <2>4, <3>1 DEF CallOK
    <3> QED
      BY <2>1, <2>4, <3>1, <3>2, BatchKeepsCallInv
  <2> QED
    BY <2>5, <2>6
<1>10. CASE UNCHANGED vars
  BY <1>10 DEF vars, StoreInv, CallInv, CallOK, StampsDiffer, UpdatesRecorded
<1> QED
  BY <1>2, <1>3, <1>4, <1>5, <1>6, <1>7, <1>8, <1>9, <1>10 DEF Next

\* Whatever the calls and however they interleave, every stamp, row and
\* transaction has its type, and a batch writes rows and log consistently.
THEOREM StoreTypeCorrect == Spec => []TypeOK
<1>1. StoreInv /\ [Next]_vars => StoreInv'
  BY NextType, NextCallInv DEF StoreInv
<1>2. StoreInv => TypeOK
  BY DEF StoreInv
<1> QED
  BY InitInv, <1>1, <1>2, PTL DEF Spec

-----------------------------------------------------------------------------
(* What a step does to the database: nothing, one commit, or one revert *)

\* Only row r may change, to this image and this deleted_at.
RowBecomes(r, image, deleted) ==
    /\ DOMAIN rows \subseteq DOMAIN rows'
    /\ DOMAIN rows' \subseteq DOMAIN rows \cup {r}
    /\ \A q \in DOMAIN rows' \ {r} : rows'[q] = rows[q]
    /\ r \in DOMAIN rows' => rows'[r].image = image /\ rows'[r].deleted = deleted

\* The call of h commits its create, update or delete.
Commits(h) ==
    LET c == call[h]
        s == c.stamp
    IN
    /\ c.phase = "sent" /\ c.op \in {"CREATE", "UPDATE", "DELETE"}
    /\ s \in 1..clock /\ s \notin DOMAIN txns
    /\ DOMAIN txns' = DOMAIN txns \cup {s}
    /\ \A m \in DOMAIN txns : txns'[m] = txns[m]
    /\ txns'[s] = [op |-> c.op, row |-> c.row, before |-> c.before,
                   after |-> c.after, reverted_by |-> 0]
    /\ c.op = "CREATE" => c.row \in DOMAIN rows' /\ RowBecomes(c.row, c.after, FALSE)
    /\ c.op # "CREATE" => DOMAIN rows' = DOMAIN rows
    /\ c.op = "UPDATE" => RowBecomes(c.row, c.after, rows[c.row].deleted)
    /\ c.op = "DELETE" => RowBecomes(c.row, rows[c.row].image, TRUE)
    /\ call' = [call EXCEPT ![h] = Idle]
    /\ clock' = clock

\* The undo of h reverts transaction n.
Reverts(h, n) ==
    LET c == call[h]
        s == c.stamp
        t == txns[n]
        u == txns'[n]
    IN
    /\ c.phase = "sent" /\ c.op = "UNDO" /\ NextToRevert(c.todo, n)
    /\ s \in 1..clock /\ s \notin DOMAIN txns
    /\ n \in DOMAIN txns /\ n < s /\ t.op \in {"CREATE", "UPDATE", "DELETE"}
    /\ DOMAIN txns' = DOMAIN txns \cup {s}
    /\ \A m \in DOMAIN txns \ {n} : txns'[m] = txns[m]
    /\ u.op = t.op /\ u.row = t.row /\ u.before = t.before /\ u.after = t.after
    /\ u.reverted_by = s
    /\ txns'[s] = [op |-> "REVERT", row |-> t.row, before |-> t.after,
                   after |-> t.before, reverted_by |-> 0]
    /\ DOMAIN rows' = DOMAIN rows
    /\ t.op = "CREATE" => RowBecomes(t.row, rows[t.row].image, TRUE)
    /\ t.op = "DELETE" => RowBecomes(t.row, rows[t.row].image, FALSE)
    /\ t.op = "UPDATE" => RowBecomes(t.row, t.before, rows[t.row].deleted)
    /\ call' = [call EXCEPT ![h] =
           IF c.todo = {n} THEN Idle
           ELSE [c EXCEPT !.phase = "read", !.stamp = 0, !.todo = c.todo \ {n}]]
    /\ clock' = clock

\* What the batch of a create, an update or a delete is, in one form.
LEMMA CommitFacts ==
  ASSUME StoreInv, NEW h \in Handlers,
         CommitCreate(h) \/ CommitUpdate(h) \/ CommitDelete(h)
  PROVE  Commits(h)
<1> DEFINE c == call[h]
<1>1. /\ c.phase = "sent" /\ c.op \in {"CREATE", "UPDATE", "DELETE"} /\ clock' = clock
      /\ call' = [call EXCEPT ![h] = Idle]
      /\ txns' = Logged(txns, c.stamp, c.op, c.row, c.before, c.after)
  BY DEF CommitCreate, CommitUpdate, CommitDelete, LogCall
<1>2. /\ CallOK(h) /\ c \in Call /\ \A r \in DOMAIN rows : rows[r] \in Row
      /\ clock \in Nat
  BY DEF StoreInv, CallInv, TypeOK
<1>3. c.stamp \in 1..clock /\ c.stamp \notin DOMAIN txns
  BY <1>1, <1>2 DEF CallOK
<1>4. /\ DOMAIN txns' = DOMAIN txns \cup {c.stamp}
      /\ \A m \in DOMAIN txns : txns'[m] = txns[m]
      /\ txns'[c.stamp] = [op |-> c.op, row |-> c.row, before |-> c.before,
                           after |-> c.after, reverted_by |-> 0]
  BY <1>1, <1>3 DEF Logged
<1>5. c.op = "CREATE" => c.row \in DOMAIN rows' /\ RowBecomes(c.row, c.after, FALSE)
  BY <1>2 DEF CommitCreate, CommitUpdate, CommitDelete, RowBecomes
<1>6. ASSUME c.op = "UPDATE" PROVE RowBecomes(c.row, c.after, rows[c.row].deleted)
  <2>1. rows' = [rows EXCEPT ![c.row].image = c.after]
    BY <1>6 DEF CommitCreate, CommitUpdate, CommitDelete
  <2> QED
    BY <1>2, <2>1 DEF RowBecomes, Row
<1>7. c.op # "CREATE" => DOMAIN rows' = DOMAIN rows
  BY DEF CommitCreate, CommitUpdate, CommitDelete
<1>8. ASSUME c.op = "DELETE" PROVE RowBecomes(c.row, rows[c.row].image, TRUE)
  <2>1. rows' = [rows EXCEPT ![c.row].deleted = TRUE]
    BY <1>8 DEF CommitCreate, CommitUpdate, CommitDelete
  <2> QED
    BY <1>2, <2>1 DEF RowBecomes, Row
<1> QED
  BY <1>1, <1>3, <1>4, <1>5, <1>6, <1>7, <1>8 DEF Commits

\* What the batch of one turn of undo is.
LEMMA RevertFacts ==
  ASSUME StoreInv, NEW h \in Handlers, NEW n \in call[h].todo, CommitRevert(h, n)
  PROVE  Reverts(h, n)
<1> DEFINE c == call[h]
           s == c.stamp
           t == txns[n]
<1>1. /\ c.phase = "sent" /\ c.op = "UNDO" /\ clock' = clock /\ NextToRevert(c.todo, n)
      /\ call' = [call EXCEPT ![h] =
             IF c.todo = {n} THEN Idle
             ELSE [c EXCEPT !.phase = "read", !.stamp = 0, !.todo = c.todo \ {n}]]
      /\ txns' = MarkReverted(LoggedRevert(txns, n, s), n, s)
      /\ rows' = [rows EXCEPT ![t.row] = Restored(rows[t.row], t)]
  BY DEF CommitRevert
<1>2. /\ CallOK(h) /\ c \in Call /\ clock \in Nat
      /\ \A r \in DOMAIN rows : rows[r] \in Row
      /\ \A m \in DOMAIN txns : txns[m] \in Txn
  BY DEF StoreInv, CallInv, TypeOK
<1>3. /\ s \in 1..clock /\ s \in Nat /\ s \notin DOMAIN txns
      /\ n \in DOMAIN txns /\ n < s /\ t.op # "REVERT"
  BY <1>1, <1>2 DEF CallOK
<1>4. t \in Txn /\ t.op \in {"CREATE", "UPDATE", "DELETE"}
  BY <1>2, <1>3 DEF Txn
<1>5. /\ DOMAIN txns' = DOMAIN txns \cup {s}
      /\ txns'[s] = [op |-> "REVERT", row |-> t.row, before |-> t.after,
                     after |-> t.before, reverted_by |-> 0]
      /\ txns'[n] = [op |-> t.op, row |-> t.row, before |-> t.before,
                     after |-> t.after, reverted_by |-> s]
      /\ \A m \in DOMAIN txns \ {n, s} : txns'[m] = txns[m]
  BY <1>1, <1>3, <1>4, RevertedFacts
<1>6. /\ txns'[n].op = t.op /\ txns'[n].row = t.row /\ txns'[n].before = t.before
      /\ txns'[n].after = t.after /\ txns'[n].reverted_by = s
      /\ \A m \in DOMAIN txns \ {n} : txns'[m] = txns[m]
  BY <1>3, <1>5
<1>7. /\ t.op = "CREATE" => RowBecomes(t.row, rows[t.row].image, TRUE)
      /\ t.op = "DELETE" => RowBecomes(t.row, rows[t.row].image, FALSE)
      /\ t.op = "UPDATE" => RowBecomes(t.row, t.before, rows[t.row].deleted)
      /\ DOMAIN rows' = DOMAIN rows
  <2>1. DOMAIN rows' = DOMAIN rows /\ \A q \in DOMAIN rows \ {t.row} : rows'[q] = rows[q]
    BY <1>1
  <2>2. CASE t.row \in DOMAIN rows
    <3>1. rows'[t.row] = Restored(rows[t.row], t) /\ rows[t.row] \in Row
      BY <1>1, <1>2, <2>2
    <3> QED
      BY <2>1, <3>1 DEF RowBecomes, Restored, Row
  <2>3. CASE t.row \notin DOMAIN rows
    BY <2>1, <2>3 DEF RowBecomes
  <2> QED
    BY <2>1, <2>2, <2>3
<1> QED
  BY <1>1, <1>3, <1>4, <1>5, <1>6, <1>7 DEF Reverts

\* A step leaves the database alone, commits one change, or reverts one.
LEMMA StepKinds ==
  ASSUME StoreInv, [Next]_vars
  PROVE  \/ UNCHANGED <<rows, txns>>
         \/ \E h \in Handlers : Commits(h)
         \/ \E h \in Handlers : \E n \in call[h].todo : Reverts(h, n)
  BY CommitFacts, RevertFacts
     DEF Next, vars, BeginCreate, BeginUpdate, BeginDelete, BeginUndo, Send, Fail

-----------------------------------------------------------------------------
(* The safety properties of interleaved calls *)

\* A deleted row can be brought back: see DeletionLogged.
LEMMA NextDeletionLogged ==
  ASSUME StoreInv, [Next]_vars, DeletionLogged
  PROVE  DeletionLogged'
<1>1. CASE UNCHANGED <<rows, txns>>
  BY <1>1 DEF DeletionLogged, Undoable
<1>2. ASSUME NEW h \in Handlers, Commits(h)
      PROVE  DeletionLogged'
  <2> SUFFICES ASSUME NEW r \in DOMAIN rows', rows'[r].deleted
               PROVE  \/ \E n \in Undoable' : txns'[n].op = "DELETE" /\ txns'[n].row = r
                      \/ \E n \in DOMAIN txns' : /\ txns'[n].op = "CREATE" /\ txns'[n].row = r
                                                 /\ txns'[n].reverted_by # 0
    BY DEF DeletionLogged
  <2>1. CASE r = call[h].row /\ call[h].op = "DELETE"
    BY <1>2, <2>1 DEF Commits, Undoable
  <2>2. CASE ~(r = call[h].row /\ call[h].op = "DELETE")
    <3>1. r \in DOMAIN rows /\ rows[r].deleted
      BY <1>2, <2>2 DEF Commits, RowBecomes
    <3> QED
      BY <1>2, <3>1 DEF Commits, DeletionLogged, Undoable
  <2> QED
    BY <2>1, <2>2
<1>3. ASSUME NEW h \in Handlers, NEW n \in call[h].todo, Reverts(h, n)
      PROVE  DeletionLogged'
  <2> DEFINE t == txns[n]
  <2> SUFFICES ASSUME NEW r \in DOMAIN rows', rows'[r].deleted
               PROVE  \/ \E m \in Undoable' : txns'[m].op = "DELETE" /\ txns'[m].row = r
                      \/ \E m \in DOMAIN txns' : /\ txns'[m].op = "CREATE" /\ txns'[m].row = r
                                                 /\ txns'[m].reverted_by # 0
    BY DEF DeletionLogged
  <2>1. CASE r = t.row /\ t.op = "CREATE"
    BY <1>3, <2>1 DEF Reverts
  <2>2. CASE ~(r = t.row /\ t.op = "CREATE")
    <3>1. r \in DOMAIN rows /\ rows[r].deleted /\ ~(r = t.row /\ t.op = "DELETE")
      BY <1>3, <2>2 DEF Reverts, RowBecomes
    <3>2. CASE \E m \in Undoable : txns[m].op = "DELETE" /\ txns[m].row = r
      BY <1>3, <3>1, <3>2 DEF Reverts, Undoable
    <3>3. CASE \E m \in DOMAIN txns : /\ txns[m].op = "CREATE" /\ txns[m].row = r
                                      /\ txns[m].reverted_by # 0
      <4>1. call[h].stamp # 0
        BY <1>3 DEF Reverts
      <4> QED
        BY <1>3, <3>3, <4>1 DEF Reverts
    <3> QED
      BY <3>1, <3>2, <3>3 DEF DeletionLogged
  <2> QED
    BY <2>1, <2>2
<1> QED
  BY <1>1, <1>2, <1>3, StepKinds

\* The image of a row was recorded by one transaction on it: see ImageLogged.
LEMMA NextImageLogged ==
  ASSUME StoreInv, [Next]_vars, ImageLogged
  PROVE  ImageLogged'
<1> DEFINE Recorded(r) == \E n \in DOMAIN txns :
               txns[n].row = r /\ rows[r].image \in {txns[n].before, txns[n].after}
<1>1. CASE UNCHANGED <<rows, txns>>
  BY <1>1 DEF ImageLogged
<1>2. ASSUME NEW h \in Handlers, Commits(h)
      PROVE  ImageLogged'
  <2> SUFFICES ASSUME NEW r \in DOMAIN rows'
               PROVE  \E n \in DOMAIN txns' : /\ txns'[n].row = r
                          /\ rows'[r].image \in {txns'[n].before, txns'[n].after}
    BY DEF ImageLogged
  <2>1. CASE r = call[h].row /\ call[h].op \in {"CREATE", "UPDATE"}
    BY <1>2, <2>1 DEF Commits, RowBecomes
  <2>2. CASE ~(r = call[h].row /\ call[h].op \in {"CREATE", "UPDATE"})
    <3>1. r \in DOMAIN rows /\ rows'[r].image = rows[r].image
      BY <1>2, <2>2 DEF Commits, RowBecomes
    <3> QED
      BY <1>2, <3>1 DEF Commits, ImageLogged
  <2> QED
    BY <2>1, <2>2
<1>3. ASSUME NEW h \in Handlers, NEW n \in call[h].todo, Reverts(h, n)
      PROVE  ImageLogged'
  <2> SUFFICES ASSUME NEW r \in DOMAIN rows'
               PROVE  \E m \in DOMAIN txns' : /\ txns'[m].row = r
                          /\ rows'[r].image \in {txns'[m].before, txns'[m].after}
    BY DEF ImageLogged
  <2>1. CASE r = txns[n].row /\ txns[n].op = "UPDATE"
    BY <1>3, <2>1 DEF Reverts, RowBecomes
  <2>2. CASE ~(r = txns[n].row /\ txns[n].op = "UPDATE")
    <3>1. r \in DOMAIN rows /\ rows'[r].image = rows[r].image
      BY <1>3, <2>2 DEF Reverts, RowBecomes
    <3>2. PICK m \in DOMAIN txns : /\ txns[m].row = r
                                   /\ rows[r].image \in {txns[m].before, txns[m].after}
      BY <3>1 DEF ImageLogged
    <3>3. /\ m \in DOMAIN txns' /\ txns'[m].row = txns[m].row
          /\ txns'[m].before = txns[m].before /\ txns'[m].after = txns[m].after
      BY <1>3 DEF Reverts
    <3> QED
      BY <3>1, <3>2, <3>3
  <2> QED
    BY <2>1, <2>2
<1> QED
  BY <1>1, <1>2, <1>3, StepKinds

\* Every step keeps what the log recorded: see KeepsLog.
LEMMA NextKeepsLog ==
  ASSUME StoreInv, [Next]_vars
  PROVE  KeepsLog
<1>1. CASE UNCHANGED <<rows, txns>>
  BY <1>1 DEF KeepsLog
<1>2. ASSUME NEW h \in Handlers, Commits(h)
      PROVE  KeepsLog
  BY <1>2 DEF Commits, KeepsLog
<1>3. ASSUME NEW h \in Handlers, NEW n \in call[h].todo, Reverts(h, n)
      PROVE  KeepsLog
  BY <1>3 DEF Reverts, KeepsLog
<1> QED
  BY <1>1, <1>2, <1>3, StepKinds

\* A reverted transaction names its REVERT: see RevertRecorded.
LEMMA NextRevertRecorded ==
  ASSUME StoreInv, [Next]_vars, RevertRecorded
  PROVE  RevertRecorded'
<1>1. CASE UNCHANGED <<rows, txns>>
  BY <1>1 DEF RevertRecorded
<1>2. ASSUME NEW h \in Handlers, Commits(h)
      PROVE  RevertRecorded'
  BY <1>2 DEF Commits, RevertRecorded
<1>3. ASSUME NEW h \in Handlers, NEW n \in call[h].todo, Reverts(h, n)
      PROVE  RevertRecorded'
  <2> SUFFICES ASSUME NEW m \in DOMAIN txns', txns'[m].reverted_by # 0
               PROVE  LET k == txns'[m].reverted_by IN
                      /\ k \in DOMAIN txns' /\ m < k
                      /\ txns'[m].op # "REVERT"
                      /\ txns'[k].op = "REVERT" /\ txns'[k].row = txns'[m].row
                      /\ txns'[k].before = txns'[m].after
                      /\ txns'[k].after = txns'[m].before
    BY DEF RevertRecorded
  <2>1. m # call[h].stamp /\ m \in DOMAIN txns
    BY <1>3 DEF Reverts
  <2>2. CASE m = n
    BY <1>3, <2>1, <2>2 DEF Reverts
  <2>3. CASE m # n
    <3>1. txns'[m] = txns[m]
      BY <1>3, <2>1, <2>3 DEF Reverts
    <3> DEFINE k == txns[m].reverted_by
    <3>2. /\ k \in DOMAIN txns /\ m < k /\ txns[m].op # "REVERT"
          /\ txns[k].op = "REVERT" /\ txns[k].row = txns[m].row
          /\ txns[k].before = txns[m].after /\ txns[k].after = txns[m].before
      BY <2>1, <3>1 DEF RevertRecorded
    <3>3. k # n /\ k \in DOMAIN txns' /\ txns'[k] = txns[k]
      BY <1>3, <3>2 DEF Reverts
    <3> QED
      BY <3>1, <3>2, <3>3
  <2> QED
    BY <2>2, <2>3
<1> QED
  BY <1>1, <1>2, <1>3, StepKinds

\* The inductive invariant holds whatever interleaves.
LEMMA StoreInvariant == Spec => []StoreInv
<1>1. StoreInv /\ [Next]_vars => StoreInv'
  BY NextType, NextCallInv DEF StoreInv
<1> QED
  BY InitInv, <1>1, PTL DEF Spec

\* Rows that queries no longer show can always be brought back from the log:
\* each has a DELETE that undo has not reverted, or its CREATE was reverted.
THEOREM DeletionsAreLogged == Spec => []DeletionLogged
<1>1. Init => DeletionLogged
  BY DEF Init, DeletionLogged
<1>2. StoreInv /\ DeletionLogged /\ [Next]_vars => DeletionLogged'
  BY NextDeletionLogged
<1> QED
  BY StoreInvariant, <1>1, <1>2, PTL DEF Spec

\* No interleaving of updates and undos leaves a row whose columns come from
\* two different writes.
THEOREM ImagesAreLogged == Spec => []ImageLogged
<1>1. Init => ImageLogged
  BY DEF Init, ImageLogged
<1>2. StoreInv /\ ImageLogged /\ [Next]_vars => ImageLogged'
  BY NextImageLogged
<1> QED
  BY StoreInvariant, <1>1, <1>2, PTL DEF Spec

\* A transaction is marked reverted only by a later REVERT of the same row
\* that records the inverse change.
THEOREM RevertsAreRecorded == Spec => []RevertRecorded
<1>1. Init => RevertRecorded
  BY DEF Init, RevertRecorded
<1>2. StoreInv /\ RevertRecorded /\ [Next]_vars => RevertRecorded'
  BY NextRevertRecorded
<1> QED
  BY StoreInvariant, <1>1, <1>2, PTL DEF Spec

\* No step removes or rewrites a transaction, or clears its reverted_by.
THEOREM LogIsAppendOnly == Spec => LogOnlyGrows
<1>1. StoreInv /\ [Next]_vars => [KeepsLog]_vars
  BY NextKeepsLog
<1> QED
  BY StoreInvariant, <1>1, PTL DEF Spec, LogOnlyGrows

-----------------------------------------------------------------------------
(* Calls that run one after the other *)

\* What the one call in flight knows: the row it read is as it read it, and an
\* undo holds the newest of what can be undone.
AloneOK(h) ==
    LET c == call[h] IN
    /\ c.phase = "sent" => c.stamp = clock
    /\ c.op = "CREATE" => c.before = NULL
    /\ c.op \in {"UPDATE", "DELETE"} => Live(c.row) /\ c.before = rows[c.row].image
    /\ c.op = "DELETE" => c.after = NULL
    /\ c.op = "UNDO" =>
           /\ c.todo \subseteq Undoable
           /\ \A n \in c.todo, m \in Undoable \ c.todo : m < n

\* The log and the rows name each other: a row was entered by the transaction
\* of its own stamp, and no transaction is about a row that is not there.
RowsAndLogAgree ==
    /\ \A r \in DOMAIN rows : r \in DOMAIN txns
    /\ \A n \in DOMAIN txns : txns[n].row \in DOMAIN rows

\* m is the standing transaction just before n on the row of n.
Precedes(m, n) ==
    /\ m \in Standing(txns[n].row) /\ m < n
    /\ \A k \in Standing(txns[n].row) : k <= m \/ n <= k

\* The standing transactions of a row chain: each begins where the one before
\* it ended, and the first is the CREATE.
Chained ==
    \A n \in Undoable :
        IF txns[n].op = "CREATE"
        THEN txns[n].before = NULL /\ \A m \in Standing(txns[n].row) : n <= m
        ELSE \E m \in Undoable : /\ Precedes(m, n)
                                 /\ txns[m].op # "DELETE"
                                 /\ txns[m].after = txns[n].before

\* A DELETE leaves nothing to show, an image is left by any other transaction.
AftersRecorded ==
    \A n \in Undoable :
        IF txns[n].op = "DELETE" THEN txns[n].after = NULL ELSE txns[n].after \in Image

AloneInv ==
    /\ \A h \in Handlers : AloneOK(h)
    /\ RowsAndLogAgree
    /\ Chained
    /\ AftersRecorded
    /\ UndoExact

SequentialInv == StoreInv /\ AloneInv

\* A step that leaves the database alone.
LEMMA QuietStepKeepsAloneInv ==
  ASSUME AloneInv, UNCHANGED <<rows, txns>>, \A h \in Handlers : AloneOK(h)'
  PROVE  AloneInv'
  BY DEF AloneInv, RowsAndLogAgree, Chained, Precedes, AftersRecorded, UndoExact,
         Standing, Undoable, IsNewest, Shows

\* The empty store satisfies the invariant of sequential calls.
LEMMA InitAloneInv == Init => AloneInv
  BY DEF Init, AloneInv, AloneOK, RowsAndLogAgree, Chained, AftersRecorded, UndoExact,
         Undoable, Idle, Running

\* The steps of a call that do not write the database.
LEMMA QuietAloneOK ==
  ASSUME Sequential, SequentialInv, UNCHANGED <<rows, txns>>, NEW h \in Handlers,
         NEW c, call' = [call EXCEPT ![h] = c],
         c.phase = "sent" => c.stamp = clock',
         c.op = "CREATE" => c.before = NULL,
         c.op \in {"UPDATE", "DELETE"} => Live(c.row) /\ c.before = rows[c.row].image,
         c.op = "DELETE" => c.after = NULL,
         c.op = "UNDO" => /\ c.todo \subseteq Undoable
                          /\ \A n \in c.todo, m \in Undoable \ c.todo : m < n
  PROVE  AloneInv'
<1>1. call'[h] = c /\ \A g \in Handlers : g = h
  BY DEF SequentialInv, StoreInv, TypeOK, Sequential
<1>2. Live(c.row)' <=> Live(c.row)
  BY DEF Live
<1>3. Undoable' = Undoable
  BY DEF Undoable
<1>4. AloneOK(h)'
  BY <1>1, <1>2, <1>3 DEF AloneOK
<1> QED
  BY <1>1, <1>4, QuietStepKeepsAloneInv DEF SequentialInv

\* Before a commit, the newest standing transaction of a live row left it live
\* with the image it has now.
LEMMA LiveRowShowsItsNewest ==
  ASSUME UndoExact, NEW r, Live(r)
  PROVE  \E n \in Standing(r) : /\ IsNewest(n, Standing(r)) /\ txns[n].op # "DELETE"
                                /\ txns[n].after = rows[r].image
  BY DEF UndoExact, Live, Shows

\* A commit stands on top of the log, and its row shows it.
LEMMA CommitKeepsAloneInv ==
  ASSUME Sequential, SequentialInv, NEW h \in Handlers, Commits(h)
  PROVE  AloneInv'
<1>0. PICK c, s, r : c = call[h] /\ s = c.stamp /\ r = c.row
  OBVIOUS
<1> USE <1>0
<1>1. /\ TypeOK /\ CallOK(h) /\ AloneOK(h) /\ RowsAndLogAgree /\ Chained
      /\ AftersRecorded /\ UndoExact
  BY DEF SequentialInv, StoreInv, CallInv, AloneInv
<1>2. /\ s \in Nat /\ s \notin DOMAIN txns /\ c.op \in {"CREATE", "UPDATE", "DELETE"}
      /\ \A m \in DOMAIN txns : m \in Nat /\ m < s
      /\ DOMAIN txns' = DOMAIN txns \cup {s}
      /\ \A m \in DOMAIN txns : txns'[m] = txns[m]
      /\ txns'[s] = [op |-> c.op, row |-> r, before |-> c.before,
                     after |-> c.after, reverted_by |-> 0]
  <2>1. s = clock /\ clock \in Nat /\ DOMAIN txns \subseteq 1..clock /\ s \notin DOMAIN txns
    BY <1>1 DEF Commits, AloneOK, TypeOK
  <2> QED
    BY <2>1 DEF Commits
<1>3. /\ Undoable' = Undoable \cup {s}
      /\ \A q : Standing(q)' = IF q = r THEN Standing(q) \cup {s} ELSE Standing(q)
  <2>1. Undoable' = Undoable \cup {s}
    BY <1>2 DEF Undoable
  <2> QED
    BY <1>2, <2>1 DEF Standing, Undoable
<1>4. \A n \in Undoable : n \in DOMAIN txns /\ n \in Nat /\ n < s /\ txns'[n] = txns[n]
  BY <1>2 DEF Undoable
<1>5. AloneOK(h)'
  BY <1>1 DEF Commits, AloneOK, Idle, Running, TypeOK
<1>6. CASE c.op = "CREATE"
  <2>1. r = s /\ c.before = NULL /\ c.after \in Image
    BY <1>1, <1>6 DEF CallOK, AloneOK
  <2>2. r \notin DOMAIN rows /\ Standing(r) = {}
    BY <1>1, <1>2, <2>1 DEF RowsAndLogAgree, Standing, Undoable
  <2>3. /\ DOMAIN rows' = DOMAIN rows \cup {r}
        /\ rows'[r].image = c.after /\ rows'[r].deleted = FALSE
        /\ \A q \in DOMAIN rows : rows'[q] = rows[q]
    BY <1>6, <2>2 DEF Commits, RowBecomes
  <2>4. RowsAndLogAgree'
    BY <1>1, <1>2, <2>1, <2>3 DEF RowsAndLogAgree
  <2>5. Chained'
    <3>1. ASSUME NEW n \in Undoable
          PROVE  (IF txns[n].op = "CREATE"
                  THEN txns[n].before = NULL /\ \A m \in Standing(txns[n].row) : n <= m
                  ELSE \E m \in Undoable : /\ Precedes(m, n)
                                           /\ txns[m].op # "DELETE"
                                           /\ txns[m].after = txns[n].before)'
      <4>1. txns[n].row # r
        BY <2>2, <1>4 DEF Standing
      <4>2. Standing(txns[n].row)' = Standing(txns[n].row)
        BY <1>3, <1>4, <4>1
      <4> QED
        BY <1>1, <1>3, <1>4, <4>1, <4>2 DEF Chained, Precedes
    <3>2. (txns[s].before = NULL /\ \A m \in Standing(txns[s].row) : s <= m)'
      BY <1>2, <1>3, <2>1, <2>2
    <3> QED
      BY <1>2, <1>3, <1>6, <3>1, <3>2 DEF Chained
  <2>6. UndoExact'
    <3>1. IsNewest(s, Standing(r))' /\ Shows(r, txns[s])'
      BY <1>2, <1>3, <1>6, <2>2, <2>3 DEF IsNewest, Shows
    <3>2. ASSUME NEW q \in DOMAIN rows
          PROVE  (IF Standing(q) = {} THEN rows[q].deleted
                  ELSE \E n \in Standing(q) : IsNewest(n, Standing(q)) /\ Shows(q, txns[n]))'
      <4>1. Standing(q)' = Standing(q) /\ rows'[q] = rows[q]
        BY <1>3, <2>2, <2>3
      <4> QED
        BY <1>1, <1>4, <4>1 DEF UndoExact, IsNewest, Shows, Standing
    <3> QED
      BY <1>3, <2>3, <3>1, <3>2 DEF UndoExact
  <2>7. AftersRecorded'
    BY <1>1, <1>2, <1>3, <1>4, <1>6, <2>1 DEF AftersRecorded
  <2> QED
    BY <1>5, <2>4, <2>5, <2>6, <2>7 DEF AloneInv, Sequential
<1>7. CASE c.op \in {"UPDATE", "DELETE"}
  <2>1. r \in DOMAIN rows /\ Live(r) /\ c.before = rows[r].image
    BY <1>1, <1>7 DEF AloneOK, Live
  <2>2. /\ DOMAIN rows' = DOMAIN rows
        /\ \A q \in DOMAIN rows \ {r} : rows'[q] = rows[q]
        /\ c.op = "UPDATE" => rows'[r].image = c.after /\ rows'[r].deleted = FALSE
        /\ c.op = "DELETE" => rows'[r].image = c.before /\ rows'[r].deleted = TRUE
    BY <1>1, <1>7, <2>1 DEF Commits, RowBecomes, Live, TypeOK, Row
  <2>3. RowsAndLogAgree'
    BY <1>1, <1>2, <2>1, <2>2 DEF RowsAndLogAgree
  <2>4. PICK p \in Standing(r) : /\ IsNewest(p, Standing(r)) /\ txns[p].op # "DELETE"
                                 /\ txns[p].after = c.before
    BY <1>1, <2>1, LiveRowShowsItsNewest
  <2>5. Chained'
    <3>1. ASSUME NEW n \in Undoable
          PROVE  (IF txns[n].op = "CREATE"
                  THEN txns[n].before = NULL /\ \A m \in Standing(txns[n].row) : n <= m
                  ELSE \E m \in Undoable : /\ Precedes(m, n)
                                           /\ txns[m].op # "DELETE"
                                           /\ txns[m].after = txns[n].before)'
      <4>0. PICK q : q = txns[n].row /\ txns'[n].row = q
        BY <1>4
      <4>1. \A m \in Standing(q)' : m \in Standing(q) \/ m = s
        BY <1>3
      <4>2. CASE txns[n].op = "CREATE"
        <5>1. txns[n].before = NULL /\ \A m \in Standing(q) : n <= m
          BY <1>1, <4>0, <4>2 DEF Chained
        <5>2. \A m \in Standing(q)' : n <= m
          BY <1>2, <1>4, <4>1, <5>1
        <5> QED
          BY <1>4, <4>0, <4>2, <5>1, <5>2
      <4>3. CASE txns[n].op # "CREATE"
        <5>1. PICK m \in Undoable : /\ Precedes(m, n) /\ txns[m].op # "DELETE"
                                    /\ txns[m].after = txns[n].before
          BY <1>1, <4>3 DEF Chained
        <5>2. Precedes(m, n)'
          <6>1. m \in Standing(q) /\ m < n /\ \A k \in Standing(q) : k <= m \/ n <= k
            BY <4>0, <5>1 DEF Precedes
          <6>2. m \in Standing(q)' /\ \A k \in Standing(q)' : k <= m \/ n <= k
            BY <1>2, <1>3, <1>4, <4>1, <6>1
          <6> QED
            BY <4>0, <6>1, <6>2 DEF Precedes
        <5> QED
          BY <1>3, <1>4, <4>3, <5>1, <5>2
      <4> QED
        BY <4>2, <4>3
    <3>2. Precedes(p, s)'
      BY <1>2, <1>3, <1>4, <2>4 DEF Precedes, IsNewest, Standing
    <3>3. p \in Undoable' /\ txns'[p] = txns[p] /\ txns'[s].before = c.before
          /\ txns'[s].op = c.op
      BY <1>2, <1>3, <1>4, <2>4 DEF Standing
    <3> QED
      BY <1>3, <1>7, <2>4, <3>1, <3>2, <3>3 DEF Chained
  <2>6. UndoExact'
    <3>1. IsNewest(s, Standing(r))' /\ Shows(r, txns[s])'
      <4>1. \A m \in Standing(r) : m \in Nat /\ m < s
        BY <1>4 DEF Standing
      <4> QED
        <5>1. IsNewest(s, Standing(r))'
          <6>1. Standing(r)' = Standing(r) \cup {s}
            BY <1>3
          <6>2. \A m \in Standing(r) \cup {s} : m <= s
            BY <1>2, <4>1
          <6> QED
            BY <6>1, <6>2 DEF IsNewest
        <5>2. txns'[s].op = c.op /\ txns'[s].after = c.after /\ txns'[s].before = c.before
          BY <1>2
        <5>3. Shows(r, txns[s])'
          BY <1>7, <2>2, <5>2 DEF Shows
        <5> QED
          BY <5>1, <5>3
    <3>2. ASSUME NEW q \in DOMAIN rows, q # r
          PROVE  (IF Standing(q) = {} THEN rows[q].deleted
                  ELSE \E n \in Standing(q) : IsNewest(n, Standing(q)) /\ Shows(q, txns[n]))'
      <4>1. Standing(q)' = Standing(q) /\ rows'[q] = rows[q]
        BY <1>3, <2>2, <3>2
      <4> QED
        BY <1>1, <1>4, <4>1 DEF UndoExact, IsNewest, Shows, Standing
    <3> QED
      BY <1>3, <2>2, <3>1, <3>2 DEF UndoExact
  <2>7. AftersRecorded'
    BY <1>1, <1>2, <1>3, <1>4, <1>7 DEF AftersRecorded, AloneOK, CallOK
  <2> QED
    BY <1>5, <2>3, <2>5, <2>6, <2>7 DEF AloneInv, Sequential
<1> QED
  BY <1>2, <1>6, <1>7

\* A revert takes the top off the log: its row shows the transaction below it.
LEMMA RevertKeepsAloneInv ==
  ASSUME Sequential, SequentialInv, NEW h \in Handlers, NEW n \in call[h].todo,
         Reverts(h, n)
  PROVE  AloneInv'
<1>0. PICK c, s, t, r : c = call[h] /\ s = c.stamp /\ t = txns[n] /\ r = t.row
  OBVIOUS
<1> USE <1>0
<1>1. /\ TypeOK /\ AloneOK(h) /\ RowsAndLogAgree /\ Chained
      /\ AftersRecorded /\ UndoExact
  BY DEF SequentialInv, StoreInv, AloneInv
<1>2. /\ n \in Undoable /\ r \in DOMAIN rows /\ t.op \in {"CREATE", "UPDATE", "DELETE"}
      /\ s \in Nat /\ s # 0 /\ s \notin DOMAIN txns
      /\ \A m \in DOMAIN txns : m \in Nat
      /\ DOMAIN txns' = DOMAIN txns \cup {s}
      /\ \A m \in DOMAIN txns \ {n} : txns'[m] = txns[m]
      /\ txns'[n].reverted_by = s /\ txns'[n].row = r
      /\ txns'[s].op = "REVERT" /\ txns'[s].row = r
  <2>1. c.op = "UNDO" /\ n \in c.todo /\ c.todo \subseteq Undoable
    BY <1>1 DEF Reverts, AloneOK
  <2> QED
    BY <1>1, <2>1 DEF Reverts, RowsAndLogAgree, TypeOK, Undoable
<1>3. \A m \in Undoable : m <= n
  <2>1. /\ \A m \in c.todo : m <= n
        /\ \A k \in c.todo, m \in Undoable \ c.todo : m < k
    BY <1>1 DEF Reverts, AloneOK, NextToRevert
  <2>2. \A m \in Undoable : m \in Nat
    BY <1>2 DEF Undoable
  <2> QED
    BY <2>1, <2>2, <1>2
<1>4. /\ Undoable' = Undoable \ {n}
      /\ \A q : Standing(q)' = Standing(q) \ {n}
      /\ \A m \in Undoable \ {n} : txns'[m] = txns[m] /\ m < n
  <2>1. Undoable' = Undoable \ {n}
    BY <1>2 DEF Undoable
  <2>2. \A m \in Undoable \ {n} : txns'[m] = txns[m] /\ m < n /\ m \in Nat
    BY <1>2, <1>3 DEF Undoable
  <2> QED
    BY <2>1, <2>2 DEF Standing
<1>5. /\ DOMAIN rows' = DOMAIN rows
      /\ \A q \in DOMAIN rows \ {r} : rows'[q] = rows[q]
      /\ t.op = "CREATE" => rows'[r].deleted
      /\ t.op = "DELETE" => rows'[r].image = rows[r].image /\ ~rows'[r].deleted
      /\ t.op = "UPDATE" => rows'[r].image = t.before /\ rows'[r].deleted = rows[r].deleted
  BY <1>2 DEF Reverts, RowBecomes
<1>6. n \in Standing(r) /\ IsNewest(n, Standing(r)) /\ Shows(r, t)
  <2>1. n \in Standing(r)
    BY <1>2 DEF Standing
  <2>2. PICK m \in Standing(r) : IsNewest(m, Standing(r)) /\ Shows(r, txns[m])
    BY <1>1, <1>2, <2>1 DEF UndoExact
  <2>3. m = n
    BY <1>2, <1>3, <2>1, <2>2 DEF IsNewest, Standing, Undoable
  <2> QED
    BY <2>1, <2>2, <2>3
<1>7. AloneOK(h)'
  <2>1. CASE c.todo = {n}
    <3>1. call'[h] = Idle
      BY <1>1, <2>1 DEF Reverts, TypeOK
    <3> QED
      BY <3>1 DEF AloneOK, Idle, Running
  <2>2. CASE c.todo # {n}
    <3>1. call'[h] = [c EXCEPT !.phase = "read", !.stamp = 0, !.todo = c.todo \ {n}]
      BY <1>1, <2>2 DEF Reverts, TypeOK
    <3>2. c \in Call /\ c.op = "UNDO"
      BY <1>1 DEF TypeOK, Reverts
    <3>3. call'[h].phase = "read" /\ call'[h].op = "UNDO" /\ call'[h].todo = c.todo \ {n}
      BY <3>1, <3>2 DEF Call
    <3>4. /\ c.todo \subseteq Undoable
          /\ \A k \in c.todo, m \in Undoable \ c.todo : m < k
      BY <1>1, <3>2 DEF AloneOK
    <3> QED
      BY <1>4, <3>3, <3>4 DEF AloneOK
  <2> QED
    BY <2>1, <2>2
<1>8. RowsAndLogAgree'
  BY <1>1, <1>2, <1>5 DEF RowsAndLogAgree
<1>9. Chained'
  <2> SUFFICES ASSUME NEW k \in Undoable'
               PROVE  (IF txns[k].op = "CREATE"
                       THEN txns[k].before = NULL /\ \A m \in Standing(txns[k].row) : k <= m
                       ELSE \E m \in Undoable : /\ Precedes(m, k)
                                                /\ txns[m].op # "DELETE"
                                                /\ txns[m].after = txns[k].before)'
    BY DEF Chained
  <2>1. k \in Undoable /\ k # n /\ txns'[k] = txns[k] /\ k < n
    BY <1>4
  <2>2. CASE txns[k].op = "CREATE"
    BY <1>1, <1>4, <2>1, <2>2 DEF Chained
  <2>3. CASE txns[k].op # "CREATE"
    <3>1. PICK m \in Undoable : /\ Precedes(m, k) /\ txns[m].op # "DELETE"
                                /\ txns[m].after = txns[k].before
      BY <1>1, <2>1, <2>3 DEF Chained
    <3>2. m # n
      BY <1>2, <2>1, <3>1 DEF Precedes, Undoable
    <3>3. Precedes(m, k)'
      BY <1>4, <2>1, <3>1, <3>2 DEF Precedes
    <3> QED
      BY <1>4, <2>1, <2>3, <3>1, <3>2, <3>3
  <2> QED
    BY <2>2, <2>3
<1>10. UndoExact'
  <2>1. ASSUME NEW q \in DOMAIN rows, q # r
        PROVE  (IF Standing(q) = {} THEN rows[q].deleted
                ELSE \E m \in Standing(q) : IsNewest(m, Standing(q)) /\ Shows(q, txns[m]))'
    <3>1. Standing(q)' = Standing(q) /\ rows'[q] = rows[q]
      BY <1>4, <1>5, <2>1 DEF Standing
    <3>2. \A m \in Standing(q) : txns'[m] = txns[m]
      BY <1>4, <2>1 DEF Standing
    <3> QED
      BY <1>1, <3>1, <3>2 DEF UndoExact, IsNewest, Shows
  <2>2. (IF Standing(r) = {} THEN rows[r].deleted
         ELSE \E m \in Standing(r) : IsNewest(m, Standing(r)) /\ Shows(r, txns[m]))'
    <3>1. CASE t.op = "CREATE"
      <4>1. \A m \in Standing(r) : n <= m /\ m <= n
        BY <1>1, <1>2, <1>6, <3>1 DEF Chained, IsNewest
      <4>2. Standing(r)' = {}
        BY <1>2, <1>4, <4>1 DEF Standing, Undoable
      <4> QED
        BY <1>5, <3>1, <4>2
    <3>2. CASE t.op # "CREATE"
      <4>1. PICK m \in Undoable : /\ Precedes(m, n) /\ txns[m].op # "DELETE"
                                  /\ txns[m].after = t.before
        BY <1>1, <1>2, <3>2 DEF Chained
      <4>2. m \in Nat /\ n \in Nat /\ m < n /\ m \in Standing(r)
        BY <1>2, <4>1 DEF Precedes, Undoable
      <4>3. m \in Standing(r)' /\ IsNewest(m, Standing(r))'
        <5>1. \A k \in Standing(r) \ {n} : k < n /\ (k <= m \/ n <= k) /\ k \in Nat
          BY <1>2, <1>4, <4>1 DEF Precedes, Standing, Undoable
        <5> QED
          BY <1>4, <4>2, <5>1 DEF IsNewest
      <4>4. txns'[m] = txns[m]
        BY <1>4, <4>1, <4>2
      <4>5. rows'[r].image = t.before /\ ~rows'[r].deleted
        BY <1>2, <1>5, <1>6, <3>2 DEF Shows
      <4> QED
        BY <4>1, <4>3, <4>4, <4>5 DEF Shows
    <3> QED
      BY <3>1, <3>2
  <2> QED
    BY <1>5, <2>1, <2>2 DEF UndoExact
<1>11. AftersRecorded'
  BY <1>1, <1>4 DEF AftersRecorded
<1> QED
  BY <1>7, <1>8, <1>9, <1>10, <1>11 DEF AloneInv, Sequential

\* Every step of a lone handler keeps the invariant: one case per action.
LEMMA NextAloneInv ==
  ASSUME Sequential, SequentialInv, [Next]_vars
  PROVE  AloneInv'
<1>1. /\ call \in [Handlers -> Call] /\ clock \in Nat
      /\ \A h \in Handlers : AloneOK(h)
  BY DEF SequentialInv, StoreInv, TypeOK, AloneInv
<1>2. ASSUME NEW h \in Handlers, NEW image \in Image, BeginCreate(h, image)
      PROVE  AloneInv'
  <2> DEFINE c == Running("CREATE", "sent", clock + 1, NULL, image, clock + 1, {})
  <2>1. c.op = "CREATE" /\ c.before = NULL /\ c.stamp = clock + 1
    BY DEF Running
  <2> HIDE DEF c
  <2> QED
    BY <1>2, <2>1, QuietAloneOK DEF BeginCreate, c
<1>3. ASSUME NEW h \in Handlers, NEW r \in DOMAIN rows, NEW patch \in Patches,
             BeginUpdate(h, r, patch)
      PROVE  AloneInv'
  <2> DEFINE c == Running("UPDATE", "read", r, rows[r].image,
                          Patched(rows[r].image, patch), 0, {})
  <2>1. c.op = "UPDATE" /\ c.phase = "read" /\ c.row = r /\ c.before = rows[r].image
    BY DEF Running
  <2> HIDE DEF c
  <2> QED
    BY <1>3, <2>1, QuietAloneOK DEF BeginUpdate, c
<1>4. ASSUME NEW h \in Handlers, NEW r \in DOMAIN rows, BeginDelete(h, r)
      PROVE  AloneInv'
  <2> DEFINE c == Running("DELETE", "read", r, rows[r].image, NULL, 0, {})
  <2>1. /\ c.op = "DELETE" /\ c.phase = "read" /\ c.row = r /\ c.before = rows[r].image
        /\ c.after = NULL
    BY DEF Running
  <2> HIDE DEF c
  <2> QED
    BY <1>4, <2>1, QuietAloneOK DEF BeginDelete, c
<1>5. ASSUME NEW h \in Handlers, NEW T \in SUBSET Undoable, BeginUndo(h, T)
      PROVE  AloneInv'
  <2> DEFINE c == Running("UNDO", "read", 0, NULL, NULL, 0, T)
  <2>1. c.op = "UNDO" /\ c.phase = "read" /\ c.todo = T
    BY DEF Running
  <2>2. T \subseteq Undoable /\ \A n \in T, m \in Undoable \ T : m < n
    BY <1>5 DEF BeginUndo, Latest
  <2> HIDE DEF c
  <2> QED
    BY <1>5, <2>1, <2>2, QuietAloneOK DEF BeginUndo, c
<1>6. ASSUME NEW h \in Handlers, Send(h)
      PROVE  AloneInv'
  <2> DEFINE c == [call[h] EXCEPT !.phase = "sent", !.stamp = clock + 1]
  <2>1. /\ c.phase = "sent" /\ c.stamp = clock + 1 /\ c.op = call[h].op
        /\ c.row = call[h].row /\ c.before = call[h].before /\ c.after = call[h].after
        /\ c.todo = call[h].todo
    BY <1>1 DEF Call
  <2>2. /\ UNCHANGED <<rows, txns>> /\ clock' = clock + 1
        /\ call' = [call EXCEPT ![h] = c]
    BY <1>6 DEF Send
  <2>3. AloneOK(h)
    BY <1>1
  <2> HIDE DEF c
  <2> QED
    BY <2>1, <2>2, <2>3, QuietAloneOK DEF AloneOK
<1>7. ASSUME NEW h \in Handlers, Fail(h)
      PROVE  AloneInv'
  <2>1. Idle.phase = "idle" /\ Idle.op = "none"
    BY DEF Idle, Running
  <2> QED
    BY <1>7, <2>1, QuietAloneOK DEF Fail
<1>8. ASSUME NEW h \in Handlers, CommitCreate(h) \/ CommitUpdate(h) \/ CommitDelete(h)
      PROVE  AloneInv'
  BY <1>8, CommitFacts, CommitKeepsAloneInv DEF SequentialInv
<1>9. ASSUME NEW h \in Handlers, NEW n \in call[h].todo, CommitRevert(h, n)
      PROVE  AloneInv'
  BY <1>9, RevertFacts, RevertKeepsAloneInv DEF SequentialInv
<1>10. CASE UNCHANGED vars
  <2>1. \A h \in Handlers : AloneOK(h)'
    BY <1>1, <1>10 DEF vars, AloneOK, Live, Undoable
  <2> QED
    BY <1>10, <2>1, QuietStepKeepsAloneInv DEF vars, SequentialInv
<1> QED
  BY <1>2, <1>3, <1>4, <1>5, <1>6, <1>7, <1>8, <1>9, <1>10 DEF Next

\* The inductive invariant of calls that run one after the other.
LEMMA SequentialInvariant == ASSUME Sequential PROVE Spec => []SequentialInv
<1>1. Init => SequentialInv
  BY InitInv, InitAloneInv DEF SequentialInv
<1>2. SequentialInv /\ [Next]_vars => SequentialInv'
  BY NextType, NextCallInv, NextAloneInv DEF SequentialInv, StoreInv
<1> QED
  BY <1>1, <1>2, PTL DEF Spec

\* When calls run one after the other, whatever fails and whatever is undone in
\* part: every row is as the newest transaction on it that undo has not
\* reverted left it, and a row with none is gone.
THEOREM UndoIsExact == ASSUME Sequential PROVE Spec => []UndoExact
<1>1. SequentialInv => UndoExact
  BY DEF SequentialInv, AloneInv
<1> QED
  BY SequentialInvariant, <1>1, PTL

\* Undo then goes down the log and never past a transaction it left standing:
\* what was logged between a transaction and its REVERT was reverted before.
THEOREM UndoIsLastInFirstOut == ASSUME Sequential PROVE Spec => []LastInFirstOut
<1>1. Init => LastInFirstOut
  BY DEF Init, LastInFirstOut
<1>2. ASSUME SequentialInv, RevertRecorded, LastInFirstOut, [Next]_vars
      PROVE  LastInFirstOut'
  <2>1. /\ \A h \in Handlers : AloneOK(h)
        /\ TypeOK /\ StoreInv
    BY <1>2 DEF SequentialInv, StoreInv, AloneInv
  <2>2. CASE UNCHANGED <<rows, txns>>
    BY <1>2, <2>2 DEF LastInFirstOut
  <2>3. ASSUME NEW h \in Handlers, Commits(h)
        PROVE  LastInFirstOut'
    <3> SUFFICES ASSUME NEW m \in DOMAIN txns', NEW n \in DOMAIN txns',
                        m < n, txns'[m].reverted_by # 0, txns'[n].op # "REVERT",
                        n < txns'[m].reverted_by
                 PROVE  /\ txns'[n].reverted_by # 0
                        /\ txns'[n].reverted_by < txns'[m].reverted_by
      BY DEF LastInFirstOut
    <3>1. PICK s : s = call[h].stamp /\ s = clock /\ clock \in Nat
      BY <2>1, <2>3 DEF Commits, AloneOK, TypeOK
    <3>2. m \in DOMAIN txns /\ txns'[m] = txns[m]
      BY <2>3 DEF Commits
    <3>3. txns[m].reverted_by \in 1..clock /\ txns[m].reverted_by # s
      BY <1>2, <2>1, <2>3, <3>1, <3>2 DEF Commits, RevertRecorded, TypeOK
    <3>4. n # s
      BY <3>1, <3>2, <3>3
    <3>5. n \in DOMAIN txns /\ txns'[n] = txns[n]
      BY <2>3, <3>1, <3>4 DEF Commits
    <3> QED
      BY <1>2, <3>2, <3>5 DEF LastInFirstOut
  <2>4. ASSUME NEW h \in Handlers, NEW k \in call[h].todo, Reverts(h, k)
        PROVE  LastInFirstOut'
    <3> SUFFICES ASSUME NEW m \in DOMAIN txns', NEW n \in DOMAIN txns',
                        m < n, txns'[m].reverted_by # 0, txns'[n].op # "REVERT",
                        n < txns'[m].reverted_by
                 PROVE  /\ txns'[n].reverted_by # 0
                        /\ txns'[n].reverted_by < txns'[m].reverted_by
      BY DEF LastInFirstOut
    <3>1. PICK s : /\ s = call[h].stamp /\ s = clock /\ clock \in Nat
                   /\ s \notin DOMAIN txns /\ DOMAIN txns \subseteq 1..clock
      BY <2>1, <2>4 DEF Reverts, AloneOK, TypeOK
    <3>2. m \in DOMAIN txns /\ n \in DOMAIN txns /\ txns'[n].op = txns[n].op
      BY <2>4, <3>1 DEF Reverts
    <3>3. /\ k \in Undoable /\ \A j \in Undoable : j <= k
      <4>1. /\ k \in call[h].todo /\ call[h].todo \subseteq Undoable
            /\ \A j \in call[h].todo : j <= k
            /\ \A i \in call[h].todo, j \in Undoable \ call[h].todo : j < i
        BY <2>1, <2>4 DEF Reverts, AloneOK, NextToRevert
      <4> QED
        BY <4>1, <3>1 DEF Undoable
    <3>4. \A j \in DOMAIN txns : txns[j].reverted_by # 0 => txns[j].reverted_by < s
      BY <1>2, <3>1 DEF RevertRecorded
    <3>5. CASE m = k
      <4>1. n \notin Undoable /\ n # k /\ txns'[m].reverted_by = s
        BY <2>4, <3>1, <3>2, <3>3, <3>5 DEF Reverts
      <4>2. txns'[n] = txns[n] /\ txns[n].reverted_by # 0
        BY <2>4, <3>2, <4>1 DEF Reverts, Undoable
      <4> QED
        BY <3>2, <3>4, <4>1, <4>2
    <3>6. CASE m # k
      <4>1. txns'[m] = txns[m]
        BY <2>4, <3>2, <3>6 DEF Reverts
      <4>2. txns[n].reverted_by # 0 /\ txns[n].reverted_by < txns[m].reverted_by
        BY <1>2, <3>2, <4>1 DEF LastInFirstOut
      <4>3. n # k
        BY <3>3, <4>2 DEF Undoable
      <4> QED
        BY <2>4, <3>2, <4>1, <4>2, <4>3 DEF Reverts
    <3> QED
      BY <3>5, <3>6
  <2> QED
    BY <1>2, <2>1, <2>2, <2>3, <2>4, StepKinds
<1> QED
  BY SequentialInvariant, RevertsAreRecorded, <1>1, <1>2, PTL DEF Spec

-----------------------------------------------------------------------------
(* Sequential calls implement the journal *)

\* What the queries show of row r, and the journal entry of transaction n.
ViewOf(r)  == IF Live(r) THEN rows[r].image ELSE NULL
EntryOf(n) == [at |-> n, row |-> txns[n].row, from |-> txns[n].before, to |-> txns[n].after]

ClockBounded == clock \in 0..MaxClock

\* No stamp is drawn beyond the bound.
LEMMA ClockStaysBounded == Spec => []ClockBounded
<1>1. Init => ClockBounded
  BY BoundAssumption DEF Init, ClockBounded
<1>2. ClockBounded /\ [Next]_vars => ClockBounded'
  <2>1. [Next]_vars => clock' = clock \/ (clock < MaxClock /\ clock' = clock + 1)
    BY DEF Next, vars, BeginCreate, BeginUpdate, BeginDelete, BeginUndo, Send,
           CommitCreate, CommitUpdate, CommitDelete, CommitRevert, Fail
  <2> QED
    BY <2>1, BoundAssumption DEF ClockBounded
<1> QED
  BY <1>1, <1>2, PTL DEF Spec

\* A commit is one change of the journal.
LEMMA CommitIsAChange ==
  ASSUME Sequential, SequentialInv, ClockBounded, NEW h \in Handlers, Commits(h)
  PROVE  Journal!Next
<1>0. PICK c, s, r : c = call[h] /\ s = c.stamp /\ r = c.row
  OBVIOUS
<1>1. /\ TypeOK /\ CallOK(h) /\ AloneOK(h) /\ RowsAndLogAgree
  BY DEF SequentialInv, StoreInv, CallInv, AloneInv
<1>2. /\ s \in 1..MaxClock /\ s \notin DOMAIN txns /\ c.op \in {"CREATE", "UPDATE", "DELETE"}
      /\ \A m \in DOMAIN txns : m < s
      /\ DOMAIN txns' = DOMAIN txns \cup {s}
      /\ \A m \in DOMAIN txns : txns'[m] = txns[m]
      /\ txns'[s] = [op |-> c.op, row |-> r, before |-> c.before,
                     after |-> c.after, reverted_by |-> 0]
      /\ r \in 1..MaxClock
  <2>1. /\ s = clock /\ clock \in Nat /\ DOMAIN txns \subseteq 1..clock
        /\ s \notin DOMAIN txns /\ s \in 1..clock
    BY <1>0, <1>1 DEF Commits, AloneOK, TypeOK
  <2>2. r \in 1..clock
    BY <1>0, <1>1, <2>1 DEF Commits, CallOK
  <2> QED
    BY <1>0, <2>1, <2>2, BoundAssumption DEF Commits, ClockBounded
<1>3. Undoable' = Undoable \cup {s} /\ \A n \in Undoable : EntryOf(n)' = EntryOf(n)
  BY <1>2 DEF Undoable, EntryOf
<1>4. EntryOf(s)' = [at |-> s, row |-> r, from |-> c.before, to |-> c.after]
  BY <1>2 DEF EntryOf
<1>5. /\ c.before = ViewOf(r) /\ ViewOf(r)' = c.after
      /\ \A q : q # r => ViewOf(q)' = ViewOf(q)
      /\ c.before # NULL \/ c.after # NULL
      /\ c.after \in Image \cup {NULL}
  <2>1. CASE c.op = "CREATE"
    <3>1. r \notin DOMAIN rows /\ c.before = NULL /\ c.after \in Image
      BY <1>0, <1>1, <1>2, <2>1 DEF CallOK, AloneOK, RowsAndLogAgree
    <3>2. r \in DOMAIN rows' /\ RowBecomes(r, c.after, FALSE)
      BY <1>0, <2>1 DEF Commits
    <3> QED
      BY <3>1, <3>2, NullAssumption DEF RowBecomes, ViewOf, Live
  <2>2. CASE c.op \in {"UPDATE", "DELETE"}
    <3>1. r \in DOMAIN rows /\ Live(r) /\ c.before = rows[r].image /\ rows[r].image \in Image
      BY <1>0, <1>1, <2>2 DEF AloneOK, Live, TypeOK, Row
    <3>2. ~rows[r].deleted /\ rows[r].deleted = FALSE
      BY <1>1, <3>1 DEF Live, TypeOK, Row
    <3>3. CASE c.op = "UPDATE"
      <4>1. RowBecomes(r, c.after, FALSE) /\ DOMAIN rows' = DOMAIN rows /\ c.after \in Image
        BY <1>0, <1>1, <3>2, <3>3 DEF Commits, CallOK
      <4> QED
        BY <3>1, <4>1, NullAssumption DEF RowBecomes, ViewOf, Live
    <3>4. CASE c.op = "DELETE"
      <4>1. /\ RowBecomes(r, rows[r].image, TRUE) /\ DOMAIN rows' = DOMAIN rows
            /\ c.after = NULL
        BY <1>0, <1>1, <3>4 DEF Commits, AloneOK
      <4> QED
        BY <3>1, <4>1, NullAssumption DEF RowBecomes, ViewOf, Live
    <3> QED
      BY <2>2, <3>3, <3>4
  <2> QED
    BY <1>2, <2>1, <2>2
<1>6. Journal!Change(s, r, c.after)
  <2>1. \A e \in {EntryOf(n) : n \in Undoable} : e.at < s
    BY <1>2 DEF EntryOf, Undoable
  <2>2. [q \in 1..MaxClock |-> ViewOf(q)]'
            = [[q \in 1..MaxClock |-> ViewOf(q)] EXCEPT ![r] = c.after]
    BY <1>5
  <2>3. {EntryOf(n) : n \in Undoable}' = {EntryOf(n) : n \in Undoable}
            \cup {[at |-> s, row |-> r, from |-> c.before, to |-> c.after]}
    BY <1>3, <1>4
  <2> QED
    BY <1>2, <1>5, <2>1, <2>2, <2>3 DEF Journal!Change, EntryOf, ViewOf
<1> QED
  BY <1>2, <1>5, <1>6 DEF Journal!Next, Journal!Shown

\* A turn of undo is one undo of the journal.
LEMMA RevertIsAnUndo ==
  ASSUME Sequential, SequentialInv, NEW h \in Handlers, NEW n \in call[h].todo,
         Reverts(h, n)
  PROVE  Journal!Next
<1>0. PICK s, t, r : s = call[h].stamp /\ t = txns[n] /\ r = t.row
  OBVIOUS
<1>1. /\ TypeOK /\ AloneOK(h) /\ RowsAndLogAgree /\ Chained /\ UndoExact
  BY DEF SequentialInv, StoreInv, AloneInv
<1>2. n \in Undoable /\ \A m \in Undoable : m <= n
  <2>1. /\ n \in call[h].todo /\ call[h].todo \subseteq Undoable
        /\ \A m \in call[h].todo : m <= n
        /\ \A k \in call[h].todo, m \in Undoable \ call[h].todo : m < k
    BY <1>1 DEF Reverts, AloneOK, NextToRevert
  <2>2. \A m \in Undoable : m \in Nat
    BY <1>1 DEF Undoable, TypeOK
  <2> QED
    BY <2>1, <2>2
<1>3. /\ Undoable' = Undoable \ {n}
      /\ \A m \in Undoable \ {n} : EntryOf(m)' = EntryOf(m)
  <2>1. /\ s # 0 /\ DOMAIN txns' = DOMAIN txns \cup {s} /\ s \notin DOMAIN txns
        /\ \A m \in DOMAIN txns \ {n} : txns'[m] = txns[m]
        /\ txns'[n].reverted_by = s /\ txns'[s].op = "REVERT"
    BY <1>0 DEF Reverts
  <2> QED
    BY <2>1 DEF Undoable, EntryOf
<1>4. /\ r \in DOMAIN rows /\ t.op \in {"CREATE", "UPDATE", "DELETE"}
      /\ DOMAIN rows' = DOMAIN rows
      /\ \A q \in DOMAIN rows \ {r} : rows'[q] = rows[q]
      /\ t.op = "CREATE" => rows'[r].deleted
      /\ t.op = "DELETE" => rows'[r].image = rows[r].image /\ ~rows'[r].deleted
      /\ t.op = "UPDATE" => rows'[r].image = t.before /\ rows'[r].deleted = rows[r].deleted
  BY <1>0, <1>1 DEF Reverts, RowBecomes, RowsAndLogAgree
<1>5. Shows(r, t)
  <2>1. n \in Standing(r)
    BY <1>0, <1>2 DEF Standing
  <2>2. PICK m \in Standing(r) : IsNewest(m, Standing(r)) /\ Shows(r, txns[m])
    BY <1>1, <1>4, <2>1 DEF UndoExact
  <2>3. m = n
    BY <1>1, <1>2, <2>1, <2>2 DEF IsNewest, Standing, Undoable, TypeOK
  <2> QED
    BY <1>0, <2>2, <2>3
<1>6. ViewOf(r)' = t.before /\ \A q : q # r => ViewOf(q)' = ViewOf(q)
  <2>1. CASE t.op = "CREATE"
    <3>1. t.before = NULL
      BY <1>0, <1>1, <1>2, <2>1 DEF Chained
    <3> QED
      BY <1>4, <2>1, <3>1 DEF ViewOf, Live
  <2>2. CASE t.op = "DELETE"
    BY <1>4, <1>5, <2>2 DEF ViewOf, Live, Shows
  <2>3. CASE t.op = "UPDATE"
    BY <1>4, <1>5, <2>3 DEF ViewOf, Live, Shows
  <2> QED
    BY <1>4, <2>1, <2>2, <2>3
<1>7. PICK e : e = EntryOf(n)
  OBVIOUS
<1>8. Journal!Undo(e)
  <2>1. \A f \in {EntryOf(m) : m \in Undoable} : f.at <= e.at
    BY <1>2, <1>7 DEF EntryOf
  <2>2. e.row = r /\ e.from = t.before
    BY <1>0, <1>7 DEF EntryOf
  <2>3. [q \in 1..MaxClock |-> ViewOf(q)]'
            = [[q \in 1..MaxClock |-> ViewOf(q)] EXCEPT ![r] = t.before]
    BY <1>6
  <2>4. {EntryOf(m) : m \in Undoable}' = {EntryOf(m) : m \in Undoable} \ {e}
    <3>1. \A m \in Undoable \ {n} : EntryOf(m) # e
      BY <1>7 DEF EntryOf
    <3>2. {EntryOf(m) : m \in Undoable}' = {EntryOf(m) : m \in Undoable \ {n}}
      BY <1>3
    <3> QED
      BY <1>2, <1>7, <3>1, <3>2
  <2> QED
    BY <2>1, <2>2, <2>3, <2>4 DEF Journal!Undo, EntryOf, ViewOf
<1>9. e \in {[at |-> m, row |-> txns[m].row, from |-> txns[m].before,
             to |-> txns[m].after] : m \in Undoable}
  BY <1>2, <1>7 DEF EntryOf
<1> QED
  BY <1>8, <1>9 DEF Journal!Next

\* When calls run one after the other, the rows a caller sees and the
\* transactions it can undo are a journal: a change enters it, an undo takes
\* the newest change back, and nothing else is ever visible.
THEOREM SequentialCallsImplementJournal == ASSUME Sequential PROVE Spec => ImplementsJournal
<1>1. Init => Journal!Init
  BY DEF Init, Journal!Init, Live, Undoable
<1>2. ASSUME SequentialInv, ClockBounded, [Next]_vars
      PROVE  [Journal!Next]_<<[r \in 1..MaxClock |-> IF Live(r) THEN rows[r].image ELSE NULL],
                              {[at |-> n, row |-> txns[n].row, from |-> txns[n].before,
                                to |-> txns[n].after] : n \in Undoable}>>
  <2>1. CASE UNCHANGED <<rows, txns>>
    BY <2>1 DEF Live, Undoable
  <2>2. ASSUME NEW h \in Handlers, Commits(h)
        PROVE  Journal!Next
    BY <1>2, <2>2, CommitIsAChange
  <2>3. ASSUME NEW h \in Handlers, NEW n \in call[h].todo, Reverts(h, n)
        PROVE  Journal!Next
    BY <1>2, <2>3, RevertIsAnUndo
  <2> QED
    BY <1>2, <2>1, <2>2, <2>3, StepKinds DEF SequentialInv
<1> QED
  BY SequentialInvariant, ClockStaysBounded, <1>1, <1>2, PTL
     DEF Spec, ImplementsJournal, Journal!Spec
=============================================================================
