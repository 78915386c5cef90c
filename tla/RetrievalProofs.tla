---------------------------- MODULE RetrievalProofs ----------------------------
(***************************************************************************)
(* What a client reads back, for any number of handlers, rows, commits and *)
(* pages of any size, and any scores.                                      *)
(*                                                                         *)
(* StoreInv, CallInv and VectorInv follow each vector from the row to the  *)
(* index: there is one call that is about to write it, with the text of    *)
(* the row, or it is there.  WalkInv says what a walk has shown (of the    *)
(* list) or may show (of a search), QuietInv that a search is at a place   *)
(* of one ranking while nothing changes.  ByScoreRanks is what they need   *)
(* of the order: i - 1 ids come before the i-th, and every id has a rank.  *)
(***************************************************************************)
EXTENDS Retrieval, FiniteSetTheorems, SequenceTheorems, TLAPS

-----------------------------------------------------------------------------
(* The ranking of a score *)

\* A score that the module ranks: finitely many ids, with a number each.
Scores(f) == IsFiniteSet(DOMAIN f) /\ \A r \in DOMAIN f : r \in Int /\ f[r] \in Int

\* The ids that are ranked before r, and how many they are.
Above(f, r) == {q \in DOMAIN f : Before(f, q, r)}
Rank(f)     == [r \in DOMAIN f |-> Cardinality(Above(f, r))]

LEMMA BeforeIsAnOrder ==
  ASSUME NEW f, Scores(f), NEW a \in DOMAIN f, NEW b \in DOMAIN f, NEW c \in DOMAIN f
  PROVE  /\ ~Before(f, a, a)
         /\ Before(f, a, b) /\ Before(f, b, c) => Before(f, a, c)
         /\ a = b \/ Before(f, a, b) \/ Before(f, b, a)
  BY DEF Scores, Before

LEMMA RankInRange ==
  ASSUME NEW f, Scores(f), NEW r \in DOMAIN f
  PROVE  /\ Cardinality(DOMAIN f) \in Nat
         /\ Rank(f)[r] \in 0..(Cardinality(DOMAIN f) - 1)
<1> DEFINE D == DOMAIN f
<1>1. IsFiniteSet(D) /\ Cardinality(D) \in Nat BY FS_CardinalityType DEF Scores
<1>2. Cardinality(D \ {r}) = Cardinality(D) - 1 /\ IsFiniteSet(D \ {r}) BY <1>1, FS_RemoveElement
<1>3. Above(f, r) \in SUBSET (D \ {r}) BY BeforeIsAnOrder DEF Above
<1>4. IsFiniteSet(Above(f, r)) /\ Cardinality(Above(f, r)) <= Cardinality(D \ {r})
  BY <1>2, <1>3, FS_Subset
<1>5. Cardinality(Above(f, r)) \in Nat BY <1>4, FS_CardinalityType
<1> QED BY <1>1, <1>2, <1>4, <1>5 DEF Rank

LEMMA RankIncreases ==
  ASSUME NEW f, Scores(f), NEW a \in DOMAIN f, NEW b \in DOMAIN f, Before(f, a, b)
  PROVE  Rank(f)[a] < Rank(f)[b]
<1>1. IsFiniteSet(Above(f, b))
  BY FS_Subset DEF Scores, Above
<1>2. Above(f, a) \cup {a} \in SUBSET Above(f, b)
  BY BeforeIsAnOrder DEF Above
<1>3. a \notin Above(f, a) BY BeforeIsAnOrder DEF Above
<1>4. IsFiniteSet(Above(f, a)) BY <1>1, <1>2, FS_Subset
<1>5. Cardinality(Above(f, a) \cup {a}) = Cardinality(Above(f, a)) + 1
  BY <1>3, <1>4, FS_AddElement
<1>6. Cardinality(Above(f, a) \cup {a}) <= Cardinality(Above(f, b))
  BY <1>1, <1>2, FS_Subset
<1> QED BY <1>5, <1>6, <1>4, <1>1, FS_CardinalityType DEF Rank

LEMMA RankIsInjective ==
  ASSUME NEW f, Scores(f), NEW a \in DOMAIN f, NEW b \in DOMAIN f, Rank(f)[a] = Rank(f)[b]
  PROVE  a = b
<1>1. Rank(f)[a] \in Int /\ Rank(f)[b] \in Int BY RankInRange
<1>2. ~Before(f, a, b) /\ ~Before(f, b, a) BY <1>1, RankIncreases
<1> QED BY <1>2, BeforeIsAnOrder

LEMMA EveryRankIsTaken ==
  ASSUME NEW f, Scores(f), NEW i \in 1..Cardinality(DOMAIN f)
  PROVE  \E r \in DOMAIN f : Rank(f)[r] = i - 1
<1> DEFINE D == DOMAIN f
           n == Cardinality(D)
           T == 0..(n - 1)
<1>1. IsFiniteSet(D) /\ n \in Nat BY FS_CardinalityType DEF Scores
<1>2. IsFiniteSet(T) /\ Cardinality(T) = n
  <2>1. \A k \in Nat : k - 1 \in Int /\ (IF 0 > k - 1 THEN 0 ELSE (k - 1) - 0 + 1) = k
    OBVIOUS
  <2>2. \A b \in Int : /\ IsFiniteSet(0..b)
                       /\ Cardinality(0..b) = IF 0 > b THEN 0 ELSE b - 0 + 1
    BY FS_Interval
  <2> QED BY <1>1, <2>1, <2>2
<1>3. Rank(f) \in [D -> T] BY RankInRange DEF Rank
<1>4. Rank(f) \in Injection(D, T) BY <1>3, RankIsInjective DEF Injection, IsInjective
<1>5. Rank(f) \in Surjection(D, T) BY <1>1, <1>2, <1>4, FS_Injection
<1>6. i - 1 \in T BY <1>1
<1> QED BY <1>5, <1>6 DEF Surjection

\* ByScore lists the ids of a score, each in one place, the best first.
LEMMA ByScoreRanks ==
  ASSUME NEW f, Scores(f)
  PROVE  /\ Cardinality(DOMAIN f) \in Nat
         /\ DOMAIN ByScore(f) = 1..Cardinality(DOMAIN f)
         /\ ByScore(f) \in Seq(DOMAIN f) /\ Len(ByScore(f)) = Cardinality(DOMAIN f)
         /\ \A i, j \in DOMAIN ByScore(f) :
               i < j => Before(f, ByScore(f)[i], ByScore(f)[j])
         /\ \A r \in DOMAIN f : \E i \in DOMAIN ByScore(f) : ByScore(f)[i] = r
<1> DEFINE n == Cardinality(DOMAIN f)
           s == ByScore(f)
<1>1. n \in Nat BY FS_CardinalityType DEF Scores
<1>2. \A i \in 1..n : s[i] \in DOMAIN f /\ Rank(f)[s[i]] = i - 1
  <2> TAKE i \in 1..n
  <2>1. \E r \in DOMAIN f : Cardinality({q \in DOMAIN f : Before(f, q, r)}) = i - 1
    BY EveryRankIsTaken DEF Rank, Above
  <2>2. s[i] = CHOOSE r \in DOMAIN f : Cardinality({q \in DOMAIN f : Before(f, q, r)}) = i - 1
    BY DEF ByScore
  <2>3. s[i] \in DOMAIN f /\ Cardinality({q \in DOMAIN f : Before(f, q, s[i])}) = i - 1
    BY <2>1, <2>2
  <2> QED BY <2>3 DEF Rank, Above
<1>3. DOMAIN s = 1..n BY DEF ByScore
<1>4. s \in Seq(DOMAIN f) /\ Len(s) = n
  <2>1. s \in [1..n -> DOMAIN f] BY <1>2 DEF ByScore
  <2> QED BY <2>1, <1>1, IsASeq
<1>5. ASSUME NEW i \in 1..n, NEW j \in 1..n, i < j PROVE Before(f, s[i], s[j])
  <2>1. Rank(f)[s[i]] < Rank(f)[s[j]] BY <1>1, <1>2, <1>5
  <2>2. ~Before(f, s[j], s[i])
    <3> SUFFICES ASSUME Before(f, s[j], s[i]) PROVE FALSE OBVIOUS
    <3>1. Rank(f)[s[j]] < Rank(f)[s[i]] BY <1>2, RankIncreases
    <3>2. Rank(f)[s[i]] \in Int /\ Rank(f)[s[j]] \in Int BY <1>1, <1>2
    <3> QED BY <2>1, <3>1, <3>2
  <2>3. s[i] # s[j]
    <3>1. Rank(f)[s[i]] = i - 1 /\ Rank(f)[s[j]] = j - 1 BY <1>2
    <3>2. i - 1 # j - 1 BY <1>1, <1>5
    <3> QED BY <3>1, <3>2
  <2> QED BY <2>2, <2>3, <1>2, BeforeIsAnOrder
<1>6. ASSUME NEW r \in DOMAIN f PROVE \E i \in 1..n : s[i] = r
  <2>1. Rank(f)[r] \in 0..(n - 1) BY RankInRange
  <2>2. Rank(f)[r] + 1 \in 1..n /\ (Rank(f)[r] + 1) - 1 = Rank(f)[r] BY <2>1, <1>1
  <2>3. Rank(f)[s[Rank(f)[r] + 1]] = Rank(f)[r] /\ s[Rank(f)[r] + 1] \in DOMAIN f BY <2>2, <1>2
  <2>4. s[Rank(f)[r] + 1] = r BY <2>3, RankIsInjective
  <2> QED BY <2>2, <2>4
<1> QED BY <1>1, <1>3, <1>4, <1>5, <1>6

\* Take keeps the first n elements.
LEMMA TakeIsInitial ==
  ASSUME NEW S, NEW s \in Seq(S), NEW n \in Nat
  PROVE  /\ Take(s, n) \in Seq(S)
         /\ Len(Take(s, n)) = IF n < Len(s) THEN n ELSE Len(s)
         /\ \A i \in 1..Len(Take(s, n)) : Take(s, n)[i] = s[i]
<1>1. Len(s) \in Nat OBVIOUS
<1> QED BY <1>1 DEF Take

-----------------------------------------------------------------------------
(* What is known of the entries, the log, the index and the calls *)

Ops    == {"CREATE", "UPDATE", "DELETE"}
Change == [op: Ops, row: Nat, text: Texts]
Row    == [text: Texts, deleted: BOOLEAN]

\* Ids are drawn in order, and what the log and the index speak of is there.
StoreInv ==
    /\ drawn \in Nat /\ drawn <= MaxRows
    /\ DOMAIN rows \subseteq 1..drawn
    /\ \A r \in DOMAIN rows : rows[r] \in Row
    /\ log \in Seq(Change)
    /\ \A i \in 1..Len(log) : log[i].row \in DOMAIN rows
    /\ DOMAIN index \subseteq DOMAIN rows
    /\ \A r \in DOMAIN index : index[r] \in Texts

\* What a call writes: the row of an id of its own, or a row that is there.
Fits(c) ==
    /\ DOMAIN c = {"op", "row", "text", "before"}
    /\ c.op \in {"idle", "store", "ingest", "update", "delete", "embed"}
    /\ c.op # "idle" => c.row \in 1..drawn
    /\ c.op \in {"store", "ingest", "update", "embed"} => c.text \in Texts
    /\ c.op \in {"update", "delete"} => c.before \in Texts
    /\ c.op \in {"store", "ingest"} => c.row \notin DOMAIN rows
    /\ c.op \in {"update", "delete", "embed"} => c.row \in DOMAIN rows

Inserts(h) == call[h].op \in {"store", "ingest"}
Embeds(h, r) == call[h].op = "embed" /\ call[h].row = r

CallInv ==
    /\ DOMAIN call = Handlers
    /\ \A h \in Handlers : Fits(call[h])
    /\ \A g, h \in Handlers : Inserts(g) /\ Inserts(h) /\ call[g].row = call[h].row => g = h

\* The vector of an entry is of its text, unless one call is about to write it, with
\* that text.
Current(r) ==
    /\ \A g, h \in Handlers : Embeds(g, r) /\ Embeds(h, r) => g = h
    /\ \A h \in Handlers : Embeds(h, r) => call[h].text = rows[r].text
    /\ (\A h \in Handlers : ~Embeds(h, r)) => r \in DOMAIN index /\ index[r] = rows[r].text

VectorInv == \A r \in DOMAIN rows \ behind : Current(r)

\* Call h becomes d, the others stay.
Now(h, d) ==
    /\ call'[h] = d
    /\ \A g \in Handlers \ {h} : call'[g] = call[g]
    /\ DOMAIN call' = Handlers

LEMMA NowCall ==
  ASSUME CallInv, NEW h \in Handlers, NEW d, call' = [call EXCEPT ![h] = d]
  PROVE  Now(h, d)
  BY DEF CallInv, Now

\* A call still fits when more ids are drawn and only its own row could come.
LEMMA FitsStays ==
  ASSUME StoreInv, NEW c, Fits(c), drawn' \in Nat, drawn <= drawn',
         DOMAIN rows \subseteq DOMAIN rows',
         c.op \in {"store", "ingest"} => c.row \notin DOMAIN rows'
  PROVE  Fits(c)'
  BY DEF Fits, StoreInv

\* The other calls stay as they were, so the calls fit when the new one does.
LEMMA CallsFit ==
  ASSUME StoreInv, CallInv, NEW h \in Handlers, NEW d, Now(h, d), Fits(d)',
         drawn' \in Nat, drawn <= drawn', DOMAIN rows \subseteq DOMAIN rows',
         \A g \in Handlers \ {h} : Inserts(g) =>
            /\ call[g].row \notin DOMAIN rows'
            /\ d.op \in {"store", "ingest"} => call[g].row # d.row
  PROVE  CallInv'
<1>1. DOMAIN call' = Handlers BY DEF Now
<1>2. ASSUME NEW g \in Handlers PROVE Fits(call[g])'
  <2>1. CASE g = h
    <3>1. call'[g] = d BY <2>1 DEF Now
    <3> QED BY <3>1 DEF Fits
  <2>2. CASE g # h
    <3>1. PICK c : c = call[g] OBVIOUS
    <3>2. Fits(c) BY <3>1 DEF CallInv, Fits
    <3>3. c.op \in {"store", "ingest"} => c.row \notin DOMAIN rows'
      BY <2>2, <3>1 DEF Inserts
    <3>4. Fits(c)' BY <3>2, <3>3, FitsStays
    <3>5. call'[g] = c BY <2>2, <3>1 DEF Now
    <3> QED BY <3>4, <3>5 DEF Fits
  <2> QED BY <2>1, <2>2
<1>3. \A f, g \in Handlers : (Inserts(f) /\ Inserts(g) /\ call[f].row = call[g].row => f = g)'
  BY DEF CallInv, Now, Inserts
<1> QED BY <1>1, <1>2, <1>3 DEF CallInv

LEMMA CreateBegins ==
  ASSUME StoreInv, CallInv, VectorInv, NEW h \in Handlers, NEW text \in Texts,
         NEW op \in {"store", "ingest"}, BeginCreate(h, op, text)
  PROVE  StoreInv' /\ CallInv' /\ VectorInv'
<1>1. PICK d : d = Call(op, drawn + 1, text, NoText) OBVIOUS
<1>2. /\ drawn' = drawn + 1 /\ drawn \in Nat /\ drawn < MaxRows
      /\ UNCHANGED <<rows, log, index, behind>>
      /\ call[h] = Idle
  BY DEF BeginCreate, StoreInv
<1>3. Now(h, d) BY <1>1, NowCall DEF BeginCreate
<1>4. d.op = op /\ d.row = drawn + 1 /\ d.text = text /\ DOMAIN d = {"op", "row", "text", "before"}
  BY <1>1 DEF Call
<1>5. drawn' \in Nat /\ drawn <= drawn' /\ drawn' <= MaxRows /\ 1..drawn \subseteq 1..drawn'
      /\ drawn + 1 \in 1..drawn' /\ drawn + 1 \notin 1..drawn
  BY <1>2, ScoreAssumption
<1>6. drawn + 1 \notin DOMAIN rows BY <1>5 DEF StoreInv
<1>7. StoreInv' BY <1>2, <1>5 DEF StoreInv
<1>8. Fits(d)' BY <1>2, <1>4, <1>5, <1>6 DEF Fits
<1>9. \A g \in Handlers \ {h} : Inserts(g) => call[g].row # d.row /\ call[g].row \notin DOMAIN rows'
  BY <1>2, <1>4, <1>5 DEF CallInv, Fits, Inserts
<1>10. CallInv' BY <1>2, <1>3, <1>5, <1>8, <1>9, CallsFit
<1>11. \A g \in Handlers, r \in DOMAIN rows :
         /\ Embeds(g, r)' <=> Embeds(g, r)
         /\ Embeds(g, r)' => call'[g] = call[g]
  <2>1. d.op # "embed" /\ Idle.op # "embed" BY <1>4 DEF Call, Idle
  <2> QED BY <2>1, <1>2, <1>3 DEF Now, Embeds
<1>12. VectorInv'
  <2> SUFFICES ASSUME NEW r \in DOMAIN rows \ behind PROVE Current(r)'
    BY <1>2 DEF VectorInv
  <2>1. Current(r) BY DEF VectorInv
  <2> QED BY <2>1, <1>2, <1>11 DEF Current
<1> QED BY <1>7, <1>10, <1>12

LEMMA ChangeBegins ==
  ASSUME StoreInv, CallInv, VectorInv, NEW h \in Handlers, NEW text,
         NEW op \in {"update", "delete"}, op = "update" => text \in Texts,
         NEW r \in Live, BeginChange(h, op, r, text)
  PROVE  StoreInv' /\ CallInv' /\ VectorInv'
<1>1. PICK d : d = Call(op, r, text, rows[r].text) OBVIOUS
<1>2. UNCHANGED <<drawn, rows, log, index, behind>> /\ call[h] = Idle
  BY DEF BeginChange
<1>3. Now(h, d) BY <1>1, NowCall DEF BeginChange
<1>4. StoreInv' BY <1>2 DEF StoreInv
<1>5. r \in DOMAIN rows /\ rows[r].text \in Texts /\ r \in 1..drawn
  BY DEF Live, StoreInv, Row
<1>6. /\ DOMAIN d = {"op", "row", "text", "before"}
      /\ d.op = op /\ d.row = r /\ d.text = text /\ d.before = rows[r].text
  BY <1>1 DEF Call
<1>7. Fits(d)' BY <1>2, <1>5, <1>6 DEF Fits
<1>8. d.op \notin {"store", "ingest", "embed"} /\ Idle.op # "embed" BY <1>6 DEF Call, Idle
<1>9. \A g \in Handlers \ {h} : Inserts(g) => call[g].row \notin DOMAIN rows'
  BY <1>2 DEF CallInv, Fits, Inserts
<1>10. CallInv' BY <1>2, <1>3, <1>7, <1>8, <1>9, CallsFit DEF StoreInv
<1>11. \A g \in Handlers, q \in DOMAIN rows :
         /\ Embeds(g, q)' <=> Embeds(g, q)
         /\ Embeds(g, q)' => call'[g] = call[g]
  BY <1>8, <1>2, <1>3 DEF Now, Embeds
<1>12. VectorInv'
  <2> SUFFICES ASSUME NEW q \in DOMAIN rows \ behind PROVE Current(q)'
    BY <1>2 DEF VectorInv
  <2>1. Current(q) BY DEF VectorInv
  <2> QED BY <2>1, <1>2, <1>11 DEF Current
<1> QED BY <1>4, <1>10, <1>12

\* The log grows by a change of a row that is there.
LEMMA LogGrows ==
  ASSUME StoreInv, NEW op \in Ops, NEW r, r \in DOMAIN rows', NEW text \in Texts,
         Logged(op, r, text), DOMAIN rows \subseteq DOMAIN rows', DOMAIN rows' \subseteq Nat
  PROVE  /\ log' \in Seq(Change)
         /\ \A i \in 1..Len(log') : log'[i].row \in DOMAIN rows'
<1>1. PICK t : t = [op |-> op, row |-> r, text |-> text] OBVIOUS
<1>2. t \in Change /\ t.row = r BY <1>1 DEF Change
<1>3. log \in Seq(Change) /\ log' = Append(log, t) BY <1>1 DEF StoreInv, Logged
<1>4. log' \in Seq(Change) /\ Len(log') = Len(log) + 1 BY <1>2, <1>3
<1>5. ASSUME NEW i \in 1..Len(log') PROVE log'[i].row \in DOMAIN rows'
  <2>1. CASE i = Len(log) + 1 BY <2>1, <1>2, <1>3
  <2>2. CASE i # Len(log) + 1
    <3>1. i \in 1..Len(log) /\ log'[i] = log[i] BY <2>2, <1>3, <1>4, <1>5
    <3> QED BY <3>1 DEF StoreInv
  <2> QED BY <2>1, <2>2
<1> QED BY <1>4, <1>5

LEMMA CreateCommits ==
  ASSUME StoreInv, CallInv, VectorInv, NEW h \in Handlers, CommitCreate(h)
  PROVE  StoreInv' /\ CallInv' /\ VectorInv'
<1>1. PICK c : c = call[h] OBVIOUS
<1>2. Fits(c) /\ c.op \in {"store", "ingest"} BY <1>1 DEF CallInv, CommitCreate
<1>3. /\ c.row \in 1..drawn /\ c.row \notin DOMAIN rows /\ c.text \in Texts
      /\ DOMAIN rows \subseteq 1..drawn
  BY <1>2 DEF Fits, StoreInv
<1>4. PICK d : d = IF c.op = "store" THEN Call("embed", c.row, c.text, NoText) ELSE Idle OBVIOUS
<1>5. /\ UNCHANGED <<drawn, index>>
      /\ Logged("CREATE", c.row, c.text)
      /\ behind' = IF c.op = "ingest" THEN behind \cup {c.row} ELSE behind
  BY <1>1 DEF CommitCreate
<1>6. Now(h, d) BY <1>1, <1>4, NowCall DEF CommitCreate
<1>7. /\ DOMAIN rows' = DOMAIN rows \cup {c.row}
      /\ rows'[c.row] = [text |-> c.text, deleted |-> FALSE]
      /\ \A r \in DOMAIN rows : rows'[r] = rows[r]
  BY <1>1, <1>3 DEF CommitCreate, With
<1>8. StoreInv'
  <2>1. /\ log' \in Seq(Change)
        /\ \A i \in 1..Len(log') : log'[i].row \in DOMAIN rows'
    BY <1>3, <1>5, <1>7, LogGrows DEF Ops
  <2>2. \A r \in DOMAIN rows' : rows'[r] \in Row
    <3>1. rows'[c.row] \in Row BY <1>3, <1>7 DEF Row
    <3> QED BY <3>1, <1>7 DEF StoreInv
  <2> QED BY <2>1, <2>2, <1>3, <1>5, <1>7 DEF StoreInv
<1>9. /\ DOMAIN d = {"op", "row", "text", "before"}
      /\ d.op = IF c.op = "store" THEN "embed" ELSE "idle"
      /\ c.op = "store" => d.row = c.row /\ d.text = c.text
  BY <1>4 DEF Call, Idle
<1>10. Fits(d)' BY <1>2, <1>3, <1>5, <1>7, <1>9 DEF Fits
<1>11. \A g \in Handlers \ {h} : Inserts(g) => call[g].row \notin DOMAIN rows'
  <2> SUFFICES ASSUME NEW g \in Handlers \ {h}, Inserts(g) PROVE call[g].row \notin DOMAIN rows'
    OBVIOUS
  <2>1. call[g].row # c.row BY <1>1, <1>2 DEF CallInv, Inserts
  <2>2. call[g].row \notin DOMAIN rows BY DEF CallInv, Fits, Inserts
  <2> QED BY <2>1, <2>2, <1>7
<1>12. CallInv'
  <2>1. d.op \notin {"store", "ingest"} BY <1>9
  <2> QED BY <2>1, <1>5, <1>6, <1>7, <1>10, <1>11, CallsFit DEF StoreInv
<1>13. VectorInv'
  <2> SUFFICES ASSUME NEW r \in DOMAIN rows', r \notin behind' PROVE Current(r)'
    BY DEF VectorInv
  <2>1. CASE r = c.row
    <3>1. c.op = "store" BY <2>1, <1>2, <1>5
    <3>2. \A g \in Handlers \ {h} : ~Embeds(g, r)'
      <4>1. \A g \in Handlers : ~Embeds(g, r) BY <2>1, <1>3 DEF CallInv, Fits, Embeds
      <4> QED BY <4>1, <1>6 DEF Now, Embeds
    <3>3. Embeds(h, r)' /\ call'[h].text = rows'[r].text
      BY <3>1, <2>1, <1>6, <1>7, <1>9 DEF Now, Embeds
    <3> QED BY <3>2, <3>3 DEF Current
  <2>2. CASE r # c.row
    <3>1. r \in DOMAIN rows \ behind /\ rows'[r] = rows[r] BY <2>2, <1>5, <1>7
    <3>2. Current(r) BY <3>1 DEF VectorInv
    <3>3. \A g \in Handlers : /\ Embeds(g, r)' <=> Embeds(g, r)
                              /\ Embeds(g, r)' => call'[g] = call[g]
      <4>1. ~Embeds(h, r) /\ ~Embeds(h, r)' BY <2>2, <1>1, <1>2, <1>6, <1>9 DEF Now, Embeds
      <4> QED BY <4>1, <1>6 DEF Now, Embeds
    <3> QED BY <3>1, <3>2, <3>3, <1>5 DEF Current
  <2> QED BY <2>1, <2>2
<1> QED BY <1>8, <1>12, <1>13

LEMMA UpdateCommits ==
  ASSUME StoreInv, CallInv, VectorInv, NEW h \in Handlers, CommitUpdate(h)
  PROVE  StoreInv' /\ CallInv' /\ VectorInv'
<1>1. PICK c : c = call[h] OBVIOUS
<1>2. Fits(c) /\ c.op = "update" BY <1>1 DEF CallInv, CommitUpdate
<1>3. c.row \in 1..drawn /\ c.row \in DOMAIN rows /\ c.text \in Texts /\ c.before \in Texts
  BY <1>2 DEF Fits
<1>4. PICK d : d = Call("embed", c.row, c.text, NoText) OBVIOUS
<1>5. /\ UNCHANGED <<drawn, index>>
      /\ Logged("UPDATE", c.row, c.before)
      /\ behind' = IF Overlaps(h, c.row) THEN behind \cup {c.row} ELSE behind \ {c.row}
  BY <1>1 DEF CommitUpdate
<1>6. Now(h, d) BY <1>1, <1>4, NowCall DEF CommitUpdate, Embedded
<1>7. /\ DOMAIN rows' = DOMAIN rows
      /\ rows'[c.row] = [rows[c.row] EXCEPT !.text = c.text]
      /\ \A r \in DOMAIN rows \ {c.row} : rows'[r] = rows[r]
  BY <1>1, <1>3 DEF CommitUpdate
<1>8. rows'[c.row] \in Row /\ rows'[c.row].text = c.text BY <1>3, <1>7 DEF StoreInv, Row
<1>9. StoreInv'
  <2>1. /\ log' \in Seq(Change)
        /\ \A i \in 1..Len(log') : log'[i].row \in DOMAIN rows'
    BY <1>3, <1>5, <1>7, LogGrows DEF Ops, StoreInv
  <2>2. \A r \in DOMAIN rows' : rows'[r] \in Row BY <1>7, <1>8 DEF StoreInv
  <2> QED BY <2>1, <2>2, <1>5, <1>7 DEF StoreInv
<1>10. /\ DOMAIN d = {"op", "row", "text", "before"}
       /\ d.op = "embed" /\ d.row = c.row /\ d.text = c.text
  BY <1>4 DEF Call
<1>11. Fits(d)' BY <1>3, <1>5, <1>7, <1>10 DEF Fits
<1>12. \A g \in Handlers \ {h} : Inserts(g) => call[g].row \notin DOMAIN rows'
  BY <1>7 DEF CallInv, Fits, Inserts
<1>13. CallInv'
  <2>1. d.op \notin {"store", "ingest"} BY <1>10
  <2> QED BY <2>1, <1>5, <1>6, <1>7, <1>11, <1>12, CallsFit DEF StoreInv
<1>14. VectorInv'
  <2> SUFFICES ASSUME NEW r \in DOMAIN rows', r \notin behind' PROVE Current(r)'
    BY DEF VectorInv
  <2>1. CASE r = c.row
    <3>1. ~Overlaps(h, r) BY <2>1, <1>5
    <3>2. \A g \in Handlers \ {h} : ~Embeds(g, r)'
      BY <3>1, <1>6 DEF Overlaps, Now, Embeds
    <3>3. Embeds(h, r)' /\ call'[h].text = rows'[r].text
      BY <2>1, <1>6, <1>8, <1>10 DEF Now, Embeds
    <3> QED BY <3>2, <3>3 DEF Current
  <2>2. CASE r # c.row
    <3>1. r \in DOMAIN rows \ behind /\ rows'[r] = rows[r] BY <2>2, <1>5, <1>7
    <3>2. Current(r) BY <3>1 DEF VectorInv
    <3>3. \A g \in Handlers : /\ Embeds(g, r)' <=> Embeds(g, r)
                              /\ Embeds(g, r)' => call'[g] = call[g]
      <4>1. ~Embeds(h, r) /\ ~Embeds(h, r)' BY <2>2, <1>1, <1>2, <1>6, <1>10 DEF Now, Embeds
      <4> QED BY <4>1, <1>6 DEF Now, Embeds
    <3> QED BY <3>1, <3>2, <3>3, <1>5 DEF Current
  <2> QED BY <2>1, <2>2
<1> QED BY <1>9, <1>13, <1>14

LEMMA DeleteCommits ==
  ASSUME StoreInv, CallInv, VectorInv, NEW h \in Handlers, CommitDelete(h)
  PROVE  StoreInv' /\ CallInv' /\ VectorInv'
<1>1. PICK c : c = call[h] OBVIOUS
<1>2. Fits(c) /\ c.op = "delete" BY <1>1 DEF CallInv, CommitDelete
<1>3. c.row \in DOMAIN rows /\ c.before \in Texts BY <1>2 DEF Fits
<1>4. PICK d : d = Idle OBVIOUS
<1>5. UNCHANGED <<drawn, index, behind>> /\ Logged("DELETE", c.row, c.before)
  BY <1>1 DEF CommitDelete
<1>6. Now(h, d) BY <1>1, <1>4, NowCall DEF CommitDelete
<1>7. /\ DOMAIN rows' = DOMAIN rows
      /\ rows'[c.row] = [rows[c.row] EXCEPT !.deleted = TRUE]
      /\ \A r \in DOMAIN rows \ {c.row} : rows'[r] = rows[r]
  BY <1>1, <1>3 DEF CommitDelete
<1>8. rows'[c.row] \in Row /\ rows'[c.row].text = rows[c.row].text
  BY <1>3, <1>7 DEF StoreInv, Row
<1>9. StoreInv'
  <2>1. /\ log' \in Seq(Change)
        /\ \A i \in 1..Len(log') : log'[i].row \in DOMAIN rows'
    BY <1>3, <1>5, <1>7, LogGrows DEF Ops, StoreInv
  <2>2. \A r \in DOMAIN rows' : rows'[r] \in Row BY <1>7, <1>8 DEF StoreInv
  <2> QED BY <2>1, <2>2, <1>5, <1>7 DEF StoreInv
<1>10. DOMAIN d = {"op", "row", "text", "before"} /\ d.op = "idle" BY <1>4 DEF Call, Idle
<1>11. Fits(d)' BY <1>10 DEF Fits
<1>12. \A g \in Handlers \ {h} : Inserts(g) => call[g].row \notin DOMAIN rows'
  BY <1>7 DEF CallInv, Fits, Inserts
<1>13. CallInv'
  <2>1. d.op \notin {"store", "ingest"} BY <1>10
  <2> QED BY <2>1, <1>5, <1>6, <1>7, <1>11, <1>12, CallsFit DEF StoreInv
<1>14. VectorInv'
  <2> SUFFICES ASSUME NEW r \in DOMAIN rows \ behind PROVE Current(r)'
    BY <1>5, <1>7 DEF VectorInv
  <2>1. Current(r) BY DEF VectorInv
  <2>2. rows'[r].text = rows[r].text BY <1>7, <1>8
  <2>3. \A g \in Handlers : /\ Embeds(g, r)' <=> Embeds(g, r)
                            /\ Embeds(g, r)' => call'[g] = call[g]
    <3>1. ~Embeds(h, r) /\ ~Embeds(h, r)' BY <1>1, <1>2, <1>6, <1>10 DEF Now, Embeds
    <3> QED BY <3>1, <1>6 DEF Now, Embeds
  <2> QED BY <2>1, <2>2, <2>3, <1>5 DEF Current
<1> QED BY <1>9, <1>13, <1>14

LEMMA VectorIsWritten ==
  ASSUME StoreInv, CallInv, VectorInv, NEW h \in Handlers, Embed(h)
  PROVE  StoreInv' /\ CallInv' /\ VectorInv'
<1>1. PICK c : c = call[h] OBVIOUS
<1>2. Fits(c) /\ c.op = "embed" BY <1>1 DEF CallInv, Embed
<1>3. c.row \in DOMAIN rows /\ c.text \in Texts BY <1>2 DEF Fits
<1>4. PICK d : d = Idle OBVIOUS
<1>5. UNCHANGED <<drawn, rows, log, behind>> BY DEF Embed
<1>6. Now(h, d) BY <1>4, NowCall DEF Embed
<1>7. /\ DOMAIN index' = DOMAIN index \cup {c.row}
      /\ index'[c.row] = c.text
      /\ \A r \in DOMAIN index \ {c.row} : index'[r] = index[r]
  BY <1>1 DEF Embed, With
<1>8. StoreInv' BY <1>3, <1>5, <1>7 DEF StoreInv
<1>9. DOMAIN d = {"op", "row", "text", "before"} /\ d.op = "idle" BY <1>4 DEF Call, Idle
<1>10. Fits(d)' BY <1>9 DEF Fits
<1>11. \A g \in Handlers \ {h} : Inserts(g) => call[g].row \notin DOMAIN rows'
  BY <1>5 DEF CallInv, Fits, Inserts
<1>12. CallInv'
  <2>1. d.op \notin {"store", "ingest"} BY <1>9
  <2> QED BY <2>1, <1>5, <1>6, <1>10, <1>11, CallsFit DEF StoreInv
<1>13. VectorInv'
  <2> SUFFICES ASSUME NEW r \in DOMAIN rows \ behind PROVE Current(r)'
    BY <1>5 DEF VectorInv
  <2>1. Current(r) BY DEF VectorInv
  <2>2. CASE r = c.row
    <3>1. Embeds(h, r) BY <2>2, <1>1, <1>2 DEF Embeds
    <3>2. c.text = rows[r].text /\ \A g \in Handlers \ {h} : ~Embeds(g, r)
      BY <3>1, <2>1, <1>1 DEF Current
    <3>3. \A g \in Handlers : ~Embeds(g, r)' BY <3>2, <1>6, <1>9 DEF Now, Embeds
    <3> QED BY <3>2, <3>3, <2>2, <1>5, <1>7 DEF Current
  <2>3. CASE r # c.row
    <3>1. \A g \in Handlers : /\ Embeds(g, r)' <=> Embeds(g, r)
                              /\ Embeds(g, r)' => call'[g] = call[g]
      <4>1. ~Embeds(h, r) /\ ~Embeds(h, r)' BY <2>3, <1>1, <1>2, <1>6, <1>9 DEF Now, Embeds
      <4> QED BY <4>1, <1>6 DEF Now, Embeds
    <3> QED BY <3>1, <2>1, <2>3, <1>5, <1>7 DEF Current
  <2> QED BY <2>2, <2>3
<1> QED BY <1>8, <1>12, <1>13

LEMMA VectorIsLost ==
  ASSUME StoreInv, CallInv, VectorInv, NEW h \in Handlers, EmbedFails(h)
  PROVE  StoreInv' /\ CallInv' /\ VectorInv'
<1>1. PICK c : c = call[h] OBVIOUS
<1>2. c.op = "embed" BY <1>1 DEF EmbedFails
<1>3. PICK d : d = Idle OBVIOUS
<1>4. UNCHANGED <<drawn, rows, log, index>> /\ behind' = behind \cup {c.row}
  BY <1>1 DEF EmbedFails
<1>5. Now(h, d) BY <1>3, NowCall DEF EmbedFails
<1>6. StoreInv' BY <1>4 DEF StoreInv
<1>7. DOMAIN d = {"op", "row", "text", "before"} /\ d.op = "idle" BY <1>3 DEF Call, Idle
<1>8. Fits(d)' BY <1>7 DEF Fits
<1>9. \A g \in Handlers \ {h} : Inserts(g) => call[g].row \notin DOMAIN rows'
  BY <1>4 DEF CallInv, Fits, Inserts
<1>10. CallInv'
  <2>1. d.op \notin {"store", "ingest"} BY <1>7
  <2> QED BY <2>1, <1>4, <1>5, <1>8, <1>9, CallsFit DEF StoreInv
<1>11. VectorInv'
  <2> SUFFICES ASSUME NEW r \in DOMAIN rows \ behind, r # c.row PROVE Current(r)'
    BY <1>4 DEF VectorInv
  <2>1. Current(r) BY DEF VectorInv
  <2>2. \A g \in Handlers : /\ Embeds(g, r)' <=> Embeds(g, r)
                            /\ Embeds(g, r)' => call'[g] = call[g]
    <3>1. ~Embeds(h, r) /\ ~Embeds(h, r)' BY <1>1, <1>2, <1>5, <1>7 DEF Now, Embeds
    <3> QED BY <3>1, <1>5 DEF Now, Embeds
  <2> QED BY <2>1, <2>2, <1>4 DEF Current
<1> QED BY <1>6, <1>10, <1>11

LEMMA UndoCommits ==
  ASSUME StoreInv, CallInv, VectorInv, Undo
  PROVE  StoreInv' /\ CallInv' /\ VectorInv'
<1>1. PICK t : t = log[Len(log)] OBVIOUS
<1>2. Len(log) \in Nat /\ Len(log) \in 1..Len(log) BY DEF StoreInv, Undo
<1>3. t \in Change /\ t.row \in DOMAIN rows
  <2>1. t \in Change BY <1>1, <1>2 DEF StoreInv
  <2> QED BY <2>1, <1>1, <1>2 DEF StoreInv
<1>4. t.op \in Ops /\ t.text \in Texts BY <1>3 DEF Change
<1>5. /\ UNCHANGED <<drawn, index, call>>
      /\ log' = SubSeq(log, 1, Len(log) - 1)
      /\ behind' = IF t.op = "UPDATE" THEN behind \cup {t.row} ELSE behind
  BY <1>1 DEF Undo
<1>6. DOMAIN rows' = DOMAIN rows /\ \A r \in DOMAIN rows \ {t.row} : rows'[r] = rows[r]
  <2>1. \E x : rows' = [rows EXCEPT ![t.row] = x] BY <1>1 DEF Undo
  <2> QED BY <2>1
<1>7. rows'[t.row] = CASE t.op = "CREATE" -> [rows[t.row] EXCEPT !.deleted = TRUE]
                       [] t.op = "DELETE" -> [rows[t.row] EXCEPT !.deleted = FALSE]
                       [] t.op = "UPDATE" -> [rows[t.row] EXCEPT !.text = t.text]
  BY <1>1, <1>3 DEF Undo
<1>8. /\ rows'[t.row] \in Row
      /\ t.op # "UPDATE" => rows'[t.row].text = rows[t.row].text
  <2>1. rows[t.row] \in Row BY <1>3 DEF StoreInv
  <2>2. CASE t.op = "CREATE" BY <2>1, <2>2, <1>7 DEF Row
  <2>3. CASE t.op = "DELETE" BY <2>1, <2>3, <1>7 DEF Row
  <2>4. CASE t.op = "UPDATE" BY <2>1, <2>4, <1>4, <1>7 DEF Row
  <2> QED BY <2>2, <2>3, <2>4, <1>4 DEF Ops
<1>9. StoreInv'
  <2>1. log \in Seq(Change) BY DEF StoreInv
  <2>2. PICK k \in Nat : k = Len(log) - 1 BY <1>2
  <2>3. /\ log' \in Seq(Change) /\ Len(log') = k
        /\ \A i \in 1..k : i \in 1..Len(log) /\ log'[i] = log[i]
    <3>1. log' = SubSeq(log, 1, k) /\ k <= Len(log) BY <2>2, <1>2, <1>5
    <3>2. \A s \in Seq(Change) : k <= Len(s) =>
             /\ SubSeq(s, 1, k) \in Seq(Change) /\ Len(SubSeq(s, 1, k)) = k
             /\ \A i \in 1..k : i \in 1..Len(s) /\ SubSeq(s, 1, k)[i] = s[i]
      OBVIOUS
    <3> QED BY <2>1, <3>1, <3>2
  <2>4. \A i \in 1..Len(log') : log'[i].row \in DOMAIN rows'
    BY <2>3, <1>6 DEF StoreInv
  <2>5. \A r \in DOMAIN rows' : rows'[r] \in Row BY <1>6, <1>8 DEF StoreInv
  <2> QED BY <2>3, <2>4, <2>5, <1>5, <1>6 DEF StoreInv
<1>10. CallInv' BY <1>5, <1>6 DEF CallInv, Fits, Inserts
<1>11. VectorInv'
  <2> SUFFICES ASSUME NEW r \in DOMAIN rows \ behind, t.op = "UPDATE" => r # t.row
               PROVE  Current(r)'
    BY <1>5, <1>6 DEF VectorInv
  <2>1. Current(r) BY DEF VectorInv
  <2>2. rows'[r].text = rows[r].text BY <1>6, <1>8
  <2> QED BY <2>1, <2>2, <1>5 DEF Current, Embeds
<1> QED BY <1>9, <1>10, <1>11

StoreVars == <<drawn, rows, log, index, call, behind>>

LEMMA StoresUnchanged ==
  ASSUME StoreInv, CallInv, VectorInv, UNCHANGED StoreVars
  PROVE  StoreInv' /\ CallInv' /\ VectorInv'
<1>1. StoreInv' BY DEF StoreVars, StoreInv
<1>2. CallInv' BY DEF StoreVars, CallInv, Fits, Inserts
<1>3. VectorInv' BY DEF StoreVars, VectorInv, Current, Embeds
<1> QED BY <1>1, <1>2, <1>3

LEMMA StoresStart ==
  ASSUME Init
  PROVE  StoreInv /\ CallInv /\ VectorInv
<1>1. DOMAIN rows = {} /\ DOMAIN index = {} /\ drawn = 0 /\ log = <<>>
  BY DEF Init
<1>2. log \in Seq(Change) /\ Len(log) = 0 BY <1>1
<1>3. StoreInv BY <1>1, <1>2, ScoreAssumption DEF StoreInv
<1>4. CallInv BY DEF Init, CallInv, Fits, Inserts, Idle, Call
<1>5. VectorInv BY <1>1 DEF VectorInv
<1> QED BY <1>3, <1>4, <1>5

LEMMA StoresStep ==
  ASSUME StoreInv, CallInv, VectorInv, [Next]_vars
  PROVE  StoreInv' /\ CallInv' /\ VectorInv'
<1>1. ASSUME NEW h \in Handlers, NEW text \in Texts, NEW op \in {"store", "ingest"},
             BeginCreate(h, op, text)
      PROVE  StoreInv' /\ CallInv' /\ VectorInv'
  BY <1>1, CreateBegins
<1>2. ASSUME NEW h \in Handlers, NEW text \in Texts, NEW r \in Live,
             BeginChange(h, "update", r, text)
      PROVE  StoreInv' /\ CallInv' /\ VectorInv'
  BY <1>2, ChangeBegins
<1>3. ASSUME NEW h \in Handlers, NEW r \in Live, BeginChange(h, "delete", r, NoText)
      PROVE  StoreInv' /\ CallInv' /\ VectorInv'
  BY <1>3, ChangeBegins
<1>4. ASSUME NEW h \in Handlers,
             CommitCreate(h) \/ CommitUpdate(h) \/ CommitDelete(h) \/ Embed(h) \/ EmbedFails(h)
      PROVE  StoreInv' /\ CallInv' /\ VectorInv'
  BY <1>4, CreateCommits, UpdateCommits, DeleteCommits, VectorIsWritten, VectorIsLost
<1>5. ASSUME Undo PROVE StoreInv' /\ CallInv' /\ VectorInv'
  BY <1>5, UndoCommits
<1>6. ASSUME \/ \E kind \in {"list", "search"} : BeginWalk(kind)
             \/ ListPage \/ SearchLexical \/ SearchSemantic \/ SemanticFails
             \/ SearchTerms \/ SearchGraph \/ SearchPage
             \/ UNCHANGED vars
      PROVE  StoreInv' /\ CallInv' /\ VectorInv'
  <2>1. UNCHANGED StoreVars
    BY <1>6 DEF BeginWalk, ListPage, SearchLexical, SearchSemantic, SemanticFails,
                SearchTerms, SearchGraph, SearchPage, vars, StoreVars
  <2> QED BY <2>1, StoresUnchanged
<1> QED BY <1>1, <1>2, <1>3, <1>4, <1>5, <1>6 DEF Next

\* Every entry that no known way leaves behind has in the index the vector of what it
\* says now, whatever the calls that run at once (src/mcp/tools.ts: store, update).
THEOREM VectorsAreCurrent == Spec => []IndexCurrent
<1> DEFINE Inv == StoreInv /\ CallInv /\ VectorInv
<1>1. Init => Inv BY StoresStart
<1>2. Inv /\ [Next]_vars => Inv' BY StoresStep
<1>3. Inv => IndexCurrent BY DEF VectorInv, Current, Embeds, IndexCurrent
<1> QED BY <1>1, <1>2, <1>3, PTL DEF Spec

-----------------------------------------------------------------------------
(* What a change does to a walk *)

WalkFields == {"kind", "phase", "shown", "cursor", "unread", "lex", "sem", "terms", "graph",
               "stays", "quiet", "seen"}

\* A step that changes what a walk reads; rows stay, and vectors stay.
Disturbs ==
    /\ walk' = Disturbed
    /\ DOMAIN index \subseteq DOMAIN index'

\* A step that changes nothing a walk reads.
Spares == UNCHANGED <<rows, index, walk>>

WalkStep ==
    \/ \E kind \in {"list", "search"} : BeginWalk(kind)
    \/ ListPage \/ SearchLexical \/ SearchSemantic \/ SemanticFails
    \/ SearchTerms \/ SearchGraph \/ SearchPage

LEMMA StepsOfAWalk ==
  ASSUME [Next]_vars
  PROVE  Disturbs \/ Spares \/ WalkStep
<1>1. ASSUME NEW h \in Handlers, NEW text \in Texts, NEW op \in {"store", "ingest"},
             BeginCreate(h, op, text)
      PROVE  Spares
  BY <1>1 DEF BeginCreate, Spares
<1>2. ASSUME NEW h \in Handlers, NEW text, NEW op, NEW r \in Live, BeginChange(h, op, r, text)
      PROVE  Spares
  BY <1>2 DEF BeginChange, Spares
<1>3. ASSUME NEW h \in Handlers, CommitCreate(h) \/ CommitUpdate(h) \/ CommitDelete(h)
      PROVE  Disturbs
  BY <1>3 DEF CommitCreate, CommitUpdate, CommitDelete, Disturbs
<1>4. ASSUME NEW h \in Handlers, Embed(h) PROVE Disturbs
  BY <1>4 DEF Embed, With, Disturbs
<1>5. ASSUME NEW h \in Handlers, EmbedFails(h) PROVE Spares
  BY <1>5 DEF EmbedFails, Spares
<1>6. ASSUME Undo PROVE Disturbs BY <1>6 DEF Undo, Disturbs
<1>7. ASSUME UNCHANGED vars PROVE Spares BY <1>7 DEF vars, Spares
<1>8. CASE UNCHANGED vars BY <1>7, <1>8
<1>9. CASE Next
  <2>1. CASE \E h \in Handlers :
               \/ \E text \in Texts, op \in {"store", "ingest"} : BeginCreate(h, op, text)
               \/ \E text \in Texts, r \in Live : BeginChange(h, "update", r, text)
               \/ \E r \in Live : BeginChange(h, "delete", r, NoText)
               \/ CommitCreate(h) \/ CommitUpdate(h) \/ CommitDelete(h)
               \/ Embed(h) \/ EmbedFails(h)
    BY <2>1, <1>1, <1>2, <1>3, <1>4, <1>5
  <2>2. CASE Undo BY <2>2, <1>6
  <2>3. CASE WalkStep BY <2>3
  <2> QED BY <2>1, <2>2, <2>3, <1>9 DEF Next, WalkStep
<1> QED BY <1>8, <1>9

-----------------------------------------------------------------------------
(* The list of entries *)

LEMMA LiveIsFinite ==
  ASSUME StoreInv
  PROVE  /\ IsFiniteSet(Live) /\ Live \subseteq Nat
         /\ \A r \in Live : r \in DOMAIN rows /\ r <= MaxRows
<1>1. IsFiniteSet(1..drawn) BY FS_Interval DEF StoreInv
<1>2. Live \in SUBSET (1..drawn) BY DEF Live, StoreInv
<1>3. IsFiniteSet(Live) BY <1>1, <1>2, FS_Subset
<1>4. drawn \in Nat /\ drawn <= MaxRows BY DEF StoreInv
<1> QED BY <1>2, <1>3, <1>4, ScoreAssumption DEF Live

\* What a page after cursor c fetches.
Fetched(c) == Take(ByScore([r \in {x \in Live : x < c} |-> r]), Limit + 1)

\* A page of the list: descending, below the cursor c, and with every live row from
\* its own cursor on, or all of them when there is no extra.
LEMMA PageOfTheList ==
  ASSUME StoreInv, NEW c \in Nat, NEW found, NEW page,
         found = Fetched(c),
         page = Take(found, Limit)
  PROVE  /\ page \in Seq(Nat)
         /\ \A i \in 1..Len(page) : page[i] < c
         /\ \A i, j \in 1..Len(page) : i < j => page[j] < page[i]
         /\ Len(found) \in Nat
         /\ Len(found) <= Limit => \A r \in Live : r < c => r \in ToSet(page)
         /\ Len(found) > Limit =>
               /\ found[Limit] \in Nat /\ found[Limit] < c
               /\ \A i \in 1..Len(page) : found[Limit] <= page[i]
               /\ \A r \in Live : found[Limit] <= r /\ r < c => r \in ToSet(page)
<1> DEFINE D == {x \in Live : x < c}
<1>1. PICK f : f = [r \in D |-> r] OBVIOUS
<1>2. DOMAIN f = D /\ \A r \in D : f[r] = r BY <1>1
<1>3. D \subseteq Nat /\ Scores(f)
  <2>1. D \in SUBSET Live OBVIOUS
  <2>2. IsFiniteSet(D) BY <2>1, LiveIsFinite, FS_Subset
  <2>3. D \subseteq Nat BY <2>1, LiveIsFinite
  <2> QED BY <2>2, <2>3, <1>2 DEF Scores
<1>4. PICK s : s = ByScore(f) OBVIOUS
<1>5. /\ s \in Seq(D) /\ Len(s) \in Nat /\ DOMAIN s = 1..Len(s)
      /\ \A i \in 1..Len(s) : s[i] \in D
      /\ \A r \in D : \E i \in 1..Len(s) : s[i] = r
  <2>1. /\ Cardinality(DOMAIN f) \in Nat
        /\ DOMAIN s = 1..Cardinality(DOMAIN f)
        /\ s \in Seq(DOMAIN f) /\ Len(s) = Cardinality(DOMAIN f)
        /\ \A r \in DOMAIN f : \E i \in DOMAIN s : s[i] = r
    BY ONLY <1>3, <1>4, ByScoreRanks
  <2>2. s \in Seq(D) /\ Len(s) \in Nat /\ DOMAIN s = 1..Len(s) BY <2>1, <1>2
  <2>3. \A i \in 1..Len(s) : s[i] \in D BY <2>2
  <2>4. \A r \in D : \E i \in 1..Len(s) : s[i] = r BY <2>1, <1>2
  <2> QED BY <2>2, <2>3, <2>4
<1>6. \A i, j \in 1..Len(s) : i < j => s[j] < s[i]
  <2> SUFFICES ASSUME NEW i \in 1..Len(s), NEW j \in 1..Len(s), i < j PROVE s[j] < s[i]
    OBVIOUS
  <2>1. Before(f, s[i], s[j]) BY <1>3, <1>4, <1>5, ByScoreRanks
  <2>2. s[i] \in Nat /\ s[j] \in Nat /\ f[s[i]] = s[i] /\ f[s[j]] = s[j] BY <1>2, <1>3, <1>5
  <2> QED BY <2>1, <2>2 DEF Before
<1>7. Limit \in Nat /\ Limit >= 1 /\ Limit + 1 \in Nat BY ScoreAssumption
<1>8. /\ found \in Seq(D)
      /\ Len(found) = IF Limit + 1 < Len(s) THEN Limit + 1 ELSE Len(s)
      /\ \A i \in 1..Len(found) : found[i] = s[i]
  <2>1. PICK m \in Nat : m = Limit + 1 BY <1>7
  <2>2. found = Take(s, m) BY <2>1, <1>1, <1>4 DEF Fetched
  <2>3. \A S : s \in Seq(S) =>
           /\ Take(s, m) \in Seq(S)
           /\ Len(Take(s, m)) = IF m < Len(s) THEN m ELSE Len(s)
           /\ \A i \in 1..Len(Take(s, m)) : Take(s, m)[i] = s[i]
    BY TakeIsInitial
  <2> QED BY <2>1, <2>2, <2>3, <1>5
<1>9. /\ page \in Seq(D)
      /\ Len(page) = IF Limit < Len(found) THEN Limit ELSE Len(found)
      /\ \A i \in 1..Len(page) : page[i] = found[i]
  BY <1>7, <1>8, TakeIsInitial
<1>10. /\ Len(page) \in Nat /\ Len(found) \in Nat
       /\ Len(page) = IF Limit < Len(s) THEN Limit ELSE Len(s)
       /\ Len(found) > Limit <=> Len(s) > Limit
  BY <1>5, <1>7, <1>8, <1>9
<1>11. \A i \in 1..Len(page) : i \in 1..Len(s) /\ page[i] = s[i] /\ s[i] \in D
  <2> TAKE i \in 1..Len(page)
  <2>1. Len(page) <= Len(found) /\ Len(found) <= Len(s)
    <3>1. Len(found) = IF Limit + 1 < Len(s) THEN Limit + 1 ELSE Len(s) BY <1>8
    <3>2. Len(page) = IF Limit < Len(found) THEN Limit ELSE Len(found) BY <1>9
    <3>3. \A a, b, n \in Nat : /\ b = IF Limit + 1 < n THEN Limit + 1 ELSE n
                               /\ a = IF Limit < b THEN Limit ELSE b
                               => a <= b /\ b <= n
      BY <1>7
    <3>4. Len(page) \in Nat /\ Len(found) \in Nat /\ Len(s) \in Nat BY <1>5, <1>10
    <3> QED BY <3>1, <3>2, <3>3, <3>4
  <2>2. Len(page) \in Nat /\ Len(found) \in Nat /\ Len(s) \in Nat BY <1>5, <1>10
  <2>3. i \in 1..Len(found) /\ i \in 1..Len(s) BY <2>1, <2>2
  <2> QED BY <2>3, <1>5, <1>8, <1>9
<1>12. page \in Seq(Nat) BY <1>3, <1>9, <1>11
<1>13. \A i \in 1..Len(page) : page[i] < c BY <1>11
<1>14. \A i, j \in 1..Len(page) : i < j => page[j] < page[i] BY <1>6, <1>11
<1>15. DOMAIN page = 1..Len(page) BY <1>9
<1>16. ASSUME NEW r \in Live, r < c, Len(found) <= Limit PROVE r \in ToSet(page)
  <2>1. PICK i \in 1..Len(s) : s[i] = r BY <1>5, <1>16
  <2>2. i \in 1..Len(page) BY <1>5, <1>7, <1>10, <1>16
  <2> QED BY <2>1, <2>2, <1>11, <1>15 DEF ToSet
<1>17. ASSUME Len(found) > Limit
       PROVE  /\ found[Limit] \in Nat /\ found[Limit] < c
              /\ \A i \in 1..Len(page) : found[Limit] <= page[i]
              /\ \A r \in Live : found[Limit] <= r /\ r < c => r \in ToSet(page)
  <2>1. Len(page) = Limit /\ Limit \in 1..Len(page) /\ Limit \in 1..Len(s)
    <3>1. Len(s) > Limit /\ Len(s) \in Nat BY <1>5, <1>10, <1>17
    <3>2. Len(page) = Limit BY <3>1, <1>10
    <3> QED BY <3>1, <3>2, <1>7
  <2>2. found[Limit] = s[Limit] /\ s[Limit] \in D BY <2>1, <1>9, <1>11
  <2>3. s[Limit] \in Nat /\ s[Limit] < c BY <2>2, <1>3
  <2>4. ASSUME NEW i \in 1..Len(page) PROVE s[Limit] <= page[i]
    <3>1. CASE i = Limit BY <3>1, <2>3, <1>11
    <3>2. CASE i # Limit
      <4>1. i < Limit BY <3>2, <2>1, <1>7
      <4>2. s[Limit] < s[i] BY <4>1, <2>1, <1>6, <1>11
      <4>3. s[i] \in Nat BY <1>3, <1>11
      <4> QED BY <4>2, <4>3, <2>3, <1>11
    <3> QED BY <3>1, <3>2
  <2>5. ASSUME NEW r \in Live, s[Limit] <= r, r < c PROVE r \in ToSet(page)
    <3>1. PICK i \in 1..Len(s) : s[i] = r BY <1>5, <2>5
    <3>2. r \in Nat BY <3>1, <1>3, <1>5
    <3>3. ~(Limit < i) BY <3>1, <3>2, <2>1, <2>3, <2>5, <1>6
    <3>4. i \in 1..Len(page) BY <3>3, <2>1, <1>5, <1>7
    <3> QED BY <3>1, <3>4, <1>11, <1>15 DEF ToSet
  <2> QED BY <2>2, <2>3, <2>4, <2>5
<1> QED BY <1>10, <1>12, <1>13, <1>14, <1>16, <1>17

\* What walk w of the list has shown, when the rows of live are live.
ListShows(w, live) ==
    /\ w.cursor \in Nat /\ w.shown \in Seq(Nat) /\ w.stays \subseteq live
    /\ w.phase = "ask" => \A i \in 1..Len(w.shown) : w.cursor <= w.shown[i]
    /\ \A i, j \in 1..Len(w.shown) : i < j => w.shown[j] < w.shown[i]
    /\ \A r \in w.stays : w.phase = "done" \/ r >= w.cursor => r \in ToSet(w.shown)

LEMMA ListBegins ==
  ASSUME StoreInv, NEW w, w.cursor = MaxRows + 1, w.shown = <<>>, w.stays = Live, w.phase = "ask"
  PROVE  ListShows(w, Live)
<1>1. w.cursor \in Nat /\ \A r \in Live : ~(r >= w.cursor)
  BY LiveIsFinite, ScoreAssumption
<1>2. w.shown \in Seq(Nat) /\ Len(w.shown) = 0 OBVIOUS
<1> QED BY <1>1, <1>2 DEF ListShows

LEMMA ListIsDisturbed ==
  ASSUME NEW w, NEW v, NEW live, NEW now, ListShows(w, live),
         v.cursor = w.cursor, v.shown = w.shown, v.phase = w.phase, v.stays = w.stays \cap now
  PROVE  ListShows(v, now)
  BY DEF ListShows

LEMMA PartsOfConcat ==
  ASSUME NEW s \in Seq(Nat), NEW p \in Seq(Nat), NEW t, t = s \o p
  PROVE  /\ t \in Seq(Nat) /\ DOMAIN t = 1..Len(t)
         /\ \A i \in 1..Len(t) :
               \/ i \in 1..Len(s) /\ t[i] = s[i]
               \/ \E k \in 1..Len(p) : i = Len(s) + k /\ t[i] = p[k]
         /\ ToSet(t) = ToSet(s) \cup ToSet(p)
<1>1. /\ Len(t) = Len(s) + Len(p) /\ Len(s) \in Nat /\ Len(p) \in Nat /\ Len(t) \in Nat
      /\ \A i \in 1..Len(s) + Len(p) : t[i] = IF i <= Len(s) THEN s[i] ELSE p[i - Len(s)]
  BY ConcatProperties
<1>2. t \in Seq(Nat) /\ DOMAIN t = 1..Len(t) /\ DOMAIN s = 1..Len(s) /\ DOMAIN p = 1..Len(p)
  OBVIOUS
<1>3. ASSUME NEW i \in 1..Len(t)
      PROVE  \/ i \in 1..Len(s) /\ t[i] = s[i]
             \/ \E k \in 1..Len(p) : i = Len(s) + k /\ t[i] = p[k]
  <2>1. CASE i <= Len(s)
    <3>1. i \in 1..Len(s) BY <2>1, <1>1
    <3> QED BY <3>1, <2>1, <1>1
  <2>2. CASE ~(i <= Len(s))
    <3>1. PICK k : k = i - Len(s) OBVIOUS
    <3>2. k \in 1..Len(p) /\ i = Len(s) + k BY <3>1, <2>2, <1>1
    <3> QED BY <3>1, <3>2, <2>2, <1>1
  <2> QED BY <2>1, <2>2
<1>4. ASSUME NEW i \in 1..Len(s) PROVE i \in 1..Len(t) /\ t[i] = s[i]
  <2>1. i \in 1..Len(t) /\ i <= Len(s) BY <1>1
  <2> QED BY <2>1, <1>1
<1>5. ASSUME NEW k \in 1..Len(p) PROVE Len(s) + k \in 1..Len(t) /\ t[Len(s) + k] = p[k]
  <2>1. PICK i : i = Len(s) + k OBVIOUS
  <2>2. i \in 1..Len(t) /\ ~(i <= Len(s)) /\ i - Len(s) = k BY <2>1, <1>1
  <2> QED BY <2>1, <2>2, <1>1
<1>6. ToSet(t) \subseteq ToSet(s) \cup ToSet(p) BY <1>2, <1>3 DEF ToSet
<1>7. ToSet(s) \subseteq ToSet(t) BY <1>2, <1>4 DEF ToSet
<1>8. ToSet(p) \subseteq ToSet(t) BY <1>2, <1>5 DEF ToSet
<1> QED BY <1>2, <1>3, <1>6, <1>7, <1>8

LEMMA ListGoesOn ==
  ASSUME StoreInv, NEW w, NEW v, ListShows(w, Live), w.phase = "ask",
         NEW found, NEW page,
         found = Fetched(w.cursor),
         page = Take(found, Limit),
         v.shown = w.shown \o page, v.stays = w.stays,
         v.cursor = IF Len(found) > Limit THEN found[Limit] ELSE w.cursor,
         v.phase = IF Len(found) > Limit THEN "ask" ELSE "done"
  PROVE  ListShows(v, Live)
<1>1. PICK c \in Nat : c = w.cursor BY DEF ListShows
<1>2. PICK s \in Seq(Nat) : s = w.shown BY DEF ListShows
<1>3. PICK t : t = s \o page OBVIOUS
<1>4. /\ page \in Seq(Nat)
      /\ \A i \in 1..Len(page) : page[i] < c
      /\ \A i, j \in 1..Len(page) : i < j => page[j] < page[i]
      /\ Len(found) \in Nat
      /\ Len(found) <= Limit => \A r \in Live : r < c => r \in ToSet(page)
      /\ Len(found) > Limit =>
            /\ found[Limit] \in Nat /\ found[Limit] < c
            /\ \A i \in 1..Len(page) : found[Limit] <= page[i]
            /\ \A r \in Live : found[Limit] <= r /\ r < c => r \in ToSet(page)
  BY <1>1, PageOfTheList
<1>5. /\ \A i \in 1..Len(s) : c <= s[i]
      /\ \A i, j \in 1..Len(s) : i < j => s[j] < s[i]
      /\ w.stays \subseteq Live
      /\ \A r \in w.stays : r >= c => r \in ToSet(s)
  BY <1>1, <1>2 DEF ListShows
<1>6. /\ t \in Seq(Nat) /\ Len(s) \in Nat
      /\ \A i \in 1..Len(t) :
            \/ i \in 1..Len(s) /\ t[i] = s[i]
            \/ \E k \in 1..Len(page) : i = Len(s) + k /\ t[i] = page[k]
  <2>1. page \in Seq(Nat) BY <1>4
  <2>2. s \in Seq(Nat) OBVIOUS
  <2>3. t \in Seq(Nat) BY ONLY <2>1, <2>2, <1>3, PartsOfConcat
  <2>4. \A i \in 1..Len(t) :
            \/ i \in 1..Len(s) /\ t[i] = s[i]
            \/ \E k \in 1..Len(page) : i = Len(s) + k /\ t[i] = page[k]
    <3>1. PICK q \in Seq(Nat) : q = page BY <2>1
    <3>2. t = s \o q BY <3>1, <1>3
    <3>3. \A i \in 1..Len(t) :
             \/ i \in 1..Len(s) /\ t[i] = s[i]
             \/ \E k \in 1..Len(q) : i = Len(s) + k /\ t[i] = q[k]
      BY ONLY <3>1, <3>2, <2>2, PartsOfConcat
    <3> QED BY ONLY <3>1, <3>3
  <2>5. Len(s) \in Nat OBVIOUS
  <2> QED BY ONLY <2>3, <2>4, <2>5
<1>7. /\ \A i \in 1..Len(s) : s[i] \in Nat
      /\ \A i \in 1..Len(page) : page[i] \in Nat
  BY <1>2, <1>4
<1>8. ToSet(t) = ToSet(s) \cup ToSet(page)
  <2>1. page \in Seq(Nat) BY <1>4
  <2>2. s \in Seq(Nat) OBVIOUS
  <2> QED BY ONLY <2>1, <2>2, <1>3, PartsOfConcat
<1>9. ASSUME NEW i \in 1..Len(t), NEW j \in 1..Len(t), i < j PROVE t[j] < t[i]
  <2>1. CASE i \in 1..Len(s) /\ t[i] = s[i] /\ j \in 1..Len(s) /\ t[j] = s[j]
    BY <2>1, <1>5, <1>9
  <2>2. ASSUME i \in 1..Len(s), t[i] = s[i],
               NEW k \in 1..Len(page), j = Len(s) + k, t[j] = page[k]
        PROVE  t[j] < t[i]
    <3>1. c <= s[i] /\ page[k] < c /\ s[i] \in Nat /\ page[k] \in Nat
      BY <2>2, <1>4, <1>5, <1>7
    <3> QED BY <2>2, <3>1
  <2>3. ASSUME NEW k \in 1..Len(page), i = Len(s) + k, t[i] = page[k],
               NEW l \in 1..Len(page), j = Len(s) + l, t[j] = page[l]
        PROVE  t[j] < t[i]
    <3>1. k < l BY <2>3, <1>6, <1>9
    <3> QED BY <2>3, <3>1, <1>4
  <2>4. ASSUME NEW k \in 1..Len(page), i = Len(s) + k, j \in 1..Len(s) PROVE FALSE
    BY <2>4, <1>6, <1>9
  <2> QED BY <2>1, <2>2, <2>3, <2>4, <1>6
<1>10. v.shown = t /\ v.stays = w.stays BY <1>2, <1>3
<1>11. CASE Len(found) > Limit
  <2>1. PICK d \in Nat : d = found[Limit] BY <1>4, <1>11
  <2>2. v.cursor = d /\ v.phase = "ask" /\ d < c BY <2>1, <1>4, <1>11
  <2>3. ASSUME NEW i \in 1..Len(t) PROVE d <= t[i]
    <3>1. CASE i \in 1..Len(s) /\ t[i] = s[i]
      <4>1. c <= s[i] /\ s[i] \in Nat BY <3>1, <1>5, <1>7
      <4> QED BY <3>1, <4>1, <2>2
    <3>2. CASE \E k \in 1..Len(page) : i = Len(s) + k /\ t[i] = page[k]
      BY <3>2, <2>1, <1>4, <1>11
    <3> QED BY <3>1, <3>2, <1>6
  <2>4. ASSUME NEW r \in w.stays, r >= d PROVE r \in ToSet(t)
    <3>1. r \in Nat /\ r \in Live BY <1>5, LiveIsFinite
    <3>2. CASE r >= c BY <3>2, <1>5, <1>8
    <3>3. CASE ~(r >= c) BY <3>1, <3>3, <2>1, <2>4, <1>4, <1>8, <1>11
    <3> QED BY <3>2, <3>3
  <2> QED BY <2>2, <2>3, <2>4, <1>5, <1>6, <1>9, <1>10 DEF ListShows
<1>12. CASE ~(Len(found) > Limit)
  <2>1. v.cursor = c /\ v.phase = "done" BY <1>1, <1>12
  <2>2. Len(found) <= Limit BY <1>4, <1>12, ScoreAssumption
  <2>3. ASSUME NEW r \in w.stays PROVE r \in ToSet(t)
    <3>1. r \in Nat /\ r \in Live BY <1>5, LiveIsFinite
    <3>2. CASE r >= c BY <3>2, <1>5, <1>8
    <3>3. CASE ~(r >= c) BY <3>1, <3>3, <2>2, <1>4, <1>8
    <3> QED BY <3>2, <3>3
  <2> QED BY <2>1, <2>3, <1>5, <1>6, <1>9, <1>10 DEF ListShows
<1> QED BY <1>11, <1>12

-----------------------------------------------------------------------------
(* What a search finds *)

\* What walk w has read of a page is in the index, or was live.
SearchFinds(w, live, vectors) ==
    /\ live \subseteq w.seen
    /\ DOMAIN w.lex \cup DOMAIN w.sem \cup w.graph \subseteq w.seen \cup vectors

LEMMA BestAmong ==
  ASSUME NEW f, Scores(f), NEW n \in Nat
  PROVE  /\ DOMAIN Best(f, n) \subseteq DOMAIN f
         /\ \A r \in DOMAIN Best(f, n) : Best(f, n)[r] = f[r]
<1>1. PICK s : s = ByScore(f) OBVIOUS
<1>2. s \in Seq(DOMAIN f) BY <1>1, ByScoreRanks
<1>3. PICK t : t = Take(s, n) OBVIOUS
<1>4. t \in Seq(DOMAIN f) BY <1>2, <1>3, TakeIsInitial
<1>5. ToSet(t) \subseteq DOMAIN f BY <1>4 DEF ToSet
<1>6. /\ DOMAIN Best(f, n) = ToSet(t)
      /\ \A r \in ToSet(t) : Best(f, n)[r] = f[r]
  BY <1>1, <1>3 DEF Best
<1> QED BY <1>5, <1>6

\* The lexical search finds live rows only.
LEMMA LexicalIsLive ==
  ASSUME StoreInv
  PROVE  /\ DOMAIN Lexical \subseteq Live
         /\ \A r \in DOMAIN Lexical : Lexical[r] \in Int
<1> DEFINE D == {x \in Live : Lex[rows[x].text] > 0}
<1>1. PICK f : f = [r \in D |-> Lex[rows[r].text]] OBVIOUS
<1>2. DOMAIN f = D /\ \A r \in D : f[r] = Lex[rows[r].text] BY <1>1
<1>3. IsFiniteSet(D)
  <2>1. D \in SUBSET Live OBVIOUS
  <2> QED BY <2>1, LiveIsFinite, FS_Subset
<1>4. \A r \in D : r \in Int /\ f[r] \in Int
  <2> TAKE r \in D
  <2>1. rows[r].text \in Texts BY LiveIsFinite DEF StoreInv, Row
  <2>2. Lex[rows[r].text] \in 0..10 BY <2>1, ScoreAssumption
  <2>3. r \in Nat BY LiveIsFinite
  <2> QED BY <1>2, <2>2, <2>3
<1>5. Scores(f) BY <1>2, <1>3, <1>4 DEF Scores
<1>6. Lexical = Best(f, 6 * Limit) BY <1>1 DEF Lexical
<1>7. 6 * Limit \in Nat BY ScoreAssumption
<1> QED BY <1>2, <1>4, <1>5, <1>6, <1>7, BestAmong

\* The semantic search finds what has a vector.
LEMMA SemanticIsIndexed ==
  ASSUME StoreInv
  PROVE  /\ DOMAIN Semantic \subseteq DOMAIN index
         /\ \A r \in DOMAIN Semantic : Semantic[r] \in Int
<1> DEFINE D == DOMAIN index
<1>1. PICK f : f = [r \in D |-> Sem[index[r]]] OBVIOUS
<1>2. DOMAIN f = D /\ \A r \in D : f[r] = Sem[index[r]] BY <1>1
<1>3. IsFiniteSet(D)
  <2>1. IsFiniteSet(1..drawn) BY FS_Interval DEF StoreInv
  <2>2. D \in SUBSET (1..drawn) BY DEF StoreInv
  <2> QED BY <2>1, <2>2, FS_Subset
<1>4. \A r \in D : r \in Int /\ f[r] \in Int
  <2> TAKE r \in D
  <2>1. index[r] \in Texts /\ r \in 1..drawn BY DEF StoreInv
  <2>2. Sem[index[r]] \in 0..10 BY <2>1, ScoreAssumption
  <2> QED BY <1>2, <2>1, <2>2
<1>5. Scores(f) BY <1>2, <1>3, <1>4 DEF Scores
<1>6. Semantic = Best(f, 3 * Limit) BY <1>1 DEF Semantic
<1>7. 3 * Limit \in Nat BY ScoreAssumption
<1> QED BY <1>2, <1>4, <1>5, <1>6, <1>7, BestAmong

-----------------------------------------------------------------------------
(* Walks *)

WalkInv ==
    /\ DOMAIN walk = WalkFields
    /\ walk.kind = "list"   => ListShows(walk, Live)
    /\ walk.kind = "search" => SearchFinds(walk, Live, DOMAIN index)

LEMMA WalkIsSpared ==
  ASSUME WalkInv, Spares
  PROVE  WalkInv'
<1>1. walk' = walk /\ Live' = Live /\ index' = index BY DEF Spares, Live
<1> QED BY <1>1 DEF WalkInv, ListShows, SearchFinds

LEMMA WalkIsDisturbed ==
  ASSUME WalkInv, Disturbs
  PROVE  WalkInv'
<1>1. PICK w : w = walk OBVIOUS
<1>2. PICK v : v = walk' OBVIOUS
<1>3. PICK live : live = Live OBVIOUS
<1>4. PICK now : now = Live' OBVIOUS
<1>5. v = [w EXCEPT !.stays = w.stays \cap now, !.quiet = FALSE,
                    !.seen  = IF w.kind = "search" THEN w.seen \cup now ELSE w.seen]
  BY <1>1, <1>2, <1>4 DEF Disturbs, Disturbed
<1>6. DOMAIN w = WalkFields BY <1>1 DEF WalkInv
<1>7. /\ DOMAIN v = WalkFields /\ v.kind = w.kind /\ v.phase = w.phase
      /\ v.shown = w.shown /\ v.cursor = w.cursor /\ v.stays = w.stays \cap now
      /\ v.lex = w.lex /\ v.sem = w.sem /\ v.graph = w.graph
      /\ w.kind = "search" => v.seen = w.seen \cup now
  BY <1>5, <1>6 DEF WalkFields
<1>8. v.kind = "list" => ListShows(v, now)
  <2>1. w.kind = "list" => ListShows(w, live) BY <1>1, <1>3 DEF WalkInv
  <2> QED BY <2>1, <1>7, ListIsDisturbed
<1>9. v.kind = "search" => SearchFinds(v, now, DOMAIN index')
  <2>1. w.kind = "search" => SearchFinds(w, live, DOMAIN index) BY <1>1, <1>3 DEF WalkInv
  <2> QED BY <2>1, <1>7 DEF SearchFinds, Disturbs
<1> QED BY <1>2, <1>4, <1>7, <1>8, <1>9 DEF WalkInv

LEMMA WalkGoesOn ==
  ASSUME StoreInv, WalkInv, WalkStep
  PROVE  WalkInv'
<1>1. PICK w : w = walk OBVIOUS
<1>2. PICK v : v = walk' OBVIOUS
<1>3. PICK live : live = Live OBVIOUS
<1>4. UNCHANGED <<rows, index>>
  BY DEF WalkStep, BeginWalk, ListPage, SearchLexical, SearchSemantic, SemanticFails,
         SearchTerms, SearchGraph, SearchPage
<1>5. live = Live' BY <1>3, <1>4 DEF Live
<1>6. /\ DOMAIN w = WalkFields
      /\ w.kind = "list"   => ListShows(w, live)
      /\ w.kind = "search" => SearchFinds(w, live, DOMAIN index)
  BY <1>1, <1>3 DEF WalkInv
<1>7. SUFFICES /\ DOMAIN v = WalkFields
               /\ v.kind = "list"   => ListShows(v, live)
               /\ v.kind = "search" => SearchFinds(v, live, DOMAIN index)
  BY <1>2, <1>4, <1>5 DEF WalkInv
<1>8. CASE \E kind \in {"list", "search"} : BeginWalk(kind)
  <2>1. PICK kind \in {"list", "search"} : BeginWalk(kind) BY <1>8
  <2>2. /\ DOMAIN v = WalkFields /\ v.kind = kind /\ v.phase = "ask" /\ v.shown = <<>>
        /\ v.lex = <<>> /\ v.sem = <<>> /\ v.graph = {}
        /\ kind = "list" => v.cursor = MaxRows + 1 /\ v.stays = live
        /\ kind = "search" => v.seen = live
    BY <2>1, <1>2, <1>3 DEF BeginWalk, NoWalk, WalkFields
  <2>3. kind = "list" => ListShows(v, live) BY <2>2, <1>3, ListBegins
  <2>4. kind = "search" => SearchFinds(v, live, DOMAIN index) BY <2>2 DEF SearchFinds
  <2> QED BY <2>2, <2>3, <2>4
<1>9. CASE ListPage
  <2>1. PICK found : found = Fetched(w.cursor) OBVIOUS
  <2>2. PICK page : page = Take(found, Limit) OBVIOUS
  <2>3. /\ w.kind = "list" /\ w.phase = "ask"
        /\ v = [w EXCEPT !.shown  = w.shown \o page,
                         !.cursor = IF Len(found) > Limit THEN found[Limit] ELSE w.cursor,
                         !.phase  = IF Len(found) > Limit THEN "ask" ELSE "done"]
    BY <2>1, <2>2, <1>1, <1>2, <1>9 DEF ListPage, NextCursor, Fetched
  <2>4. /\ DOMAIN v = WalkFields /\ v.kind = "list" /\ v.stays = w.stays
        /\ v.shown = w.shown \o page
        /\ v.cursor = IF Len(found) > Limit THEN found[Limit] ELSE w.cursor
        /\ v.phase = IF Len(found) > Limit THEN "ask" ELSE "done"
    BY <2>3, <1>6 DEF WalkFields
  <2>5. ListShows(w, Live) BY <2>3, <1>3, <1>6
  <2>6. w.phase = "ask" BY <2>3
  <2>7. ListShows(v, Live) BY ONLY StoreInv, <2>1, <2>2, <2>6, <2>4, <2>5, ListGoesOn
  <2> QED BY <2>4, <2>7, <1>3
<1>10. CASE SearchLexical
  <2>1. w.kind = "search" /\ v = [w EXCEPT !.lex = Lexical, !.unread = @ \ {"lexical"}]
    BY <1>1, <1>2, <1>10 DEF SearchLexical
  <2>2. /\ DOMAIN v = WalkFields /\ v.kind = "search" /\ v.seen = w.seen
        /\ v.lex = Lexical /\ v.sem = w.sem /\ v.graph = w.graph
    BY <2>1, <1>6 DEF WalkFields
  <2> QED BY <2>1, <2>2, <1>3, <1>6, LexicalIsLive DEF SearchFinds
<1>11. CASE SearchSemantic
  <2>1. w.kind = "search" /\ v = [w EXCEPT !.sem = Semantic, !.unread = @ \ {"semantic"}]
    BY <1>1, <1>2, <1>11 DEF SearchSemantic
  <2>2. /\ DOMAIN v = WalkFields /\ v.kind = "search" /\ v.seen = w.seen
        /\ v.lex = w.lex /\ v.sem = Semantic /\ v.graph = w.graph
    BY <2>1, <1>6 DEF WalkFields
  <2> QED BY <2>1, <2>2, <1>6, SemanticIsIndexed DEF SearchFinds
<1>12. CASE SemanticFails
  <2>1. /\ w.kind = "search"
        /\ v = [w EXCEPT !.sem = <<>>, !.unread = @ \ {"semantic"}, !.quiet = FALSE]
    BY <1>1, <1>2, <1>12 DEF SemanticFails
  <2>2. /\ DOMAIN v = WalkFields /\ v.kind = "search" /\ v.seen = w.seen
        /\ v.lex = w.lex /\ DOMAIN v.sem = {} /\ v.graph = w.graph
    BY <2>1, <1>6 DEF WalkFields
  <2> QED BY <2>1, <2>2, <1>6 DEF SearchFinds
<1>13. CASE SearchTerms
  <2>1. /\ w.kind = "search"
        /\ v = [w EXCEPT !.terms = Terms(TopIds(w.lex, w.sem)), !.phase = "expand"]
    BY <1>1, <1>2, <1>13 DEF SearchTerms
  <2>2. /\ DOMAIN v = WalkFields /\ v.kind = "search" /\ v.seen = w.seen
        /\ v.lex = w.lex /\ v.sem = w.sem /\ v.graph = w.graph
    BY <2>1, <1>6 DEF WalkFields
  <2> QED BY <2>1, <2>2, <1>6 DEF SearchFinds
<1>14. CASE SearchGraph
  <2>1. PICK near : near = About(w.terms, TopIds(w.lex, w.sem)) OBVIOUS
  <2>2. w.kind = "search" /\ v = [w EXCEPT !.graph = near, !.phase = "fetch"]
    BY <2>1, <1>1, <1>2, <1>14 DEF SearchGraph
  <2>3. /\ DOMAIN v = WalkFields /\ v.kind = "search" /\ v.seen = w.seen
        /\ v.lex = w.lex /\ v.sem = w.sem /\ v.graph = near
    BY <2>2, <1>6 DEF WalkFields
  <2>4. near \subseteq live BY <2>1, <1>3 DEF About
  <2> QED BY <2>2, <2>3, <2>4, <1>6 DEF SearchFinds
<1>15. CASE SearchPage
  <2>1. w.kind = "search" BY <1>1, <1>15 DEF SearchPage
  <2>2. \E shown, cursor, phase :
           v = [w EXCEPT !.shown = shown, !.cursor = cursor, !.phase = phase,
                         !.unread = {"lexical", "semantic"}, !.seen = live,
                         !.lex = <<>>, !.sem = <<>>, !.terms = {}, !.graph = {}]
    BY <1>1, <1>2, <1>3, <1>15 DEF SearchPage
  <2>3. /\ DOMAIN v = WalkFields /\ v.kind = "search" /\ v.seen = live
        /\ v.lex = <<>> /\ v.sem = <<>> /\ v.graph = {}
    BY <2>1, <2>2, <1>6 DEF WalkFields
  <2> QED BY <2>3 DEF SearchFinds
<1> QED BY <1>8, <1>9, <1>10, <1>11, <1>12, <1>13, <1>14, <1>15 DEF WalkStep

LEMMA WalkStarts ==
  ASSUME Init
  PROVE  WalkInv
<1>1. walk = NoWalk BY DEF Init
<1>2. DOMAIN walk = WalkFields /\ walk.kind = "none" BY <1>1 DEF NoWalk, WalkFields
<1> QED BY <1>2 DEF WalkInv

\* Every walk, of a list or a search, is at each step what its invariant says.
LEMMA WalksFollow == Spec => [](StoreInv /\ WalkInv)
<1> DEFINE Inv == StoreInv /\ CallInv /\ VectorInv /\ WalkInv
<1>1. Init => Inv BY StoresStart, WalkStarts
<1>2. Inv /\ [Next]_vars => Inv'
  BY StoresStep, StepsOfAWalk, WalkIsSpared, WalkIsDisturbed, WalkGoesOn
<1> QED BY <1>1, <1>2, PTL DEF Spec

\* A client that walks the list is shown every entry that is there all the while,
\* and none twice, whatever is stored, deleted and undone meanwhile
\* (src/mcp/resources.ts: the list of entries).
THEOREM ListShowsAll == Spec => []ListedOnce
<1>1. StoreInv /\ WalkInv => ListedOnce
  <2> SUFFICES ASSUME WalkInv, walk.kind = "list"
               PROVE  /\ \A i, j \in DOMAIN walk.shown : i < j => walk.shown[j] < walk.shown[i]
                      /\ \A r \in walk.stays :
                            (walk.phase = "done" \/ r >= walk.cursor) => r \in ToSet(walk.shown)
    BY DEF ListedOnce
  <2>1. ListShows(walk, Live) BY DEF WalkInv
  <2>2. DOMAIN walk.shown = 1..Len(walk.shown) BY <2>1 DEF ListShows
  <2> QED BY <2>1, <2>2 DEF ListShows
<1> QED BY <1>1, WalksFollow, PTL

\* A search finds only what has a vector or was live since it began its page: nothing
\* else brings back an entry that was deleted (src/db/search.ts: hybridSearch).
THEOREM SearchFindsTheLiving == Spec => []FoundWhileLive
<1>1. StoreInv /\ WalkInv => FoundWhileLive
  BY DEF WalkInv, SearchFinds, FoundWhileLive
<1> QED BY <1>1, WalksFollow, PTL

-----------------------------------------------------------------------------
(* The pages of a search *)

\* Equal scores go by number, so the places 1..n come in order.
LEMMA PlacesInOrder ==
  ASSUME NEW n \in Nat, NEW f, f = [i \in 1..n |-> 0]
  PROVE  /\ DOMAIN ByScore(f) = 1..n
         /\ \A k \in 1..n : ByScore(f)[k] = k
<1>1. DOMAIN f = 1..n /\ \A i \in 1..n : f[i] = 0 OBVIOUS
<1>2. IsFiniteSet(1..n) /\ Cardinality(1..n) = n
  <2>1. 1 \in Int /\ n \in Int OBVIOUS
  <2>2. IsFiniteSet(1..n) BY <2>1, FS_Interval
  <2>3. Cardinality(1..n) = IF 1 > n THEN 0 ELSE n - 1 + 1 BY <2>1, FS_Interval
  <2>4. (IF 1 > n THEN 0 ELSE n - 1 + 1) = n OBVIOUS
  <2> QED BY <2>2, <2>3, <2>4
<1>3. Scores(f) BY <1>1, <1>2 DEF Scores
<1>4. \A a, b \in 1..n : Before(f, a, b) <=> a < b BY <1>1 DEF Before
<1>5. ASSUME NEW k \in 1..n PROVE Rank(f)[k] = k - 1
  <2>1. Above(f, k) = 1..(k - 1)
    <3>1. Above(f, k) = {q \in 1..n : q < k} BY <1>1, <1>4 DEF Above
    <3>2. {q \in 1..n : q < k} = 1..(k - 1) OBVIOUS
    <3> QED BY <3>1, <3>2
  <2>2. Cardinality(1..(k - 1)) = IF 1 > k - 1 THEN 0 ELSE (k - 1) - 1 + 1
    <3>1. 1 \in Int /\ k - 1 \in Int OBVIOUS
    <3>2. \A b \in Int : Cardinality(1..b) = IF 1 > b THEN 0 ELSE b - 1 + 1 BY FS_Interval
    <3> QED BY <3>1, <3>2
  <2>3. (IF 1 > k - 1 THEN 0 ELSE (k - 1) - 1 + 1) = k - 1 OBVIOUS
  <2> QED BY <2>1, <2>2, <2>3, <1>1 DEF Rank
<1>6. DOMAIN ByScore(f) = 1..n BY <1>1, <1>2 DEF ByScore
<1>7. ASSUME NEW k \in 1..n PROVE ByScore(f)[k] = k
  <2>1. ByScore(f)[k] = CHOOSE r \in DOMAIN f : Cardinality({q \in DOMAIN f : Before(f, q, r)}) = k - 1
    BY <1>1, <1>2 DEF ByScore
  <2>2. k \in DOMAIN f /\ Cardinality({q \in DOMAIN f : Before(f, q, k)}) = k - 1
    BY <1>1, <1>5 DEF Rank, Above
  <2>3. PICK j : j = ByScore(f)[k] OBVIOUS
  <2>4. j \in DOMAIN f /\ Cardinality({q \in DOMAIN f : Before(f, q, j)}) = k - 1
    BY <2>1, <2>2, <2>3
  <2>5. Rank(f)[j] = k - 1 BY <2>4 DEF Rank, Above
  <2> QED BY <2>2, <2>3, <2>4, <2>5, <1>3, <1>5, RankIsInjective
<1> QED BY <1>6, <1>7

\* A page whose rows are all there is shown as it is.
LEMMA AllHaveRows ==
  ASSUME NEW page \in Seq(Nat), \A i \in 1..Len(page) : page[i] \in DOMAIN rows
  PROVE  WithRow(page) = page
<1>1. PICK n \in Nat : n = Len(page) OBVIOUS
<1>2. DOMAIN page = 1..n BY <1>1
<1>3. {j \in DOMAIN page : page[j] \in DOMAIN rows} = 1..n BY <1>1, <1>2
<1>4. PICK f : f = [i \in 1..n |-> 0] OBVIOUS
<1>5. PICK places : places = ByScore(f) OBVIOUS
<1>6. WithRow(page) = [k \in DOMAIN places |-> page[places[k]]]
  BY <1>3, <1>4, <1>5 DEF WithRow
<1>7. DOMAIN places = 1..n /\ \A k \in 1..n : places[k] = k BY <1>4, <1>5, PlacesInOrder
<1>8. [k \in DOMAIN places |-> page[places[k]]] = [k \in 1..n |-> page[k]] BY <1>7
<1>9. page = [k \in 1..n |-> page[k]] BY <1>2
<1> QED BY <1>6, <1>8, <1>9

\* What a ranking is: ids with a row, none twice.
IsRanking(R) ==
    /\ R \in Seq(Nat)
    /\ \A i, j \in 1..Len(R) : R[i] = R[j] => i = j
    /\ \A i \in 1..Len(R) : R[i] # 0 /\ R[i] \in DOMAIN rows

\* A walk that has shown the first k of a ranking, and the cursor it has then.
CursorAfter(R, k) == IF k = 0 THEN 0 ELSE R[k]

LEMMA RestOfRanking ==
  ASSUME NEW R, IsRanking(R), NEW k \in 0..Len(R), NEW rest,
         rest = AfterCursor(R, CursorAfter(R, k))
  PROVE  /\ rest \in Seq(Nat) /\ Len(rest) = Len(R) - k
         /\ \A i \in 1..Len(rest) : rest[i] = R[k + i]
<1>1. R \in Seq(Nat) /\ Len(R) \in Nat /\ DOMAIN R = 1..Len(R) BY DEF IsRanking
<1>2. CASE k = 0
  <2>1. CursorAfter(R, k) = 0 BY <1>2 DEF CursorAfter
  <2>2. 0 \notin ToSet(R) BY <1>1 DEF IsRanking, ToSet
  <2>3. rest = R BY <2>1, <2>2 DEF AfterCursor
  <2> QED BY <2>3, <1>1, <1>2
<1>3. CASE k # 0
  <2>1. k \in 1..Len(R) /\ CursorAfter(R, k) = R[k] BY <1>1, <1>3 DEF CursorAfter
  <2>2. R[k] \in ToSet(R) BY <2>1, <1>1 DEF ToSet
  <2>3. (CHOOSE i \in DOMAIN R : R[i] = R[k]) = k
    <3>1. \A i \in DOMAIN R : R[i] = R[k] => i = k BY <2>1, <1>1 DEF IsRanking
    <3> QED BY <3>1, <2>1, <1>1
  <2>4. rest = SubSeq(R, k + 1, Len(R)) BY <2>1, <2>2, <2>3 DEF AfterCursor
  <2>5. \A s \in Seq(Nat), m \in Nat : m <= Len(s) =>
           /\ SubSeq(s, m + 1, Len(s)) \in Seq(Nat)
           /\ Len(SubSeq(s, m + 1, Len(s))) = Len(s) - m
           /\ \A i \in 1..(Len(s) - m) : SubSeq(s, m + 1, Len(s))[i] = s[m + i]
    OBVIOUS
  <2>6. k \in Nat /\ k <= Len(R) BY <1>1
  <2>7. /\ SubSeq(R, k + 1, Len(R)) \in Seq(Nat)
        /\ Len(SubSeq(R, k + 1, Len(R))) = Len(R) - k
        /\ \A i \in 1..(Len(R) - k) : SubSeq(R, k + 1, Len(R))[i] = R[k + i]
    BY <2>5, <2>6, <1>1
  <2> QED BY <2>4, <2>7
<1> QED BY <1>2, <1>3

\* The walk has shown the first k of a ranking.
Shows(w, R) ==
    \E k \in 0..Len(R) :
        /\ w.shown \in Seq(Nat) /\ Len(w.shown) = k
        /\ \A i \in 1..k : w.shown[i] = R[i]
        /\ IF w.phase = "done" THEN k = Len(R) ELSE w.cursor = CursorAfter(R, k)

LEMMA PageOfRanking ==
  ASSUME NEW R, IsRanking(R), NEW w, Shows(w, R), w.phase # "done",
         NEW v, NEW rest, NEW page,
         rest = AfterCursor(R, w.cursor), page = Take(rest, Limit),
         v.shown = w.shown \o WithRow(page),
         v.cursor = IF Len(rest) > Limit THEN page[Limit] ELSE w.cursor,
         v.phase = IF Len(rest) > Limit THEN "ask" ELSE "done"
  PROVE  Shows(v, R)
<1>1. PICK k \in 0..Len(R) :
        /\ w.shown \in Seq(Nat) /\ Len(w.shown) = k
        /\ \A i \in 1..k : w.shown[i] = R[i]
        /\ w.cursor = CursorAfter(R, k)
  BY DEF Shows
<1>2. PICK s \in Seq(Nat) : s = w.shown BY <1>1
<1>3. R \in Seq(Nat) /\ Len(R) \in Nat /\ k \in Nat /\ k <= Len(R) BY DEF IsRanking
<1>4. rest = AfterCursor(R, CursorAfter(R, k)) BY <1>1
<1>5. /\ rest \in Seq(Nat) /\ Len(rest) = Len(R) - k
      /\ \A i \in 1..Len(rest) : rest[i] = R[k + i]
  BY <1>4, RestOfRanking
<1>6. Limit \in Nat /\ Limit >= 1 BY ScoreAssumption
<1>7. PICK m \in Nat : m = IF Limit < Len(rest) THEN Limit ELSE Len(rest)
  <2>1. rest \in Seq(Nat) BY <1>5
  <2>2. Len(rest) \in Nat BY <2>1
  <2> QED BY <2>2, <1>6
<1>8. /\ page \in Seq(Nat) /\ Len(page) = m
      /\ \A i \in 1..m : page[i] = rest[i]
  <2>1. rest \in Seq(Nat) BY <1>5
  <2>2. /\ Take(rest, Limit) \in Seq(Nat)
        /\ Len(Take(rest, Limit)) = IF Limit < Len(rest) THEN Limit ELSE Len(rest)
        /\ \A i \in 1..Len(Take(rest, Limit)) : Take(rest, Limit)[i] = rest[i]
    BY ONLY <2>1, <1>6, TakeIsInitial
  <2> QED BY <2>2, <1>7
<1>9. m <= Len(rest) /\ k + m \in 0..Len(R) BY <1>3, <1>5, <1>6, <1>7
<1>10. ASSUME NEW i \in 1..m PROVE page[i] = R[k + i] /\ k + i \in 1..Len(R)
  <2>1. i \in 1..Len(rest) /\ k + i \in 1..Len(R) BY <1>3, <1>5, <1>9
  <2> QED BY <2>1, <1>5, <1>8
<1>11. WithRow(page) = page
  <2>1. \A i \in 1..Len(page) : page[i] \in DOMAIN rows BY <1>8, <1>10 DEF IsRanking
  <2>2. page \in Seq(Nat) BY <1>8
  <2> QED BY ONLY <2>1, <2>2, AllHaveRows
<1>12. PICK t : t = s \o page OBVIOUS
<1>13. v.shown = t BY <1>2, <1>11, <1>12
<1>14. /\ t \in Seq(Nat) /\ Len(t) = k + m
       /\ \A i \in 1..(k + m) : t[i] = R[i]
  <2>1. page \in Seq(Nat) /\ s \in Seq(Nat) BY <1>8
  <2>2. /\ s \o page \in Seq(Nat) /\ Len(s \o page) = Len(s) + Len(page)
        /\ \A i \in 1..Len(s) + Len(page) : (s \o page)[i] =
                    IF i <= Len(s) THEN s[i] ELSE page[i - Len(s)]
    BY ONLY <2>1, ConcatProperties
  <2>3. Len(s) = k /\ Len(page) = m /\ \A i \in 1..k : s[i] = R[i] BY <1>1, <1>2, <1>8
  <2>4. ASSUME NEW i \in 1..(k + m) PROVE t[i] = R[i]
    <3>1. t[i] = IF i <= k THEN s[i] ELSE page[i - k] BY <2>2, <2>3, <1>12
    <3>2. CASE i <= k
      <4>1. i \in 1..k BY <3>2, <1>3
      <4> QED BY <4>1, <3>1, <3>2, <2>3
    <3>3. CASE ~(i <= k)
      <4>1. PICK j : j = i - k OBVIOUS
      <4>2. j \in 1..m /\ k + j = i BY <4>1, <3>3, <1>3
      <4>3. page[j] = R[k + j] BY <4>2, <1>10
      <4> QED BY <4>1, <4>2, <4>3, <3>1, <3>3
    <3> QED BY <3>2, <3>3
  <2> QED BY <2>2, <2>3, <2>4, <1>12
<1>15. CASE Len(rest) > Limit
  <2>1. m = Limit /\ m \in 1..m /\ k + m # 0 BY <1>3, <1>5, <1>6, <1>7, <1>15
  <2>2. v.cursor = R[k + m] BY <2>1, <1>10, <1>15
  <2>3. v.cursor = CursorAfter(R, k + m) /\ v.phase # "done" BY <2>1, <2>2, <1>15 DEF CursorAfter
  <2> QED BY <2>3, <1>9, <1>13, <1>14 DEF Shows
<1>16. CASE ~(Len(rest) > Limit)
  <2>1. k + m = Len(R) BY <1>3, <1>5, <1>6, <1>7, <1>16
  <2>2. v.phase = "done" BY <1>16
  <2> QED BY <2>1, <2>2, <1>9, <1>13, <1>14 DEF Shows
<1> QED BY <1>15, <1>16

LEMMA RankingNowIsOne ==
  ASSUME StoreInv
  PROVE  IsRanking(RankingNow)
<1>1. PICK lex : lex = Lexical OBVIOUS
<1>2. PICK sem : sem = Semantic OBVIOUS
<1>3. PICK graph : graph = About(Terms(TopIds(lex, sem)), TopIds(lex, sem)) OBVIOUS
<1>4. PICK f : f = Total(lex, sem, graph) OBVIOUS
<1>5. RankingNow = ByScore(f) BY <1>1, <1>2, <1>3, <1>4 DEF RankingNow, Ranking
<1>6. /\ DOMAIN lex \subseteq DOMAIN rows /\ \A r \in DOMAIN lex : lex[r] \in Int
      /\ DOMAIN sem \subseteq DOMAIN rows /\ \A r \in DOMAIN sem : sem[r] \in Int
      /\ graph \subseteq DOMAIN rows
  <2>1. DOMAIN lex \subseteq DOMAIN rows /\ \A r \in DOMAIN lex : lex[r] \in Int
    BY <1>1, LexicalIsLive DEF Live
  <2>2. DOMAIN sem \subseteq DOMAIN rows /\ \A r \in DOMAIN sem : sem[r] \in Int
    BY <1>2, SemanticIsIndexed DEF StoreInv
  <2>3. graph \subseteq DOMAIN rows BY <1>3 DEF About, Live
  <2> QED BY <2>1, <2>2, <2>3
<1>7. PICK D : D = DOMAIN lex \cup DOMAIN sem \cup graph OBVIOUS
<1>8. DOMAIN f = D
      /\ \A r \in D : f[r] = 3 * Score(lex, r) + 5 * Score(sem, r) + 2 * (IF r \in graph THEN 5 ELSE 0)
  BY <1>4, <1>7 DEF Total
<1>9. D \subseteq DOMAIN rows /\ DOMAIN rows \subseteq 1..drawn BY <1>6, <1>7 DEF StoreInv
<1>10. Scores(f)
  <2>1. IsFiniteSet(1..drawn) BY FS_Interval DEF StoreInv
  <2>2. D \in SUBSET (1..drawn) BY <1>9
  <2>3. IsFiniteSet(D) BY <2>1, <2>2, FS_Subset
  <2>4. ASSUME NEW r \in D PROVE r \in Int /\ f[r] \in Int
    <3>1. Score(lex, r) \in Int BY <1>6 DEF Score
    <3>2. Score(sem, r) \in Int BY <1>6 DEF Score
    <3>3. (IF r \in graph THEN 5 ELSE 0) \in Int OBVIOUS
    <3>4. \A a, b, c \in Int : 3 * a + 5 * b + 2 * c \in Int OBVIOUS
    <3>5. f[r] \in Int BY <3>1, <3>2, <3>3, <3>4, <1>8
    <3> QED BY <3>5, <2>2
  <2> QED BY <2>3, <2>4, <1>8 DEF Scores
<1>11. PICK R : R = ByScore(f) OBVIOUS
<1>12. /\ Len(R) \in Nat /\ DOMAIN R = 1..Len(R) /\ R \in Seq(D)
       /\ \A i, j \in 1..Len(R) : i < j => Before(f, R[i], R[j])
  <2>1. /\ Cardinality(DOMAIN f) \in Nat
        /\ DOMAIN R = 1..Cardinality(DOMAIN f)
        /\ R \in Seq(DOMAIN f) /\ Len(R) = Cardinality(DOMAIN f)
        /\ \A i, j \in DOMAIN R : i < j => Before(f, R[i], R[j])
    BY ONLY <1>10, <1>11, ByScoreRanks
  <2> QED BY <2>1, <1>8
<1>13. \A i \in 1..Len(R) : R[i] \in D BY <1>12
<1>14. \A i \in 1..Len(R) : R[i] \in 1..drawn /\ R[i] # 0 /\ R[i] \in DOMAIN rows
  BY <1>9, <1>13 DEF StoreInv
<1>15. R \in Seq(Nat)
  <2>1. R \in [1..Len(R) -> Nat] BY <1>12, <1>14 DEF StoreInv
  <2> QED BY <2>1, <1>12, IsASeq
<1>16. ASSUME NEW i \in 1..Len(R), NEW j \in 1..Len(R), R[i] = R[j] PROVE i = j
  <2>1. ~Before(f, R[i], R[j]) /\ ~Before(f, R[j], R[i])
    BY <1>8, <1>10, <1>13, <1>16, BeforeIsAnOrder
  <2>2. ~(i < j) /\ ~(j < i) BY <2>1, <1>12
  <2> QED BY <2>2, <1>12
<1> QED BY <1>5, <1>11, <1>14, <1>15, <1>16 DEF IsRanking

TermsNow == Terms(TopIds(Lexical, Semantic))
GraphNow == About(TermsNow, TopIds(Lexical, Semantic))

\* What walk w has read of a page, when a search reads this.
Reads(w, lex, sem, terms, graph) ==
    /\ w.phase \in {"ask", "expand", "fetch", "done"}
    /\ w.phase = "ask" =>
          /\ "lexical"  \notin w.unread => w.lex = lex
          /\ "semantic" \notin w.unread => w.sem = sem
    /\ w.phase \in {"expand", "fetch"} => w.lex = lex /\ w.sem = sem /\ w.terms = terms
    /\ w.phase = "fetch" => w.graph = graph

\* A quiet walk has read what a search reads now, and shown as much of its ranking.
QuietInv ==
    walk.kind = "search" /\ walk.quiet =>
        Reads(walk, Lexical, Semantic, TermsNow, GraphNow) /\ Shows(walk, RankingNow)

LEMMA QuietSearchGoesOn ==
  ASSUME StoreInv, NEW w, NEW v, DOMAIN w = WalkFields,
         NEW lex, NEW sem, NEW terms, NEW graph, NEW R,
         Reads(w, lex, sem, terms, graph), Shows(w, R), IsRanking(R),
         R = Ranking(lex, sem, graph), lex = Lexical, sem = Semantic,
         terms = TermsNow, graph = GraphNow,
         w = walk, v = walk', w.kind = "search",
         SearchLexical \/ SearchSemantic \/ SearchTerms \/ SearchGraph \/ SearchPage
  PROVE  Reads(v, lex, sem, terms, graph) /\ Shows(v, R)
<1>1. CASE SearchLexical
  <2>1. w.phase = "ask" /\ v = [w EXCEPT !.lex = lex, !.unread = w.unread \ {"lexical"}]
    BY <1>1 DEF SearchLexical
  <2>2. /\ v.phase = w.phase /\ v.lex = lex /\ v.sem = w.sem
        /\ v.unread = w.unread \ {"lexical"} /\ v.shown = w.shown /\ v.cursor = w.cursor
    BY <2>1 DEF WalkFields
  <2> QED BY <2>1, <2>2 DEF Reads, Shows
<1>2. CASE SearchSemantic
  <2>1. w.phase = "ask" /\ v = [w EXCEPT !.sem = sem, !.unread = w.unread \ {"semantic"}]
    BY <1>2 DEF SearchSemantic
  <2>2. /\ v.phase = w.phase /\ v.lex = w.lex /\ v.sem = sem
        /\ v.unread = w.unread \ {"semantic"} /\ v.shown = w.shown /\ v.cursor = w.cursor
    BY <2>1 DEF WalkFields
  <2> QED BY <2>1, <2>2 DEF Reads, Shows
<1>3. CASE SearchTerms
  <2>1. w.phase = "ask" /\ w.unread = {} BY <1>3 DEF SearchTerms
  <2>2. w.lex = lex /\ w.sem = sem BY <2>1 DEF Reads
  <2>3. v = [w EXCEPT !.terms = terms, !.phase = "expand"]
    BY <2>2, <1>3 DEF SearchTerms, TermsNow
  <2>4. /\ v.phase = "expand" /\ v.lex = lex /\ v.sem = sem /\ v.terms = terms
        /\ v.shown = w.shown /\ v.cursor = w.cursor
    BY <2>2, <2>3 DEF WalkFields
  <2>5. Reads(v, lex, sem, terms, graph) BY <2>4 DEF Reads
  <2>6. Shows(v, R) BY <2>1, <2>4 DEF Shows
  <2> QED BY <2>5, <2>6
<1>4. CASE SearchGraph
  <2>1. w.phase = "expand" BY <1>4 DEF SearchGraph
  <2>2. w.lex = lex /\ w.sem = sem /\ w.terms = terms BY <2>1 DEF Reads
  <2>3. v = [w EXCEPT !.graph = graph, !.phase = "fetch"]
    BY <2>2, <1>4 DEF SearchGraph, GraphNow
  <2>4. /\ v.phase = "fetch" /\ v.lex = lex /\ v.sem = sem /\ v.terms = terms
        /\ v.graph = graph /\ v.shown = w.shown /\ v.cursor = w.cursor
    BY <2>2, <2>3 DEF WalkFields
  <2>5. Reads(v, lex, sem, terms, graph) BY <2>4 DEF Reads
  <2>6. Shows(v, R) BY <2>1, <2>4 DEF Shows
  <2> QED BY <2>5, <2>6
<1>5. CASE SearchPage
  <2>1. w.phase = "fetch" BY <1>5 DEF SearchPage
  <2>2. w.lex = lex /\ w.sem = sem /\ w.graph = graph BY <2>1 DEF Reads
  <2>3. PICK rest : rest = AfterCursor(R, w.cursor) OBVIOUS
  <2>4. PICK page : page = Take(rest, Limit) OBVIOUS
  <2>5. v = [w EXCEPT !.shown  = w.shown \o WithRow(page),
                      !.cursor = IF Len(rest) > Limit THEN page[Limit] ELSE w.cursor,
                      !.phase  = IF Len(rest) > Limit THEN "ask" ELSE "done",
                      !.unread = {"lexical", "semantic"}, !.seen = Live,
                      !.lex = <<>>, !.sem = <<>>, !.terms = {}, !.graph = {}]
    BY <2>2, <2>3, <2>4, <1>5 DEF SearchPage
  <2>6. /\ v.shown = w.shown \o WithRow(page)
        /\ v.cursor = IF Len(rest) > Limit THEN page[Limit] ELSE w.cursor
        /\ v.phase = IF Len(rest) > Limit THEN "ask" ELSE "done"
        /\ v.unread = {"lexical", "semantic"}
    BY <2>5 DEF WalkFields
  <2>7. Reads(v, lex, sem, terms, graph) BY <2>6 DEF Reads
  <2>8. w.phase # "done" BY <2>1
  <2>9. IsRanking(R) /\ Shows(w, R) OBVIOUS
  <2>10. Shows(v, R) BY ONLY <2>3, <2>4, <2>6, <2>8, <2>9, PageOfRanking
  <2> QED BY <2>7, <2>10
<1> QED BY <1>1, <1>2, <1>3, <1>4, <1>5

LEMMA QuietStep ==
  ASSUME StoreInv, WalkInv, QuietInv, [Next]_vars
  PROVE  QuietInv'
<1>1. PICK w : w = walk OBVIOUS
<1>2. PICK v : v = walk' OBVIOUS
<1>3. DOMAIN w = WalkFields BY <1>1 DEF WalkInv
<1>4. CASE Disturbs
  <2>1. "quiet" \in DOMAIN walk BY <1>1, <1>3 DEF WalkFields
  <2>2. walk'.quiet = FALSE BY <2>1, <1>4 DEF Disturbs, Disturbed
  <2> QED BY <2>2 DEF QuietInv
<1>5. CASE UNCHANGED <<rows, index>> /\ (Spares \/ WalkStep)
  <2>1. /\ Lexical' = Lexical /\ Semantic' = Semantic /\ Live' = Live
        /\ (\A seeds : Terms(seeds)' = Terms(seeds))
        /\ \A terms, seeds : About(terms, seeds)' = About(terms, seeds)
    BY <1>5 DEF Lexical, Semantic, Live, Terms, About
  <2>2. PICK lex : lex = Lexical OBVIOUS
  <2>3. PICK sem : sem = Semantic OBVIOUS
  <2>4. PICK terms : terms = TermsNow OBVIOUS
  <2>5. PICK graph : graph = GraphNow OBVIOUS
  <2>6. PICK R : R = RankingNow OBVIOUS
  <2>7. lex = Lexical' /\ sem = Semantic' BY <2>1, <2>2, <2>3
  <2>8. terms = TermsNow' BY <2>1, <2>4 DEF TermsNow
  <2>9. graph = GraphNow' BY <2>1, <2>4, <2>5, <2>8 DEF GraphNow
  <2>10. R = RankingNow' BY <2>1, <2>6 DEF RankingNow
  <2>11. R = Ranking(lex, sem, graph)
    BY <2>2, <2>3, <2>5, <2>6 DEF RankingNow, GraphNow, TermsNow
  <2>12. IsRanking(R) BY <2>6, RankingNowIsOne
  <2>13. w.kind = "search" /\ w.quiet => Reads(w, lex, sem, terms, graph) /\ Shows(w, R)
    BY <2>2, <2>3, <2>4, <2>5, <2>6, <1>1 DEF QuietInv
  <2>14. SUFFICES ASSUME v.kind = "search", v.quiet
                  PROVE  Reads(v, lex, sem, terms, graph) /\ Shows(v, R)
    BY <2>7, <2>8, <2>9, <2>10, <1>2 DEF QuietInv
  <2>15. CASE Spares
    <3>1. v = w BY <2>15, <1>1, <1>2 DEF Spares
    <3> QED BY <3>1, <2>13, <2>14
  <2>16. CASE \E kind \in {"list", "search"} : BeginWalk(kind)
    <3>1. /\ v.phase = "ask" /\ v.shown = <<>> /\ v.unread = {"lexical", "semantic"}
          /\ v.cursor = 0
      BY <2>14, <2>16, <1>2 DEF BeginWalk, NoWalk
    <3>2. Reads(v, lex, sem, terms, graph) BY <3>1 DEF Reads
    <3>3. Shows(v, R)
      <4>1. 0 \in 0..Len(R) BY <2>12 DEF IsRanking
      <4>2. v.shown \in Seq(Nat) /\ Len(v.shown) = 0 BY <3>1
      <4>3. v.cursor = CursorAfter(R, 0) BY <3>1 DEF CursorAfter
      <4> QED BY <4>1, <4>2, <4>3, <3>1 DEF Shows
    <3> QED BY <3>2, <3>3
  <2>17. CASE ListPage
    <3>1. w.kind = "list" /\ v.kind = w.kind BY <2>17, <1>1, <1>2, <1>3 DEF ListPage, WalkFields
    <3> QED BY <3>1, <2>14
  <2>18. CASE SemanticFails
    <3>1. v.quiet = FALSE BY <2>18, <1>1, <1>2, <1>3 DEF SemanticFails, WalkFields
    <3> QED BY <3>1, <2>14
  <2>19. CASE SearchLexical \/ SearchSemantic \/ SearchTerms \/ SearchGraph \/ SearchPage
    <3>1. w.kind = "search" /\ v.quiet = w.quiet
      BY <2>19, <1>1, <1>2, <1>3
         DEF SearchLexical, SearchSemantic, SearchTerms, SearchGraph, SearchPage, WalkFields
    <3>2. Reads(w, lex, sem, terms, graph) /\ Shows(w, R) BY <3>1, <2>13, <2>14
    <3>3. StoreInv OBVIOUS
    <3> QED BY ONLY <3>1, <3>2, <3>3, <2>2, <2>3, <2>4, <2>5, <2>11, <2>12, <2>19,
                    <1>1, <1>2, <1>3, QuietSearchGoesOn
  <2> QED BY <2>15, <2>16, <2>17, <2>18, <2>19, <1>5 DEF WalkStep
<1>6. Disturbs \/ (UNCHANGED <<rows, index>> /\ (Spares \/ WalkStep))
  BY StepsOfAWalk
     DEF Spares, WalkStep, BeginWalk, ListPage, SearchLexical, SearchSemantic, SemanticFails,
         SearchTerms, SearchGraph, SearchPage
<1> QED BY <1>4, <1>5, <1>6

\* While nothing changes, the pages of a search put together are a part of one ranking,
\* from its start, and all of it in the end (src/db/search.ts: hybridSearch; specification
\* 004: results are paginated deterministically).
THEOREM PagesMakeTheRanking == Spec => []PagesAreTheRanking
<1> DEFINE Inv == StoreInv /\ WalkInv /\ QuietInv
<1>1. Init => QuietInv BY DEF Init, NoWalk, QuietInv
<1>2. (StoreInv /\ WalkInv) /\ QuietInv /\ [Next]_vars => QuietInv' BY QuietStep
<1>3. (StoreInv /\ WalkInv) /\ QuietInv => PagesAreTheRanking
  <2> SUFFICES ASSUME StoreInv, QuietInv, walk.kind = "search", walk.quiet
               PROVE  /\ IsPrefix(walk.shown, RankingNow)
                      /\ walk.phase = "done" => walk.shown = RankingNow
    BY DEF PagesAreTheRanking
  <2>1. PICK R : R = RankingNow OBVIOUS
  <2>2. PICK w : w = walk OBVIOUS
  <2>3. IsRanking(R) /\ Shows(w, R) BY <2>1, <2>2, RankingNowIsOne DEF QuietInv
  <2>4. PICK k \in 0..Len(R) :
          /\ w.shown \in Seq(Nat) /\ Len(w.shown) = k
          /\ \A i \in 1..k : w.shown[i] = R[i]
          /\ w.phase = "done" => k = Len(R)
    BY <2>3 DEF Shows
  <2>5. PICK s \in Seq(Nat) : s = w.shown BY <2>4
  <2>6. R \in Seq(Nat) /\ Len(R) \in Nat /\ k \in Nat /\ k <= Len(R) BY <2>3 DEF IsRanking
  <2>7. \A q \in Seq(Nat) : k <= Len(q) =>
           /\ SubSeq(q, 1, k) \in Seq(Nat) /\ Len(SubSeq(q, 1, k)) = k
           /\ \A i \in 1..k : SubSeq(q, 1, k)[i] = q[i]
    OBVIOUS
  <2>8. Len(s) = k /\ \A i \in 1..k : s[i] = R[i] BY <2>4, <2>5
  <2>9. SubSeq(s, 1, k) = SubSeq(R, 1, k)
    <3>1. /\ SubSeq(s, 1, k) \in Seq(Nat) /\ Len(SubSeq(s, 1, k)) = k
          /\ \A i \in 1..k : SubSeq(s, 1, k)[i] = s[i]
      BY <2>6, <2>7, <2>8
    <3>2. /\ SubSeq(R, 1, k) \in Seq(Nat) /\ Len(SubSeq(R, 1, k)) = k
          /\ \A i \in 1..k : SubSeq(R, 1, k)[i] = R[i]
      BY <2>6, <2>7
    <3> QED BY ONLY <3>1, <3>2, <2>8, SeqEqual
  <2>10. IsPrefix(s, R) BY <2>6, <2>8, <2>9 DEF IsPrefix
  <2>11. w.phase = "done" => s = R
    <3>1. k = Len(R) => s = R BY <2>6, <2>8, SeqEqual
    <3> QED BY <3>1, <2>4
  <2> QED BY <2>1, <2>2, <2>5, <2>10, <2>11
<1> QED BY <1>1, <1>2, <1>3, WalksFollow, PTL DEF Spec
=============================================================================
