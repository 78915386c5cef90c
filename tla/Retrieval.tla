------------------------------ MODULE Retrieval ------------------------------
(***************************************************************************)
(* What a client reads back while entries change: the list of entries by   *)
(* page (src/mcp/resources.ts) and hybrid search by page                   *)
(* (src/db/search.ts), with the vector index that the store and update     *)
(* tools keep beside the database.                                         *)
(*                                                                         *)
(* A client walks from page to page, giving the cursor of the last one     *)
(* back.  A page of the list is one SELECT.  A page of a search ranks the  *)
(* candidates of three reads anew and looks the cursor up in the ranking.  *)
(* The text of an entry stands for its topic and content; the query of the *)
(* walk is given by the scores it gives to texts, in tenths.               *)
(***************************************************************************)
EXTENDS Integers, SequencesExt

CONSTANTS
    Handlers,  \* the tool handlers that may be running at once
    Texts,
    Lex, Sem,  \* text -> its lexical and semantic score; lexical 0: no match
    Linked,    \* the pairs {t, u} of texts with a triple between their topics
    Limit,     \* the entries of a page
    MaxRows,   \* bound on the ids drawn
    MaxCommits \* bound on the batches committed

ASSUME ScoreAssumption ==
    /\ Lex \in [Texts -> 0..10] /\ Sem \in [Texts -> 0..10]
    /\ Limit \in Nat \ {0} /\ MaxRows \in Nat

VARIABLES
    drawn,   \* the last id drawn
    rows,    \* id -> text and deleted
    log,     \* the changes that are not undone
    commits, \* how many batches were committed
    index,   \* id -> the text whose vector is in the index
    call,    \* handler -> the call it is running
    behind,  \* history: the entries whose vector may have missed a change
    walk     \* the walk of a client

vars == <<drawn, rows, log, commits, index, call, behind, walk>>

\* A call: what it does next, to which row, the text it writes, and the text it
\* has read.
Call(op, row, text, before) == [op |-> op, row |-> row, text |-> text, before |-> before]

NoText == CHOOSE t \in Texts : TRUE  \* where a text means nothing
Idle   == Call("idle", 0, NoText, NoText)

\* stays, quiet and seen are history: the rows live ever since a list walk began,
\* whether nothing at all has changed since a search walk began, and the rows that
\* were live at some time since the search began the page it is at.
NoWalk == [kind |-> "none", phase |-> "done", shown |-> <<>>, cursor |-> 0,
           unread |-> {}, lex |-> <<>>, sem |-> <<>>, terms |-> {}, graph |-> {},
           stays |-> {}, quiet |-> FALSE, seen |-> {}]

With(f, x, y) == [z \in DOMAIN f \cup {x} |-> IF z = x THEN y ELSE f[z]]

Live == {r \in DOMAIN rows : ~rows[r].deleted}

Take(s, n) == SubSeq(s, 1, IF n < Len(s) THEN n ELSE Len(s))

-----------------------------------------------------------------------------
(* Ranking *)

\* Equal scores go by id.
Before(f, a, b) == f[a] > f[b] \/ (f[a] = f[b] /\ a < b)

\* The ids of a score, best first: the i-th has i - 1 before it.  (SetToSortSeq rests
\* on SortSeq of TLC, which has no definition to prove anything from.)
ByScore(f) ==
    [i \in 1..Cardinality(DOMAIN f) |->
        CHOOSE r \in DOMAIN f : Cardinality({q \in DOMAIN f : Before(f, q, r)}) = i - 1]

Best(f, n) == [r \in ToSet(Take(ByScore(f), n)) |-> f[r]]

\* mutant of Lexical: deleted entries that match are found too.
LexicalOfAll ==
    Best([r \in {x \in DOMAIN rows : Lex[rows[x].text] > 0} |-> Lex[rows[r].text]], 6 * Limit)

\* lexicalSearch: the live entries that match; hybridSearch asks for 3 * limit
\* and it takes twice as many.
Lexical == Best([r \in {x \in Live : Lex[rows[x].text] > 0} |-> Lex[rows[r].text]], 6 * Limit)

\* semanticSearch: the nearest of the index, whatever became of their entries.
Semantic == Best([r \in DOMAIN index |-> Sem[index[r]]], 3 * Limit)

\* topIds: the keys of the score map, in the order of insertion.
TopIds(lex, sem) ==
    ToSet(Take(ByScore(lex) \o SelectSeq(ByScore(sem), LAMBDA r : r \notin DOMAIN lex), Limit))

\* graphExpand: what a triple links to the topic of a live seed, and then the
\* live entries about it.
Terms(seeds) == {t \in Texts : \E s \in seeds \cap Live : {t, rows[s].text} \in Linked}
About(terms, seeds) == {r \in Live \ seeds : rows[r].text \in terms}

Score(f, r) == IF r \in DOMAIN f THEN f[r] ELSE 0

\* score_total with the default weights; the score of a neighbour is a half.
Total(lex, sem, graph) ==
    [r \in DOMAIN lex \cup DOMAIN sem \cup graph |->
        3 * Score(lex, r) + 5 * Score(sem, r) + 2 * (IF r \in graph THEN 5 ELSE 0)]

Ranking(lex, sem, graph) == ByScore(Total(lex, sem, graph))

\* mutant of AfterCursor: the entry of the cursor is not skipped.
FromCursor(ranking, cursor) ==
    IF cursor \in ToSet(ranking)
    THEN SubSeq(ranking, CHOOSE i \in DOMAIN ranking : ranking[i] = cursor, Len(ranking))
    ELSE ranking

\* What follows the cursor, or all if it is not ranked.
AfterCursor(ranking, cursor) ==
    IF cursor \in ToSet(ranking)
    THEN SubSeq(ranking, (CHOOSE i \in DOMAIN ranking : ranking[i] = cursor) + 1, Len(ranking))
    ELSE ranking

\* The ids of a page whose row is there, in the order of the page.  (SelectSeq, too, has
\* no definition to prove anything from.)
WithRow(page) ==
    LET places == ByScore([i \in {j \in DOMAIN page : page[j] \in DOMAIN rows} |-> 0])
    IN  [k \in DOMAIN places |-> page[places[k]]]

-----------------------------------------------------------------------------
Init ==
    /\ drawn = 0 /\ rows = <<>> /\ log = <<>> /\ commits = 0 /\ index = <<>>
    /\ call = [h \in Handlers |-> Idle]
    /\ behind = {}
    /\ walk = NoWalk

\* The entries change, or the index: a walk is no longer quiet.
Disturbed == [walk EXCEPT !.stays = @ \cap Live', !.quiet = FALSE,
                          !.seen  = IF walk.kind = "search" THEN @ \cup Live' ELSE @]

\* Another handler is about to write the vector of row r.
Overlaps(h, r) == \E g \in Handlers \ {h} : call[g].op = "embed" /\ call[g].row = r

\* store, or ingestion: an id is drawn and the batch sent.
BeginCreate(h, op, text) ==
    /\ call[h] = Idle
    /\ drawn < MaxRows
    /\ drawn' = drawn + 1
    /\ call' = [call EXCEPT ![h] = Call(op, drawn + 1, text, NoText)]
    /\ UNCHANGED <<rows, log, commits, index, behind, walk>>

\* update, delete: SELECT the live row.
BeginChange(h, op, r, text) ==
    /\ call[h] = Idle
    /\ r \in Live
    /\ call' = [call EXCEPT ![h] = Call(op, r, text, rows[r].text)]
    /\ UNCHANGED <<drawn, rows, log, commits, index, behind, walk>>

Logged(op, r, text) ==
    /\ commits < MaxCommits /\ commits' = commits + 1
    /\ log' = Append(log, [op |-> op, row |-> r, text |-> text])

\* Only the tool embeds what it stored; ingestion does not.
CommitCreate(h) ==
    LET c == call[h] IN
    /\ c.op \in {"store", "ingest"}
    /\ Logged("CREATE", c.row, c.text)
    /\ rows' = With(rows, c.row, [text |-> c.text, deleted |-> FALSE])
    /\ call' = [call EXCEPT ![h] = IF c.op = "store" THEN Call("embed", c.row, c.text, NoText)
                                    ELSE Idle]
    /\ behind' = IF c.op = "ingest" THEN behind \cup {c.row} ELSE behind
    /\ walk' = Disturbed
    /\ UNCHANGED <<drawn, index>>

\* mutant of Embedded: the text as it was before the update is embedded.
EmbedsOld(c) == c.before

\* The text that is embedded after an update: the entry that was returned.
Embedded(c) == c.text

CommitUpdate(h) ==
    LET c == call[h] IN
    /\ c.op = "update"
    /\ Logged("UPDATE", c.row, c.before)
    /\ rows' = [rows EXCEPT ![c.row].text = c.text]
    /\ call' = [call EXCEPT ![h] = Call("embed", c.row, Embedded(c), NoText)]
    /\ behind' = IF Overlaps(h, c.row) THEN behind \cup {c.row} ELSE behind \ {c.row}
    /\ walk' = Disturbed
    /\ UNCHANGED <<drawn, index>>

\* The vector of a deleted entry stays in the index.
CommitDelete(h) ==
    LET c == call[h] IN
    /\ c.op = "delete"
    /\ Logged("DELETE", c.row, c.before)
    /\ rows' = [rows EXCEPT ![c.row].deleted = TRUE]
    /\ call' = [call EXCEPT ![h] = Idle]
    /\ walk' = Disturbed
    /\ UNCHANGED <<drawn, index, behind>>

\* syncEmbedding: the vector is written.
Embed(h) ==
    LET c == call[h] IN
    /\ c.op = "embed"
    /\ index' = With(index, c.row, c.text)
    /\ call' = [call EXCEPT ![h] = Idle]
    /\ UNCHANGED <<drawn, rows, log, commits, behind>>
    /\ walk' = Disturbed

\* syncEmbedding: the model or the index fails, which is ignored.
EmbedFails(h) ==
    /\ call[h].op = "embed"
    /\ call' = [call EXCEPT ![h] = Idle]
    /\ behind' = behind \cup {call[h].row}
    /\ UNCHANGED <<drawn, rows, log, commits, index, walk>>

\* undo of the newest change, in one step (RecordStore has its awaits); it leaves
\* the index alone.
Undo ==
    /\ log # <<>>
    /\ commits < MaxCommits /\ commits' = commits + 1
    /\ LET t == log[Len(log)] IN
       /\ rows' = [rows EXCEPT ![t.row] =
              CASE t.op = "CREATE" -> [@ EXCEPT !.deleted = TRUE]
                [] t.op = "DELETE" -> [@ EXCEPT !.deleted = FALSE]
                [] t.op = "UPDATE" -> [@ EXCEPT !.text = t.text]]
       /\ behind' = IF t.op = "UPDATE" THEN behind \cup {t.row} ELSE behind
    /\ log' = SubSeq(log, 1, Len(log) - 1)
    /\ walk' = Disturbed
    /\ UNCHANGED <<drawn, index, call>>

-----------------------------------------------------------------------------
(* Walks *)

\* A client begins a walk, whether or not it has ended the last.
BeginWalk(kind) ==
    /\ walk' = [NoWalk EXCEPT !.kind = kind, !.phase = "ask",
                              !.cursor = IF kind = "list" THEN MaxRows + 1 ELSE 0,
                              !.unread = IF kind = "list" THEN {} ELSE {"lexical", "semantic"},
                              !.stays = IF kind = "list" THEN Live ELSE {},
                              !.quiet = (kind = "search"),
                              !.seen  = IF kind = "search" THEN Live ELSE {}]
    /\ UNCHANGED <<drawn, rows, log, commits, index, call, behind>>

\* mutant of NextCursor: the cursor is the extra entry that was fetched.
CursorOfExtra(found) == found[Len(found)]

\* The cursor is the last entry of the page.
NextCursor(found) == found[Limit]

\* knowledge://entries: live rows below the cursor, newest first, one extra.
\* Triples and transactions are listed alike.
ListPage ==
    /\ walk.kind = "list" /\ walk.phase = "ask"
    /\ LET found == Take(ByScore([r \in {x \in Live : x < walk.cursor} |-> r]), Limit + 1)
           more  == Len(found) > Limit
       IN  walk' = [walk EXCEPT !.shown  = @ \o Take(found, Limit),
                                !.cursor = IF more THEN NextCursor(found) ELSE @,
                                !.phase  = IF more THEN "ask" ELSE "done"]
    /\ UNCHANGED <<drawn, rows, log, commits, index, call, behind>>

\* The two searches run in parallel.
SearchLexical ==
    /\ walk.kind = "search" /\ "lexical" \in walk.unread /\ walk.phase = "ask"
    /\ walk' = [walk EXCEPT !.lex = Lexical, !.unread = @ \ {"lexical"}]
    /\ UNCHANGED <<drawn, rows, log, commits, index, call, behind>>

SearchSemantic ==
    /\ walk.kind = "search" /\ "semantic" \in walk.unread /\ walk.phase = "ask"
    /\ walk' = [walk EXCEPT !.sem = Semantic, !.unread = @ \ {"semantic"}]
    /\ UNCHANGED <<drawn, rows, log, commits, index, call, behind>>

\* A search whose model or index fails goes on without it.
SemanticFails ==
    /\ walk.kind = "search" /\ "semantic" \in walk.unread /\ walk.phase = "ask"
    /\ walk' = [walk EXCEPT !.sem = <<>>, !.unread = @ \ {"semantic"}, !.quiet = FALSE]
    /\ UNCHANGED <<drawn, rows, log, commits, index, call, behind>>

SearchTerms ==
    /\ walk.kind = "search" /\ walk.phase = "ask" /\ walk.unread = {}
    /\ walk' = [walk EXCEPT !.terms = Terms(TopIds(walk.lex, walk.sem)), !.phase = "expand"]
    /\ UNCHANGED <<drawn, rows, log, commits, index, call, behind>>

SearchGraph ==
    /\ walk.kind = "search" /\ walk.phase = "expand"
    /\ walk' = [walk EXCEPT !.graph = About(walk.terms, TopIds(walk.lex, walk.sem)),
                            !.phase = "fetch"]
    /\ UNCHANGED <<drawn, rows, log, commits, index, call, behind>>

\* The ranking is cut to a page, and its rows are fetched by id.
SearchPage ==
    /\ walk.kind = "search" /\ walk.phase = "fetch"
    /\ LET rest == AfterCursor(Ranking(walk.lex, walk.sem, walk.graph), walk.cursor)
           page == Take(rest, Limit)
           more == Len(rest) > Limit
       IN  walk' = [walk EXCEPT !.shown  = @ \o WithRow(page),
                                !.cursor = IF more THEN page[Limit] ELSE @,
                                !.phase  = IF more THEN "ask" ELSE "done",
                                !.unread = {"lexical", "semantic"}, !.seen = Live,
                                !.lex = <<>>, !.sem = <<>>, !.terms = {}, !.graph = {}]
    /\ UNCHANGED <<drawn, rows, log, commits, index, call, behind>>

Next ==
    \/ \E h \in Handlers :
          \/ \E text \in Texts, op \in {"store", "ingest"} : BeginCreate(h, op, text)
          \/ \E text \in Texts, r \in Live : BeginChange(h, "update", r, text)
          \/ \E r \in Live : BeginChange(h, "delete", r, NoText)
          \/ CommitCreate(h) \/ CommitUpdate(h) \/ CommitDelete(h)
          \/ Embed(h) \/ EmbedFails(h)
    \/ Undo
    \/ \E kind \in {"list", "search"} : BeginWalk(kind)
    \/ ListPage
    \/ SearchLexical \/ SearchSemantic \/ SemanticFails
    \/ SearchTerms \/ SearchGraph \/ SearchPage

Spec == Init /\ [][Next]_vars

-----------------------------------------------------------------------------
(* Properties *)

\* Walking the list, an entry that is there all the while is shown, and none is
\* shown twice, although ids are committed out of order and rows come and go.
ListedOnce ==
    walk.kind = "list" =>
        /\ \A i, j \in DOMAIN walk.shown : i < j => walk.shown[j] < walk.shown[i]
        /\ \A r \in walk.stays :
              (walk.phase = "done" \/ r >= walk.cursor) => r \in ToSet(walk.shown)

RankingNow ==
    LET seeds == TopIds(Lexical, Semantic)
    IN  Ranking(Lexical, Semantic, About(Terms(seeds), seeds))

\* Spec 004: results are paginated deterministically.  While nothing changes,
\* the pages of a search put together are the ranking, no more and no less.
PagesAreTheRanking ==
    (walk.kind = "search" /\ walk.quiet) =>
        /\ IsPrefix(walk.shown, RankingNow)
        /\ walk.phase = "done" => walk.shown = RankingNow

\* What a search finds, and may show, has a vector in the index or was live at some
\* time since the search began its page: only a vector brings back what was deleted.
FoundWhileLive ==
    walk.kind = "search" =>
        DOMAIN walk.lex \cup DOMAIN walk.sem \cup walk.graph \subseteq walk.seen \cup DOMAIN index

\* Every entry is found by what it says now, unless its vector missed a change
\* in one of the ways that are known: it was ingested, its embedding failed or
\* overlapped another, or undo took back an update.
IndexCurrent ==
    \A r \in DOMAIN rows :
        (r \notin behind /\ \A h \in Handlers : ~(call[h].op = "embed" /\ call[h].row = r))
            => r \in DOMAIN index /\ index[r] = rows[r].text
=============================================================================
