----------------------------- MODULE MCRetrieval -----------------------------
(* A small instance of Retrieval for TLC. *)
EXTENDS Retrieval

CONSTANTS h1, h2

\* "a" is found by its words, "c" as a distant neighbour and through a triple.
MCLex == [t \in Texts |-> IF t = "a" THEN 10 ELSE 0]
MCSem == [t \in Texts |-> IF t = "a" THEN 8 ELSE 1]

MCLinked == {{"a", "c"}}

Symmetry == Permutations(Handlers)

\* Of a search during which something changed nothing is stated but what it finds, and
\* a new walk can begin at any time: what such searches have shown is left out, and of
\* the rows they have seen those that have a vector.
View ==
    IF walk.kind = "search" /\ ~walk.quiet
    THEN <<drawn, rows, log, commits, index, call, behind,
           IF walk.phase = "done" THEN "done"
           ELSE <<walk.phase, walk.unread, walk.lex, walk.sem, walk.terms, walk.graph,
                  walk.seen \ DOMAIN index>>>>
    ELSE vars

\* Two entries were stored and embedded: the state the run starts from.
Stored(t) == [text |-> t, deleted |-> FALSE]

TwoEntries ==
    /\ drawn = 2
    /\ rows = <<Stored("a"), Stored("c")>>
    /\ log = [r \in 1..2 |-> [op |-> "CREATE", row |-> r, text |-> rows[r].text]]
    /\ commits = 0
    /\ index = <<"a", "c">>
    /\ call = [h \in Handlers |-> Idle]
    /\ behind = {}
    /\ walk = NoWalk

StoredSpec == TwoEntries /\ [][Next]_vars
=============================================================================
