----------------------------- MODULE MCConflicts -----------------------------
(* Small instances of Conflicts for TLC. *)
EXTENDS Conflicts, TLC

CONSTANTS h1, h2, k1, k2, o1, o2

\* Every handler in one session.
OneSession == [h \in Handlers |-> "s1"]

Symmetry == Permutations(Handlers) \cup Permutations(Objects)

Busy == {h \in Handlers : call[h] # Idle}

\* Facts are stated about k1; update_triple moves triples to k2 and back, while no
\* other call runs.
RacesOfOneKey ==
    /\ \A h \in Handlers : call[h].op = "create" => call[h].fact.key = k1
    /\ \A i \in DOMAIN conflicts : conflicts[i].incoming.key = k1
    /\ Cardinality(Busy) > 1 =>
          /\ \A h \in Busy : call[h].tool # "update"
          /\ \A i \in DOMAIN triples : triples[i].key = k1

RaceSpec == Init /\ [][Next /\ RacesOfOneKey']_vars

\* The age of a conflict matters only while it is stored.
View == <<clock, triples, txns, conflicts, stored, aged \cap stored, closed, call>>
=============================================================================
