---------------------------- MODULE MCEntityGraph ----------------------------
(* Small instances of EntityGraph for TLC. *)
EXTENDS EntityGraph, TLC

\* "JS" and "js" are one name to the alias lookup, "Node" is another.
MCFold == [n \in Names |-> IF n = "JS" THEN "js" ELSE IF n = "Node" THEN "node" ELSE n]

Symmetry == Permutations(Handlers)

\* The state that two upserts lead to, "js" and then "Node": the runs about
\* merges start there.
Upserted(e) == [op |-> "CREATE", type |-> "entity", row |-> e, snap |-> None, reverted_by |-> 0]

TwoEntities ==
    /\ clock = 2
    /\ entities = <<"js", "Node">>
    /\ aliases = <<[alias |-> Fold["js"], entity |-> 1], [alias |-> Fold["Node"], entity |-> 2]>>
    /\ triples = <<>> /\ entries = <<>>
    /\ txns = <<Upserted(1), Upserted(2)>>
    /\ past = <<[entities |-> <<>>, aliases |-> {}, triples |-> <<>>, links |-> <<>>],
                [entities |-> <<"js">>, aliases |-> {<<Fold["js"], 1>>},
                 triples |-> <<>>, links |-> <<>>]>>
    /\ call = [h \in Handlers |-> Idle]

MergeSpec == TwoEntities /\ [][Next]_vars

\* Chains of merges take seven stamps; with triples or links there are six, and the
\* triples are about the two names that are there from the start.
ChainsOrTriples ==
    /\ (triples # <<>> \/ entries # <<>>) => clock <= 6
    /\ \A i \in DOMAIN triples : {triples[i].subject, triples[i].object} \subseteq {"js", "Node"}
=============================================================================
