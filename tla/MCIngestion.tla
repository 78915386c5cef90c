----------------------------- MODULE MCIngestion -----------------------------
(* Small instances of Ingestion for TLC. *)
EXTENDS Ingestion, TLC

CONSTANTS s1, s2, h1

\* Texts that share a chunk, repeat one, and have none; and one that is refused at
\* its second chunk.
MCTexts == {<<"a", "b", "c">>, <<"b", "b">>, <<>>, <<"b", "p">>}

\* One that is refused at its second chunk.
RaceTexts == {<<"a", "b", "c">>, <<"b", "p">>, <<>>}

Symmetry == Permutations(Sessions)

\* One text of three chunks, which is two batches.
OneText == {<<"a", "b", "c">>}
=============================================================================
