-------------------------- MODULE MCSequentialStore --------------------------
(* RecordStore with one handler, and the ids that its log is ordered by. *)
EXTENDS MCRecordStore, Ulid

CONSTANT MaxIds   \* how many ids of an isolate are tried

ASSUME MaxIdsAssumption == MaxIds \in Nat

OfSoMany == [calls \in 0..MaxIds |-> IdsInOrder(calls)]

\* ulid.ts: "sort order matches generation order".  The stamps that calls have drawn so
\* far, or the first MaxIds, are greater the later they were drawn, as the log takes
\* them to be, whatever the clock and the random digits were, while none overflowed.
StampsInOrder == OfSoMany[IF clock < MaxIds THEN clock ELSE MaxIds]
=============================================================================
