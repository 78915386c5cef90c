---------------------------------- MODULE Ulid ----------------------------------
(***************************************************************************)
(* The ids of src/lib/ulid.ts: a reading of the clock and digits drawn at  *)
(* random, which a second id of one millisecond counts on.  Undo and the   *)
(* lists by page order rows by their ids.                                  *)
(***************************************************************************)
EXTENDS Integers

CONSTANTS
    Width,       \* how many digits are drawn, 16
    Base,        \* 32
    Times        \* the readings of Date.now

ASSUME UlidAssumption ==
    Width \in Nat \ {0} /\ Base \in Nat \ {0, 1} /\ Times \subseteq Nat \ {0}

Digits == 1..Width

Random == [Digits -> 0..(Base - 1)]

\* All digits after the i-th are the highest.
CarriedTo(r, i) == \A j \in Digits : j > i => r[j] = Base - 1

Overflows(r) == CarriedTo(r, 0)

\* mutant of Increment: no digit carries.
IncrementLast(r) == [r EXCEPT ![Width] = (@ + 1) % Base]

\* The digits, counted on; after the highest come all zeros.
Increment(r) == [i \in Digits |-> IF CarriedTo(r, i) THEN (r[i] + 1) % Base ELSE r[i]]

\* lastTime and lastRandom after an id is made at time now; if the digits overflow,
\* the next id draws its own.
Made(last, now, drawn) ==
    IF now # last.time
    THEN [time |-> now, random |-> drawn]
    ELSE [time   |-> IF Overflows(last.random) THEN 0 ELSE now,
          random |-> Increment(last.random)]

\* What an isolate has kept after each of its calls.
KeptBy(calls, now, drawn) ==
    LET kept[n \in 0..calls] ==
            IF n = 0 THEN [time |-> 0, random |-> [i \in Digits |-> 0]]
                     ELSE Made(kept[n - 1], now[n], drawn[n])
    IN  kept

\* The order of ids as texts.
Smaller(r, s) == \E i \in Digits : r[i] < s[i] /\ \A j \in Digits : j < i => r[j] = s[j]

Before(a, b) == a.time < b.time \/ (a.time = b.time /\ Smaller(a.random, b.random))

Id(time, kept) == [time |-> time, random |-> kept.random]

-----------------------------------------------------------------------------
(* Properties *)

\* Of two ids of an isolate the later one is greater, if the clock did not go back and
\* the digits did not overflow from the first to the last.
InOrder(calls, now, kept) ==
    \A j \in 1..calls : \A i \in 1..(j - 1) :
        \/ \E k \in (i + 1)..j : now[k] < now[k - 1]
        \/ \E k \in i..j : kept[k].time = 0
        \/ Before(Id(now[i], kept[i]), Id(now[j], kept[j]))

\* ulid.ts: "sort order matches generation order".  So it is of so many calls, whatever
\* the clock shows and the digits that are drawn.
IdsInOrder(calls) ==
    \A now \in [1..calls -> Times], drawn \in [1..calls -> Random] :
        InOrder(calls, now, KeptBy(calls, now, drawn))
=============================================================================
