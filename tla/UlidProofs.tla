------------------------------- MODULE UlidProofs -------------------------------
(***************************************************************************)
(* The order of ids, for any number of digits, base, clock and number of   *)
(* calls.  Arguments over the calls are by a least call that is out of     *)
(* order, also the one that the recursive KeptBy is defined for each call. *)
(***************************************************************************)
EXTENDS MCSequentialStore, WellFoundedInduction, TLAPS

\* A set of naturals that is not empty has a least element.
LEMMA LeastNat ==
  ASSUME NEW S \in SUBSET Nat, S # {}
  PROVE  \E m \in S : \A n \in S : m <= n
<1>1. PICK m \in S : \A n \in S : <<n, m>> \notin OpToRel(<, Nat)
  BY NatLessThanWellFounded, WFMin, Zenon
<1>2. \A n \in S : ~(n < m)
  BY <1>1, Zenon DEF OpToRel
<1> QED
  BY <1>2

-----------------------------------------------------------------------------
(* The order of digits *)

LEMMA SmallerTransitive ==
  ASSUME NEW r \in Random, NEW s \in Random, NEW t \in Random, Smaller(r, s), Smaller(s, t)
  PROVE  Smaller(r, t)
<1>0. \A i \in Digits : i \in Int /\ r[i] \in Int /\ s[i] \in Int /\ t[i] \in Int
  BY UlidAssumption DEF Random, Digits
<1>1. PICK i \in Digits : r[i] < s[i] /\ \A j \in Digits : j < i => r[j] = s[j]
  BY DEF Smaller
<1>2. PICK k \in Digits : s[k] < t[k] /\ \A j \in Digits : j < k => s[j] = t[j]
  BY DEF Smaller
<1>3. CASE i <= k
  <2>1. r[i] < t[i]
    BY <1>0, <1>1, <1>2, <1>3
  <2>2. \A j \in Digits : j < i => r[j] = t[j]
    BY <1>0, <1>1, <1>2, <1>3
  <2> QED
    BY <2>1, <2>2 DEF Smaller
<1>4. CASE k < i
  <2>1. r[k] < t[k]
    BY <1>0, <1>1, <1>2, <1>4
  <2>2. \A j \in Digits : j < k => r[j] = t[j]
    BY <1>0, <1>1, <1>2, <1>4
  <2> QED
    BY <2>1, <2>2 DEF Smaller
<1> QED
  BY <1>0, <1>3, <1>4

\* Digits that do not overflow have a last one that is not the highest.
LEMMA LastToCount ==
  ASSUME NEW r \in Random, ~Overflows(r)
  PROVE  \E i \in Digits : r[i] # Base - 1 /\ CarriedTo(r, i)
<1> DEFINE S == {Width - i : i \in {k \in Digits : r[k] # Base - 1}}
<1>1. S \in SUBSET Nat /\ S # {}
  BY UlidAssumption DEF Overflows, CarriedTo, Digits
<1>2. PICK m \in S : \A n \in S : m <= n
  <2> HIDE DEF S
  <2> QED
    BY <1>1, LeastNat, Zenon
<1>3. PICK i \in Digits : r[i] # Base - 1 /\ m = Width - i
  BY <1>2
<1>4. ASSUME NEW j \in Digits, j > i, r[j] # Base - 1 PROVE FALSE
  <2>1. m <= Width - j
    BY <1>2, <1>4
  <2>2. i \in Int /\ j \in Int /\ Width \in Int
    BY UlidAssumption DEF Digits
  <2> QED
    BY <1>3, <1>4, <2>1, <2>2
<1> QED
  BY <1>3, <1>4 DEF CarriedTo

\* Counting on gives digits again, and greater ones unless they overflow.
LEMMA IncrementIsGreater ==
  ASSUME NEW r \in Random
  PROVE  /\ Increment(r) \in Random
         /\ ~Overflows(r) => Smaller(r, Increment(r))
<1>1. \A x \in 0..(Base - 1) : (x + 1) % Base \in 0..(Base - 1)
  BY UlidAssumption
<1>2. \A x \in 0..(Base - 1) : x # Base - 1 => (x + 1) % Base = x + 1
  BY UlidAssumption
<1>3. Increment(r) \in Random
  BY <1>1 DEF Increment, Random
<1>4. ASSUME ~Overflows(r) PROVE Smaller(r, Increment(r))
  <2>1. PICK i \in Digits : r[i] # Base - 1 /\ CarriedTo(r, i)
    BY <1>4, LastToCount
  <2>2. r[i] \in 0..(Base - 1)
    BY DEF Random
  <2>3. Increment(r)[i] = r[i] + 1
    BY <1>2, <2>1, <2>2 DEF Increment
  <2>4. \A j \in Digits : j < i => Increment(r)[j] = r[j]
    BY <2>1 DEF Increment, CarriedTo, Digits
  <2> QED
    BY <2>2, <2>3, <2>4, UlidAssumption DEF Smaller
<1> QED
  BY <1>3, <1>4

-----------------------------------------------------------------------------
(* The order of ids *)

\* What an isolate keeps.
Last == [time : Nat, random : Random]

\* What it has kept after each of its calls.
Keeps(calls, now, drawn, kept) ==
    /\ now \in [1..calls -> Times]
    /\ drawn \in [1..calls -> Random]
    /\ kept \in [0..calls -> Last]
    /\ \A n \in 1..calls : kept[n] = Made(kept[n - 1], now[n], drawn[n])

LEMMA BeforeTransitive ==
  ASSUME NEW a \in Last, NEW b \in Last, NEW c \in Last, Before(a, b), Before(b, c)
  PROVE  Before(a, c)
<1>1. CASE a.time < b.time \/ b.time < c.time
  BY <1>1 DEF Before, Last
<1>2. CASE a.time = b.time /\ b.time = c.time
  <2>1. Smaller(a.random, b.random) /\ Smaller(b.random, c.random)
    BY <1>2 DEF Before, Last
  <2> QED
    BY <1>2, <2>1, SmallerTransitive DEF Before, Last
<1> QED
  BY <1>1, <1>2 DEF Before, Last

\* The id after another is greater, if the clock is not behind and neither overflows.
LEMMA NextIsGreater ==
  ASSUME NEW last \in Last, NEW now \in Nat, NEW then \in Nat, NEW drawn \in Random,
         then = last.time, then # 0, then <= now,
         Made(last, now, drawn).time # 0
  PROVE  Before(Id(then, last), Id(now, Made(last, now, drawn)))
<1>1. CASE now # then
  BY <1>1 DEF Before, Id
<1>2. CASE now = then
  <2>1. ~Overflows(last.random) /\ Made(last, now, drawn).random = Increment(last.random)
    BY <1>2 DEF Made
  <2> QED
    BY <1>2, <2>1, IncrementIsGreater DEF Before, Id, Last
<1> QED
  BY <1>1, <1>2

\* ulid.ts: of any ids that an isolate makes the later is the greater, unless the clock
\* went back, or the digits overflowed, in between.
THEOREM IdsAreInOrder ==
  ASSUME NEW calls \in Nat, NEW now, NEW drawn, NEW kept, Keeps(calls, now, drawn, kept)
  PROVE  InOrder(calls, now, kept)
<1>1. \A k \in 1..calls : now[k] \in Nat /\ now[k] # 0 /\ drawn[k] \in Random
  BY UlidAssumption DEF Keeps
<1>2. \A k \in 0..calls : kept[k] \in Last
  BY DEF Keeps
<1>3. ASSUME NEW k \in 1..calls, kept[k].time # 0 PROVE kept[k].time = now[k]
  <2>1. kept[k] = Made(kept[k - 1], now[k], drawn[k])
    BY DEF Keeps
  <2>2. now[k] = kept[k - 1].time \/ Made(kept[k - 1], now[k], drawn[k]).time = now[k]
    BY DEF Made
  <2> QED
    BY <1>3, <2>1, <2>2 DEF Made
<1>4. ASSUME NEW k \in 1..calls PROVE Id(now[k], kept[k]) \in Last
  BY <1>1, <1>2 DEF Id, Last
<1>5. ASSUME NEW k \in 2..calls, kept[k - 1].time # 0, kept[k].time # 0, now[k - 1] <= now[k]
      PROVE  Before(Id(now[k - 1], kept[k - 1]), Id(now[k], kept[k]))
  <2>1. k - 1 \in 1..calls /\ k \in 1..calls
    OBVIOUS
  <2>2. kept[k] = Made(kept[k - 1], now[k], drawn[k])
    BY <2>1 DEF Keeps
  <2>3. kept[k - 1] \in Last /\ now[k] \in Nat /\ now[k - 1] \in Nat /\ drawn[k] \in Random
    BY <1>1, <1>2, <2>1
  <2>4. now[k - 1] = kept[k - 1].time
    BY <1>3, <1>5, <2>1
  <2> QED
    BY <1>5, <2>2, <2>3, <2>4, NextIsGreater
<1>6. SUFFICES ASSUME NEW i \in 1..calls, NEW j \in 1..calls, i < j,
                      \A k \in (i + 1)..j : now[k - 1] <= now[k],
                      \A k \in i..j : kept[k].time # 0
               PROVE  Before(Id(now[i], kept[i]), Id(now[j], kept[j]))
  <2> SUFFICES ASSUME NEW j \in 1..calls, NEW i \in 1..(j - 1),
                      ~\E k \in (i + 1)..j : now[k] < now[k - 1],
                      ~\E k \in i..j : kept[k].time = 0
               PROVE  Before(Id(now[i], kept[i]), Id(now[j], kept[j]))
    BY DEF InOrder
  <2>1. i \in 1..calls /\ i < j
    OBVIOUS
  <2>2. \A k \in (i + 1)..j : now[k - 1] <= now[k]
    BY <1>1, <2>1
  <2> QED
    BY <1>6, <2>1, <2>2
<1> DEFINE Wrong == {k \in (i + 1)..j : ~Before(Id(now[i], kept[i]), Id(now[k], kept[k]))}
<1>7. Wrong = {}
  <2> SUFFICES ASSUME Wrong # {} PROVE FALSE
    OBVIOUS
  <2>1. Wrong \in SUBSET Nat
    OBVIOUS
  <2>2. PICK k \in Wrong : \A n \in Wrong : k <= n
    <3> HIDE DEF Wrong
    <3> QED
      BY <2>1, LeastNat, Zenon
  <2>3. /\ k \in 2..calls /\ k \in (i + 1)..j
        /\ kept[k - 1].time # 0 /\ kept[k].time # 0 /\ now[k - 1] <= now[k]
    BY <1>6, <2>2
  <2>4. Before(Id(now[k - 1], kept[k - 1]), Id(now[k], kept[k]))
    BY <1>5, <2>3
  <2>5. CASE k - 1 = i
    BY <2>2, <2>4, <2>5
  <2>6. CASE k - 1 # i
    <3>1. k - 1 \in (i + 1)..j /\ k - 1 \notin Wrong
      BY <2>2, <2>3, <2>6
    <3>2. Before(Id(now[i], kept[i]), Id(now[k - 1], kept[k - 1]))
      BY <3>1
    <3>3. /\ Id(now[i], kept[i]) \in Last /\ Id(now[k - 1], kept[k - 1]) \in Last
          /\ Id(now[k], kept[k]) \in Last
      BY <1>4, <2>3, <3>1
    <3> QED
      BY <2>2, <2>4, <3>2, <3>3, BeforeTransitive
  <2> QED
    BY <2>5, <2>6
<1> QED
  BY <1>6, <1>7

-----------------------------------------------------------------------------
(* What an isolate keeps is defined by recursion *)

\* What is kept before any call.
Nothing == [time |-> 0, random |-> [i \in Digits |-> 0]]

\* What f says to keep after call n.
KeptAfter(f, n, now, drawn) == IF n = 0 THEN Nothing ELSE Made(f[n - 1], now[n], drawn[n])

\* f is what is kept after each of so many calls.
IsKept(f, calls, now, drawn) == f = [n \in 0..calls |-> KeptAfter(f, n, now, drawn)]

\* There is a function that says what is kept after each call, whatever their number.
LEMMA KeptExists ==
  ASSUME NEW calls \in Nat, NEW now, NEW drawn
  PROVE  \E f : IsKept(f, calls, now, drawn)
<1> DEFINE Missing == {m \in Nat : ~\E f : IsKept(f, m, now, drawn)}
<1> SUFFICES Missing = {}
  OBVIOUS
<1> SUFFICES ASSUME Missing # {} PROVE FALSE
  OBVIOUS
<1>1. PICK m \in Missing : \A n \in Missing : m <= n
  <2>1. Missing \in SUBSET Nat
    OBVIOUS
  <2> HIDE DEF Missing
  <2> QED
    BY <2>1, LeastNat, Zenon
<1>2. CASE m = 0
  <2>1. \A f : \A n \in 0..0 : KeptAfter(f, n, now, drawn) = Nothing
    BY DEF KeptAfter
  <2>2. PICK f : f = [n \in 0..0 |-> Nothing]
    OBVIOUS
  <2>3. f = [n \in 0..0 |-> KeptAfter(f, n, now, drawn)]
    BY <2>1, <2>2
  <2> QED
    BY <1>1, <1>2, <2>3 DEF IsKept
<1>3. CASE m # 0
  <2>1. m - 1 \in Nat /\ m - 1 \notin Missing
    BY <1>1, <1>3
  <2>2. PICK f : f = [n \in 0..(m - 1) |-> KeptAfter(f, n, now, drawn)]
    BY <2>1 DEF IsKept
  <2>3. PICK g : g = [n \in 0..m |-> IF n = m THEN KeptAfter(f, n, now, drawn) ELSE f[n]]
    OBVIOUS
  <2>4. ASSUME NEW n \in 0..m PROVE g[n] = KeptAfter(g, n, now, drawn)
    <3>1. n # 0 => n - 1 \in 0..(m - 1) /\ n - 1 \in 0..m /\ n - 1 # m
      BY <1>1
    <3>2. n # 0 => g[n - 1] = f[n - 1]
      BY <2>3, <3>1
    <3>3. KeptAfter(g, n, now, drawn) = KeptAfter(f, n, now, drawn)
      BY <3>2 DEF KeptAfter
    <3>4. n # m => f[n] = KeptAfter(f, n, now, drawn)
      <4>1. n # m => n \in 0..(m - 1)
        BY <1>1
      <4> QED
        BY <2>2, <4>1
    <3> QED
      BY <2>3, <3>3, <3>4
  <2>5. g = [n \in 0..m |-> KeptAfter(g, n, now, drawn)]
    BY <2>3, <2>4
  <2> QED
    BY <1>1, <2>5 DEF IsKept
<1> QED
  BY <1>2, <1>3

\* The next thing kept is of the same kind.
LEMMA MadeIsKept ==
  ASSUME NEW last \in Last, NEW now \in Nat, NEW drawn \in Random
  PROVE  Made(last, now, drawn) \in Last
  BY IncrementIsGreater DEF Made, Last

\* So it is what an isolate that makes ids keeps.
LEMMA KeptByKeeps ==
  ASSUME NEW calls \in Nat, NEW now \in [1..calls -> Times], NEW drawn \in [1..calls -> Random]
  PROVE  Keeps(calls, now, drawn, KeptBy(calls, now, drawn))
<1>1. PICK kept : kept = KeptBy(calls, now, drawn)
  OBVIOUS
<1>2. kept = [n \in 0..calls |-> KeptAfter(kept, n, now, drawn)]
  <2>1. KeptBy(calls, now, drawn) = CHOOSE f : IsKept(f, calls, now, drawn)
    BY DEF KeptBy, IsKept, KeptAfter, Nothing
  <2>2. IsKept(kept, calls, now, drawn)
    BY <1>1, <2>1, KeptExists, Zenon
  <2> QED
    BY <2>2 DEF IsKept
<1>3. \A n \in 0..calls : kept[n] = KeptAfter(kept, n, now, drawn)
  BY <1>2
<1>4. \A n \in 1..calls : kept[n] = Made(kept[n - 1], now[n], drawn[n])
  BY <1>3 DEF KeptAfter
<1>5. \A n \in 0..calls : kept[n] \in Last
  <2> DEFINE Odd == {n \in 0..calls : kept[n] \notin Last}
  <2> SUFFICES ASSUME Odd # {} PROVE FALSE
    OBVIOUS
  <2>1. PICK n \in Odd : \A k \in Odd : n <= k
    <3>1. Odd \in SUBSET Nat
      OBVIOUS
    <3> HIDE DEF Odd
    <3> QED
      BY <3>1, LeastNat, Zenon
  <2>2. CASE n = 0
    <3>1. kept[n] = Nothing
      BY <1>3, <2>1, <2>2 DEF KeptAfter
    <3>2. 0 \in 0..(Base - 1)
      BY UlidAssumption
    <3> QED
      BY <2>1, <3>1, <3>2 DEF Nothing, Last, Random
  <2>3. CASE n # 0
    <3>1. n \in 1..calls /\ n - 1 \in 0..calls /\ ~(n <= n - 1)
      BY <2>1, <2>3
    <3>2. kept[n - 1] \in Last
      BY <2>1, <3>1
    <3>3. now[n] \in Nat /\ drawn[n] \in Random
      BY <3>1, UlidAssumption
    <3> QED
      BY <1>4, <2>1, <3>1, <3>2, <3>3, MadeIsKept
  <2> QED
    BY <2>2, <2>3
<1>6. kept \in [0..calls -> Last]
  BY <1>2, <1>5
<1> QED
  BY <1>1, <1>4, <1>6 DEF Keeps

\* ulid.ts: "sort order matches generation order", of any number of calls.
THEOREM AnyIdsAreInOrder == \A calls \in Nat : IdsInOrder(calls)
  BY KeptByKeeps, IdsAreInOrder DEF IdsInOrder

\* db/history.ts and the lists of entries order rows by their ids; so the stamps that stand
\* for ids in the log are in the order in which they were drawn.
THEOREM StampsAreInOrder == Spec => []StampsInOrder
<1>1. Init => clock \in Nat
  BY DEF Init
<1>2. clock \in Nat /\ [Next]_vars => (clock \in Nat)'
  <2>1. ASSUME NEW h \in Handlers
        PROVE  /\ \A image : BeginCreate(h, image) => clock' = clock + 1
               /\ \A r, patch : BeginUpdate(h, r, patch) => clock' = clock
               /\ \A r : BeginDelete(h, r) => clock' = clock
               /\ \A T : BeginUndo(h, T) => clock' = clock
               /\ Send(h) => clock' = clock + 1
               /\ CommitCreate(h) \/ CommitUpdate(h) \/ CommitDelete(h) => clock' = clock
               /\ \A n : CommitRevert(h, n) => clock' = clock
               /\ Fail(h) => clock' = clock
    BY DEF BeginCreate, BeginUpdate, BeginDelete, BeginUndo, Send,
           CommitCreate, CommitUpdate, CommitDelete, CommitRevert, Fail
  <2>2. [Next]_vars => clock' = clock \/ clock' = clock + 1
    BY <2>1, Zenon DEF Next, vars
  <2> QED
    BY <2>2
<1>3. clock \in Nat => StampsInOrder
  <2> SUFFICES ASSUME clock \in Nat PROVE StampsInOrder
    OBVIOUS
  <2>1. PICK tried : tried = IF clock < MaxIds THEN clock ELSE MaxIds
    OBVIOUS
  <2>2. tried \in 0..MaxIds /\ tried \in Nat
    BY <2>1, MaxIdsAssumption
  <2>3. IdsInOrder(tried)
    BY <2>2, AnyIdsAreInOrder
  <2> QED
    BY <2>1, <2>2, <2>3 DEF StampsInOrder, OfSoMany
<1> QED
  BY <1>1, <1>2, <1>3, PTL DEF Spec
===============================================================================
