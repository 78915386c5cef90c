----------------------------- MODULE MCAccessKeys -----------------------------
(* A small instance of AccessKeys for TLC. *)
EXTENDS AccessKeys, TLC

CONSTANTS h1, h2

Symmetry == Permutations(Handlers)

Capped(t, least) == IF t - now < least THEN least ELSE t - now

Since(t) == Capped(t, -(Oldest + MaxCall + 1))

\* A token that is refused whatever its key.
Hopeless(t) == ~t.claims \/ t.exp < now - Skew

\* Only the times from now matter, and only those that are not too long ago; of a
\* call that has ended, only that it ended well.
KeysView ==
    <<[v \in DOMAIN since |-> Since(since[v])],
      IF pos.until <= now THEN 0 ELSE <<pos.version, pos.until - now>>, Capped(neg, 0),
      [h \in Handlers |->
          IF ~Running(h) THEN AdmittedRecent(call[h]) /\ GoodAdmitted(call[h])
          ELSE LET c == call[h] IN
               <<c.phase, c.began - now, c.keys,
                 IF Hopeless(c.token) THEN 0 ELSE <<c.token.kid, c.token.exp - now>>>>],
      fails, Capped(down, -(NegTTL + 2 * MaxCall + 1)),
      LET Recent(t) == t > now - NegTTL
          recent    == SelectSeq(asked, Recent)
      IN  [i \in DOMAIN recent |-> recent[i] - now],
      AskedSeldom>>
=============================================================================
