------------------------------- MODULE MCSignIn -------------------------------
(* A small instance of SignIn for TLC. *)
EXTENDS SignIn, TLC

\* So many enrollment pages are open, with app enrolled, if it is not 0, and no passkey
\* yet; the forms they follow are left out.
Enrolling(n, app) ==
    /\ secret = app /\ scanned = {app} \ {0}
    /\ cred = NoPasskey /\ passkeys = <<>>
    /\ pages = [p \in 1..n |-> [kind |-> "enroll", request |-> p, passkey |-> 0]]
    /\ open = 1..n
    /\ grants = [p \in 1..n |-> 0]
    /\ proved = [p \in 1..n |-> IF app = 0 THEN {"first passphrase"} ELSE {"passphrase", "code"}]

PagesInit ==
    /\ Enrolling(2, 0) \/ Enrolling(1, 0) \/ Enrolling(1, MaxPages + 1)
    /\ lost = 0
    /\ fails = [a \in Addresses |-> 0] /\ locks = {}
    /\ call = [h \in Handlers |-> Idle]
    /\ doubled = {} /\ crossed = {}
    /\ streak = [a \in Addresses |-> 0]

PagesSpec == PagesInit /\ [][Next]_vars

\* A request for a page whose record is gone ends without doing anything.
Ends(c) == c = Idle \/ (c.phase = "take" /\ c.page \notin open)

\* The pages that can still be used, or are being handled, and their requests.
InUse == open \cup ({call[h].page : h \in {g \in Handlers : ~Ends(call[g])}})

Running == {pages[p].request : p \in InUse}

\* What a call still needs of what it knows; a wrong code is as good as none.
Known(c) ==
    IF Ends(c) THEN <<>>
    ELSE <<c.phase, c.from, c.page,
           IF c.phase \in {"take", "drop"} THEN Taken(c) ELSE "none",
           IF c.phase \in {"take", "drop", "verify", "counter", "count", "factors", "put"}
              /\ c.n > 0 THEN c.n ELSE 0,
           IF c.phase = "count" THEN c.copy ELSE NoPasskey,
           IF c.phase = "clear" THEN c.then ELSE "grant">>

\* The passkeys that are enrolled or may still be, and those of them that a page asks for.
Usable == ({cred.id} \cup {call[h].copy.id : h \in Handlers} \cup InUse) \cap DOMAIN passkeys

Asked == {pages[p].passkey : p \in DOMAIN pages} \cap Usable

\* Nothing more happens to the other pages, requests and keys: it matters only how
\* many pages there are, and that no request has ended badly.
PagesView ==
    <<[p \in InUse |-> pages[p]], Drawn, open,
      [r \in Running |-> <<grants[r], IF Approved(r) THEN {} ELSE proved[r],
                            Approved(r), r \in doubled>>],
      \E r \in DOMAIN grants : Repeated(r) \/ (grants[r] > 0 /\ ~Approved(r)),
      secret, scanned \cap (InUse \cup {secret}),
      cred, [k \in Usable |-> passkeys[k]], Asked, crossed \cap Usable,
      fails, locks, lost,
      [h \in Handlers |-> Known(call[h])],
      [a \in Addresses |-> IF streak[a] > MaxFailed THEN MaxFailed ELSE streak[a]]>>

Symmetry == Permutations(Handlers)
=============================================================================
