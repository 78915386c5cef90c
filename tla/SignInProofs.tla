----------------------------- MODULE SignInProofs -----------------------------
(***************************************************************************)
(* The sign-in pages, for any number of requests, addresses, pages,        *)
(* signatures and lost requests.                                           *)
(*                                                                         *)
(* SignInv follows what is known of a page, and of a request between its   *)
(* awaits, back to what was shown or done: no step takes any of it back    *)
(* (Grown).  OnceInv says where what is left of an OAuth request goes on:  *)
(* in one place, so a grant is the last.  CountInv relates the count of    *)
(* failures that KV holds, or a request is about to put, to the failures.  *)
(***************************************************************************)
EXTENDS SignIn, FiniteSetTheorems, TLAPS

Fields == {"phase", "from", "page", "via", "right", "n", "copy", "then"}

\* What allows request r to be enrolled for.
Enrollable(r) ==
    \/ "passphrase" \in proved[r] /\ "code" \in proved[r]
    \/ "first passphrase" \in proved[r]

\* What a page was shown for.
PageFits(p) ==
    /\ pages[p].request \in DOMAIN grants
    /\ pages[p].kind = "passkey" => pages[p].passkey \in DOMAIN passkeys
    /\ pages[p].kind \in {"enroll", "totp"} => Enrollable(pages[p].request)

\* What a request came with, until it is verified.
Sent(c) ==
    LET page == pages[c.page] IN
    /\ c.via \in {"passkey", "form", "enroll", "totp", "skip", "instead"}
    /\ c.via \in {"skip", "instead"} => page.kind = "enroll"
    /\ c.via = "enroll"  => page.kind = "enroll" /\ (c.right => c.page \in DOMAIN passkeys)
    /\ c.via = "totp"    => page.kind = "totp" /\ (c.right => c.page \in scanned)

\* The device has counted as far as the answer says.
Signed(c) ==
    LET key == pages[c.page].passkey IN
    key \in DOMAIN passkeys /\ c.n \in Nat /\ c.n <= passkeys[key]

\* What is known of a request that is being served.
Fits(c) ==
    LET r == pages[c.page].request IN
    /\ DOMAIN c = Fields
    /\ c.phase # "idle" => c.page \in DOMAIN pages /\ c.from \in Addresses
    /\ c.phase \in {"take", "drop", "verify", "counter", "count", "store"} => c.then = "grant"
    /\ c.phase \in {"take", "drop"} => Sent(c) /\ (c.via = "passkey" => Signed(c))
    /\ c.phase \in {"verify", "counter", "count"} => Signed(c)
    /\ c.phase \in {"counter", "count"} => "passkey" \in proved[r]
    /\ c.phase = "count" => DOMAIN c.copy = {"id", "counter"} /\ c.copy.id \in DOMAIN passkeys
    /\ c.phase = "factors" =>
          /\ "passphrase" \in proved[r] \/ "first passphrase" \in proved[r]
          /\ secret = 0 /\ cred.id = 0 => "first passphrase" \in proved[r]
    /\ c.phase = "store" =>
          IF pages[c.page].kind = "totp" THEN c.page \in scanned
          ELSE pages[c.page].kind = "enroll" /\ c.page \in DOMAIN passkeys
    /\ c.phase = "instead" => Enrollable(r)
    /\ c.phase = "clear"   => c.then \in {"grant", "enroll"}
    /\ c.phase = "grant"  \/ (c.phase = "clear" /\ c.then = "grant")  => Approved(r)
    /\ c.phase = "enroll" \/ (c.phase = "clear" /\ c.then = "enroll") => Enrollable(r)

\* Request r was opened by a page of its number.
RequestFits(r) ==
    /\ r \in DOMAIN pages /\ pages[r].request = r
    /\ grants[r] \in Nat /\ (grants[r] > 0 => Approved(r))

Numbered ==
    /\ \E k \in Nat : DOMAIN pages = 1..k
    /\ open \subseteq DOMAIN pages
    /\ DOMAIN proved = DOMAIN grants
    /\ DOMAIN call = Handlers

Enrolled ==
    /\ secret # 0 => secret \in scanned
    /\ DOMAIN cred = {"id", "counter"} /\ cred.counter \in Nat
    /\ cred = NoPasskey \/ cred.id \in DOMAIN passkeys
    /\ cred.id \in DOMAIN passkeys => cred.counter <= passkeys[cred.id] \/ cred.id \in crossed
    /\ DOMAIN passkeys \subseteq DOMAIN pages
    /\ \A k \in DOMAIN passkeys : passkeys[k] \in Nat

SignInv ==
    /\ Numbered /\ Enrolled
    /\ \A p \in DOMAIN pages : PageFits(p)
    /\ \A r \in DOMAIN grants : RequestFits(r)
    /\ \A h \in Handlers : Fits(call[h])

\* What is left of a request goes on in one place: a page whose record is open or
\* being dropped, or a call that has taken the record and may yet grant.
Going == {"verify", "counter", "count", "factors", "store", "clear", "grant", "enroll", "instead"}

Taking(h, r) == call[h].phase = "drop" /\ RequestOf(h) = r
GoesOn(h, r) == call[h].phase \in Going /\ RequestOf(h) = r
OpenFor(p, r) == p \in open /\ pages[p].request = r

OnePlace(r) ==
    /\ \A p, q \in DOMAIN pages : OpenFor(p, r) /\ OpenFor(q, r) => p = q
    /\ \A p \in DOMAIN pages, h \in Handlers : OpenFor(p, r) /\ Taking(h, r) => call[h].page = p
    /\ \A p \in DOMAIN pages, h \in Handlers : OpenFor(p, r) => ~GoesOn(h, r)
    /\ \A g, h \in Handlers : Taking(g, r) /\ Taking(h, r) => g = h
    /\ \A g, h \in Handlers : Taking(g, r) => ~GoesOn(h, r)
    /\ \A g, h \in Handlers : GoesOn(g, r) /\ GoesOn(h, r) => g = h
    /\ grants[r] <= 1
    /\ grants[r] = 1 =>
          /\ \A p \in DOMAIN pages : ~OpenFor(p, r)
          /\ \A h \in Handlers : ~Taking(h, r) /\ ~GoesOn(h, r)

OnceInv == \A r \in DOMAIN grants \ doubled : OnePlace(r)

\* What a call is about to count is not ahead of the failures but by its own, and
\* a call that locks has counted enough of them.
CallCounts(c) ==
    LET a == c.from IN
    /\ c.phase = "put"  => c.n \in Nat /\ c.n <= streak[a] + 1
    /\ c.phase = "lock" => c.n \in Nat /\ c.n <= streak[a] /\ c.n >= MaxFailed

\* Nor is the count that KV holds ahead of the failures.
CountInv ==
    /\ fails \in [Addresses -> Nat] /\ streak \in [Addresses -> Nat]
    /\ \A a \in Addresses : fails[a] <= streak[a]
    /\ \A h \in Handlers : CallCounts(call[h])

-----------------------------------------------------------------------------
(* What is known stays known *)

\* Pages stay as shown, what was shown for a request and what the owner
\* holds stay, the device counts on, and what is enrolled is only replaced.
Grown ==
    /\ \A p \in DOMAIN pages : p \in DOMAIN pages' /\ pages'[p] = pages[p]
    /\ \A r \in DOMAIN grants : r \in DOMAIN grants' /\ proved[r] \subseteq proved'[r]
    /\ \A k \in DOMAIN passkeys :
          k \in DOMAIN passkeys' /\ passkeys'[k] \in Nat /\ passkeys[k] <= passkeys'[k]
    /\ scanned \subseteq scanned'
    /\ (secret' = 0 => secret = 0) /\ (cred'.id = 0 => cred.id = 0)

LEMMA ApprovedStays ==
  ASSUME Grown, NEW r \in DOMAIN grants, Approved(r)
  PROVE  Approved(r)'
  BY DEF Grown, Approved

LEMMA EnrollableStays ==
  ASSUME Grown, NEW r \in DOMAIN grants, Enrollable(r)
  PROVE  Enrollable(r)'
  BY DEF Grown, Enrollable

LEMMA PageFitsStays ==
  ASSUME SignInv, Grown, NEW p \in DOMAIN pages
  PROVE  PageFits(p)'
<1>1. PageFits(p) /\ p \in DOMAIN pages' /\ pages'[p] = pages[p]
  BY DEF SignInv, Grown
<1>2. PICK r : r = pages[p].request
  OBVIOUS
<1>3. r \in DOMAIN grants /\ r \in DOMAIN pages
  BY <1>1, <1>2 DEF PageFits, SignInv, RequestFits
<1>4. Enrollable(r) => Enrollable(r)'
  BY <1>3, EnrollableStays
<1> QED
  BY <1>1, <1>2, <1>3, <1>4 DEF PageFits, Grown

LEMMA FitsStays ==
  ASSUME SignInv, Grown, NEW c, Fits(c)
  PROVE  Fits(c)'
<1>1. CASE c.phase = "idle"
  BY <1>1 DEF Fits
<1>2. CASE c.phase # "idle"
  <2>1. c.page \in DOMAIN pages /\ c.page \in DOMAIN pages' /\ pages'[c.page] = pages[c.page]
    BY <1>2 DEF Fits, Grown
  <2>2. PICK page : page = pages[c.page]
    OBVIOUS
  <2>3. PICK r : r = page.request
    OBVIOUS
  <2>4. r \in DOMAIN grants /\ r \in DOMAIN pages
    BY <2>1, <2>2, <2>3 DEF SignInv, PageFits, RequestFits
  <2>5. Approved(r) => Approved(r)'
    BY <2>4, ApprovedStays
  <2>6. Enrollable(r) => Enrollable(r)'
    BY <2>4, EnrollableStays
  <2>7. Sent(c) => Sent(c)'
    BY <2>1 DEF Sent, Grown
  <2>8. Signed(c) => Signed(c)'
    <3>1. PICK key : key = page.passkey
      OBVIOUS
    <3> QED
      BY <2>1, <2>2, <3>1 DEF Signed, Grown, SignInv, Enrolled
  <2>9. /\ \A x \in proved[r] : x \in proved'[r]
        /\ \A k \in DOMAIN passkeys : k \in DOMAIN passkeys'
        /\ \A k \in scanned : k \in scanned'
        /\ (secret' = 0 => secret = 0) /\ (cred'.id = 0 => cred.id = 0)
    BY <2>4 DEF Grown
  <2> QED
    BY <1>2, <2>1, <2>2, <2>3, <2>5, <2>6, <2>7, <2>8, <2>9 DEF Fits
<1> QED
  BY <1>1, <1>2

\* The call of h is d after the step, and the others are as they were.
Now(h, d) ==
    /\ DOMAIN call' = Handlers /\ call'[h] = d
    /\ \A g \in Handlers \ {h} : call'[g] = call[g]

\* A call that is c after the step fits if c does then.
LEMMA CallFits ==
  ASSUME NEW g, NEW c, call'[g] = c, Fits(c)'
  PROVE  Fits(call[g])'
  BY ZenonT(60) DEF Fits, Sent, Signed, Enrollable, Approved

\* A step of a request that shows no page and grants nothing.
LEMMA SignStep ==
  ASSUME SignInv, Grown, NEW h \in Handlers, NEW d, Now(h, d), Fits(d)',
         UNCHANGED <<pages, grants>>, open' \subseteq open, DOMAIN proved' = DOMAIN proved,
         Enrolled'
  PROVE  SignInv'
<1>1. Numbered'
  BY DEF SignInv, Numbered, Now
<1>2. ASSUME NEW p \in DOMAIN pages' PROVE PageFits(p)'
  BY PageFitsStays
<1>3. ASSUME NEW r \in DOMAIN grants' PROVE RequestFits(r)'
  <2>1. r \in DOMAIN grants /\ RequestFits(r) /\ r \in DOMAIN pages
    BY <1>3 DEF SignInv, RequestFits
  <2>2. Approved(r) => Approved(r)'
    BY <2>1, ApprovedStays
  <2> QED
    BY <2>1, <2>2 DEF RequestFits
<1>4. ASSUME NEW g \in Handlers PROVE Fits(call[g])'
  <2>1. PICK c : c = call[g]
    OBVIOUS
  <2>2. Fits(c)
    BY <2>1 DEF SignInv, Fits, Sent, Signed, Enrollable, Approved
  <2>3. Fits(c)'
    BY <2>2, FitsStays
  <2>4. call'[g] = IF g = h THEN d ELSE c
    BY <2>1 DEF Now
  <2> QED
    BY <2>3, <2>4, CallFits
<1> QED
  BY <1>1, <1>2, <1>3, <1>4 DEF SignInv

\* A step of a request that changes only what is said of no page, passkey or request.
LEMMA SignMoves ==
  ASSUME SignInv, NEW h \in Handlers, NEW d, Now(h, d), Fits(d),
         UNCHANGED <<pages, grants, proved, secret, cred, owner, crossed>>, open' \subseteq open
  PROVE  SignInv'
<1>1. Grown
  BY DEF Grown, SignInv, Enrolled, owner
<1>2. Fits(d)'
  BY <1>1, FitsStays
<1>3. Enrolled'
  BY DEF SignInv, Enrolled, owner
<1> QED
  BY <1>1, <1>2, <1>3, SignStep

-----------------------------------------------------------------------------
(* The steps of one request *)

\* A call whose phase changes alone.
LEMMA GoesNow ==
  ASSUME SignInv, NEW h \in Handlers, NEW phase, Goes(h, phase), NEW c, c = call[h]
  PROVE  \E d : /\ Now(h, d) /\ DOMAIN d = Fields /\ d.phase = phase /\ d.page = c.page
                /\ d.from = c.from /\ d.via = c.via /\ d.right = c.right /\ d.n = c.n /\ d.copy = c.copy
                /\ d.then = c.then
<1>1. PICK d : d = [c EXCEPT !.phase = phase]
  OBVIOUS
<1>2. DOMAIN c = Fields /\ DOMAIN call = Handlers
  BY DEF SignInv, Fits, Numbered
<1>3. Now(h, d)
  BY <1>1, <1>2 DEF Goes, Now
<1>4. /\ DOMAIN d = Fields /\ d.phase = phase /\ d.page = c.page
      /\ d.from = c.from /\ d.via = c.via /\ d.right = c.right /\ d.n = c.n /\ d.copy = c.copy
      /\ d.then = c.then
  BY <1>1, <1>2 DEF Fields
<1> QED
  BY <1>3, <1>4

LEMMA CallNow ==
  ASSUME SignInv, NEW h \in Handlers, NEW c, c = call[h]
  PROVE  Fits(c)
  BY DEF SignInv, Fits, Sent, Signed, Enrollable, Approved

\* A call that is replaced.
LEMMA BecomesNow ==
  ASSUME SignInv, NEW h \in Handlers, NEW d, call' = [call EXCEPT ![h] = d]
  PROVE  Now(h, d)
  BY DEF SignInv, Numbered, Now

LEMMA CallFields ==
  ASSUME NEW phase, NEW from, NEW page, NEW via, NEW right, NEW n, NEW c,
         c = Call(phase, from, page, via, right, n)
  PROVE  /\ DOMAIN c = Fields /\ c.phase = phase /\ c.from = from /\ c.page = page /\ c.via = via
         /\ c.right = right /\ c.n = n /\ c.copy = NoPasskey /\ c.then = "grant"
  BY DEF Call, Fields

LEMMA IdleFits == ASSUME NEW c, c = Idle PROVE Fits(c) /\ c.phase = "idle"
<1>1. DOMAIN c = Fields /\ c.phase = "idle"
  BY DEF Idle, Call, Fields
<1> QED
  BY <1>1 DEF Fits

\* A call ends, with an answer or without.
LEMMA SignEnds ==
  ASSUME SignInv, NEW h \in Handlers, call' = [call EXCEPT ![h] = Idle],
         UNCHANGED <<pages, open, grants, proved, secret, cred, owner, crossed>>
  PROVE  SignInv'
<1>1. PICK d : d = Idle
  OBVIOUS
<1>2. Now(h, d) /\ Fits(d)
  BY <1>1, BecomesNow, IdleFits
<1> QED
  BY <1>2, SignMoves

\* A page is sent: what comes with it fits the page.
LEMMA SubmitStep ==
  ASSUME SignInv, Grown, NEW h \in Handlers, NEW a \in Addresses, NEW p \in DOMAIN pages,
         NEW via, NEW right, NEW n, Submit(h, a, p, via, right, n), Enrolled',
         NEW c, c = Call("take", a, p, via, right, n), Sent(c)', via = "passkey" => Signed(c)'
  PROVE  SignInv'
<1>1. /\ DOMAIN c = Fields /\ c.phase = "take" /\ c.from = a /\ c.page = p /\ c.via = via
      /\ c.then = "grant"
  BY CallFields
<1>2. /\ UNCHANGED <<pages, open, grants, proved, secret, cred>>
      /\ call' = [call EXCEPT ![h] = c]
  BY DEF Submit, kv, history
<1>3. Fits(c)'
  BY <1>1, <1>2 DEF Fits
<1>4. Now(h, c)
  BY <1>2, BecomesNow
<1> QED
  BY <1>2, <1>3, <1>4, SignStep

\* What the owner does not change stays enrolled and held.
LEMMA SubmitOwner ==
  ASSUME SignInv, NEW h, NEW a, NEW p, NEW via, NEW right, NEW n, Submit(h, a, p, via, right, n),
         UNCHANGED owner
  PROVE  Grown /\ Enrolled'
  BY DEF SignInv, Enrolled, Grown, Submit, kv, history, owner

LEMMA SubmitPasskeyStep ==
  ASSUME SignInv, NEW h \in Handlers, NEW a \in Addresses, NEW p \in DOMAIN pages,
         SubmitPasskey(h, a, p)
  PROVE  SignInv'
<1>1. PICK key : key = pages[p].passkey
  OBVIOUS
<1>2. PICK n : n = passkeys[key] + 1
  OBVIOUS
<1>3. /\ pages[p].kind = "passkey" /\ Submit(h, a, p, "passkey", FALSE, n) /\ scanned' = scanned
      /\ passkeys' = [passkeys EXCEPT ![key] = @ + 1]
  BY <1>1, <1>2 DEF SubmitPasskey
<1>4. UNCHANGED <<pages, open, grants, proved, secret, cred, crossed>>
  BY <1>3 DEF Submit, kv, history
<1>5. key \in DOMAIN passkeys /\ passkeys[key] \in Nat
  BY <1>1, <1>3 DEF SignInv, PageFits, Enrolled
<1>6. /\ DOMAIN passkeys' = DOMAIN passkeys /\ passkeys'[key] = n
      /\ \A k \in DOMAIN passkeys : k # key => passkeys'[k] = passkeys[k]
  BY <1>2, <1>3, <1>5
<1>7. \A k \in DOMAIN passkeys : passkeys[k] \in Nat /\ passkeys'[k] \in Nat /\ passkeys[k] <= passkeys'[k]
  BY <1>2, <1>5, <1>6 DEF SignInv, Enrolled
<1>8. Grown
  BY <1>3, <1>4, <1>6, <1>7 DEF Grown
<1>9. Enrolled'
  <2>1. cred.id \in DOMAIN passkeys =>
            cred.counter <= passkeys'[cred.id] \/ cred.id \in crossed
    <3>1. ASSUME cred.id \in DOMAIN passkeys, cred.counter <= passkeys[cred.id]
          PROVE  cred.counter <= passkeys'[cred.id]
      <4>1. CASE cred.id # key
        BY <1>6, <3>1, <4>1
      <4>2. CASE cred.id = key
        BY <1>2, <1>5, <1>6, <3>1, <4>2 DEF SignInv, Enrolled
      <4> QED
        BY <4>1, <4>2
    <3> QED
      BY <3>1 DEF SignInv, Enrolled
  <2> QED
    BY <1>3, <1>4, <1>6, <1>7, <2>1 DEF SignInv, Enrolled
<1>10. PICK c : c = Call("take", a, p, "passkey", FALSE, n)
  OBVIOUS
<1>11. c.page = p /\ c.via = "passkey" /\ c.n = n
  BY <1>10 DEF Call
<1>12. Sent(c)'
  BY <1>11 DEF Sent
<1>13. Signed(c)'
  BY <1>1, <1>2, <1>4, <1>5, <1>6, <1>11 DEF Signed
<1> QED
  BY <1>3, <1>8, <1>9, <1>10, <1>12, <1>13, SubmitStep

LEMMA SubmitFormStep ==
  ASSUME SignInv, NEW h \in Handlers, NEW a \in Addresses, NEW p \in DOMAIN pages, NEW right, NEW code,
         SubmitForm(h, a, p, right, code)
  PROVE  SignInv'
<1>1. Submit(h, a, p, "form", right, code) /\ UNCHANGED owner
  BY DEF SubmitForm
<1>2. PICK c : c = Call("take", a, p, "form", right, code)
  OBVIOUS
<1>3. Grown /\ Enrolled'
  BY <1>1, SubmitOwner
<1>4. c.via = "form"
  BY <1>2 DEF Call
<1>5. Sent(c)'
  BY <1>4 DEF Sent
<1> QED
  BY <1>1, <1>2, <1>3, <1>4, <1>5, SubmitStep

LEMMA LinkStep ==
  ASSUME SignInv, NEW h \in Handlers, NEW a \in Addresses, NEW p \in DOMAIN pages,
         SkipPasskey(h, a, p) \/ EnrollAppInstead(h, a, p)
  PROVE  SignInv'
<1>1. PICK via \in {"skip", "instead"} : Submit(h, a, p, via, FALSE, 0)
  BY DEF SkipPasskey, EnrollAppInstead
<1>2. UNCHANGED owner /\ pages[p].kind = "enroll"
  BY DEF SkipPasskey, EnrollAppInstead
<1>3. PICK c : c = Call("take", a, p, via, FALSE, 0)
  OBVIOUS
<1>4. Grown /\ Enrolled'
  BY <1>1, <1>2, SubmitOwner
<1>5. c.via = via /\ c.page = p /\ pages' = pages
  BY <1>1, <1>3 DEF Call, Submit
<1>6. Sent(c)'
  BY <1>1, <1>2, <1>5 DEF Sent
<1>7. via # "passkey"
  BY <1>1
<1> QED
  BY <1>1, <1>3, <1>4, <1>6, <1>7, SubmitStep

LEMMA SubmitEnrollmentStep ==
  ASSUME SignInv, NEW h \in Handlers, NEW a \in Addresses, NEW p \in DOMAIN pages, NEW right \in BOOLEAN,
         SubmitEnrollment(h, a, p, right)
  PROVE  SignInv'
<1>1. /\ Submit(h, a, p, "enroll", right, 0) /\ scanned' = scanned /\ pages[p].kind = "enroll"
      /\ passkeys' = IF right /\ p \notin DOMAIN passkeys THEN With(passkeys, p, 0) ELSE passkeys
  BY DEF SubmitEnrollment
<1>2. UNCHANGED <<pages, open, grants, proved, secret, cred, crossed>>
  BY <1>1 DEF Submit, kv, history
<1>3. /\ DOMAIN passkeys \subseteq DOMAIN passkeys'
      /\ DOMAIN passkeys' \subseteq DOMAIN passkeys \cup {p}
      /\ right => p \in DOMAIN passkeys'
      /\ \A k \in DOMAIN passkeys : passkeys'[k] = passkeys[k]
      /\ p \notin DOMAIN passkeys /\ p \in DOMAIN passkeys' => passkeys'[p] = 0
  BY <1>1 DEF With
<1>4. \A k \in DOMAIN passkeys' : passkeys'[k] \in Nat
  BY <1>3 DEF SignInv, Enrolled
<1>5. Grown
  <2>1. \A k \in DOMAIN passkeys : passkeys[k] <= passkeys'[k]
    BY <1>3 DEF SignInv, Enrolled
  <2> QED
    BY <1>1, <1>2, <1>3, <1>4, <2>1 DEF Grown
<1>6. Enrolled'
  <2>1. cred.id \in DOMAIN passkeys' =>
            cred.counter <= passkeys'[cred.id] \/ cred.id \in crossed
    <3>1. CASE cred.id \in DOMAIN passkeys
      BY <1>3, <3>1 DEF SignInv, Enrolled
    <3>2. CASE cred.id \notin DOMAIN passkeys /\ cred = NoPasskey
      <4>1. cred.id = 0
        BY <3>2 DEF NoPasskey
      <4>2. 0 \notin DOMAIN pages
        BY DEF SignInv, Numbered
      <4>3. DOMAIN passkeys' \subseteq DOMAIN pages
        BY <1>3 DEF SignInv, Enrolled
      <4> QED
        BY <4>1, <4>2, <4>3
    <3> QED
      BY <3>1, <3>2 DEF SignInv, Enrolled
  <2> QED
    BY <1>1, <1>2, <1>3, <1>4, <2>1 DEF SignInv, Enrolled
<1>7. PICK c : c = Call("take", a, p, "enroll", right, 0)
  OBVIOUS
<1>8. c.page = p /\ c.via = "enroll" /\ c.right = right
  BY <1>7 DEF Call
<1>9. Sent(c)'
  BY <1>1, <1>2, <1>3, <1>8 DEF Sent
<1> QED
  BY <1>1, <1>5, <1>6, <1>7, <1>9, SubmitStep

LEMMA SubmitCodeStep ==
  ASSUME SignInv, NEW h \in Handlers, NEW a \in Addresses, NEW p \in DOMAIN pages, NEW right \in BOOLEAN,
         SubmitCode(h, a, p, right)
  PROVE  SignInv'
<1>1. /\ Submit(h, a, p, "totp", right, 0) /\ passkeys' = passkeys /\ pages[p].kind = "totp"
      /\ scanned' = IF right THEN scanned \cup {p} ELSE scanned
  BY DEF SubmitCode
<1>2. UNCHANGED <<pages, open, grants, proved, secret, cred, crossed>>
  BY <1>1 DEF Submit, kv, history
<1>3. Grown /\ Enrolled'
  BY <1>1, <1>2 DEF Grown, SignInv, Enrolled
<1>4. PICK c : c = Call("take", a, p, "totp", right, 0)
  OBVIOUS
<1>5. c.page = p /\ c.via = "totp" /\ c.right = right
  BY <1>4 DEF Call
<1>6. Sent(c)'
  BY <1>1, <1>2, <1>5 DEF Sent
<1> QED
  BY <1>1, <1>3, <1>4, <1>6, SubmitStep

\* The record of the page is there, or the answer is sent.
LEMMA TakeStep ==
  ASSUME SignInv, NEW h \in Handlers, Take(h)
  PROVE  SignInv'
<1>1. UNCHANGED <<pages, open, grants, proved, secret, cred, owner, crossed>>
  BY DEF Take, kv
<1>2. CASE Answer(h)
  BY <1>1, <1>2, SignEnds DEF Answer
<1>3. CASE Goes(h, "drop")
  <2>1. PICK c : c = call[h]
    OBVIOUS
  <2>2. c.phase = "take" /\ Fits(c)
    BY <2>1, CallNow DEF Take, At
  <2>3. PICK d : /\ Now(h, d) /\ DOMAIN d = Fields /\ d.phase = "drop" /\ d.page = c.page
                 /\ d.from = c.from /\ d.via = c.via /\ d.right = c.right /\ d.n = c.n /\ d.copy = c.copy
                 /\ d.then = c.then
    BY <1>3, <2>1, GoesNow
  <2>4. Fits(d)
    BY <2>2, <2>3 DEF Fits, Sent, Signed
  <2> QED
    BY <1>1, <2>3, <2>4, SignMoves
<1> QED
  BY <1>2, <1>3 DEF Take

\* Something more is shown for the request of a call.
LEMMA ShownMore ==
  ASSUME SignInv, NEW h \in Handlers, NEW what, Shown(h, what), NEW c, c = call[h],
         c.phase # "idle", NEW r, r = pages[c.page].request, UNCHANGED <<pages, grants, owner>>,
         secret' = 0 => secret = 0, cred'.id = 0 => cred.id = 0
  PROVE  /\ Grown /\ DOMAIN proved' = DOMAIN proved
         /\ r \in DOMAIN grants /\ r \in DOMAIN pages
         /\ what \in proved'[r] /\ \A x \in proved[r] : x \in proved'[r]
<1>1. c.page \in DOMAIN pages
  BY CallNow DEF Fits
<1>2. r \in DOMAIN grants /\ r \in DOMAIN pages
  BY <1>1 DEF SignInv, PageFits, RequestFits
<1>3. proved' = [proved EXCEPT ![r] = @ \cup {what}]
  BY DEF Shown, RequestOf, PageOf
<1>4. DOMAIN proved = DOMAIN grants
  BY DEF SignInv, Numbered
<1>5. /\ DOMAIN proved' = DOMAIN proved /\ proved'[r] = proved[r] \cup {what}
      /\ \A q \in DOMAIN grants \ {r} : proved'[q] = proved[q]
  BY <1>2, <1>3, <1>4
<1>6. \A q \in DOMAIN grants : proved[q] \subseteq proved'[q]
  BY <1>5
<1>7. Grown
  BY <1>6 DEF Grown, owner, SignInv, Enrolled
<1> QED
  BY <1>2, <1>5, <1>7

\* A step of a request that shows more for it and enrolls nothing.
LEMMA SignMore ==
  ASSUME SignInv, NEW h \in Handlers, NEW what, Shown(h, what), NEW c, c = call[h],
         c.phase # "idle", NEW d, Now(h, d), Fits(d)',
         UNCHANGED <<pages, grants, owner, secret, cred, crossed>>, open' \subseteq open
  PROVE  SignInv'
<1>1. PICK r : r = pages[c.page].request
  OBVIOUS
<1>2. UNCHANGED <<pages, grants, owner>>
  OBVIOUS
<1>3. Grown /\ DOMAIN proved' = DOMAIN proved
  BY <1>1, <1>2, ShownMore
<1>4. Enrolled'
  BY DEF SignInv, Enrolled, owner
<1> QED
  BY <1>3, <1>4, SignStep

\* The record is dropped; the passphrase of a form was right or not.
LEMMA DropStep ==
  ASSUME SignInv, NEW h \in Handlers, Drop(h)
  PROVE  SignInv'
<1>1. PICK c : c = call[h]
  OBVIOUS
<1>2. PICK given : given = IF secret = 0 /\ cred = NoPasskey THEN "first passphrase" ELSE "passphrase"
  OBVIOUS
<1>3. c.phase = "drop" /\ Fits(c)
  BY <1>1, CallNow DEF Drop, At
<1>4. /\ UNCHANGED <<pages, grants, owner, secret, cred, crossed>>
      /\ open' \subseteq open
      /\ Goes(h, Taken(c))
      /\ IF c.via = "form" /\ c.right THEN Shown(h, given) ELSE UNCHANGED proved
  BY <1>1, <1>2 DEF Drop, Dropped, owner
<1>5. PICK d : /\ Now(h, d) /\ DOMAIN d = Fields /\ d.phase = Taken(c) /\ d.page = c.page
               /\ d.from = c.from /\ d.via = c.via /\ d.right = c.right /\ d.n = c.n
               /\ d.copy = c.copy /\ d.then = c.then
  BY <1>1, <1>4, GoesNow
<1>6. /\ c.page \in DOMAIN pages /\ c.from \in Addresses /\ Sent(c) /\ c.then = "grant"
      /\ c.via = "passkey" => Signed(c)
  BY <1>3 DEF Fits
<1>7. CASE c.via = "form" /\ c.right
  <2>1. Shown(h, given) /\ d.phase = "factors" /\ UNCHANGED <<pages, grants, owner, secret, cred>>
    BY <1>4, <1>5, <1>7 DEF Taken
  <2>2. PICK r : r = pages[c.page].request
    OBVIOUS
  <2>3. given \in proved'[r]
    BY <1>1, <1>3, <2>1, <2>2, ShownMore
  <2>4. secret = 0 /\ cred.id = 0 => given = "first passphrase"
    <3>1. 0 \notin DOMAIN passkeys
      BY DEF SignInv, Enrolled, Numbered
    <3> QED
      BY <1>2, <3>1 DEF SignInv, Enrolled
  <2>5. given \in {"passphrase", "first passphrase"}
    BY <1>2
  <2>6. Fits(d)'
    BY <1>5, <1>6, <2>1, <2>2, <2>3, <2>4, <2>5 DEF Fits
  <2>7. open' \subseteq open /\ UNCHANGED <<pages, grants, owner, secret, cred, crossed>>
    BY <1>4
  <2> QED
    BY <1>1, <1>3, <1>5, <2>1, <2>6, <2>7, SignMore
<1>8. CASE ~(c.via = "form" /\ c.right)
  <2>1. Fits(d)
    <3>1. CASE d.phase = "fail"
      BY <1>5, <1>6, <3>1 DEF Fits
    <3>2. CASE c.via = "passkey" /\ d.phase = "verify"
      BY <1>5, <1>6, <3>2 DEF Fits, Signed
    <3>3. CASE c.via \in {"skip", "instead"} /\ d.phase \in {"grant", "instead"}
      <4>1. pages[c.page].kind = "enroll"
        BY <1>6, <3>3 DEF Sent
      <4>2. Enrollable(pages[c.page].request)
        BY <1>6, <4>1 DEF SignInv, PageFits
      <4>3. Approved(pages[c.page].request)
        BY <4>2 DEF Enrollable, Approved
      <4> QED
        BY <1>5, <1>6, <3>3, <4>2, <4>3 DEF Fits
    <3>4. CASE c.via \in {"enroll", "totp"} /\ c.right /\ d.phase = "store"
      BY <1>5, <1>6, <3>4 DEF Fits, Sent
    <3> QED
      BY <1>5, <1>6, <1>8, <3>1, <3>2, <3>3, <3>4 DEF Taken, Sent
  <2>2. UNCHANGED <<pages, grants, proved, secret, cred, owner, crossed>>
    BY <1>4, <1>8
  <2> QED
    BY <1>4, <1>5, <2>1, <2>2, SignMoves
<1> QED
  BY <1>7, <1>8

\* The answer to a passkey page is verified.
LEMMA VerifyStep ==
  ASSUME SignInv, NEW h \in Handlers, Verify(h)
  PROVE  SignInv'
<1>1. PICK c : c = call[h]
  OBVIOUS
<1>2. PICK phase : phase = IF SignedAndCountedOn(c) THEN "counter" ELSE "fail"
  OBVIOUS
<1>3. c.phase = "verify" /\ Fits(c)
  BY <1>1, CallNow DEF Verify, At
<1>4. /\ UNCHANGED <<pages, open, grants, owner, secret, cred, crossed>>
      /\ Goes(h, phase)
      /\ IF phase = "counter" THEN Shown(h, "passkey") ELSE UNCHANGED proved
  BY <1>1, <1>2 DEF Verify, owner, kv
<1>5. PICK d : /\ Now(h, d) /\ DOMAIN d = Fields /\ d.phase = phase /\ d.page = c.page
               /\ d.from = c.from /\ d.via = c.via /\ d.right = c.right /\ d.n = c.n /\ d.copy = c.copy
               /\ d.then = c.then
  BY <1>1, <1>4, GoesNow
<1>6. c.page \in DOMAIN pages /\ c.from \in Addresses /\ Signed(c) /\ c.then = "grant"
  BY <1>3 DEF Fits
<1>7. CASE phase = "counter"
  <2>1. PICK r : r = pages[c.page].request
    OBVIOUS
  <2>2. Shown(h, "passkey") /\ UNCHANGED <<pages, grants, owner, secret, cred>>
    BY <1>4, <1>7
  <2>3. "passkey" \in proved'[r]
    BY <1>1, <1>3, <2>1, <2>2, ShownMore
  <2>4. Fits(d)'
    BY <1>4, <1>5, <1>6, <1>7, <2>1, <2>3 DEF Fits, Signed, owner
  <2> QED
    BY <1>1, <1>3, <1>4, <1>5, <2>2, <2>4, SignMore
<1>8. CASE phase = "fail"
  <2>1. Fits(d)
    BY <1>5, <1>6, <1>8 DEF Fits
  <2>2. UNCHANGED <<pages, grants, proved, secret, cred, owner, crossed>> /\ open' \subseteq open
    BY <1>4, <1>8
  <2> QED
    BY <1>5, <2>1, <2>2, SignMoves
<1> QED
  BY <1>2, <1>7, <1>8

\* The passkey is read again before its counter is written.
LEMMA ReadCounterStep ==
  ASSUME SignInv, NEW h \in Handlers, ReadCounter(h)
  PROVE  SignInv'
<1>1. PICK c : c = call[h]
  OBVIOUS
<1>2. PICK phase : phase = IF cred = NoPasskey THEN "clear" ELSE "count"
  OBVIOUS
<1>3. PICK d : d = [c EXCEPT !.phase = phase, !.copy = cred]
  OBVIOUS
<1>4. c.phase = "counter" /\ Fits(c) /\ DOMAIN c = Fields
  BY <1>1, CallNow DEF ReadCounter, At, Fits
<1>5. /\ UNCHANGED <<pages, open, grants, proved, secret, cred, owner, crossed>>
      /\ call' = [call EXCEPT ![h].phase = phase, ![h].copy = cred]
  BY <1>2 DEF ReadCounter, kv, history
<1>6. Now(h, d)
  BY <1>1, <1>3, <1>4, <1>5 DEF Now, SignInv, Numbered
<1>7. /\ DOMAIN d = Fields /\ d.phase = phase /\ d.from = c.from /\ d.page = c.page
      /\ d.n = c.n /\ d.copy = cred /\ d.then = c.then
  BY <1>3, <1>4 DEF Fields
<1>8. /\ c.page \in DOMAIN pages /\ c.from \in Addresses /\ Signed(c) /\ c.then = "grant"
      /\ "passkey" \in proved[pages[c.page].request]
  BY <1>4 DEF Fits
<1>9. Fits(d)
  <2>1. CASE phase = "clear"
    BY <1>7, <1>8, <2>1 DEF Fits, Approved
  <2>2. CASE phase = "count" /\ cred # NoPasskey
    BY <1>7, <1>8, <2>2 DEF Fits, Signed, SignInv, Enrolled
  <2> QED
    BY <1>2, <2>1, <2>2
<1> QED
  BY <1>5, <1>6, <1>9, SignMoves

\* The passkey that was read is written back with the counter of the answer.
LEMMA WriteCounterStep ==
  ASSUME SignInv, NEW h \in Handlers, WriteCounter(h)
  PROVE  SignInv'
<1>1. PICK c : c = call[h]
  OBVIOUS
<1>2. PICK key : key = pages[c.page].passkey
  OBVIOUS
<1>3. c.phase = "count" /\ Fits(c)
  BY <1>1, CallNow DEF WriteCounter, At
<1>4. /\ UNCHANGED <<pages, open, grants, proved, secret, owner>>
      /\ cred' = [c.copy EXCEPT !.counter = c.n]
      /\ crossed' = IF c.copy.id # key THEN crossed \cup {c.copy.id} ELSE crossed
      /\ Goes(h, "clear")
  BY <1>1, <1>2 DEF WriteCounter, owner, PageOf
<1>5. PICK d : /\ Now(h, d) /\ DOMAIN d = Fields /\ d.phase = "clear" /\ d.page = c.page
               /\ d.from = c.from /\ d.via = c.via /\ d.right = c.right /\ d.n = c.n /\ d.copy = c.copy
               /\ d.then = c.then
  BY <1>1, <1>4, GoesNow
<1>6. /\ c.page \in DOMAIN pages /\ c.from \in Addresses /\ c.then = "grant"
      /\ key \in DOMAIN passkeys /\ c.n \in Nat /\ c.n <= passkeys[key]
      /\ "passkey" \in proved[pages[c.page].request]
      /\ DOMAIN c.copy = {"id", "counter"} /\ c.copy.id \in DOMAIN passkeys
  BY <1>2, <1>3 DEF Fits, Signed
<1>7. DOMAIN cred' = {"id", "counter"} /\ cred'.id = c.copy.id /\ cred'.counter = c.n
  BY <1>4, <1>6
<1>8. Grown
  <2>1. cred'.id # 0
    BY <1>6, <1>7 DEF SignInv, Enrolled, Numbered
  <2> QED
    BY <1>4, <2>1 DEF Grown, SignInv, Enrolled, owner
<1>9. Enrolled'
  <2>1. c.n <= passkeys[c.copy.id] \/ c.copy.id \in crossed'
    BY <1>4, <1>6
  <2> QED
    BY <1>4, <1>6, <1>7, <2>1 DEF SignInv, Enrolled, owner
<1>10. Fits(d)
  BY <1>5, <1>6 DEF Fits, Approved
<1>11. Fits(d)'
  BY <1>8, <1>10, FitsStays
<1> QED
  BY <1>4, <1>5, <1>8, <1>9, <1>11, SignStep

\* The second factor is right, or nothing is enrolled and the enrollment follows.
LEMMA FactorsStep ==
  ASSUME SignInv, NEW h \in Handlers, Factors(h)
  PROVE  SignInv'
<1>1. PICK c : c = call[h]
  OBVIOUS
<1>2. PICK coded : coded = (c.n # 0 /\ secret # 0)
  OBVIOUS
<1>3. PICK ok : ok = IF coded THEN CodeRight(c) ELSE FirstTime
  OBVIOUS
<1>4. PICK phase : phase = IF ok THEN "clear" ELSE "fail"
  OBVIOUS
<1>5. PICK then : then = IF coded /\ cred # NoPasskey THEN "grant" ELSE "enroll"
  OBVIOUS
<1>6. PICK d : d = [c EXCEPT !.phase = phase, !.then = then]
  OBVIOUS
<1>7. c.phase = "factors" /\ Fits(c) /\ DOMAIN c = Fields
  BY <1>1, CallNow DEF Factors, At, Fits
<1>8. /\ UNCHANGED <<pages, open, grants, secret, cred, owner, crossed>>
      /\ call' = [call EXCEPT ![h].phase = phase, ![h].then = then]
      /\ IF coded /\ ok THEN Shown(h, "code") ELSE UNCHANGED proved
  BY <1>1, <1>2, <1>3, <1>4, <1>5 DEF Factors, kv
<1>9. Now(h, d)
  BY <1>1, <1>6, <1>7, <1>8 DEF Now, SignInv, Numbered
<1>10. /\ DOMAIN d = Fields /\ d.phase = phase /\ d.from = c.from /\ d.page = c.page
       /\ d.then = then
  BY <1>6, <1>7 DEF Fields
<1>11. PICK r : r = pages[c.page].request
  OBVIOUS
<1>12. /\ c.page \in DOMAIN pages /\ c.from \in Addresses
       /\ "passphrase" \in proved[r] \/ "first passphrase" \in proved[r]
       /\ secret = 0 /\ cred.id = 0 => "first passphrase" \in proved[r]
  BY <1>7, <1>11 DEF Fits
<1>13. phase \in {"clear", "fail"} /\ then \in {"enroll", "grant"} /\ (phase = "clear" <=> ok)
  BY <1>4, <1>5
<1>14. CASE coded /\ ok
  <2>1. Shown(h, "code") /\ UNCHANGED <<pages, grants, owner, secret, cred>>
    BY <1>8, <1>14
  <2>2. /\ "code" \in proved'[r]
        /\ "passphrase" \in proved'[r] \/ "first passphrase" \in proved'[r]
    BY <1>1, <1>7, <1>11, <1>12, <2>1, ShownMore
  <2>3. Approved(r)' /\ Enrollable(r)'
    BY <2>2 DEF Approved, Enrollable
  <2>4. Fits(d)'
    BY <1>8, <1>10, <1>11, <1>12, <1>13, <2>3 DEF Fits
  <2> QED
    BY <1>1, <1>7, <1>8, <1>9, <2>1, <2>4, SignMore
<1>15. CASE ~coded /\ ok
  <2>1. secret = 0 /\ cred.id = 0 /\ then = "enroll"
    <3>1. FirstTime
      BY <1>3, <1>15
    <3>2. then = "enroll"
      BY <1>5, <1>15
    <3> QED
      BY <3>1, <3>2 DEF FirstTime, NoPasskey
  <2>2. Enrollable(r)
    BY <1>12, <2>1 DEF Enrollable
  <2>3. Fits(d)
    BY <1>10, <1>11, <1>12, <1>13, <2>1, <2>2 DEF Fits
  <2>4. UNCHANGED <<pages, grants, proved, secret, cred, owner, crossed>> /\ open' \subseteq open
    BY <1>8, <1>15
  <2> QED
    BY <1>9, <2>3, <2>4, SignMoves
<1>16. CASE ~ok
  <2>1. Fits(d)
    BY <1>10, <1>12, <1>13, <1>16 DEF Fits
  <2>2. UNCHANGED <<pages, grants, proved, secret, cred, owner, crossed>> /\ open' \subseteq open
    BY <1>8, <1>16
  <2> QED
    BY <1>9, <2>1, <2>2, SignMoves
<1> QED
  BY <1>14, <1>15, <1>16

\* What a page enrolls is stored.
LEMMA StoreStep ==
  ASSUME SignInv, NEW h \in Handlers, Store(h)
  PROVE  SignInv'
<1>1. PICK c : c = call[h]
  OBVIOUS
<1>2. PICK p : p = c.page
  OBVIOUS
<1>3. PICK r : r = pages[p].request
  OBVIOUS
<1>4. c.phase = "store" /\ Fits(c)
  BY <1>1, CallNow DEF Store, At
<1>5. /\ UNCHANGED <<pages, open, grants, proved, owner, crossed>>
      /\ IF pages[p].kind = "totp" THEN secret' = p /\ UNCHANGED cred
         ELSE cred' = [id |-> p, counter |-> 0] /\ UNCHANGED secret
      /\ Goes(h, "clear")
  BY <1>1, <1>2 DEF Store, owner, history, PageOf
<1>6. PICK d : /\ Now(h, d) /\ DOMAIN d = Fields /\ d.phase = "clear" /\ d.page = p
               /\ d.from = c.from /\ d.via = c.via /\ d.right = c.right /\ d.n = c.n /\ d.copy = c.copy
               /\ d.then = c.then
  BY <1>1, <1>2, <1>5, GoesNow
<1>7. /\ p \in DOMAIN pages /\ c.from \in Addresses /\ c.then = "grant"
      /\ IF pages[p].kind = "totp" THEN p \in scanned
         ELSE pages[p].kind = "enroll" /\ p \in DOMAIN passkeys
  BY <1>2, <1>4 DEF Fits
<1>8. p # 0 /\ PageFits(p)
  BY <1>7 DEF SignInv, Numbered
<1>9. Grown
  <2>1. (secret' = 0 => secret = 0) /\ (cred'.id = 0 => cred.id = 0)
    BY <1>5, <1>8
  <2> QED
    BY <1>5, <2>1 DEF Grown, owner, SignInv, Enrolled
<1>10. Approved(r)'
  <2>1. Enrollable(r)
    BY <1>3, <1>7, <1>8 DEF PageFits
  <2> QED
    BY <1>5, <2>1 DEF Approved, Enrollable
<1>11. Fits(d)'
  BY <1>3, <1>5, <1>6, <1>7, <1>10 DEF Fits
<1>12. Enrolled'
  <2>1. CASE pages[p].kind = "totp"
    BY <1>5, <1>7, <2>1 DEF SignInv, Enrolled, owner
  <2>2. CASE pages[p].kind # "totp"
    <3>1. p \in DOMAIN passkeys /\ passkeys[p] \in Nat
      BY <1>7, <2>2 DEF SignInv, Enrolled
    <3>2. cred' = [id |-> p, counter |-> 0] /\ UNCHANGED <<secret, owner, pages>>
      BY <1>5, <2>2
    <3> QED
      BY <3>1, <3>2 DEF SignInv, Enrolled, owner
  <2> QED
    BY <2>1, <2>2
<1> QED
  BY <1>5, <1>6, <1>9, <1>11, <1>12, SignStep

\* The failures are cleared.
LEMMA ClearStep ==
  ASSUME SignInv, NEW h \in Handlers, Clear(h)
  PROVE  SignInv'
<1>1. PICK c : c = call[h]
  OBVIOUS
<1>2. c.phase = "clear" /\ Fits(c)
  BY <1>1, CallNow DEF Clear, At
<1>3. /\ UNCHANGED <<pages, open, grants, proved, secret, cred, owner, crossed>>
      /\ Goes(h, c.then)
  BY <1>1 DEF Clear
<1>4. PICK d : /\ Now(h, d) /\ DOMAIN d = Fields /\ d.phase = c.then /\ d.page = c.page
               /\ d.from = c.from /\ d.via = c.via /\ d.right = c.right /\ d.n = c.n /\ d.copy = c.copy
               /\ d.then = c.then
  BY <1>1, <1>3, GoesNow
<1>5. Fits(d)
  BY <1>2, <1>4 DEF Fits
<1> QED
  BY <1>3, <1>4, <1>5, SignMoves

\* A failure is counted, and the address locked, or the request is lost.
LEMMA FailureSteps ==
  ASSUME SignInv, NEW h \in Handlers,
         ReadFailures(h) \/ CountFailure(h) \/ Lock(h) \/ Lost(h)
  PROVE  SignInv'
<1>1. PICK c : c = call[h]
  OBVIOUS
<1>2. Fits(c)
  BY <1>1, CallNow
<1>3. UNCHANGED <<pages, open, grants, proved, secret, cred, owner, crossed>>
  BY DEF ReadFailures, CountFailure, Lock, Lost, kv, history
<1>4. CASE ReadFailures(h)
  <2>1. PICK n : n = fails[AddressOf(h)] + 1
    OBVIOUS
  <2>2. PICK d : d = [c EXCEPT !.phase = "put", !.n = n]
    OBVIOUS
  <2>3. c.phase = "fail" /\ DOMAIN c = Fields
    BY <1>1, <1>2, <1>4 DEF ReadFailures, At, Fits
  <2>4. call' = [call EXCEPT ![h].phase = "put", ![h].n = n]
    BY <1>4, <2>1 DEF ReadFailures
  <2>5. Now(h, d)
    BY <1>1, <2>2, <2>3, <2>4 DEF Now, SignInv, Numbered
  <2>6. DOMAIN d = Fields /\ d.phase = "put" /\ d.from = c.from /\ d.page = c.page
    BY <2>2, <2>3 DEF Fields
  <2>7. Fits(d)
    BY <1>2, <2>3, <2>6 DEF Fits
  <2> QED
    BY <1>3, <2>5, <2>7, SignMoves
<1>5. CASE call' = [call EXCEPT ![h] = Idle]
  BY <1>3, <1>5, SignEnds
<1>6. CASE CountFailure(h) /\ Goes(h, "lock")
  <2>1. c.phase = "put"
    BY <1>1, <1>6 DEF CountFailure, At
  <2>2. PICK d : /\ Now(h, d) /\ DOMAIN d = Fields /\ d.phase = "lock" /\ d.page = c.page
                 /\ d.from = c.from /\ d.via = c.via /\ d.right = c.right /\ d.n = c.n /\ d.copy = c.copy
                 /\ d.then = c.then
    BY <1>1, <1>6, GoesNow
  <2>3. Fits(d)
    BY <1>2, <2>1, <2>2 DEF Fits
  <2> QED
    BY <1>3, <2>2, <2>3, SignMoves
<1> QED
  BY <1>4, <1>5, <1>6 DEF CountFailure, Lock, Lost, Answer

\* The request is granted.
LEMMA GrantStep ==
  ASSUME SignInv, NEW h \in Handlers, Grant(h)
  PROVE  SignInv'
<1>1. PICK c : c = call[h]
  OBVIOUS
<1>2. PICK r : r = pages[c.page].request
  OBVIOUS
<1>3. PICK d : d = Idle
  OBVIOUS
<1>4. c.phase = "grant" /\ Fits(c)
  BY <1>1, CallNow DEF Grant, At
<1>5. /\ UNCHANGED <<pages, open, proved, secret, cred, owner, crossed>>
      /\ grants' = [grants EXCEPT ![r] = @ + 1]
      /\ call' = [call EXCEPT ![h] = d]
  BY <1>1, <1>2, <1>3 DEF Grant, Answer, RequestOf, PageOf, kv, history
<1>6. c.page \in DOMAIN pages /\ Approved(r)
  BY <1>2, <1>4 DEF Fits
<1>7. r \in DOMAIN grants
  BY <1>2, <1>6 DEF SignInv, PageFits
<1>8. /\ DOMAIN grants' = DOMAIN grants /\ grants'[r] = grants[r] + 1
      /\ \A q \in DOMAIN grants \ {r} : grants'[q] = grants[q]
  BY <1>5, <1>7
<1>9. Grown
  BY <1>5, <1>8 DEF Grown, SignInv, Enrolled, owner
<1>10. Numbered' /\ Enrolled'
  BY <1>5, <1>8 DEF SignInv, Numbered, Enrolled, owner
<1>11. ASSUME NEW p \in DOMAIN pages' PROVE PageFits(p)'
  BY <1>5, <1>9, PageFitsStays
<1>12. ASSUME NEW q \in DOMAIN grants' PROVE RequestFits(q)'
  <2>1. q \in DOMAIN grants /\ RequestFits(q) /\ q \in DOMAIN pages
    BY <1>8 DEF SignInv, RequestFits
  <2>2. Approved(q) => Approved(q)'
    BY <1>9, <2>1, ApprovedStays
  <2>3. grants'[q] \in Nat /\ (grants'[q] > 0 => Approved(q))
    BY <1>6, <1>8, <2>1 DEF RequestFits
  <2> QED
    BY <1>5, <2>1, <2>2, <2>3 DEF RequestFits
<1>13. ASSUME NEW g \in Handlers PROVE Fits(call[g])'
  <2>1. PICK e : e = call[g]
    OBVIOUS
  <2>2. Fits(e)'
    BY <1>9, <2>1, CallNow, FitsStays
  <2>3. Fits(d)'
    BY <1>3, <1>9, IdleFits, FitsStays
  <2>4. call'[g] = IF g = h THEN d ELSE e
    BY <1>5, <2>1 DEF SignInv, Numbered
  <2> QED
    BY <2>2, <2>3, <2>4, CallFits
<1> QED
  BY <1>10, <1>11, <1>12, <1>13 DEF SignInv

\* The number of a page that is shown is new.
LEMMA NextPage ==
  ASSUME SignInv, NEW p, p = Drawn + 1
  PROVE  /\ p \notin DOMAIN pages
         /\ \E k \in Nat : DOMAIN pages \cup {p} = 1..k
<1>1. PICK k \in Nat : DOMAIN pages = 1..k
  BY DEF SignInv, Numbered
<1>2. Drawn = k
  BY <1>1, FS_Interval DEF Drawn
<1>3. p = k + 1 /\ k + 1 \in Nat
  BY <1>2
<1>4. 1..k \cup {k + 1} = 1..(k + 1)
  OBVIOUS
<1> QED
  BY <1>1, <1>3, <1>4

\* A page is shown, for a request that was there or is opened with it.
LEMMA SignShows ==
  ASSUME SignInv, NEW p, p = Drawn + 1, NEW page, Show(p, page),
         UNCHANGED <<secret, cred, owner, crossed>>,
         \A r \in DOMAIN grants : r \in DOMAIN grants' /\ grants'[r] = grants[r] /\ proved'[r] = proved[r],
         DOMAIN proved' = DOMAIN grants', DOMAIN call' = Handlers,
         PageFits(p)',
         \A r \in DOMAIN grants' \ DOMAIN grants : RequestFits(r)',
         \A g \in Handlers : call'[g] = call[g] \/ call'[g] = Idle
  PROVE  SignInv'
<1>1. /\ p \notin DOMAIN pages /\ DOMAIN pages' = DOMAIN pages \cup {p}
      /\ \A q \in DOMAIN pages : pages'[q] = pages[q]
  BY NextPage DEF Show, With
<1>2. Grown
  BY <1>1 DEF Grown, SignInv, Enrolled, owner
<1>3. Numbered'
  <2>1. open' \subseteq DOMAIN pages'
    BY <1>1 DEF Show, SignInv, Numbered
  <2>2. \E k \in Nat : DOMAIN pages' = 1..k
    BY <1>1, NextPage
  <2> QED
    BY <2>1, <2>2 DEF Numbered
<1>4. Enrolled'
  BY <1>1 DEF SignInv, Enrolled, owner
<1>5. ASSUME NEW q \in DOMAIN pages' PROVE PageFits(q)'
  <2>1. CASE q \in DOMAIN pages
    BY <1>2, <2>1, PageFitsStays
  <2>2. CASE q = p
    BY <2>2 DEF PageFits, Enrollable
  <2> QED
    BY <1>1, <2>1, <2>2
<1>6. ASSUME NEW r \in DOMAIN grants' PROVE RequestFits(r)'
  <2>1. CASE r \in DOMAIN grants
    <3>1. RequestFits(r) /\ r \in DOMAIN pages /\ grants'[r] = grants[r]
      BY <2>1 DEF SignInv, RequestFits
    <3>2. Approved(r) => Approved(r)'
      BY <1>2, <2>1, <3>1, ApprovedStays
    <3> QED
      BY <1>1, <3>1, <3>2 DEF RequestFits
  <2> QED
    BY <2>1
<1>7. ASSUME NEW g \in Handlers PROVE Fits(call[g])'
  <2>1. PICK c : c = call[g]
    OBVIOUS
  <2>2. PICK d : d = Idle
    OBVIOUS
  <2>3. Fits(c)' /\ Fits(d)'
    BY <1>2, <2>1, <2>2, CallNow, IdleFits, FitsStays
  <2>4. call'[g] = c \/ call'[g] = d
    BY <2>1, <2>2
  <2> QED
    BY <2>3, <2>4, CallFits
<1> QED
  BY <1>3, <1>4, <1>5, <1>6, <1>7 DEF SignInv

LEMMA AuthorizeStep ==
  ASSUME SignInv, NEW fallback \in BOOLEAN, Authorize(fallback)
  PROVE  SignInv'
<1>1. PICK p : p = Drawn + 1
  OBVIOUS
<1>2. PICK kind : kind = IF cred # NoPasskey /\ ~fallback THEN "passkey" ELSE "form"
  OBVIOUS
<1>3. PICK page : page = Page(kind, p)
  OBVIOUS
<1>4. /\ Show(p, page) /\ grants' = With(grants, p, 0) /\ proved' = With(proved, p, {})
      /\ UNCHANGED <<secret, cred, owner, crossed, call>>
  BY <1>1, <1>2, <1>3 DEF Authorize, history
<1>5. p \notin DOMAIN pages
  BY <1>1, NextPage
<1>6. p \notin DOMAIN grants /\ DOMAIN proved = DOMAIN grants /\ DOMAIN call = Handlers
  BY <1>5 DEF SignInv, RequestFits, Numbered
<1>7. /\ DOMAIN grants' = DOMAIN grants \cup {p} /\ grants'[p] = 0
      /\ DOMAIN proved' = DOMAIN grants'
      /\ \A r \in DOMAIN grants : grants'[r] = grants[r] /\ proved'[r] = proved[r]
  BY <1>4, <1>6 DEF With
<1>8. p \in DOMAIN pages' /\ pages'[p] = page
  BY <1>4 DEF Show, With
<1>9. page.kind = kind /\ page.request = p /\ page.passkey = cred.id
  BY <1>3 DEF Page
<1>10. PageFits(p)'
  <2>1. kind = "passkey" => cred.id \in DOMAIN passkeys
    BY <1>2 DEF SignInv, Enrolled
  <2>2. kind \in {"passkey", "form"} /\ passkeys' = passkeys
    BY <1>2, <1>4 DEF owner
  <2> QED
    BY <1>7, <1>8, <1>9, <2>1, <2>2 DEF PageFits
<1>11. RequestFits(p)'
  <2>1. pages'[p].request = p /\ grants'[p] = 0
    BY <1>7, <1>8, <1>9
  <2> QED
    BY <1>8, <2>1 DEF RequestFits
<1>12. \A r \in DOMAIN grants' \ DOMAIN grants : RequestFits(r)'
  <2>1. \A r \in DOMAIN grants' \ DOMAIN grants : r = p
    BY <1>7
  <2> QED
    BY <1>11, <2>1 DEF RequestFits, Approved
<1> QED
  BY <1>1, <1>4, <1>6, <1>7, <1>10, <1>12, SignShows

\* The enrollment page, or the page of the secret in its place.
LEMMA ShowNextStep ==
  ASSUME SignInv, NEW h \in Handlers, ShowEnrollment(h) \/ ShowSecret(h)
  PROVE  SignInv'
<1>1. PICK c : c = call[h]
  OBVIOUS
<1>2. PICK p : p = Drawn + 1
  OBVIOUS
<1>3. PICK r : r = pages[c.page].request
  OBVIOUS
<1>4. PICK page : page = Page(IF c.phase = "enroll" THEN "enroll" ELSE "totp", RequestOf(h))
  OBVIOUS
<1>5. Fits(c) /\ c.phase \in {"enroll", "instead"}
  BY <1>1, CallNow DEF ShowEnrollment, ShowSecret, ShowNext, At
<1>6. /\ Show(p, page) /\ call' = [call EXCEPT ![h] = Idle]
      /\ UNCHANGED <<secret, cred, owner, grants, proved, crossed>>
  BY <1>1, <1>2, <1>4 DEF ShowEnrollment, ShowSecret, ShowNext, At, Answer, history
<1>7. c.page \in DOMAIN pages /\ r \in DOMAIN grants /\ Enrollable(r)
  BY <1>3, <1>5 DEF Fits, SignInv, PageFits
<1>8. page.request = r /\ page.kind \in {"enroll", "totp"}
  BY <1>1, <1>3, <1>4 DEF Page, RequestOf, PageOf
<1>9. p \notin DOMAIN pages
  BY <1>2, NextPage
<1>10. p \in DOMAIN pages' /\ pages'[p] = page
  BY <1>6, <1>9 DEF Show, With
<1>11. Enrollable(r)'
  BY <1>6, <1>7 DEF Enrollable
<1>12. PageFits(p)'
  BY <1>6, <1>7, <1>8, <1>10, <1>11 DEF PageFits
<1>13. DOMAIN proved = DOMAIN grants /\ DOMAIN call = Handlers
  BY DEF SignInv, Numbered
<1> QED
  BY <1>2, <1>6, <1>12, <1>13, SignShows

\* Records of KV expire.
LEMMA ExpireStep ==
  ASSUME SignInv, open' \subseteq open,
         UNCHANGED <<pages, secret, cred, owner, call, grants, proved, crossed>>
  PROVE  SignInv'
<1>1. Grown
  BY DEF Grown, SignInv, Enrolled, owner
<1>2. Numbered' /\ Enrolled'
  BY DEF SignInv, Numbered, Enrolled, owner
<1>3. \A p \in DOMAIN pages' : PageFits(p)'
  BY <1>1, PageFitsStays
<1>4. \A r \in DOMAIN grants' : RequestFits(r)'
  BY <1>1, ApprovedStays DEF SignInv, RequestFits
<1>5. ASSUME NEW g \in Handlers PROVE Fits(call[g])'
  <2>1. PICK c : c = call[g]
    OBVIOUS
  <2>2. Fits(c)'
    BY <1>1, <2>1, CallNow, FitsStays
  <2> QED
    BY <2>1, <2>2, CallFits
<1> QED
  BY <1>2, <1>3, <1>4, <1>5 DEF SignInv

LEMMA InitSignInv == Init => SignInv
<1> SUFFICES ASSUME Init PROVE SignInv
  OBVIOUS
<1>1. Numbered /\ Enrolled
  BY DEF Init, Numbered, Enrolled, NoPasskey
<1>2. ASSUME NEW h \in Handlers PROVE Fits(call[h])
  BY DEF Init, Idle, Call, Fits, Fields
<1> QED
  BY <1>1, <1>2 DEF Init, SignInv

\* Every step keeps what is known.
LEMMA NextSignInv == SignInv /\ [Next]_vars => SignInv'
<1> SUFFICES ASSUME SignInv, [Next]_vars PROVE SignInv'
  OBVIOUS
<1>1. CASE \E fallback \in BOOLEAN : Authorize(fallback)
  BY <1>1, AuthorizeStep
<1>2. CASE \E a \in Addresses : ExpireFailures(a) \/ ExpireLock(a)
  BY <1>2, ExpireStep DEF ExpireFailures, ExpireLock, history
<1>3. CASE \E p \in open : ExpirePage(p)
  BY <1>3, ExpireStep DEF ExpirePage, history
<1>4. ASSUME NEW h \in Handlers, NEW a \in Addresses, NEW p \in DOMAIN pages,
             \/ SubmitPasskey(h, a, p) \/ SkipPasskey(h, a, p) \/ EnrollAppInstead(h, a, p)
             \/ \E right \in BOOLEAN :
                    \/ SubmitEnrollment(h, a, p, right) \/ SubmitCode(h, a, p, right)
                    \/ \E code \in scanned \cup {0, WrongCode} : SubmitForm(h, a, p, right, code)
      PROVE  SignInv'
  BY <1>4, SubmitPasskeyStep, LinkStep, SubmitEnrollmentStep, SubmitCodeStep, SubmitFormStep
<1>5. ASSUME NEW h \in Handlers,
             \/ Take(h) \/ Drop(h)
             \/ Verify(h) \/ ReadCounter(h) \/ WriteCounter(h)
             \/ Factors(h) \/ Store(h) \/ Clear(h)
             \/ Grant(h) \/ ShowEnrollment(h) \/ ShowSecret(h)
             \/ ReadFailures(h) \/ CountFailure(h) \/ Lock(h)
             \/ Lost(h)
      PROVE  SignInv'
  BY <1>5, TakeStep, DropStep, VerifyStep, ReadCounterStep, WriteCounterStep, FactorsStep,
     StoreStep, ClearStep, GrantStep, ShowNextStep, FailureSteps
<1>6. CASE UNCHANGED vars
  BY <1>6, ExpireStep DEF vars, kv, history
<1> QED
  BY <1>1, <1>2, <1>3, <1>4, <1>5, <1>6 DEF Next

LEMMA SignHolds == Spec => []SignInv
  BY InitSignInv, NextSignInv, PTL DEF Spec

-----------------------------------------------------------------------------
\* A request is granted (completeOAuth) after a passkey, after the passphrase and a
\* code, or after the passphrase alone if nothing was enrolled when it was given: also
\* over the two links that answer any enrollment page, and whatever other requests,
\* expiries and losses come between the reads and writes of KV.
THEOREM GrantsAreApproved == Spec => []GrantedOnlyApproved
<1>1. SignInv => GrantedOnlyApproved
  BY DEF SignInv, RequestFits, GrantedOnlyApproved
<1> QED
  BY <1>1, SignHolds, PTL

\* The enrolled secret is in the owner's app, and the enrolled passkey on the
\* device, with a counter that does not lock it out, unless updateCredentialCounter
\* wrote it for another passkey.
THEOREM EnrolledStaysHeld == Spec => []EnrolledIsHeld
<1>1. SignInv => EnrolledIsHeld
  BY DEF SignInv, Enrolled, EnrolledIsHeld
<1> QED
  BY <1>1, SignHolds, PTL

-----------------------------------------------------------------------------
(* A request goes on in one place *)

\* No place is added for the request.
LEMMA OnceShrinks ==
  ASSUME NEW r, OnePlace(r), grants'[r] = grants[r],
         \A p \in DOMAIN pages' : OpenFor(p, r)' => p \in DOMAIN pages /\ OpenFor(p, r),
         \A g \in Handlers : Taking(g, r)' => Taking(g, r) /\ call'[g].page = call[g].page,
         \A g \in Handlers : GoesOn(g, r)' => GoesOn(g, r)
  PROVE  OnePlace(r)'
  BY DEF OnePlace

\* The call of h goes on with the request it has, or with none.
LEMMA OnceMoves ==
  ASSUME SignInv, OnceInv, NEW h \in Handlers, UNCHANGED <<pages, grants>>,
         open' \subseteq open, doubled \subseteq doubled',
         NEW c, c = call[h], NEW d, Now(h, d),
         \/ d.phase \notin Going \cup {"drop"}
         \/ c.phase \in Going /\ d.phase \in Going /\ d.page = c.page
  PROVE  OnceInv'
<1> SUFFICES ASSUME NEW r \in DOMAIN grants \ doubled PROVE OnePlace(r)'
  BY DEF OnceInv
<1>1. OnePlace(r)
  BY DEF OnceInv
<1>2. \A p \in DOMAIN pages' : OpenFor(p, r)' => OpenFor(p, r)
  BY DEF OpenFor
<1>3. ASSUME NEW g \in Handlers
      PROVE  /\ Taking(g, r)' => Taking(g, r) /\ call'[g].page = call[g].page
             /\ GoesOn(g, r)' => GoesOn(g, r)
  <2>1. CASE g # h
    <3>1. call'[g] = call[g]
      BY <2>1 DEF Now
    <3> QED
      BY <3>1 DEF Taking, GoesOn, RequestOf, PageOf
  <2>2. CASE g = h
    <3>1. call'[g] = d
      BY <2>2 DEF Now
    <3>2. d.phase = "drop" => d.phase \notin Going
      BY DEF Going
    <3> QED
      BY <2>2, <3>1, <3>2 DEF Taking, GoesOn, RequestOf, PageOf
  <2> QED
    BY <2>1, <2>2
<1> QED
  BY <1>1, <1>2, <1>3, OnceShrinks

LEMMA OnceEnds ==
  ASSUME SignInv, OnceInv, NEW h \in Handlers, UNCHANGED <<pages, grants>>,
         open' \subseteq open, doubled \subseteq doubled',
         call' = [call EXCEPT ![h] = Idle]
  PROVE  OnceInv'
<1>1. PICK c : c = call[h]
  OBVIOUS
<1>2. PICK d : d = Idle
  OBVIOUS
<1>3. Now(h, d) /\ d.phase \notin Going \cup {"drop"}
  BY <1>2, BecomesNow, IdleFits DEF Going
<1> QED
  BY <1>1, <1>3, OnceMoves

LEMMA OnceSubmit ==
  ASSUME SignInv, OnceInv, NEW h \in Handlers, NEW a, NEW p, NEW via, NEW right, NEW n,
         Submit(h, a, p, via, right, n)
  PROVE  OnceInv'
<1>1. PICK c : c = call[h]
  OBVIOUS
<1>2. PICK d : d = Call("take", a, p, via, right, n)
  OBVIOUS
<1>3. d.phase \notin Going \cup {"drop"}
  BY <1>2 DEF Call, Going
<1>4. call' = [call EXCEPT ![h] = d] /\ UNCHANGED <<pages, grants, open, doubled>>
  BY <1>2 DEF Submit, kv, history
<1>5. Now(h, d)
  BY <1>4, BecomesNow
<1> QED
  BY <1>1, <1>3, <1>4, <1>5, OnceMoves

\* The page is open: a second call that takes it is noted as doubled.
LEMMA OnceTake ==
  ASSUME SignInv, OnceInv, NEW h \in Handlers, Take(h)
  PROVE  OnceInv'
<1>1. PICK c : c = call[h]
  OBVIOUS
<1>2. PICK p : p = c.page
  OBVIOUS
<1>3. UNCHANGED <<pages, open, grants>> /\ doubled \subseteq doubled' /\ c.phase = "take"
  BY <1>1 DEF Take, kv, At
<1>4. CASE p \notin open
  BY <1>1, <1>2, <1>3, <1>4, OnceEnds DEF Take, Answer
<1>5. CASE p \in open
  <2>1. Goes(h, "drop")
    BY <1>1, <1>2, <1>5 DEF Take
  <2>2. PICK d : Now(h, d) /\ d.phase = "drop" /\ d.page = p
    BY <1>1, <1>2, <2>1, GoesNow
  <2>3. p \in DOMAIN pages
    BY <1>5 DEF SignInv, Numbered
  <2> SUFFICES ASSUME NEW r \in DOMAIN grants \ doubled' PROVE OnePlace(r)'
    BY <1>3 DEF OnceInv
  <2>4. OnePlace(r)
    BY <1>3 DEF OnceInv
  <2>5. \A q \in DOMAIN pages' : OpenFor(q, r)' => q \in DOMAIN pages /\ OpenFor(q, r)
    BY <1>3 DEF OpenFor
  <2>6. \A g \in Handlers \ {h} : /\ Taking(g, r)' => Taking(g, r) /\ call'[g].page = call[g].page
                                  /\ GoesOn(g, r)' => GoesOn(g, r)
    BY <1>3, <2>2 DEF Now, Taking, GoesOn, RequestOf, PageOf
  <2>7. /\ ~GoesOn(h, r)'
        /\ Taking(h, r)' => pages[p].request = r /\ call'[h].page = p
    BY <1>3, <2>2 DEF Now, Taking, GoesOn, RequestOf, PageOf, Going
  <2>8. CASE pages[p].request # r
    <3>1. \A g \in Handlers : /\ Taking(g, r)' => Taking(g, r) /\ call'[g].page = call[g].page
                              /\ GoesOn(g, r)' => GoesOn(g, r)
      BY <2>6, <2>7, <2>8
    <3> QED
      BY <1>3, <2>4, <2>5, <3>1, OnceShrinks
  <2>9. CASE pages[p].request = r
    <3>1. OpenFor(p, r)
      BY <1>5, <2>9 DEF OpenFor
    <3>2. RequestOf(h) = r
      BY <1>1, <1>2, <2>9 DEF RequestOf, PageOf
    <3>3. ASSUME NEW g \in Handlers \ {h} PROVE ~Taking(g, r)
      <4>1. ASSUME Taking(g, r) PROVE FALSE
        <5>1. call[g].page = p /\ At(g, "drop")
          BY <2>3, <2>4, <3>1, <4>1 DEF OnePlace, Taking, At
        <5>2. r \in doubled'
          BY <1>1, <1>2, <1>5, <3>2, <5>1 DEF Take
        <5> QED
          BY <5>2
      <4> QED
        BY <4>1
    <3>4. \A g \in Handlers : ~GoesOn(g, r)
      BY <2>3, <2>4, <3>1 DEF OnePlace
    <3>5. grants[r] <= 1 /\ grants[r] # 1
      BY <2>3, <2>4, <3>1 DEF OnePlace
    <3>6. \A q \in DOMAIN pages : OpenFor(q, r) => q = p
      BY <2>3, <2>4, <3>1 DEF OnePlace
    <3>7. \A g \in Handlers : ~GoesOn(g, r)' /\ (Taking(g, r)' => g = h)
      BY <2>6, <2>7, <3>3, <3>4
    <3> QED
      BY <1>3, <2>5, <2>7, <3>5, <3>6, <3>7 DEF OnePlace
  <2> QED
    BY <2>8, <2>9
<1> QED
  BY <1>4, <1>5

\* The call that drops the record goes on in its place.
LEMMA OnceDrop ==
  ASSUME SignInv, OnceInv, NEW h \in Handlers, Drop(h)
  PROVE  OnceInv'
<1>1. PICK c : c = call[h]
  OBVIOUS
<1>2. PICK p : p = c.page
  OBVIOUS
<1>3. /\ UNCHANGED <<pages, grants, doubled>> /\ open' = open \ {p} /\ c.phase = "drop"
      /\ Goes(h, Taken(c))
  BY <1>1, <1>2 DEF Drop, Dropped, At
<1>4. PICK d : Now(h, d) /\ d.phase = Taken(c) /\ d.page = p
  BY <1>1, <1>2, <1>3, GoesNow
<1>5. d.phase # "drop"
  BY <1>4 DEF Taken
<1> SUFFICES ASSUME NEW r \in DOMAIN grants \ doubled PROVE OnePlace(r)'
  BY <1>3 DEF OnceInv
<1>6. OnePlace(r)
  BY DEF OnceInv
<1>7. \A q \in DOMAIN pages' : OpenFor(q, r)' => q \in DOMAIN pages /\ OpenFor(q, r) /\ q # p
  BY <1>3 DEF OpenFor
<1>8. \A g \in Handlers \ {h} : /\ Taking(g, r)' => Taking(g, r) /\ call'[g].page = call[g].page
                                /\ GoesOn(g, r)' => GoesOn(g, r)
  BY <1>3, <1>4 DEF Now, Taking, GoesOn, RequestOf, PageOf
<1>9. ~Taking(h, r)' /\ (GoesOn(h, r)' => pages[p].request = r)
  BY <1>3, <1>4, <1>5 DEF Now, Taking, GoesOn, RequestOf, PageOf
<1>10. CASE pages[p].request # r
  <2>1. \A g \in Handlers : /\ Taking(g, r)' => Taking(g, r) /\ call'[g].page = call[g].page
                            /\ GoesOn(g, r)' => GoesOn(g, r)
    BY <1>8, <1>9, <1>10
  <2> QED
    BY <1>3, <1>6, <1>7, <2>1, OnceShrinks
<1>11. CASE pages[p].request = r
  <2>1. Taking(h, r) /\ call[h].page = p
    BY <1>1, <1>2, <1>3, <1>11 DEF Taking, RequestOf, PageOf
  <2>2. \A q \in DOMAIN pages' : ~OpenFor(q, r)'
    BY <1>6, <1>7, <2>1 DEF OnePlace
  <2>3. \A g \in Handlers : ~Taking(g, r)' /\ (GoesOn(g, r)' => g = h)
    BY <1>6, <1>8, <1>9, <2>1 DEF OnePlace
  <2>4. grants[r] <= 1 /\ grants[r] # 1
    BY <1>6, <2>1 DEF OnePlace
  <2> QED
    BY <1>3, <2>2, <2>3, <2>4 DEF OnePlace
<1> QED
  BY <1>10, <1>11

\* The grant is the last of its request.
LEMMA OnceGrant ==
  ASSUME SignInv, OnceInv, NEW h \in Handlers, Grant(h)
  PROVE  OnceInv'
<1>1. PICK c : c = call[h]
  OBVIOUS
<1>2. PICK q : q = pages[c.page].request
  OBVIOUS
<1>3. PICK d : d = Idle
  OBVIOUS
<1>4. /\ UNCHANGED <<pages, open, doubled>> /\ grants' = [grants EXCEPT ![q] = @ + 1]
      /\ call' = [call EXCEPT ![h] = d] /\ c.phase = "grant"
  BY <1>1, <1>2, <1>3 DEF Grant, Answer, RequestOf, PageOf, kv, history, At
<1>5. Now(h, d) /\ d.phase \notin Going \cup {"drop"}
  BY <1>3, <1>4, BecomesNow, IdleFits DEF Going
<1> SUFFICES ASSUME NEW r \in DOMAIN grants \ doubled PROVE OnePlace(r)'
  BY <1>4 DEF OnceInv
<1>6. OnePlace(r) /\ grants[r] \in Nat
  BY DEF OnceInv, SignInv, RequestFits
<1>7. \A p \in DOMAIN pages' : OpenFor(p, r)' => p \in DOMAIN pages /\ OpenFor(p, r)
  BY <1>4 DEF OpenFor
<1>8. \A g \in Handlers : /\ Taking(g, r)' => Taking(g, r) /\ call'[g].page = call[g].page /\ g # h
                          /\ GoesOn(g, r)' => GoesOn(g, r) /\ g # h
  BY <1>4, <1>5 DEF Now, Taking, GoesOn, RequestOf, PageOf
<1>9. CASE r # q
  <2>1. grants'[r] = grants[r]
    BY <1>4, <1>9
  <2> QED
    BY <1>6, <1>7, <1>8, <2>1, OnceShrinks
<1>10. CASE r = q
  <2>1. GoesOn(h, r)
    BY <1>1, <1>2, <1>4, <1>10 DEF GoesOn, RequestOf, PageOf, Going
  <2>2. grants'[r] = 1
    BY <1>4, <1>6, <1>10, <2>1 DEF OnePlace
  <2>3. \A p \in DOMAIN pages' : ~OpenFor(p, r)'
    BY <1>6, <1>7, <2>1 DEF OnePlace
  <2>4. \A g \in Handlers : ~Taking(g, r)' /\ ~GoesOn(g, r)'
    BY <1>6, <1>8, <2>1 DEF OnePlace
  <2> QED
    BY <2>2, <2>3, <2>4 DEF OnePlace
<1> QED
  BY <1>9, <1>10

\* The page that is shown next is the place of the call that shows it.
LEMMA OnceShowNext ==
  ASSUME SignInv, OnceInv, NEW h \in Handlers, ShowEnrollment(h) \/ ShowSecret(h)
  PROVE  OnceInv'
<1>1. PICK c : c = call[h]
  OBVIOUS
<1>2. PICK p : p = Drawn + 1
  OBVIOUS
<1>3. PICK d : d = Idle
  OBVIOUS
<1>4. PICK page : page = Page(IF c.phase = "enroll" THEN "enroll" ELSE "totp", RequestOf(h))
  OBVIOUS
<1>5. c.phase \in {"enroll", "instead"}
  BY <1>1 DEF ShowEnrollment, ShowSecret, ShowNext, At
<1>6. /\ Show(p, page) /\ call' = [call EXCEPT ![h] = d]
      /\ UNCHANGED <<grants, doubled>>
  BY <1>1, <1>2, <1>3, <1>4 DEF ShowEnrollment, ShowSecret, ShowNext, At, Answer, history
<1>7. /\ p \notin DOMAIN pages /\ DOMAIN pages' = DOMAIN pages \cup {p} /\ pages'[p] = page
      /\ open' = open \cup {p}
      /\ \A q \in DOMAIN pages : pages'[q] = pages[q]
  BY <1>2, <1>6, NextPage DEF Show, With
<1>8. page.request = pages[c.page].request
  BY <1>1, <1>4 DEF Page, RequestOf, PageOf
<1>9. Now(h, d) /\ d.phase \notin Going \cup {"drop"} /\ d.phase = "idle"
  BY <1>3, <1>6, BecomesNow, IdleFits DEF Going
<1> SUFFICES ASSUME NEW r \in DOMAIN grants \ doubled PROVE OnePlace(r)'
  BY <1>6 DEF OnceInv
<1>10. OnePlace(r) /\ grants'[r] = grants[r]
  BY <1>6 DEF OnceInv
<1>11. ASSUME NEW g \in Handlers
       PROVE  /\ Taking(g, r)' => Taking(g, r) /\ call'[g].page = call[g].page /\ g # h
              /\ GoesOn(g, r)' => GoesOn(g, r) /\ g # h
  <2>1. CASE g = h
    BY <1>9, <2>1 DEF Now, Taking, GoesOn
  <2>2. CASE g # h
    <3>1. PICK e : e = call[g]
      OBVIOUS
    <3>2. call'[g] = e /\ Fits(e)
      BY <1>9, <2>2, <3>1, CallNow DEF Now
    <3>3. e.phase # "idle" => pages'[e.page] = pages[e.page]
      BY <1>7, <3>2 DEF Fits
    <3>4. "idle" \notin Going
      BY DEF Going
    <3> QED
      BY <2>2, <3>1, <3>2, <3>3, <3>4 DEF Taking, GoesOn, RequestOf, PageOf
  <2> QED
    BY <2>1, <2>2
<1>12. \A q \in DOMAIN pages' : OpenFor(q, r)' => (q = p /\ page.request = r)
                                                \/ (q \in DOMAIN pages /\ OpenFor(q, r))
  BY <1>7 DEF OpenFor
<1>13. CASE page.request # r
  BY <1>10, <1>11, <1>12, <1>13, OnceShrinks
<1>14. CASE page.request = r
  <2>1. GoesOn(h, r)
    BY <1>1, <1>5, <1>8, <1>14 DEF GoesOn, RequestOf, PageOf, Going
  <2>2. \A q \in DOMAIN pages' : OpenFor(q, r)' => q = p
    BY <1>10, <1>12, <2>1 DEF OnePlace
  <2>3. \A g \in Handlers : ~Taking(g, r)' /\ ~GoesOn(g, r)'
    BY <1>10, <1>11, <2>1 DEF OnePlace
  <2>4. grants'[r] <= 1 /\ grants'[r] # 1
    BY <1>10, <2>1 DEF OnePlace
  <2> QED
    BY <2>2, <2>3, <2>4 DEF OnePlace
<1> QED
  BY <1>13, <1>14

\* A request is opened with its page as its one place.
LEMMA OnceAuthorize ==
  ASSUME SignInv, OnceInv, NEW fallback \in BOOLEAN, Authorize(fallback)
  PROVE  OnceInv'
<1>1. PICK p : p = Drawn + 1
  OBVIOUS
<1>2. PICK page : page = Page(IF cred # NoPasskey /\ ~fallback THEN "passkey" ELSE "form", p)
  OBVIOUS
<1>3. /\ Show(p, page) /\ grants' = With(grants, p, 0) /\ UNCHANGED <<call, doubled>>
  BY <1>1, <1>2 DEF Authorize
<1>4. page.request = p
  BY <1>2 DEF Page
<1>5. /\ p \notin DOMAIN pages /\ DOMAIN pages' = DOMAIN pages \cup {p} /\ pages'[p] = page
      /\ open' = open \cup {p}
      /\ \A q \in DOMAIN pages : pages'[q] = pages[q]
  BY <1>1, <1>3, NextPage DEF Show, With
<1>6. p \notin DOMAIN grants
  BY <1>5 DEF SignInv, RequestFits
<1>7. /\ DOMAIN grants' = DOMAIN grants \cup {p} /\ grants'[p] = 0
      /\ \A r \in DOMAIN grants : grants'[r] = grants[r]
  BY <1>3, <1>6 DEF With
<1>8. \A q \in DOMAIN pages : pages[q].request # p
  BY <1>6 DEF SignInv, PageFits
<1>9. ASSUME NEW g \in Handlers, NEW r
      PROVE  /\ Taking(g, r)' => Taking(g, r) /\ call'[g].page = call[g].page /\ r # p
             /\ GoesOn(g, r)' => GoesOn(g, r) /\ r # p
  <2>1. PICK e : e = call[g]
    OBVIOUS
  <2>2. call'[g] = e /\ Fits(e)
    BY <1>3, <2>1, CallNow
  <2>3. e.phase # "idle" => pages'[e.page] = pages[e.page] /\ e.page \in DOMAIN pages
    BY <1>5, <2>2 DEF Fits
  <2>4. "idle" \notin Going
    BY DEF Going
  <2> QED
    BY <1>8, <2>1, <2>2, <2>3, <2>4 DEF Taking, GoesOn, RequestOf, PageOf
<1>10. ASSUME NEW r \in DOMAIN grants \ doubled PROVE OnePlace(r)'
  <2>1. OnePlace(r) /\ grants'[r] = grants[r] /\ r # p
    BY <1>6, <1>7 DEF OnceInv
  <2>2. \A q \in DOMAIN pages' : OpenFor(q, r)' => q \in DOMAIN pages /\ OpenFor(q, r)
    BY <1>4, <1>5, <2>1 DEF OpenFor
  <2> QED
    BY <1>9, <2>1, <2>2, OnceShrinks
<1>11. OnePlace(p)'
  <2>1. \A q \in DOMAIN pages' : OpenFor(q, p)' => q = p
    BY <1>5, <1>8 DEF OpenFor
  <2>2. \A g \in Handlers : ~Taking(g, p)' /\ ~GoesOn(g, p)'
    BY <1>9
  <2>3. grants'[p] <= 1 /\ grants'[p] # 1
    BY <1>7
  <2> QED
    BY <2>1, <2>2, <2>3 DEF OnePlace
<1>12. ASSUME NEW r \in DOMAIN grants' \ doubled' PROVE OnePlace(r)'
  <2>1. CASE r = p
    BY <1>11, <2>1 DEF OnePlace, OpenFor, Taking, GoesOn
  <2>2. CASE r # p
    BY <1>3, <1>7, <1>10, <1>12, <2>2
  <2> QED
    BY <2>1, <2>2
<1> QED
  BY <1>12 DEF OnceInv

\* The call of h goes from one of its reads or writes of KV to the next.
LEMMA OnceGoesOn ==
  ASSUME SignInv, OnceInv, NEW h \in Handlers,
         \/ Verify(h) \/ ReadCounter(h) \/ WriteCounter(h) \/ Factors(h) \/ Store(h) \/ Clear(h)
         \/ ReadFailures(h) \/ (CountFailure(h) /\ Goes(h, "lock"))
  PROVE  OnceInv'
<1>1. PICK c : c = call[h]
  OBVIOUS
<1>2. Fits(c) /\ DOMAIN c = Fields /\ DOMAIN call = Handlers
  BY <1>1, CallNow DEF Fits, SignInv, Numbered
<1>3. UNCHANGED <<pages, open, grants, doubled>>
  BY DEF Verify, ReadCounter, WriteCounter, Factors, Store, Clear, ReadFailures, CountFailure,
         kv, history
<1>4. ASSUME NEW phase \in Going \cup {"fail", "put", "lock"}, Goes(h, phase),
             phase \in Going => c.phase \in Going
      PROVE  OnceInv'
  <2>1. PICK d : Now(h, d) /\ d.phase = phase /\ d.page = c.page
    BY <1>1, <1>4, GoesNow
  <2>2. phase # "drop"
    BY <1>4 DEF Going
  <2> QED
    BY <1>1, <1>3, <1>4, <2>1, <2>2, OnceMoves
<1>5. CASE Verify(h)
  <2>1. c.phase = "verify" /\ (Goes(h, "counter") \/ Goes(h, "fail"))
    BY <1>1, <1>5 DEF Verify, At
  <2> QED
    BY <1>4, <2>1 DEF Going
<1>6. CASE WriteCounter(h) \/ Store(h)
  <2>1. c.phase \in Going /\ Goes(h, "clear")
    BY <1>1, <1>6 DEF WriteCounter, Store, At, Going
  <2> QED
    BY <1>4, <2>1 DEF Going
<1>7. CASE Clear(h)
  <2>1. c.phase = "clear" /\ Goes(h, c.then)
    BY <1>1, <1>7 DEF Clear, At
  <2>2. c.then \in {"grant", "enroll"}
    BY <1>2, <2>1 DEF Fits
  <2> QED
    BY <1>4, <2>1, <2>2 DEF Going
<1>8. CASE CountFailure(h) /\ Goes(h, "lock")
  BY <1>4, <1>8 DEF Going
<1>9. CASE ReadCounter(h)
  <2>1. PICK phase : phase = IF cred = NoPasskey THEN "clear" ELSE "count"
    OBVIOUS
  <2>2. PICK d : d = [c EXCEPT !.phase = phase, !.copy = cred]
    OBVIOUS
  <2>3. call' = [call EXCEPT ![h].phase = phase, ![h].copy = cred] /\ c.phase = "counter"
    BY <1>1, <1>9, <2>1 DEF ReadCounter, At
  <2>4. Now(h, d)
    BY <1>1, <1>2, <2>2, <2>3 DEF Now
  <2>5. d.phase = phase /\ d.page = c.page
    BY <1>2, <2>2 DEF Fields
  <2>6. phase \in Going /\ c.phase \in Going
    BY <2>1, <2>3 DEF Going
  <2> QED
    BY <1>1, <1>3, <2>4, <2>5, <2>6, OnceMoves
<1>10. CASE Factors(h)
  <2>1. PICK phase, then :
            /\ phase \in {"clear", "fail"} /\ c.phase = "factors"
            /\ call' = [call EXCEPT ![h].phase = phase, ![h].then = then]
    BY <1>1, <1>10 DEF Factors, At
  <2>2. PICK d : d = [c EXCEPT !.phase = phase, !.then = then]
    OBVIOUS
  <2>3. Now(h, d)
    BY <1>1, <1>2, <2>1, <2>2 DEF Now
  <2>4. d.phase = phase /\ d.page = c.page
    BY <1>2, <2>2 DEF Fields
  <2>5. phase # "drop" /\ c.phase \in Going
    BY <2>1 DEF Going
  <2> QED
    BY <1>1, <1>3, <2>1, <2>3, <2>4, <2>5, OnceMoves DEF Going
<1>11. CASE ReadFailures(h)
  <2>1. PICK n : n = fails[AddressOf(h)] + 1
    OBVIOUS
  <2>2. PICK d : d = [c EXCEPT !.phase = "put", !.n = n]
    OBVIOUS
  <2>3. call' = [call EXCEPT ![h].phase = "put", ![h].n = n]
    BY <1>11, <2>1 DEF ReadFailures
  <2>4. Now(h, d)
    BY <1>1, <1>2, <2>2, <2>3 DEF Now
  <2>5. d.phase \notin Going \cup {"drop"}
    BY <1>2, <2>2 DEF Fields, Going
  <2> QED
    BY <1>1, <1>3, <2>4, <2>5, OnceMoves
<1> QED
  BY <1>5, <1>6, <1>7, <1>8, <1>9, <1>10, <1>11

\* Records of KV expire.
LEMMA OnceExpire ==
  ASSUME OnceInv, open' \subseteq open, UNCHANGED <<pages, call, grants, doubled>>
  PROVE  OnceInv'
<1> SUFFICES ASSUME NEW r \in DOMAIN grants \ doubled PROVE OnePlace(r)'
  BY DEF OnceInv
<1>1. OnePlace(r)
  BY DEF OnceInv
<1>2. \A p \in DOMAIN pages' : OpenFor(p, r)' => OpenFor(p, r)
  BY DEF OpenFor
<1>3. \A g \in Handlers : /\ Taking(g, r)' => Taking(g, r) /\ call'[g].page = call[g].page
                          /\ GoesOn(g, r)' => GoesOn(g, r)
  BY DEF Taking, GoesOn, RequestOf, PageOf
<1> QED
  BY <1>1, <1>2, <1>3, OnceShrinks

LEMMA NextOnceInv == SignInv /\ OnceInv /\ [Next]_vars => OnceInv'
<1> SUFFICES ASSUME SignInv, OnceInv, [Next]_vars PROVE OnceInv'
  OBVIOUS
<1>1. CASE \E fallback \in BOOLEAN : Authorize(fallback)
  BY <1>1, OnceAuthorize
<1>2. CASE \E a \in Addresses : ExpireFailures(a) \/ ExpireLock(a)
  BY <1>2, OnceExpire DEF ExpireFailures, ExpireLock, history
<1>3. CASE \E p \in open : ExpirePage(p)
  BY <1>3, OnceExpire DEF ExpirePage, history
<1>4. ASSUME NEW h \in Handlers, NEW a \in Addresses, NEW p \in DOMAIN pages,
             \/ SubmitPasskey(h, a, p) \/ SkipPasskey(h, a, p) \/ EnrollAppInstead(h, a, p)
             \/ \E right \in BOOLEAN :
                    \/ SubmitEnrollment(h, a, p, right) \/ SubmitCode(h, a, p, right)
                    \/ \E code \in scanned \cup {0, WrongCode} : SubmitForm(h, a, p, right, code)
      PROVE  OnceInv'
  BY <1>4, OnceSubmit DEF SubmitPasskey, SkipPasskey, EnrollAppInstead, SubmitEnrollment,
                     SubmitCode, SubmitForm
<1>5. ASSUME NEW h \in Handlers, call' = [call EXCEPT ![h] = Idle],
             CountFailure(h) \/ Lock(h) \/ Lost(h)
      PROVE  OnceInv'
  <2>1. UNCHANGED <<pages, open, grants, doubled>>
    BY <1>5 DEF CountFailure, Lock, Lost, kv, history
  <2> QED
    BY <1>5, <2>1, OnceEnds
<1>6. ASSUME NEW h \in Handlers,
             \/ Take(h) \/ Drop(h)
             \/ Verify(h) \/ ReadCounter(h) \/ WriteCounter(h)
             \/ Factors(h) \/ Store(h) \/ Clear(h)
             \/ Grant(h) \/ ShowEnrollment(h) \/ ShowSecret(h)
             \/ ReadFailures(h) \/ CountFailure(h) \/ Lock(h)
             \/ Lost(h)
      PROVE  OnceInv'
  <2>1. CountFailure(h) \/ Lock(h) \/ Lost(h) =>
            \/ call' = [call EXCEPT ![h] = Idle]
            \/ CountFailure(h) /\ Goes(h, "lock")
    BY DEF CountFailure, Lock, Lost, Answer
  <2> QED
    BY <1>5, <1>6, <2>1, OnceTake, OnceDrop, OnceGoesOn, OnceGrant, OnceShowNext
<1>7. CASE UNCHANGED vars
  BY <1>7, OnceExpire DEF vars, kv, history
<1> QED
  BY <1>1, <1>2, <1>3, <1>4, <1>6, <1>7 DEF Next

\* README, Auth: the nonces are for one use.  An OAuth request is granted once,
\* through all the pages that one leads to, unless two submissions of one of them
\* both read its record before either deleted it (handleApprove's get and delete).
THEOREM RequestsGrantedOnce == Spec => []GrantedOnce
<1>1. Init => OnceInv
  BY DEF Init, OnceInv
<1>2. SignInv /\ OnceInv => GrantedOnce
  BY DEF SignInv, RequestFits, OnceInv, OnePlace, GrantedOnce, Repeated
<1> QED
  BY <1>1, <1>2, SignHolds, NextOnceInv, PTL DEF Spec

-----------------------------------------------------------------------------
(* The failures that are counted *)

\* The address of a call that counts a failure.
LEMMA FailingAddress ==
  ASSUME SignInv, NEW g \in Handlers, call[g].phase # "idle"
  PROVE  AddressOf(g) = call[g].from /\ AddressOf(g) \in Addresses
  BY DEF SignInv, Fits, AddressOf

\* No step takes failures back from a call that counts one.
LEMMA CountStays ==
  ASSUME SignInv, CountInv,
         fails' \in [Addresses -> Nat], streak' \in [Addresses -> Nat],
         \A a \in Addresses : fails'[a] <= streak'[a],
         \A g \in Handlers : \/ call'[g] = call[g] \/ call'[g].phase \notin {"put", "lock"}
                             \/ CallCounts(call[g])',
         \A g \in Handlers : call[g].phase \in {"put", "lock"} =>
                                 streak[AddressOf(g)] <= streak'[AddressOf(g)]
  PROVE  CountInv'
<1>1. ASSUME NEW g \in Handlers PROVE CallCounts(call[g])'
  <2>1. CASE call'[g].phase \notin {"put", "lock"}
    BY <2>1 DEF CallCounts
  <2>2. CASE call'[g] = call[g] /\ call[g].phase \in {"put", "lock"}
    <3>1. PICK a : a = AddressOf(g)
      OBVIOUS
    <3>2. a = call[g].from /\ a \in Addresses
      BY <2>2, <3>1, FailingAddress
    <3>3. /\ streak[a] \in Nat /\ streak'[a] \in Nat /\ streak[a] <= streak'[a]
          /\ MaxFailed \in Nat
      BY <2>2, <3>1, <3>2, SignInAssumption DEF CountInv
    <3>4. PICK c : c = call[g]
      OBVIOUS
    <3>5. /\ c.phase = "put" => c.n \in Nat /\ c.n <= streak[a] + 1
          /\ c.phase = "lock" => c.n \in Nat /\ c.n <= streak[a] /\ c.n >= MaxFailed
      BY <3>2, <3>4 DEF CountInv, CallCounts
    <3>6. /\ c.phase = "put" => c.n \in Nat /\ c.n <= streak'[a] + 1
          /\ c.phase = "lock" => c.n \in Nat /\ c.n <= streak'[a] /\ c.n >= MaxFailed
      BY <3>3, <3>5
    <3>7. call'[g] = c /\ a = c.from
      BY <2>2, <3>2, <3>4
    <3> QED
      BY <3>6, <3>7 DEF CallCounts
  <2> QED
    BY <2>1, <2>2
<1> QED
  BY <1>1 DEF CountInv

\* A step that counts nothing.
LEMMA CountUntouched ==
  ASSUME SignInv, CountInv, UNCHANGED <<fails, streak>>,
         \A g \in Handlers : call'[g] = call[g] \/ call'[g].phase \notin {"put", "lock"}
  PROVE  CountInv'
<1>1. /\ fails' \in [Addresses -> Nat] /\ streak' \in [Addresses -> Nat]
      /\ \A a \in Addresses : fails'[a] <= streak'[a]
  BY DEF CountInv
<1>2. ASSUME NEW g \in Handlers, call[g].phase \in {"put", "lock"}
      PROVE  streak[AddressOf(g)] <= streak'[AddressOf(g)]
  BY <1>2, FailingAddress DEF CountInv
<1> QED
  BY <1>1, <1>2, CountStays

\* The count is cleared or has expired, and a row of failures ends.
LEMMA CountRestarts ==
  ASSUME SignInv, CountInv, NEW a \in Addresses, fails' = [fails EXCEPT ![a] = 0],
         streak' = Restarted(a),
         \A g \in Handlers : call'[g] = call[g] \/ call'[g].phase \notin {"put", "lock"}
  PROVE  CountInv'
<1>1. fails' \in [Addresses -> Nat] /\ streak' \in [Addresses -> Nat]
  BY DEF CountInv, Restarted
<1>2. \A b \in Addresses : fails'[b] <= streak'[b]
  BY DEF CountInv, Restarted
<1>3. ASSUME NEW g \in Handlers, call[g].phase \in {"put", "lock"}
      PROVE  streak[AddressOf(g)] <= streak'[AddressOf(g)]
  <2>1. AddressOf(g) \in Addresses
    BY <1>3, FailingAddress
  <2>2. AddressOf(g) = a => Failing(a)
    BY <1>3 DEF Failing
  <2> QED
    BY <2>1, <2>2 DEF CountInv, Restarted
<1> QED
  BY <1>1, <1>2, <1>3, CountStays

\* A failure is counted: in KV as one more than was read there.
LEMMA CountCounts ==
  ASSUME SignInv, CountInv, NEW h \in Handlers, CountFailure(h)
  PROVE  CountInv'
<1>1. PICK c : c = call[h]
  OBVIOUS
<1>2. PICK a : a = AddressOf(h)
  OBVIOUS
<1>3. PICK n : n = c.n
  OBVIOUS
<1>4. /\ c.phase = "put"
      /\ fails' = [fails EXCEPT ![a] = n] /\ streak' = [streak EXCEPT ![a] = @ + 1]
  BY <1>1, <1>2, <1>3 DEF CountFailure, At
<1>5. a = c.from /\ a \in Addresses
  BY <1>1, <1>2, <1>4, FailingAddress
<1>6. n \in Nat /\ n <= streak[a] + 1 /\ streak[a] \in Nat
  BY <1>1, <1>3, <1>4, <1>5 DEF CountInv, CallCounts
<1>7. fails' \in [Addresses -> Nat] /\ streak' \in [Addresses -> Nat]
  BY <1>4, <1>5, <1>6 DEF CountInv
<1>8. /\ fails'[a] = n /\ streak'[a] = streak[a] + 1
      /\ \A b \in Addresses \ {a} : fails'[b] = fails[b] /\ streak'[b] = streak[b]
  BY <1>4, <1>5 DEF CountInv
<1>9. \A b \in Addresses : fails'[b] <= streak'[b]
  BY <1>6, <1>8 DEF CountInv
<1>10. ASSUME NEW g \in Handlers, call[g].phase \in {"put", "lock"}
       PROVE  streak[AddressOf(g)] <= streak'[AddressOf(g)]
  <2>1. AddressOf(g) \in Addresses
    BY <1>10, FailingAddress
  <2>2. streak[AddressOf(g)] \in Nat
    BY <2>1 DEF CountInv
  <2> QED
    BY <1>6, <1>8, <2>1, <2>2
<1>11. ASSUME NEW g \in Handlers
       PROVE  \/ call'[g] = call[g] \/ call'[g].phase \notin {"put", "lock"}
              \/ CallCounts(call[g])'
  <2>1. CASE Answer(h)
    <3>1. call' = [call EXCEPT ![h] = Idle] /\ Idle.phase = "idle"
      BY <2>1 DEF Answer, Idle, Call
    <3> QED
      BY <3>1 DEF SignInv, Numbered
  <2>2. CASE Goes(h, "lock") /\ n >= MaxFailed
    <3>1. PICK d : Now(h, d) /\ d.phase = "lock" /\ d.from = a /\ d.n = n
      BY <1>1, <1>3, <1>5, <2>2, GoesNow
    <3>2. CASE g # h
      BY <3>1, <3>2 DEF Now
    <3>3. CASE g = h
      <4>1. call'[g].phase = "lock" /\ call'[g].from = a /\ call'[g].n = n
        BY <3>1, <3>3 DEF Now
      <4>2. streak'[a] = streak[a] + 1
        BY <1>8
      <4> QED
        BY <1>6, <2>2, <4>1, <4>2 DEF CallCounts
    <3> QED
      BY <3>2, <3>3
  <2> QED
    BY <1>1, <1>3, <2>1, <2>2 DEF CountFailure
<1> QED
  BY <1>4, <1>7, <1>9, <1>10, <1>11, CountStays

\* The failures of an address are read, to be counted with the one of the call.
LEMMA CountReads ==
  ASSUME SignInv, CountInv, NEW h \in Handlers, ReadFailures(h)
  PROVE  CountInv'
<1>1. PICK c : c = call[h]
  OBVIOUS
<1>2. PICK a : a = AddressOf(h)
  OBVIOUS
<1>3. PICK n : n = fails[a] + 1
  OBVIOUS
<1>4. PICK d : d = [c EXCEPT !.phase = "put", !.n = n]
  OBVIOUS
<1>5. /\ c.phase = "fail" /\ DOMAIN c = Fields /\ UNCHANGED <<fails, streak>>
      /\ call' = [call EXCEPT ![h].phase = "put", ![h].n = n]
  BY <1>1, <1>2, <1>3, CallNow DEF ReadFailures, At, Fits, kv, history
<1>6. Now(h, d)
  BY <1>1, <1>4, <1>5 DEF Now, SignInv, Numbered
<1>7. d.phase = "put" /\ d.from = c.from /\ d.n = n
  BY <1>4, <1>5 DEF Fields
<1>8. a = c.from /\ a \in Addresses
  BY <1>1, <1>2, <1>5, FailingAddress
<1>9. n \in Nat /\ n <= streak[a] + 1
  BY <1>3, <1>8 DEF CountInv
<1>10. CallCounts(call[h])'
  <2>1. call'[h].phase = "put" /\ call'[h].from = a /\ call'[h].n = n
    BY <1>6, <1>7, <1>8 DEF Now
  <2> QED
    BY <1>5, <1>9, <2>1 DEF CallCounts
<1>11. ASSUME NEW g \in Handlers PROVE call'[g] = call[g] \/ CallCounts(call[g])'
  <2>1. CASE g = h
    BY <1>10, <2>1 DEF CallCounts
  <2>2. CASE g # h
    BY <1>6, <2>2 DEF Now
  <2> QED
    BY <2>1, <2>2
<1>12. ASSUME NEW g \in Handlers, call[g].phase \in {"put", "lock"}
       PROVE  streak[AddressOf(g)] <= streak'[AddressOf(g)]
  BY <1>5, <1>12, FailingAddress DEF CountInv
<1>13. /\ fails' \in [Addresses -> Nat] /\ streak' \in [Addresses -> Nat]
       /\ \A b \in Addresses : fails'[b] <= streak'[b]
  BY <1>5 DEF CountInv
<1> QED
  BY <1>5, <1>11, <1>12, <1>13, CountStays

\* The address is locked out.
LEMMA CountLocks ==
  ASSUME SignInv, CountInv, NEW h \in Handlers, Lock(h)
  PROVE  CountInv' /\ \A a \in locks' \ locks : streak[a] >= MaxFailed
<1>1. PICK a : a = AddressOf(h)
  OBVIOUS
<1>2. /\ call[h].phase = "lock" /\ UNCHANGED streak
      /\ fails' = [fails EXCEPT ![a] = 0] /\ locks' = locks \cup {a}
      /\ call' = [call EXCEPT ![h] = Idle]
  BY <1>1 DEF Lock, At, Answer, history
<1>3. a = call[h].from /\ a \in Addresses
  BY <1>1, <1>2, FailingAddress
<1>4. streak[a] >= MaxFailed
  <2>1. CallCounts(call[h]) /\ streak[a] \in Nat /\ MaxFailed \in Nat
    BY <1>3, SignInAssumption DEF CountInv
  <2> QED
    BY <1>2, <1>3, <2>1 DEF CallCounts
<1>5. /\ fails' \in [Addresses -> Nat] /\ streak' \in [Addresses -> Nat]
      /\ \A b \in Addresses : fails'[b] <= streak'[b]
  BY <1>2, <1>3 DEF CountInv
<1>6. ASSUME NEW g \in Handlers PROVE call'[g] = call[g] \/ call'[g].phase \notin {"put", "lock"}
  BY <1>2 DEF SignInv, Numbered, Idle, Call
<1>7. ASSUME NEW g \in Handlers, call[g].phase \in {"put", "lock"}
      PROVE  streak[AddressOf(g)] <= streak'[AddressOf(g)]
  BY <1>2, <1>7, FailingAddress DEF CountInv
<1>8. CountInv'
  BY <1>2, <1>5, <1>6, <1>7, CountStays
<1> QED
  BY <1>2, <1>4, <1>8

\* The call of h is in a phase that counts nothing after the step.
LEMMA CountLeft ==
  ASSUME SignInv, CountInv, NEW h \in Handlers, UNCHANGED <<fails, streak>>,
         NEW d, Now(h, d), d.phase \notin {"put", "lock"}
  PROVE  CountInv'
<1>1. \A g \in Handlers : call'[g] = call[g] \/ call'[g].phase \notin {"put", "lock"}
  BY DEF Now
<1> QED
  BY <1>1, CountUntouched

LEMMA CountGoesOn ==
  ASSUME SignInv, CountInv, NEW h \in Handlers,
         \/ Take(h) \/ Drop(h) \/ Verify(h) \/ ReadCounter(h) \/ WriteCounter(h)
         \/ Factors(h) \/ Store(h) \/ Grant(h) \/ ShowEnrollment(h) \/ ShowSecret(h) \/ Lost(h)
  PROVE  CountInv'
<1>1. PICK c : c = call[h]
  OBVIOUS
<1>2. DOMAIN call = Handlers /\ DOMAIN c = Fields
  BY <1>1 DEF SignInv, Numbered, Fits
<1>3. UNCHANGED <<fails, streak>>
  BY DEF Take, Drop, Verify, ReadCounter, WriteCounter, Factors, Store, Grant, ShowEnrollment,
         ShowSecret, ShowNext, Lost, kv, history
<1>4. ASSUME NEW phase, phase \notin {"put", "lock"}, Goes(h, phase)
      PROVE  \A g \in Handlers : call'[g] = call[g] \/ call'[g].phase \notin {"put", "lock"}
  <2>1. PICK d : Now(h, d) /\ d.phase = phase
    BY <1>1, <1>4, GoesNow
  <2> QED
    BY <1>4, <2>1 DEF Now
<1>5. ASSUME call' = [call EXCEPT ![h] = Idle]
      PROVE  \A g \in Handlers : call'[g] = call[g] \/ call'[g].phase \notin {"put", "lock"}
  BY <1>2, <1>5 DEF Idle, Call
<1>6. CASE Grant(h) \/ ShowEnrollment(h) \/ ShowSecret(h) \/ Lost(h) \/ (Take(h) /\ Answer(h))
  <2>1. call' = [call EXCEPT ![h] = Idle]
    BY <1>6 DEF Grant, ShowEnrollment, ShowSecret, ShowNext, Lost, Answer
  <2> QED
    BY <1>3, <1>5, <2>1, CountUntouched
<1>7. CASE \/ (Take(h) /\ Goes(h, "drop")) \/ Drop(h) \/ Verify(h) \/ WriteCounter(h) \/ Store(h)
  <2>1. PICK phase : Goes(h, phase) /\ phase \notin {"put", "lock"}
    <3>1. Taken(c) \notin {"put", "lock"}
      BY DEF Taken
    <3>2. CASE Drop(h)
      BY <1>1, <3>1, <3>2 DEF Drop
    <3>3. CASE (Take(h) /\ Goes(h, "drop")) \/ Verify(h) \/ WriteCounter(h) \/ Store(h)
      <4>1. \E phase \in {"drop", "counter", "fail", "clear"} : Goes(h, phase)
        BY <3>3 DEF Verify, WriteCounter, Store
      <4> QED
        BY <4>1
    <3> QED
      BY <1>7, <3>2, <3>3
  <2> QED
    BY <1>3, <1>4, <2>1, CountUntouched
<1>8. CASE ReadCounter(h) \/ Factors(h)
  <2>1. ASSUME NEW g \in Handlers
        PROVE  call'[g] = call[g] \/ call'[g].phase \in {"clear", "count", "fail"}
    BY <1>1, <1>2, <1>8 DEF ReadCounter, Factors, Fields
  <2> QED
    BY <1>3, <2>1, CountUntouched
<1> QED
  BY <1>6, <1>7, <1>8 DEF Take

\* Every step keeps the counts, and locks out only after enough failures.
LEMMA NextCountInv ==
  ASSUME SignInv, CountInv, [Next]_vars
  PROVE  CountInv' /\ \A a \in locks' \ locks : streak[a] >= MaxFailed
<1> DEFINE Locks == \A a \in locks' \ locks : streak[a] >= MaxFailed
<1>1. CASE \E fallback \in BOOLEAN : Authorize(fallback)
  <2>1. PICK fallback \in BOOLEAN : Authorize(fallback)
    BY <1>1
  <2>2. UNCHANGED <<fails, streak, locks, call>>
    BY <2>1 DEF Authorize
  <2> QED
    BY <2>2, CountUntouched
<1>2. CASE \E a \in Addresses : ExpireFailures(a) \/ ExpireLock(a)
  <2>1. PICK a \in Addresses : ExpireFailures(a) \/ ExpireLock(a)
    BY <1>2
  <2>2. CASE ExpireFailures(a)
    BY <2>2, CountRestarts DEF ExpireFailures
  <2>3. CASE ExpireLock(a)
    BY <2>3, CountUntouched DEF ExpireLock, history
  <2> QED
    BY <2>1, <2>2, <2>3
<1>3. CASE \E p \in open : ExpirePage(p)
  BY <1>3, CountUntouched DEF ExpirePage, history
<1>4. ASSUME NEW h \in Handlers, NEW a, NEW p, NEW via, NEW right, NEW n,
             Submit(h, a, p, via, right, n)
      PROVE  CountInv' /\ Locks
  <2>1. PICK d : d = Call("take", a, p, via, right, n)
    OBVIOUS
  <2>2. d.phase = "take"
    BY <2>1 DEF Call
  <2>3. call' = [call EXCEPT ![h] = d] /\ UNCHANGED <<fails, streak, locks>>
    BY <1>4, <2>1 DEF Submit, kv, history
  <2>4. Now(h, d)
    BY <2>3, BecomesNow
  <2> QED
    BY <2>2, <2>3, <2>4, CountLeft
<1>5. ASSUME NEW h \in Handlers, NEW a \in Addresses, NEW p \in DOMAIN pages,
             \/ SubmitPasskey(h, a, p) \/ SkipPasskey(h, a, p) \/ EnrollAppInstead(h, a, p)
             \/ \E right \in BOOLEAN :
                    \/ SubmitEnrollment(h, a, p, right) \/ SubmitCode(h, a, p, right)
                    \/ \E code \in scanned \cup {0, WrongCode} : SubmitForm(h, a, p, right, code)
      PROVE  CountInv' /\ Locks
  BY <1>4, <1>5 DEF SubmitPasskey, SkipPasskey, EnrollAppInstead, SubmitEnrollment,
                     SubmitCode, SubmitForm
<1>6. ASSUME NEW h \in Handlers,
             \/ Take(h) \/ Drop(h) \/ Verify(h) \/ ReadCounter(h) \/ WriteCounter(h)
             \/ Factors(h) \/ Store(h) \/ Grant(h) \/ ShowEnrollment(h) \/ ShowSecret(h) \/ Lost(h)
      PROVE  CountInv' /\ Locks
  <2>1. UNCHANGED locks
    BY <1>6 DEF Take, Drop, Verify, ReadCounter, WriteCounter, Factors, Store, Grant,
                ShowEnrollment, ShowSecret, ShowNext, Lost, kv
  <2> QED
    BY <1>6, <2>1, CountGoesOn
<1>7. ASSUME NEW h \in Handlers, Clear(h)
      PROVE  CountInv' /\ Locks
  <2>1. PICK a : a = AddressOf(h)
    OBVIOUS
  <2>2. PICK c : c = call[h]
    OBVIOUS
  <2>3. /\ c.phase = "clear" /\ fails' = [fails EXCEPT ![a] = 0]
        /\ locks' = locks \ {a} /\ streak' = Restarted(a) /\ Goes(h, c.then)
    BY <1>7, <2>1, <2>2 DEF Clear, Cleared, At
  <2>4. a \in Addresses
    BY <2>1, <2>2, <2>3, FailingAddress
  <2>5. c.then \in {"grant", "enroll"}
    BY <2>2, <2>3, CallNow DEF Fits
  <2>6. PICK d : Now(h, d) /\ d.phase = c.then
    BY <2>2, <2>3, GoesNow
  <2>7. \A g \in Handlers : call'[g] = call[g] \/ call'[g].phase \notin {"put", "lock"}
    BY <2>5, <2>6 DEF Now
  <2> QED
    BY <2>3, <2>4, <2>7, CountRestarts
<1>8. ASSUME NEW h \in Handlers, ReadFailures(h) \/ CountFailure(h)
      PROVE  CountInv' /\ Locks
  <2>1. UNCHANGED locks
    BY <1>8 DEF ReadFailures, CountFailure, kv
  <2> QED
    BY <1>8, <2>1, CountReads, CountCounts
<1>9. ASSUME NEW h \in Handlers, Lock(h)
      PROVE  CountInv' /\ Locks
  BY <1>9, CountLocks
<1>10. CASE UNCHANGED vars
  BY <1>10, CountUntouched DEF vars, kv, history
<1> QED
  BY <1>1, <1>2, <1>3, <1>5, <1>6, <1>7, <1>8, <1>9, <1>10 DEF Next

\* README, Auth: "lockout after 5 failed attempts".  registerAuthFailure locks no
\* address out before MAX_FAILED_ATTEMPTS failures, and counts none from before the
\* last success, for any number of requests that count at once.
THEOREM LockoutsAreEarned == Spec => LockedAfterFailures
<1>1. Init => CountInv
  <2> SUFFICES ASSUME Init PROVE CountInv
    OBVIOUS
  <2>1. \A h \in Handlers : call[h].phase = "idle"
    BY DEF Init, Idle, Call
  <2> QED
    BY <2>1 DEF Init, CountInv, CallCounts
<1>2. SignInv /\ CountInv /\ [Next]_vars => CountInv'
  BY NextCountInv
<1>3. SignInv /\ CountInv /\ [Next]_vars =>
          [\A a \in locks' \ locks : streak[a] >= MaxFailed]_vars
  BY NextCountInv
<1> QED
  BY <1>1, <1>2, <1>3, SignHolds, PTL DEF Spec, LockedAfterFailures
=============================================================================
