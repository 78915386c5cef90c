-------------------------------- MODULE SignIn --------------------------------
(***************************************************************************)
(* The sign-in pages (src/auth.ts, src/webauthn.ts, src/totp.ts): an OAuth *)
(* request is granted after a passkey, or after the passphrase and a code, *)
(* and the first sign-in enrolls a passkey or an authenticator app.        *)
(*                                                                         *)
(* Every page carries a nonce, the key of a short-lived record in KV; it   *)
(* is drawn with the page and is the page's number here, and so are the    *)
(* secret and the passkey that a page enrolls. A handler awaits KV between *)
(* reading and writing, and KV has no transactions. A request carries the  *)
(* nonce of some page: from which address it comes, which handler of that  *)
(* kind of record it goes to and what else it carries is not for the page  *)
(* to say. The CSRF check compares two parts of one request, and refuses   *)
(* none that has them equal; it is passed here.                            *)
(***************************************************************************)
EXTENDS Integers, FiniteSets

CONSTANTS
    Handlers,    \* the requests that may be running at once
    Addresses,   \* CF-Connecting-IP
    MaxFailed,   \* MAX_FAILED_ATTEMPTS
    MaxPages,    \* bound on the pages shown
    MaxCounter,  \* bound on the signatures of a passkey
    MaxLost      \* bound on the requests lost half-way

ASSUME SignInAssumption == MaxFailed \in Nat \ {0}

VARIABLES
    pages,       \* every page shown, by number
    open,        \* KV: the pages whose record is there
    secret,      \* KV: the TOTP secret that is enrolled, 0 for none
    cred,        \* KV: the passkey that is enrolled and its counter
    fails,       \* KV: address -> the failures counted
    locks,       \* KV: the addresses that are locked out
    scanned,     \* the secrets in the owner's authenticator app
    passkeys,    \* the passkeys on the owner's devices -> their counter there
    call,        \* handler -> the request it is serving
    lost,        \* how many requests were lost
    grants,      \* the OAuth requests -> how many times they were granted
    proved,      \* history: the OAuth requests -> what was shown for them
    doubled,     \* history: the OAuth requests of a page submitted twice at once
    crossed,     \* history: the passkeys that got the counter of another
    streak       \* history: address -> its failures since a success

kv      == <<open, secret, cred, fails, locks>>
owner   == <<scanned, passkeys>>
history == <<proved, doubled, crossed, streak>>
vars    == <<pages, kv, owner, call, lost, grants, history>>

NoPasskey == [id |-> 0, counter |-> 0]
WrongCode == -1

\* A page: passkey is the one enrolled when it was shown, and request the page that
\* opened the OAuth request.
Page(kind, request) == [kind |-> kind, request |-> request, passkey |-> cred.id]

\* A request: what it does next; its address; the page of its nonce and what it is
\* for; whether the passphrase, or what it enrolls, is right; a code, a counter or a
\* count; the passkey it has read; and what follows when the failures are cleared.
Call(phase, from, page, via, right, n) ==
    [phase |-> phase, from |-> from, page |-> page, via |-> via, right |-> right, n |-> n,
     copy |-> NoPasskey, then |-> "grant"]

Idle == Call("idle", "none", 0, "none", FALSE, 0)

With(f, x, y) == [z \in DOMAIN f \cup {x} |-> IF z = x THEN y ELSE f[z]]

Drawn == Cardinality(DOMAIN pages)

-----------------------------------------------------------------------------
Init ==
    /\ pages = <<>> /\ open = {}
    /\ secret = 0 /\ cred = NoPasskey
    /\ fails = [a \in Addresses |-> 0] /\ locks = {}
    /\ scanned = {} /\ passkeys = <<>>
    /\ call = [h \in Handlers |-> Idle]
    /\ lost = 0 /\ grants = <<>> /\ proved = <<>>
    /\ doubled = {} /\ crossed = {}
    /\ streak = [a \in Addresses |-> 0]

\* A page is shown, with its record in KV.
Show(p, page) ==
    /\ p <= MaxPages
    /\ pages' = With(pages, p, page)
    /\ open' = open \cup {p}

\* GET /authorize: the passkey page, or the form if there is no passkey or it is
\* asked for.
Authorize(fallback) ==
    LET p == Drawn + 1
        kind == IF cred # NoPasskey /\ ~fallback THEN "passkey" ELSE "form"
    IN
    /\ Show(p, Page(kind, p))
    /\ grants' = With(grants, p, 0)
    /\ proved' = With(proved, p, {})
    /\ UNCHANGED <<lost, secret, cred, fails, locks, owner, call, doubled, crossed, streak>>

-----------------------------------------------------------------------------
(* What is sent *)

\* The lock is checked, but not for the two links of an enrollment page; a locked
\* request changes nothing.
Submit(h, a, p, via, right, n) ==
    /\ call[h] = Idle
    /\ a \notin locks \/ via \in {"skip", "instead"}
    /\ call' = [call EXCEPT ![h] = Call("take", a, p, via, right, n)]
    /\ UNCHANGED <<lost, pages, kv, grants, history>>

\* POST /approve of the passkey page: the device signs and counts.
SubmitPasskey(h, a, p) ==
    LET key == pages[p].passkey IN
    /\ pages[p].kind = "passkey"
    /\ passkeys[key] < MaxCounter
    /\ passkeys' = [passkeys EXCEPT ![key] = @ + 1]
    /\ Submit(h, a, p, "passkey", FALSE, passkeys[key] + 1)
    /\ UNCHANGED scanned

\* POST /approve without the answer of a device: the passphrase and, or not, a code.
SubmitForm(h, a, p, right, code) ==
    /\ pages[p].kind \in {"form", "passkey"}
    /\ code \in (IF right THEN scanned \cup {0, WrongCode} ELSE {0})
    /\ Submit(h, a, p, "form", right, code)
    /\ UNCHANGED owner

\* POST /enroll-passkey: a device makes a passkey, though the page excludes the one
\* that is enrolled; what it sends may be refused.
SubmitEnrollment(h, a, p, right) ==
    /\ pages[p].kind = "enroll"
    /\ passkeys' = IF right /\ p \notin DOMAIN passkeys THEN With(passkeys, p, 0) ELSE passkeys
    /\ Submit(h, a, p, "enroll", right, 0)
    /\ UNCHANGED scanned

\* GET /complete-passkey-skip: the enrollment is left out ...
SkipPasskey(h, a, p) ==
    /\ pages[p].kind = "enroll"
    /\ Submit(h, a, p, "skip", FALSE, 0)
    /\ UNCHANGED owner

\* ... and GET /enroll-totp-redirect: an app is enrolled instead.  Both answer any
\* enrollment page, though a page shows the link to one of them.
EnrollAppInstead(h, a, p) ==
    /\ pages[p].kind = "enroll"
    /\ Submit(h, a, p, "instead", FALSE, 0)
    /\ UNCHANGED owner

\* POST /enroll-totp: a code of the secret that is shown, after it was scanned, or
\* a wrong one.
SubmitCode(h, a, p, right) ==
    /\ pages[p].kind = "totp"
    /\ scanned' = IF right THEN scanned \cup {p} ELSE scanned
    /\ Submit(h, a, p, "totp", right, 0)
    /\ UNCHANGED passkeys

-----------------------------------------------------------------------------
(* The handlers, from one await of KV to the next *)

Goes(h, phase) == call' = [call EXCEPT ![h].phase = phase]

At(h, phase) == call[h].phase = phase

AddressOf(h) == call[h].from
PageOf(h)    == pages[call[h].page]
RequestOf(h) == PageOf(h).request

Answer(h) == call' = [call EXCEPT ![h] = Idle]

Shown(h, what) == proved' = [proved EXCEPT ![RequestOf(h)] = @ \cup {what}]

\* The record of the page is read; it may have been used or have expired.
Take(h) ==
    LET p == call[h].page IN
    /\ At(h, "take")
    /\ IF p \in open THEN Goes(h, "drop") ELSE Answer(h)
    /\ doubled' = IF p \in open /\ \E g \in Handlers \ {h} : call[g].page = p /\ At(g, "drop")
                  THEN doubled \cup {RequestOf(h)} ELSE doubled
    /\ UNCHANGED <<lost, pages, kv, owner, grants, proved, crossed, streak>>

\* mutant of Taken: what the enrollment pages send is not verified.
TakenUnverified(c) ==
    CASE c.via = "passkey" -> "verify"
      [] c.via = "skip"    -> "grant"
      [] c.via = "instead" -> "instead"
      [] c.via = "form"    -> IF c.right THEN "factors" ELSE "fail"
      [] OTHER             -> "store"

\* What follows once the record was taken.
Taken(c) ==
    CASE c.via = "passkey" -> "verify"
      [] c.via = "skip"    -> "grant"
      [] c.via = "instead" -> "instead"
      [] c.via = "form"    -> IF c.right THEN "factors" ELSE "fail"
      [] OTHER             -> IF c.right THEN "store" ELSE "fail"

\* mutant of Dropped: the record is left to expire.
LeftOpen(p) == open

Dropped(p) == open \ {p}

\* The record is deleted, and what needs no further read is checked.  Of the right
\* passphrase the history has whether a factor is enrolled when it is given.
Drop(h) ==
    LET c     == call[h]
        given == IF secret = 0 /\ cred = NoPasskey THEN "first passphrase" ELSE "passphrase"
    IN
    /\ At(h, "drop")
    /\ open' = Dropped(c.page)
    /\ Goes(h, Taken(c))
    /\ IF c.via = "form" /\ c.right THEN Shown(h, given) ELSE UNCHANGED proved
    /\ UNCHANGED <<lost, pages, secret, cred, fails, locks, owner, grants,
                   doubled, crossed, streak>>

\* verifyAuthentication: the answer to the page is signed with the key of the passkey
\* that is enrolled by now, and its counter is past the one that is stored.
SignedAndCountedOn(c) == cred.id = pages[c.page].passkey /\ c.n > cred.counter

Verify(h) ==
    LET ok == SignedAndCountedOn(call[h]) IN
    /\ At(h, "verify")
    /\ Goes(h, IF ok THEN "counter" ELSE "fail")
    /\ IF ok THEN Shown(h, "passkey") ELSE UNCHANGED proved
    /\ UNCHANGED <<lost, pages, kv, owner, grants, doubled, crossed, streak>>

\* updateCredentialCounter: the passkey is read again and written back whole.
ReadCounter(h) ==
    /\ At(h, "counter")
    /\ call' = [call EXCEPT ![h].phase = IF cred = NoPasskey THEN "clear" ELSE "count",
                            ![h].copy  = cred]
    /\ UNCHANGED <<lost, pages, kv, owner, grants, history>>

WriteCounter(h) ==
    LET c == call[h] IN
    /\ At(h, "count")
    /\ cred' = [c.copy EXCEPT !.counter = c.n]
    /\ crossed' = IF c.copy.id # PageOf(h).passkey THEN crossed \cup {c.copy.id} ELSE crossed
    /\ Goes(h, "clear")
    /\ UNCHANGED <<lost, pages, open, secret, fails, locks, owner, grants,
                   proved, doubled, streak>>

\* verifyTOTP: the code is one of the secret that is enrolled by now.
CodeRight(c) == c.n = secret

\* mutant of FirstTime: an enrolled passkey is not looked at.
NoApp == secret = 0

FirstTime == secret = 0 /\ cred = NoPasskey

\* The second factor, after the passphrase: a code if an app is enrolled, or the
\* enrollment if nothing is.  The enrollment also follows a code, without a passkey.
Factors(h) ==
    LET c     == call[h]
        coded == c.n # 0 /\ secret # 0
        ok    == IF coded THEN CodeRight(c) ELSE FirstTime
    IN
    /\ At(h, "factors")
    /\ call' = [call EXCEPT
           ![h].phase = IF ok THEN "clear" ELSE "fail",
           ![h].then  = IF coded /\ cred # NoPasskey THEN "grant" ELSE "enroll"]
    /\ IF coded /\ ok THEN Shown(h, "code") ELSE UNCHANGED proved
    /\ UNCHANGED <<lost, pages, kv, owner, grants, doubled, crossed, streak>>

\* storeCredential, or the put of the secret.
Store(h) ==
    LET p == call[h].page IN
    /\ At(h, "store")
    /\ IF PageOf(h).kind = "totp"
       THEN secret' = p /\ UNCHANGED cred
       ELSE cred' = [id |-> p, counter |-> 0] /\ UNCHANGED secret
    /\ Goes(h, "clear")
    /\ UNCHANGED <<lost, pages, open, fails, locks, owner, grants, history>>

\* A request of this address is on its way to count a failure or to lock it.
Failing(a) == \E h \in Handlers : call[h].phase \in {"put", "lock"} /\ AddressOf(h) = a

\* A success, or the passing of time, ends a row of failures, unless a failure is
\* just being counted.
Restarted(a) == IF Failing(a) THEN streak ELSE [streak EXCEPT ![a] = 0]

\* mutant of Cleared: only the lock is removed.
LockOnlyCleared(a) == fails

Cleared(a) == [fails EXCEPT ![a] = 0]

\* clearAuthFailures: both deletes.
Clear(h) ==
    LET a == AddressOf(h) IN
    /\ At(h, "clear")
    /\ fails' = Cleared(a) /\ locks' = locks \ {a}
    /\ streak' = Restarted(a)
    /\ Goes(h, call[h].then)
    /\ UNCHANGED <<lost, pages, open, secret, cred, owner, grants, proved, doubled, crossed>>

\* completeOAuth, and the redirect.
Grant(h) ==
    /\ At(h, "grant")
    /\ grants' = [grants EXCEPT ![RequestOf(h)] = @ + 1]
    /\ Answer(h)
    /\ UNCHANGED <<lost, pages, kv, owner, history>>

\* startPasskeyEnrollment, or the TOTP page in its place.
ShowNext(h, phase, page) ==
    /\ At(h, phase)
    /\ Show(Drawn + 1, page)
    /\ Answer(h)
    /\ UNCHANGED <<lost, secret, cred, fails, locks, owner, grants, history>>

ShowEnrollment(h) ==
    ShowNext(h, "enroll", Page("enroll", RequestOf(h)))

ShowSecret(h) ==
    ShowNext(h, "instead", Page("totp", RequestOf(h)))

\* registerAuthFailure: the count is read ...
ReadFailures(h) ==
    /\ At(h, "fail")
    /\ call' = [call EXCEPT ![h].phase = "put", ![h].n = fails[AddressOf(h)] + 1]
    /\ UNCHANGED <<lost, pages, kv, owner, grants, history>>

\* ... and put ...
CountFailure(h) ==
    LET a == AddressOf(h) IN
    /\ At(h, "put")
    /\ fails' = [fails EXCEPT ![a] = call[h].n]
    /\ streak' = [streak EXCEPT ![a] = @ + 1]
    /\ IF call[h].n >= MaxFailed THEN Goes(h, "lock") ELSE Answer(h)
    /\ UNCHANGED <<lost, pages, open, secret, cred, locks, owner, grants, proved, doubled, crossed>>

\* ... and the address locked out if it is the last of a row.
Lock(h) ==
    LET a == AddressOf(h) IN
    /\ At(h, "lock")
    /\ locks' = locks \cup {a} /\ fails' = [fails EXCEPT ![a] = 0]
    /\ Answer(h)
    /\ UNCHANGED <<lost, pages, open, secret, cred, owner, grants, history>>

\* KV fails, or the isolate is lost.
Lost(h) ==
    /\ call[h] # Idle
    /\ lost < MaxLost
    /\ lost' = lost + 1
    /\ call' = [call EXCEPT ![h] = Idle]
    /\ UNCHANGED <<pages, kv, owner, grants, history>>

-----------------------------------------------------------------------------
(* Records expire *)

ExpirePage(p) ==
    /\ open' = open \ {p}
    /\ UNCHANGED <<lost, pages, secret, cred, fails, locks, owner, call, grants, history>>

ExpireFailures(a) ==
    /\ fails[a] # 0
    /\ fails' = [fails EXCEPT ![a] = 0]
    /\ streak' = Restarted(a)
    /\ UNCHANGED <<lost, pages, open, secret, cred, locks, owner, call, grants,
                   proved, doubled, crossed>>

ExpireLock(a) ==
    /\ a \in locks
    /\ locks' = locks \ {a}
    /\ UNCHANGED <<lost, pages, open, secret, cred, fails, owner, call, grants, history>>

Next ==
    \/ \E fallback \in BOOLEAN : Authorize(fallback)
    \/ \E a \in Addresses : ExpireFailures(a) \/ ExpireLock(a)
    \/ \E p \in open : ExpirePage(p)
    \/ \E h \in Handlers :
          \/ \E a \in Addresses, p \in DOMAIN pages :
                \/ SubmitPasskey(h, a, p) \/ SkipPasskey(h, a, p) \/ EnrollAppInstead(h, a, p)
                \/ \E right \in BOOLEAN :
                       \/ SubmitEnrollment(h, a, p, right) \/ SubmitCode(h, a, p, right)
                       \/ \E code \in scanned \cup {0, WrongCode} :
                              SubmitForm(h, a, p, right, code)
          \/ Take(h) \/ Drop(h)
          \/ Verify(h) \/ ReadCounter(h) \/ WriteCounter(h)
          \/ Factors(h) \/ Store(h) \/ Clear(h)
          \/ Grant(h) \/ ShowEnrollment(h) \/ ShowSecret(h)
          \/ ReadFailures(h) \/ CountFailure(h) \/ Lock(h)
          \/ Lost(h)

Spec == Init /\ [][Next]_vars

-----------------------------------------------------------------------------
(* Properties *)

\* What was shown for request r suffices: its passkey, its passphrase and a code, or
\* its passphrase alone if that was given when no factor was enrolled.
Approved(r) ==
    \/ "passkey" \in proved[r]
    \/ {"passphrase", "code"} \subseteq proved[r]
    \/ "first passphrase" \in proved[r]

\* auth.ts, POST /approve: the passphrase without a second factor leads on only for
\* the first time.  Once a factor is enrolled a request is granted only after a
\* passkey, or the passphrase and a code, on whichever of its pages, in any order and
\* of any age, and whoever enrolls meanwhile.  A first enrollment can be skipped.
GrantedOnlyApproved == \A r \in DOMAIN grants : grants[r] > 0 => Approved(r)

\* Granted again, and not because two submissions of a page overlapped.
Repeated(r) == grants[r] > 1 /\ r \notin doubled

\* README, Auth: the nonces are for one use.  But for such submissions a request is
\* granted once, through all the pages that one leads to.
GrantedOnce == \A r \in DOMAIN grants : ~Repeated(r)

\* The owner can use what is enrolled: the secret is in the app, and the passkey on
\* a device, its counter behind the device's.  The exception is a passkey that was
\* enrolled between the two reads of a sign-in with another one.
EnrolledIsHeld ==
    /\ secret # 0 => secret \in scanned
    /\ cred # NoPasskey =>
          /\ cred.id \in DOMAIN passkeys
          /\ cred.counter <= passkeys[cred.id] \/ cred.id \in crossed

\* README, Auth: "lockout after 5 failed attempts".  No address is locked out before
\* that many, and none from before its last success counts; that it is locked out then
\* is not said, as failures that overlap may count as one.
LockedAfterFailures ==
    [][\A a \in locks' \ locks : streak[a] >= MaxFailed]_vars
=============================================================================
