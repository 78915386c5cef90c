------------------------------ MODULE AccessKeys ------------------------------
(***************************************************************************)
(* The owner's gate before the sign-in pages (src/cf-access.ts, and        *)
(* enforceOwnerEmail of src/auth.ts): a request carries a token, signed    *)
(* with a key of Cloudflare Access.  The keys are fetched, and kept in KV  *)
(* for TTL; after a failed fetch nothing is fetched for NegTTL.  There is  *)
(* no fetch on account of a key that is not among those kept.              *)
(*                                                                         *)
(* Time is counted in ticks, and a call takes MaxCall of them at most.     *)
(* Every await of KV or of Access is a step.  The provider changes its     *)
(* keys now and then: a version of them brings a new key, which signs from *)
(* then on, and keeps the last ones.                                       *)
(***************************************************************************)
EXTENDS Integers, Sequences, FiniteSets

CONSTANTS
    Handlers,    \* the requests that may be running at once
    TTL,         \* JWKS_TTL_SECONDS
    NegTTL,      \* JWKS_NEG_TTL_SECONDS
    Skew,        \* CLOCK_SKEW_SECONDS
    Overlap,     \* the provider: for how many versions a key is kept
    MaxCall,     \* the longest that a call takes
    MaxTime,     \* bound on the clock
    MaxVersions, \* bound on the changes of the keys
    MaxFails     \* bound on the failures of KV and the losses of an isolate

ASSUME TimesAssumption ==
    /\ TTL \in Nat \ {0} /\ NegTTL \in 1..TTL
    /\ Skew \in Nat /\ MaxCall \in Nat /\ Overlap \in Nat

VARIABLES
    now,
    since,       \* the provider: version of the keys -> the time it came
    pos,         \* KV: the version that is kept, and until when
    neg,         \* KV: until when nothing is fetched
    call,        \* handler -> the request it is serving
    fails,       \* how many failures there have been
    asked,       \* history: the times of the requests to the provider
    down         \* history: the time the provider last failed

vars == <<now, since, pos, neg, call, fails, asked, down>>

Version == Len(since)

\* The keys of version v, each with the number of the version that brought it.
Keys(v) == {k \in 1..v : k >= v - Overlap}

\* A token: whether it parses and names the right algorithm, its key, its expiry,
\* and whether issuer, audience and email are the expected ones.
Token(formed, kid, exp, claims) ==
    [formed |-> formed, kid |-> kid, exp |-> exp, claims |-> claims]

NoToken == Token(FALSE, 0, 0, FALSE)

\* A call: what it does next or how it ended, its token, when it began and ended,
\* and the version it has.
Idle == [phase |-> "idle", token |-> NoToken, began |-> 0, ended |-> 0, keys |-> 0]

Ends == {"forbidden", "unavailable", "broken", "admitted"}

\* How old the keys of a decision can be: kept by a call that took its time after
\* it had fetched them, and used by another that took its time after it read them.
Oldest == TTL + 2 * MaxCall

Running(h) == call[h].phase \notin Ends \cup {"idle"}

-----------------------------------------------------------------------------
LongAgo == -(Oldest + 1)

\* Nothing is kept, and neither the keys nor a failure of the provider are recent.
Init ==
    /\ now = 0 /\ since = <<LongAgo>>
    /\ pos = [version |-> 0, until |-> 0] /\ neg = 0
    /\ call = [h \in Handlers |-> Idle]
    /\ fails = 0 /\ asked = <<>> /\ down = LongAgo

Goes(h, phase) == call' = [call EXCEPT ![h].phase = phase]

Ending(h, how) == call' = [call EXCEPT ![h].phase = how, ![h].ended = now]

\* A request arrives.  What is not a token of the right form is refused at once.
Arrive(h, token) ==
    /\ ~Running(h)
    /\ call' = [call EXCEPT ![h] =
           IF token.formed
           THEN [Idle EXCEPT !.phase = "kept", !.token = token, !.began = now]
           ELSE [Idle EXCEPT !.phase = "forbidden", !.token = token,
                             !.began = now, !.ended = now]]
    /\ UNCHANGED <<now, since, pos, neg, fails, asked, down>>

\* mutant of Kept: the keys are kept without an expirationTtl.
KeptForever == pos.version # 0

\* KV holds the keys until they expire ...
Kept == now < pos.until

\* mutant of Failed: the negative entry is kept as long as the keys.
FailedAsLong == now < neg + (TTL - NegTTL)

\* ... and the note that a fetch failed.
Failed == now < neg

\* fetchJwkSet: the kept keys are read ...
ReadKept(h) ==
    /\ call[h].phase = "kept"
    /\ call' = [call EXCEPT ![h].phase = IF Kept THEN "decide" ELSE "failed",
                            ![h].keys  = IF Kept THEN pos.version ELSE 0]
    /\ UNCHANGED <<now, since, pos, neg, fails, asked, down>>

\* ... then whether a fetch has failed ...
ReadFailed(h) ==
    /\ call[h].phase = "failed"
    /\ IF Failed THEN Ending(h, "unavailable") ELSE Goes(h, "fetch")
    /\ UNCHANGED <<now, since, pos, neg, fails, asked, down>>

\* ... the provider is asked, which answers with its keys ...
Fetch(h) ==
    /\ call[h].phase = "fetch"
    /\ call' = [call EXCEPT ![h].phase = "keep", ![h].keys = Version]
    /\ asked' = Append(asked, now)
    /\ UNCHANGED <<now, since, pos, neg, fails, down>>

\* ... or not, or with something else ...
FetchFails(h) ==
    /\ call[h].phase = "fetch"
    /\ Goes(h, "note")
    /\ asked' = Append(asked, now)
    /\ down' = now
    /\ UNCHANGED <<now, since, pos, neg, fails>>

\* ... and the outcome is put.
Keep(h) ==
    /\ call[h].phase = "keep"
    /\ pos' = [version |-> call[h].keys, until |-> now + TTL]
    /\ Goes(h, "decide")
    /\ UNCHANGED <<now, since, neg, fails, asked, down>>

\* mutant of Noted: the failure is not put.
NotNoted == neg

Noted == now + NegTTL

Note(h) ==
    /\ call[h].phase = "note"
    /\ neg' = Noted
    /\ Ending(h, "unavailable")
    /\ UNCHANGED <<now, since, pos, fails, asked, down>>

\* The key, the signature, the expiry and the claims; and the owner's email.
Accepts(token, v) ==
    /\ token.kid \in Keys(v)
    /\ token.exp >= now - Skew
    /\ token.claims

Decide(h) ==
    LET c == call[h] IN
    /\ c.phase = "decide"
    /\ Ending(h, IF Accepts(c.token, c.keys) THEN "admitted" ELSE "forbidden")
    /\ UNCHANGED <<now, since, pos, neg, fails, asked, down>>

\* KV fails: the call ends as if the fetch had failed, even if the keys were fetched.
KVFails(h) ==
    /\ call[h].phase \in {"kept", "failed", "keep", "note"}
    /\ fails < MaxFails
    /\ fails' = fails + 1
    /\ Ending(h, "broken")
    /\ UNCHANGED <<now, since, pos, neg, asked, down>>

\* The isolate is lost.
Lost(h) ==
    /\ Running(h)
    /\ fails < MaxFails
    /\ fails' = fails + 1
    /\ call' = [call EXCEPT ![h] = Idle]
    /\ UNCHANGED <<now, since, pos, neg, asked, down>>

-----------------------------------------------------------------------------
(* The provider and the clock *)

\* The keys change.
Rotate ==
    /\ Version < MaxVersions
    /\ since' = Append(since, now)
    /\ UNCHANGED <<now, pos, neg, call, fails, asked, down>>

Tick ==
    /\ now < MaxTime
    /\ \A h \in Handlers : Running(h) => now - call[h].began < MaxCall
    /\ now' = now + 1
    /\ UNCHANGED <<since, pos, neg, call, fails, asked, down>>

\* The tokens are signed with the keys there have been, and expire soon or have expired.
Next ==
    \/ \E h \in Handlers :
          \/ Arrive(h, NoToken)
          \/ \E kid \in 1..Version, exp \in {now, now - Skew - 1}, claims \in BOOLEAN :
                 Arrive(h, Token(TRUE, kid, exp, claims))
          \/ ReadKept(h) \/ ReadFailed(h) \/ Fetch(h) \/ FetchFails(h)
          \/ Keep(h) \/ Note(h) \/ Decide(h)
          \/ KVFails(h) \/ Lost(h)
    \/ Rotate
    \/ Tick

Spec == Init /\ [][Next]_vars

-----------------------------------------------------------------------------
(* Properties *)

\* Version v was the provider's at time t or later.
CurrentAfter(v, t) == v \in DOMAIN since /\ (v = Version \/ since[v + 1] >= t)

AdmittedRecent(c) ==
    c.phase = "admitted" =>
        \E v \in DOMAIN since : c.token.kid \in Keys(v) /\ CurrentAfter(v, c.ended - Oldest)

\* A token is admitted only with a key that the provider had within the time the
\* keys are kept, and two calls: withdrawn keys do not outlast that.
AdmittedKeysRecent == \A h \in Handlers : AdmittedRecent(call[h])

Good(c) ==
    c.token.claims /\ c.token.exp >= c.ended - Skew /\ c.token.kid \in Keys(Version)

GoodAdmitted(c) ==
    Good(c) =>
        /\ c.phase = "forbidden" => since[c.token.kid] >= c.ended - Oldest
        /\ c.phase = "unavailable" => down >= c.ended - (NegTTL + MaxCall)

\* A good token is refused only for a key that is that new, or after the provider
\* failed within the time a failure is kept and one call, or if KV failed the call.
OwnerAdmitted == \A h \in Handlers : GoodAdmitted(call[h])

\* cf-access.ts: "avoid hammering".  Within NegTTL the provider is not asked more
\* often than there are handlers, and once more for each failure of KV.
AskedSeldom ==
    \A i, j \in DOMAIN asked :
        j - i >= Cardinality(Handlers) + fails => asked[j] - asked[i] >= NegTTL
=============================================================================
