--------------------------- MODULE AccessKeysProofs ---------------------------
(***************************************************************************)
(* How old the keys are with which a token is admitted or refused, for any *)
(* number of requests, any times, and any changes of the keys.             *)
(*                                                                         *)
(* The invariant dates what is kept: the keys in KV were the provider's at *)
(* most a call before they were put, and those of a running call at most   *)
(* the TTL and a call before it began.  As every call ends in MaxCall,     *)
(* each decision is made with keys that are at most Oldest old.            *)
(*                                                                         *)
(* At the end, how often the provider is asked: each time it was asked is  *)
(* paired with a request that still holds the outcome, or lost it.         *)
(***************************************************************************)
EXTENDS AccessKeys, FiniteSetTheorems, TLAPS

TokenSet == [formed : BOOLEAN, kid : Nat, exp : Int, claims : BOOLEAN]

Steps == {"kept", "failed", "fetch", "keep", "note", "decide"}

CallSet == [phase : Steps \cup Ends \cup {"idle"}, token : TokenSet,
            began : Int, ended : Int, keys : Nat]

Shape ==
    /\ now \in Nat /\ neg \in Int /\ down \in Int
    /\ since \in Seq(Int) /\ since # <<>>
    /\ pos \in [version : Nat, until : Int]
    /\ call \in [Handlers -> CallSet]

\* The versions came one after the other.
Ordered ==
    /\ \A v \in DOMAIN since : since[v] <= now
    /\ \A v, w \in DOMAIN since : v <= w => since[v] <= since[w]

\* The keys in KV were current a call before they were put, or later.
KeptRecent ==
    /\ pos.until <= now + TTL
    /\ Kept => CurrentAfter(pos.version, pos.until - TTL - MaxCall)

\* The provider failed a call before that was noted, or later.
NotedRecent ==
    /\ down <= now
    /\ Failed => down >= neg - NegTTL - MaxCall

InTime(c) ==
    /\ c.phase \in Steps => c.began <= now /\ now <= c.began + MaxCall
    /\ c.ended <= now
    /\ c.token.kid <= Len(since)

\* What a call has, and how it ended.
KnowsRecent(c) ==
    /\ c.phase = "keep" => CurrentAfter(c.keys, c.began)
    /\ c.phase = "decide" => CurrentAfter(c.keys, c.began - TTL - MaxCall)
    /\ c.phase = "note" => down >= c.began

EndedRecent(c) ==
    /\ AdmittedRecent(c)
    /\ c.phase = "unavailable" => down >= c.ended - (NegTTL + MaxCall)
    /\ c.phase = "forbidden" /\ c.token.claims /\ c.token.exp >= c.ended - Skew =>
          \E v \in DOMAIN since : /\ c.token.kid \notin Keys(v)
                                  /\ CurrentAfter(v, c.ended - Oldest)

CallInv(c) == InTime(c) /\ KnowsRecent(c) /\ EndedRecent(c)

KeysInv ==
    /\ Shape /\ Ordered /\ KeptRecent /\ NotedRecent
    /\ \A h \in Handlers : CallInv(call[h])

-----------------------------------------------------------------------------
LEMMA TimesAreIntegers ==
  /\ TTL \in Int /\ NegTTL \in Int /\ Skew \in Int /\ MaxCall \in Int /\ Overlap \in Int
  /\ TTL > 0 /\ NegTTL > 0 /\ NegTTL <= TTL /\ Skew >= 0 /\ MaxCall >= 0 /\ Overlap >= 0
  BY TimesAssumption

LEMMA InitKeysInv == Init => KeysInv
<1> SUFFICES ASSUME Init PROVE KeysInv
  OBVIOUS
<1> USE TimesAreIntegers
<1>1. LongAgo \in Int /\ LongAgo < 0
  BY DEF LongAgo, Oldest
<1>2. Shape
  BY <1>1 DEF Init, Shape, Idle, NoToken, Token, CallSet, TokenSet
<1>3. Ordered /\ KeptRecent /\ NotedRecent
  BY <1>1 DEF Init, Ordered, KeptRecent, NotedRecent, Kept, Failed
<1>4. ASSUME NEW h \in Handlers PROVE CallInv(call[h])
  BY <1>1 DEF Init, Idle, NoToken, Token, Steps, CallInv, InTime, KnowsRecent, EndedRecent,
              AdmittedRecent
<1> QED
  BY <1>2, <1>3, <1>4 DEF KeysInv

-----------------------------------------------------------------------------
(* What is known of the past stays true *)

\* A version that was current at a time up to now stays so when the keys change.
LEMMA CurrentStays ==
  ASSUME Shape, since' = since \/ since' = Append(since, now),
         NEW v, NEW t \in Int, t <= now, CurrentAfter(v, t)
  PROVE  CurrentAfter(v, t)'
<1>1. CASE since' = since
  BY <1>1 DEF CurrentAfter, Version
<1>2. CASE since' = Append(since, now)
  <2>1. /\ Len(since') = Len(since) + 1 /\ DOMAIN since' = 1..(Len(since) + 1)
        /\ \A i \in 1..Len(since) : since'[i] = since[i]
        /\ since'[Len(since) + 1] = now
        /\ DOMAIN since = 1..Len(since) /\ Len(since) \in Nat
    BY <1>2 DEF Shape
  <2> QED
    BY <2>1 DEF CurrentAfter, Version
<1> QED
  BY <1>1, <1>2

\* An earlier time asks for less.
LEMMA CurrentEarlier ==
  ASSUME Shape, NEW v, NEW t \in Int, NEW u \in Int, u <= t, CurrentAfter(v, t)
  PROVE  CurrentAfter(v, u)
<1>1. v \in DOMAIN since /\ v # Version => since[v + 1] \in Int
  BY DEF Shape, Version
<1> QED
  BY <1>1 DEF CurrentAfter

\* What a call has and how it ended stays as it is when the keys or the clock go
\* on, or the provider fails again, as long as the call stays in time.
LEMMA CallStays ==
  ASSUME KeysInv, Shape', NEW c \in CallSet, CallInv(c),
         since' = since \/ since' = Append(since, now),
         now' >= now, down' >= down,
         c.phase \in Steps => now' <= c.began + MaxCall
  PROVE  CallInv(c)'
<1> USE TimesAreIntegers
<1>0. /\ now \in Int /\ now' \in Int /\ down \in Int /\ down' \in Int
      /\ c.began \in Int /\ c.ended \in Int /\ c.token.kid \in Nat
      /\ since \in Seq(Int)
  BY DEF KeysInv, Shape, CallSet, TokenSet
<1>a. /\ Len(since) \in Nat /\ Len(since') \in Nat /\ Len(since') >= Len(since)
       /\ DOMAIN since \subseteq DOMAIN since'
  <2>1. CASE since' = since
    BY <2>1, <1>0
  <2>2. CASE since' = Append(since, now)
    BY <2>2, <1>0
  <2> QED
    BY <2>1, <2>2
<1>1. c.ended <= now /\ (c.phase \in Steps => c.began <= now)
  BY DEF CallInv, InTime
<1>2. InTime(c)'
  BY <1>0, <1>a, <1>1 DEF CallInv, InTime
<1>3. KnowsRecent(c)'
  <2>1. ASSUME c.phase = "keep" PROVE CurrentAfter(c.keys, c.began)'
    <3>1. CurrentAfter(c.keys, c.began) /\ c.began <= now
      BY <2>1, <1>1 DEF CallInv, KnowsRecent, Steps
    <3> QED
      BY <3>1, <1>0, CurrentStays DEF KeysInv
  <2>2. ASSUME c.phase = "decide" PROVE CurrentAfter(c.keys, c.began - TTL - MaxCall)'
    <3>1. /\ CurrentAfter(c.keys, c.began - TTL - MaxCall)
          /\ c.began - TTL - MaxCall <= now /\ c.began - TTL - MaxCall \in Int
      BY <2>2, <1>0, <1>1 DEF CallInv, KnowsRecent, Steps
    <3> QED
      BY <3>1, CurrentStays DEF KeysInv
  <2>3. c.phase = "note" => down' >= c.began
    BY <1>0 DEF CallInv, KnowsRecent
  <2> QED
    BY <2>1, <2>2, <2>3 DEF KnowsRecent
<1>4. c.ended - Oldest \in Int /\ c.ended - Oldest <= now
  BY <1>0, <1>1 DEF Oldest
<1>5. ASSUME NEW v \in DOMAIN since, CurrentAfter(v, c.ended - Oldest)
      PROVE  v \in DOMAIN since' /\ CurrentAfter(v, c.ended - Oldest)'
  BY <1>a, <1>4, <1>5, CurrentStays DEF KeysInv
<1>6. AdmittedRecent(c)'
  BY <1>5 DEF CallInv, EndedRecent, AdmittedRecent, Keys, Oldest
<1>7. c.phase = "unavailable" => down' >= c.ended - (NegTTL + MaxCall)
  BY <1>0 DEF CallInv, EndedRecent
<1>8. c.phase = "forbidden" /\ c.token.claims /\ c.token.exp >= c.ended - Skew =>
         \E v \in DOMAIN since' : c.token.kid \notin Keys(v) /\ CurrentAfter(v, c.ended - Oldest)'
  BY <1>5 DEF CallInv, EndedRecent
<1> QED
  BY <1>2, <1>3, <1>6, <1>7, <1>8 DEF CallInv, EndedRecent, Keys, Oldest

\* One call goes on to d, while nothing in KV gets worse.
LEMMA CallMoves ==
  ASSUME KeysInv, NEW h \in Handlers, NEW d \in CallSet, CallInv(d)',
         call' = [call EXCEPT ![h] = d], UNCHANGED <<now, since>>,
         down' = down \/ down' = now,
         neg' \in Int, pos' \in [version : Nat, until : Int],
         KeptRecent', NotedRecent'
  PROVE  KeysInv'
<1>1. Shape'
  BY DEF KeysInv, Shape, NotedRecent
<1>2. Ordered'
  BY DEF KeysInv, Ordered
<1>3. ASSUME NEW g \in Handlers PROVE CallInv(call[g])'
  <2>1. CASE g = h
    <3>1. call'[g] = d
      BY <2>1 DEF KeysInv, Shape
    <3> QED
      BY <3>1 DEF CallInv, InTime, KnowsRecent, EndedRecent, AdmittedRecent
  <2>2. CASE g # h
    <3>1. PICK c : c = call[g]
      OBVIOUS
    <3>2. c \in CallSet /\ call'[g] = c /\ CallInv(c)
      BY <2>2, <3>1 DEF KeysInv, Shape
    <3>3. /\ now \in Int /\ now' = now /\ down \in Int /\ down <= now
          /\ c.phase \in Steps => now <= c.began + MaxCall
      BY <3>2 DEF KeysInv, Shape, NotedRecent, CallInv, InTime
    <3>4. now' >= now /\ down' >= down
      BY <3>3
    <3>5. CallInv(c)'
      BY <3>2, <3>3, <3>4, <1>1, CallStays
    <3> QED
      BY <3>2, <3>5 DEF CallInv, InTime, KnowsRecent, EndedRecent, AdmittedRecent
  <2> QED
    BY <2>1, <2>2
<1> QED
  BY <1>1, <1>2, <1>3 DEF KeysInv

\* ... and KV and the provider as they were.
LEMMA OnlyCallMoves ==
  ASSUME KeysInv, NEW h \in Handlers, NEW d \in CallSet, CallInv(d),
         call' = [call EXCEPT ![h] = d], UNCHANGED <<now, since, pos, neg, down>>
  PROVE  KeysInv'
<1>1. KeptRecent' /\ NotedRecent'
  BY DEF KeysInv, KeptRecent, NotedRecent, Kept, Failed, CurrentAfter, Version
<1>2. CallInv(d)'
  BY DEF CallInv, InTime, KnowsRecent, EndedRecent, AdmittedRecent, CurrentAfter, Version
<1>3. neg' \in Int /\ pos' \in [version : Nat, until : Int]
  BY DEF KeysInv, Shape
<1> QED
  BY <1>1, <1>2, <1>3, CallMoves

-----------------------------------------------------------------------------
(* The steps of a call *)

\* What every step needs to know of the call it continues.
LEMMA CallFacts ==
  ASSUME KeysInv, NEW h \in Handlers
  PROVE  /\ call[h] \in CallSet /\ CallInv(call[h])
         /\ now \in Nat /\ since \in Seq(Int) /\ Len(since) \in Nat \ {0}
  BY DEF KeysInv, Shape

LEMMA ArriveStep ==
  ASSUME KeysInv, NEW h \in Handlers, NEW token \in TokenSet, token.kid <= Len(since),
         ~token.formed => ~token.claims, Arrive(h, token)
  PROVE  KeysInv'
<1> USE TimesAreIntegers, CallFacts
<1>1. PICK d : d = IF token.formed
                   THEN [Idle EXCEPT !.phase = "kept", !.token = token, !.began = now]
                   ELSE [Idle EXCEPT !.phase = "forbidden", !.token = token,
                                     !.began = now, !.ended = now]
  OBVIOUS
<1>2. \/ d = [phase |-> "kept", token |-> token, began |-> now, ended |-> 0, keys |-> 0]
      \/ /\ ~token.formed
         /\ d = [phase |-> "forbidden", token |-> token, began |-> now,
                 ended |-> now, keys |-> 0]
  BY <1>1 DEF Idle
<1>3. d \in CallSet
  BY <1>2 DEF CallSet, Steps, Ends
<1>4. CallInv(d)
  BY <1>2 DEF CallInv, InTime, KnowsRecent, EndedRecent, AdmittedRecent, Steps
<1>5. call' = [call EXCEPT ![h] = d] /\ UNCHANGED <<now, since, pos, neg, down>>
  BY <1>1 DEF Arrive
<1> QED
  BY <1>3, <1>4, <1>5, OnlyCallMoves

LEMMA ReadKeptStep ==
  ASSUME KeysInv, NEW h \in Handlers, ReadKept(h)
  PROVE  KeysInv'
<1> USE TimesAreIntegers, CallFacts
<1>1. PICK d : d = [call[h] EXCEPT !.phase = IF Kept THEN "decide" ELSE "failed",
                                   !.keys  = IF Kept THEN pos.version ELSE 0]
  OBVIOUS
<1>2. /\ d.phase = (IF Kept THEN "decide" ELSE "failed")
      /\ d.keys = (IF Kept THEN pos.version ELSE 0)
      /\ d.token = call[h].token /\ d.began = call[h].began /\ d.ended = call[h].ended
      /\ d \in CallSet /\ call[h].phase = "kept"
  BY <1>1 DEF CallSet, Steps, KeysInv, Shape, ReadKept
<1>3. InTime(d)
  BY <1>2 DEF CallInv, InTime, Steps
<1>4. KnowsRecent(d)
  <2>1. ASSUME Kept PROVE CurrentAfter(d.keys, d.began - TTL - MaxCall)
    <3>1. /\ CurrentAfter(pos.version, pos.until - TTL - MaxCall)
          /\ pos.until \in Int /\ now < pos.until
      BY <2>1 DEF KeysInv, KeptRecent, Shape, Kept
    <3>2. d.began \in Int /\ d.began <= now
      BY <1>2, <1>3 DEF InTime, Steps, CallSet
    <3>3. /\ d.began - TTL - MaxCall \in Int /\ pos.until - TTL - MaxCall \in Int
          /\ d.began - TTL - MaxCall <= pos.until - TTL - MaxCall
      BY <3>1, <3>2
    <3> QED
      BY <1>2, <2>1, <3>1, <3>3, CurrentEarlier DEF KeysInv
  <2> QED
    BY <1>2, <2>1 DEF KnowsRecent
<1>5. EndedRecent(d)
  BY <1>2 DEF EndedRecent, AdmittedRecent
<1>6. call' = [call EXCEPT ![h] = d] /\ UNCHANGED <<now, since, pos, neg, down>>
  BY <1>1 DEF ReadKept
<1> QED
  BY <1>2, <1>3, <1>4, <1>5, <1>6, OnlyCallMoves DEF CallInv

LEMMA ReadFailedStep ==
  ASSUME KeysInv, NEW h \in Handlers, ReadFailed(h)
  PROVE  KeysInv'
<1> USE TimesAreIntegers, CallFacts
<1>1. CASE Failed
  <2>1. PICK d : d = [call[h] EXCEPT !.phase = "unavailable", !.ended = now]
    OBVIOUS
  <2>2. /\ d.phase = "unavailable" /\ d.ended = now
        /\ d.token = call[h].token /\ d \in CallSet
    <3>1. call[h] \in CallSet /\ now \in Int
      OBVIOUS
    <3> QED
      BY <2>1, <3>1 DEF CallSet, Ends
  <2>3. down >= now - (NegTTL + MaxCall)
    BY <1>1 DEF KeysInv, Shape, NotedRecent, Failed
  <2>4. CallInv(d)
    BY <2>2, <2>3 DEF CallInv, InTime, KnowsRecent, EndedRecent, AdmittedRecent, Steps
  <2>5. call' = [call EXCEPT ![h] = d] /\ UNCHANGED <<now, since, pos, neg, down>>
    BY <1>1, <2>1 DEF ReadFailed, Ending
  <2> QED
    BY <2>2, <2>4, <2>5, OnlyCallMoves
<1>2. CASE ~Failed
  <2>1. PICK d : d = [call[h] EXCEPT !.phase = "fetch"]
    OBVIOUS
  <2>2. /\ d.phase = "fetch" /\ call[h].phase = "failed" /\ d.began = call[h].began
        /\ d.ended = call[h].ended /\ d.token = call[h].token /\ d \in CallSet
    BY <2>1 DEF CallSet, Steps, ReadFailed
  <2>3. CallInv(d)
    BY <2>2 DEF CallInv, InTime, KnowsRecent, EndedRecent, AdmittedRecent, Steps
  <2>4. call' = [call EXCEPT ![h] = d] /\ UNCHANGED <<now, since, pos, neg, down>>
    BY <1>2, <2>1 DEF ReadFailed, Goes
  <2> QED
    BY <2>2, <2>3, <2>4, OnlyCallMoves
<1> QED
  BY <1>1, <1>2

\* The keys the provider answers with are its own at the time, and the call began
\* before that.
LEMMA FetchStep ==
  ASSUME KeysInv, NEW h \in Handlers, Fetch(h)
  PROVE  KeysInv'
<1> USE TimesAreIntegers, CallFacts
<1>1. PICK d : d = [call[h] EXCEPT !.phase = "keep", !.keys = Version]
  OBVIOUS
<1>2. /\ d.phase = "keep" /\ call[h].phase = "fetch" /\ d.began = call[h].began
      /\ d.ended = call[h].ended /\ d.token = call[h].token /\ d.keys = Len(since)
      /\ d \in CallSet
  BY <1>1 DEF CallSet, Steps, Fetch, Version
<1>3. CurrentAfter(d.keys, d.began)
  BY <1>2 DEF CurrentAfter, Version
<1>4. CallInv(d)
  BY <1>2, <1>3 DEF CallInv, InTime, KnowsRecent, EndedRecent, AdmittedRecent, Steps
<1>5. call' = [call EXCEPT ![h] = d] /\ UNCHANGED <<now, since, pos, neg, down>>
  BY <1>1 DEF Fetch
<1> QED
  BY <1>2, <1>4, <1>5, OnlyCallMoves

LEMMA FetchFailsStep ==
  ASSUME KeysInv, NEW h \in Handlers, FetchFails(h)
  PROVE  KeysInv'
<1> USE TimesAreIntegers, CallFacts
<1>1. PICK d : d = [call[h] EXCEPT !.phase = "note"]
  OBVIOUS
<1>2. /\ d.phase = "note" /\ call[h].phase = "fetch" /\ d.began = call[h].began
      /\ d.ended = call[h].ended /\ d.token = call[h].token /\ d \in CallSet
  BY <1>1 DEF CallSet, Steps, FetchFails
<1>3. /\ UNCHANGED <<now, since, pos, neg>> /\ down' = now
      /\ call' = [call EXCEPT ![h] = d]
  BY <1>1 DEF FetchFails, Goes
<1>4. CallInv(d)'
  BY <1>2, <1>3 DEF CallInv, InTime, KnowsRecent, EndedRecent, AdmittedRecent, Steps
<1>5. KeptRecent' /\ NotedRecent' /\ neg' \in Int /\ pos' \in [version : Nat, until : Int]
  BY <1>3 DEF KeysInv, Shape, KeptRecent, NotedRecent, Kept, Failed, CurrentAfter, Version
<1> QED
  BY <1>2, <1>3, <1>4, <1>5, CallMoves

\* What is put was fetched in this call.
LEMMA KeepStep ==
  ASSUME KeysInv, NEW h \in Handlers, Keep(h)
  PROVE  KeysInv'
<1> USE TimesAreIntegers, CallFacts
<1>1. PICK d : d = [call[h] EXCEPT !.phase = "decide"]
  OBVIOUS
<1>2. /\ d.phase = "decide" /\ call[h].phase = "keep" /\ d.began = call[h].began
      /\ d.ended = call[h].ended /\ d.token = call[h].token /\ d.keys = call[h].keys
      /\ d \in CallSet /\ d.began \in Int /\ d.keys \in Nat
  BY <1>1 DEF CallSet, Steps, Keep
<1>3. /\ UNCHANGED <<now, since, neg, down>> /\ call' = [call EXCEPT ![h] = d]
      /\ pos' = [version |-> d.keys, until |-> now + TTL]
  BY <1>1, <1>2 DEF Keep, Goes
<1>4. CurrentAfter(d.keys, d.began) /\ d.began <= now /\ now <= d.began + MaxCall
  BY <1>2 DEF CallInv, KnowsRecent, InTime, Steps
<1>5. /\ CurrentAfter(d.keys, d.began - TTL - MaxCall)
      /\ CurrentAfter(d.keys, now + TTL - TTL - MaxCall)
  <2>1. /\ d.began - TTL - MaxCall \in Int /\ d.began - TTL - MaxCall <= d.began
        /\ now + TTL - TTL - MaxCall \in Int /\ now + TTL - TTL - MaxCall <= d.began
    <3>1. now \in Int /\ d.began \in Int /\ now <= d.began + MaxCall
      BY <1>2, <1>4
    <3>2. \A b, n \in Int : n <= b + MaxCall =>
             /\ b - TTL - MaxCall \in Int /\ b - TTL - MaxCall <= b
             /\ n + TTL - TTL - MaxCall \in Int /\ n + TTL - TTL - MaxCall <= b
      BY TimesAreIntegers
    <3> QED
      BY <3>1, <3>2
  <2> QED
    BY <1>2, <1>4, <2>1, CurrentEarlier DEF KeysInv
<1>6. CallInv(d)'
  <2>1. InTime(d)'
    BY <1>2, <1>3 DEF CallInv, InTime, Steps
  <2>2. KnowsRecent(d)'
    BY <1>2, <1>3, <1>5 DEF KnowsRecent, CurrentAfter, Version
  <2>3. EndedRecent(d)'
    BY <1>2 DEF EndedRecent, AdmittedRecent
  <2> QED
    BY <2>1, <2>2, <2>3 DEF CallInv
<1>7. KeptRecent'
  <2>1. pos'.version = d.keys /\ pos'.until = now + TTL
    BY <1>3
  <2>3. CurrentAfter(pos.version, pos.until - TTL - MaxCall)'
    BY <2>1, <1>3, <1>5 DEF CurrentAfter, Version
  <2> QED
    BY <1>3, <2>1, <2>3 DEF KeptRecent, Kept
<1>8. NotedRecent' /\ neg' \in Int /\ pos' \in [version : Nat, until : Int]
  BY <1>2, <1>3 DEF KeysInv, Shape, NotedRecent, Failed
<1> QED
  BY <1>2, <1>3, <1>6, <1>7, <1>8, CallMoves

LEMMA NoteStep ==
  ASSUME KeysInv, NEW h \in Handlers, Note(h)
  PROVE  KeysInv'
<1> USE TimesAreIntegers, CallFacts
<1>1. PICK d : d = [call[h] EXCEPT !.phase = "unavailable", !.ended = now]
  OBVIOUS
<1>2. /\ d.phase = "unavailable" /\ d.ended = now /\ d.token = call[h].token
      /\ d \in CallSet /\ call[h].phase = "note" /\ call[h].began \in Int /\ down \in Int
  <2>1. call[h] \in CallSet /\ now \in Int
    OBVIOUS
  <2> QED
    BY <1>1, <2>1 DEF CallSet, Ends, Note, KeysInv, Shape
<1>3. /\ UNCHANGED <<now, since, pos, down>> /\ neg' = now + NegTTL
      /\ call' = [call EXCEPT ![h] = d]
  BY <1>1 DEF Note, Noted, Ending
<1>4. down >= call[h].began /\ now <= call[h].began + MaxCall
  BY <1>2 DEF CallInv, KnowsRecent, InTime, Steps
<1>5. CallInv(d)'
  BY <1>2, <1>3, <1>4
     DEF CallInv, InTime, KnowsRecent, EndedRecent, AdmittedRecent, Steps
<1>6. KeptRecent'
  BY <1>3 DEF KeysInv, KeptRecent, Kept, CurrentAfter, Version
<1>7. NotedRecent' /\ neg' \in Int /\ pos' \in [version : Nat, until : Int]
  BY <1>2, <1>3, <1>4 DEF KeysInv, Shape, NotedRecent
<1> QED
  BY <1>2, <1>3, <1>5, <1>6, <1>7, CallMoves

\* A decision: the call began at most MaxCall ago, so its keys are as recent as that.
LEMMA DecideStep ==
  ASSUME KeysInv, NEW h \in Handlers, Decide(h)
  PROVE  KeysInv'
<1> USE TimesAreIntegers, CallFacts
<1>1. PICK d : d = [call[h] EXCEPT
          !.phase = IF Accepts(call[h].token, call[h].keys) THEN "admitted" ELSE "forbidden",
          !.ended = now]
  OBVIOUS
<1>2. /\ d.phase = (IF Accepts(call[h].token, call[h].keys) THEN "admitted" ELSE "forbidden")
      /\ d.ended = now /\ d.token = call[h].token /\ d.keys = call[h].keys
      /\ d \in CallSet /\ call[h].phase = "decide" /\ call[h].began \in Int
  <2>1. call[h] \in CallSet /\ now \in Int
    OBVIOUS
  <2> QED
    BY <1>1, <2>1 DEF CallSet, Ends, Decide
<1>3. CurrentAfter(d.keys, d.ended - Oldest)
  <2>1. /\ CurrentAfter(d.keys, call[h].began - TTL - MaxCall)
        /\ now <= call[h].began + MaxCall
    BY <1>2 DEF CallInv, KnowsRecent, InTime, Steps
  <2>2. /\ call[h].began - TTL - MaxCall \in Int /\ d.ended - Oldest \in Int
        /\ d.ended - Oldest <= call[h].began - TTL - MaxCall
    <3>1. now \in Int /\ d.ended = now /\ call[h].began \in Int
      BY <1>2
    <3>2. \A b, n \in Int : n <= b + MaxCall =>
             /\ b - TTL - MaxCall \in Int /\ n - Oldest \in Int
             /\ n - Oldest <= b - TTL - MaxCall
      BY TimesAreIntegers DEF Oldest
    <3> QED
      BY <2>1, <3>1, <3>2
  <2> QED
    BY <2>1, <2>2, CurrentEarlier DEF KeysInv
<1>4. InTime(d) /\ KnowsRecent(d)
  BY <1>2 DEF CallInv, InTime, KnowsRecent, Steps
<1>5. d.keys \in DOMAIN since
  BY <1>3 DEF CurrentAfter
<1>6. AdmittedRecent(d)
  BY <1>2, <1>3, <1>5 DEF AdmittedRecent, Accepts
<1>7. d.phase = "forbidden" /\ d.token.claims /\ d.token.exp >= d.ended - Skew =>
         \E v \in DOMAIN since : d.token.kid \notin Keys(v) /\ CurrentAfter(v, d.ended - Oldest)
  BY <1>2, <1>3, <1>5 DEF Accepts
<1>8. EndedRecent(d)
  BY <1>2, <1>6, <1>7 DEF EndedRecent
<1>9. call' = [call EXCEPT ![h] = d] /\ UNCHANGED <<now, since, pos, neg, down>>
  BY <1>1 DEF Decide, Ending
<1> QED
  BY <1>2, <1>4, <1>8, <1>9, OnlyCallMoves DEF CallInv

LEMMA FailureStep ==
  ASSUME KeysInv, NEW h \in Handlers, KVFails(h) \/ Lost(h)
  PROVE  KeysInv'
<1> USE TimesAreIntegers, CallFacts
<1>1. CASE KVFails(h)
  <2>1. PICK d : d = [call[h] EXCEPT !.phase = "broken", !.ended = now]
    OBVIOUS
  <2>2. d.phase = "broken" /\ d.ended = now /\ d.token = call[h].token /\ d \in CallSet
    <3>1. call[h] \in CallSet /\ now \in Int
      OBVIOUS
    <3> QED
      BY <2>1, <3>1 DEF CallSet, Ends
  <2>3. CallInv(d)
    BY <2>2 DEF CallInv, InTime, KnowsRecent, EndedRecent, AdmittedRecent, Steps
  <2>4. call' = [call EXCEPT ![h] = d] /\ UNCHANGED <<now, since, pos, neg, down>>
    BY <1>1, <2>1 DEF KVFails, Ending
  <2> QED
    BY <2>2, <2>3, <2>4, OnlyCallMoves
<1>2. CASE Lost(h)
  <2>1. PICK d : d = Idle
    OBVIOUS
  <2>2. /\ d.phase = "idle" /\ d.ended = 0 /\ d.token.kid = 0 /\ d \in CallSet
    BY <2>1 DEF Idle, NoToken, Token, CallSet, TokenSet
  <2>3. CallInv(d)
    BY <2>2 DEF CallInv, InTime, KnowsRecent, EndedRecent, AdmittedRecent, Steps
  <2>4. call' = [call EXCEPT ![h] = d] /\ UNCHANGED <<now, since, pos, neg, down>>
    BY <1>2, <2>1 DEF Lost
  <2> QED
    BY <2>2, <2>3, <2>4, OnlyCallMoves
<1> QED
  BY <1>1, <1>2

-----------------------------------------------------------------------------
(* The provider and the clock go on *)

\* All calls stay.
LEMMA AllCallsStay ==
  ASSUME KeysInv, Shape', UNCHANGED <<call, down>>,
         since' = since \/ since' = Append(since, now), now' >= now,
         \A h \in Handlers : call[h].phase \in Steps => now' <= call[h].began + MaxCall
  PROVE  \A h \in Handlers : CallInv(call[h])'
<1> SUFFICES ASSUME NEW h \in Handlers PROVE CallInv(call[h])'
  OBVIOUS
<1>1. PICK c : c = call[h]
  OBVIOUS
<1>2. c \in CallSet /\ call'[h] = c /\ CallInv(c)
  BY <1>1 DEF KeysInv, Shape
<1>3. down' >= down
  BY DEF KeysInv, Shape
<1>4. CallInv(c)'
  BY <1>1, <1>2, <1>3, CallStays
<1> QED
  BY <1>2, <1>4 DEF CallInv, InTime, KnowsRecent, EndedRecent, AdmittedRecent

LEMMA RotateStep ==
  ASSUME KeysInv, Rotate
  PROVE  KeysInv'
<1> USE TimesAreIntegers
<1>1. /\ now \in Nat /\ since \in Seq(Int) /\ since' = Append(since, now)
      /\ UNCHANGED <<now, pos, neg, call, down>>
  BY DEF KeysInv, Shape, Rotate
<1>2. /\ Len(since') = Len(since) + 1 /\ DOMAIN since' = 1..(Len(since) + 1)
      /\ \A i \in 1..Len(since) : since'[i] = since[i]
      /\ since'[Len(since) + 1] = now
      /\ DOMAIN since = 1..Len(since) /\ Len(since) \in Nat
      /\ since' \in Seq(Int) /\ since' # <<>>
  BY <1>1
<1>3. Shape'
  BY <1>1, <1>2 DEF KeysInv, Shape
<1>4. Ordered'
  BY <1>1, <1>2 DEF KeysInv, Ordered
<1>5. KeptRecent'
  <2>1. pos.until \in Int /\ pos.until <= now + TTL
    BY DEF KeysInv, Shape, KeptRecent
  <2>2. pos.until - TTL - MaxCall \in Int /\ pos.until - TTL - MaxCall <= now
    BY <2>1, <1>1
  <2>3. Kept => CurrentAfter(pos.version, pos.until - TTL - MaxCall)
    BY DEF KeysInv, KeptRecent
  <2>4. PICK v, t : v = pos.version /\ t = pos.until - TTL - MaxCall
    OBVIOUS
  <2>5. Kept => CurrentAfter(v, t)'
    BY <2>2, <2>3, <2>4, <1>1, CurrentStays DEF KeysInv
  <2> QED
    BY <1>1, <2>1, <2>4, <2>5 DEF KeptRecent, Kept, CurrentAfter
<1>6. NotedRecent'
  BY <1>1 DEF KeysInv, NotedRecent, Failed
<1>7. \A h \in Handlers : call[h].phase \in Steps => now' <= call[h].began + MaxCall
  BY <1>1 DEF KeysInv, CallInv, InTime
<1>8. \A h \in Handlers : CallInv(call[h])'
  BY <1>1, <1>3, <1>7, AllCallsStay
<1> QED
  BY <1>3, <1>4, <1>5, <1>6, <1>8 DEF KeysInv

LEMMA TickStep ==
  ASSUME KeysInv, Tick
  PROVE  KeysInv'
<1> USE TimesAreIntegers
<1>1. /\ now \in Nat /\ now' = now + 1 /\ UNCHANGED <<since, pos, neg, call, down>>
      /\ neg \in Int /\ down \in Int /\ since \in Seq(Int) /\ pos.until \in Int
  BY DEF KeysInv, Shape, Tick
<1>2. Shape'
  BY <1>1 DEF KeysInv, Shape
<1>3. Ordered'
  <2>1. \A v \in DOMAIN since : since[v] \in Int
    BY <1>1
  <2> QED
    BY <1>1, <2>1 DEF KeysInv, Ordered
<1>4. KeptRecent'
  BY <1>1 DEF KeysInv, KeptRecent, Kept, CurrentAfter, Version
<1>5. NotedRecent'
  BY <1>1 DEF KeysInv, NotedRecent, Failed
<1>6. ASSUME NEW h \in Handlers, call[h].phase \in Steps
      PROVE  now' <= call[h].began + MaxCall
  <2>1. call[h].began \in Int
    BY DEF KeysInv, Shape, CallSet
  <2>2. now - call[h].began < MaxCall
    BY <1>6 DEF Tick, Running, Steps, Ends
  <2> QED
    BY <1>1, <2>1, <2>2
<1>7. \A h \in Handlers : CallInv(call[h])'
  BY <1>1, <1>2, <1>6, AllCallsStay
<1> QED
  BY <1>2, <1>3, <1>4, <1>5, <1>7 DEF KeysInv

LEMMA StutterStep ==
  ASSUME KeysInv, UNCHANGED vars
  PROVE  KeysInv'
  BY DEF KeysInv, vars, Shape, Ordered, KeptRecent, NotedRecent, Kept, Failed, CallInv, InTime,
         KnowsRecent, EndedRecent, AdmittedRecent, CurrentAfter, Version

LEMMA NextKeysInv == KeysInv /\ [Next]_vars => KeysInv'
<1> SUFFICES ASSUME KeysInv, [Next]_vars PROVE KeysInv'
  OBVIOUS
<1>1. ASSUME NEW h \in Handlers, Arrive(h, NoToken) PROVE KeysInv'
  <2>1. NoToken \in TokenSet /\ NoToken.kid <= Len(since) /\ ~NoToken.claims
    BY DEF NoToken, Token, TokenSet, KeysInv, Shape
  <2> QED
    BY <1>1, <2>1, ArriveStep
<1>2. ASSUME NEW h \in Handlers, NEW kid \in 1..Version, NEW exp \in {now, now - Skew - 1},
             NEW claims \in BOOLEAN, Arrive(h, Token(TRUE, kid, exp, claims))
      PROVE  KeysInv'
  <2>1. PICK token : token = Token(TRUE, kid, exp, claims)
    OBVIOUS
  <2>2. exp \in Int /\ kid \in Nat /\ kid <= Len(since)
    BY TimesAreIntegers DEF KeysInv, Shape, Version
  <2>3. token \in TokenSet /\ token.kid <= Len(since) /\ token.formed
    BY <2>1, <2>2 DEF Token, TokenSet
  <2> QED
    BY <1>2, <2>1, <2>3, ArriveStep
<1>3. ASSUME NEW h \in Handlers, ReadKept(h) PROVE KeysInv'
  BY <1>3, ReadKeptStep
<1>4. ASSUME NEW h \in Handlers, ReadFailed(h) PROVE KeysInv'
  BY <1>4, ReadFailedStep
<1>5. ASSUME NEW h \in Handlers, Fetch(h) PROVE KeysInv'
  BY <1>5, FetchStep
<1>6. ASSUME NEW h \in Handlers, FetchFails(h) PROVE KeysInv'
  BY <1>6, FetchFailsStep
<1>7. ASSUME NEW h \in Handlers, Keep(h) PROVE KeysInv'
  BY <1>7, KeepStep
<1>8. ASSUME NEW h \in Handlers, Note(h) PROVE KeysInv'
  BY <1>8, NoteStep
<1>9. ASSUME NEW h \in Handlers, Decide(h) PROVE KeysInv'
  BY <1>9, DecideStep
<1>10. ASSUME NEW h \in Handlers, KVFails(h) \/ Lost(h) PROVE KeysInv'
  BY <1>10, FailureStep
<1>11. CASE Rotate
  BY <1>11, RotateStep
<1>12. CASE Tick
  BY <1>12, TickStep
<1>13. CASE UNCHANGED vars
  BY <1>13, StutterStep
<1> QED
  BY <1>1, <1>2, <1>3, <1>4, <1>5, <1>6, <1>7, <1>8, <1>9, <1>10, <1>11, <1>12, <1>13
     DEF Next

\* At all times the keys in KV and those in use are dated as the invariant says.
THEOREM KeysAreDated == Spec => []KeysInv
  BY InitKeysInv, NextKeysInv, PTL DEF Spec

-----------------------------------------------------------------------------
\* fetchJwkSet keeps keys for TTL: a token is admitted only with a key the provider
\* had at most that long and two calls ago.
THEOREM AccessAdmittedKeysRecent == Spec => []AdmittedKeysRecent
<1>1. KeysInv => AdmittedKeysRecent
  BY DEF KeysInv, CallInv, EndedRecent, AdmittedKeysRecent
<1> QED
  BY <1>1, KeysAreDated, PTL

\* A refused call whose token is good had keys that were replaced by a version that
\* is no newer than its key.
LEMMA RefusedForNewKey ==
  ASSUME KeysInv, NEW c \in CallSet, CallInv(c), Good(c), c.phase = "forbidden"
  PROVE  since[c.token.kid] >= c.ended - Oldest
<1>1. /\ since \in Seq(Int) /\ DOMAIN since = 1..Len(since) /\ Len(since) \in Nat
      /\ c.token.kid \in Nat /\ c.ended \in Int /\ c.ended - Oldest \in Int
      /\ \A v \in DOMAIN since : since[v] \in Int
  BY TimesAreIntegers DEF KeysInv, Shape, CallSet, TokenSet, Oldest
<1>2. PICK v \in DOMAIN since : c.token.kid \notin Keys(v) /\ CurrentAfter(v, c.ended - Oldest)
  BY DEF CallInv, EndedRecent, Good
<1>3. c.token.kid \in 1..Len(since) /\ c.token.kid >= Len(since) - Overlap
  BY DEF Good, Keys, Version
<1>4. v + 1 <= c.token.kid
  <2>1. /\ Overlap \in Int /\ Len(since) \in Int
        /\ v \in Int /\ v >= 1 /\ v <= Len(since)
        /\ c.token.kid \in Int /\ c.token.kid >= 1
    BY <1>1, <1>2, <1>3, TimesAssumption
  <2>2. c.token.kid >= v - Overlap
    BY <2>1, <1>3
  <2>3. ~(c.token.kid \in 1..v)
    BY <1>2, <2>2 DEF Keys
  <2> QED
    BY <2>1, <2>3
<1>5. since[v + 1] >= c.ended - Oldest /\ v + 1 \in DOMAIN since
  BY <1>1, <1>2, <1>3, <1>4 DEF CurrentAfter, Version
<1>6. since[v + 1] <= since[c.token.kid]
  BY <1>1, <1>3, <1>4, <1>5 DEF KeysInv, Ordered
<1> QED
  BY <1>1, <1>3, <1>5, <1>6

\* A good token is refused only for a key that the kept ones can be too old to hold,
\* or for a failure that is still noted.
THEOREM AccessOwnerAdmitted == Spec => []OwnerAdmitted
<1>1. ASSUME KeysInv, NEW h \in Handlers PROVE GoodAdmitted(call[h])
  <2>1. call[h] \in CallSet /\ CallInv(call[h])
    BY <1>1 DEF KeysInv, Shape
  <2>2. call[h].phase = "unavailable" => down >= call[h].ended - (NegTTL + MaxCall)
    BY <2>1 DEF CallInv, EndedRecent
  <2> QED
    BY <1>1, <2>1, <2>2, RefusedForNewKey DEF GoodAdmitted
<1>2. KeysInv => OwnerAdmitted
  BY <1>1 DEF OwnerAdmitted
<1> QED
  BY <1>2, KeysAreDated, PTL

-----------------------------------------------------------------------------
(* How often the provider is asked *)

\* The requests that have asked and have not put the outcome.
InFlight == {h \in Handlers : call[h].phase \in {"keep", "note"}}

\* An outcome of asking at time t or later is put: the keys, or a failure.
KeysStand(t) == pos.until >= t + NegTTL
NoteStands(t) == neg >= t + NegTTL

\* The requests that can still ask then: they have read KV before.
Ahead(t) == {h \in Handlers : \/ call[h].phase = "fetch"
                              \/ call[h].phase = "failed" /\ ~NoteStands(t)}

\* The i-th time the provider was asked is not long ago.  Until an outcome is put since,
\* whoever asked still holds one or has failed; from then on only those ahead can ask.
Counted(i) ==
    LET since_i == Len(asked) - i + 1 IN
    now - asked[i] < NegTTL =>
        IF KeysStand(asked[i]) \/ NoteStands(asked[i])
        THEN since_i + Cardinality(Ahead(asked[i])) <= Cardinality(Handlers) + fails
        ELSE since_i <= Cardinality(InFlight) + fails

AskInv ==
    /\ asked \in Seq(Int) /\ fails \in Nat
    /\ \A i \in DOMAIN asked : asked[i] <= now /\ Counted(i)
    /\ AskedSeldom

\* Some of the handlers, fewer of them, and others.
LEMMA SomeHandlers ==
  ASSUME IsFiniteSet(Handlers), NEW S \in SUBSET Handlers
  PROVE  /\ IsFiniteSet(S) /\ Cardinality(S) \in Nat /\ Cardinality(S) <= Cardinality(Handlers)
         /\ Cardinality(Handlers) \in Nat
         /\ \A T \in SUBSET S : Cardinality(T) \in Nat /\ Cardinality(T) <= Cardinality(S)
         /\ \A T \in SUBSET (Handlers \ S) :
               Cardinality(T) \in Nat /\ Cardinality(T) + Cardinality(S) <= Cardinality(Handlers)
<1>1. IsFiniteSet(S) /\ Cardinality(S) <= Cardinality(Handlers)
  BY FS_Subset
<1>2. Cardinality(S) \in Nat /\ Cardinality(Handlers) \in Nat
  BY <1>1, FS_CardinalityType
<1>3. ASSUME NEW T \in SUBSET S PROVE Cardinality(T) \in Nat /\ Cardinality(T) <= Cardinality(S)
  BY <1>1, FS_Subset, FS_CardinalityType
<1>4. ASSUME NEW T \in SUBSET (Handlers \ S)
      PROVE  Cardinality(T) \in Nat /\ Cardinality(T) + Cardinality(S) <= Cardinality(Handlers)
  <2>1. IsFiniteSet(T) BY FS_Subset
  <2>2. Cardinality(T) \in Nat BY <2>1, FS_CardinalityType
  <2>3. Cardinality(T \cup S) = Cardinality(T) + Cardinality(S) - Cardinality(T \cap S)
    BY <1>1, <2>1, FS_Union
  <2>4. T \cap S = {} /\ T \cup S \in SUBSET Handlers OBVIOUS
  <2>5. Cardinality(T \cap S) = 0 BY <2>4, FS_EmptySet
  <2>6. Cardinality(T \cup S) <= Cardinality(Handlers) BY <2>4, FS_Subset
  <2> QED BY <1>2, <2>2, <2>3, <2>5, <2>6
<1> QED BY <1>1, <1>2, <1>3, <1>4

\* One handler more, or less.
LEMMA OneHandlerMore ==
  ASSUME IsFiniteSet(Handlers), NEW S \in SUBSET Handlers, NEW h \in Handlers
  PROVE  /\ h \notin S => Cardinality(S \cup {h}) = Cardinality(S) + 1
         /\ h \in S => Cardinality(S \ {h}) = Cardinality(S) - 1
<1>1. IsFiniteSet(S) BY FS_Subset
<1> QED BY <1>1, FS_AddElement, FS_RemoveElement

\* Nobody is asked and nothing is put.
LEMMA CountStays ==
  ASSUME KeysInv, KeysInv', AskInv, IsFiniteSet(Handlers),
         UNCHANGED <<pos, neg, asked>>, now' >= now, fails' \in Nat,
         \/ fails' = fails /\ InFlight' = InFlight
         \/ fails' = fails + 1 /\ \E h \in Handlers : InFlight \ {h} \subseteq InFlight',
         \A t \in Int : (KeysStand(t) \/ NoteStands(t)) =>
                          (now - t >= NegTTL \/ Ahead(t)' \subseteq Ahead(t))
  PROVE  AskInv'
<1> USE TimesAreIntegers
<1>1. asked \in Seq(Int) /\ fails \in Nat /\ now \in Nat /\ now' \in Nat
  BY DEF AskInv, KeysInv, Shape
<1>2. Cardinality(InFlight) + fails <= Cardinality(InFlight') + fails'
      /\ Cardinality(InFlight) \in Nat /\ Cardinality(InFlight') \in Nat
  <2>1. InFlight \in SUBSET Handlers /\ InFlight' \in SUBSET Handlers BY DEF InFlight
  <2>2. Cardinality(InFlight) \in Nat /\ Cardinality(InFlight') \in Nat
    BY <2>1, SomeHandlers
  <2>3. CASE fails' = fails /\ InFlight' = InFlight
    BY <2>2, <2>3, <1>1
  <2>4. ASSUME fails' = fails + 1, NEW h \in Handlers, InFlight \ {h} \subseteq InFlight'
        PROVE  Cardinality(InFlight) + fails <= Cardinality(InFlight') + fails'
    <3>1. Cardinality(InFlight \ {h}) >= Cardinality(InFlight) - 1
      <4>1. CASE h \in InFlight BY <2>1, <2>2, <4>1, OneHandlerMore
      <4>2. CASE h \notin InFlight
        <5>1. InFlight \ {h} = InFlight BY <4>2
        <5>2. PICK n \in Nat : n = Cardinality(InFlight) BY <2>2
        <5>3. n >= n - 1 BY <5>2
        <5> QED BY <5>1, <5>2, <5>3
      <4> QED BY <4>1, <4>2
    <3>2. Cardinality(InFlight \ {h}) <= Cardinality(InFlight')
          /\ Cardinality(InFlight \ {h}) \in Nat
      BY <2>1, <2>4, SomeHandlers
    <3> QED BY <1>1, <2>2, <2>4, <3>1, <3>2
  <2> QED BY <2>2, <2>3, <2>4
<1>3. ASSUME NEW i \in DOMAIN asked PROVE asked'[i] <= now' /\ Counted(i)'
  <2>1. asked[i] \in Int /\ i \in Int /\ Len(asked) \in Nat /\ asked'[i] = asked[i]
        /\ Len(asked') = Len(asked)
    BY <1>1
  <2>2. asked[i] <= now /\ Counted(i) BY DEF AskInv
  <2>3. asked'[i] <= now' BY <1>1, <2>1, <2>2
  <2>4. PICK t : t = asked[i] OBVIOUS
  <2>5. PICK k : k = Len(asked) - i + 1 OBVIOUS
  <2>6. SUFFICES ASSUME now' - t < NegTTL
                 PROVE  IF KeysStand(t)' \/ NoteStands(t)'
                        THEN k + Cardinality(Ahead(t)') <= Cardinality(Handlers) + fails'
                        ELSE k <= Cardinality(InFlight') + fails'
    BY <2>1, <2>3, <2>4, <2>5 DEF Counted, KeysStand, NoteStands, Ahead
  <2>7. now - t < NegTTL BY <1>1, <2>1, <2>4, <2>6
  <2>8. IF KeysStand(t) \/ NoteStands(t)
        THEN k + Cardinality(Ahead(t)) <= Cardinality(Handlers) + fails
        ELSE k <= Cardinality(InFlight) + fails
    BY <2>2, <2>4, <2>5, <2>7 DEF Counted
  <2>9. (KeysStand(t)' <=> KeysStand(t)) /\ (NoteStands(t)' <=> NoteStands(t))
    BY DEF KeysStand, NoteStands
  <2>10. CASE KeysStand(t) \/ NoteStands(t)
    <3>1. Ahead(t)' \subseteq Ahead(t) /\ Ahead(t) \in SUBSET Handlers
      <4>1. t \in Int /\ ~(now - t >= NegTTL) BY <1>1, <2>1, <2>4, <2>7
      <4>2. Ahead(t)' \subseteq Ahead(t) BY <2>10, <4>1
      <4> QED BY <4>2 DEF Ahead
    <3>2. /\ Cardinality(Ahead(t)') <= Cardinality(Ahead(t))
          /\ Cardinality(Ahead(t)') \in Nat /\ Cardinality(Ahead(t)) \in Nat
          /\ Cardinality(Handlers) \in Nat
      BY <3>1, SomeHandlers
    <3>3. fails' >= fails BY <1>1
    <3>4. k \in Int BY <2>1, <2>5
    <3> QED BY <1>1, <2>8, <2>9, <2>10, <3>2, <3>3, <3>4
  <2>11. CASE ~(KeysStand(t) \/ NoteStands(t))
    <3>1. k \in Int BY <2>1, <2>5
    <3> QED BY <1>1, <1>2, <2>8, <2>9, <2>11, <3>1
  <2> QED BY <2>10, <2>11
<1>4. AskedSeldom'
  <2>1. Cardinality(Handlers) \in Nat BY FS_CardinalityType
  <2>2. ASSUME NEW i \in DOMAIN asked, NEW j \in DOMAIN asked,
               j - i >= Cardinality(Handlers) + fails'
        PROVE  asked[j] - asked[i] >= NegTTL
    <3>1. fails' >= fails /\ i \in Int /\ j \in Int BY <1>1
    <3>2. j - i >= Cardinality(Handlers) + fails BY <1>1, <2>1, <2>2, <3>1
    <3> QED BY <3>2 DEF AskInv, AskedSeldom
  <2> QED BY <2>2 DEF AskedSeldom
<1> QED BY <1>1, <1>3, <1>4 DEF AskInv

\* An outcome is put.
LEMMA CountPut ==
  ASSUME KeysInv, KeysInv', AskInv, IsFiniteSet(Handlers), NEW h \in Handlers,
         Keep(h) \/ Note(h)
  PROVE  AskInv'
<1> USE TimesAreIntegers
<1>1. asked \in Seq(Int) /\ fails \in Nat /\ now \in Nat /\ neg \in Int /\ pos.until \in Int
  BY DEF AskInv, KeysInv, Shape
<1>2. UNCHANGED <<now, asked, fails>> BY DEF Keep, Note
<1>3. /\ call[h].phase \in {"keep", "note"} /\ call'[h].phase \notin {"failed", "fetch"}
      /\ \A g \in Handlers : g # h => call'[g] = call[g]
  <2>1. DOMAIN call = Handlers /\ "phase" \in DOMAIN call[h]
    BY DEF KeysInv, Shape, CallSet
  <2>2. CASE Keep(h) BY <2>1, <2>2 DEF Keep, Goes
  <2>3. CASE Note(h) BY <2>1, <2>3 DEF Note, Ending
  <2> QED BY <2>2, <2>3
<1>4. \/ pos'.until = now + TTL /\ neg' = neg
      \/ neg' = now + NegTTL /\ pos' = pos
  BY DEF Keep, Note, Noted
<1>5. ASSUME NEW i \in DOMAIN asked PROVE asked'[i] <= now' /\ Counted(i)'
  <2>1. asked[i] \in Int /\ i \in Int /\ Len(asked) \in Nat
    BY <1>1
  <2>2. asked[i] <= now /\ Counted(i) BY DEF AskInv
  <2>3. PICK t : t = asked[i] OBVIOUS
  <2>4. PICK k : k = Len(asked) - i + 1 OBVIOUS
  <2>5. SUFFICES ASSUME now - t < NegTTL
                 PROVE  (KeysStand(t)' \/ NoteStands(t)')
                        /\ k + Cardinality(Ahead(t)') <= Cardinality(Handlers) + fails
    BY <1>2, <2>2, <2>3, <2>4 DEF Counted, KeysStand, NoteStands, Ahead
  <2>6. IF KeysStand(t) \/ NoteStands(t)
        THEN k + Cardinality(Ahead(t)) <= Cardinality(Handlers) + fails
        ELSE k <= Cardinality(InFlight) + fails
    BY <2>2, <2>3, <2>4, <2>5 DEF Counted
  <2>7. KeysStand(t)' \/ NoteStands(t)'
    BY <1>1, <1>4, <2>1, <2>2, <2>3 DEF KeysStand, NoteStands
  <2>8. NoteStands(t) => NoteStands(t)'
    BY <1>1, <1>4, <2>1, <2>2, <2>3 DEF NoteStands
  <2>9. Ahead(t)' \subseteq Ahead(t) /\ Ahead(t) \in SUBSET Handlers
    BY <1>3, <2>8 DEF Ahead
  <2>10. InFlight \in SUBSET Handlers /\ Ahead(t)' \in SUBSET (Handlers \ InFlight)
    BY <2>9 DEF Ahead, InFlight
  <2>11. /\ Cardinality(Ahead(t)') <= Cardinality(Ahead(t))
         /\ Cardinality(Ahead(t)') \in Nat /\ Cardinality(Ahead(t)) \in Nat
         /\ Cardinality(Handlers) \in Nat /\ Cardinality(InFlight) \in Nat
         /\ Cardinality(Ahead(t)') + Cardinality(InFlight) <= Cardinality(Handlers)
    BY <2>9, <2>10, SomeHandlers
  <2>12. k \in Int BY <2>1, <2>4
  <2> QED BY <1>1, <2>6, <2>7, <2>11, <2>12
<1>6. AskedSeldom' BY <1>2 DEF AskInv, AskedSeldom
<1> QED BY <1>1, <1>2, <1>5, <1>6 DEF AskInv

\* The provider is asked.
LEMMA CountAsked ==
  ASSUME KeysInv, KeysInv', AskInv, IsFiniteSet(Handlers), NEW h \in Handlers,
         Fetch(h) \/ FetchFails(h)
  PROVE  AskInv'
<1> USE TimesAreIntegers
<1>1. asked \in Seq(Int) /\ fails \in Nat /\ now \in Nat /\ neg \in Int /\ pos.until \in Int
  BY DEF AskInv, KeysInv, Shape
<1>2. UNCHANGED <<now, fails, pos, neg>> /\ asked' = Append(asked, now)
  BY DEF Fetch, FetchFails
<1>3. /\ call[h].phase = "fetch" /\ call'[h].phase \in {"keep", "note"}
      /\ \A g \in Handlers : g # h => call'[g] = call[g]
  <2>1. DOMAIN call = Handlers /\ "phase" \in DOMAIN call[h]
    BY DEF KeysInv, Shape, CallSet
  <2>2. CASE Fetch(h) BY <2>1, <2>2 DEF Fetch
  <2>3. CASE FetchFails(h) BY <2>1, <2>3 DEF FetchFails, Goes
  <2> QED BY <2>2, <2>3
<1>4. /\ Len(asked) \in Nat /\ DOMAIN asked = 1..Len(asked)
      /\ Len(asked') = Len(asked) + 1 /\ DOMAIN asked' = 1..(Len(asked) + 1)
      /\ \A i \in 1..Len(asked) : asked'[i] = asked[i]
      /\ asked'[Len(asked) + 1] = now /\ asked' \in Seq(Int)
  BY <1>1, <1>2
<1>5. PICK N : N = Cardinality(Handlers) OBVIOUS
<1>6. /\ InFlight' = InFlight \cup {h} /\ h \notin InFlight /\ InFlight \in SUBSET Handlers
      /\ Cardinality(InFlight) \in Nat /\ Cardinality(InFlight') = Cardinality(InFlight) + 1
      /\ Cardinality(InFlight') <= N /\ N \in Nat
  <2>1. InFlight' = InFlight \cup {h} /\ h \notin InFlight /\ InFlight \in SUBSET Handlers
    BY <1>3 DEF InFlight
  <2>2. InFlight' \in SUBSET Handlers BY <2>1
  <2> QED BY <1>5, <2>1, <2>2, SomeHandlers, OneHandlerMore
<1>7. ASSUME NEW t \in Int
      PROVE  /\ Ahead(t)' = Ahead(t) \ {h} /\ Cardinality(Ahead(t)) \in Nat
             /\ Cardinality(Ahead(t)') = Cardinality(Ahead(t)) - 1
             /\ Cardinality(Ahead(t)) <= N
             /\ (KeysStand(t)' <=> KeysStand(t)) /\ (NoteStands(t)' <=> NoteStands(t))
  <2>1. (KeysStand(t)' <=> KeysStand(t)) /\ (NoteStands(t)' <=> NoteStands(t))
    BY <1>2 DEF KeysStand, NoteStands
  <2>2. Ahead(t)' = Ahead(t) \ {h} /\ h \in Ahead(t) /\ Ahead(t) \in SUBSET Handlers
    BY <1>3, <2>1 DEF Ahead
  <2>3. Cardinality(Ahead(t)') = Cardinality(Ahead(t)) - 1
    BY <2>2, OneHandlerMore
  <2>4. Cardinality(Ahead(t)) \in Nat /\ Cardinality(Ahead(t)) <= N
    BY <1>5, <2>2, SomeHandlers
  <2> QED BY <2>1, <2>2, <2>3, <2>4
<1>8. ASSUME NEW i \in DOMAIN asked'
      PROVE  /\ asked'[i] <= now' /\ Counted(i)'
             /\ now - asked'[i] < NegTTL => Len(asked') - i + 1 <= N + fails
  <2>1. asked'[i] \in Int /\ i \in Int /\ asked'[i] <= now
    BY <1>1, <1>4 DEF AskInv
  <2>2. PICK t : t = asked'[i] OBVIOUS
  <2>3. PICK k : k = Len(asked) - i + 1 OBVIOUS
  <2>4. Len(asked') - i + 1 = k + 1 /\ k \in Int BY <1>4, <2>1, <2>3
  <2>5. SUFFICES ASSUME now - t < NegTTL
                 PROVE  /\ IF KeysStand(t)' \/ NoteStands(t)'
                           THEN k + 1 + Cardinality(Ahead(t)') <= N + fails
                           ELSE k + 1 <= Cardinality(InFlight') + fails
                        /\ k + 1 <= N + fails
    BY <1>2, <1>5, <2>1, <2>2, <2>4 DEF Counted, KeysStand, NoteStands, Ahead
  <2>6. /\ Cardinality(Ahead(t)) \in Nat
        /\ Cardinality(Ahead(t)') = Cardinality(Ahead(t)) - 1
        /\ Cardinality(Ahead(t)) <= N
        /\ (KeysStand(t)' <=> KeysStand(t)) /\ (NoteStands(t)' <=> NoteStands(t))
    BY <1>7, <2>1, <2>2
  <2>7. Cardinality(Ahead(t)') \in Nat
    <3>1. Ahead(t)' \in SUBSET Handlers BY DEF Ahead
    <3> QED BY <3>1, SomeHandlers
  <2>8. CASE i = Len(asked) + 1
    <3>1. k = 0 BY <1>4, <2>3, <2>8
    <3> QED BY <1>1, <1>6, <2>6, <2>7, <3>1
  <2>9. CASE i # Len(asked) + 1
    <3>1. i \in DOMAIN asked /\ t = asked[i] BY <1>4, <2>2, <2>9
    <3>2. Counted(i) BY <3>1 DEF AskInv
    <3>3. IF KeysStand(t) \/ NoteStands(t)
          THEN k + Cardinality(Ahead(t)) <= N + fails
          ELSE k <= Cardinality(InFlight) + fails
      BY <1>5, <2>3, <2>5, <3>1, <3>2 DEF Counted
    <3> QED BY <1>1, <1>6, <2>4, <2>6, <2>7, <3>3
  <2> QED BY <2>8, <2>9
<1>9. AskedSeldom'
  <2>0. SUFFICES ASSUME NEW i \in DOMAIN asked', NEW j \in DOMAIN asked',
                        j - i >= N + fails
                 PROVE  asked'[j] - asked'[i] >= NegTTL
    BY <1>2, <1>5 DEF AskedSeldom
  <2>1. i \in Int /\ j \in Int /\ asked'[i] \in Int /\ asked'[j] \in Int BY <1>4
  <2>2. CASE j = Len(asked) + 1
    <3>1. now - asked'[i] < NegTTL => Len(asked') - i + 1 <= N + fails BY <1>8
    <3>2. asked'[j] = now /\ Len(asked') = j BY <1>4, <2>2
    <3> QED BY <1>1, <1>6, <2>0, <2>1, <3>1, <3>2
  <2>3. CASE j # Len(asked) + 1
    <3>1. j \in DOMAIN asked /\ i \in DOMAIN asked
      <4>1. j \in 1..Len(asked) /\ i >= 1 BY <1>4, <2>1, <2>3
      <4>2. i <= j BY <1>1, <1>6, <2>0, <2>1
      <4> QED BY <1>4, <2>1, <4>1, <4>2
    <3>2. asked[j] - asked[i] >= NegTTL BY <1>5, <2>0, <3>1 DEF AskInv, AskedSeldom
    <3> QED BY <1>4, <3>1, <3>2
  <2> QED BY <2>2, <2>3
<1> QED BY <1>1, <1>2, <1>4, <1>8, <1>9 DEF AskInv

\* Every step keeps the count.
LEMMA NextAskInv ==
  ASSUME IsFiniteSet(Handlers), KeysInv, AskInv, [Next]_vars
  PROVE  AskInv'
<1> USE TimesAreIntegers
<1>1. KeysInv' BY NextKeysInv
<1>2. /\ asked \in Seq(Int) /\ fails \in Nat /\ now \in Nat /\ neg \in Int
      /\ pos.until \in Int /\ DOMAIN call = Handlers
      /\ \A h \in Handlers : DOMAIN call[h] = {"phase", "token", "began", "ended", "keys"}
  BY DEF AskInv, KeysInv, Shape, CallSet
<1>3. ASSUME NEW h \in Handlers, KVFails(h) \/ Lost(h) PROVE AskInv'
  <2>1. /\ UNCHANGED <<pos, neg, asked, now>> /\ fails' = fails + 1
        /\ call'[h].phase \in {"broken", "idle"}
        /\ \A g \in Handlers : g # h => call'[g] = call[g]
    BY <1>2, <1>3 DEF KVFails, Lost, Ending, Idle
  <2>2. InFlight \ {h} \subseteq InFlight' BY <2>1 DEF InFlight
  <2>3. \A t \in Int : Ahead(t)' \subseteq Ahead(t) BY <2>1 DEF Ahead, NoteStands
  <2>4. now' >= now /\ fails' \in Nat BY <1>2, <2>1
  <2> QED BY <1>1, <2>1, <2>2, <2>3, <2>4, CountStays
<1>4. ASSUME NEW h \in Handlers, NEW d,
             UNCHANGED <<pos, neg, asked, now, fails>>, call' = [call EXCEPT ![h] = d],
             d.phase \notin {"keep", "note", "fetch", "failed"},
             call[h].phase \notin {"keep", "note"}
      PROVE  AskInv'
  <2>1. call'[h] = d /\ \A g \in Handlers : g # h => call'[g] = call[g] BY <1>2, <1>4
  <2>2. InFlight' = InFlight BY <1>4, <2>1 DEF InFlight
  <2>3. \A t \in Int : Ahead(t)' \subseteq Ahead(t) BY <1>4, <2>1 DEF Ahead, NoteStands
  <2>4. now' >= now /\ fails' \in Nat BY <1>2, <1>4
  <2> QED BY <1>1, <1>4, <2>2, <2>3, <2>4, CountStays
<1>5. ASSUME NEW h \in Handlers, NEW token, Arrive(h, token) PROVE AskInv'
  <2>1. PICK d : /\ call' = [call EXCEPT ![h] = d] /\ d.phase \in {"kept", "forbidden"}
    <3>1. PICK d : d = IF token.formed
                       THEN [Idle EXCEPT !.phase = "kept", !.token = token, !.began = now]
                       ELSE [Idle EXCEPT !.phase = "forbidden", !.token = token,
                                         !.began = now, !.ended = now]
      OBVIOUS
    <3>2. d.phase \in {"kept", "forbidden"} BY <3>1 DEF Idle
    <3>3. call' = [call EXCEPT ![h] = d] BY <1>5, <3>1 DEF Arrive
    <3> QED BY <3>2, <3>3
  <2> QED BY <1>4, <1>5, <2>1 DEF Arrive, Running, Ends
<1>6. ASSUME NEW h \in Handlers, ReadKept(h) PROVE AskInv'
  <2>1. /\ UNCHANGED <<pos, neg, asked, now, fails>> /\ call[h].phase = "kept"
        /\ call'[h].phase = IF Kept THEN "decide" ELSE "failed"
        /\ \A g \in Handlers : g # h => call'[g] = call[g]
    BY <1>2, <1>6 DEF ReadKept
  <2>2. InFlight' = InFlight BY <2>1 DEF InFlight
  <2>3. ASSUME NEW t \in Int, KeysStand(t) \/ NoteStands(t)
        PROVE  now - t >= NegTTL \/ Ahead(t)' \subseteq Ahead(t)
    <3>1. (NoteStands(t)' <=> NoteStands(t)) BY <2>1 DEF NoteStands
    <3>2. CASE NoteStands(t) BY <2>1, <3>1, <3>2 DEF Ahead
    <3>3. CASE Kept BY <2>1, <3>1, <3>3 DEF Ahead
    <3>4. CASE KeysStand(t) /\ ~Kept
      BY <1>2, <3>4 DEF KeysStand, Kept
    <3> QED BY <2>3, <3>2, <3>3, <3>4
  <2>4. now' >= now /\ fails' \in Nat BY <1>2, <2>1
  <2> QED BY <1>1, <2>1, <2>2, <2>3, <2>4, CountStays
<1>7. ASSUME NEW h \in Handlers, ReadFailed(h) PROVE AskInv'
  <2>1. /\ UNCHANGED <<pos, neg, asked, now, fails>> /\ call[h].phase = "failed"
        /\ call'[h].phase = IF Failed THEN "unavailable" ELSE "fetch"
        /\ \A g \in Handlers : g # h => call'[g] = call[g]
    BY <1>2, <1>7 DEF ReadFailed, Ending, Goes
  <2>2. InFlight' = InFlight BY <2>1 DEF InFlight
  <2>3. ASSUME NEW t \in Int, KeysStand(t) \/ NoteStands(t)
        PROVE  now - t >= NegTTL \/ Ahead(t)' \subseteq Ahead(t)
    <3>1. (NoteStands(t)' <=> NoteStands(t)) BY <2>1 DEF NoteStands
    <3>2. CASE ~NoteStands(t) BY <2>1, <3>1, <3>2 DEF Ahead
    <3>3. CASE Failed BY <2>1, <3>1, <3>3 DEF Ahead
    <3>4. CASE NoteStands(t) /\ ~Failed
      BY <1>2, <3>4 DEF NoteStands, Failed
    <3> QED BY <3>2, <3>3, <3>4
  <2>4. now' >= now /\ fails' \in Nat BY <1>2, <2>1
  <2> QED BY <1>1, <2>1, <2>2, <2>3, <2>4, CountStays
<1>8. ASSUME NEW h \in Handlers, Decide(h) PROVE AskInv'
  <2>1. /\ UNCHANGED <<pos, neg, asked, now, fails>> /\ call[h].phase = "decide"
        /\ call'[h].phase \in {"admitted", "forbidden"}
        /\ \A g \in Handlers : g # h => call'[g] = call[g]
    BY <1>2, <1>8 DEF Decide, Ending
  <2>2. InFlight' = InFlight BY <2>1 DEF InFlight
  <2>3. \A t \in Int : Ahead(t)' \subseteq Ahead(t) BY <2>1 DEF Ahead, NoteStands
  <2>4. now' >= now /\ fails' \in Nat BY <1>2, <2>1
  <2> QED BY <1>1, <2>1, <2>2, <2>3, <2>4, CountStays
<1>9. CASE Rotate \/ Tick \/ UNCHANGED vars
  <2>1. UNCHANGED <<pos, neg, asked, fails, call>> /\ now' >= now
    BY <1>2, <1>9 DEF Rotate, Tick, vars
  <2>2. InFlight' = InFlight BY <2>1 DEF InFlight
  <2>3. \A t \in Int : Ahead(t)' \subseteq Ahead(t) BY <2>1 DEF Ahead, NoteStands
  <2> QED BY <1>1, <1>2, <2>1, <2>2, <2>3, CountStays
<1>10. ASSUME NEW h \in Handlers, Fetch(h) \/ FetchFails(h) \/ Keep(h) \/ Note(h) PROVE AskInv'
  BY <1>1, <1>10, CountAsked, CountPut
<1> QED
  BY <1>3, <1>5, <1>6, <1>7, <1>8, <1>9, <1>10 DEF Next

\* cf-access.ts, "avoid hammering": within the time a failure is noted the provider is
\* asked once by each of the requests that run, and once more for each failure of KV or
\* loss of an isolate, however the requests interleave.
THEOREM ProviderAskedSeldom == ASSUME IsFiniteSet(Handlers) PROVE Spec => []AskedSeldom
<1>1. Init => KeysInv /\ AskInv
  <2> SUFFICES ASSUME Init PROVE AskInv
    BY InitKeysInv
  <2>1. asked = <<>> /\ fails = 0 BY DEF Init
  <2>2. DOMAIN asked = {} /\ asked \in Seq(Int) BY <2>1
  <2> QED BY <2>1, <2>2 DEF AskInv, AskedSeldom
<1>2. (KeysInv /\ AskInv) /\ [Next]_vars => (KeysInv /\ AskInv)'
  BY NextKeysInv, NextAskInv
<1>3. KeysInv /\ AskInv => AskedSeldom
  BY DEF AskInv
<1> QED
  BY <1>1, <1>2, <1>3, PTL DEF Spec
===============================================================================
