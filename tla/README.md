# LORE: TLA+ models, model checking and proofs

LORE is a knowledge server: tool calls arrive over MCP at a session (a Cloudflare
Durable Object), whose handlers read and write one shared D1 database. This
directory holds TLA+ modules of its core, TLC configurations that check them on
small instances, and TLAPS proofs of what holds for every instance. Paths below are
relative to `src/src/`.

## The system

| Part | State | Operations | What makes it correct |
|---|---|---|---|
| Entries and triples (`db/entries.ts`, `db/triples.ts`) | rows with a soft deletion mark; one log of transactions with snapshots | create, update, delete | the log tells of every change, and the rows are what the log says |
| Undo and history (`db/history.ts`) | `reverted_by` in the log | undo of the newest transactions, history | undo is exact, last in first out, and itself logged |
| Entities and merge (`db/entities.ts`) | entities, aliases, links of entries | upsert, create, merge | a name leads to one entity; merges can be taken back in full |
| Conflicts (`domain/conflict.ts`, `mcp/tools.ts`) | conflicts, in the storage of the session that raised them, for an hour | relate, upsert, resolve (replace, retain both, reject) | contradictions are not written unasked; a conflict is resolved once |
| Ingestion (`domain/ingestion.ts`, `index.ts`) | tasks with a count of chunks done; alarms of sessions | ingest small texts at once, large ones in batches | nothing is skipped, nothing is stored twice, everything ends |
| Ids (`lib/ulid.ts`) | the last time and random digits of an isolate | `ulid` | ids sort in the order of generation |
| Search (`db/search.ts`) | vector index | embed, hybrid search, pages | deleted and outdated contents are not found; pages neither skip nor repeat |
| Resources, notifications (`mcp/resources.ts`, `mcp/subscriptions.ts`) | none | lists by page | a walk lists every row that stays |
| Policy (`domain/policy.ts`), formatting, errors, logs (`lib/`) | none | checks and conversions | |
| Sign-in (`auth.ts`, `webauthn.ts`, `totp.ts`, `templates/`) | records of pages, the enrolled passkey and TOTP secret, failures and locks, in KV | show and submit the sign-in and enrollment pages | a request is granted once, after what is asked of it; what is enrolled is what the owner holds |
| Access gate (`cf-access.ts`, `auth.ts`) | the provider's keys and a note of a failed fetch, in KV for a time | check the token of a request | withdrawn keys do not last, the owner gets in, the provider is not asked again and again |
| Set-up and evaluation (`scripts/`, `evals/` of the repository) | none | offline | |

**How the parts interact.** Tool handlers call the `db` and `domain` functions
directly. They share D1 between all sessions, and the storage of a Durable Object
between the handlers of one session. There are no locks and no transactions that
span several awaits: a handler reads, waits, decides, and sends one atomic batch
(`db.batch`). Ingestion is also driven by `init()` of a session and by alarms.
The sign-in pages stand before all this: the OAuth library sends a client's request
there, and hands out a token for it when the pages grant it. They keep all their
state in Workers KV, which has neither transactions nor locks.

**What is hard.** Between the read and the batch of one handler, any handler of any
session may commit. A batch is atomic, but undo of several transactions, resolve,
and ingestion are several batches, and D1 or the isolate may fail between them.
Undo works on what was logged, however it came to be, including on its own
traces. Ids and times are drawn before a batch is sent, so the log is ordered by
them and not by the order of commits. A sign-in is several requests of a browser,
of which any may be repeated, overtaken or never come. The hazards are listed, each at its line, in
`PROJECT.json`.

## Modules

| Module | Models |
|---|---|
| `RecordStore` | create, update, delete of a row of either table and undo of several transactions, with their awaits, the log, and failure at any await |
| `UndoJournal` | the abstract promise of undo: the visible rows and a journal of the changes not taken back; undo takes back the newest |
| `RecordStoreProofs` | what is proved of `RecordStore` |
| `EntityGraph` | entities, aliases, links, triples by name: upsert, merge with its capture of ids, and undo of every kind of transaction |
| `EntityGraphProofs` | what is proved of `EntityGraph` |
| `Conflicts` | relate, upsert, update, delete of triples and the resolution of conflicts, their store in a session, and its expiry |
| `ConflictsProofs` | what is proved of `Conflicts` |
| `Ingestion` | small and batched ingestion, session starts, alarms, exceptions, and losses of an isolate |
| `IngestionProofs` | what is proved of `Ingestion` |
| `Retrieval` | lists by page, hybrid search by page, and the vector index that store and update keep |
| `RetrievalProofs` | what is proved of `Retrieval` |
| `SignIn` | the sign-in and enrollment pages: the requests for their records, the handlers with their awaits of KV, the lockout, expiry and losses |
| `SignInProofs` | what is proved of `SignIn` |
| `AccessKeys` | the token check before them: keys kept for a time, failures noted for a time, and the provider that changes its keys |
| `AccessKeysProofs` | what is proved of `AccessKeys` |
| `Ulid` | ids: a time and random digits that are counted on |
| `UlidProofs` | what is proved of `Ulid`, and of the stamps in `MCSequentialStore` |
| `MC*` | instances of the module of that name for TLC; `MCSequentialStore` is `MCRecordStore` with `Ulid` |

### RecordStore

Entries and triples follow one protocol, so a row is a row of either table: an
image of its columns, and whether `deleted_at` is set. `txns` is the table of
transactions. A handler is `idle`, has `read`, or has `sent` its batch; `call`
keeps what the code keeps in local variables (the row as read, the row to write,
the transactions left to undo). `BeginUpdate` and `BeginDelete` are the SELECT,
`Send` is the drawing of `now` and `ulid()` after it, and the `Commit` actions are the
batches, which write by id whatever became of the row. `BeginUndo` selects the
newest transactions that are neither REVERT nor reverted; each `CommitRevert` is
one turn of the loop. A stamp stands for the pair of `created_at` and id that
orders the log; it is drawn before the batch, so commits may arrive in another
order. `Fail` ends a call at any await.

### EntityGraph

The same log with merges. A name is folded (SQLite's NOCASE) before it is
compared with an alias: `Fold` is a constant. The capture of a merge is four
reads, in the order of the code, and then the batch; the batch works by name and
by `canonical_entity_id`, the undo by the captured ids. `past` is a history
variable: the graph that was there before each transaction. Entries get their link
from a merge only, or by hand as the tests do; `ImportEntry` stands for the latter.

### Conflicts

A key is a subject and predicate. `conflicts` keeps every conflict ever raised,
`stored` those that are in storage, `closed` (history) those rejected or expired.
While a storage operation of a Durable Object is pending, the platform delivers no
other event to it (the input gate). So what a handler does between an answer of D1
and the end of its storage operations is one step: raising a conflict with its
save, and taking one for resolution with its removal. Everything else
interleaves, also within a session. Transactions are drawn and committed in one
step here, so ids are in the order of commits; what depends on drawing an id before its
commit is `RecordStore`'s subject. `since` (history) is the last id there was when a relate or an upsert looked, and `seen` the triple that a
conflict showed: with them the properties say what a call could not have known.

### Ingestion

A text is its sequence of chunks; equal chunks are equal contents. `run` is what a
session's `processIngestion` or a handler's `ingestSync` does: select, mark, then
per chunk check, create, count, and at the end complete. An alarm whose callback
throws is dropped, one whose isolate is lost fires again; so does the agents
library, which is not in this repository. `BatchSize` stands for `BATCH_SIZE`.
A poison chunk is one that `createEntry` refuses because it is too long.

### Retrieval

A text stands for the topic and content of an entry, and a query is given by the
scores it gives to texts (`Lex`, `Sem`, in tenths; the weights are the defaults, 3, 5
and 2). A page of a list is one SELECT below the cursor, with one row more than the
page. A page of a search is four reads: lexical and semantic in either order, then
the terms linked to the best hits, then the entries about them; and then the ranking
is made anew, the cursor is looked up in it and the rows are fetched. `ByScore` gives
each id the place of its rank, the number of ids `Before` it, which is what sorting
does and what can be reasoned about; `WithRow` are the rows fetched. Store and
update embed after their commit (`Embed`), which may fail unseen; deletion and undo
leave the index alone. `Undo` is one step here, and takes back only changes of
entries. A semantic search that fails, or has no binding of the model or the index, is
empty. Left out are the LIKE search that is tried when the full-text search fails, which
finds live rows as that does, and the redistribution of the semantic weight when
a binding is missing, which keeps the ratio of the other two for the defaults. The delay with which the vector service shows a write is not modelled. Four
history variables serve the properties: `behind`, the entries whose vector may have
missed a change; and of a walk `stays`, the rows live since it began, `quiet`, that
nothing has changed since, and `seen`, the rows live at some time since the search
began its page.

### SignIn

A page is known by its number, which stands for its nonce and the secret or passkey
that it enrolls, since all are drawn with it. `pages` is every page shown, and `open`
those whose record is in KV. A request stems from the page that opened its OAuth request,
and the pages after it carry that on (`request`). The `Submit` actions are one per
route, for any page of the kind of record that the route looks up, at any time and from
any address, with a right or wrong passphrase, code or signature: what a page shows is
no guard of the server. In particular `SkipPasskey` and `EnrollAppInstead` answer every
enrollment page, of which the template shows the link to one. The CSRF check compares two
values of one request (`auth.ts:332-335`), which the sender of both makes equal, so it
is passed; the check of the lock is part of `Submit`. From there a handler goes on by one action per await:
take the record, delete it, verify, store or count, clear the failures, grant. The
passkeys on the devices have counters of their own. History variables: `proved`, what
was shown for a request, where the passphrase is a "first passphrase" if nothing is
enrolled when it is given; `streak`, the failures of an address since a success;
`doubled` and `crossed`, the requests and passkeys that met the two races which the
code does not exclude (below). KV is taken to be one place whose writes are seen at
once, as within one location of Cloudflare. `GET /authorize` reads and puts in one step.
A passkey is taken to count its signatures; those that always send zero are not modelled.

### AccessKeys

Time is counted in ticks; `Tick` lets it pass, but no call takes more than `MaxCall`.
The provider's keys come in versions: each brings a new key, which signs from then
on, and keeps the last `Overlap` ones. KV holds the version that was put last, until
`pos.until`, and a note of a failed fetch, until `neg`. A call reads the keys, then the
note, asks the provider, puts the outcome and decides, each a step. `asked` and
`down` are history: when the provider was asked, and when it last failed. Of a token
without a key's name the code tries the first key; such tokens are not among the inputs.

### Ulid

`Made` is one call of `ulid`, on what the isolate has kept from the last. The other
modules draw stamps in order; `Ulid` says when the code's ids are, and
`MCSequentialStore` checks it of the stamps that `RecordStore` draws. Digits as letters
sort as numbers do, so an id is its time and digits.

## What is checked

| Run | Configuration | Shows |
|---|---|---|
| `record_sequential` | one handler, 6 stamps, undo of up to 3; ids of 3 digits to base 2, 3 calls | one call at a time, with failures: undo restores every row exactly (`UndoExact`), in the reverse order of the log (`LastInFirstOut`), and rows and log implement `UndoJournal` (`ImplementsJournal`); the ids that order the log are in the order of their generation (`StampsInOrder`) |
| `record_concurrent` | two handlers, 4 stamps, two columns | what still holds of racing calls: a deleted row can be brought back from the log (`DeletionLogged`), no row mixes two writes (`ImageLogged`), what is marked reverted has its REVERT (`RevertRecorded`), nothing is taken out of the log (`LogOnlyGrows`) |
| `entity_graph` | one handler, four names of three foldings, two entities at the start, 7 stamps, 6 with triples or links | chains of merges and their undos: every entity is found by its name (`NamesResolve`), one name has one entity (`OneEntityPerName`), undo brings names, triples and links back (`UndoRestoresGraph`) |
| `entity_concurrent` | two handlers, two names, failures | no alias without its entity (`AliasTargetsExist`), also for two merges of one pair in opposite directions |
| `conflict_tools` | two handlers of a session, two keys, two objects, 4 ids, all tools | a conflict is acted on at most once, through double resolutions, expiry and failures (`ResolvedOnce`); a replace overwrites what its conflict showed, unless that was written since (`ReplacesWhatWasShown`); relate writes beside a contradicting triple, and upsert beside any other of its key, only if that came after they looked (`RelateNeverContradicts`, `UpsertedOnce`) |
| `ingest_one` | one session, three tasks, three failures, a text that is refused | `NoDuplicates`, `ProgressNeverLost`; the alarms finish what a batch began (`StartedCompletes`); every text before one that is refused is ingested in the end (`AsyncCompletes`) |
| `ingest_race` | two sessions, a handler, two tasks, one failure, a text that is refused | what is counted or completed is stored (`ProgressIsStored`, `CompletedIsStored`), although tasks are taken twice, failed and completed again |
| `retrieval_pages` | two handlers, two entries stored at the start, 4 ids, 2 commits, pages of one | a list walk shows every row that stays, and none twice (`ListedOnce`); the pages of an undisturbed search are its ranking (`PagesAreTheRanking`); a vector is out of date only where it was never written, failed, overlapped another or an update was undone (`IndexCurrent`); a search finds a deleted entry only by the vector it left, or if it was deleted meanwhile (`FoundWhileLive`) |
| `sign_in_pages` | two handlers, one address, 3 pages, lockout after 2, one loss | a request is granted only after a passkey, or the passphrase and a code, or the passphrase given when no factor was enrolled (`GrantedOnlyApproved`), and once (`GrantedOnce`); what is enrolled is in the owner's app or on a device, its counter not ahead (`EnrolledIsHeld`); no lockout comes before that many failures since the last success (`LockedAfterFailures`) |
| `access_keys` | two requests, times of 4, 2, 1 and 2 ticks, 2 versions of the keys, one failure | an admitted token's key was the provider's within the time keys are kept and two calls (`AdmittedKeysRecent`); a good token is refused only for a key that new, or after a failure that recent (`OwnerAdmitted`); a failing provider is asked once per handler in that time (`AskedSeldom`) |

Every property has a mutant: a plausible bug in one definition, named in
`PROJECT.json`, under which its run fails.

**Disagreements with what the repository says**, each with a run that must fail:

- `entity_deleted_link`: the README promises "full reversal of entity merges". A
  merge moves the links of deleted entries too, but captures live ones only: after
  the merge and the deletion are undone, the entry is linked to the wrong entity.
- `ingest_two_sessions`: a comment in `domain/ingestion.ts` says that concurrent
  access is impossible. Each session is an object of its own and they share D1:
  two of them ingest one task twice.

Some things one might expect are not provided by the code and are not checked; the
hazards in `PROJECT.json` say so at their lines, and where a property covers the
rest of a hazard it names the exception.

- Two relates that both look before either writes both write, although they
  contradict each other; two such upserts make two triples of one key, or two
  entities of one name.
- The undo of an entity's creation changes no row; a conflict is removed before its
  resolution is applied, which may then fail; a replace changes one of several
  contradicting triples.
- A task whose chunk is refused stays the first in line, and those after it wait.
- A search may return an entry that is deleted, and begins again when its cursor has
  left the ranking.
- Not every grant has a second factor. The README says "two-factor" (`README.md:114`), and the
  template that the skip link completes OAuth "if TOTP is already enrolled"
  (`templates/enroll-passkey.ts:5-6`), but `GET /complete-passkey-skip` (`auth.ts:525-542`)
  asks for neither: while nothing is enrolled the passphrase alone is enough, and stays
  so for the pages shown for it, even if a factor is enrolled meanwhile.
  `GrantedOnlyApproved` names this case ("first passphrase").
- Nonces are for one use (`README.md:123`) only if their submissions do not overlap. A record
  is read and deleted by two calls of KV (`auth.ts:337-338`), so two submissions of one page
  may both be granted; `GrantedOnce` names this case (`doubled`).
- A passkey that is enrolled between the two reads of a sign-in with another gets its
  counter (`crossed`), and is refused until its own is past that; failures that overlap
  may count as one.
- Keys that the provider has just published are refused for as long as the old ones
  are kept.
- After the random digits of an id overflow, the ids that follow in its millisecond
  are in no order with those before.

**Bounds.** `MaxClock` bounds the stamps or ids drawn, `MaxUndo` the count given to
undo, `MaxTasks` and `MaxFails` the tasks and failures. Six stamps are three changes
and their undos, or a change, its undo, and a change again; with four names and
seven stamps a merged entity can be merged on and both merges undone (the constraint
`ChainsOrTriples` stops at six where there are triples or links). Two handlers
are enough for every race of two calls. In the conflict run facts are about one key,
and `update_triple` moves triples to another and back while no other call runs; four
ids are two conflicting facts, a conflict and its resolution. Three tasks with three failures allow a failure in each. In `Retrieval`
two commits are enough for a change between any two reads and for a change and its
undo; pages of one give a walk as many pages as there are rows. Its `View` leaves
out what the searches have shown during which something changed: only what they find
is stated of them, and a new walk may begin at any time. `sign_in_pages` starts with one or two open pages of a first
enrollment, or with one after a code of an enrolled app was given, since the forms
before them would use up the three pages; three pages then are two enrollments and
another request, or one with its second page and another request, with a passkey or not.
Its `PagesView` leaves out the pages and keys that nothing can
use any more, and what was granted of them but whether it was in order. In
`AccessKeys` all that matters of a time is how far it is from now and only if that is
not too far (`KeysView`), so the clock goes on without end; the times keep the order of
the real ones. Three digits to base 2 carry over none, one or two others, and overflow.
Properties that
could depend on more handlers or longer runs, and hold of racing calls, are proved.
`CHECK_DEADLOCK FALSE` is set where the budget of stamps, commits or pages runs out, which is a stop of
the instance and not of the system; the runs of `Ingestion` check for deadlock. Symmetry
is used of handlers, columns, values, objects and sessions, and never with a liveness property.

**Fairness.** `Ingestion!FairSpec` assumes that a call that has begun goes on (the
platform runs it; it may still throw or be lost, up to `MaxFails`) and that an alarm
that is set fires. Nothing is assumed of session starts, which depend on clients:
`AsyncCompletes` has "every session starts again and again" as its premise. This is
needed: after a failure no alarm is set, and a stored task does not set one either.
No other module has liveness properties.

## What is proved

All theorems are for any number of handlers, sessions, keys, values, stamps, digits and
calls, and of a specification from its `Init`; the instances of `EntityGraph`, `Retrieval`
and `SignIn` start from states that are reached later (see Bounds). The only assumptions
are those in the modules:

- `RecordStore`: `NULL` is not an image and the bounds are naturals; of the sequential
  theorems also `Sequential`, that there is one handler.
- `EntityGraph`: of the sequential theorems `OneHandler`, that there is one handler; of
  `UndoRestores` also that no entry is deleted, since what a merge does to the link of a
  deleted entry is not undone (`entity_deleted_link`).
- `Ingestion`: a batch takes one chunk at least, texts are sequences, sessions and handlers
  are different, and the bound of failures is a natural; of `OneWorkerNeverDuplicates` and `OneWorkerKeepsProgress` also
  `OneWorker`, that at most one session or handler works on the tasks. Of two workers
  both are false, as `ingest_two_sessions` shows of the first.
- `Retrieval`: scores are tenths, a page takes one row at least, and the bound of ids is a natural.
- `SignIn`: a lockout takes one failure at least.
- `AccessKeys`: its times are naturals and a failure is not noted for longer than keys
  are kept; for `ProviderAskedSeldom` also that finitely many requests run at once.
- `Ulid`: there is a digit, a base of two at least, and no time zero; `MCSequentialStore`: the
  number of ids tried is a natural.

`RecordStoreProofs`, interleaved calls. `StoreInv` is inductive: types; what a call in
flight knows (its stamp is drawn, its own and not in the log; an undo holds
transactions of the log, older than its stamp); and that updates recorded an image.
From it follow `StoreTypeCorrect`, `LogIsAppendOnly` and, each with its own
strengthening, `DeletionsAreLogged`, `ImagesAreLogged` and `RevertsAreRecorded`.
The step that needs care is a second undo of a transaction already reverted: its
`reverted_by` is overwritten, and what the first REVERT recorded must still do.

`RecordStoreProofs`, one call at a time. `SequentialInv` adds what a single call knows:
the row is still as it read it, its stamp is newer than the log, and an undo holds
exactly the newest transactions that stand. `UndoIsExact`, `UndoIsLastInFirstOut` and
`SequentialCallsImplementJournal`, the refinement of `UndoJournal` by a mapping of
the log to the journal, follow.

`EntityGraphProofs`, interleaved calls. `AliasesNeverDangle`: a merge deletes the merged
entity after moving its aliases, so the proof needs `MergesDiffer`, that a running merge
names two different entities, and the foreign key of aliases, which makes the batch of a
merge whose kept entity is gone fail.

`EntityGraphProofs`, one call at a time. That names and entities are one to one is not
inductive: an undo brings back names of long ago. So `SeqInv` speaks of the graph before each
transaction that stands. It is not stored, but follows from the rows as they are and what the
later transactions would put back: `Was(f, i, n, x)` says that field `f` of row `i` held `x`
before stamp `n`. `Stood(n, g)` says that the graph of these values is `g`, and that names were
one to one in it; the invariant has `Stood(n, past[n])` of every standing `n`. `Stand(n)` adds of a
merge what its undo relies on: its alias and the rows it captured hold what it wrote when all
later ones are undone, and the merged entity is nowhere. A batch adds its own values at the end
of what can be put back, an undo takes the last away, and neither changes what was there
before (`HeldBefore`, `Earlier`, `StoodStays`). A merge captures exactly the rows it changes because
nothing runs between its reads and its batch (`MergeKnows`); its undo deletes exactly the
alias it made because of uniqueness before the merge (`RevertedMerge`). `EntitiesAreFound`, `NamesAreUnique` and
`UndoRestores` follow.

`ConflictsProofs`. `ConflictsResolvedOnce`: an id is in at most one of four places
(stored, closed, held by one running call, written once), and an id not drawn yet is
in none. What calls have seen is `SeenInv`: of a running relate, upsert, replace or update,
of each stored conflict and of each transaction it says what was there when it looked
and still is, unless a transaction since wrote it (`Rekeyed`, `NoneBefore`). Every step
keeps all of it for one reason, that a triple changes only with a transaction on it
(`Grown`, `RowsLogged`). `ReplaceShowsTheTriple`, `UpsertCreatesAlone` and
`RelateContradictsNothingSeen` are read off the transaction.

`IngestionProofs`. A count is the place of the run that writes it, so `ProgressIsStored` is
not inductive: `StoredInv` adds of each run what it has behind it (`InHand`), which
stays true through the steps of others because texts do not change and entries are not
removed. `CountedIsStored` and `CompletedAreStored` hold of any race. With one worker `SoloInv`
adds that the task in hand is open and counts no more than the run has reached, and that
what is about to be created is not there; nobody else can change that.

`RetrievalProofs`. `VectorInv` follows a text from the row to the vector: the vector is of the
text of the row, or the one call that is about to write it holds that text, or the
row is in `behind`; `StoreInv` and `CallInv` say what rows and calls there are.
`VectorsAreCurrent` is then immediate. `WalkInv` says of a list what it has
shown, every row that stays above the cursor and each once (`ListShowsAll`), and of a search that
every hit was live since the page began or has a vector (`SearchFindsTheLiving`).
`PagesMakeTheRanking` needs that `ByScore` is a ranking at all: `ByScoreRanks` shows that ranks are
different numbers below the number of ids and so are all of them. `QuietInv` is that while
nothing changes every page makes the same ranking and the cursor is where the last page ended in it.

`SignInProofs`. `SignInv` gives each page, and each request between two awaits, the facts it
stands for: an enrollment page that a code or the first passphrase was given, a call about to
store a passkey that it is on a device. Facts of this kind are never taken back (`Grown`), whoever
enrolls meanwhile, and
`GrantsAreApproved` and `EnrolledStaysHeld` are what they say at the grant and the enrollment.
`OnceInv` counts the places from which a request can still be granted: an open page, a call
past its deletion, the grant itself; where no two submissions overlapped there is one
(`RequestsGrantedOnce`). `CountInv` bounds each count of failures, in KV or about to be put, by
the failures there were (`LockoutsAreEarned`).

`AccessKeysProofs`. `KeysInv` dates everything that is kept: the versions came one after
the other (`Ordered`); the kept version was the provider's no longer ago than the
time it has been kept, and one call (`KeptRecent`); a noted failure is as recent
(`NotedRecent`); and a running call has a version that was current within what its
phase allows (`CallInv`). It is inductive because `Tick` waits for calls that have taken
their time. `AccessAdmittedKeysRecent` and `AccessOwnerAdmitted` follow. `ProviderAskedSeldom`
counts. `Counted(i)` pairs the times the provider was asked since the `i`-th with requests: until
an outcome is put since then, whoever asked still holds it (`InFlight`) or is counted as a
failure; from then on only those `Ahead`, which read KV before it was put, can still ask, and
they are not among those that held one.

`UlidProofs`. `IdsAreInOrder` is `InOrder` of any calls: counting on gives greater digits
unless they overflow (the last digit that is not the highest grows, and those before it
stay), the order is transitive, and a least call that is out of order cannot be. `KeptByKeeps` is
that the recursive function `KeptBy` is what such calls keep, since for no number of calls can
there be a first that it does not define (`KeptExists`); so `IdsInOrder` holds of any number of
calls (`AnyIdsAreInOrder`), and so of the stamps drawn in any state: `StampsAreInOrder` is an
instance of that, of which the store only gives the number.

Model-checked only: `StartedCompletes` and `AsyncCompletes`, which are liveness properties
(TLAPS has no support for fairness and ENABLED).

## Not modelled

- Reads of one statement that change nothing: history, queries without a search,
  ingestion status, time.
- Arguments rejected before any state is touched: lengths, policy, ids.
- Prompts, formatting, logs, set-up and evaluation: fixed text, or not part of the
  running system.
- Of the sign-in: the OAuth library, which parses requests and issues tokens;
  signatures, hashes and time windows of codes, which are right or wrong; KV as it is
  seen from several locations; the removal of an enrolled factor, which is done by
  hand; an access gate that is not configured, which reads nothing and lets all pass.
- SQLite's full-text table and its triggers.

## Plan

In this order; the models are done.

1. `RecordStore` with `UndoJournal`: rows, log and undo, on which everything else rests.
   Proved: its invariants and the refinement.
2. `EntityGraph`: merges and their undo. Proved, of interleaved and of sequential calls.
3. `Conflicts`. Proved.
4. `Ingestion`. Its safety is proved.
5. `Retrieval`. Proved.
6. `SignIn`. Proved.
7. `AccessKeys`. Proved.
8. `Ulid`. Proved.
