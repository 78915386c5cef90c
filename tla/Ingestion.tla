------------------------------ MODULE Ingestion ------------------------------
(***************************************************************************)
(* Bulk ingestion (src/domain/ingestion.ts, src/index.ts).                 *)
(*                                                                         *)
(* A text is a sequence of chunks.  A small one is ingested by the tool    *)
(* handler that got it; a large one is stored as a pending task, for       *)
(* processIngestion, which takes BatchSize chunks of the oldest open task  *)
(* each time it runs: when a session (a Durable Object) starts, and when   *)
(* an alarm fires that an earlier run of it has scheduled.  Every          *)
(* statement to D1 is awaited, so each is a step of its own here.  An      *)
(* alarm whose callback throws is dropped, one whose isolate is lost fires *)
(* again: that is how the agents library and the platform treat them.      *)
(***************************************************************************)
EXTENDS Integers, Sequences

CONSTANTS
    Sessions,   \* the Durable Objects, each running processIngestion
    Syncs,      \* tool handlers that ingest small texts
    Texts,      \* the texts submitted, as sequences of chunks
    Poison,     \* the chunks createEntry refuses: longer than it allows
    BatchSize,
    MaxTasks,   \* bound on the tasks submitted
    MaxFails    \* bound on the failures of D1 and the losses of an isolate

ASSUME BatchAssumption ==
    /\ BatchSize \in Nat \ {0} /\ MaxFails \in Nat
    /\ Sessions \cap Syncs = {}
    /\ \A text \in Texts : text \in Seq({text[i] : i \in DOMAIN text})

VARIABLES
    tasks,      \* ingestion_tasks, in the order of created_at
    entries,    \* the contents of the entries, in the order of creation
    run,        \* session or handler -> what it is doing
    alarms,     \* session -> the runs of processIngestion it has scheduled
    fails       \* how many failures there have been

vars == <<tasks, entries, run, alarms, fails>>

Workers == Sessions \cup Syncs
Idle    == [phase |-> "idle", by |-> "none", task |-> 0, at |-> 0, upto |-> 0]
Chunks(t) == tasks[t].text

\* Counts stay within the text of their task, and a run has a task in hand
\* from the time it has selected one.
TypeOK ==
    /\ tasks \in Seq([text : Texts, input : BOOLEAN, processed : Nat,
                      status : {"pending", "processing", "completed", "failed"}])
    /\ \A t \in DOMAIN tasks : tasks[t].processed <= Len(Chunks(t))
    /\ entries \in Seq(UNION {{x[i] : i \in DOMAIN x} : x \in Texts})
    /\ run \in [Workers ->
                  [phase : {"idle", "select", "no_input", "mark", "check", "create",
                            "progress", "complete"},
                   by : {"none", "start", "alarm", "sync"},
                   task : Nat, at : Nat, upto : Nat]]
    /\ \A w \in Workers : run[w].phase \notin {"idle", "select"} =>
           /\ run[w].task \in DOMAIN tasks
           /\ run[w].at <= run[w].upto /\ run[w].upto <= Len(Chunks(run[w].task))
    /\ alarms \in [Sessions -> Nat]
    /\ fails \in 0..MaxFails

-----------------------------------------------------------------------------
\* mutant of IsDuplicate: the check is forgotten.
NeverDuplicate(chunk) == FALSE

\* isDuplicate: an entry with this content exists.
IsDuplicate(chunk) == \E i \in DOMAIN entries : entries[i] = chunk

\* mutant of Open: only tasks that no run has touched are taken.
OnlyPending == {t \in DOMAIN tasks : tasks[t].status = "pending"}

\* status IN ('pending', 'processing')
Open == {t \in DOMAIN tasks : tasks[t].status \in {"pending", "processing"}}

Oldest(t) == t \in Open /\ \A u \in Open : t <= u

\* mutant of ProcessedSoFar: every batch starts over.
FromStart(t) == 0

\* Where a batch resumes: processedSoFar.
ProcessedSoFar(t) == tasks[t].processed

\* The end of the batch that starts after chunk n: slice(0, BATCH_SIZE).
BatchEnd(t, n) ==
    IF n + BatchSize < Len(Chunks(t)) THEN n + BatchSize ELSE Len(Chunks(t))

\* mutant of Recorded: the chunk in hand is counted with the next.
CountsAhead(r) == r.at + 1

\* The processed_items that is written when chunk r.at is done.
Recorded(r) == r.at

\* mutant of NothingRemains: off by one.
OneRemains(r) == r.at >= Len(Chunks(r.task)) - 1

\* totalRemaining <= 0
NothingRemains(r) == r.at >= Len(Chunks(r.task))

-----------------------------------------------------------------------------
Init ==
    /\ tasks = <<>> /\ entries = <<>>
    /\ run = [w \in Workers |-> Idle]
    /\ alarms = [s \in Sessions |-> 0]
    /\ fails = 0

Becomes(w, r) == run' = [run EXCEPT ![w] = r]

\* mutant of Finish: the rest of a task is not scheduled.
ForgetsRest(w, remains) ==
    /\ Becomes(w, Idle)
    /\ alarms' = IF w \in Syncs THEN alarms
                 ELSE [alarms EXCEPT ![w] = @ - (IF run[w].by = "alarm" THEN 1 ELSE 0)]

\* processIngestion is over.  An alarm that was served is deleted, and one is
\* scheduled if work remains in this task.
Finish(w, remains) ==
    /\ Becomes(w, Idle)
    /\ alarms' = IF w \in Syncs THEN alarms
                 ELSE [alarms EXCEPT ![w] = @ + (IF remains THEN 1 ELSE 0)
                                              - (IF run[w].by = "alarm" THEN 1 ELSE 0)]

\* ingestAsync: INSERT a pending task with its text.
IngestAsync(text) ==
    /\ Len(tasks) < MaxTasks
    /\ tasks' = Append(tasks, [text |-> text, input |-> TRUE, processed |-> 0,
                               status |-> "pending"])
    /\ UNCHANGED <<entries, run, alarms, fails>>

\* ingestSync: INSERT a task in processing, without its text, and go on.
\* A text that is small has no chunk that is too long.
IngestSync(h, text) ==
    /\ run[h] = Idle
    /\ \A i \in DOMAIN text : text[i] \notin Poison
    /\ Len(tasks) < MaxTasks
    /\ tasks' = Append(tasks, [text |-> text, input |-> FALSE, processed |-> 0,
                               status |-> "processing"])
    /\ Becomes(h, [phase |-> IF text = <<>> THEN "complete" ELSE "check", by |-> "sync",
                   task |-> Len(tasks) + 1,
                   at |-> IF text = <<>> THEN 0 ELSE 1, upto |-> Len(text)])
    /\ UNCHANGED <<entries, alarms, fails>>

\* init() of a session that starts.
Start(s) ==
    /\ run[s] = Idle
    /\ Becomes(s, [Idle EXCEPT !.phase = "select", !.by = "start"])
    /\ UNCHANGED <<tasks, entries, alarms, fails>>

\* The alarm of a session fires.
Alarm(s) ==
    /\ run[s] = Idle
    /\ alarms[s] > 0
    /\ Becomes(s, [Idle EXCEPT !.phase = "select", !.by = "alarm"])
    /\ UNCHANGED <<tasks, entries, alarms, fails>>

\* SELECT the oldest open task.
Select(s, t) ==
    /\ run[s].phase = "select"
    /\ Oldest(t)
    /\ Becomes(s, [run[s] EXCEPT
           !.phase = IF tasks[t].input THEN "mark" ELSE "no_input",
           !.task  = t,
           !.at    = ProcessedSoFar(t),
           !.upto  = BatchEnd(t, ProcessedSoFar(t))])
    /\ UNCHANGED <<tasks, entries, alarms, fails>>

SelectNone(s) ==
    /\ run[s].phase = "select"
    /\ Open = {}
    /\ Finish(s, FALSE)
    /\ UNCHANGED <<tasks, entries, fails>>

\* A task without its text cannot be resumed.
NoInput(s) ==
    /\ run[s].phase = "no_input"
    /\ tasks' = [tasks EXCEPT ![run[s].task].status = "failed"]
    /\ Finish(s, FALSE)
    /\ UNCHANGED <<entries, fails>>

\* The next chunk, or the end when the batch has none left.
Proceed(w) ==
    LET r == run[w] IN
    IF r.at < r.upto
    THEN Becomes(w, [r EXCEPT !.phase = "check", !.at = @ + 1]) /\ UNCHANGED alarms
    ELSE IF NothingRemains(r)
    THEN Becomes(w, [r EXCEPT !.phase = "complete"]) /\ UNCHANGED alarms
    ELSE Finish(w, TRUE)

MarkProcessing(s) ==
    /\ run[s].phase = "mark"
    /\ tasks' = [tasks EXCEPT ![run[s].task].status = "processing"]
    /\ Proceed(s)
    /\ UNCHANGED <<entries, fails>>

\* isDuplicate of the chunk in hand.
Check(w) ==
    LET r == run[w] IN
    /\ r.phase = "check"
    /\ Becomes(w, [r EXCEPT !.phase =
           IF IsDuplicate(Chunks(r.task)[r.at]) THEN "progress" ELSE "create"])
    /\ UNCHANGED <<tasks, entries, alarms, fails>>

\* createEntry of the chunk in hand.
Create(w) ==
    LET r == run[w] IN
    /\ r.phase = "create"
    /\ Chunks(r.task)[r.at] \notin Poison
    /\ entries' = Append(entries, Chunks(r.task)[r.at])
    /\ Becomes(w, [r EXCEPT !.phase = "progress"])
    /\ UNCHANGED <<tasks, alarms, fails>>

\* createEntry throws, and so does whoever called it.
Refuse(w) ==
    /\ run[w].phase = "create"
    /\ Chunks(run[w].task)[run[w].at] \in Poison
    /\ Finish(w, FALSE)
    /\ UNCHANGED <<tasks, entries, fails>>

\* UPDATE processed_items.
Progress(w) ==
    /\ run[w].phase = "progress"
    /\ tasks' = [tasks EXCEPT ![run[w].task].processed = Recorded(run[w])]
    /\ Proceed(w)
    /\ UNCHANGED <<entries, fails>>

Complete(w) ==
    /\ run[w].phase = "complete"
    /\ tasks' = [tasks EXCEPT ![run[w].task].status = "completed"]
    /\ Finish(w, FALSE)
    /\ UNCHANGED <<entries, fails>>

\* A statement fails, and with it the call.
Throw(w) ==
    /\ run[w] # Idle
    /\ fails < MaxFails
    /\ fails' = fails + 1
    /\ Finish(w, FALSE)
    /\ UNCHANGED <<tasks, entries>>

\* The isolate is lost: its alarms are kept.
Crash(w) ==
    /\ run[w] # Idle
    /\ fails < MaxFails
    /\ fails' = fails + 1
    /\ Becomes(w, Idle)
    /\ UNCHANGED <<tasks, entries, alarms>>

\* The steps of a call that has begun.
Step(w) ==
    \/ \E t \in Open : Select(w, t)
    \/ SelectNone(w)
    \/ NoInput(w)
    \/ MarkProcessing(w)
    \/ Check(w)
    \/ Create(w)
    \/ Refuse(w)
    \/ Progress(w)
    \/ Complete(w)

Next ==
    \/ \E text \in Texts : IngestAsync(text)
    \/ \E text \in Texts, h \in Syncs : IngestSync(h, text)
    \/ \E s \in Sessions : Start(s) \/ Alarm(s)
    \/ \E w \in Workers : Step(w) \/ Throw(w) \/ Crash(w)

Spec == Init /\ [][Next]_vars

\* Calls go on and alarms fire.
Fairness ==
    /\ \A w \in Workers : WF_vars(Step(w))
    /\ \A s \in Sessions : WF_vars(Alarm(s))

FairSpec == Spec /\ Fairness

-----------------------------------------------------------------------------
(* Properties *)

\* What processed_items counts is stored, even when runs overtake each other:
\* no crash or retry makes a batch skip a chunk.
ProgressIsStored ==
    \A t \in DOMAIN tasks : \A i \in 1..tasks[t].processed :
        i \in DOMAIN Chunks(t) /\ IsDuplicate(Chunks(t)[i])

\* A completed task has every chunk of its text among the entries.
CompletedIsStored ==
    \A t \in DOMAIN tasks : tasks[t].status = "completed" =>
        \A i \in DOMAIN Chunks(t) : IsDuplicate(Chunks(t)[i])

\* Spec 004: ingestion is idempotent under retries.  No content is stored
\* twice, whatever failed between its creation and the count of it.
NoDuplicates == \A i, j \in DOMAIN entries : entries[i] = entries[j] => i = j

Ended(t) == tasks[t].status \in {"completed", "failed"}

\* A task that has ended stays as it ended, and progress is never taken back.
ProgressNeverLost ==
    [][\A t \in DOMAIN tasks :
          /\ tasks'[t].processed >= tasks[t].processed
          /\ Ended(t) => tasks'[t].status = tasks[t].status]_vars

Taken(t)  == t \in DOMAIN tasks /\ tasks[t].input /\ tasks[t].status = "processing"
Stored(t) == t \in DOMAIN tasks /\ tasks[t].status = "completed"

\* A text that is refused is in the way of task t: it is its own, or one before it.
Blocked(t) ==
    \E u \in 1..t : u \in DOMAIN tasks /\ \E i \in DOMAIN Chunks(u) : Chunks(u)[i] \in Poison

\* A task that one batch has begun is brought to its end by the alarms alone,
\* unless something failed or it is refused.
StartedCompletes == \A t \in 1..MaxTasks : Taken(t) ~> (Stored(t) \/ Blocked(t) \/ fails > 0)

\* Every text that was accepted is ingested, after any failure, if none before it is
\* refused, in an environment where sessions start again and again, as clients connect.
AsyncCompletes ==
    (\A s \in Sessions : []<>(run[s].by = "start")) =>
        \A t \in 1..MaxTasks : (t \in DOMAIN tasks /\ tasks[t].input) ~> (Stored(t) \/ Blocked(t))
=============================================================================
