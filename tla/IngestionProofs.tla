--------------------------- MODULE IngestionProofs ---------------------------
(***************************************************************************)
(* What is counted or completed is stored, for any number of sessions,     *)
(* handlers and tasks, any texts, and any batch size: however runs         *)
(* overtake each other, fail and are retried.  And with one worker nothing *)
(* is stored twice and no progress is taken back.                          *)
(*                                                                         *)
(* ProgressIsStored alone is not inductive: the count that is written is   *)
(* the place of the run that writes it, so it must be known what each run  *)
(* has behind it (InHand), which another run's step never takes away,      *)
(* because texts do not change and entries are not removed (Grown).        *)
(***************************************************************************)
EXTENDS Ingestion, TLAPS

Statuses == {"pending", "processing", "completed", "failed"}

Task  == [text : Texts, input : BOOLEAN, processed : Nat, status : Statuses]
Chunk == UNION {{x[i] : i \in DOMAIN x} : x \in Texts}

Phases == {"idle", "select", "no_input", "mark", "check", "create", "progress", "complete"}

Run == [phase : Phases, by : {"none", "start", "alarm", "sync"},
        task : Nat, at : Nat, upto : Nat]

Holds(es, chunk) == \E i \in DOMAIN es : es[i] = chunk

\* How many chunks a run has behind it.
Behind(r) == IF r.phase \in {"check", "create"} THEN r.at - 1 ELSE r.at

\* A run that has a task knows its place in the text, and what it has behind it is
\* stored; it completes at the end of the text.
InHand(r, ts, es) ==
    r.phase \notin {"idle", "select"} =>
        /\ r.task \in DOMAIN ts
        /\ r.at <= r.upto /\ r.upto <= Len(ts[r.task].text)
        /\ r.phase \in {"check", "create", "progress"} => r.at >= 1
        /\ r.phase = "complete" => r.at >= Len(ts[r.task].text)
        /\ \A i \in 1..Behind(r) : Holds(es, ts[r.task].text[i])

\* What a task counts is stored, and all of it when it is completed.
Kept(t, es) ==
    /\ t.processed <= Len(t.text)
    /\ \A i \in 1..t.processed : Holds(es, t.text[i])
    /\ t.status = "completed" => \A i \in 1..Len(t.text) : Holds(es, t.text[i])

Shape ==
    /\ tasks \in Seq(Task)
    /\ entries \in Seq(Chunk)
    /\ run \in [Workers -> Run]
    /\ alarms \in [Sessions -> Nat]
    /\ fails \in 0..MaxFails

\* A run that an alarm began still has its alarm.
HasAlarm == \A s \in Sessions : run[s].by = "alarm" => alarms[s] > 0

StoredInv ==
    /\ Shape /\ HasAlarm
    /\ \A w \in Workers : InHand(run[w], tasks, entries)
    /\ \A t \in DOMAIN tasks : Kept(tasks[t], entries)

\* ts and es have become us and fs: texts are as they were, entries are not removed.
Grown(ts, es, us, fs) ==
    /\ DOMAIN ts \subseteq DOMAIN us
    /\ \A t \in DOMAIN ts : us[t].text = ts[t].text
    /\ \A c : Holds(es, c) => Holds(fs, c)

-----------------------------------------------------------------------------
LEMMA TextsAreSequences ==
  ASSUME NEW text \in Texts
  PROVE  Len(text) \in Nat /\ DOMAIN text = 1..Len(text)
  BY BatchAssumption

LEMMA TaskShape ==
  ASSUME Shape, NEW t \in DOMAIN tasks
  PROVE  /\ tasks[t] \in Task
         /\ tasks[t].text \in Texts
         /\ Len(tasks[t].text) \in Nat /\ DOMAIN tasks[t].text = 1..Len(tasks[t].text)
<1>1. tasks[t] \in Task
  BY DEF Shape
<1>2. tasks[t].text \in Texts
  BY <1>1 DEF Task
<1> QED
  BY <1>1, <1>2, TextsAreSequences

LEMMA RunMovesOn ==
  ASSUME NEW r \in Run, NEW q, q = [r EXCEPT !.phase = "check", !.at = @ + 1]
  PROVE  /\ q \in Run /\ q.phase = "check" /\ q.at = r.at + 1
         /\ q.by = r.by /\ q.task = r.task /\ q.upto = r.upto
<1>1. r.at + 1 \in Nat /\ "check" \in Phases
  BY DEF Run, Phases
<1> QED
  BY <1>1 DEF Run

LEMMA InitStoredInv == Init => StoredInv
<1> SUFFICES ASSUME Init PROVE StoredInv
  OBVIOUS
<1>1. Shape
  BY BatchAssumption DEF Init, Shape, Idle, Run, Phases, Workers
<1>2. HasAlarm
  BY DEF Init, HasAlarm, Idle, Workers
<1>3. ASSUME NEW w \in Workers PROVE InHand(run[w], tasks, entries)
  BY <1>3 DEF Init, Idle, InHand
<1>4. ASSUME NEW t \in DOMAIN tasks PROVE Kept(tasks[t], entries)
  BY <1>4 DEF Init
<1> QED
  BY <1>1, <1>2, <1>3, <1>4 DEF StoredInv

\* What a run has in hand stays so while tasks and entries grow.
LEMMA InHandStays ==
  ASSUME NEW r, NEW ts, NEW es, NEW us, NEW fs, Grown(ts, es, us, fs), InHand(r, ts, es)
  PROVE  InHand(r, us, fs)
  BY DEF InHand, Grown

LEMMA KeptStays ==
  ASSUME NEW t, NEW ts, NEW es, NEW us, NEW fs, Grown(ts, es, us, fs), Kept(t, es)
  PROVE  Kept(t, fs)
  BY DEF Kept, Grown

\* The step of one worker: its run becomes r, and tasks and entries grow.
LEMMA WorkerStep ==
  ASSUME StoredInv, Shape', HasAlarm', Grown(tasks, entries, tasks', entries'),
         NEW w \in Workers, NEW r, Becomes(w, r), InHand(r, tasks', entries'),
         \A t \in DOMAIN tasks' : Kept(tasks'[t], entries')
  PROVE  StoredInv'
<1>1. ASSUME NEW v \in Workers PROVE InHand(run'[v], tasks', entries')
  <2>1. run'[v] = IF v = w THEN r ELSE run[v]
    BY DEF Becomes, StoredInv, Shape
  <2>2. InHand(run[v], tasks', entries')
    BY InHandStays DEF StoredInv
  <2> QED
    BY <2>1, <2>2
<1> QED
  BY <1>1 DEF StoredInv

-----------------------------------------------------------------------------
(* What a step does to the tasks and entries *)

\* Nothing changes in the database.
LEMMA DatabaseSame ==
  ASSUME StoredInv, tasks' = tasks, entries' = entries
  PROVE  /\ tasks' \in Seq(Task) /\ entries' \in Seq(Chunk)
         /\ Grown(tasks, entries, tasks', entries')
         /\ \A t \in DOMAIN tasks' : Kept(tasks'[t], entries')
  BY DEF StoredInv, Shape, Grown

\* INSERT of a task.
LEMMA TaskInserted ==
  ASSUME StoredInv, NEW new \in Task, new.processed = 0, new.status # "completed",
         tasks' = Append(tasks, new), entries' = entries
  PROVE  /\ tasks' \in Seq(Task) /\ entries' \in Seq(Chunk)
         /\ Grown(tasks, entries, tasks', entries')
         /\ \A t \in DOMAIN tasks' : Kept(tasks'[t], entries')
         /\ Len(tasks) + 1 \in DOMAIN tasks' /\ tasks'[Len(tasks) + 1] = new
<1>1. tasks \in Seq(Task) /\ entries \in Seq(Chunk)
  BY DEF StoredInv, Shape
<1>2. /\ tasks' \in Seq(Task) /\ Len(tasks) \in Nat
      /\ DOMAIN tasks = 1..Len(tasks) /\ DOMAIN tasks' = 1..(Len(tasks) + 1)
      /\ \A t \in DOMAIN tasks : tasks'[t] = tasks[t]
      /\ tasks'[Len(tasks) + 1] = new
  BY <1>1
<1>3. Kept(new, entries)
  <2>1. new.text \in Texts
    BY DEF Task
  <2> QED
    BY <2>1, TextsAreSequences DEF Kept
<1>4. ASSUME NEW t \in DOMAIN tasks' PROVE Kept(tasks'[t], entries')
  BY <1>2, <1>3, <1>4 DEF StoredInv
<1>5. Grown(tasks, entries, tasks', entries')
  BY <1>2 DEF Grown
<1> QED
  BY <1>1, <1>2, <1>4, <1>5

\* UPDATE of a task, to new.
LEMMA TaskUpdated ==
  ASSUME StoredInv, NEW n \in DOMAIN tasks, NEW new \in Task, new.text = tasks[n].text,
         Kept(new, entries), tasks' = [tasks EXCEPT ![n] = new], entries' = entries
  PROVE  /\ tasks' \in Seq(Task) /\ entries' \in Seq(Chunk)
         /\ Grown(tasks, entries, tasks', entries')
         /\ \A t \in DOMAIN tasks' : Kept(tasks'[t], entries')
<1>1. tasks \in Seq(Task) /\ entries \in Seq(Chunk)
  BY DEF StoredInv, Shape
<1>2. /\ tasks' \in Seq(Task) /\ DOMAIN tasks' = DOMAIN tasks
      /\ \A t \in DOMAIN tasks : tasks'[t] = IF t = n THEN new ELSE tasks[t]
  BY <1>1
<1>3. \A t \in DOMAIN tasks' : Kept(tasks'[t], entries')
  BY <1>2 DEF StoredInv
<1>4. Grown(tasks, entries, tasks', entries')
  BY <1>2 DEF Grown
<1> QED
  BY <1>1, <1>2, <1>3, <1>4

\* INSERT of an entry.
LEMMA EntryInserted ==
  ASSUME StoredInv, NEW chunk \in Chunk, entries' = Append(entries, chunk), tasks' = tasks
  PROVE  /\ tasks' \in Seq(Task) /\ entries' \in Seq(Chunk)
         /\ Grown(tasks, entries, tasks', entries')
         /\ \A t \in DOMAIN tasks' : Kept(tasks'[t], entries')
         /\ Holds(entries', chunk)
<1>1. tasks \in Seq(Task) /\ entries \in Seq(Chunk)
  BY DEF StoredInv, Shape
<1>2. /\ entries' \in Seq(Chunk) /\ Len(entries) \in Nat
      /\ DOMAIN entries = 1..Len(entries) /\ DOMAIN entries' = 1..(Len(entries) + 1)
      /\ \A i \in DOMAIN entries : entries'[i] = entries[i]
      /\ entries'[Len(entries) + 1] = chunk
  BY <1>1
<1>3. Holds(entries', chunk) /\ \A c : Holds(entries, c) => Holds(entries', c)
  BY <1>2 DEF Holds
<1>4. Grown(tasks, entries, tasks', entries')
  BY <1>3 DEF Grown
<1>5. \A t \in DOMAIN tasks' : Kept(tasks'[t], entries')
  BY <1>4, KeptStays DEF StoredInv
<1> QED
  BY <1>1, <1>2, <1>3, <1>4, <1>5

-----------------------------------------------------------------------------
(* What a step does to a run and its alarms *)

\* A call goes on, begun as it was or anew, and not by an alarm.
LEMMA CallGoesOn ==
  ASSUME StoredInv, NEW w \in Workers, NEW r \in Run, Becomes(w, r),
         r.by \in {run[w].by, "start", "sync"}, alarms' = alarms
  PROVE  run' \in [Workers -> Run] /\ alarms' \in [Sessions -> Nat] /\ HasAlarm'
<1>1. \A v \in Workers : run'[v] = IF v = w THEN r ELSE run[v]
  BY DEF Becomes, StoredInv, Shape
<1> QED
  BY <1>1 DEF Becomes, StoredInv, Shape, HasAlarm, Workers

\* A call ends, with its alarm.
LEMMA CallEnds ==
  ASSUME StoredInv, NEW w \in Workers, NEW remains \in BOOLEAN, Finish(w, remains)
  PROVE  run' \in [Workers -> Run] /\ alarms' \in [Sessions -> Nat] /\ HasAlarm'
<1>1. Idle \in Run /\ Idle.by = "none" /\ run \in [Workers -> Run] /\ alarms \in [Sessions -> Nat]
  BY DEF Idle, Run, Phases, StoredInv, Shape
<1>2. /\ run' \in [Workers -> Run]
      /\ \A v \in Workers : run'[v] = IF v = w THEN Idle ELSE run[v]
  BY <1>1 DEF Finish, Becomes
<1>3. CASE w \in Syncs
  BY <1>1, <1>2, <1>3 DEF Finish, StoredInv, HasAlarm, Workers
<1>4. CASE w \notin Syncs
  <2>1. w \in Sessions
    BY <1>4 DEF Workers
  <2> DEFINE n == alarms[w] + (IF remains THEN 1 ELSE 0) - (IF run[w].by = "alarm" THEN 1 ELSE 0)
  <2>2. n \in Nat
    BY <1>1, <2>1 DEF StoredInv, HasAlarm
  <2>3. alarms' = [alarms EXCEPT ![w] = n]
    BY <1>4 DEF Finish
  <2> HIDE DEF n
  <2> QED
    BY <1>1, <1>2, <2>1, <2>2, <2>3 DEF StoredInv, HasAlarm, Workers
<1> QED
  BY <1>3, <1>4

LEMMA IdleInHand ==
  ASSUME NEW ts, NEW es
  PROVE  InHand(Idle, ts, es)
  BY DEF InHand, Idle

\* The chunk before was done: the next, or the end of the batch.
LEMMA ProceedStep ==
  ASSUME StoredInv, NEW w \in Workers, run[w].phase \in {"mark", "progress"}, Proceed(w),
         tasks' \in Seq(Task), entries' \in Seq(Chunk), fails' = fails,
         Grown(tasks, entries, tasks', entries'),
         \A t \in DOMAIN tasks' : Kept(tasks'[t], entries')
  PROVE  StoredInv'
<1> DEFINE r == run[w]
<1>1. r \in Run /\ InHand(r, tasks', entries') /\ InHand(r, tasks, entries)
  BY InHandStays DEF StoredInv, Shape
<1>a. r \in Run
  BY <1>1
<1>2. /\ r.task \in DOMAIN tasks' /\ r.task \in DOMAIN tasks
      /\ tasks'[r.task].text = tasks[r.task].text
  BY <1>1 DEF InHand, Grown
<1>3. Len(tasks[r.task].text) \in Nat /\ r.at \in Nat /\ r.upto \in Nat
  <2>1. Len(tasks[r.task].text) \in Nat
    BY <1>2, TaskShape DEF StoredInv
  <2>2. r.at \in Nat /\ r.upto \in Nat
    BY <1>a DEF Run
  <2> QED
    BY <2>1, <2>2
<1>4. CASE r.at < r.upto
  <2> DEFINE next == [r EXCEPT !.phase = "check", !.at = @ + 1]
  <2>1. Becomes(w, next) /\ alarms' = alarms
    BY <1>4 DEF Proceed
  <2>2. /\ next \in Run /\ next.by = r.by /\ next.phase = "check" /\ next.at = r.at + 1
        /\ next.task = r.task /\ next.upto = r.upto
    BY <1>a, RunMovesOn
  <2> HIDE DEF next
  <2>3. InHand(next, tasks', entries')
    BY <1>1, <1>3, <1>4, <2>2 DEF InHand, Behind
  <2>4. Shape' /\ HasAlarm'
    BY <2>1, <2>2, CallGoesOn DEF Shape, StoredInv
  <2> QED
    BY <2>1, <2>3, <2>4, WorkerStep
<1>5. CASE ~(r.at < r.upto) /\ NothingRemains(r)
  <2> DEFINE next == [r EXCEPT !.phase = "complete"]
  <2>1. Becomes(w, next) /\ alarms' = alarms
    BY <1>5 DEF Proceed
  <2>2. /\ next \in Run /\ next.by = r.by /\ next.phase = "complete" /\ next.at = r.at
        /\ next.task = r.task /\ next.upto = r.upto
    BY <1>a DEF Run, Phases
  <2> HIDE DEF next
  <2>3. InHand(next, tasks', entries')
    BY <1>1, <1>2, <1>5, <2>2 DEF InHand, Behind, NothingRemains, Chunks
  <2>4. Shape' /\ HasAlarm'
    BY <2>1, <2>2, CallGoesOn DEF Shape, StoredInv
  <2> QED
    BY <2>1, <2>3, <2>4, WorkerStep
<1>6. CASE ~(r.at < r.upto) /\ ~NothingRemains(r)
  <2>1. Finish(w, TRUE)
    BY <1>6 DEF Proceed
  <2>2. Shape' /\ HasAlarm'
    BY <2>1, CallEnds DEF Shape, StoredInv
  <2> QED
    BY <2>1, <2>2, IdleInHand, WorkerStep DEF Finish
<1> QED
  BY <1>4, <1>5, <1>6

-----------------------------------------------------------------------------
(* One lemma per action *)

LEMMA IngestAsyncStep ==
  ASSUME StoredInv, NEW text \in Texts, IngestAsync(text)
  PROVE  StoredInv'
<1> DEFINE new == [text |-> text, input |-> TRUE, processed |-> 0, status |-> "pending"]
<1>1. /\ new \in Task /\ new.processed = 0 /\ new.status # "completed"
      /\ tasks' = Append(tasks, new) /\ UNCHANGED <<entries, run, alarms, fails>>
  BY DEF IngestAsync, Task, Statuses
<1> HIDE DEF new
<1>2. /\ tasks' \in Seq(Task) /\ entries' \in Seq(Chunk)
      /\ Grown(tasks, entries, tasks', entries')
      /\ \A t \in DOMAIN tasks' : Kept(tasks'[t], entries')
  BY <1>1, TaskInserted
<1>3. \A w \in Workers : InHand(run'[w], tasks', entries')
  BY <1>1, <1>2, InHandStays DEF StoredInv
<1>4. Shape' /\ HasAlarm'
  BY <1>1, <1>2 DEF StoredInv, Shape, HasAlarm
<1> QED
  BY <1>2, <1>3, <1>4 DEF StoredInv

LEMMA IngestSyncStep ==
  ASSUME StoredInv, NEW text \in Texts, NEW h \in Syncs, IngestSync(h, text)
  PROVE  StoredInv'
<1> DEFINE new == [text |-> text, input |-> FALSE, processed |-> 0, status |-> "processing"]
           r == [phase |-> IF text = <<>> THEN "complete" ELSE "check", by |-> "sync",
                 task |-> Len(tasks) + 1,
                 at |-> IF text = <<>> THEN 0 ELSE 1, upto |-> Len(text)]
<1>1. /\ new \in Task /\ new.processed = 0 /\ new.status # "completed" /\ new.text = text
      /\ tasks' = Append(tasks, new) /\ UNCHANGED <<entries, alarms, fails>>
      /\ Becomes(h, r) /\ h \in Workers
  BY DEF IngestSync, Task, Statuses, Workers
<1>2. Len(text) \in Nat /\ DOMAIN text = 1..Len(text) /\ (text # <<>> => Len(text) >= 1)
  <2>1. text \in Seq({text[i] : i \in DOMAIN text})
    BY BatchAssumption
  <2> QED
    BY <2>1
<1>3. Len(tasks) \in Nat
  BY DEF StoredInv, Shape
<1>4. r \in Run /\ r.by = "sync"
  BY <1>2, <1>3 DEF Run, Phases
<1> HIDE DEF new
<1>5. /\ tasks' \in Seq(Task) /\ entries' \in Seq(Chunk)
      /\ Grown(tasks, entries, tasks', entries')
      /\ \A t \in DOMAIN tasks' : Kept(tasks'[t], entries')
      /\ Len(tasks) + 1 \in DOMAIN tasks' /\ tasks'[Len(tasks) + 1] = new
  BY <1>1, TaskInserted
<1>6. InHand(r, tasks', entries')
  <2>1. CASE text = <<>>
    BY <1>1, <1>2, <1>5, <2>1 DEF InHand, Behind
  <2>2. CASE text # <<>>
    BY <1>1, <1>2, <1>5, <2>2 DEF InHand, Behind
  <2> QED
    BY <2>1, <2>2
<1> HIDE DEF r
<1>7. Shape' /\ HasAlarm'
  BY <1>1, <1>4, <1>5, CallGoesOn DEF Shape, StoredInv
<1> QED
  BY <1>1, <1>5, <1>6, <1>7, WorkerStep

\* A call of a session begins.
LEMMA BeginStep ==
  ASSUME StoredInv, NEW s \in Sessions, Start(s) \/ Alarm(s)
  PROVE  StoredInv'
<1>1. /\ s \in Workers
      /\ UNCHANGED <<tasks, entries, alarms, fails>>
      /\ \E by \in {"start", "alarm"} :
            /\ Becomes(s, [Idle EXCEPT !.phase = "select", !.by = by])
            /\ by = "alarm" => alarms[s] > 0
  BY DEF Start, Alarm, Workers
<1>2. PICK by \in {"start", "alarm"} :
          /\ Becomes(s, [Idle EXCEPT !.phase = "select", !.by = by])
          /\ by = "alarm" => alarms[s] > 0
  BY <1>1
<1> DEFINE r == [Idle EXCEPT !.phase = "select", !.by = by]
<1>3. r \in Run /\ r.by = by /\ r.phase = "select"
  BY DEF Idle, Run, Phases
<1>4. Becomes(s, r)
  BY <1>2
<1> HIDE DEF r
<1>5. InHand(r, tasks', entries')
  BY <1>3 DEF InHand
<1>6. Shape' /\ HasAlarm'
  BY <1>1, <1>2, <1>3, <1>4 DEF StoredInv, Shape, HasAlarm, Becomes, Workers
<1> QED
  BY <1>1, <1>4, <1>5, <1>6, DatabaseSame, WorkerStep

LEMMA SelectStep ==
  ASSUME StoredInv, NEW s \in Workers, NEW t \in Open, Select(s, t)
  PROVE  StoredInv'
<1> DEFINE n == tasks[t].processed
           r == [run[s] EXCEPT !.phase = IF tasks[t].input THEN "mark" ELSE "no_input",
                               !.task = t, !.at = n, !.upto = BatchEnd(t, n)]
<1>1. Becomes(s, r) /\ UNCHANGED <<tasks, entries, alarms, fails>>
  BY DEF Select, ProcessedSoFar
<1>2. /\ t \in DOMAIN tasks /\ t \in Nat
      /\ n \in Nat /\ n <= Len(tasks[t].text) /\ Len(tasks[t].text) \in Nat
      /\ \A i \in 1..n : Holds(entries, tasks[t].text[i])
  <2>1. t \in DOMAIN tasks /\ t \in Nat
    BY DEF Open, StoredInv, Shape
  <2>2. n \in Nat /\ Len(tasks[t].text) \in Nat
    BY <2>1, TaskShape DEF Task, StoredInv
  <2> QED
    BY <2>1, <2>2 DEF StoredInv, Kept
<1>3. /\ BatchEnd(t, n) \in Nat /\ n <= BatchEnd(t, n)
      /\ BatchEnd(t, n) <= Len(tasks[t].text)
  BY <1>2, BatchAssumption DEF BatchEnd, Chunks
<1>4. /\ r \in Run /\ r.by = run[s].by /\ r.phase \in {"mark", "no_input"}
      /\ r.task = t /\ r.at = n /\ r.upto = BatchEnd(t, n)
  <2>1. run[s] \in Run
    BY DEF StoredInv, Shape
  <2> HIDE DEF n
  <2> QED
    BY <2>1, <1>2, <1>3 DEF Run, Phases
<1> HIDE DEF r
<1>5. InHand(r, tasks', entries')
  BY <1>1, <1>2, <1>3, <1>4 DEF InHand, Behind
<1>6. Shape' /\ HasAlarm'
  BY <1>1, <1>4, CallGoesOn DEF Shape, StoredInv
<1> QED
  BY <1>1, <1>5, <1>6, DatabaseSame, WorkerStep

\* A call ends and leaves the database as it is.
LEMMA EndStep ==
  ASSUME StoredInv, NEW w \in Workers, Finish(w, FALSE), fails' \in 0..MaxFails,
         UNCHANGED <<tasks, entries>>
  PROVE  StoredInv'
<1>1. Shape' /\ HasAlarm'
  BY CallEnds DEF Shape, StoredInv
<1> QED
  BY <1>1, IdleInHand, DatabaseSame, WorkerStep DEF Finish

\* The status of a task, as a run writes it.
LEMMA StatusStep ==
  ASSUME StoredInv, NEW w \in Workers, run[w].phase \in {"no_input", "mark", "complete"},
         NEW status \in Statuses, status = "completed" => run[w].phase = "complete",
         tasks' = [tasks EXCEPT ![run[w].task].status = status], entries' = entries
  PROVE  /\ tasks' \in Seq(Task) /\ entries' \in Seq(Chunk)
         /\ Grown(tasks, entries, tasks', entries')
         /\ \A t \in DOMAIN tasks' : Kept(tasks'[t], entries')
<1> DEFINE n == run[w].task
           new == [tasks[n] EXCEPT !.status = status]
<1>1. InHand(run[w], tasks, entries) /\ n \in DOMAIN tasks
  BY DEF StoredInv, InHand
<1>2. tasks[n] \in Task /\ Len(tasks[n].text) \in Nat /\ run[w].at \in Nat
  <2>1. run[w].at \in Nat
    BY DEF StoredInv, Shape, Run
  <2> QED
    BY <1>1, <2>1, TaskShape DEF StoredInv
<1>3. /\ new \in Task /\ new.text = tasks[n].text /\ new.processed = tasks[n].processed
      /\ new.status = status
  BY <1>2 DEF Task
<1>4. tasks' = [tasks EXCEPT ![n] = new]
  OBVIOUS
<1> HIDE DEF new
<1>5. status = "completed" => \A i \in 1..Len(tasks[n].text) : Holds(entries, tasks[n].text[i])
  BY <1>1, <1>2 DEF InHand, Behind
<1>6. Kept(new, entries)
  BY <1>1, <1>3, <1>5 DEF StoredInv, Kept
<1> QED
  BY <1>1, <1>3, <1>4, <1>6, TaskUpdated

LEMMA NoInputStep ==
  ASSUME StoredInv, NEW w \in Workers, NoInput(w)
  PROVE  StoredInv'
<1>1. /\ tasks' \in Seq(Task) /\ entries' \in Seq(Chunk)
      /\ Grown(tasks, entries, tasks', entries')
      /\ \A t \in DOMAIN tasks' : Kept(tasks'[t], entries')
  BY StatusStep DEF NoInput, Statuses
<1>2. Shape' /\ HasAlarm'
  BY <1>1, CallEnds DEF NoInput, Shape, StoredInv
<1> QED
  BY <1>1, <1>2, IdleInHand, WorkerStep DEF NoInput, Finish

LEMMA CompleteStep ==
  ASSUME StoredInv, NEW w \in Workers, Complete(w)
  PROVE  StoredInv'
<1>1. /\ tasks' \in Seq(Task) /\ entries' \in Seq(Chunk)
      /\ Grown(tasks, entries, tasks', entries')
      /\ \A t \in DOMAIN tasks' : Kept(tasks'[t], entries')
  BY StatusStep DEF Complete, Statuses
<1>2. Shape' /\ HasAlarm'
  BY <1>1, CallEnds DEF Complete, Shape, StoredInv
<1> QED
  BY <1>1, <1>2, IdleInHand, WorkerStep DEF Complete, Finish

LEMMA MarkStep ==
  ASSUME StoredInv, NEW w \in Workers, MarkProcessing(w)
  PROVE  StoredInv'
<1>1. /\ tasks' \in Seq(Task) /\ entries' \in Seq(Chunk)
      /\ Grown(tasks, entries, tasks', entries')
      /\ \A t \in DOMAIN tasks' : Kept(tasks'[t], entries')
  BY StatusStep DEF MarkProcessing, Statuses
<1> QED
  BY <1>1, ProceedStep DEF MarkProcessing

\* The phase of a run changes, and with it what it has behind it.
LEMMA PhaseStep ==
  ASSUME StoredInv, NEW w \in Workers, run[w].phase \in {"check", "create"},
         NEW phase \in {"create", "progress"}, Becomes(w, [run[w] EXCEPT !.phase = phase]),
         phase = "progress" => Holds(entries', tasks[run[w].task].text[run[w].at]),
         UNCHANGED <<alarms, fails>>,
         tasks' \in Seq(Task), entries' \in Seq(Chunk),
         Grown(tasks, entries, tasks', entries'),
         \A t \in DOMAIN tasks' : Kept(tasks'[t], entries')
  PROVE  StoredInv'
<1> DEFINE r == run[w]
           q == [run[w] EXCEPT !.phase = phase]
<1>1. r \in Run /\ InHand(r, tasks', entries') /\ InHand(r, tasks, entries)
  BY InHandStays DEF StoredInv, Shape
<1>2. /\ q \in Run /\ q.phase = phase /\ q.at = r.at /\ q.by = r.by
      /\ q.task = r.task /\ q.upto = r.upto /\ r.at \in Nat
  <2>1. run[w] \in Run
    BY <1>1
  <2> QED
    BY <2>1 DEF Run, Phases
<1>3. Becomes(w, q)
  OBVIOUS
<1> HIDE DEF q
<1>4. r.task \in DOMAIN tasks /\ tasks'[r.task].text = tasks[r.task].text
  BY <1>1 DEF InHand, Grown
<1>5. InHand(q, tasks', entries')
  BY <1>1, <1>2, <1>4 DEF InHand, Behind
<1>6. Shape' /\ HasAlarm'
  BY <1>2, <1>3, CallGoesOn DEF Shape, StoredInv
<1> QED
  BY <1>3, <1>5, <1>6, WorkerStep

LEMMA CheckStep ==
  ASSUME StoredInv, NEW w \in Workers, Check(w)
  PROVE  StoredInv'
<1>1. PICK phase \in {"create", "progress"} :
          /\ Becomes(w, [run[w] EXCEPT !.phase = phase])
          /\ phase = "progress" => Holds(entries, tasks[run[w].task].text[run[w].at])
  BY DEF Check, IsDuplicate, Chunks, Holds
<1>2. run[w].phase = "check" /\ UNCHANGED <<tasks, entries, alarms, fails>>
  BY DEF Check
<1> QED
  BY <1>1, <1>2, DatabaseSame, PhaseStep

LEMMA CreateStep ==
  ASSUME StoredInv, NEW w \in Workers, Create(w)
  PROVE  StoredInv'
<1> DEFINE r == run[w]
           chunk == tasks[r.task].text[r.at]
<1>1. /\ r.phase = "create" /\ Becomes(w, [r EXCEPT !.phase = "progress"])
      /\ entries' = Append(entries, chunk) /\ UNCHANGED <<tasks, alarms, fails>>
  BY DEF Create, Chunks
<1>2. chunk \in Chunk
  <2>1. /\ r.task \in DOMAIN tasks /\ r.at >= 1 /\ r.at <= r.upto
        /\ r.upto <= Len(tasks[r.task].text)
    BY <1>1 DEF StoredInv, InHand
  <2>2. r.at \in Nat /\ r.upto \in Nat
    BY DEF StoredInv, Shape, Run
  <2>3. /\ tasks[r.task].text \in Texts /\ Len(tasks[r.task].text) \in Nat
        /\ DOMAIN tasks[r.task].text = 1..Len(tasks[r.task].text)
    BY <2>1, TaskShape DEF StoredInv
  <2>4. r.at \in DOMAIN tasks[r.task].text
    BY <2>1, <2>2, <2>3
  <2> QED
    BY <2>3, <2>4 DEF Chunk
<1> HIDE DEF chunk
<1>3. /\ tasks' \in Seq(Task) /\ entries' \in Seq(Chunk)
      /\ Grown(tasks, entries, tasks', entries')
      /\ \A t \in DOMAIN tasks' : Kept(tasks'[t], entries')
      /\ Holds(entries', chunk)
  BY <1>1, <1>2, EntryInserted
<1> QED
  BY <1>1, <1>3, PhaseStep DEF chunk

LEMMA ProgressStep ==
  ASSUME StoredInv, NEW w \in Workers, Progress(w)
  PROVE  StoredInv'
<1> DEFINE n == run[w].task
           new == [tasks[n] EXCEPT !.processed = run[w].at]
<1>1. /\ run[w].phase = "progress" /\ Proceed(w) /\ UNCHANGED <<entries, fails>>
      /\ tasks' = [tasks EXCEPT ![n] = new]
  BY DEF Progress, Recorded
<1>2. InHand(run[w], tasks, entries) /\ n \in DOMAIN tasks
  BY <1>1 DEF StoredInv, InHand
<1>3. tasks[n] \in Task /\ Len(tasks[n].text) \in Nat
  BY <1>2, TaskShape DEF StoredInv
<1>4. run[w].at \in Nat /\ run[w].upto \in Nat
  BY DEF StoredInv, Shape, Run
<1>5. /\ new \in Task /\ new.text = tasks[n].text /\ new.processed = run[w].at
      /\ new.status = tasks[n].status
  BY <1>3, <1>4 DEF Task
<1> HIDE DEF new
<1>6. Kept(new, entries)
  BY <1>1, <1>2, <1>3, <1>4, <1>5 DEF StoredInv, Kept, InHand, Behind
<1>7. /\ tasks' \in Seq(Task) /\ entries' \in Seq(Chunk)
      /\ Grown(tasks, entries, tasks', entries')
      /\ \A t \in DOMAIN tasks' : Kept(tasks'[t], entries')
  BY <1>1, <1>2, <1>5, <1>6, TaskUpdated
<1> QED
  BY <1>1, <1>7, ProceedStep

\* The isolate is lost: the alarms stay.
LEMMA CrashStep ==
  ASSUME StoredInv, NEW w \in Workers, Crash(w)
  PROVE  StoredInv'
<1>1. UNCHANGED <<tasks, entries, alarms>> /\ Becomes(w, Idle) /\ fails' \in 0..MaxFails
  BY BatchAssumption DEF Crash, StoredInv, Shape
<1>2. Idle \in Run /\ Idle.by = "none"
  BY DEF Idle, Run, Phases
<1>3. Shape' /\ HasAlarm'
  BY <1>1, <1>2 DEF StoredInv, Shape, HasAlarm, Becomes, Workers
<1> QED
  BY <1>1, <1>3, IdleInHand, DatabaseSame, WorkerStep

-----------------------------------------------------------------------------
\* Every step keeps the invariant: one case per action.
LEMMA NextStoredInv == StoredInv /\ [Next]_vars => StoredInv'
<1> SUFFICES ASSUME StoredInv, [Next]_vars PROVE StoredInv'
  OBVIOUS
<1>1. ASSUME NEW w \in Workers, SelectNone(w) PROVE StoredInv'
  BY <1>1, EndStep DEF SelectNone, StoredInv, Shape
<1>2. ASSUME NEW w \in Workers, Refuse(w) PROVE StoredInv'
  BY <1>2, EndStep DEF Refuse, StoredInv, Shape
<1>3. ASSUME NEW w \in Workers, Throw(w) PROVE StoredInv'
  <2>1. fails' \in 0..MaxFails
    BY <1>3, BatchAssumption DEF Throw, StoredInv, Shape
  <2> QED
    BY <1>3, <2>1, EndStep DEF Throw
<1>4. CASE UNCHANGED vars
  BY <1>4 DEF vars, StoredInv, Shape, HasAlarm
<1> QED
  BY <1>1, <1>2, <1>3, <1>4, IngestAsyncStep, IngestSyncStep, BeginStep, SelectStep,
     NoInputStep, CompleteStep, MarkStep, CheckStep, CreateStep, ProgressStep, CrashStep
     DEF Next, Step

LEMMA IngestionStored == Spec => []StoredInv
  BY InitStoredInv, NextStoredInv, PTL DEF Spec

-----------------------------------------------------------------------------
\* Types, and the places of the runs in their texts.
THEOREM IngestionTypeCorrect == Spec => []TypeOK
<1>1. ASSUME StoredInv PROVE TypeOK
  <2>1. \A t \in DOMAIN tasks : tasks[t].processed <= Len(Chunks(t))
    BY <1>1 DEF StoredInv, Kept, Chunks
  <2>2. ASSUME NEW w \in Workers, run[w].phase \notin {"idle", "select"}
        PROVE  /\ run[w].task \in DOMAIN tasks
               /\ run[w].at <= run[w].upto /\ run[w].upto <= Len(Chunks(run[w].task))
    BY <1>1, <2>2 DEF StoredInv, InHand, Chunks
  <2> QED
    BY <1>1, <2>1, <2>2
       DEF TypeOK, StoredInv, Shape, Task, Statuses, Chunk, Run, Phases
<1> QED
  BY <1>1, IngestionStored, PTL

\* The UPDATE of processed_items never counts a chunk that no entry holds, for any
\* number of sessions that process one task at once.
THEOREM CountedIsStored == Spec => []ProgressIsStored
<1>1. ASSUME StoredInv, NEW t \in DOMAIN tasks, NEW i \in 1..tasks[t].processed
      PROVE  i \in DOMAIN Chunks(t) /\ IsDuplicate(Chunks(t)[i])
  <2>1. /\ DOMAIN tasks[t].text = 1..Len(tasks[t].text) /\ Len(tasks[t].text) \in Nat
        /\ tasks[t] \in Task
    BY <1>1, TaskShape DEF StoredInv
  <2>2. tasks[t].processed \in Nat
    BY <2>1 DEF Task
  <2> QED
    BY <1>1, <2>1, <2>2 DEF StoredInv, Kept, Holds, Chunks, IsDuplicate
<1>2. StoredInv => ProgressIsStored
  BY <1>1 DEF ProgressIsStored
<1> QED
  BY <1>2, IngestionStored, PTL

\* A task is completed by a run that has the whole text behind it.
THEOREM CompletedAreStored == Spec => []CompletedIsStored
<1>1. ASSUME StoredInv, NEW t \in DOMAIN tasks, tasks[t].status = "completed",
             NEW i \in DOMAIN Chunks(t)
      PROVE  IsDuplicate(Chunks(t)[i])
  <2>1. DOMAIN tasks[t].text = 1..Len(tasks[t].text)
    BY <1>1, TaskShape DEF StoredInv
  <2> QED
    BY <1>1, <2>1 DEF StoredInv, Kept, Holds, Chunks, IsDuplicate
<1>2. StoredInv => CompletedIsStored
  BY <1>1 DEF CompletedIsStored
<1> QED
  BY <1>2, IngestionStored, PTL

-----------------------------------------------------------------------------
(* One worker *)

\* domain/ingestion.ts:122 takes it that no other run is there.
OneWorker == \A v, w \in Workers : v = w

\* The task in hand is open and counts no more than the run has reached; what is
\* about to be created is not there.
HandOpen(r, ts, es) ==
    r.phase \notin {"idle", "select"} =>
        /\ ts[r.task].status \in {"pending", "processing"}
        /\ ts[r.task].processed <= r.at
        /\ r.phase = "create" => ~Holds(es, ts[r.task].text[r.at])

SoloInv == NoDuplicates /\ \A w \in Workers : HandOpen(run[w], tasks, entries)

\* No task has lost progress or left its end.
Onward ==
    \A t \in DOMAIN tasks :
        /\ tasks'[t].processed >= tasks[t].processed
        /\ Ended(t) => tasks'[t].status = tasks[t].status

LEMMA InitSoloInv == Init => SoloInv
  BY DEF Init, SoloInv, NoDuplicates, HandOpen, Idle

\* There is only the run that this step changes.
LEMMA SoloStep ==
  ASSUME OneWorker, StoredInv, NEW w \in Workers, NEW r, Becomes(w, r),
         HandOpen(r, tasks', entries'), NoDuplicates'
  PROVE  SoloInv'
<1>1. ASSUME NEW v \in Workers PROVE HandOpen(run'[v], tasks', entries')
  BY DEF OneWorker, Becomes, StoredInv, Shape
<1> QED
  BY <1>1 DEF SoloInv

LEMMA SoloEnds ==
  ASSUME OneWorker, StoredInv, NEW w \in Workers, Becomes(w, Idle), NoDuplicates'
  PROVE  SoloInv'
<1>1. HandOpen(Idle, tasks', entries')
  BY DEF HandOpen, Idle
<1> QED
  BY <1>1, SoloStep

LEMMA SameTasksOnward ==
  ASSUME StoredInv, tasks' = tasks
  PROVE  Onward
<1>1. ASSUME NEW t \in DOMAIN tasks PROVE tasks[t].processed \in Nat
  BY <1>1, TaskShape DEF StoredInv, Task
<1> QED
  BY <1>1 DEF Onward

LEMMA InsertOnward ==
  ASSUME StoredInv, NEW new \in Task, tasks' = Append(tasks, new)
  PROVE  /\ Onward
         /\ \A t \in DOMAIN tasks : tasks'[t] = tasks[t]
         /\ tasks'[Len(tasks) + 1] = new
<1>1. /\ \A t \in DOMAIN tasks : tasks'[t] = tasks[t]
      /\ tasks'[Len(tasks) + 1] = new
  BY DEF StoredInv, Shape
<1>2. ASSUME NEW t \in DOMAIN tasks PROVE tasks[t].processed \in Nat
  BY <1>2, TaskShape DEF StoredInv, Task
<1> QED
  BY <1>1, <1>2 DEF Onward

\* Of an open task the status or the count is updated.
LEMMA UpdateOnward ==
  ASSUME StoredInv, NEW n \in DOMAIN tasks, NEW new, ~Ended(n),
         new.processed >= tasks[n].processed, tasks' = [tasks EXCEPT ![n] = new]
  PROVE  /\ Onward
         /\ \A t \in DOMAIN tasks : tasks'[t] = IF t = n THEN new ELSE tasks[t]
<1>1. \A t \in DOMAIN tasks : tasks'[t] = IF t = n THEN new ELSE tasks[t]
  BY DEF StoredInv, Shape
<1>2. ASSUME NEW t \in DOMAIN tasks PROVE tasks[t].processed \in Nat
  BY <1>2, TaskShape DEF StoredInv, Task
<1> QED
  BY <1>1, <1>2 DEF Onward

\* What the run of w has in hand.
LEMMA InHandFacts ==
  ASSUME StoredInv, SoloInv, NEW w \in Workers, run[w].phase \notin {"idle", "select"}
  PROVE  LET n == run[w].task IN
         /\ n \in DOMAIN tasks /\ tasks[n] \in Task /\ tasks[n].processed \in Nat
         /\ run[w] \in Run /\ run[w].at \in Nat
         /\ ~Ended(n) /\ tasks[n].processed <= run[w].at
<1>1. run[w].task \in DOMAIN tasks
  BY DEF StoredInv, InHand
<1>2. tasks[run[w].task] \in Task
  BY <1>1, TaskShape DEF StoredInv
<1>3. tasks[run[w].task].processed \in Nat
  BY <1>2 DEF Task
<1>4. run[w] \in Run
  BY DEF StoredInv, Shape
<1>5. run[w].at \in Nat
  BY <1>4 DEF Run
<1>6. ~Ended(run[w].task) /\ tasks[run[w].task].processed <= run[w].at
  BY DEF SoloInv, HandOpen, Ended
<1> QED
  BY <1>1, <1>2, <1>3, <1>4, <1>5, <1>6

LEMMA SoloProceeds ==
  ASSUME OneWorker, StoredInv, SoloInv, NEW w \in Workers,
         run[w].phase \in {"mark", "progress"}, Proceed(w), entries' = entries,
         tasks'[run[w].task].status \in {"pending", "processing"},
         tasks'[run[w].task].processed \in Nat, tasks'[run[w].task].processed <= run[w].at
  PROVE  SoloInv'
<1> DEFINE r == run[w]
<1>1. r \in Run /\ r.at \in Nat
  BY InHandFacts
<1>2. NoDuplicates'
  BY DEF SoloInv, NoDuplicates
<1>3. CASE r.at < r.upto
  <2>1. PICK q : q = [r EXCEPT !.phase = "check", !.at = @ + 1]
    OBVIOUS
  <2>2. q.phase = "check" /\ q.at = r.at + 1 /\ q.task = r.task
    BY <1>1, <2>1, RunMovesOn
  <2>3. Becomes(w, q)
    BY <1>3, <2>1 DEF Proceed
  <2>4. HandOpen(q, tasks', entries')
    BY <1>1, <2>2 DEF HandOpen
  <2> QED
    BY <1>2, <2>3, <2>4, SoloStep
<1>4. CASE ~(r.at < r.upto) /\ NothingRemains(r)
  <2>1. PICK q : q = [r EXCEPT !.phase = "complete"]
    OBVIOUS
  <2>2. q.phase = "complete" /\ q.at = r.at /\ q.task = r.task
    BY <1>1, <2>1 DEF Run
  <2>3. Becomes(w, q)
    BY <1>4, <2>1 DEF Proceed
  <2>4. HandOpen(q, tasks', entries')
    BY <1>1, <2>2 DEF HandOpen
  <2> QED
    BY <1>2, <2>3, <2>4, SoloStep
<1>5. CASE ~(r.at < r.upto) /\ ~NothingRemains(r)
  BY <1>2, <1>5, SoloEnds DEF Proceed, Finish
<1> QED
  BY <1>3, <1>4, <1>5

\* A phase that leaves the tasks alone follows, and the task stays in hand.
LEMMA SoloPhase ==
  ASSUME OneWorker, StoredInv, SoloInv, NEW w \in Workers,
         run[w].phase \in {"check", "create"}, NEW phase \in {"create", "progress"},
         Becomes(w, [run[w] EXCEPT !.phase = phase]), tasks' = tasks, NoDuplicates',
         phase = "create" => ~Holds(entries', tasks[run[w].task].text[run[w].at])
  PROVE  SoloInv' /\ Onward
<1>1. PICK q : q = [run[w] EXCEPT !.phase = phase]
  OBVIOUS
<1>2. q.phase = phase /\ q.at = run[w].at /\ q.task = run[w].task
  BY <1>1, InHandFacts DEF Run
<1>3. HandOpen(q, tasks', entries')
  BY <1>2, InHandFacts DEF HandOpen, SoloInv
<1> QED
  BY <1>1, <1>3, SoloStep, SameTasksOnward

\* Of the one worker, a step that leaves the database alone.
LEMMA SoloQuiet ==
  ASSUME OneWorker, StoredInv, SoloInv, NEW w \in Workers, UNCHANGED <<tasks, entries>>,
         NEW r, Becomes(w, r), r.phase \in {"idle", "select"}
  PROVE  SoloInv' /\ Onward
<1>1. NoDuplicates' /\ HandOpen(r, tasks', entries')
  BY DEF SoloInv, NoDuplicates, HandOpen
<1> QED
  BY <1>1, SoloStep, SameTasksOnward

LEMMA SoloIngestAsync ==
  ASSUME OneWorker, StoredInv, SoloInv, NEW text \in Texts, IngestAsync(text)
  PROVE  SoloInv' /\ Onward
<1> DEFINE new == [text |-> text, input |-> TRUE, processed |-> 0, status |-> "pending"]
<1>1. new \in Task /\ tasks' = Append(tasks, new) /\ UNCHANGED <<entries, run>>
  BY DEF IngestAsync, Task, Statuses
<1> HIDE DEF new
<1>2. Onward /\ \A t \in DOMAIN tasks : tasks'[t] = tasks[t]
  BY <1>1, InsertOnward
<1>3. ASSUME NEW w \in Workers PROVE HandOpen(run[w], tasks', entries)
  <2>1. HandOpen(run[w], tasks, entries) /\ InHand(run[w], tasks, entries)
    BY DEF SoloInv, StoredInv
  <2> QED
    BY <1>2, <2>1 DEF HandOpen, InHand
<1>4. NoDuplicates'
  BY <1>1 DEF SoloInv, NoDuplicates
<1> QED
  BY <1>1, <1>2, <1>3, <1>4 DEF SoloInv

LEMMA SoloIngestSync ==
  ASSUME OneWorker, StoredInv, SoloInv, NEW text \in Texts, NEW h \in Syncs,
         IngestSync(h, text)
  PROVE  SoloInv' /\ Onward
<1> DEFINE new == [text |-> text, input |-> FALSE, processed |-> 0, status |-> "processing"]
           r == [phase |-> IF text = <<>> THEN "complete" ELSE "check", by |-> "sync",
                 task |-> Len(tasks) + 1,
                 at |-> IF text = <<>> THEN 0 ELSE 1, upto |-> Len(text)]
<1>1. /\ new \in Task /\ new.processed = 0 /\ new.status = "processing"
      /\ tasks' = Append(tasks, new) /\ entries' = entries
      /\ Becomes(h, r) /\ h \in Workers
  BY DEF IngestSync, Task, Statuses, Workers
<1> HIDE DEF new
<1>2. Onward /\ tasks'[Len(tasks) + 1] = new
  BY <1>1, InsertOnward
<1>3. HandOpen(r, tasks', entries')
  BY <1>1, <1>2 DEF HandOpen
<1>4. NoDuplicates'
  BY <1>1 DEF SoloInv, NoDuplicates
<1> HIDE DEF r
<1> QED
  BY <1>1, <1>2, <1>3, <1>4, SoloStep

LEMMA SoloSelect ==
  ASSUME OneWorker, StoredInv, SoloInv, NEW s \in Workers, NEW t \in Open, Select(s, t)
  PROVE  SoloInv' /\ Onward
<1> DEFINE r == [run[s] EXCEPT !.phase = IF tasks[t].input THEN "mark" ELSE "no_input",
                               !.task = t, !.at = tasks[t].processed,
                               !.upto = BatchEnd(t, tasks[t].processed)]
<1>1. Becomes(s, r) /\ UNCHANGED <<tasks, entries>>
  BY DEF Select, ProcessedSoFar
<1>2. t \in DOMAIN tasks /\ tasks[t].status \in {"pending", "processing"}
  BY DEF Open
<1>3. tasks[t].processed \in Nat
  BY <1>2, TaskShape DEF StoredInv, Task
<1>4. r.phase \in {"mark", "no_input"} /\ r.task = t /\ r.at = tasks[t].processed
  BY DEF StoredInv, Shape, Run
<1> HIDE DEF r
<1>5. HandOpen(r, tasks', entries')
  BY <1>1, <1>2, <1>3, <1>4 DEF HandOpen
<1>6. NoDuplicates'
  BY <1>1 DEF SoloInv, NoDuplicates
<1> QED
  BY <1>1, <1>5, <1>6, SoloStep, SameTasksOnward

\* The status of the task in hand is written.
LEMMA SoloStatus ==
  ASSUME OneWorker, StoredInv, SoloInv, NEW w \in Workers,
         run[w].phase \notin {"idle", "select"}, NEW status,
         tasks' = [tasks EXCEPT ![run[w].task].status = status]
  PROVE  /\ Onward
         /\ tasks'[run[w].task].status = status
         /\ tasks'[run[w].task].processed = tasks[run[w].task].processed
<1> DEFINE n == run[w].task
<1>1. n \in DOMAIN tasks /\ tasks[n] \in Task /\ ~Ended(n) /\ tasks[n].processed \in Nat
  BY InHandFacts
<1>2. PICK new : new = [tasks[n] EXCEPT !.status = status]
  OBVIOUS
<1>3. new.status = status /\ new.processed = tasks[n].processed
  BY <1>1, <1>2 DEF Task
<1>4. tasks' = [tasks EXCEPT ![n] = new]
  BY <1>2
<1>5. new.processed >= tasks[n].processed
  BY <1>1, <1>3
<1>6. Onward /\ tasks'[n] = new
  BY <1>1, <1>4, <1>5, UpdateOnward
<1> QED
  BY <1>3, <1>6

LEMMA SoloProgress ==
  ASSUME OneWorker, StoredInv, SoloInv, NEW w \in Workers, Progress(w)
  PROVE  SoloInv' /\ Onward
<1> DEFINE n == run[w].task
<1>1. run[w].phase = "progress" /\ Proceed(w) /\ entries' = entries
  BY DEF Progress
<1>2. /\ n \in DOMAIN tasks /\ tasks[n] \in Task /\ ~Ended(n) /\ tasks[n].processed \in Nat
      /\ run[w].at \in Nat /\ tasks[n].processed <= run[w].at
  BY <1>1, InHandFacts
<1>3. PICK new : new = [tasks[n] EXCEPT !.processed = run[w].at]
  OBVIOUS
<1>4. new.processed = run[w].at /\ new.status = tasks[n].status
  BY <1>2, <1>3 DEF Task
<1>5. tasks' = [tasks EXCEPT ![n] = new]
  BY <1>3 DEF Progress, Recorded
<1>6. Onward /\ tasks'[n] = new
  BY <1>2, <1>4, <1>5, UpdateOnward
<1>7. tasks[n].status \in {"pending", "processing"}
  BY <1>1 DEF SoloInv, HandOpen
<1> QED
  BY <1>1, <1>2, <1>4, <1>6, <1>7, SoloProceeds

LEMMA SoloCreate ==
  ASSUME OneWorker, StoredInv, SoloInv, NEW w \in Workers, Create(w)
  PROVE  SoloInv' /\ Onward
<1> DEFINE chunk == tasks[run[w].task].text[run[w].at]
<1>1. /\ run[w].phase = "create" /\ Becomes(w, [run[w] EXCEPT !.phase = "progress"])
      /\ entries' = Append(entries, chunk) /\ tasks' = tasks
  BY DEF Create, Chunks
<1>2. ~Holds(entries, chunk)
  BY <1>1 DEF SoloInv, HandOpen
<1> HIDE DEF chunk
<1>3. entries \in Seq(Chunk)
  BY DEF StoredInv, Shape
<1>4. /\ Len(entries) \in Nat /\ DOMAIN entries = 1..Len(entries)
      /\ DOMAIN entries' = 1..(Len(entries) + 1)
      /\ \A i \in DOMAIN entries : entries'[i] = entries[i]
      /\ entries'[Len(entries) + 1] = chunk
  BY <1>1, <1>3
<1>5. NoDuplicates'
  BY <1>2, <1>4 DEF SoloInv, NoDuplicates, Holds
<1> QED
  BY <1>1, <1>5, SoloPhase

\* Every step of the one worker, or beside it.
LEMMA NextSoloInv ==
  ASSUME OneWorker, StoredInv, SoloInv, [Next]_vars
  PROVE  SoloInv' /\ Onward
<1>1. ASSUME NEW s \in Sessions, Start(s) \/ Alarm(s) PROVE SoloInv' /\ Onward
  <2>1. PICK r : Becomes(s, r) /\ r.phase = "select"
    <3>1. [Idle EXCEPT !.phase = "select", !.by = "start"].phase = "select"
          /\ [Idle EXCEPT !.phase = "select", !.by = "alarm"].phase = "select"
      BY DEF Idle
    <3> QED
      BY <1>1, <3>1 DEF Start, Alarm
  <2>2. s \in Workers /\ UNCHANGED <<tasks, entries>>
    BY <1>1 DEF Start, Alarm, Workers
  <2> QED
    BY <2>1, <2>2, SoloQuiet
<1>2. ASSUME NEW w \in Workers, SelectNone(w) \/ Refuse(w) \/ Throw(w) \/ Crash(w)
      PROVE  SoloInv' /\ Onward
  <2>1. Becomes(w, Idle) /\ UNCHANGED <<tasks, entries>>
    BY <1>2 DEF SelectNone, Refuse, Throw, Crash, Finish
  <2>2. Idle.phase = "idle"
    BY DEF Idle
  <2> QED
    BY <2>1, <2>2, SoloQuiet
<1>3. ASSUME NEW w \in Workers, NoInput(w) \/ Complete(w)
      PROVE  SoloInv' /\ Onward
  <2>1. Onward
    BY <1>3, SoloStatus DEF NoInput, Complete
  <2>2. NoDuplicates' /\ Becomes(w, Idle)
    BY <1>3 DEF NoInput, Complete, Finish, SoloInv, NoDuplicates
  <2> QED
    BY <2>1, <2>2, SoloEnds
<1>4. ASSUME NEW w \in Workers, MarkProcessing(w)
      PROVE  SoloInv' /\ Onward
  <2>1. /\ Onward
        /\ tasks'[run[w].task].status = "processing"
        /\ tasks'[run[w].task].processed = tasks[run[w].task].processed
    BY <1>4, SoloStatus DEF MarkProcessing
  <2>2. tasks[run[w].task].processed \in Nat /\ tasks[run[w].task].processed <= run[w].at
    BY <1>4, InHandFacts DEF MarkProcessing
  <2> QED
    BY <1>4, <2>1, <2>2, SoloProceeds DEF MarkProcessing
<1>5. ASSUME NEW w \in Workers, Check(w)
      PROVE  SoloInv' /\ Onward
  <2>1. PICK phase \in {"create", "progress"} :
            /\ Becomes(w, [run[w] EXCEPT !.phase = phase])
            /\ phase = "create" => ~Holds(entries, tasks[run[w].task].text[run[w].at])
    BY <1>5 DEF Check, IsDuplicate, Chunks, Holds
  <2>2. run[w].phase = "check" /\ UNCHANGED <<tasks, entries>> /\ NoDuplicates'
    BY <1>5 DEF Check, SoloInv, NoDuplicates
  <2> QED
    BY <2>1, <2>2, SoloPhase
<1>6. CASE UNCHANGED vars
  <2>1. SoloInv'
    BY <1>6 DEF vars, SoloInv, NoDuplicates
  <2> QED
    BY <1>6, <2>1, SameTasksOnward DEF vars
<1> QED
  BY <1>1, <1>2, <1>3, <1>4, <1>5, <1>6, SoloIngestAsync, SoloIngestSync, SoloSelect,
     SoloCreate, SoloProgress DEF Next, Step

\* Where no two runs overlap, retries store no content twice (spec 004, idempotent
\* ingestion); with two sessions TLC shows that they do.
THEOREM OneWorkerNeverDuplicates == ASSUME OneWorker PROVE Spec => []NoDuplicates
<1>1. StoredInv /\ SoloInv /\ [Next]_vars => SoloInv'
  BY NextSoloInv
<1>2. SoloInv => NoDuplicates
  BY DEF SoloInv
<1> QED
  BY <1>1, <1>2, InitSoloInv, IngestionStored, PTL DEF Spec

\* And no retry takes progress back, or touches a task that has ended.
THEOREM OneWorkerKeepsProgress == ASSUME OneWorker PROVE Spec => ProgressNeverLost
<1>1. StoredInv /\ SoloInv /\ [Next]_vars => SoloInv'
  BY NextSoloInv
<1>2. StoredInv /\ SoloInv /\ [Next]_vars =>
          [\A t \in DOMAIN tasks :
              /\ tasks'[t].processed >= tasks[t].processed
              /\ Ended(t) => tasks'[t].status = tasks[t].status]_vars
  BY NextSoloInv DEF Onward
<1> QED
  BY <1>1, <1>2, InitSoloInv, IngestionStored, PTL DEF Spec, ProgressNeverLost
=============================================================================
