------------------------ MODULE LanguageServerProofs ------------------------
(***************************************************************************)
(* What LanguageServer guarantees for any number of documents, texts,      *)
(* versions, requests and panics: what the index cache holds, which        *)
(* diagnostics a document shows, and who clears a built-in file's.         *)
(***************************************************************************)
EXTENDS LanguageServer, FiniteSetTheorems, TLAPS

USE NoneAssumption, BoundAssumption

-----------------------------------------------------------------------------
(***************************************************************************)
(* The inductive invariant.  What is cached and shown comes from answers,  *)
(* so the invariant follows an answer from the session it was computed in, *)
(* through the worker and the queue, to whoever awaits it: a job in the    *)
(* queue or the worker is the only one of its waiter, and names the text   *)
(* the waiter asked for.                                                   *)
(***************************************************************************)
Document == [text : Text, gen : Nat, version : Nat]
Analysis == [text : Text \cup {None}, read : Nat, cells : Nat]
Entry == [text : Text, dep : Nat, index : Analysis]
Diagnostics == [gen : Nat, version : Nat, index : Analysis]
TaskRecord ==
  [uri : Uri, pc : TaskPoints, text : Text \cup {None}, index : Analysis, dep : Nat]
HandlerPoints ==
  {"idle", "watched", "close index", "close files", "close uri", "await", "answered",
   "panicked"}
HandlerRecord ==
  [pc : HandlerPoints, uri : Uri \cup {None}, text : Text \cup {None}, again : SUBSET Uri,
   answer : Analysis, dep : Nat]
Job == [kind : {"close", "analyze"}, uri : Uri \cup {None}, text : Text \cup {None}, reply : Nat]
WorkerRecord == [pc : {"idle", "taken", "compiled", "one shot"}, job : Job, index : Analysis]

StateShaped ==
  /\ disk \in Nat /\ gens \in Nat /\ raced \in BOOLEAN /\ overtaken \in BOOLEAN
  /\ documents \in [Uri -> {None} \cup Document]
  /\ indexes \in [Uri -> {None} \cup Entry]
  /\ published \in [Uri -> BOOLEAN]
TasksShaped == tasks \in Seq(TaskRecord) /\ Len(tasks) = gens
HandlerShaped ==
  /\ handler \in HandlerRecord
  /\ handler.pc \notin {"idle", "watched"} => handler.uri \in Uri
  /\ handler.pc \in {"await", "answered"} => handler.text \in Text
QueueShaped == jobs \in Seq(Job) /\ \A k \in DOMAIN jobs : jobs[k].uri \in Uri
WorkerShaped ==
  /\ worker \in WorkerRecord
  /\ worker.pc # "idle" => worker.job.uri \in Uri
  /\ sessions \in [Uri -> {None} \cup Nat] /\ deps \in [Uri -> {None} \cup Nat]
ClientShaped ==
  shown \in [Uri -> {None} \cup Diagnostics] /\ shownFile \in {None} \cup Uri
Shaped ==
  StateShaped /\ TasksShaped /\ HandlerShaped /\ QueueShaped /\ WorkerShaped /\ ClientShaped

\* Whoever a job answers waits for it, and for that text.
Awaited(job) ==
  IF job.reply = 0
    THEN handler.pc = "await" /\ handler.uri = job.uri /\ handler.text = job.text
    ELSE /\ job.reply \in DOMAIN tasks /\ tasks[job.reply].pc = "await"
         /\ tasks[job.reply].uri = job.uri /\ tasks[job.reply].text = job.text
Analyzes(k) == k \in DOMAIN jobs /\ jobs[k].kind = "analyze"

JobsMatch ==
  /\ \A k : Analyzes(k) => Awaited(jobs[k])
  /\ \A j, k : Analyzes(j) /\ Analyzes(k) /\ jobs[j].reply = jobs[k].reply => j = k
  /\ worker.pc # "idle" =>
       Awaited(worker.job) /\ \A k : Analyzes(k) => jobs[k].reply # worker.job.reply

Publishing == {"publish", "files", "swap", "clear"}
Answered == {"answered", "check"} \cup Publishing
TextsMatch ==
  /\ \A g \in DOMAIN tasks : tasks[g].pc \in Answered => tasks[g].index.text = tasks[g].text
  /\ \A g \in DOMAIN tasks : tasks[g].pc \notin {"sleep", "done"} => tasks[g].text \in Text
  /\ \A g \in DOMAIN tasks : tasks[g].pc = "files" => Reports(g)
  /\ handler.pc = "answered" => handler.answer.text = handler.text
  /\ worker.pc \in {"compiled", "one shot"} => worker.index.text = worker.job.text

\* An open document's generation is a task's, which reads the document's text.
GensMatch ==
  \A u \in Uri : Open(u) =>
    /\ documents[u].gen \in DOMAIN tasks /\ tasks[documents[u].gen].uri = u
    /\ tasks[documents[u].gen].pc \notin {"sleep", "done"} =>
         tasks[documents[u].gen].text = documents[u].text

\* Unless the file changed under a compile, what a session retains is of the
\* version its dependencies record, and an answer of the one it is filed with.
AsRead(index, dep) == index.read = dep /\ index.cells = dep
ReadsMatch ==
  ~raced =>
    /\ \A g \in DOMAIN tasks : tasks[g].pc = "answered" => AsRead(tasks[g].index, tasks[g].dep)
    /\ handler.pc = "answered" => AsRead(handler.answer, handler.dep)
    /\ worker.pc \in {"compiled", "one shot"} => AsRead(worker.index, disk)
    /\ worker.pc = "taken" => sessions[worker.job.uri] \in {None, disk}
    /\ worker.pc = "compiled" => sessions[worker.job.uri] = disk
    /\ worker.pc = "one shot" => sessions[worker.job.uri] = None
    /\ \A u \in Uri : sessions[u] # None =>
         deps[u] = sessions[u] \/ (worker.pc = "compiled" /\ worker.job.uri = u)

PublishesCurrent ==
  ~overtaken =>
    \A g \in DOMAIN tasks : tasks[g].pc \in Publishing => Current(tasks[g].uri, g)

\* The version never falls, and the text changes with it.
ShownMatch ==
  ~overtaken => \A u \in Uri : shown[u] # None =>
    /\ Open(u) \/ Closing(u)
    /\ Open(u) => /\ shown[u].version <= documents[u].version
                  /\ shown[u].version = documents[u].version =>
                       shown[u].index.text = documents[u].text

\* The task on its way to the list of files is one that reports.
Owned(u) ==
  \/ published[u]
  \/ \E g \in DOMAIN tasks : /\ tasks[g].uri = u
                             /\ tasks[g].pc = "clear" \/ (tasks[g].pc = "swap" /\ Reports(g))
  \/ handler.pc = "close files" /\ handler.uri = u
FilesOwned == ~overtaken /\ shownFile # None => Owned(shownFile)

IInv ==
  /\ Shaped /\ JobsMatch /\ TextsMatch /\ GensMatch /\ ReadsMatch /\ PublishesCurrent
  /\ ShownMatch /\ FilesOwned /\ CachedIsWhatItsKeySays

LEMMA Starts == Init => IInv
<1>. SUFFICES ASSUME Init PROVE IInv
  OBVIOUS
<1>1. NoIndex \in Analysis
  BY DEF NoIndex, Analysis
<1>2. Idling \in WorkerRecord /\ Idling.pc = "idle"
  BY <1>1 DEF Idling, WorkerRecord, CloseJob, Job
<1>3. handler \in HandlerRecord /\ handler.pc = "idle"
  BY <1>1 DEF Init, HandlerRecord, HandlerPoints
<1>4. tasks = <<>> /\ DOMAIN tasks = {} /\ jobs = <<>> /\ DOMAIN jobs = {}
  BY DEF Init
<1>5. Shaped
  <2>1. StateShaped /\ ClientShaped
    BY DEF Init, StateShaped, ClientShaped
  <2>2. TasksShaped /\ QueueShaped /\ HandlerShaped
    BY <1>3, <1>4 DEF Init, TasksShaped, QueueShaped, HandlerShaped
  <2>3. WorkerShaped
    BY <1>2 DEF Init, WorkerShaped
  <2>. QED
    BY <2>1, <2>2, <2>3 DEF Shaped
<1>6. JobsMatch /\ TextsMatch /\ GensMatch /\ PublishesCurrent /\ FilesOwned
  BY <1>2, <1>3, <1>4 DEF Init, JobsMatch, Analyzes, TextsMatch, GensMatch, Open,
     PublishesCurrent, FilesOwned
<1>7. ReadsMatch /\ ShownMatch /\ CachedIsWhatItsKeySays
  BY <1>2, <1>3, <1>4 DEF Init, ReadsMatch, ShownMatch, CachedIsWhatItsKeySays
<1>. QED
  BY <1>5, <1>6, <1>7 DEF IInv

-----------------------------------------------------------------------------
\* Sequences.

LEMMA Replaced ==
    ASSUME TasksShaped, NEW g \in DOMAIN tasks, NEW r \in TaskRecord,
           tasks' = [tasks EXCEPT ![g] = r]
    PROVE  /\ tasks' \in Seq(TaskRecord) /\ Len(tasks') = Len(tasks)
           /\ DOMAIN tasks' = DOMAIN tasks /\ tasks'[g] = r
           /\ \A h \in DOMAIN tasks : h # g => tasks'[h] = tasks[h]
  BY DEF TasksShaped

LEMMA TaskIs ==
    ASSUME TasksShaped, NEW g \in DOMAIN tasks
    PROVE  tasks[g] \in TaskRecord /\ g \in Nat /\ g # 0 /\ g <= Len(tasks)
  BY DEF TasksShaped

LEMMA Queued ==
    ASSUME QueueShaped, NEW job \in Job, job.uri \in Uri, jobs' = Sent(job)
    PROVE  /\ QueueShaped'
           /\ \A k : Analyzes(k)' =>
                \/ k = Len(jobs) + 1 /\ jobs'[k] = job
                \/ Analyzes(k) /\ jobs'[k] = jobs[k]
<1>1. CASE jobs' = jobs
  BY <1>1 DEF QueueShaped, Analyzes
<1>2. CASE jobs' = Append(jobs, job)
  BY <1>2 DEF QueueShaped, Analyzes
<1>. QED
  BY <1>1, <1>2 DEF Sent

LEMMA Unqueued ==
    ASSUME QueueShaped, jobs # <<>>, jobs' = Tail(jobs)
    PROVE  /\ QueueShaped' /\ Head(jobs) = jobs[1] /\ 1 \in DOMAIN jobs
           /\ \A k : Analyzes(k)' => /\ k + 1 # 1 /\ k \in Nat
                                    /\ Analyzes(k + 1) /\ jobs'[k] = jobs[k + 1]
  BY DEF QueueShaped, Analyzes

-----------------------------------------------------------------------------
\* What a step does to the jobs, texts and generations, whichever it is.

\* No entry is filed, and a document with an entry stays open or closing.
LEMMA CachedKept ==
    ASSUME CachedIsWhatItsKeySays, raced => raced',
           \A u \in Uri : indexes'[u] # None =>
             /\ indexes'[u] = indexes[u]
             /\ Open(u) \/ (handler.pc = "close index" /\ handler.uri = u) =>
                  Open(u)' \/ (handler'.pc = "close index" /\ handler'.uri = u)
    PROVE  CachedIsWhatItsKeySays'
<1>. SUFFICES ASSUME NEW u \in Uri, indexes'[u] # None
              PROVE  /\ Open(u)' \/ (handler'.pc = "close index" /\ handler'.uri = u)
                     /\ indexes'[u].text \notin Uncacheable
                     /\ indexes'[u].index.text = indexes'[u].text
                     /\ ~raced' =>
                          {indexes'[u].index.read, indexes'[u].index.cells} = {indexes'[u].dep}
  BY DEF CachedIsWhatItsKeySays
<1>1. indexes[u] # None /\ indexes'[u] = indexes[u]
  OBVIOUS
<1>2. /\ Open(u) \/ (handler.pc = "close index" /\ handler.uri = u)
      /\ indexes[u].text \notin Uncacheable
      /\ indexes[u].index.text = indexes[u].text
      /\ ~raced => {indexes[u].index.read, indexes[u].index.cells} = {indexes[u].dep}
  BY <1>1 DEF CachedIsWhatItsKeySays
<1>. QED
  BY <1>1, <1>2

\* One analysis moves on; it neither begins nor ends to wait.
LEMMA TaskMoves ==
    ASSUME IInv, NEW g \in DOMAIN tasks, NEW r \in TaskRecord,
           tasks' = [tasks EXCEPT ![g] = r], r.uri = tasks[g].uri,
           tasks[g].pc # "await", r.pc \notin {"sleep", "await", "answered"},
           r.pc \in Answered => r.index.text = r.text,
           r.pc # "done" => r.text \in Text,
           r.pc # "done" /\ Current(r.uri, g) => r.text = documents[r.uri].text,
           r.pc \in Publishing => overtaken \/ Current(r.uri, g),
           r.pc = "files" => r.index.text \in Reporting,
           UNCHANGED <<disk, documents, gens, handler, jobs, thread, raced, overtaken>>
    PROVE  /\ TasksShaped' /\ HandlerShaped' /\ QueueShaped' /\ WorkerShaped'
           /\ JobsMatch' /\ TextsMatch' /\ GensMatch' /\ ReadsMatch' /\ PublishesCurrent'
<1>1. /\ tasks' \in Seq(TaskRecord) /\ Len(tasks') = Len(tasks)
      /\ DOMAIN tasks' = DOMAIN tasks /\ tasks'[g] = r
      /\ \A h \in DOMAIN tasks : h # g => tasks'[h] = tasks[h]
  BY Replaced DEF IInv, Shaped
<1>2. TasksShaped' /\ HandlerShaped' /\ QueueShaped' /\ WorkerShaped'
  BY <1>1 DEF IInv, Shaped, TasksShaped, HandlerShaped, QueueShaped, WorkerShaped, thread
<1>3. JobsMatch'
  <2>1. \A job : Awaited(job) => Awaited(job)'
    BY <1>1 DEF Awaited
  <2>2. jobs' = jobs /\ worker' = worker /\ \A k : Analyzes(k)' <=> Analyzes(k)
    BY DEF thread, Analyzes
  <2>. QED
    BY <2>1, <2>2 DEF IInv, JobsMatch
<1>4. TextsMatch'
  BY <1>1 DEF IInv, TextsMatch, Answered, Publishing, Reports, thread
<1>5. GensMatch'
  <2>. SUFFICES ASSUME NEW u \in Uri, Open(u)
                PROVE  /\ documents[u].gen \in DOMAIN tasks
                       /\ tasks'[documents[u].gen].uri = u
                       /\ tasks'[documents[u].gen].pc \notin {"sleep", "done"} =>
                            tasks'[documents[u].gen].text = documents[u].text
    BY <1>1 DEF GensMatch, Open
  <2>1. CASE documents[u].gen = g
    BY <1>1, <2>1 DEF IInv, GensMatch, Current
  <2>2. CASE documents[u].gen # g
    BY <1>1, <2>2 DEF IInv, GensMatch
  <2>. QED
    BY <2>1, <2>2
<1>6. ReadsMatch'
  BY <1>1 DEF IInv, ReadsMatch, thread
<1>7. PublishesCurrent'
  BY <1>1 DEF IInv, PublishesCurrent, Current, Open
<1>. QED
  BY <1>2, <1>3, <1>4, <1>5, <1>6, <1>7

\* A new text, or the same again: a new generation and its analysis.
LEMMA ScheduleMoves ==
    ASSUME IInv, NEW u \in Uri, NEW t \in Text, NEW v \in Nat,
           Schedule(documents, u, t, v),
           Open(u) => \/ documents[u].version < v
                      \/ documents[u].version = v /\ documents[u].text = t,
           {handler.pc, handler'.pc} \subseteq {"idle", "watched"}, HandlerShaped',
           indexes' = indexes \/ (\E U \in SUBSET Uri : indexes' = [w \in Uri |->
                                     IF w \in U THEN None ELSE indexes[w]]),
           UNCHANGED <<disk, published, jobs, thread, client, raced>>
    PROVE  IInv'
<1>1. /\ gens' = gens + 1 /\ gens \in Nat /\ tasks' = Append(tasks, Task(u))
      /\ documents' = [documents EXCEPT ![u] = [text |-> t, gen |-> gens + 1, version |-> v]]
      /\ overtaken' = (overtaken \/ Overtaken(u))
  BY DEF Schedule, IInv, Shaped, StateShaped
<1>2. Task(u) \in TaskRecord /\ Task(u).uri = u /\ Task(u).pc = "sleep"
  BY DEF Task, TaskRecord, TaskPoints, NoIndex, Analysis
<1>3. /\ tasks' \in Seq(TaskRecord) /\ Len(tasks') = gens'
      /\ DOMAIN tasks' = DOMAIN tasks \cup {gens + 1} /\ gens + 1 \notin DOMAIN tasks
      /\ 0 \notin DOMAIN tasks'
      /\ tasks'[gens + 1] = Task(u) /\ \A g \in DOMAIN tasks : tasks'[g] = tasks[g]
  <2>. HIDE DEF Task
  <2>. QED
    BY <1>1, <1>2 DEF IInv, Shaped, TasksShaped
<1>4. /\ documents' \in [Uri -> {None} \cup Document]
      /\ documents'[u] = [text |-> t, gen |-> gens + 1, version |-> v] /\ Open(u)'
      /\ \A w \in Uri \ {u} : documents'[w] = documents[w] /\ (Open(w)' <=> Open(w))
  <2>1. [text |-> t, gen |-> gens + 1, version |-> v] \in Document
    BY <1>1 DEF Document
  <2>. QED
    BY <1>1, <2>1 DEF IInv, Shaped, StateShaped, Open, Document
<1>5. Shaped'
  <2>1. StateShaped'
    BY <1>1, <1>4 DEF IInv, Shaped, StateShaped
  <2>2. TasksShaped' /\ QueueShaped' /\ WorkerShaped' /\ ClientShaped'
    BY <1>1, <1>3 DEF IInv, Shaped, TasksShaped, QueueShaped, WorkerShaped, ClientShaped,
       thread, client
  <2>. QED
    BY <2>1, <2>2 DEF Shaped
<1>6. JobsMatch'
  <2>1. jobs' = jobs /\ worker' = worker /\ \A k : Analyzes(k)' <=> Analyzes(k)
    BY DEF thread, Analyzes
  <2>2. \A job : Awaited(job) => Awaited(job)'
    BY <1>3 DEF Awaited
  <2>. QED
    BY <2>1, <2>2 DEF IInv, JobsMatch
<1>7. TextsMatch'
  BY <1>2, <1>3 DEF IInv, TextsMatch, Answered, Publishing, Reports, thread
<1>8. GensMatch'
  BY <1>2, <1>3, <1>4 DEF IInv, GensMatch
<1>9. ReadsMatch'
  BY <1>2, <1>3 DEF IInv, ReadsMatch, thread
<1>10. PublishesCurrent'
  <2>. SUFFICES ASSUME ~overtaken, ~Overtaken(u), NEW g \in DOMAIN tasks',
                       tasks'[g].pc \in Publishing
                PROVE  Current(tasks[g].uri, g)'
    BY <1>1 DEF PublishesCurrent
  <2>1. g \in DOMAIN tasks /\ tasks'[g] = tasks[g] /\ tasks[g].uri # u
    BY <1>2, <1>3 DEF Overtaken, Publishing
  <2>2. tasks[g].uri \in Uri /\ Current(tasks[g].uri, g)
    BY <1>3, <2>1, TaskIs DEF IInv, Shaped, PublishesCurrent, TaskRecord
  <2>. QED
    BY <1>4, <2>1, <2>2 DEF Current
<1>11. ShownMatch'
  <2>. SUFFICES ASSUME ~overtaken, NEW w \in Uri, shown[w] # None
                PROVE  /\ Open(w)' \/ Closing(w)'
                       /\ Open(w)' => /\ shown[w].version <= documents'[w].version
                                      /\ shown[w].version = documents'[w].version =>
                                           shown[w].index.text = documents'[w].text
    BY <1>1 DEF ShownMatch, client
  <2>1. ~Closing(w)
    BY DEF Closing
  <2>2. /\ Open(w) /\ shown[w].version <= documents[w].version
        /\ shown[w].version = documents[w].version => shown[w].index.text = documents[w].text
    BY <2>1 DEF IInv, ShownMatch
  <2>3. CASE w # u
    BY <1>4, <2>2, <2>3
  <2>4. CASE w = u
    <3>1. shown[u].version \in Nat /\ documents[u].version \in Nat
      BY <2>2, <2>4 DEF IInv, Shaped, StateShaped, ClientShaped, Open, Document, Diagnostics
    <3>. QED
      BY <1>4, <2>2, <2>4, <3>1
  <2>. QED
    BY <2>3, <2>4
<1>12. FilesOwned'
  <2>1. shownFile' = shownFile /\ published' = published /\ (overtaken => overtaken')
    BY <1>1 DEF client
  <2>2. \A w : Owned(w) => Owned(w)'
    BY <1>3, <2>1 DEF Owned, Reports
  <2>. QED
    BY <2>1, <2>2 DEF IInv, FilesOwned
<1>13. CachedIsWhatItsKeySays'
  <2>1. \A w \in Uri : indexes'[w] # None =>
          indexes'[w] = indexes[w] /\ (Open(w) => Open(w)') /\ handler.pc # "close index"
    BY <1>4 DEF IInv, Shaped, StateShaped
  <2>. QED
    BY <2>1, CachedKept DEF IInv
<1>. QED
  BY <1>5, <1>6, <1>7, <1>8, <1>9, <1>10, <1>11, <1>12, <1>13 DEF IInv

\* The answer is filed, if at all, for the open document, under its text.
LEMMA AnswerFiled ==
    ASSUME Shaped, CachedIsWhatItsKeySays, NEW u \in Uri, NEW t \in Text, NEW answer,
           answer.index \in Analysis, answer.dep \in Nat, answer.index.text = t,
           ~raced => AsRead(answer.index, answer.dep),
           indexes' = Stored(u, t, answer), documents' = documents, raced' = raced,
           handler' = handler \/ handler.pc # "close index"
    PROVE  CachedIsWhatItsKeySays' /\ indexes' \in [Uri -> {None} \cup Entry]
<1>. DEFINE e == [text |-> t, dep |-> answer.dep, index |-> answer.index]
<1>1. \A w \in Uri : Open(w)' <=> Open(w)
  BY DEF Open
<1>2. CASE indexes' = indexes
  <2>1. indexes' \in [Uri -> {None} \cup Entry]
    BY <1>2 DEF Shaped, StateShaped
  <2>. QED
    BY <1>1, <1>2, <2>1, CachedKept
<1>3. CASE t \notin Uncacheable /\ Open(u) /\ indexes' = [indexes EXCEPT ![u] = e]
  <2>1. /\ e \in Entry /\ e.text = t /\ e.dep = answer.dep /\ e.index = answer.index
        /\ e.index.text = t
        /\ ~raced => e.index.read = e.dep /\ e.index.cells = e.dep
    BY DEF Entry, AsRead
  <2>. HIDE DEF e
  <2>2. indexes' \in [Uri -> {None} \cup Entry] /\ indexes'[u] = e
        /\ \A w \in Uri \ {u} : indexes'[w] = indexes[w]
    BY <1>3, <2>1 DEF Shaped, StateShaped
  <2>3. ASSUME NEW w \in Uri, indexes'[w] # None
        PROVE  /\ Open(w)' \/ (handler'.pc = "close index" /\ handler'.uri = w)
               /\ indexes'[w].text \notin Uncacheable
               /\ indexes'[w].index.text = indexes'[w].text
               /\ ~raced' => {indexes'[w].index.read, indexes'[w].index.cells}
                               = {indexes'[w].dep}
    <3>1. CASE w = u
      BY <1>1, <1>3, <2>1, <2>2, <3>1
    <3>2. CASE w # u
      <4>1. indexes'[w] = indexes[w] /\ indexes[w] # None
        BY <2>2, <2>3, <3>2
      <4>2. /\ Open(w) \/ (handler.pc = "close index" /\ handler.uri = w)
            /\ indexes[w].text \notin Uncacheable
            /\ indexes[w].index.text = indexes[w].text
            /\ ~raced => {indexes[w].index.read, indexes[w].index.cells} = {indexes[w].dep}
        BY <4>1 DEF CachedIsWhatItsKeySays
      <4>. QED
        BY <1>1, <4>1, <4>2
    <3>. QED
      BY <3>1, <3>2
  <2>. QED
    BY <2>2, <2>3 DEF CachedIsWhatItsKeySays
<1>. QED
  BY <1>2, <1>3 DEF Stored

\* The handler turns to something else, or to nothing.
LEMMA HandlerTurns ==
    ASSUME IInv, {handler.pc, handler'.pc} \subseteq {"idle", "watched", "panicked"},
           HandlerShaped', indexes' \in [Uri -> {None} \cup Entry],
           \A u \in Uri : indexes'[u] # None => indexes'[u] = indexes[u],
           UNCHANGED <<disk, documents, published, gens, tasks, jobs, thread, client, raced,
                       overtaken>>
    PROVE  IInv'
<1>1. Shaped'
  <2>1. StateShaped'
    BY DEF IInv, Shaped, StateShaped
  <2>. QED
    BY <2>1 DEF IInv, Shaped, TasksShaped, QueueShaped, WorkerShaped, ClientShaped, thread, client
<1>2. JobsMatch'
  <2>1. \A job : Awaited(job) => Awaited(job)'
    BY DEF Awaited
  <2>2. jobs' = jobs /\ worker' = worker /\ \A k : Analyzes(k)' <=> Analyzes(k)
    BY DEF thread, Analyzes
  <2>. QED
    BY <2>1, <2>2 DEF IInv, JobsMatch
<1>3. TextsMatch' /\ ReadsMatch'
  BY DEF IInv, TextsMatch, ReadsMatch, Reports, thread
<1>4. GensMatch' /\ PublishesCurrent'
  BY DEF IInv, GensMatch, PublishesCurrent, Open, Current
<1>5. ShownMatch'
  <2>1. \A u : ~Closing(u)
    BY DEF Closing
  <2>. QED
    BY <2>1 DEF IInv, ShownMatch, Open, client
<1>6. FilesOwned'
  BY DEF IInv, FilesOwned, Owned, Reports, client
<1>7. CachedIsWhatItsKeySays'
  <2>1. \A u \in Uri : indexes'[u] # None => indexes'[u] = indexes[u] /\ (Open(u)' <=> Open(u))
    BY DEF Open
  <2>. QED
    BY <2>1, CachedKept DEF IInv
<1>. QED
  BY <1>1, <1>2, <1>3, <1>4, <1>5, <1>6, <1>7 DEF IInv

-----------------------------------------------------------------------------
\* The handler's steps.

LEMMA MessageKeeps ==
    ASSUME IInv, NEW u \in Uri, DidOpen(u) \/ DidChange(u) \/ DidSave(u)
    PROVE  IInv'
<1>1. /\ handler' = handler /\ handler.pc = "idle" /\ HandlerShaped'
      /\ UNCHANGED <<disk, published, jobs, thread, client, raced>>
  BY DEF DidOpen, DidChange, DidSave, HandlerIdle, IInv, Shaped, HandlerShaped
<1>2. Open(u) => documents[u] \in Document /\ documents[u].version \in Nat /\ documents[u].text \in Text
  BY DEF IInv, Shaped, StateShaped, Open, Document
<1>3. CASE DidOpen(u)
  <2>1. PICK t \in Text : Schedule(documents, u, t, 1)
    BY <1>3 DEF DidOpen
  <2>2. indexes' = [w \in Uri |-> IF w \in {u} THEN None ELSE indexes[w]]
    BY <1>3 DEF DidOpen, IInv, Shaped, StateShaped
  <2>3. ~Open(u) /\ {u} \in SUBSET Uri /\ 1 \in Nat
    BY <1>3 DEF DidOpen
  <2>. QED
    BY <1>1, <2>1, <2>2, <2>3, ScheduleMoves
<1>4. CASE DidChange(u)
  <2>1. PICK t \in Text : Schedule(documents, u, t, documents[u].version + 1)
    BY <1>4 DEF DidChange
  <2>2. indexes' = indexes /\ Open(u)
    BY <1>4 DEF DidChange
  <2>. QED
    BY <1>1, <1>2, <2>1, <2>2, ScheduleMoves
<1>5. CASE DidSave(u)
  <2>1. Schedule(documents, u, documents[u].text, documents[u].version)
    BY <1>5 DEF DidSave, Reanalyze
  <2>2. indexes' = indexes /\ Open(u)
    BY <1>5 DEF DidSave
  <2>. QED
    BY <1>1, <1>2, <2>1, <2>2, ScheduleMoves
<1>. QED
  BY <1>3, <1>4, <1>5

LEMMA WatchedKeeps ==
    ASSUME IInv, DidChangeWatchedFiles \/ WatchedStep
    PROVE  IInv'
<1>1. handler \in HandlerRecord
  BY DEF IInv, Shaped, HandlerShaped
<1>2. CASE DidChangeWatchedFiles
  <2>. DEFINE affected == {u \in Uri : indexes[u] # None}
  <2>1. handler' = [handler EXCEPT !.pc = "watched", !.again = affected] /\ handler.pc = "idle"
    BY <1>2 DEF DidChangeWatchedFiles, HandlerIdle
  <2>2. affected \in SUBSET Uri
    OBVIOUS
  <2>. HIDE DEF affected
  <2>3. HandlerShaped' /\ handler'.pc = "watched"
    BY <1>1, <2>1, <2>2 DEF HandlerShaped, HandlerRecord, HandlerPoints
  <2>4. /\ indexes' \in [Uri -> {None} \cup Entry]
        /\ \A u \in Uri : indexes'[u] # None => indexes'[u] = indexes[u]
    BY <1>2 DEF DidChangeWatchedFiles
  <2>. QED
    BY <1>2, <2>1, <2>3, <2>4, HandlerTurns DEF DidChangeWatchedFiles
<1>3. CASE WatchedStep /\ handler.again = {}
  <2>1. handler' = [handler EXCEPT !.pc = "idle"] /\ handler.pc = "watched"
    BY <1>3 DEF WatchedStep
  <2>2. HandlerShaped' /\ handler'.pc = "idle"
    BY <1>1, <2>1 DEF HandlerShaped, HandlerRecord, HandlerPoints
  <2>. QED
    BY <1>3, <2>1, <2>2, HandlerTurns DEF WatchedStep, IInv, Shaped, StateShaped
<1>4. CASE WatchedStep /\ handler.again # {}
  <2>1. PICK u \in handler.again :
          /\ handler' = [handler EXCEPT !.again = handler.again \ {u}]
          /\ IF Open(u) THEN Reanalyze(u) ELSE UNCHANGED <<documents, gens, tasks, overtaken>>
    BY <1>4 DEF WatchedStep
  <2>2. u \in Uri /\ handler.again \ {u} \in SUBSET Uri /\ handler.pc = "watched"
    BY <1>1, <1>4 DEF HandlerRecord, WatchedStep
  <2>3. HandlerShaped' /\ handler'.pc = "watched"
    BY <1>1, <2>1, <2>2 DEF HandlerShaped, HandlerRecord, HandlerPoints
  <2>4. UNCHANGED <<disk, indexes, published, jobs, thread, client, raced>>
    BY <1>4 DEF WatchedStep
  <2>5. CASE ~Open(u)
    BY <2>1, <2>2, <2>3, <2>4, <2>5, HandlerTurns DEF IInv, Shaped, StateShaped
  <2>6. CASE Open(u)
    <3>1. documents[u].version \in Nat /\ documents[u].text \in Text
      BY <2>2, <2>6 DEF IInv, Shaped, StateShaped, Open, Document
    <3>. QED
      BY <2>1, <2>2, <2>3, <2>4, <2>6, <3>1, ScheduleMoves DEF Reanalyze
  <2>. QED
    BY <2>5, <2>6
<1>. QED
  BY <1>2, <1>3, <1>4

\* A handler that awaits nothing moves on.
LEMMA HandlerMoves ==
    ASSUME IInv, handler.pc # "await", handler'.pc \notin {"await", "answered"},
           \A k : Analyzes(k)' => Analyzes(k) /\ jobs'[k] = jobs[k],
           UNCHANGED <<disk, gens, tasks, thread, raced>>
    PROVE  JobsMatch' /\ TextsMatch' /\ ReadsMatch' /\ TasksShaped' /\ WorkerShaped'
<1>1. JobsMatch'
  <2>1. \A job : Awaited(job) => Awaited(job)'
    BY DEF Awaited
  <2>. QED
    BY <2>1 DEF IInv, JobsMatch, thread
<1>. QED
  BY <1>1 DEF IInv, TextsMatch, ReadsMatch, Reports, Shaped, TasksShaped, WorkerShaped, thread

LEMMA DidCloseKeeps ==
    ASSUME IInv, NEW u \in Uri, DidClose(u)
    PROVE  IInv'
<1>1. /\ handler.pc = "idle" /\ Open(u) /\ overtaken' = (overtaken \/ Overtaken(u))
      /\ documents' = [documents EXCEPT ![u] = None]
      /\ handler' = [handler EXCEPT !.pc = "close index", !.uri = u]
      /\ UNCHANGED <<disk, indexes, published, gens, tasks, jobs, thread, client, raced>>
  BY DEF DidClose, HandlerIdle
<1>2. HandlerShaped' /\ handler'.pc = "close index" /\ handler'.uri = u
  BY <1>1 DEF IInv, Shaped, HandlerShaped, HandlerRecord, HandlerPoints
<1>3. /\ documents' \in [Uri -> {None} \cup Document] /\ ~Open(u)'
      /\ \A w \in Uri \ {u} : documents'[w] = documents[w] /\ (Open(w)' <=> Open(w))
  BY <1>1 DEF IInv, Shaped, StateShaped, Open
<1>4. JobsMatch' /\ TextsMatch' /\ ReadsMatch' /\ TasksShaped' /\ WorkerShaped'
  BY <1>1, <1>2, HandlerMoves DEF Analyzes
<1>5. Shaped'
  BY <1>1, <1>2, <1>3, <1>4
  DEF IInv, Shaped, StateShaped, QueueShaped, ClientShaped, client
<1>6. GensMatch'
  BY <1>1, <1>3 DEF IInv, GensMatch
<1>7. PublishesCurrent'
  <2>. SUFFICES ASSUME ~overtaken, ~Overtaken(u), NEW g \in DOMAIN tasks,
                       tasks[g].pc \in Publishing
                PROVE  Current(tasks[g].uri, g)'
    BY <1>1 DEF PublishesCurrent
  <2>1. tasks[g].uri # u
    BY DEF Overtaken, Publishing
  <2>2. tasks[g].uri \in Uri /\ Current(tasks[g].uri, g)
    BY TaskIs DEF IInv, Shaped, PublishesCurrent, TaskRecord
  <2>. QED
    BY <1>1, <1>3, <2>1, <2>2 DEF Current
<1>8. ShownMatch'
  <2>1. Closing(u)' /\ \A w : ~Closing(w)
    BY <1>1, <1>2 DEF Closing
  <2>. QED
    BY <1>1, <1>3, <2>1 DEF IInv, ShownMatch, client
<1>9. FilesOwned'
  BY <1>1 DEF IInv, FilesOwned, Owned, Reports, client
<1>10. CachedIsWhatItsKeySays'
  <2>1. \A w \in Uri : indexes'[w] = indexes[w]
          /\ (w = u \/ (Open(w)' <=> Open(w))) /\ handler.pc # "close index"
    BY <1>1, <1>3
  <2>. QED
    BY <1>1, <1>2, <2>1, CachedKept DEF IInv
<1>. QED
  BY <1>4, <1>5, <1>6, <1>7, <1>8, <1>9, <1>10 DEF IInv

\* Nothing new is shown, and what is shown is of a document that stays.
LEMMA ShownKept ==
    ASSUME ShownMatch, overtaken => overtaken', documents' = documents,
           \A u \in Uri : shown'[u] # None =>
             shown'[u] = shown[u] /\ (Closing(u) => Closing(u)' \/ Open(u))
    PROVE  ShownMatch'
<1>. SUFFICES ASSUME ~overtaken, NEW u \in Uri, shown'[u] # None
              PROVE  /\ Open(u)' \/ Closing(u)'
                     /\ Open(u)' => /\ shown'[u].version <= documents'[u].version
                                    /\ shown'[u].version = documents'[u].version =>
                                         shown'[u].index.text = documents'[u].text
  BY DEF ShownMatch
<1>1. /\ Open(u) \/ Closing(u)
      /\ Open(u) => /\ shown[u].version <= documents[u].version
                    /\ shown[u].version = documents[u].version =>
                         shown[u].index.text = documents[u].text
  BY DEF ShownMatch
<1>2. Open(u)' <=> Open(u)
  BY DEF Open
<1>. QED
  BY <1>1, <1>2

LEMMA CloseKeeps ==
    ASSUME IInv, CloseIndex \/ CloseFiles \/ CloseUri
    PROVE  IInv'
<1>1. /\ handler \in HandlerRecord /\ handler.uri \in Uri
      /\ handler.pc \in {"close index", "close files", "close uri"}
      /\ UNCHANGED <<disk, documents, gens, tasks, thread, raced, overtaken>>
  BY DEF CloseIndex, CloseFiles, CloseUri, IInv, Shaped, HandlerShaped, state
<1>. PICK u \in Uri : u = handler.uri
  BY <1>1
<1>2. \A w : Open(w)' <=> Open(w)
  BY <1>1 DEF Open
<1>3. /\ GensMatch' /\ PublishesCurrent'
      /\ \A w : w # u => ~Closing(w)
      /\ \A g : Reports(g)' <=> Reports(g)
  BY <1>1, <1>2 DEF IInv, GensMatch, PublishesCurrent, Current, Closing, Reports
<1>4. CASE CloseIndex
  <2>. DEFINE point == IF published[u] THEN "close files" ELSE "close uri"
  <2>1. /\ handler.pc = "close index" /\ handler' = [handler EXCEPT !.pc = point]
        /\ indexes' = [indexes EXCEPT ![u] = None] /\ published' = [published EXCEPT ![u] = FALSE]
        /\ jobs' = Sent(CloseJob(u)) /\ client' = client
    BY <1>4 DEF CloseIndex
  <2>2. /\ HandlerShaped' /\ handler'.uri = u
        /\ handler'.pc = point /\ handler'.pc \in {"close files", "close uri"}
    BY <1>1, <2>1 DEF IInv, Shaped, HandlerShaped, HandlerRecord, HandlerPoints
  <2>3. CloseJob(u) \in Job /\ CloseJob(u).uri = u /\ CloseJob(u).kind = "close"
    BY <1>1 DEF CloseJob, Job
  <2>4. QueueShaped' /\ \A k : Analyzes(k)' => Analyzes(k) /\ jobs'[k] = jobs[k]
    <3>. HIDE DEF CloseJob
    <3>. QED
      BY <1>1, <2>1, <2>3, Queued DEF IInv, Shaped, Analyzes
  <2>5. JobsMatch' /\ TextsMatch' /\ ReadsMatch' /\ TasksShaped' /\ WorkerShaped'
    BY <1>1, <2>1, <2>2, <2>4, HandlerMoves
  <2>6. Shaped'
    BY <1>1, <2>1, <2>2, <2>4, <2>5 DEF IInv, Shaped, StateShaped, ClientShaped, client
  <2>7. ShownMatch'
    <3>1. Closing(u)'
      BY <2>2 DEF Closing
    <3>. QED
      BY <1>1, <1>3, <2>1, <3>1, ShownKept DEF IInv, client
  <2>8. FilesOwned'
    <3>. SUFFICES ASSUME ~overtaken, shownFile # None PROVE Owned(shownFile)'
      BY <1>1, <2>1 DEF FilesOwned, client
    <3>1. Owned(shownFile) /\ handler.pc # "close files"
      BY <2>1 DEF IInv, FilesOwned
    <3>2. published \in [Uri -> BOOLEAN] /\ shownFile \in Uri
      BY DEF IInv, Shaped, StateShaped, ClientShaped
    <3>. QED
      BY <1>1, <1>3, <2>1, <2>2, <3>1, <3>2 DEF Owned, client
  <2>9. CachedIsWhatItsKeySays'
    <3>1. \A w \in Uri : indexes'[w] # None => indexes'[w] = indexes[w] /\ w # u
      BY <1>1, <2>1 DEF IInv, Shaped, StateShaped
    <3>. QED
      BY <1>1, <1>2, <3>1, CachedKept DEF IInv
  <2>. QED
    BY <1>3, <2>5, <2>6, <2>7, <2>8, <2>9 DEF IInv
<1>5. CASE CloseFiles \/ CloseUri
  <2>1. /\ handler.pc # "close index" /\ UNCHANGED <<indexes, published, jobs>>
        /\ shownFile' \in {shownFile, None} /\ (handler.pc = "close files" => shownFile' = None)
        /\ shown' = shown \/ shown' = [shown EXCEPT ![u] = None]
    BY <1>5 DEF CloseFiles, CloseUri, state
  <2>2. \/ /\ handler' = [handler EXCEPT !.pc = "close uri"] /\ shown' = shown
        \/ /\ handler' = [handler EXCEPT !.pc = "idle", !.uri = None]
           /\ shown' = [shown EXCEPT ![u] = None]
    BY <1>5 DEF CloseFiles, CloseUri
  <2>3. HandlerShaped' /\ handler'.pc \in {"close uri", "idle"}
        /\ (handler'.pc = "close uri" => handler'.uri = u /\ shown' = shown)
        /\ (handler'.pc = "idle" => shown' = [shown EXCEPT ![u] = None])
    BY <1>1, <2>2 DEF HandlerShaped, HandlerRecord, HandlerPoints
  <2>4. JobsMatch' /\ TextsMatch' /\ ReadsMatch' /\ TasksShaped' /\ WorkerShaped'
    BY <1>1, <2>1, <2>3, HandlerMoves DEF Analyzes
  <2>5. ClientShaped' /\ \A w \in Uri : shown'[w] # None => shown'[w] = shown[w]
    BY <1>1, <2>1, <2>3 DEF IInv, Shaped, ClientShaped
  <2>6. Shaped'
    BY <1>1, <2>1, <2>3, <2>4, <2>5 DEF IInv, Shaped, StateShaped, QueueShaped
  <2>7. ShownMatch'
    <3>1. \A w \in Uri : shown'[w] # None => w # u \/ Closing(u)'
      BY <1>1, <2>3 DEF Closing, IInv, Shaped, ClientShaped
    <3>. QED
      BY <1>1, <1>3, <2>5, <3>1, ShownKept DEF IInv
  <2>8. FilesOwned'
    BY <1>1, <1>3, <2>1 DEF IInv, FilesOwned, Owned
  <2>9. CachedIsWhatItsKeySays'
    BY <1>1, <1>2, <2>1, CachedKept DEF IInv
  <2>. QED
    BY <1>3, <2>4, <2>6, <2>7, <2>8, <2>9 DEF IInv
<1>. QED
  BY <1>4, <1>5

\* What a moved entry leaves of the cache.
LEMMA DroppedIs ==
    ASSUME Shaped, NEW u \in Uri, NEW t
    PROVE  /\ Dropped(u, t) \in [Uri -> {None} \cup Entry]
           /\ \A w \in Uri : Dropped(u, t)[w] # None => Dropped(u, t)[w] = indexes[w]
  BY DEF Shaped, StateShaped, Dropped

LEMMA HoverKeeps ==
    ASSUME IInv, NEW u \in Uri, Hover(u)
    PROVE  IInv'
<1>1. /\ handler.pc = "idle" /\ handler \in HandlerRecord
      /\ Open(u) /\ documents[u].text \in Text
      /\ UNCHANGED <<disk, documents, published, gens, tasks, thread, client, raced, overtaken>>
  BY DEF Hover, HandlerIdle, IInv, Shaped, HandlerShaped, StateShaped, Open, Document
<1>2. PICK t \in Text : t = documents[u].text
  BY <1>1
<1>3. CASE Hit(u, t)
  <2>1. UNCHANGED <<handler, indexes, jobs>>
    BY <1>2, <1>3 DEF Hover
  <2>. QED
    BY <1>1, <2>1, HandlerTurns DEF IInv, Shaped, HandlerShaped, StateShaped
<1>4. CASE ~Hit(u, t) /\ dead
  <2>1. /\ handler' = [handler EXCEPT !.pc = "panicked", !.uri = u, !.text = t]
        /\ indexes' = Dropped(u, t) /\ jobs' = jobs
    BY <1>2, <1>4 DEF Hover, Sent
  <2>2. HandlerShaped' /\ handler'.pc = "panicked"
    BY <1>1, <2>1 DEF HandlerShaped, HandlerRecord, HandlerPoints
  <2>3. /\ indexes' \in [Uri -> {None} \cup Entry]
        /\ \A w \in Uri : indexes'[w] # None => indexes'[w] = indexes[w]
    BY <2>1, DroppedIs DEF IInv
  <2>. QED
    BY <1>1, <2>1, <2>2, <2>3, HandlerTurns
<1>5. CASE ~Hit(u, t) /\ ~dead
  <2>. DEFINE job == AnalyzeJob(u, t, 0)
  <2>1. /\ handler' = [handler EXCEPT !.pc = "await", !.uri = u, !.text = t]
        /\ indexes' = Dropped(u, t) /\ jobs' = Sent(job)
    BY <1>2, <1>5 DEF Hover
  <2>2. HandlerShaped' /\ handler'.pc = "await" /\ handler'.uri = u /\ handler'.text = t
    BY <1>1, <2>1 DEF HandlerShaped, HandlerRecord, HandlerPoints
  <2>3. job \in Job /\ job.uri = u /\ job.kind = "analyze" /\ job.text = t /\ job.reply = 0
    BY DEF AnalyzeJob, Job
  <2>. HIDE DEF job
  <2>4. /\ QueueShaped'
        /\ \A k : Analyzes(k)' => \/ k = Len(jobs) + 1 /\ jobs'[k] = job
                                  \/ Analyzes(k) /\ jobs'[k] = jobs[k]
    BY <2>1, <2>3, Queued DEF IInv, Shaped
  <2>5. Shaped'
    BY <1>1, <2>1, <2>2, <2>4, DroppedIs
    DEF IInv, Shaped, StateShaped, TasksShaped, WorkerShaped, ClientShaped, thread, client
  <2>6. JobsMatch'
    <3>1. \A j : Awaited(j) => j.reply # 0 /\ Awaited(j)'
      BY <1>1 DEF Awaited
    <3>2. ASSUME NEW k, Analyzes(k)' PROVE Awaited(jobs[k])'
      <4>1. CASE k = Len(jobs) + 1 /\ jobs'[k] = job
        BY <2>2, <2>3, <4>1 DEF Awaited
      <4>2. CASE Analyzes(k) /\ jobs'[k] = jobs[k]
        <5>1. Awaited(jobs[k])
          BY <4>2 DEF IInv, JobsMatch
        <5>. QED
          BY <1>1, <4>2, <5>1 DEF Awaited
      <4>. QED
        BY <2>4, <3>2, <4>1, <4>2
    <3>4. \A j, k : Analyzes(j)' /\ Analyzes(k)' /\ jobs'[j].reply = jobs'[k].reply => j = k
      BY <2>3, <2>4, <3>1 DEF IInv, JobsMatch
    <3>5. ASSUME worker.pc # "idle"
          PROVE  /\ Awaited(worker.job)'
                 /\ \A k : Analyzes(k)' => jobs'[k].reply # worker.job.reply
      <4>1. Awaited(worker.job) /\ \A k : Analyzes(k) => jobs[k].reply # worker.job.reply
        BY <3>5 DEF IInv, JobsMatch
      <4>. QED
        BY <1>1, <2>3, <2>4, <4>1 DEF Awaited, thread
    <3>. QED
      BY <1>1, <3>2, <3>4, <3>5 DEF JobsMatch, thread
  <2>7. TextsMatch' /\ ReadsMatch'
    BY <1>1, <2>2 DEF IInv, TextsMatch, ReadsMatch, Reports, thread
  <2>8. GensMatch' /\ PublishesCurrent'
    BY <1>1 DEF IInv, GensMatch, PublishesCurrent, Open, Current
  <2>9. ShownMatch'
    <3>1. \A w : ~Closing(w)
      BY <1>1 DEF Closing
    <3>. QED
      BY <1>1, <3>1, ShownKept DEF IInv, client
  <2>10. FilesOwned'
    BY <1>1 DEF IInv, FilesOwned, Owned, Reports, client
  <2>11. CachedIsWhatItsKeySays'
    <3>1. \A w \in Uri : indexes'[w] # None => indexes'[w] = indexes[w] /\ (Open(w)' <=> Open(w))
      BY <1>1, <2>1, DroppedIs DEF IInv, Open
    <3>. QED
      BY <1>1, <3>1, CachedKept DEF IInv
  <2>. QED
    BY <2>5, <2>6, <2>7, <2>8, <2>9, <2>10, <2>11 DEF IInv
<1>. QED
  BY <1>3, <1>4, <1>5

LEMMA HoverAnswersKeeps ==
    ASSUME IInv, HoverAnswers
    PROVE  IInv'
<1>1. /\ handler.pc = "answered" /\ handler \in HandlerRecord
      /\ handler.uri \in Uri /\ handler.text \in Text
      /\ UNCHANGED <<disk, documents, published, gens, tasks, jobs, thread, client, raced,
                     overtaken>>
  BY DEF HoverAnswers, IInv, Shaped, HandlerShaped
<1>2. HandlerShaped' /\ handler'.pc = "idle"
  BY <1>1 DEF HoverAnswers, HandlerShaped, HandlerRecord, HandlerPoints, NoIndex, Analysis
<1>3. CachedIsWhatItsKeySays' /\ indexes' \in [Uri -> {None} \cup Entry]
  <2>. DEFINE answer == [index |-> handler.answer, dep |-> handler.dep]
  <2>1. /\ answer.index \in Analysis /\ answer.dep \in Nat /\ answer.index.text = handler.text
        /\ ~raced => AsRead(answer.index, answer.dep)
    BY <1>1 DEF HandlerRecord, IInv, TextsMatch, ReadsMatch
  <2>2. indexes' = Stored(handler.uri, handler.text, answer)
    BY DEF HoverAnswers
  <2>. HIDE DEF answer
  <2>. QED
    BY <1>1, <2>1, <2>2, AnswerFiled DEF IInv
<1>4. JobsMatch' /\ TextsMatch' /\ ReadsMatch' /\ TasksShaped' /\ WorkerShaped'
  BY <1>1, <1>2, HandlerMoves DEF Analyzes
<1>5. Shaped'
  BY <1>1, <1>2, <1>3, <1>4
  DEF IInv, Shaped, StateShaped, QueueShaped, ClientShaped, client
<1>6. GensMatch' /\ PublishesCurrent'
  BY <1>1 DEF IInv, GensMatch, PublishesCurrent, Open, Current
<1>7. ShownMatch'
  <2>1. \A w : ~Closing(w)
    BY <1>1 DEF Closing
  <2>. QED
    BY <1>1, <2>1, ShownKept DEF IInv, client
<1>8. FilesOwned'
  BY <1>1 DEF IInv, FilesOwned, Owned, Reports, client
<1>. QED
  BY <1>3, <1>4, <1>5, <1>6, <1>7, <1>8 DEF IInv

-----------------------------------------------------------------------------
\* An analysis's steps.

\* A step of an analysis that touches neither the cache nor the client.
LEMMA QuietTaskStep ==
    ASSUME IInv, NEW g \in DOMAIN tasks, NEW r \in TaskRecord,
           tasks' = [tasks EXCEPT ![g] = r], r.uri = tasks[g].uri,
           tasks[g].pc \notin {"await", "swap", "clear"},
           r.pc \notin {"sleep", "await", "answered", "files"},
           r.pc \in Answered => r.index.text = r.text,
           r.pc # "done" => r.text \in Text,
           r.pc # "done" /\ Current(r.uri, g) => r.text = documents[r.uri].text,
           r.pc \in Publishing => overtaken \/ Current(r.uri, g),
           CachedIsWhatItsKeySays', indexes' \in [Uri -> {None} \cup Entry],
           UNCHANGED <<disk, documents, gens, handler, jobs, thread, raced, overtaken,
                       published, client>>
    PROVE  IInv'
<1>1. /\ TasksShaped' /\ HandlerShaped' /\ QueueShaped' /\ WorkerShaped'
      /\ JobsMatch' /\ TextsMatch' /\ GensMatch' /\ ReadsMatch' /\ PublishesCurrent'
  BY TaskMoves
<1>2. Shaped'
  BY <1>1 DEF IInv, Shaped, StateShaped, ClientShaped, client
<1>3. ShownMatch'
  BY ShownKept DEF IInv, client, Closing
<1>4. FilesOwned'
  <2>1. /\ DOMAIN tasks' = DOMAIN tasks
        /\ \A h \in DOMAIN tasks : h # g => tasks'[h] = tasks[h]
    BY Replaced DEF IInv, Shaped
  <2>2. \A w : Owned(w) => Owned(w)'
    BY <2>1 DEF Owned, Reports
  <2>. QED
    BY <2>2 DEF IInv, FilesOwned, client
<1>. QED
  BY <1>1, <1>2, <1>3, <1>4 DEF IInv

\* What an analysis knows, at any of its points.
LEMMA TaskKnows ==
    ASSUME IInv, NEW g \in DOMAIN tasks
    PROVE  /\ tasks[g] \in TaskRecord /\ tasks[g].uri \in Uri
           /\ Task(tasks[g].uri) \in TaskRecord
           /\ tasks[g].pc \in Answered => tasks[g].index.text = tasks[g].text
           /\ tasks[g].pc \notin {"sleep", "done"} => tasks[g].text \in Text
           /\ Current(tasks[g].uri, g) =>
                /\ documents[tasks[g].uri].text \in Text
                /\ tasks[g].pc \notin {"sleep", "done"} =>
                     tasks[g].text = documents[tasks[g].uri].text
           /\ tasks[g].pc \in Publishing => overtaken \/ Current(tasks[g].uri, g)
<1>1. tasks[g] \in TaskRecord /\ tasks[g].uri \in Uri
  BY TaskIs DEF IInv, Shaped, TaskRecord
<1>2. Task(tasks[g].uri) \in TaskRecord
  BY <1>1 DEF Task, TaskRecord, TaskPoints, NoIndex, Analysis
<1>3. /\ tasks[g].pc \in Answered => tasks[g].index.text = tasks[g].text
      /\ tasks[g].pc \notin {"sleep", "done"} => tasks[g].text \in Text
      /\ tasks[g].pc \in Publishing => overtaken \/ Current(tasks[g].uri, g)
  BY DEF IInv, TextsMatch, PublishesCurrent
<1>4. ASSUME Current(tasks[g].uri, g)
      PROVE  /\ documents[tasks[g].uri].text \in Text
             /\ tasks[g].pc \notin {"sleep", "done"} =>
                  tasks[g].text = documents[tasks[g].uri].text
  <2>1. documents[tasks[g].uri] \in Document
    BY <1>1, <1>4 DEF IInv, Shaped, StateShaped, Current, Open
  <2>. QED
    BY <1>1, <1>4, <2>1 DEF IInv, GensMatch, Current, Document
<1>. QED
  BY <1>1, <1>2, <1>3, <1>4

LEMMA DoneIs ==
    ASSUME IInv, NEW g \in DOMAIN tasks, Move(g, "done")
    PROVE  \E r \in TaskRecord : /\ tasks' = [tasks EXCEPT ![g] = r]
                                 /\ r.uri = tasks[g].uri /\ r.pc = "done"
<1>. DEFINE r == [Task(tasks[g].uri) EXCEPT !.pc = "done"]
<1>1. Task(tasks[g].uri) \in TaskRecord /\ Task(tasks[g].uri).uri = tasks[g].uri
  BY TaskKnows DEF Task
<1>2. r \in TaskRecord /\ r.uri = tasks[g].uri /\ r.pc = "done"
  BY <1>1 DEF TaskRecord, TaskPoints
<1>3. tasks' = [tasks EXCEPT ![g] = r]
  BY DEF Move
<1>. QED
  BY <1>2, <1>3

LEMMA MoveIs ==
    ASSUME IInv, NEW g \in DOMAIN tasks, NEW point \in TaskPoints \ {"done"}, Move(g, point)
    PROVE  \E r \in TaskRecord : /\ tasks' = [tasks EXCEPT ![g] = r]
                                 /\ r.uri = tasks[g].uri /\ r.pc = point
                                 /\ r.text = tasks[g].text /\ r.index = tasks[g].index
<1>. DEFINE r == [tasks[g] EXCEPT !.pc = point]
<1>1. /\ r \in TaskRecord /\ r.uri = tasks[g].uri /\ r.pc = point
      /\ r.text = tasks[g].text /\ r.index = tasks[g].index
  BY TaskKnows DEF TaskRecord
<1>2. tasks' = [tasks EXCEPT ![g] = r]
  BY DEF Move
<1>. QED
  BY <1>1, <1>2

LEMMA WakeKeeps ==
    ASSUME IInv, NEW g \in DOMAIN tasks, Wake(g)
    PROVE  IInv'
<1>1. /\ tasks[g].pc = "sleep"
      /\ UNCHANGED <<disk, documents, gens, handler, jobs, thread, raced, overtaken,
                     published, client, indexes>>
  BY DEF Wake, state
<1>2. CachedIsWhatItsKeySays' /\ indexes' \in [Uri -> {None} \cup Entry]
  BY <1>1, CachedKept DEF IInv, Shaped, StateShaped, Open
<1>3. CASE Superseded(g)
  <2>1. PICK r \in TaskRecord : /\ tasks' = [tasks EXCEPT ![g] = r]
                                /\ r.uri = tasks[g].uri /\ r.pc = "done"
    BY <1>3, DoneIs DEF Wake
  <2>. QED
    BY <1>1, <1>2, <2>1, QuietTaskStep DEF Answered, Publishing
<1>4. CASE ~Superseded(g)
  <2>. DEFINE t == documents[tasks[g].uri].text
              r == [tasks[g] EXCEPT !.pc = "lookup", !.text = t]
  <2>1. tasks[g] \in TaskRecord /\ t \in Text
    BY <1>4, TaskKnows DEF Superseded
  <2>2. /\ r \in TaskRecord /\ r.uri = tasks[g].uri /\ r.pc = "lookup" /\ r.text = t
    BY <2>1 DEF TaskRecord, TaskPoints
  <2>3. tasks' = [tasks EXCEPT ![g] = r]
    BY <1>4 DEF Wake
  <2>. HIDE DEF r
  <2>. QED
    BY <1>1, <1>2, <2>1, <2>2, <2>3, QuietTaskStep DEF Answered, Publishing
<1>. QED
  BY <1>3, <1>4

LEMMA LookUpKeeps ==
    ASSUME IInv, NEW g \in DOMAIN tasks, LookUp(g)
    PROVE  IInv'
<1>1. /\ tasks[g].pc = "lookup" /\ tasks[g] \in TaskRecord
      /\ UNCHANGED <<disk, documents, gens, handler, thread, raced, overtaken, published, client>>
  BY TaskKnows DEF LookUp
<1>2. PICK u \in Uri, t \in Text : u = tasks[g].uri /\ t = tasks[g].text
  BY <1>1, TaskKnows
<1>3. CASE Hit(u, t)
  <2>. DEFINE r == [tasks[g] EXCEPT !.pc = "check", !.index = indexes[u].index]
  <2>1. tasks' = [tasks EXCEPT ![g] = r] /\ indexes' = indexes /\ jobs' = jobs
    BY <1>2, <1>3 DEF LookUp
  <2>2. indexes[u] \in Entry /\ indexes[u].index.text = t
    BY <1>3 DEF Hit, IInv, Shaped, StateShaped, CachedIsWhatItsKeySays
  <2>3. /\ r \in TaskRecord /\ r.uri = u /\ r.pc = "check" /\ r.text = t
        /\ r.index.text = t
    BY <1>1, <1>2, <2>2 DEF TaskRecord, TaskPoints, Entry
  <2>. HIDE DEF r
  <2>4. CachedIsWhatItsKeySays' /\ indexes' \in [Uri -> {None} \cup Entry]
    BY <1>1, <2>1, CachedKept DEF IInv, Shaped, StateShaped, Open
  <2>5. Current(u, g) => t = documents[u].text
    BY <1>1, <1>2, TaskKnows
  <2>. QED
    BY <1>1, <1>2, <2>1, <2>3, <2>4, <2>5, QuietTaskStep DEF Answered, Publishing
<1>4. CASE ~Hit(u, t) /\ dead
  <2>1. Move(g, "done") /\ indexes' = Dropped(u, t) /\ jobs' = jobs
    BY <1>2, <1>4 DEF LookUp, Sent
  <2>2. PICK r \in TaskRecord : /\ tasks' = [tasks EXCEPT ![g] = r]
                                /\ r.uri = tasks[g].uri /\ r.pc = "done"
    BY <2>1, DoneIs
  <2>3. /\ indexes' \in [Uri -> {None} \cup Entry]
        /\ \A w \in Uri : indexes'[w] # None => indexes'[w] = indexes[w] /\ (Open(w)' <=> Open(w))
    BY <1>1, <2>1, DroppedIs DEF IInv, Open
  <2>4. CachedIsWhatItsKeySays'
    BY <1>1, <2>3, CachedKept DEF IInv
  <2>. QED
    BY <1>1, <2>1, <2>2, <2>3, <2>4, QuietTaskStep DEF Answered, Publishing
<1>5. CASE ~Hit(u, t) /\ ~dead
  <2>. DEFINE job == AnalyzeJob(u, t, g)
  <2>1. Move(g, "await") /\ indexes' = Dropped(u, t) /\ jobs' = Sent(job)
    BY <1>2, <1>5 DEF LookUp
  <2>2. g \in Nat /\ g # 0
    BY TaskIs DEF IInv, Shaped
  <2>3. job \in Job /\ job.uri = u /\ job.kind = "analyze" /\ job.text = t /\ job.reply = g
    BY <2>2 DEF AnalyzeJob, Job
  <2>. HIDE DEF job
  <2>4. PICK r \in TaskRecord : /\ tasks' = [tasks EXCEPT ![g] = r]
                                /\ r.uri = u /\ r.pc = "await" /\ r.text = t
    BY <1>2, <2>1, MoveIs DEF TaskPoints
  <2>5. /\ tasks' \in Seq(TaskRecord) /\ Len(tasks') = Len(tasks)
        /\ DOMAIN tasks' = DOMAIN tasks /\ tasks'[g] = r
        /\ \A h \in DOMAIN tasks : h # g => tasks'[h] = tasks[h]
    BY <2>4, Replaced DEF IInv, Shaped
  <2>6. /\ QueueShaped'
        /\ \A k : Analyzes(k)' => \/ k = Len(jobs) + 1 /\ jobs'[k] = job
                                  \/ Analyzes(k) /\ jobs'[k] = jobs[k]
    BY <2>1, <2>3, Queued DEF IInv, Shaped
  <2>7. Shaped'
    BY <1>1, <2>1, <2>5, <2>6, DroppedIs
    DEF IInv, Shaped, StateShaped, TasksShaped, HandlerShaped, WorkerShaped, ClientShaped,
        thread, client
  <2>8. JobsMatch'
    <3>1. \A j : Awaited(j) => j.reply # g
      BY <1>1, <2>2 DEF Awaited
    <3>2. ASSUME NEW k, Analyzes(k)' PROVE Awaited(jobs[k])'
      <4>1. CASE k = Len(jobs) + 1 /\ jobs'[k] = job
        BY <2>2, <2>3, <2>4, <2>5, <4>1 DEF Awaited
      <4>2. CASE Analyzes(k) /\ jobs'[k] = jobs[k]
        <5>1. Awaited(jobs[k]) /\ jobs[k].reply # g
          BY <3>1, <4>2 DEF IInv, JobsMatch
        <5>. QED
          BY <1>1, <2>5, <4>2, <5>1 DEF Awaited
      <4>. QED
        BY <2>6, <3>2, <4>1, <4>2
    <3>3. \A k : Analyzes(k) => jobs[k].reply # g
      BY <3>1 DEF IInv, JobsMatch
    <3>4. \A j, k : Analyzes(j)' /\ Analyzes(k)' /\ jobs'[j].reply = jobs'[k].reply => j = k
      BY <2>3, <2>6, <3>3 DEF IInv, JobsMatch
    <3>5. ASSUME worker.pc # "idle"
          PROVE  /\ Awaited(worker.job)'
                 /\ \A k : Analyzes(k)' => jobs'[k].reply # worker.job.reply
      <4>1. /\ Awaited(worker.job) /\ worker.job.reply # g
            /\ \A k : Analyzes(k) => jobs[k].reply # worker.job.reply
        BY <3>1, <3>5 DEF IInv, JobsMatch
      <4>2. Awaited(worker.job)'
        BY <1>1, <2>5, <4>1 DEF Awaited, thread
      <4>. QED
        BY <2>3, <2>6, <4>1, <4>2
    <3>. QED
      BY <1>1, <3>2, <3>4, <3>5 DEF JobsMatch, thread
  <2>9. TextsMatch' /\ ReadsMatch'
    BY <1>1, <2>4, <2>5 DEF IInv, TextsMatch, ReadsMatch, Answered, Publishing, Reports, thread
  <2>10. GensMatch'
    <3>. SUFFICES ASSUME NEW w \in Uri, Open(w)
                  PROVE  /\ documents[w].gen \in DOMAIN tasks
                         /\ tasks'[documents[w].gen].uri = w
                         /\ tasks'[documents[w].gen].pc \notin {"sleep", "done"} =>
                              tasks'[documents[w].gen].text = documents[w].text
      BY <1>1, <2>5 DEF GensMatch, Open
    <3>1. CASE documents[w].gen = g
      BY <1>1, <1>2, <2>4, <2>5, <3>1 DEF IInv, GensMatch
    <3>2. CASE documents[w].gen # g
      BY <2>5, <3>2 DEF IInv, GensMatch
    <3>. QED
      BY <3>1, <3>2
  <2>11. PublishesCurrent'
    BY <1>1, <2>4, <2>5 DEF IInv, PublishesCurrent, Current, Open, Publishing
  <2>12. ShownMatch'
    BY <1>1, ShownKept DEF IInv, client, Closing
  <2>13. FilesOwned'
    BY <1>1, <2>5 DEF IInv, FilesOwned, Owned, Reports, client
  <2>14. CachedIsWhatItsKeySays'
    <3>1. \A w \in Uri : indexes'[w] # None => indexes'[w] = indexes[w] /\ (Open(w)' <=> Open(w))
      BY <1>1, <2>1, DroppedIs DEF IInv, Open
    <3>. QED
      BY <1>1, <3>1, CachedKept DEF IInv
  <2>. QED
    BY <2>7, <2>8, <2>9, <2>10, <2>11, <2>12, <2>13, <2>14 DEF IInv
<1>. QED
  BY <1>3, <1>4, <1>5

LEMMA CheckKeeps ==
    ASSUME IInv, NEW g \in DOMAIN tasks, Check(g)
    PROVE  IInv'
<1>1. /\ tasks[g].pc \in {"answered", "check"} /\ tasks[g] \in TaskRecord
      /\ tasks[g].uri \in Uri /\ tasks[g].text \in Text
      /\ tasks[g].index.text = tasks[g].text
      /\ UNCHANGED <<disk, documents, gens, handler, jobs, thread, raced, overtaken,
                     published, client>>
  BY TaskKnows DEF Check, Answered
<1>2. CachedIsWhatItsKeySays' /\ indexes' \in [Uri -> {None} \cup Entry]
  <2>1. CASE tasks[g].pc = "answered"
    <3>1. indexes' = Stored(tasks[g].uri, tasks[g].text, tasks[g])
      BY <2>1 DEF Check
    <3>2. /\ tasks[g].index \in Analysis /\ tasks[g].dep \in Nat
          /\ ~raced => AsRead(tasks[g].index, tasks[g].dep)
      BY <1>1, <2>1 DEF TaskRecord, IInv, ReadsMatch
    <3>. QED
      BY <1>1, <3>1, <3>2, AnswerFiled DEF IInv
  <2>2. CASE tasks[g].pc = "check"
    <3>1. indexes' = indexes
      BY <2>2 DEF Check
    <3>. QED
      BY <1>1, <3>1, CachedKept DEF IInv, Shaped, StateShaped, Open
  <2>. QED
    BY <1>1, <2>1, <2>2
<1>3. CASE Superseded(g)
  <2>1. PICK r \in TaskRecord : /\ tasks' = [tasks EXCEPT ![g] = r]
                                /\ r.uri = tasks[g].uri /\ r.pc = "done"
    BY <1>3, DoneIs DEF Check
  <2>. QED
    BY <1>1, <1>2, <2>1, QuietTaskStep DEF Answered, Publishing
<1>4. CASE ~Superseded(g)
  <2>1. Move(g, "publish") /\ Current(tasks[g].uri, g)
    BY <1>4 DEF Check, Superseded
  <2>2. PICK r \in TaskRecord : /\ tasks' = [tasks EXCEPT ![g] = r]
                                /\ r.uri = tasks[g].uri /\ r.pc = "publish"
                                /\ r.text = tasks[g].text /\ r.index = tasks[g].index
    BY <2>1, MoveIs DEF TaskPoints
  <2>3. tasks[g].text = documents[tasks[g].uri].text
    BY <1>1, <2>1, TaskKnows
  <2>. QED
    BY <1>1, <1>2, <2>1, <2>2, <2>3, QuietTaskStep DEF Answered, Publishing
<1>. QED
  BY <1>3, <1>4

LEMMA PublishKeeps ==
    ASSUME IInv, NEW g \in DOMAIN tasks, Publish(g)
    PROVE  IInv'
<1>. DEFINE point == IF Reports(g) THEN "files" ELSE "swap"
<1>1. /\ tasks[g].pc = "publish" /\ Move(g, point)
      /\ UNCHANGED <<disk, documents, indexes, published, gens, handler, jobs, thread,
                     shownFile, raced, overtaken>>
  BY DEF Publish, state
<1>2. PICK u \in Uri : /\ u = tasks[g].uri /\ tasks[g] \in TaskRecord
                       /\ tasks[g].index.text = tasks[g].text /\ tasks[g].text \in Text
                       /\ Current(u, g) => tasks[g].text = documents[u].text
                       /\ overtaken \/ Current(u, g)
  BY <1>1, TaskKnows DEF Answered, Publishing
<1>3. PICK r \in TaskRecord : /\ tasks' = [tasks EXCEPT ![g] = r] /\ r.uri = u
                              /\ r.pc = point /\ r.pc \in {"files", "swap"}
                              /\ r.text = tasks[g].text /\ r.index = tasks[g].index
  <2>1. point \in TaskPoints \ {"done"} /\ point \in {"files", "swap"}
    BY DEF TaskPoints
  <2>. HIDE DEF point
  <2>. QED
    BY <1>1, <1>2, <2>1, MoveIs
<1>4. r.pc = "files" => r.index.text \in Reporting
  BY <1>3 DEF Reports
<1>. HIDE DEF point
<1>5. /\ TasksShaped' /\ HandlerShaped' /\ QueueShaped' /\ WorkerShaped'
      /\ JobsMatch' /\ TextsMatch' /\ GensMatch' /\ ReadsMatch' /\ PublishesCurrent'
  BY <1>1, <1>2, <1>3, <1>4, TaskMoves DEF Answered, Publishing
<1>6. PICK d \in Diagnostics : /\ shown' = [shown EXCEPT ![u] = d]
                               /\ d.version = Version(u) /\ d.index = tasks[g].index
  <2>1. Version(u) \in Nat
    BY DEF Version, IInv, Shaped, StateShaped, Open, Document
  <2>2. g \in Nat
    BY TaskIs DEF IInv, Shaped
  <2>3. shown' = [shown EXCEPT ![u] =
                    [gen |-> g, version |-> Version(u), index |-> tasks[g].index]]
    BY <1>2 DEF Publish
  <2>4. [gen |-> g, version |-> Version(u), index |-> tasks[g].index] \in Diagnostics
    BY <1>2, <2>1, <2>2 DEF Diagnostics, TaskRecord
  <2>. QED
    BY <2>3, <2>4
<1>7. Shaped'
  BY <1>1, <1>5, <1>6 DEF IInv, Shaped, StateShaped, ClientShaped
<1>8. ShownMatch'
  <2>. SUFFICES ASSUME ~overtaken, NEW w \in Uri, shown'[w] # None
                PROVE  /\ Open(w)' \/ Closing(w)'
                       /\ Open(w)' => /\ shown'[w].version <= documents[w].version
                                      /\ shown'[w].version = documents[w].version =>
                                           shown'[w].index.text = documents[w].text
    BY <1>1 DEF ShownMatch
  <2>1. (Open(w)' <=> Open(w)) /\ (Closing(w)' <=> Closing(w))
    BY <1>1 DEF Open, Closing
  <2>2. CASE w = u
    <3>1. Open(u) /\ documents[u].version \in Nat /\ tasks[g].index.text = documents[u].text
      BY <1>2 DEF Current, IInv, Shaped, StateShaped, Open, Document
    <3>2. shown'[u].version = documents[u].version /\ shown'[u].index = tasks[g].index
      BY <1>6, <3>1 DEF IInv, Shaped, ClientShaped, Version
    <3>. QED
      BY <2>1, <2>2, <3>1, <3>2
  <2>3. CASE w # u
    <3>1. shown'[w] = shown[w] /\ shown[w] # None
      BY <1>6, <2>3 DEF IInv, Shaped, ClientShaped
    <3>. QED
      BY <2>1, <3>1 DEF IInv, ShownMatch
  <2>. QED
    BY <2>2, <2>3
<1>9. FilesOwned'
  <2>1. /\ DOMAIN tasks' = DOMAIN tasks
        /\ \A h \in DOMAIN tasks : h # g => tasks'[h] = tasks[h]
    BY <1>3, Replaced DEF IInv, Shaped
  <2>2. \A w : Owned(w) => Owned(w)'
    BY <1>1, <2>1 DEF Owned, Reports
  <2>. QED
    BY <1>1, <2>2 DEF IInv, FilesOwned
<1>10. CachedIsWhatItsKeySays'
  BY <1>1, CachedKept DEF IInv, Open
<1>. QED
  BY <1>5, <1>7, <1>8, <1>9, <1>10 DEF IInv

\* The files an analysis reports for, or no longer reports for.
LEMMA FilesKeep ==
    ASSUME IInv, NEW g \in DOMAIN tasks, PublishFiles(g) \/ SwapFiles(g) \/ ClearFiles(g)
    PROVE  IInv'
<1>1. PICK u \in Uri : u = tasks[g].uri /\ tasks[g] \in TaskRecord
  BY TaskKnows
<1>2. /\ tasks[g].pc \in {"files", "swap", "clear"}
      /\ UNCHANGED <<disk, documents, indexes, gens, handler, jobs, thread, shown, raced,
                     overtaken>>
  BY DEF PublishFiles, SwapFiles, ClearFiles, state, client
<1>3. /\ tasks[g].index.text = tasks[g].text /\ tasks[g].text \in Text
      /\ Current(u, g) => tasks[g].text = documents[u].text
      /\ overtaken \/ Current(u, g)
  BY <1>1, <1>2, TaskKnows DEF Answered, Publishing
<1>4. PICK r \in TaskRecord :
        /\ tasks' = [tasks EXCEPT ![g] = r] /\ r.uri = u /\ r.pc \in {"swap", "clear", "done"}
        /\ r.pc # "done" => r.text = tasks[g].text /\ r.index = tasks[g].index
        /\ PublishFiles(g) => r.pc = "swap"
        /\ SwapFiles(g) => r.pc = IF published[u] /\ ~Reports(g) THEN "clear" ELSE "done"
  <2>1. PICK point \in {"swap", "clear", "done"} :
          /\ Move(g, point)
          /\ PublishFiles(g) => point = "swap"
          /\ SwapFiles(g) => point = IF published[u] /\ ~Reports(g) THEN "clear" ELSE "done"
    BY <1>1 DEF PublishFiles, SwapFiles, ClearFiles
  <2>2. CASE point = "done"
    BY <1>1, <2>1, <2>2, DoneIs
  <2>3. CASE point # "done"
    <3>1. point \in TaskPoints \ {"done"}
      BY <2>1, <2>3 DEF TaskPoints
    <3>. QED
      BY <1>1, <2>1, <3>1, MoveIs
  <2>. QED
    BY <2>2, <2>3
<1>5. /\ TasksShaped' /\ HandlerShaped' /\ QueueShaped' /\ WorkerShaped'
      /\ JobsMatch' /\ TextsMatch' /\ GensMatch' /\ ReadsMatch' /\ PublishesCurrent'
  BY <1>1, <1>2, <1>3, <1>4, TaskMoves DEF Answered, Publishing
<1>6. /\ DOMAIN tasks' = DOMAIN tasks /\ tasks'[g] = r
      /\ \A h \in DOMAIN tasks : h # g => tasks'[h] = tasks[h]
  BY <1>4, Replaced DEF IInv, Shaped
<1>7. /\ published' = published \/ published' = [published EXCEPT ![u] = Reports(g)]
      /\ shownFile' \in {shownFile, u, None}
  <2>1. CASE PublishFiles(g)
    BY <1>1, <2>1 DEF PublishFiles, state
  <2>2. CASE SwapFiles(g)
    <3>1. published' = [published EXCEPT ![tasks[g].uri] = Reports(g)] /\ shownFile' = shownFile
      BY <2>2 DEF SwapFiles, client
    <3>. QED
      BY <1>1, <3>1, Zenon
  <2>3. CASE ClearFiles(g)
    BY <2>3 DEF ClearFiles, state
  <2>. QED
    BY <2>1, <2>2, <2>3
<1>8. Shaped'
  <2>1. Reports(g) \in BOOLEAN
    BY DEF Reports
  <2>2. published' \in [Uri -> BOOLEAN]
    BY <1>7, <2>1 DEF IInv, Shaped, StateShaped
  <2>. QED
    BY <1>2, <1>5, <1>7, <2>2 DEF IInv, Shaped, StateShaped, ClientShaped
<1>9. ShownMatch' /\ CachedIsWhatItsKeySays'
  BY <1>2, ShownKept, CachedKept DEF IInv, Open, Closing
<1>10. FilesOwned'
  <2>. SUFFICES ASSUME ~overtaken, NEW w \in Uri, shownFile' = w PROVE Owned(w)'
    <3>1. shownFile' \in {None} \cup Uri
      BY <1>8 DEF Shaped, ClientShaped
    <3>. QED
      BY <1>2, <3>1 DEF FilesOwned, Owned
  <2>1. CASE PublishFiles(g)
    <3>1. shownFile' = u /\ published' = published /\ tasks[g].pc = "files" /\ r.pc = "swap"
      BY <1>1, <1>4, <2>1 DEF PublishFiles, state
    <3>2. Reports(g)
      BY <3>1 DEF IInv, TextsMatch
    <3>3. w = u
      BY <3>1
    <3>. QED
      BY <1>4, <1>6, <3>1, <3>2, <3>3 DEF Owned, Reports
  <2>2. CASE SwapFiles(g)
    <3>1. /\ shownFile = w /\ tasks[g].pc = "swap"
          /\ published' = [published EXCEPT ![u] = Reports(g)]
          /\ r.pc = IF published[u] /\ ~Reports(g) THEN "clear" ELSE "done"
      BY <1>1, <1>4, <2>2 DEF SwapFiles, client
    <3>2. Owned(w) /\ published \in [Uri -> BOOLEAN]
      BY <3>1 DEF IInv, FilesOwned, Shaped, StateShaped
    <3>3. CASE w # u
      <4>1. published'[w] = published[w]
        BY <3>1, <3>2, <3>3
      <4>. QED
        BY <1>1, <1>2, <1>6, <3>2, <3>3, <4>1 DEF Owned, Reports
    <3>4. CASE w = u
      <4>1. published'[u] = Reports(g)
        BY <3>1, <3>2
      <4>2. CASE published[u]
        BY <1>4, <1>6, <3>1, <3>4, <4>1, <4>2 DEF Owned
      <4>3. CASE handler.pc = "close files" /\ handler.uri = u
        BY <1>2, <3>4, <4>3 DEF Owned
      <4>4. ASSUME NEW h \in DOMAIN tasks, tasks[h].uri = u,
                   tasks[h].pc = "clear" \/ (tasks[h].pc = "swap" /\ Reports(h))
            PROVE  Owned(w)'
        <5>1. Current(u, h) /\ Current(u, g)
          BY <1>3, <4>4 DEF IInv, PublishesCurrent, Publishing
        <5>2. h = g
          BY <5>1 DEF Current
        <5>. QED
          BY <3>1, <3>4, <4>1, <4>4, <5>2 DEF Owned
      <4>. QED
        BY <3>2, <3>4, <4>2, <4>3, <4>4 DEF Owned
    <3>. QED
      BY <3>3, <3>4
  <2>3. CASE ClearFiles(g)
    BY <2>3 DEF ClearFiles
  <2>. QED
    BY <2>1, <2>2, <2>3
<1>. QED
  BY <1>5, <1>8, <1>9, <1>10 DEF IInv

-----------------------------------------------------------------------------
\* The worker's steps.

\* Only the worker, its queue and its sessions change.
LEMMA WorkerMoves ==
    ASSUME IInv, QueueShaped', WorkerShaped', JobsMatch', ReadsMatch',
           worker'.pc \in {"compiled", "one shot"} => worker'.index.text = worker'.job.text,
           UNCHANGED <<disk, state, tasks, handler, client, raced, overtaken>>
    PROVE  IInv'
<1>1. Shaped'
  BY DEF IInv, Shaped, StateShaped, TasksShaped, HandlerShaped, ClientShaped, state, client
<1>2. TextsMatch'
  BY DEF IInv, TextsMatch, Reports
<1>3. GensMatch' /\ PublishesCurrent'
  BY DEF IInv, GensMatch, PublishesCurrent, Open, Current, state
<1>4. ShownMatch' /\ CachedIsWhatItsKeySays'
  BY ShownKept, CachedKept DEF IInv, Open, Closing, state, client
<1>5. FilesOwned'
  BY DEF IInv, FilesOwned, Owned, Reports, state, client
<1>. QED
  BY <1>1, <1>2, <1>3, <1>4, <1>5 DEF IInv

LEMMA Forgotten ==
    ASSUME WorkerShaped, NEW u \in Uri, Forget(u)
    PROVE  /\ sessions' \in [Uri -> {None} \cup Nat] /\ deps' \in [Uri -> {None} \cup Nat]
           /\ sessions'[u] = None
           /\ \A w \in Uri \ {u} : sessions'[w] = sessions[w] /\ deps'[w] = deps[w]
  BY DEF WorkerShaped, Forget

LEMMA TakeKeeps ==
    ASSUME IInv, Take
    PROVE  IInv'
<1>1. /\ worker.pc = "idle" /\ worker \in WorkerRecord /\ jobs # <<>> /\ jobs' = Tail(jobs)
      /\ UNCHANGED <<disk, state, tasks, handler, client, raced, overtaken>>
  BY DEF Take, IInv, Shaped, WorkerShaped
<1>2. /\ QueueShaped' /\ Head(jobs) = jobs[1] /\ 1 \in DOMAIN jobs
      /\ \A k : Analyzes(k)' => /\ k + 1 # 1 /\ k \in Nat
                               /\ Analyzes(k + 1) /\ jobs'[k] = jobs[k + 1]
  BY <1>1, Unqueued DEF IInv, Shaped
<1>3. PICK job \in Job : /\ job = jobs[1] /\ job.uri \in Uri
                         /\ (job.kind = "analyze" <=> Analyzes(1))
  BY <1>2 DEF IInv, Shaped, QueueShaped, Analyzes
<1>4. /\ IF job.kind = "close" \/ Stale(job.uri)
           THEN Forget(job.uri) ELSE UNCHANGED <<sessions, deps>>
      /\ worker' = IF job.kind = "close"
                     THEN worker ELSE [worker EXCEPT !.pc = "taken", !.job = job]
  BY <1>2, <1>3 DEF Take
<1>5. /\ sessions' \in [Uri -> {None} \cup Nat] /\ deps' \in [Uri -> {None} \cup Nat]
      /\ \A w \in Uri : \/ sessions'[w] = sessions[w] /\ deps'[w] = deps[w]
                        \/ sessions'[w] = None
  BY <1>3, <1>4, Forgotten DEF IInv, Shaped, WorkerShaped
<1>6. \A k : Analyzes(k)' => Awaited(jobs[k])'
  <2>. SUFFICES ASSUME NEW k, Analyzes(k)' PROVE Awaited(jobs[k])'
    OBVIOUS
  <2>1. Awaited(jobs[k + 1]) /\ jobs'[k] = jobs[k + 1]
    BY <1>2 DEF IInv, JobsMatch
  <2>. QED
    BY <1>1, <2>1 DEF Awaited
<1>7. \A j, k : Analyzes(j)' /\ Analyzes(k)' /\ jobs'[j].reply = jobs'[k].reply => j = k
  <2>. SUFFICES ASSUME NEW j, NEW k, Analyzes(j)', Analyzes(k)',
                       jobs'[j].reply = jobs'[k].reply
                PROVE  j = k
    OBVIOUS
  <2>1. j + 1 = k + 1 /\ j \in Nat /\ k \in Nat
    BY <1>2 DEF IInv, JobsMatch
  <2>. QED
    BY <2>1
<1>8. CASE job.kind = "close"
  <2>1. worker' = worker
    BY <1>4, <1>8
  <2>2. WorkerShaped'
    BY <1>1, <1>5, <2>1 DEF WorkerShaped
  <2>3. JobsMatch'
    BY <1>1, <1>6, <1>7, <2>1 DEF JobsMatch
  <2>4. ReadsMatch'
    BY <1>1, <1>5, <2>1 DEF IInv, ReadsMatch
  <2>. QED
    BY <1>1, <1>2, <2>1, <2>2, <2>3, <2>4, WorkerMoves
<1>9. CASE job.kind = "analyze"
  <2>1. worker' \in WorkerRecord /\ worker'.pc = "taken" /\ worker'.job = job
    BY <1>1, <1>4, <1>9 DEF WorkerRecord
  <2>2. WorkerShaped'
    BY <1>3, <1>5, <2>1 DEF WorkerShaped
  <2>3. JobsMatch'
    <3>1. Awaited(job) /\ \A k : Analyzes(k)' => jobs'[k].reply # job.reply
      BY <1>2, <1>3, <1>9 DEF IInv, JobsMatch
    <3>2. Awaited(worker.job)'
      BY <1>1, <2>1, <3>1 DEF Awaited
    <3>. QED
      BY <1>6, <1>7, <2>1, <3>1, <3>2 DEF JobsMatch
  <2>4. ReadsMatch'
    <3>. SUFFICES ASSUME ~raced
                  PROVE  /\ sessions'[job.uri] \in {None, disk}
                         /\ \A w \in Uri : sessions'[w] # None => deps'[w] = sessions'[w]
      BY <1>1, <2>1 DEF IInv, ReadsMatch
    <3>1. \A w \in Uri : sessions[w] # None => deps[w] = sessions[w]
      BY <1>1 DEF IInv, ReadsMatch
    <3>2. sessions'[job.uri] \in {None, disk}
      BY <1>3, <1>4, <1>9, <3>1, Forgotten DEF Stale, IInv, Shaped
    <3>. QED
      BY <1>5, <3>1, <3>2
  <2>. QED
    BY <1>1, <1>2, <2>1, <2>2, <2>3, <2>4, WorkerMoves
<1>. QED
  BY <1>8, <1>9 DEF Job

LEMMA CompileKeeps ==
    ASSUME IInv, Compile \/ Panics
    PROVE  IInv'
<1>1. /\ worker.pc \in {"taken", "compiled"} /\ worker \in WorkerRecord /\ jobs' = jobs
      /\ UNCHANGED <<disk, state, tasks, handler, client, raced, overtaken>>
  BY DEF Compile, Panics, IInv, Shaped, WorkerShaped
<1>2. PICK u \in Uri, t \in Text \cup {None} : u = worker.job.uri /\ t = worker.job.text
  BY <1>1 DEF IInv, Shaped, WorkerShaped, WorkerRecord, Job
<1>3. disk \in Nat /\ Cells(u) \in Nat
  BY DEF IInv, Shaped, StateShaped, WorkerShaped, Cells
<1>4. QueueShaped' /\ \A k : Analyzes(k)' <=> Analyzes(k)
  BY <1>1 DEF IInv, Shaped, QueueShaped, Analyzes
<1>5. ASSUME worker'.pc # "idle", worker'.job = worker.job
      PROVE  JobsMatch'
  <2>1. /\ \A k : Analyzes(k) => Awaited(jobs[k]) /\ jobs[k].reply # worker.job.reply
        /\ Awaited(worker.job)
        /\ \A j, k : Analyzes(j) /\ Analyzes(k) /\ jobs[j].reply = jobs[k].reply => j = k
    BY <1>1 DEF IInv, JobsMatch
  <2>2. Awaited(worker.job)' /\ \A k : Analyzes(k) => Awaited(jobs[k])'
    BY <1>1, <1>5, <2>1 DEF Awaited
  <2>. QED
    BY <1>1, <1>4, <1>5, <2>1, <2>2 DEF JobsMatch
<1>6. CASE Compile
  <2>1. /\ worker.pc = "taken" /\ sessions' = [sessions EXCEPT ![u] = Cells(u)] /\ deps' = deps
        /\ worker' = [worker EXCEPT !.pc = "compiled", !.index = Index(t, disk, Cells(u))]
    BY <1>2, <1>6 DEF Compile
  <2>2. /\ Index(t, disk, Cells(u)) \in Analysis /\ Index(t, disk, Cells(u)).text = t
        /\ Index(t, disk, Cells(u)).read = disk /\ Index(t, disk, Cells(u)).cells = Cells(u)
    BY <1>3 DEF Index, Analysis
  <2>3. /\ worker' \in WorkerRecord /\ worker'.pc = "compiled" /\ worker'.job = worker.job
        /\ worker'.index = Index(t, disk, Cells(u))
    BY <1>1, <2>1, <2>2 DEF WorkerRecord
  <2>4. WorkerShaped' /\ sessions'[u] = Cells(u) /\ \A w \in Uri \ {u} : sessions'[w] = sessions[w]
    BY <1>2, <1>3, <2>1, <2>3 DEF IInv, Shaped, WorkerShaped
  <2>5. ReadsMatch'
    <3>. SUFFICES ASSUME ~raced
                  PROVE  /\ Cells(u) = disk
                         /\ \A w \in Uri \ {u} : sessions[w] # None => deps[w] = sessions[w]
      BY <1>1, <1>2, <2>1, <2>2, <2>3, <2>4 DEF IInv, ReadsMatch, AsRead
    <3>. QED
      BY <1>2, <2>1 DEF IInv, ReadsMatch, Cells
  <2>. QED
    BY <1>1, <1>2, <1>4, <1>5, <2>2, <2>3, <2>4, <2>5, WorkerMoves
<1>7. CASE Panics
  <2>1. /\ worker.pc = "compiled" /\ Forget(u)
        /\ worker' = [worker EXCEPT !.pc = "one shot", !.index = Index(t, disk, disk)]
    BY <1>2, <1>7 DEF Panics
  <2>2. /\ Index(t, disk, disk) \in Analysis /\ Index(t, disk, disk).text = t
        /\ AsRead(Index(t, disk, disk), disk)
    BY <1>3 DEF Index, Analysis, AsRead
  <2>3. /\ worker' \in WorkerRecord /\ worker'.pc = "one shot" /\ worker'.job = worker.job
        /\ worker'.index = Index(t, disk, disk)
    BY <1>1, <2>1, <2>2 DEF WorkerRecord
  <2>4. WorkerShaped' /\ sessions'[u] = None
        /\ \A w \in Uri \ {u} : sessions'[w] = sessions[w] /\ deps'[w] = deps[w]
    BY <1>2, <2>1, <2>3, Forgotten DEF IInv, Shaped, WorkerShaped
  <2>5. ReadsMatch'
    BY <1>1, <1>2, <2>1, <2>2, <2>3, <2>4 DEF IInv, ReadsMatch
  <2>. QED
    BY <1>1, <1>2, <1>4, <1>5, <2>2, <2>3, <2>4, <2>5, WorkerMoves
<1>. QED
  BY <1>6, <1>7

\* The job is answered, to the handler or to the analysis that awaits it.
LEMMA AnswerKeeps ==
    ASSUME IInv, Answer
    PROVE  IInv'
<1>. DEFINE g == worker.job.reply
<1>1. /\ worker.pc \in {"compiled", "one shot"} /\ worker \in WorkerRecord
      /\ worker' = Idling
      /\ UNCHANGED <<disk, documents, indexes, published, gens, jobs, sessions, shown, shownFile,
                     raced, overtaken>>
  BY DEF Answer, IInv, Shaped, WorkerShaped, state, client
<1>2. PICK u \in Uri : /\ u = worker.job.uri /\ deps' = [deps EXCEPT ![u] = disk]
                       /\ worker.index \in Analysis /\ worker.index.text = worker.job.text
  BY <1>1 DEF Answer, IInv, Shaped, WorkerShaped, WorkerRecord, TextsMatch
<1>3. /\ Awaited(worker.job)
      /\ \A k : Analyzes(k) => Awaited(jobs[k]) /\ jobs[k].reply # g
      /\ \A j, k : Analyzes(j) /\ Analyzes(k) /\ jobs[j].reply = jobs[k].reply => j = k
  BY <1>1 DEF IInv, JobsMatch
<1>4. /\ Idling \in WorkerRecord /\ worker'.pc = "idle"
  BY <1>1 DEF Idling, WorkerRecord, CloseJob, Job, NoIndex, Analysis
<1>5. /\ QueueShaped' /\ StateShaped' /\ ClientShaped'
      /\ \A k : Analyzes(k)' <=> Analyzes(k)
  BY <1>1 DEF IInv, Shaped, QueueShaped, StateShaped, ClientShaped, Analyzes
<1>6. WorkerShaped'
  BY <1>1, <1>2, <1>4 DEF IInv, Shaped, WorkerShaped, StateShaped
<1>7. ~raced => /\ AsRead(worker.index, disk)
                /\ \A w \in Uri : sessions'[w] # None => deps'[w] = sessions'[w]
  <2>. SUFFICES ASSUME ~raced, NEW w \in Uri, sessions[w] # None
                PROVE  AsRead(worker.index, disk) /\ deps'[w] = sessions[w]
    BY <1>1 DEF IInv, ReadsMatch
  <2>1. deps'[u] = disk /\ (w # u => deps'[w] = deps[w])
    BY <1>2 DEF IInv, Shaped, WorkerShaped
  <2>. QED
    BY <1>1, <1>2, <2>1 DEF IInv, ReadsMatch
<1>8. \A w : Open(w)' <=> Open(w)
  BY <1>1 DEF Open
<1>9. CASE g = 0
  <2>1. /\ tasks' = tasks
        /\ handler' = [handler EXCEPT !.pc = "answered", !.answer = worker.index, !.dep = disk]
    BY <1>9 DEF Answer
  <2>2. /\ handler \in HandlerRecord /\ handler.pc = "await" /\ handler.text = worker.job.text
        /\ handler.text \in Text /\ handler.uri \in Uri /\ disk \in Nat
    BY <1>3, <1>9 DEF Awaited, IInv, Shaped, HandlerShaped, StateShaped
  <2>3. /\ HandlerShaped' /\ handler'.pc = "answered" /\ handler'.answer = worker.index
        /\ handler'.dep = disk /\ handler'.text = handler.text
    BY <1>2, <2>1, <2>2 DEF HandlerShaped, HandlerRecord, HandlerPoints
  <2>4. Shaped'
    BY <1>1, <1>5, <1>6, <2>1, <2>3 DEF IInv, Shaped, TasksShaped
  <2>5. JobsMatch'
    <3>1. \A k : Analyzes(k) => Awaited(jobs[k])'
      BY <1>1, <1>3, <1>9, <2>1 DEF Awaited
    <3>. QED
      BY <1>1, <1>3, <1>4, <1>5, <3>1 DEF JobsMatch
  <2>6. TextsMatch' /\ ReadsMatch'
    BY <1>1, <1>2, <1>4, <1>7, <2>1, <2>2, <2>3 DEF IInv, TextsMatch, ReadsMatch, Reports
  <2>7. GensMatch' /\ PublishesCurrent'
    BY <1>1, <2>1 DEF IInv, GensMatch, PublishesCurrent, Open, Current
  <2>8. ShownMatch' /\ CachedIsWhatItsKeySays'
    BY <1>1, <1>8, <2>2, ShownKept, CachedKept DEF IInv, Closing
  <2>9. FilesOwned'
    BY <1>1, <2>1, <2>2 DEF IInv, FilesOwned, Owned, Reports
  <2>. QED
    BY <2>4, <2>5, <2>6, <2>7, <2>8, <2>9 DEF IInv
<1>10. CASE g # 0
  <2>. DEFINE r == [tasks[g] EXCEPT !.pc = "answered", !.index = worker.index, !.dep = disk]
  <2>1. /\ g \in DOMAIN tasks /\ tasks[g].pc = "await" /\ tasks[g].text = worker.job.text
        /\ tasks[g] \in TaskRecord /\ tasks[g].text \in Text /\ disk \in Nat
    BY <1>3, <1>10, TaskKnows DEF Awaited, IInv, Shaped, StateShaped
  <2>2. tasks' = [tasks EXCEPT ![g] = r] /\ handler' = handler
    BY <1>10 DEF Answer
  <2>3. /\ r \in TaskRecord /\ r.uri = tasks[g].uri /\ r.pc = "answered" /\ r.dep = disk
        /\ r.index = worker.index /\ r.text = tasks[g].text
    BY <1>2, <2>1 DEF TaskRecord, TaskPoints
  <2>. HIDE DEF r
  <2>4. /\ tasks' \in Seq(TaskRecord) /\ Len(tasks') = Len(tasks)
        /\ DOMAIN tasks' = DOMAIN tasks /\ tasks'[g] = r
        /\ \A h \in DOMAIN tasks : h # g => tasks'[h] = tasks[h]
    BY <2>1, <2>2, <2>3, Replaced DEF IInv, Shaped
  <2>5. Shaped'
    BY <1>1, <1>5, <1>6, <2>2, <2>4 DEF IInv, Shaped, TasksShaped, HandlerShaped
  <2>6. JobsMatch'
    <3>1. \A k : Analyzes(k) => Awaited(jobs[k])'
      BY <1>1, <1>3, <2>2, <2>4 DEF Awaited
    <3>. QED
      BY <1>1, <1>3, <1>4, <1>5, <3>1 DEF JobsMatch
  <2>7. TextsMatch' /\ ReadsMatch'
    <3>1. TextsMatch'
      BY <1>2, <1>4, <2>1, <2>2, <2>3, <2>4 DEF IInv, TextsMatch, Reports
    <3>2. ~raced => \A h \in DOMAIN tasks' : tasks'[h].pc = "answered" =>
                      AsRead(tasks'[h].index, tasks'[h].dep)
      BY <1>7, <2>3, <2>4 DEF IInv, ReadsMatch
    <3>. QED
      BY <1>1, <1>4, <1>7, <2>2, <3>1, <3>2 DEF IInv, ReadsMatch
  <2>8. GensMatch'
    <3>. SUFFICES ASSUME NEW w \in Uri, Open(w)
                  PROVE  /\ documents[w].gen \in DOMAIN tasks
                         /\ tasks'[documents[w].gen].uri = w
                         /\ tasks'[documents[w].gen].pc \notin {"sleep", "done"} =>
                              tasks'[documents[w].gen].text = documents[w].text
      BY <1>1, <2>4 DEF GensMatch, Open
    <3>1. CASE documents[w].gen = g
      BY <2>1, <2>3, <2>4, <3>1 DEF IInv, GensMatch
    <3>2. CASE documents[w].gen # g
      BY <2>4, <3>2 DEF IInv, GensMatch
    <3>. QED
      BY <3>1, <3>2
  <2>9. PublishesCurrent'
    BY <1>1, <2>3, <2>4 DEF IInv, PublishesCurrent, Current, Open, Publishing
  <2>10. ShownMatch' /\ CachedIsWhatItsKeySays'
    BY <1>1, <1>8, <2>2, ShownKept, CachedKept DEF IInv, Closing
  <2>11. FilesOwned'
    BY <1>1, <2>1, <2>2, <2>4 DEF IInv, FilesOwned, Owned, Reports
  <2>. QED
    BY <2>5, <2>6, <2>7, <2>8, <2>9, <2>10, <2>11 DEF IInv
<1>. QED
  BY <1>9, <1>10

\* The worker dies, and whoever awaits it.
LEMMA Aborted ==
    ASSUME IInv, Dies
    PROVE  /\ tasks' \in Seq(TaskRecord) /\ Len(tasks') = Len(tasks)
           /\ DOMAIN tasks' = DOMAIN tasks
           /\ \A g \in DOMAIN tasks :
                IF tasks[g].pc = "await" THEN tasks'[g].uri = tasks[g].uri /\ tasks'[g].pc = "done"
                                         ELSE tasks'[g] = tasks[g]
<1>. DEFINE r(g) == IF tasks[g].pc = "await" THEN [Task(tasks[g].uri) EXCEPT !.pc = "done"]
                                             ELSE tasks[g]
<1>1. /\ tasks' = [g \in DOMAIN tasks |-> r(g)] /\ tasks \in Seq(TaskRecord)
      /\ Len(tasks) \in Nat /\ DOMAIN tasks = 1..Len(tasks)
  <2>1. tasks' = [g \in DOMAIN tasks |-> r(g)]
    BY Zenon DEF Dies
  <2>. QED
    BY <2>1 DEF IInv, Shaped, TasksShaped
<1>2. ASSUME NEW g \in DOMAIN tasks
      PROVE  /\ r(g) \in TaskRecord
             /\ IF tasks[g].pc = "await" THEN r(g).uri = tasks[g].uri /\ r(g).pc = "done"
                                         ELSE r(g) = tasks[g]
  <2>1. /\ tasks[g] \in TaskRecord /\ Task(tasks[g].uri) \in TaskRecord
        /\ Task(tasks[g].uri).uri = tasks[g].uri
    BY TaskKnows DEF Task
  <2>. QED
    BY <2>1 DEF TaskRecord, TaskPoints
<1>. HIDE DEF r
<1>3. /\ tasks' \in [1..Len(tasks) -> TaskRecord] /\ DOMAIN tasks' = DOMAIN tasks
      /\ \A g \in DOMAIN tasks : tasks'[g] = r(g)
  BY <1>1, <1>2
<1>4. tasks' \in Seq(TaskRecord) /\ Len(tasks') = Len(tasks)
  BY <1>1, <1>3
<1>. QED
  BY <1>2, <1>3, <1>4

LEMMA DiesKeeps ==
    ASSUME IInv, Dies
    PROVE  IInv'
<1>1. /\ worker.pc = "one shot" /\ worker' = Idling /\ jobs' = <<>>
      /\ sessions' = [u \in Uri |-> None] /\ deps' = [u \in Uri |-> None]
      /\ handler' = [handler EXCEPT !.pc = IF handler.pc = "await" THEN "panicked" ELSE handler.pc]
      /\ UNCHANGED <<disk, documents, indexes, published, gens, client, raced, overtaken>>
  BY DEF Dies, state
<1>2. /\ tasks' \in Seq(TaskRecord) /\ Len(tasks') = Len(tasks) /\ DOMAIN tasks' = DOMAIN tasks
      /\ \A g \in DOMAIN tasks :
           IF tasks[g].pc = "await" THEN tasks'[g].uri = tasks[g].uri /\ tasks'[g].pc = "done"
                                    ELSE tasks'[g] = tasks[g]
  BY Aborted
<1>3. Idling \in WorkerRecord /\ Idling.pc = "idle"
  BY DEF Idling, WorkerRecord, CloseJob, Job, NoIndex, Analysis
<1>4. /\ HandlerShaped' /\ handler'.pc # "await"
      /\ handler'.pc = "panicked" \/ handler' = handler
      /\ handler.pc \notin {"await", "answered"} => handler' = handler
  BY <1>1 DEF IInv, Shaped, HandlerShaped, HandlerRecord, HandlerPoints
<1>5. handler.pc # "await" => handler' = handler
  BY <1>1 DEF IInv, Shaped, HandlerShaped, HandlerRecord
<1>6. jobs' \in Seq(Job) /\ DOMAIN jobs' = {}
  <2>1. <<>> \in Seq(Job) /\ DOMAIN <<>> = {}
    OBVIOUS
  <2>. QED
    BY <1>1, <2>1, Zenon
<1>7. Shaped'
  <2>1. StateShaped' /\ ClientShaped' /\ TasksShaped'
    BY <1>1, <1>2 DEF IInv, Shaped, StateShaped, ClientShaped, TasksShaped, client
  <2>2. QueueShaped' /\ WorkerShaped'
    BY <1>1, <1>3, <1>6 DEF QueueShaped, WorkerShaped
  <2>. QED
    BY <1>4, <2>1, <2>2 DEF Shaped
<1>8. JobsMatch'
  BY <1>1, <1>3, <1>6 DEF JobsMatch, Analyzes
<1>9. TextsMatch'
  BY <1>1, <1>2, <1>3, <1>4 DEF IInv, TextsMatch, Answered, Publishing, Reports
<1>10. GensMatch'
  BY <1>1, <1>2 DEF IInv, GensMatch, Open
<1>11. ReadsMatch'
  BY <1>1, <1>2, <1>3, <1>4 DEF IInv, ReadsMatch
<1>12. PublishesCurrent'
  BY <1>1, <1>2 DEF IInv, PublishesCurrent, Current, Open, Publishing
<1>13. ShownMatch'
  <2>1. \A u : Closing(u) => Closing(u)'
    BY <1>5 DEF Closing
  <2>. QED
    BY <1>1, <2>1, ShownKept DEF IInv, client
<1>14. FilesOwned'
  <2>1. \A u : Owned(u) => Owned(u)'
    BY <1>1, <1>2, <1>5 DEF Owned, Reports
  <2>. QED
    BY <1>1, <2>1 DEF IInv, FilesOwned, client
<1>15. CachedIsWhatItsKeySays'
  BY <1>1, <1>5, CachedKept DEF IInv, Open
<1>. QED
  BY <1>7, <1>8, <1>9, <1>10, <1>11, <1>12, <1>13, <1>14, <1>15 DEF IInv

LEMMA FileChangesKeeps ==
    ASSUME IInv, FileChanges
    PROVE  IInv'
<1>1. /\ disk' = disk + 1 /\ raced' = (raced \/ worker.pc # "idle")
      /\ UNCHANGED <<state, tasks, handler, jobs, thread, client, overtaken>>
  BY DEF FileChanges
<1>2. Shaped'
  BY <1>1 DEF IInv, Shaped, StateShaped, TasksShaped, HandlerShaped, QueueShaped, WorkerShaped,
     ClientShaped, state, thread, client
<1>3. JobsMatch'
  <2>1. \A j : Awaited(j) <=> Awaited(j)'
    BY <1>1 DEF Awaited
  <2>. QED
    BY <1>1, <2>1 DEF IInv, JobsMatch, Analyzes, thread
<1>4. TextsMatch' /\ ReadsMatch'
  BY <1>1 DEF IInv, TextsMatch, ReadsMatch, Reports, thread
<1>5. GensMatch' /\ PublishesCurrent'
  BY <1>1 DEF IInv, GensMatch, PublishesCurrent, Open, Current, state
<1>6. ShownMatch' /\ CachedIsWhatItsKeySays'
  BY <1>1, ShownKept, CachedKept DEF IInv, Open, Closing, state, client
<1>7. FilesOwned'
  BY <1>1 DEF IInv, FilesOwned, Owned, Reports, state, client
<1>. QED
  BY <1>2, <1>3, <1>4, <1>5, <1>6, <1>7 DEF IInv

-----------------------------------------------------------------------------
LEMMA Keeps == IInv /\ [Next]_vars => IInv'
<1>. SUFFICES ASSUME IInv, [Next]_vars PROVE IInv'
  OBVIOUS
<1>1. CASE UNCHANGED vars
  <2>1. /\ UNCHANGED <<disk, state, tasks, handler, jobs, thread, client, raced, overtaken>>
        /\ \A k : Analyzes(k)' <=> Analyzes(k)
    BY <1>1 DEF vars, Analyzes, thread
  <2>2. QueueShaped' /\ WorkerShaped' /\ ReadsMatch'
    BY <2>1 DEF IInv, Shaped, QueueShaped, WorkerShaped, ReadsMatch, thread
  <2>3. JobsMatch'
    <3>1. \A j : Awaited(j) <=> Awaited(j)'
      BY <2>1 DEF Awaited
    <3>. QED
      BY <2>1, <3>1 DEF IInv, JobsMatch, thread
  <2>. QED
    BY <2>1, <2>2, <2>3, WorkerMoves DEF IInv, TextsMatch, thread
<1>2. ASSUME NEW u \in Uri, Message(u) PROVE IInv'
  BY <1>2, MessageKeeps, DidCloseKeeps, HoverKeeps DEF Message
<1>3. CASE DidChangeWatchedFiles \/ HandlerStep
  BY <1>3, WatchedKeeps, CloseKeeps, HoverAnswersKeeps DEF HandlerStep
<1>4. ASSUME NEW g \in DOMAIN tasks, TaskStep(g) PROVE IInv'
  BY <1>4, WakeKeeps, LookUpKeeps, CheckKeeps, PublishKeeps, FilesKeep DEF TaskStep
<1>5. CASE WorkerStep
  BY <1>5, TakeKeeps, CompileKeeps, DiesKeeps, AnswerKeeps DEF WorkerStep
<1>6. CASE FileChanges
  BY <1>6, FileChangesKeeps
<1>. QED
  BY <1>1, <1>2, <1>3, <1>4, <1>5, <1>6 DEF Next

\* index_for, did_close and the worker's dependencies: whatever is opened,
\* edited, requested and closed while analyses run, the cache holds an entry
\* only for a document that is open, or being closed, under the text it was
\* computed from; and, unless the imported file changed while a compile was
\* running, with the versions its dependencies record.
THEOREM CacheIsHonest == Spec => []CachedIsWhatItsKeySays
<1>1. IInv => CachedIsWhatItsKeySays
  BY DEF IInv
<1>. QED
  BY Starts, Keeps, <1>1, PTL DEF Spec

\* analyze_and_publish and did_close: as long as no document moves on while
\* its analysis is publishing, what a document shows is of the text whose
\* version it is stamped with, and a closed document shows nothing.
THEOREM DiagnosticsAreOfTheText == Spec => []ShownIsOfTheDocument
<1>1. IInv => ShownIsOfTheDocument
  BY DEF IInv, ShownMatch, ShownIsOfTheDocument
<1>. QED
  BY Starts, Keeps, <1>1, PTL DEF Spec

\* published_files: as long as no document moves on while its analysis is
\* publishing, whosever error a built-in's file shows is going to clear it.
THEOREM FilesAreCleared == Spec => []FileErrorsHaveAnOwner
<1>1. IInv => FileErrorsHaveAnOwner
  BY DEF IInv, FilesOwned, Owned, FileErrorsHaveAnOwner, Clearing
<1>. QED
  BY Starts, Keeps, <1>1, PTL DEF Spec

-----------------------------------------------------------------------------
(***************************************************************************)
(* That nobody waits for an answer that is not coming: whoever awaits one  *)
(* has a job in the queue or in the worker.  With JobsMatch, exactly one.  *)
(***************************************************************************)
Serves(g) ==
  \/ \E k : Analyzes(k) /\ jobs[k].reply = g
  \/ worker.pc # "idle" /\ worker.job.reply = g
AllServed ==
  /\ \A g \in DOMAIN tasks : tasks[g].pc = "await" => Serves(g)
  /\ handler.pc = "await" => Serves(0)
  /\ disk \in 1..MaxDisk

\* Nobody begins to wait, and no job is lost.
LEMMA NobodyWaits ==
    ASSUME AllServed, disk' \in 1..MaxDisk,
           \A g : Serves(g) => Serves(g)',
           \A g \in DOMAIN tasks' :
             tasks'[g].pc = "await" => g \in DOMAIN tasks /\ tasks[g].pc = "await",
           handler'.pc = "await" => handler.pc = "await"
    PROVE  AllServed'
  BY DEF AllServed

LEMMA AppendServes ==
    ASSUME QueueShaped, NEW job \in Job, jobs' = Append(jobs, job)
    PROVE  /\ \A k : Analyzes(k) => Analyzes(k)' /\ jobs'[k] = jobs[k]
           /\ job.kind = "analyze" => \E k : Analyzes(k)' /\ jobs'[k] = job
<1>1. /\ jobs' \in Seq(Job) /\ Len(jobs) \in Nat /\ DOMAIN jobs = 1..Len(jobs)
      /\ DOMAIN jobs' = 1..(Len(jobs) + 1) /\ jobs'[Len(jobs) + 1] = job
      /\ \A k \in DOMAIN jobs : jobs'[k] = jobs[k]
  BY DEF QueueShaped
<1>2. DOMAIN jobs \subseteq DOMAIN jobs'
  BY <1>1
<1>3. PICK k \in DOMAIN jobs' : jobs'[k] = job
  BY <1>1
<1>. QED
  BY <1>1, <1>2, <1>3 DEF Analyzes

LEMMA TasksServed ==
    ASSUME IInv, AllServed, NEW g \in DOMAIN tasks, TaskStep(g)
    PROVE  AllServed'
<1>1. disk' \in 1..MaxDisk /\ worker' = worker /\ handler' = handler
  BY DEF TaskStep, Wake, LookUp, Check, Publish, PublishFiles, SwapFiles, ClearFiles, thread,
     AllServed
<1>2. /\ DOMAIN tasks' = DOMAIN tasks
      /\ \A h \in DOMAIN tasks : h # g => tasks'[h] = tasks[h]
  BY DEF TaskStep, Wake, LookUp, Check, Publish, PublishFiles, SwapFiles, ClearFiles, Move,
     IInv, Shaped, TasksShaped
<1>3. CASE LookUp(g) /\ ~Hit(tasks[g].uri, tasks[g].text) /\ ~dead
  <2>. DEFINE job == AnalyzeJob(tasks[g].uri, tasks[g].text, g)
  <2>1. jobs' = Append(jobs, job) /\ tasks[g].pc = "lookup"
    BY <1>3 DEF LookUp, Sent
  <2>2. job \in Job /\ job.kind = "analyze" /\ job.reply = g
    BY <2>1, TaskKnows, TaskIs DEF AnalyzeJob, Job, IInv, Shaped
  <2>. HIDE DEF job
  <2>3. /\ \A k : Analyzes(k) => Analyzes(k)' /\ jobs'[k] = jobs[k]
        /\ \E k : Analyzes(k)' /\ jobs'[k].reply = g
    BY <2>1, <2>2, AppendServes DEF IInv, Shaped
  <2>4. Serves(g)'
    BY <2>3 DEF Serves
  <2>5. ASSUME NEW h, Serves(h) PROVE Serves(h)'
    <3>1. CASE worker.pc # "idle" /\ worker.job.reply = h
      BY <1>1, <3>1 DEF Serves
    <3>2. ASSUME NEW k, Analyzes(k), jobs[k].reply = h PROVE Serves(h)'
      BY <2>3, <3>2 DEF Serves
    <3>. QED
      BY <2>5, <3>1, <3>2 DEF Serves
  <2>. QED
    BY <1>1, <1>2, <2>4, <2>5 DEF AllServed
<1>4. CASE ~(LookUp(g) /\ ~Hit(tasks[g].uri, tasks[g].text) /\ ~dead)
  <2>1. jobs' = jobs
    BY <1>4
    DEF TaskStep, Wake, LookUp, Sent, Check, Publish, PublishFiles, SwapFiles, ClearFiles
  <2>2. \A h : Serves(h) => Serves(h)'
    BY <1>1, <2>1 DEF Serves, Analyzes
  <2>3. tasks'[g].pc # "await"
    <3>1. tasks \in Seq(TaskRecord) /\ tasks[g] \in TaskRecord
      BY TaskKnows DEF IInv, Shaped, TasksShaped
    <3>2. CASE Wake(g) \/ LookUp(g)
      <4>1. \/ Move(g, "done")
            \/ tasks' = [tasks EXCEPT ![g].pc = "lookup",
                                      ![g].text = documents[tasks[g].uri].text]
            \/ tasks' = [tasks EXCEPT ![g].pc = "check",
                                      ![g].index = indexes[tasks[g].uri].index]
        BY <1>4, <3>2 DEF Wake, LookUp
      <4>2. CASE Move(g, "done")
        BY <3>1, <4>2, DoneIs, Replaced DEF IInv, Shaped
      <4>. QED
        BY <3>1, <4>1, <4>2 DEF TaskRecord
    <3>3. CASE Check(g) \/ Publish(g) \/ PublishFiles(g) \/ SwapFiles(g) \/ ClearFiles(g)
      <4>1. PICK point \in {"done", "publish", "files", "swap", "clear"} : Move(g, point)
        BY <3>3 DEF Check, Publish, PublishFiles, SwapFiles, ClearFiles
      <4>2. CASE point = "done"
        BY <3>1, <4>1, <4>2, DoneIs, Replaced DEF IInv, Shaped
      <4>3. CASE point # "done"
        <5>1. point \in TaskPoints \ {"done"} /\ point # "await"
          BY <4>1, <4>3 DEF TaskPoints
        <5>. QED
          BY <4>1, <5>1, MoveIs, Replaced DEF IInv, Shaped
      <4>. QED
        BY <4>2, <4>3
    <3>. QED
      BY <3>2, <3>3 DEF TaskStep
  <2>4. \A h \in DOMAIN tasks' :
          tasks'[h].pc = "await" => h \in DOMAIN tasks /\ tasks[h].pc = "await"
    BY <1>2, <2>3
  <2>. QED
    BY <1>1, <2>2, <2>4, NobodyWaits
<1>. QED
  BY <1>3, <1>4

LEMMA MessagesServed ==
    ASSUME IInv, AllServed, NEW u \in Uri, Message(u)
    PROVE  AllServed'
<1>1. disk' = disk /\ worker' = worker /\ disk \in 1..MaxDisk
  BY DEF Message, DidOpen, DidChange, DidSave, DidClose, Hover, thread, AllServed
<1>2. CASE Hover(u) /\ ~Hit(u, documents[u].text) /\ ~dead
  <2>. DEFINE job == AnalyzeJob(u, documents[u].text, 0)
  <2>1. /\ jobs' = Append(jobs, job) /\ tasks' = tasks /\ documents[u] \in Document
    BY <1>2 DEF Hover, Sent, IInv, Shaped, StateShaped, Open
  <2>2. job \in Job /\ job.kind = "analyze" /\ job.reply = 0
    BY <2>1 DEF AnalyzeJob, Job, Document
  <2>. HIDE DEF job
  <2>3. /\ \A k : Analyzes(k) => Analyzes(k)' /\ jobs'[k] = jobs[k]
        /\ \E k : Analyzes(k)' /\ jobs'[k].reply = 0
    BY <2>1, <2>2, AppendServes DEF IInv, Shaped
  <2>4. ASSUME NEW h, Serves(h) PROVE Serves(h)'
    <3>1. CASE worker.pc # "idle" /\ worker.job.reply = h
      BY <1>1, <3>1 DEF Serves
    <3>2. ASSUME NEW k, Analyzes(k), jobs[k].reply = h PROVE Serves(h)'
      BY <2>3, <3>2 DEF Serves
    <3>. QED
      BY <2>4, <3>1, <3>2 DEF Serves
  <2>5. Serves(0)'
    BY <2>3 DEF Serves
  <2>. QED
    BY <1>1, <2>1, <2>4, <2>5 DEF AllServed
<1>3. CASE ~(Hover(u) /\ ~Hit(u, documents[u].text) /\ ~dead)
  <2>1. /\ jobs' = jobs /\ (handler'.pc = "await" => handler.pc = "await")
        /\ \/ tasks' = tasks
           \/ tasks' = Append(tasks, Task(u))
    <3>1. CASE DidOpen(u) \/ DidChange(u) \/ DidSave(u)
      BY <3>1 DEF DidOpen, DidChange, DidSave, Schedule, Reanalyze
    <3>2. CASE DidClose(u)
      BY <3>2 DEF DidClose, IInv, Shaped, HandlerShaped, HandlerRecord
    <3>3. CASE Hover(u)
      BY <1>3, <3>3 DEF Hover, Sent, IInv, Shaped, HandlerShaped, HandlerRecord
    <3>. QED
      BY <3>1, <3>2, <3>3 DEF Message
  <2>2. \A h : Serves(h) => Serves(h)'
    BY <1>1, <2>1 DEF Serves, Analyzes
  <2>3. \A g \in DOMAIN tasks' :
          tasks'[g].pc = "await" => g \in DOMAIN tasks /\ tasks[g].pc = "await"
    <3>1. Task(u) \in TaskRecord /\ Task(u).pc = "sleep"
      BY DEF Task, TaskRecord, TaskPoints, NoIndex, Analysis
    <3>. HIDE DEF Task
    <3>. QED
      BY <2>1, <3>1 DEF IInv, Shaped, TasksShaped
  <2>. QED
    BY <1>1, <2>1, <2>2, <2>3, NobodyWaits
<1>. QED
  BY <1>2, <1>3

LEMMA HandlerServed ==
    ASSUME IInv, AllServed, DidChangeWatchedFiles \/ HandlerStep
    PROVE  AllServed'
<1>1. disk' = disk /\ worker' = worker /\ disk \in 1..MaxDisk
  BY DEF DidChangeWatchedFiles, HandlerStep, WatchedStep, CloseIndex, CloseFiles, CloseUri,
     HoverAnswers, thread, AllServed
<1>2. handler'.pc # "await"
  <2>1. handler \in HandlerRecord
    BY DEF IInv, Shaped, HandlerShaped
  <2>2. CASE WatchedStep
    <3>1. \/ handler' = [handler EXCEPT !.pc = "idle"]
          \/ handler.pc = "watched"
             /\ \E w \in handler.again : handler' = [handler EXCEPT !.again = handler.again \ {w}]
      BY <2>2 DEF WatchedStep
    <3>. QED
      BY <2>1, <3>1 DEF HandlerRecord
  <2>3. CASE DidChangeWatchedFiles \/ CloseIndex \/ CloseFiles \/ CloseUri \/ HoverAnswers
    BY <2>1, <2>3 DEF HandlerRecord, DidChangeWatchedFiles, CloseIndex, CloseFiles, CloseUri,
       HoverAnswers
  <2>. QED
    BY <2>2, <2>3 DEF HandlerStep
<1>3. \A h : Serves(h) => Serves(h)'
  <2>1. CASE CloseIndex
    <3>1. PICK u \in Uri : jobs' = Append(jobs, CloseJob(u)) \/ jobs' = jobs
      BY <2>1 DEF CloseIndex, Sent, IInv, Shaped, HandlerShaped
    <3>2. CloseJob(u) \in Job
      BY DEF CloseJob, Job
    <3>3. \A k : Analyzes(k) => Analyzes(k)' /\ jobs'[k] = jobs[k]
      BY <3>1, <3>2, AppendServes DEF IInv, Shaped, Analyzes
    <3>. QED
      BY <1>1, <3>3 DEF Serves
  <2>2. CASE DidChangeWatchedFiles \/ WatchedStep \/ CloseFiles \/ CloseUri \/ HoverAnswers
    <3>1. jobs' = jobs
      BY <2>2 DEF DidChangeWatchedFiles, WatchedStep, CloseFiles, CloseUri, HoverAnswers
    <3>. QED
      BY <1>1, <3>1 DEF Serves, Analyzes
  <2>. QED
    BY <2>1, <2>2 DEF HandlerStep
<1>4. \A g \in DOMAIN tasks' :
        tasks'[g].pc = "await" => g \in DOMAIN tasks /\ tasks[g].pc = "await"
  <2>1. tasks' = tasks \/ \E u \in Uri : tasks' = Append(tasks, Task(u))
    <3>1. CASE WatchedStep
      BY <3>1 DEF WatchedStep, Reanalyze, Schedule, IInv, Shaped, HandlerShaped, HandlerRecord
    <3>2. CASE DidChangeWatchedFiles \/ CloseIndex \/ CloseFiles \/ CloseUri \/ HoverAnswers
      BY <3>2 DEF DidChangeWatchedFiles, CloseIndex, CloseFiles, CloseUri, HoverAnswers
    <3>. QED
      BY <3>1, <3>2 DEF HandlerStep
  <2>2. \A u \in Uri : Task(u) \in TaskRecord /\ Task(u).pc = "sleep"
    BY DEF Task, TaskRecord, TaskPoints, NoIndex, Analysis
  <2>. HIDE DEF Task
  <2>. QED
    BY <2>1, <2>2 DEF IInv, Shaped, TasksShaped
<1>. QED
  BY <1>1, <1>2, <1>3, <1>4, NobodyWaits

LEMMA WorkerServed ==
    ASSUME IInv, AllServed, WorkerStep \/ FileChanges
    PROVE  AllServed'
<1>1. disk \in 1..MaxDisk /\ disk' \in 1..MaxDisk
  <2>1. disk \in 1..MaxDisk /\ MaxDisk \in Nat
    BY DEF AllServed
  <2>2. disk' = disk \/ (disk < MaxDisk /\ disk' = disk + 1)
    BY DEF WorkerStep, Take, Compile, Panics, Dies, Answer, FileChanges
  <2>. QED
    BY <2>1, <2>2
<1>2. worker \in WorkerRecord
  BY DEF IInv, Shaped, WorkerShaped
<1>3. CASE Take
  <2>1. /\ jobs # <<>> /\ jobs' = Tail(jobs) /\ worker.pc = "idle"
        /\ handler' = handler /\ tasks' = tasks
    BY <1>3 DEF Take
  <2>2. /\ Head(jobs) = jobs[1] /\ jobs \in Seq(Job) /\ jobs[1] \in Job
        /\ \A k \in DOMAIN jobs : k # 1 => /\ k - 1 \in DOMAIN jobs' /\ (k - 1) + 1 = k
                                          /\ jobs'[k - 1] = jobs[k]
    BY <2>1 DEF IInv, Shaped, QueueShaped
  <2>3. jobs[1].kind = "analyze" => worker'.pc = "taken" /\ worker'.job = jobs[1]
    BY <1>2, <1>3, <2>2 DEF Take, WorkerRecord
  <2>4. ASSUME NEW h, Serves(h) PROVE Serves(h)'
    <3>1. PICK k : Analyzes(k) /\ jobs[k].reply = h
      BY <2>1, <2>4 DEF Serves
    <3>2. CASE k = 1
      BY <2>3, <3>1, <3>2 DEF Serves, Analyzes
    <3>3. CASE k # 1
      <4>1. PICK j \in DOMAIN jobs' : jobs'[j] = jobs[k]
        BY <2>2, <3>1, <3>3 DEF Analyzes
      <4>. QED
        BY <3>1, <4>1 DEF Serves, Analyzes
    <3>. QED
      BY <3>2, <3>3
  <2>. QED
    BY <1>1, <2>1, <2>4, NobodyWaits
<1>4. CASE Compile \/ Panics \/ FileChanges
  <2>1. /\ jobs' = jobs /\ tasks' = tasks /\ handler' = handler
        /\ worker.pc # "idle" => worker'.pc # "idle" /\ worker'.job = worker.job
    BY <1>2, <1>4 DEF Compile, Panics, FileChanges, thread, WorkerRecord
  <2>2. \A h : Serves(h) => Serves(h)'
    BY <2>1 DEF Serves, Analyzes
  <2>. QED
    BY <1>1, <2>1, <2>2, NobodyWaits
<1>5. CASE Answer
  <2>. DEFINE g == worker.job.reply
  <2>1. jobs' = jobs /\ worker.pc # "idle" /\ Awaited(worker.job)
    BY <1>5 DEF Answer, IInv, JobsMatch
  <2>2. ASSUME NEW h, h # g, Serves(h) PROVE Serves(h)'
    BY <2>1, <2>2 DEF Serves, Analyzes
  <2>3. CASE g = 0
    <3>1. /\ handler' = [handler EXCEPT !.pc = "answered", !.answer = worker.index, !.dep = disk]
          /\ tasks' = tasks /\ handler \in HandlerRecord
      BY <1>5, <2>3 DEF Answer, IInv, Shaped, HandlerShaped
    <3>2. handler'.pc # "await"
      BY <3>1 DEF HandlerRecord
    <3>3. \A h \in DOMAIN tasks : h # 0
      BY TaskIs DEF IInv, Shaped
    <3>. QED
      BY <1>1, <2>2, <2>3, <3>1, <3>2, <3>3 DEF AllServed
  <2>4. CASE g # 0
    <3>1. /\ tasks' = [tasks EXCEPT ![g].pc = "answered", ![g].index = worker.index,
                                    ![g].dep = disk]
          /\ handler' = handler /\ g \in DOMAIN tasks /\ tasks[g] \in TaskRecord
      BY <1>5, <2>1, <2>4, TaskKnows DEF Answer, Awaited
    <3>2. /\ DOMAIN tasks' = DOMAIN tasks /\ tasks'[g].pc = "answered"
          /\ \A h \in DOMAIN tasks : h # g => tasks'[h] = tasks[h]
      BY <3>1 DEF IInv, Shaped, TasksShaped, TaskRecord
    <3>. QED
      BY <1>1, <2>2, <2>4, <3>1, <3>2 DEF AllServed
  <2>. QED
    BY <2>3, <2>4
<1>6. CASE Dies
  <2>1. handler'.pc # "await"
    BY <1>6 DEF Dies, IInv, Shaped, HandlerShaped, HandlerRecord
  <2>2. \A g \in DOMAIN tasks' : tasks'[g].pc # "await"
    BY <1>6, Aborted
  <2>. QED
    BY <1>1, <2>1, <2>2 DEF AllServed
<1>. QED
  BY <1>3, <1>4, <1>5, <1>6 DEF WorkerStep

LEMMA ServedStarts == Init => AllServed
  BY DEF Init, AllServed

LEMMA ServedKeeps == IInv /\ AllServed /\ [Next]_vars => AllServed'
<1>. SUFFICES ASSUME IInv, AllServed, [Next]_vars PROVE AllServed'
  OBVIOUS
<1>1. CASE UNCHANGED vars
  BY <1>1 DEF vars, thread, AllServed, Serves, Analyzes
<1>2. CASE Next
  BY <1>2, MessagesServed, HandlerServed, TasksServed, WorkerServed DEF Next
<1>. QED
  BY <1>1, <1>2

\* What the worker, the queue and the waiters agree on.
LEMMA WaitersAre ==
    ASSUME IInv, NEW g
    PROVE  Waiters(g) = IF Serves(g) THEN 1 ELSE 0
<1>. DEFINE K == {k \in DOMAIN jobs : jobs[k].kind = "analyze" /\ jobs[k].reply = g}
<1>1. \A k : k \in K <=> Analyzes(k) /\ jobs[k].reply = g
  BY DEF Analyzes
<1>2. \A j, k \in K : j = k
  BY <1>1 DEF IInv, JobsMatch
<1>. HIDE DEF K
<1>3. K = {} \/ \E k : K = {k}
  BY <1>2
<1>4. Cardinality(K) = IF K = {} THEN 0 ELSE 1
  BY <1>3, FS_EmptySet, FS_Singleton
<1>5. ASSUME worker.pc # "idle", worker.job.reply = g PROVE K = {}
  BY <1>1, <1>5 DEF IInv, JobsMatch
<1>6. Waiters(g) = Cardinality(K) + (IF worker.pc # "idle" /\ worker.job.reply = g THEN 1 ELSE 0)
  BY DEF Waiters, K
<1>. QED
  BY <1>1, <1>4, <1>5, <1>6 DEF Serves

\* The types; that an open document's generation is a task of its own; and
\* that whoever awaits an answer is the one waiter of one job.
THEOREM TypeCorrect == Spec => []TypeOK
<1>1. IInv /\ AllServed => TypeOK
  <2>. SUFFICES ASSUME IInv, AllServed PROVE TypeOK
    OBVIOUS
  <2>1. \A g : Serves(g) => IF g = 0 THEN handler.pc = "await"
                                     ELSE g \in DOMAIN tasks /\ tasks[g].pc = "await"
    BY DEF Serves, IInv, JobsMatch, Awaited
  <2>2. ASSUME NEW g \in DOMAIN tasks
        PROVE  tasks[g].pc \in TaskPoints /\ Waiters(g) = IF tasks[g].pc = "await" THEN 1 ELSE 0
    <3>1. tasks[g] \in TaskRecord /\ g # 0
      BY TaskKnows, TaskIs DEF IInv, Shaped
    <3>. QED
      BY <2>1, <3>1, WaitersAre DEF AllServed, TaskRecord
  <2>3. Waiters(0) = IF handler.pc = "await" THEN 1 ELSE 0
    BY <2>1, WaitersAre DEF AllServed
  <2>. QED
    BY <2>2, <2>3 DEF TypeOK, IInv, GensMatch, AllServed, Shaped, StateShaped, TasksShaped
<1>. QED
  BY Starts, Keeps, ServedStarts, ServedKeeps, <1>1, PTL DEF Spec
=============================================================================
