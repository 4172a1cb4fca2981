--------------------------- MODULE LanguageServer ---------------------------
(* The language server: notifications and requests handled one at a time, the  *)
(* analyses they spawn running concurrently with them and with each other, and *)
(* one worker thread that owns the sessions and serves a queue of jobs.        *)
(* Source: lichen-language-server/src/server.rs.                               *)
(*                                                                             *)
(* A document's text is a model value; every text imports one file, whose      *)
(* bytes are a version number.  An analysis is what it was computed from:      *)
(* [text, read, cells]: the document's text, the version of the file it        *)
(* loaded, and the version the values it reused were computed from.            *)
EXTENDS Integers, Sequences, FiniteSets

CONSTANTS
  Uri,          \* documents
  Text,         \* the texts a document may hold
  Reporting,    \* texts whose analysis reports an error in a built-in's file
  Uncacheable,  \* texts whose analysis fails to resolve or read a package
  None,
  MaxGen,       \* bound: generations
  MaxDisk,      \* bound: versions of the imported file
  MaxHover,     \* bound: requests
  MaxPanic      \* bound: panics of the worker

ASSUME TextAssumption == Reporting \subseteq Text /\ Uncacheable \subseteq Text
ASSUME BoundAssumption == {MaxGen, MaxHover, MaxPanic} \subseteq Nat /\ MaxDisk \in Nat \ {0}
ASSUME NoneAssumption ==
  None \notin Uri \cup Text \cup [text : Text, gen : Nat, version : Nat]

VARIABLES
  disk,       \* the version of the imported file
  watch,      \* the client has yet to report a change of the file
  documents,  \* [Uri -> None or [text, gen, version]]
  indexes,    \* [Uri -> None or [text, dep, index]]
  published,  \* [Uri -> the built-in's file is in published_files]
  gens,       \* generations minted
  tasks,      \* tasks[g]: the spawned analysis of generation g
  handler,    \* the notification or request being handled
  jobs,       \* the worker's queue
  worker,     \* the job the worker is running
  sessions,   \* [Uri -> None or the file version its retained cells read]
  deps,       \* [Uri -> None or the recorded version of the file]
  shown,      \* [Uri -> None or the diagnostics the client shows]
  shownFile,  \* None or the document whose error the built-in's file shows
  hovers, panics,
  dead,       \* the worker thread has panicked
  raced,      \* the file changed while an analysis ran
  overtaken   \* a document moved on while its analysis was publishing

client == <<shown, shownFile>>
state == <<documents, indexes, published, gens>>
thread == <<worker, sessions, deps>>
bounds == <<hovers, panics, dead>>
vars == <<disk, watch, state, tasks, handler, jobs, thread, client, bounds, raced, overtaken>>

Open(u) == documents[u] # None
Current(u, g) == Open(u) /\ documents[u].gen = g
NoIndex == [text |-> None, read |-> 0, cells |-> 0]
Index(t, read, cells) == [text |-> t, read |-> read, cells |-> cells]

-----------------------------------------------------------------------------
(* The index cache.                                                            *)

Unchanged(entry) == entry.dep = disk

Hit(u, t) == indexes[u] # None /\ indexes[u].text = t /\ Unchanged(indexes[u])

(* A dependency moved under the entry: it is dropped.                          *)
Dropped(u, t) ==
  IF indexes[u] # None /\ indexes[u].text = t THEN [indexes EXCEPT ![u] = None] ELSE indexes

(* A mutated Stored: the answer is filed without asking for the document.      *)
StoredBlindly(u, t, answer) ==
  IF t \notin Uncacheable
    THEN [indexes EXCEPT ![u] = [text |-> t, dep |-> answer.dep, index |-> answer.index]]
    ELSE indexes

(* Only the document's current text is kept, and only a cacheable analysis.    *)
Stored(u, t, answer) ==
  IF t \notin Uncacheable /\ Open(u) /\ documents[u].text = t
    THEN [indexes EXCEPT ![u] = [text |-> t, dep |-> answer.dep, index |-> answer.index]]
    ELSE indexes

-----------------------------------------------------------------------------
(* The documents, and the analyses spawned for them.                           *)

Task(u) == [uri |-> u, pc |-> "sleep", text |-> None, index |-> NoIndex, dep |-> 0]

(* An analysis that has passed its check no longer sees its document move.     *)
Overtaken(u) ==
  \E g \in DOMAIN tasks : tasks[g].uri = u /\ tasks[g].pc \in {"publish", "files", "swap", "clear"}

(* A mutated Schedule: the client's version stands in for the generation.      *)
ScheduleByVersion(docs, u, t, v) ==
  /\ gens < MaxGen
  /\ gens' = gens + 1
  /\ documents' = [docs EXCEPT ![u] = [text |-> t, gen |-> v, version |-> v]]
  /\ tasks' = Append(tasks, Task(u))
  /\ overtaken' = (overtaken \/ Overtaken(u))

(* set_text and the spawn of schedule_analysis.                                *)
Schedule(docs, u, t, v) ==
  /\ gens < MaxGen
  /\ gens' = gens + 1
  /\ documents' = [docs EXCEPT ![u] = [text |-> t, gen |-> gens + 1, version |-> v]]
  /\ tasks' = Append(tasks, Task(u))
  /\ overtaken' = (overtaken \/ Overtaken(u))

HandlerIdle == handler.pc = "idle"

DidOpen(u) ==
  /\ HandlerIdle /\ ~Open(u)
  /\ \E t \in Text : Schedule(documents, u, t, 1)
  /\ indexes' = [indexes EXCEPT ![u] = None]
  /\ UNCHANGED <<disk, watch, published, handler, jobs, thread, client, bounds, raced>>

DidChange(u) ==
  /\ HandlerIdle /\ Open(u)
  /\ \E t \in Text : Schedule(documents, u, t, documents[u].version + 1)
  /\ UNCHANGED <<disk, watch, indexes, published, handler, jobs, thread, client, bounds, raced>>

Reanalyze(u) == Schedule(documents, u, documents[u].text, documents[u].version)

DidSave(u) ==
  /\ HandlerIdle /\ Open(u)
  /\ Reanalyze(u)
  /\ UNCHANGED <<disk, watch, indexes, published, handler, jobs, thread, client, bounds, raced>>

(* A watched file changed: its importers' entries go, and the documents that   *)
(* had one are analyzed again, one after the other.                            *)
DidChangeWatchedFiles ==
  /\ HandlerIdle /\ watch
  /\ LET affected == {u \in Uri : indexes[u] # None} IN
       /\ indexes' = [u \in Uri |-> None]
       /\ gens + Cardinality(affected) <= MaxGen
       /\ handler' = [handler EXCEPT !.pc = "watched", !.again = affected]
  /\ watch' = FALSE
  /\ UNCHANGED <<disk, documents, published, gens, tasks, jobs, thread, client, bounds,
                 raced, overtaken>>

WatchedStep ==
  /\ handler.pc = "watched"
  /\ IF handler.again = {}
       THEN handler' = [handler EXCEPT !.pc = "idle"] /\ UNCHANGED <<documents, gens, tasks, overtaken>>
       ELSE \E u \in handler.again :
              /\ handler' = [handler EXCEPT !.again = @ \ {u}]
              /\ IF Open(u) THEN Reanalyze(u) ELSE UNCHANGED <<documents, gens, tasks, overtaken>>
  /\ UNCHANGED <<disk, watch, indexes, published, jobs, thread, client, bounds, raced>>

(* did_close: the document first, then the index, the session and the files    *)
(* its last analysis published for, then the client's list.                    *)
DidClose(u) ==
  /\ HandlerIdle /\ Open(u)
  /\ documents' = [documents EXCEPT ![u] = None]
  /\ overtaken' = (overtaken \/ Overtaken(u))
  /\ handler' = [handler EXCEPT !.pc = "close index", !.uri = u]
  /\ UNCHANGED <<disk, watch, indexes, published, gens, tasks, jobs, thread, client, bounds, raced>>

CloseJob(u) == [kind |-> "close", uri |-> u, text |-> None, reply |-> 0]
AnalyzeJob(u, t, g) == [kind |-> "analyze", uri |-> u, text |-> t, reply |-> g]

(* The queue's receiver went with a dead worker: nothing is queued any more.   *)
Sent(job) == IF dead THEN jobs ELSE Append(jobs, job)

CloseIndex ==
  /\ handler.pc = "close index"
  /\ LET u == handler.uri IN
       /\ indexes' = [indexes EXCEPT ![u] = None]
       /\ jobs' = Sent(CloseJob(u))
       /\ published' = [published EXCEPT ![u] = FALSE]
       /\ handler' = [handler EXCEPT !.pc = IF published[u] THEN "close files" ELSE "close uri"]
  /\ UNCHANGED <<disk, watch, documents, gens, tasks, thread, client, bounds, raced, overtaken>>

CloseFiles ==
  /\ handler.pc = "close files"
  /\ shownFile' = None
  /\ handler' = [handler EXCEPT !.pc = "close uri"]
  /\ UNCHANGED <<disk, watch, state, tasks, jobs, thread, shown, bounds, raced, overtaken>>

CloseUri ==
  /\ handler.pc = "close uri"
  /\ shown' = [shown EXCEPT ![handler.uri] = None]
  /\ handler' = [handler EXCEPT !.pc = "idle", !.uri = None]
  /\ UNCHANGED <<disk, watch, state, tasks, jobs, thread, shownFile, bounds, raced, overtaken>>

(* hover, definition, completion, tokens: index_for, awaited by the handler,   *)
(* which panics when there is no worker to ask.                                *)
Hover(u) ==
  /\ HandlerIdle /\ Open(u) /\ hovers < MaxHover
  /\ hovers' = hovers + 1
  /\ LET t == documents[u].text IN
       IF Hit(u, t)
         THEN UNCHANGED <<handler, indexes, jobs>>
         ELSE /\ handler' = [handler EXCEPT !.pc = IF dead THEN "panicked" ELSE "await",
                                            !.uri = u, !.text = t]
              /\ indexes' = Dropped(u, t)
              /\ jobs' = Sent(AnalyzeJob(u, t, 0))
  /\ UNCHANGED <<disk, watch, documents, published, gens, tasks, thread, client, panics, dead,
                 raced, overtaken>>

HoverAnswers ==
  /\ handler.pc = "answered"
  /\ indexes' = Stored(handler.uri, handler.text,
                       [index |-> handler.answer, dep |-> handler.dep])
  /\ handler' = [handler EXCEPT !.pc = "idle", !.uri = None, !.text = None,
                                       !.answer = NoIndex, !.dep = 0]
  /\ UNCHANGED <<disk, watch, documents, published, gens, tasks, jobs, thread, client,
                 bounds, raced, overtaken>>
-----------------------------------------------------------------------------
(* One spawned analysis.                                                       *)

Move(g, pc) ==
  tasks' = [tasks EXCEPT ![g] = IF pc = "done" THEN [Task(@.uri) EXCEPT !.pc = "done"]
                                               ELSE [@ EXCEPT !.pc = pc]]
Superseded(g) == ~Current(tasks[g].uri, g)

(* The debounce ends: a superseded edit stops before the frontend runs.        *)
Wake(g) ==
  /\ tasks[g].pc = "sleep"
  /\ IF Superseded(g)
       THEN Move(g, "done")
       ELSE tasks' = [tasks EXCEPT ![g].pc = "lookup",
                                   ![g].text = documents[tasks[g].uri].text]
  /\ UNCHANGED <<disk, watch, state, handler, jobs, thread, client, bounds, raced, overtaken>>

(* A mutated LookUp: a hit is taken to have been published already.            *)
LookUpSkipping(g) ==
  LET u == tasks[g].uri
      t == tasks[g].text
  IN
  /\ tasks[g].pc = "lookup"
  /\ IF Hit(u, t)
       THEN /\ Move(g, "done")
            /\ UNCHANGED <<indexes, jobs>>
       ELSE /\ Move(g, IF dead THEN "done" ELSE "await")
            /\ indexes' = Dropped(u, t)
            /\ jobs' = Sent(AnalyzeJob(u, t, g))
  /\ UNCHANGED <<disk, watch, documents, published, gens, handler, thread, client, bounds,
                 raced, overtaken>>

(* The task of an analysis that has no worker to ask panics.                   *)
LookUp(g) ==
  LET u == tasks[g].uri
      t == tasks[g].text
  IN
  /\ tasks[g].pc = "lookup"
  /\ IF Hit(u, t)
       THEN /\ tasks' = [tasks EXCEPT ![g].pc = "check", ![g].index = indexes[u].index]
            /\ UNCHANGED <<indexes, jobs>>
       ELSE /\ Move(g, IF dead THEN "done" ELSE "await")
            /\ indexes' = Dropped(u, t)
            /\ jobs' = Sent(AnalyzeJob(u, t, g))
  /\ UNCHANGED <<disk, watch, documents, published, gens, handler, thread, client, bounds,
                 raced, overtaken>>

Reports(g) == tasks[g].index.text \in Reporting

(* A mutated Check: the generation is not checked again after the wait.        *)
CheckNothing(g) ==
  /\ tasks[g].pc \in {"answered", "check"}
  /\ indexes' = IF tasks[g].pc = "answered"
                  THEN Stored(tasks[g].uri, tasks[g].text, tasks[g]) ELSE indexes
  /\ Move(g, "publish")
  /\ UNCHANGED <<disk, watch, documents, published, gens, handler, jobs, thread, client,
                 bounds, raced, overtaken>>

(* index_for files the answer; then the generation is checked.                 *)
Check(g) ==
  /\ tasks[g].pc \in {"answered", "check"}
  /\ indexes' = IF tasks[g].pc = "answered"
                  THEN Stored(tasks[g].uri, tasks[g].text, tasks[g]) ELSE indexes
  /\ Move(g, IF Superseded(g) THEN "done" ELSE "publish")
  /\ UNCHANGED <<disk, watch, documents, published, gens, handler, jobs, thread, client,
                 bounds, raced, overtaken>>

(* The version the diagnostics are stamped with is the document's by now.      *)
Version(u) == IF Open(u) THEN documents[u].version ELSE 0
Publish(g) ==
  LET u == tasks[g].uri IN
  /\ tasks[g].pc = "publish"
  /\ shown' = [shown EXCEPT ![u] = [gen |-> g, version |-> Version(u), index |-> tasks[g].index]]
  /\ Move(g, IF Reports(g) THEN "files" ELSE "swap")
  /\ UNCHANGED <<disk, watch, state, handler, jobs, thread, shownFile, bounds, raced, overtaken>>

PublishFiles(g) ==
  /\ tasks[g].pc = "files"
  /\ shownFile' = tasks[g].uri
  /\ Move(g, "swap")
  /\ UNCHANGED <<disk, watch, state, handler, jobs, thread, shown, bounds, raced, overtaken>>

(* A mutated SwapFiles: the files no longer reported are forgotten, not cleared. *)
SwapFilesSilently(g) ==
  LET u == tasks[g].uri IN
  /\ tasks[g].pc = "swap"
  /\ published' = [published EXCEPT ![u] = Reports(g)]
  /\ Move(g, "done")
  /\ UNCHANGED <<disk, watch, documents, indexes, gens, handler, jobs, thread, client, bounds,
                 raced, overtaken>>

(* The files no longer reported are cleared.                                   *)
SwapFiles(g) ==
  LET u == tasks[g].uri IN
  /\ tasks[g].pc = "swap"
  /\ published' = [published EXCEPT ![u] = Reports(g)]
  /\ Move(g, IF published[u] /\ ~Reports(g) THEN "clear" ELSE "done")
  /\ UNCHANGED <<disk, watch, documents, indexes, gens, handler, jobs, thread, client, bounds,
                 raced, overtaken>>

ClearFiles(g) ==
  /\ tasks[g].pc = "clear"
  /\ shownFile' = None
  /\ Move(g, "done")
  /\ UNCHANGED <<disk, watch, state, handler, jobs, thread, shown, bounds, raced, overtaken>>

TaskStep(g) ==
  \/ Wake(g) \/ LookUp(g) \/ Check(g) \/ Publish(g)
  \/ PublishFiles(g) \/ SwapFiles(g) \/ ClearFiles(g)

-----------------------------------------------------------------------------
(* The worker.                                                                 *)

Idling == [pc |-> "idle", job |-> CloseJob(None), index |-> NoIndex]

(* A mutated Stale: the recorded dependencies are not read again.              *)
NeverStale(u) == FALSE

(* A session whose imported file cannot be proven unchanged is dropped first.  *)
Stale(u) == deps[u] # None /\ deps[u] # disk

Forget(u) == /\ sessions' = [sessions EXCEPT ![u] = None]
             /\ deps' = [deps EXCEPT ![u] = None]

Take ==
  /\ worker.pc = "idle" /\ ~dead /\ jobs # <<>>
  /\ LET job == Head(jobs) IN
       /\ IF job.kind = "close" \/ Stale(job.uri)
            THEN Forget(job.uri) ELSE UNCHANGED <<sessions, deps>>
       /\ worker' = IF job.kind = "close"
                      THEN worker ELSE [worker EXCEPT !.pc = "taken", !.job = job]
  /\ jobs' = Tail(jobs)
  /\ UNCHANGED <<disk, watch, state, tasks, handler, client, bounds, raced, overtaken>>

(* The file is loaded and the text compiled over the cells the session kept.   *)
Cells(u) == IF sessions[u] # None THEN sessions[u] ELSE disk
Compile ==
  /\ worker.pc = "taken"
  /\ LET u == worker.job.uri IN
       /\ sessions' = [sessions EXCEPT ![u] = Cells(u)]
       /\ worker' = [worker EXCEPT !.pc = "compiled",
                                   !.index = Index(worker.job.text, disk, Cells(u))]
  /\ UNCHANGED <<disk, watch, state, tasks, handler, jobs, deps, client, bounds, raced, overtaken>>

(* The compile panics: the session is dropped and the text analyzed one-shot.  *)
Panics ==
  /\ worker.pc = "compiled" /\ panics < MaxPanic
  /\ panics' = panics + 1
  /\ Forget(worker.job.uri)
  /\ worker' = [worker EXCEPT !.pc = "one shot", !.index = Index(worker.job.text, disk, disk)]
  /\ UNCHANGED <<disk, watch, state, tasks, handler, jobs, client, hovers, dead, raced, overtaken>>

(* Nothing catches a panic of the one-shot analysis: the thread ends, and with *)
(* it the sessions and the queue.  Whoever awaits one of its jobs panics too.  *)
Dies ==
  /\ worker.pc = "one shot" /\ panics < MaxPanic
  /\ panics' = panics + 1
  /\ dead' = TRUE
  /\ worker' = Idling /\ jobs' = <<>>
  /\ sessions' = [u \in Uri |-> None] /\ deps' = [u \in Uri |-> None]
  /\ tasks' = [g \in DOMAIN tasks |-> IF tasks[g].pc = "await"
                                       THEN [Task(tasks[g].uri) EXCEPT !.pc = "done"]
                                       ELSE tasks[g]]
  /\ handler' = [handler EXCEPT !.pc = IF @ = "await" THEN "panicked" ELSE @]
  /\ UNCHANGED <<disk, watch, state, client, hovers, raced, overtaken>>

(* The loaded files are read again for the record, and the job is answered.    *)
Answer ==
  /\ worker.pc \in {"compiled", "one shot"}
  /\ deps' = [deps EXCEPT ![worker.job.uri] = disk]
  /\ LET g == worker.job.reply IN
       IF g = 0
         THEN /\ handler' = [handler EXCEPT !.pc = "answered", !.answer = worker.index,
                                            !.dep = disk]
              /\ tasks' = tasks
         ELSE /\ tasks' = [tasks EXCEPT ![g].pc = "answered", ![g].index = worker.index,
                                        ![g].dep = disk]
              /\ handler' = handler
  /\ worker' = Idling
  /\ UNCHANGED <<disk, watch, state, jobs, sessions, client, bounds, raced, overtaken>>

(* The imported file is edited; the client's watcher reports it some time.     *)
FileChanges ==
  /\ disk < MaxDisk
  /\ disk' = disk + 1
  /\ watch' = TRUE
  /\ raced' = (raced \/ worker.pc # "idle")
  /\ UNCHANGED <<state, tasks, handler, jobs, thread, client, bounds, overtaken>>

-----------------------------------------------------------------------------
Init ==
  /\ disk = 1 /\ watch = FALSE
  /\ documents = [u \in Uri |-> None]
  /\ indexes = [u \in Uri |-> None]
  /\ published = [u \in Uri |-> FALSE]
  /\ gens = 0
  /\ tasks = <<>>
  /\ handler = [pc |-> "idle", uri |-> None, text |-> None, again |-> {},
                answer |-> NoIndex, dep |-> 0]
  /\ jobs = <<>>
  /\ worker = Idling
  /\ sessions = [u \in Uri |-> None]
  /\ deps = [u \in Uri |-> None]
  /\ shown = [u \in Uri |-> None]
  /\ shownFile = None
  /\ hovers = 0 /\ panics = 0 /\ dead = FALSE /\ raced = FALSE /\ overtaken = FALSE

HandlerStep == WatchedStep \/ CloseIndex \/ CloseFiles \/ CloseUri \/ HoverAnswers
WorkerStep == Take \/ Compile \/ Panics \/ Dies \/ Answer
Message(u) == DidOpen(u) \/ DidChange(u) \/ DidSave(u) \/ DidClose(u) \/ Hover(u)

Next ==
  \/ \E u \in Uri : Message(u)
  \/ DidChangeWatchedFiles \/ HandlerStep
  \/ \E g \in DOMAIN tasks : TaskStep(g)
  \/ WorkerStep
  \/ FileChanges

Spec == Init /\ [][Next]_vars

(* The runtime polls every task, the worker thread serves its queue, and the   *)
(* handler that was begun runs on.  Messages and edits need never come.        *)
FairSpec ==
  /\ Spec
  /\ WF_vars(HandlerStep) /\ WF_vars(WorkerStep)
  /\ \A g \in 1..MaxGen : WF_vars(g \in DOMAIN tasks /\ TaskStep(g))

-----------------------------------------------------------------------------
(* Properties. *)

TaskPoints == {"sleep", "lookup", "await", "answered", "check", "publish", "files",
               "swap", "clear", "done"}

(* A generation is minted once: the open documents' are distinct, and each is  *)
(* the generation of a task of that document.  A task that waits has its job   *)
(* in the queue or in the worker, once.                                        *)
Waiters(g) == Cardinality({k \in DOMAIN jobs : jobs[k].kind = "analyze" /\ jobs[k].reply = g})
              + (IF worker.pc # "idle" /\ worker.job.reply = g THEN 1 ELSE 0)
TypeOK ==
  /\ \A u \in Uri : Open(u) => documents[u].gen \in DOMAIN tasks /\ tasks[documents[u].gen].uri = u
  /\ Len(tasks) = gens
  /\ \A g \in DOMAIN tasks : /\ tasks[g].pc \in TaskPoints
                             /\ Waiters(g) = IF tasks[g].pc = "await" THEN 1 ELSE 0
  /\ Waiters(0) = IF handler.pc = "await" THEN 1 ELSE 0
  /\ disk \in 1..MaxDisk /\ raced \in BOOLEAN /\ overtaken \in BOOLEAN

(* index_for, did_close and the worker's dependencies: an index is kept only   *)
(* for a document that is open, or that the handler is closing right now; it   *)
(* is of a text that may be cached and of the text it is filed under; and what *)
(* it was computed from, the reused cells included, is what its key says,      *)
(* unless the file changed while a compile was running.                        *)
CachedIsWhatItsKeySays ==
  \A u \in Uri : indexes[u] # None =>
    /\ Open(u) \/ (handler.pc = "close index" /\ handler.uri = u)
    /\ indexes[u].text \notin Uncacheable
    /\ indexes[u].index.text = indexes[u].text
    /\ ~raced => {indexes[u].index.read, indexes[u].index.cells} = {indexes[u].dep}

(* analyze_and_publish and did_close: unless a document moved on while its     *)
(* analysis was publishing, the diagnostics shown for it are of the text whose *)
(* version they are stamped with, and a closed document shows none once its    *)
(* close is done.                                                              *)
Closing(u) == handler.uri = u /\ handler.pc \in {"close index", "close files", "close uri"}
ShownIsOfTheDocument ==
  ~overtaken => \A u \in Uri : shown[u] # None =>
    /\ Open(u) \/ Closing(u)
    /\ Open(u) /\ shown[u].version = documents[u].version =>
         shown[u].index.text = documents[u].text

(* published_files: unless a document moved on while its analysis was          *)
(* publishing, a built-in file that shows an error is one somebody is going to *)
(* clear: the document it was published for still has it on its list.          *)
Clearing(u) == \/ \E g \in DOMAIN tasks : tasks[g].uri = u /\ tasks[g].pc \in {"swap", "clear"}
               \/ handler.pc = "close files" /\ handler.uri = u
FileErrorsHaveAnOwner ==
  ~overtaken /\ shownFile # None => published[shownFile] \/ Clearing(shownFile)

(* schedule_analysis: the analysis of a document's current text is published,  *)
(* unless the text is superseded, or the analysis it superseded was publishing. *)
Shows(u, g) == shown[u] # None /\ shown[u].gen = g
EveryTextIsAnswered ==
  \A g \in 1..MaxGen :
    (\E u \in Uri : Current(u, g)) ~>
      (overtaken \/ (\E u \in Uri : Shows(u, g)) \/ ~\E u \in Uri : Current(u, g))

(* analyze_and_publish: "a superseded one stops instead of resurrecting a      *)
(* stale error"; did_close: "none of them publishes after the close".          *)
(* Refuted: the check and the publication are two steps, and what is           *)
(* published in between stays when everything has come to rest.                *)
Quiet == jobs = <<>> /\ worker.pc = "idle" /\ HandlerIdle
         /\ \A g \in DOMAIN tasks : tasks[g].pc = "done"
NoStaleErrorRemains ==
  Quiet => \A u \in Uri : IF Open(u) THEN Shows(u, documents[u].gen) ELSE shown[u] = None
=============================================================================
