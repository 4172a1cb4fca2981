# A verification of lichen-vm

Lichen is a dependently typed language with a compiler, a virtual machine, a
compute back end and an editor service, in some forty thousand lines of Rust
under `src/crates`.  This directory holds TLA+ modules that model parts of it, the
TLC configurations that check them on small instances, and theorems that the TLA+
proof system proves for all instances.

## The system

| part | state it keeps | operations | what makes it hard |
|---|---|---|---|
| device registry (`lichen-registry/device.rs`) | one `registry` file shared by every compiler process: file ID -> module key, hashes, recorded dependencies; a lock directory; a file per artifact | `open`, `reload`, `alloc`, `publish`, `verify`, `remove`, `gc`, `recover`, `save` | processes interleave, crash, find the file damaged, and break each other's lock |
| package store (`lichen-language/package.rs`) | the modules a process has loaded, their keys and hashes; the in-process module registry | `load_package`, `try_reuse`, `build_package`, `remove` | artifacts and sources change between two checks, in this and in other processes |
| virtual machine (`lichen-lowlevel`) | nodes with a slot and a class (a disjoint set), a tree of blocks with arenas, function templates, static modules | `unify`, evaluation, application, freezing, collecting | unification writes slots while it descends; values become known late; a collect releases what is believed unreachable |
| disjoint sets (`lichen-utils/disjoint.rs`) | parent, member ring, tail, size | `make_set`, `find`, `union`, `rebuild`, `members` | several representations of one partition must agree |
| checker (`lichen-highlevel`) | the module being lowered | lowering a program into nodes and equalities | relies on the unifier |
| session (`lichen-language/session.rs`, `dirty.rs`, `cells.rs`, `cellcache.rs`) | a buffer's text, the retained cells and the keys they were computed under, the established build, the cell files of the cache directory | `set_source`, the statement edits, `compile`, `evict_unreachable`, `load_cells`, `save_cells` | what an edit must invalidate, and what a later process may trust |
| language server (`lichen-language-server/server.rs`) | open documents with versions, one worker thread with one session per document, published diagnostics | `did_open`, `did_change`, `did_save`, `did_close`, watched files | analyses run behind the edits that asked for them |
| service (`lichen-serve/service.rs`) | batch slots, cached residents | admit, step, retire | slots are reused |
| GPU context (`lichen-compute-gpu/dispatch.rs`) | a ring of submission slots behind a lock, a pool of recycled buffers, the table of resident ids, the accounting | `run`, `submit`, `run_batch`, `run_chain`, `fetch`, `wait`, `release`, `relabel` | slots and buffers are reused behind an asynchronous device; waits time out and the driver refuses |
| compute and runtime (`lichen-compute`, `lichen-runtime`) | kernel caches in memory and on disk | compile, plan, run a graph | rewriting of kernels; a cache file per kernel |
| kernel IR, fusion, graph IR | none: rewrites of kernel bodies | normalise, fuse, plan | algebra |
| package manager, CLI, documentation, rendering, editor glue | files | one-shot commands | - |

The parts meet in few places.  The language server and the command line call the
session, the session calls the package store, the package store calls the device
registry under its lock for every change and without it for every read, and loads
artifacts into the virtual machine.  The checker and the session drive the
virtual machine, which is sequential: what makes it hard is the order in which
equalities and values arrive, not concurrency.

## Plan

1. `DeviceRegistry` (done; its safety properties are proved): the one component several processes change at once.
2. `ArtifactStore` (done; its safety properties and the refinement are proved): what the
   registry, the store and a process's loaded modules promise together: a load answers
   what a cold compile would, kills and failed writes included.
3. `ScopeCollect` over `DisjointSet` (done; every property of its run is proved): the
   value graph and the collector.
4. `LanguageServer` (done; its safety properties are proved): analyses that run behind
   the edits that asked for them.
5. `GpuContext` (done; every property of its run is proved): a ring, a pool and an
   asynchronous device.
6. `CellSession` (done; its safety properties are proved, freshness for one process): what
   an edit invalidates, and what is trusted of the cells of an earlier process.
7. Left: the clone walk of `function.rs`, composed with `ScopeCollect` (whose owner a
   clone gets, and which summaries a dropped function leaves stale); the descent of
   `unify` (coinductive guard, wildcards, no rollback); the batch slots of
   `lichen-serve`; the kernel caches on disk.

## DeviceRegistry

`DeviceRegistry.tla` models `src/crates/lichen-registry/src/device.rs` with the
calls `PackageStore` and `lichen clean` make of it.

| state | code |
|---|---|
| `disk`, `tmp` | the file `registry` and the fixed `registry.tmp` that `save` writes and renames |
| `art` | the key in the header of each file's artifact |
| `lock`, `lockOld` | the lock directory and whether it is older than `LOCK_STALE` |
| `mem`, `recovered` | a process's `DeviceRegistry`: its copy of the registry and `registry_recovered` |
| `modules` | `PackageStore::packages`: the key under which the process holds each module |
| `op`, `todo`, `pc` | the call in progress and where it is |
| `stolen` | history: was a live holder's lock ever removed by another process |

A mutation is a sequence of steps (make the lock, reload, mutate, truncate, write,
rename, release) and every process may crash between two of them.  A file is
missing, torn or holds a registry; a record's hashes are not modelled here.

Left out of `MakeLock`: a lock directory that cannot be created for another reason than
that it exists, or a stale one that cannot be removed, is retried without looking at the
deadline (`device.rs:538-540`, `550-552`), for as long as that lasts.

### Runs

| run | shows | bounds |
|---|---|---|
| `registry_races` | until a live holder's lock is removed the lock excludes, saves are all or nothing and lose nothing, publishes find their entries; a crashed holder's lock is broken | 2 processes, 2 files, 4 calls, 1 crash, slow holders |
| `registry_gc` | a readable registry names one file per key through `remove`, `gc` of two dead entries in either order, a damaged file, a refused write or rename and a crash | 2 processes, 2 files, 4 calls |
| `registry_recover` | a process never reissues a key, no artifact carries another file's key | 1 process, 6 calls, 2 damages |

`OldKeysGone` is a property of one process at a time: a crash between the two
halves of `recover`, or another process that recovers with an empty copy in memory,
restarts the key space.  `ProcessKeysDistinct` needs in the same way that nobody
removes a module somebody holds and that no write or rename is refused.

Two processes are enough for every race over one lock or one file, because a step
of the code compares what it read with what is there, never counts processes; two
files with one import are the smallest shape in which one entry names another's
key.  Deadlock is not checked: processes may all have crashed or have nothing left
to ask for.

`FairSpec` assumes that a process that is not killed keeps running and that an
abandoned directory keeps ageing.  Nobody is obliged to make calls, and nobody is
obliged to give up: a waiter that panics after `LOCK_WAIT` has left the wait.

### Proofs

`DeviceRegistryProofs.tla` proves, for any set of processes and files and all
bounds, `TypeCorrect`, `KeysCorrect`, `LockExcludes` and `SaveIsAtomic`.
`KeysNameOneFile` is not inductive alone: the invariant also says that the
temporary file and every process's copy in memory are consistent, because a rename
installs the first and a save writes the second.  `OneHolder` needs that the
lock directory names whoever is inside.

Its second half proves what the processes work under.

- `NoUpdateIsLost`, for all constants.  Its invariant (`UpdateInv`) follows one mutation:
  what is in memory between `reload` and the rename is what the file holds, but for the
  call's own entry, and nobody replaces the file meanwhile.
- `KeptFilesPublish` and `KeptFilesDiffer`: a file that nobody removes keeps its entry,
  whatever else is removed and whoever crashes, until a live holder's lock is removed, a
  write or rename refused or the file damaged.  The invariant (`KeptInv`) is that
  every key a process holds for such a file is the one on disk, and that each copy on its
  way to the disk has it too.  `PublishNeverPanics` is the case where no file is ever
  removed and nothing fails.
- `ProcessKeys` and `OldKeysLeave`, for a process that recovers.  The invariant
  (`SoleInv`) is that a key in use is reserved in every registry that will be allocated
  from: the entry itself, or a next key above it.

Their hypotheses are what the code needs.  `remove` and `gc` free keys that another
process still holds (`registry_dangling.cfg`); a refused write leaves a process with a key
nobody recorded; a damaged registry is restarted from one process's memory, which does not
know what the others allocated; and a crash between the two halves of `recover` leaves
artifacts of the old key space.  `registry_races` satisfies the hypotheses of
`PublishNeverPanics` and `registry_recover` those of `ProcessKeys` and `OldKeysLeave`: the
races, crashes and recoveries these theorems speak of happen in those runs.

## ArtifactStore

`ArtifactStore.tla` models `PackageStore::load_package` of
`src/crates/lichen-language/src/package.rs` over the artifact index, with several
compiler processes side by side.  `ColdCompile.tla` is what it promises: a compiler
without a cache, in which loading a package answers what the sources, as they are
now, compile to.

| state | code |
|---|---|
| `src` | the text of each package file, and the bytes of the library it links |
| `rec` | the published record of a file: source hash, dependencies, artifact identity |
| `art` | the artifact file: the identity in its header, the content behind it |
| `reg` | a process's `ModuleRegistry` |
| `packages` | `PackageStore::packages` |
| `loading`, `frame` | `PackageStore::loading` and the locals of the calls of `load_package_inner` on the stack |
| `panicked` | processes that died of `try_reuse`'s "was reclaimed": the registry has another module under the file's key |

A call is the sequence of steps the code takes: read the source, `verify` it, load
each recorded dependency, compare the registered module or the header on disk with
the verified identity, or else load the imports, compile, `store_artifact` and
`publish`.  Other processes, edits (where `EditWhileOpen`) and kills come between
any two.  A hash is the value that was hashed, so an artifact is right exactly when
its header's identity is the tree of texts it was compiled from.

Left out: the embedded packages, vendored aliases, the format of an artifact, the
cell keys and eviction of the registry; the keys and lock are `DeviceRegistry`'s.
The walk `verify` makes over the records is one step.

### Runs

| run | shows | bounds |
|---|---|---|
| `store_cold` | every load answers what a cold compile would, and the next process reuses it; who dies of a module its registry kept dies of an old one; with a kill between any two steps, and an importer that in one version has no artifact form | 2 processes, one with a registry that outlives its stores, an importer of 2 packages, 2 versions each, the importer or one of them opened, 2 edits between the runs, 1 kill |
| `store_ends` | every load ends, import cycles included | 1 process whose registry outlives its stores, a cycle that an edit closes, 1 edit during the load, 1 kill, 1 refused artifact write, a linked library |
| `store_chain_stale` | finding: a chain of three, edited at its end, loads an artifact over a recompiled import | |

The passing runs bound the promise: import graphs of depth one, edits between the
runs of the processes, no library and only published imports.  Beyond them it is not
kept; `store_chain_stale` and `store_library_stale.cfg` show the two causes.  `verify`'s
answer is about the records as they were before the dependencies were loaded, and
loading them may republish them (an edit during a load ends the same way).  And an
importer folds records while it is compiled against modules: whatever makes the two
differ, such as a library's bytes that no record has, or a package that was not
published because it has no artifact form, goes unseen by the importer.

A registry that outlives its stores, as the language server's does, keeps the promise,
because `try_reuse` compares a registered module's identity before it takes it.  What it
costs is the panic: when an edited dependency was loaded before its importer, `try_reuse`
finds the importer's own old module under the importer's key and dies of it, although no
key was reclaimed (`store_server_panic.cfg`).  `PanicsAreOfOldModules` is what remains true.

Two versions of a file suffice because the code only compares hashes; two processes
because a record has one writer at a time.

`FairSpec` gives each process weak fairness on the steps of a load it has begun: the
calls are synchronous and nothing in them waits for anybody.  `Begin`, `Edit`,
`CloseStore`, `Crash` and `StoreFails` are never owed.

### Proofs

`ArtifactStoreProofs.tla` proves `TypeCorrect` for all constants: the loads in flight are
a stack without repetition on which each is wanted by the next, and a frame is in use
exactly while its file is on it.  Everything else assumes `Promised`: nothing
is edited under an open store, no library is linked, imports are
one deep, and what is imported has an artifact form.  This is the shape of `store_cold`,
for any number of files, versions, processes, kept registries, kills and refused writes (of
which `store_cold` makes none).  It cannot be
dropped: `store_chain_stale` (an import of an import) and `store_library_stale.cfg`
(a library) break the promise.  `NoneIsNoRecord` says that
`None`, the model's `Option::None`, is no record.

The invariant (`PInv`) says for each file that a record states a version whose leaf has
that version's identity, an artifact's header is its content, a registered module's
identity is what it was compiled from, a loaded module is what the sources compile to, and
what a process without a kept registry has loaded is published until something is killed
or refused; and for each load in flight that what it has read is the source as it
is, and that the identity it verified is the one the sources have.  From it:

- `ReferencesResolve`, `HeadersHonest` and `ReuseFollows`, the safety invariants of
  `store_cold`;
- `ImplementsCold`, the refinement of `ColdCompile`.  `ColdCompile!Compiled` is recursive
  over the import graph, and with imports one deep two unfoldings give it.  A finished load
  is the abstract load; every other step stutters;
- `PanicsOfOldModules`: the identity a load verified is the sources', and a registered
  module's identity is its own, so where the two differ the module is an old one.

## ScopeCollect

`ScopeCollect.tla` models the value graph of a lichen-lowlevel `Module` and
`garbage_collect` (`gc.rs`), which ends a scope: what its root reaches moves to the
parent block, the rest goes with the block's arena.  `DisjointSet.tla` is the
intrusive union-find of `lichen-utils/src/disjoint.rs` the classes are made of.

| state | code |
|---|---|
| `node` | `Module::nodes`: block, value slot, operand, run stamp, owner, and, at a representative, the class's shape and scope summary |
| `meta` | `Node::equality`: parent, next, tail, size |
| `block` | `Module::blocks`: parent and ancestors, the declared root |
| `function` | `Module::functions`: home block, template list, scope |
| `asserts` | the conditions of `Module::asserts` |
| `walk` | the locals of a collect: `gc_visited` (black), `gc_classes`, what is still to be walked (grey), which roots it has taken |

A value is a tag, the nodes it names and the arena its payload lives in, because the
collector tells apart nothing else.  The walk is a recursion over a cyclic graph; the
model takes one `Visit` per node in any order, so what it shows holds for every order
of edges.  Merges (`Unify`) are those `unify` makes after its descent: one side
undecided, or two values whose parts are already one.  Which values of one kind it joins
(`MayAgree`: functions whose signatures unify, arrays whose layouts do) is left open.
`Run` is an operator's one run, with any answer.

"One class holds one value" (`equality.rs:113-119`, `151-157`) means one value as far as
`unify` can tell: two functions with signatures that unify, or arrays of two layouts, stay
different payloads in one class.  `ClassesDecideTogether` is what the engine relies on: no
member is undecided beside a decided one, and none is of another kind.

The host's contract is a guard: every step that writes a value keeps `BoundaryHolds`,
which is `may_be_named` of `lichen-language/tests/language/block_boundary.rs`.  The
engine does not check it, and without it `NamesAreLive` is not promised.  To the test's
condition the guard adds one for a function named across blocks, that its home block
outlives whoever names it.

Left out: `add_function`, which tags an owner without listing the node; a shape that is
seeded with anything else than an observed scalar (the model observes any value); the
wildcard.

### Runs

| run | shows | bounds |
|---|---|---|
| `scope_collect` | classes stay well formed, are decided as a whole and of one kind; summaries and shapes stay current; nothing live names anything released; no assert is lost; what the walk enters keeps its payload | 3 nodes, arrays of at most one item; four families: operators over 2 blocks, one assert over 2 blocks, 2 functions over 2 blocks, 3 nested blocks |

Three nodes are a scope's root, a node inside and one outside, and the smallest class
whose middle, first or last member can be cut; the families leave out combinations,
not sizes.  Keys are never reused, so a graph ends when they run out, and deadlock is
not checked.

### Proofs

The first part of `ScopeCollectProofs.tla` proves what the union-find does, for any
finite set of keys.  `Chain(next, k)` is defined by as many steps as there are keys;
`ChainIsLeast` shows that it is the least set that holds `k` and is closed under `next`, so
that an argument over a chain is one over closed sets, and the induction that remains is
over the smallest counterexample.  On it rest `FindKeeps`, `UnionJoins`, `RebuildKeeps`
and `CutKeeps`: compression changes no class, `union` joins two and no others, and
rebuilding every class that loses members leaves each what is left of it.

The rest proves every property of `scope_collect`, for any graph, any tree of blocks,
any families of values and any order of the walk.  The invariant is built in stages, each
inductive given those before it.

| stage | says | gives |
|---|---|---|
| `IInv` | a block's line is closed and acyclic, so that a collect's target is not inside its source; what is visited is outside; from the second stage on every condition inside is on the walk's way | `AssertsAreKept` |
| `ClassInv` | the links are well formed over the live nodes, and other keys have none | `ClassesWellFormed` |
| `TypeOK` | the types, which need that representatives and members are nodes | `TypeOK` |
| `Placed` | a block's ancestors are a chain; live templates are of live nodes that name their function as owner; after the last roots every surviving template is on the walk's way | |
| `Named` | what is named is live; it may be named, or is walked if it is inside and whoever names it is visited or outside; and a class is decided as a whole, by values of one kind.  The three need each other: `Unify` and `Run` copy values among members, and a flattened class must lose no value | `NamesAreLive`; with `Shapes`, `ClassesDecideTogether` |
| `Shapes` | a stated shape is the tag of a value that is held | `ShapesAreKept` |
| `Payloads` | what the walk moved, and every outside member of a class it has been to that it did not enter by, has its payload in its own block's arena | `WalkedPayloadsMove` |
| `Summaries` | a representative's summary is the meet of its class | `SummariesAreCurrent` |

The keys of a module are finitely many (`NodesAreFinite`), because a chain is; `None` is
no value (`NoneIsNoValue`), because it is the model's empty slot.  The host's contract is
what carries `Named` through a step that writes a value.  `PayloadIsLive` of every live
node, the stronger statement `scope_payload.cfg` asks, is false of the code, which is why
`Payloads` excepts the nodes the walk entered a class by.

## GpuContext

`GpuContext.tla` models the context of `src/crates/lichen-compute-gpu/src/dispatch.rs`
that the threads of a host share, with the accounting of `accounting.rs`.

| state | code |
|---|---|
| `lock` | the mutex around the slots |
| `cursor`, `claimed`, `fence`, `staging` | the ring: where `acquire` looks next, each slot's flag, its fence, its mapped memory |
| `queue` | what the device has accepted and not finished; it runs in order |
| `cap`, `freed`, `content` | device allocations: their extent, whether they were destroyed, the stamp they hold |
| `recycled` | the pool, by size |
| `resident`, `meant` | the table of ids, and the dispatch each id was issued for |
| `alive` | the accounting's device total |
| `pc`, `call`, `pending`, `owned` | a thread's call, its unwaited submissions, its ids |

A call is its steps: take the lock and a slot (and wait for the slot's fence if it is
claimed), record each node, submit, let the lock go, take it again to wait, and give
back.  `fetch` alone keeps the lock while it waits.  Every allocation, recording and
submission may be refused by the driver, and every wait may time out.  Data is stamps:
a dispatch writes its own number if it read what its host meant it to read.

A caller releases nothing while it has a submission in flight: that is what
`Runner::run` does, and the context does not check it (`release`, `dispatch.rs:2283-2292`).

Left out: a descriptor pool that cannot be reset when a slot is taken
(`dispatch.rs:1313-1318`); failures of a recording before its first allocation (`1435-1447`,
`1594-1606`, `1921`), after which nothing is held; and the blocks of indirect dispatch
arguments (`2010-2040`).

`gpu_context`: 2 threads (one overlaps and fetches, the other runs graphs, batches and
chains), 2 slots, 3 calls, 1 fault, a pool of 1.  Three calls on two slots is the
smallest history in which the ring comes round to a slot that is in flight; a pool of
one makes the second recycled buffer of a size a destroyed one.

`timedOut` and `refused` mark the histories in which a property is not promised: a
wait that gave up leaves a submission that still reads buffers, and a submission the
queue refused after its fence was reset leaves a fence nobody signals.  Both last
for the life of the context.

`GpuContextProofs.tla` proves `SlotsIdleWhenReused` and `WaitsOnASubmission` for any
threads, slots, kinds of call and number of faults.  Neither is inductive alone.  A
fence that has signalled is what the code takes for the end of a submission, so the
invariant says that a slot has at most one in flight and none behind a signalled
fence; that only the holder of the lock is at a point that writes a slot; that a slot
being recorded into is claimed; and, for the second, that every token that can still
be waited for names a slot that is signalled or in flight.

Its second half proves `TypeOK`, `NoBufferTwice` and `ReportNeverUnderstates` for all
constants.  A submission's dispatches (`Executed`), the buffers a call gives back
(`RecycleAll`) and the units in use (`Units`) are functions defined along a sequence;
`Induction.tla` shows that such a function exists and has a value at each place, and the
lemmas `ExecutedType`, `RecycleAllIs`, `UnitsGrow` and `UnitsFreed` are what the proofs use
of them.  The invariant, `MInv`, has five parts.

| part | says | needed because |
|---|---|---|
| `IInv` | the slots, as above | a slot that is recorded into is nobody else's |
| `Calls` | what a call's record may hold at each of its points; a batch has one output per dispatch, a chain two in all | a call that ends gives back what its record lists |
| `Books` | an id that a call or a submission carries was issued, and numbers only grow | a new id is not a key of the table |
| `Owners` | the pool is neat, each list of buffers in somebody's hands holds a buffer once, the owners' sets of handles are disjoint, and the total covers the units not freed | `NoBufferTwice` compares sets: a call that lists a buffer twice passes it, and would give the buffer back twice |
| `Staged` | an upload finds a stamp in the block it was recorded for | otherwise a dispatch could leave anything in memory |

A step takes a buffer only from the pool or the driver and gives back only its own
(`OwnersStep`), so each action is checked against one owner.  `RecordNode` and
`RecordChain` may fail after they took buffers; those buffers are then nobody's
(`gpu_lost_outputs.cfg`), which keeps `NoBufferTwice` and is why the total is only a bound.

`GpuDataProofs.tla` proves the three properties of what the buffers hold:
`NothingFreedInFlight`, `SettledMeansWritten` and `FetchedAsWritten`, again for all
constants.  Between the recording of a dispatch and the device's run of it the caller, the
other threads and the driver do anything the model lets them, so the invariant has to speak
of memory that is not written yet.  It adds to `MInv`

| part | says | needed because |
|---|---|---|
| `Informing` | an id has been told to one client at a time, who owns it or has its submission to wait for; a node being recorded reads host data, an id of its client or its batch's first output | a buffer behind somebody's id changes only by that client's doing |
| `Covered` | until a wait has given up, what a submission in flight uses is with whoever waits for it, or behind an id only its submitter knows | gives `NothingFreedInFlight` |
| `Placed` | what is queued or recorded names buffers that exist | a dispatch is then one update of memory |
| `Foretold` | there is a history of memory, one state per submission in flight, that the device will follow; in it whatever is due to a caller (an id it owns, awaits, or outputs that have no id yet) holds its stamp once the submission that writes it has run; and a recording will add its outputs and change nothing that is due | gives `SettledMeansWritten` |
| `Reading` | the submission a fetch waits for reads the buffer of its id; when it has run, its slot's staging holds what the id was issued for | gives `FetchedAsWritten` |

`Foretold` is a prophecy over the queue.  A recorded dispatch finds what it was meant to
read, because what it reads is due at the end of the queue (`NodeRight`); it writes only
buffers that nothing due is in (`DueElsewhere`, from `Owners`).  `Submit` extends the
history by one state (`SubmitForetold`), the device's step drops the first
(`DeviceForetold`: memory becomes what it was foretold to, by `SubmissionRuns`), and every
other step leaves it alone: it writes no staging that a submission in flight still reads
(`StagingKept`), and what becomes due was due before (`DueCame`).  A wait that gave up
makes nothing due, so neither of the last two theorems excepts timed-out waits.

## LanguageServer

`LanguageServer.tla` models `src/crates/lichen-language-server/src/server.rs`.

| state | code |
|---|---|
| `documents` | text, generation and client version of the open documents |
| `indexes` | the analysis cached per document, with the key it is filed under |
| `published` | `published_files`: which other files a document's last analysis reported errors in |
| `tasks` | the analyses that were spawned, one per generation |
| `handler` | the notification or request being handled: the client sends them one at a time |
| `jobs`, `worker`, `sessions`, `deps` | the worker thread, its queue, one session per document, the recorded hashes of the files it read |
| `dead` | the worker thread has ended: it panicked outside its `catch_unwind` |
| `shown`, `shownFile` | the client's side: the diagnostics on display |
| `disk`, `watch` | an imported file's version; a change the client's watcher has yet to report |

An analysis is `[text, read, cells]`: the text it is of, the version of the import it
loaded, the version its reused cells were computed from.  An await is a point where
everybody else may move.

| run | shows | bounds |
|---|---|---|
| `language_server` | a cached index is what its key says; diagnostics are of the text whose version they carry; a closed document shows none; an error in a built-in's file has somebody to clear it | 2 documents, 2 texts, 2 analyses, 1 edit of the import, 1 request, 2 panics |
| `server_answers` | under fair scheduling the current text's diagnostics get published | 1 document, 2 texts, 2 analyses, 1 edit of the import, 1 panic, no request |

Two analyses are one and the one that supersedes it, of the same document or of two.
`raced` marks a history in which the import changed during a compile: the worker
hashes its dependencies by reading them again afterwards, so what it recorded is newer
than what it read.  `overtaken` marks one in which a document moved on while its
analysis was publishing: the generation is checked once and then several messages
are sent.  `server_stale_error.cfg` is what can happen then.

A compile that panics is caught, the session dropped and the text analyzed one-shot
(`Panics`).  The one-shot analysis is not caught: when it panics as well, the worker thread
ends with its queue and sessions, whoever awaits it panics, and whoever asks it later does
(`Dies`).  The safety properties hold through that; answers do not come any more, which
takes a second panic and is `server_worker_dies.cfg`.  A handler that panics handles no
further message in the model.

`FairSpec`: the runtime polls each spawned task, the worker thread serves its queue,
and a handler that was begun runs on.  Messages, edits and panics are never owed.

`LanguageServerProofs.tla` proves the four safety properties for any number of
documents, texts, versions, requests and panics.  The invariant follows an answer from
where it is computed to where it is kept.  `ReadsMatch`: while no change of the import
has met a compile, a session retains cells of the version its dependencies record, the
worker's index was read from and computed over that version, and an answer carries it.
`JobsMatch`: a job in the queue or in the worker is awaited, by one waiter that no other
job answers, and names the text its waiter asked for; so an answer is of the waiter's
text (`TextsMatch`), and that is the document's as long as the waiter's generation is
(`GensMatch`).  `PublishesCurrent`: until some document has been overtaken, an analysis
that is publishing is of its document's current generation, which makes it the only one
publishing for that document; on this rest what is shown (`ShownMatch`: the client's
version never falls, and the text changes only with it) and whose a built-in file's
error is (`FilesOwned`).  `AllServed` is the converse of `JobsMatch`, that whoever
waits has a job, and is what `TypeOK` needs beside it.  Liveness is only model-checked.

Left out: the requests that read an index and answer (only `hover` is modelled, and
they all go through `index_for`), the protocol's own messages, what an analysis
computes, and dependencies that could not be read back, which make a session stale
whatever they are now (`server.rs:270-274`, `681-689`).  Two steps of the model are several
of the code: `CloseIndex` takes three locks one after the other (`807-818`), and `Publish`
reads the version just before it sends (`517-518`).

## CellSession

`CellSession.tla` models one process's incremental sessions
(`src/crates/lichen-language/src/session.rs`, with `dirty.rs`, `key.rs`, `cells.rs`),
the module registry their frozen cells are filed in (`lichen-lowlevel/src/registry.rs`)
and the cell files the next process loads (`cellcache.rs`).

| state | code |
|---|---|
| `text`, `last` | the buffer; the program of the last compile |
| `cells` | the retained cells: the module each is frozen into and the key it was computed under |
| `build`, `unreachable` | what the established build reads; the artifacts owed to eviction |
| `registry`, `nextKey` | the in-process module registry and its allocator of cell keys |
| `disk` | the cache directory |
| `job` | the compile under way: loading, building, saving |

A program is a choice of a code per statement, a value the set of statements and codes
it was computed from, so a cell is fresh exactly when the set is the program's.  A key
folds the same set with the import's digest; `Keyless` are statements whose key
cannot be written down, which makes propagation decide, and `Unstorable` those the
codec refuses.  An edit replaces the whole program, and the window that propagation
starts from is any run of statements that covers the difference.

| run | shows | bounds |
|---|---|---|
| `cell_session` | a retained cell answers what a fresh compile would; eviction leaves no reader without its module; cells keep distinct modules | 1 buffer of 2 statements and 2 codes, 3 edits, a recompiled import, 1 restart or crash, 1 failed saving |
| `session_stale_record` | finding: a cell file of an earlier process is resolved against another buffer's cells | 2 buffers, 3 edits, 1 restart |

Two statements are the smallest program with a reader; three edits cover build, change
and change back.  `cell_session` bounds the promise: one buffer, one restart, and one
interruption of a saving.  With two restarts and an interruption, or a keyless cell
that leaves an older file behind, a single buffer shows the finding too.

### Proofs

`CellSessionProofs.tla` proves, for any number of buffers that share a registry and a
cache directory, any statements, codes and reads, and any number of edits, recompiled
imports, restarts and savings cut short, `TypeCorrect` and `ReadersStay`
(`ReadersResolve`).  Their invariant, `IInv`, is about who owns a module: it is in one cell
of one session or in one session's debt to eviction, a debt is never another session's
cell or build, a module refers only to modules filed before it, and a file under way to be
loaded or saved is there.  Without the separation between sessions an eviction in one
buffer would take a module another one reads.

`RetainedAnswersFresh` proves `RetainedIsFresh` as long as `stops = 0`, that is within one
process: `session_stale_record` shows that across a restart the code does not keep it when
two buffers share the registry (`cell_session` checks one buffer over one restart).  A cell
may be retained, dropped, its artifact evicted, and the artifact loaded again from a file
saved before several edits, so the registry of the moment does not say enough.  The
invariant is that there is a `Ledger`, every artifact ever filed by the process:

| part | says |
|---|---|
| `Entries` | the ledger is closed, its keys are ones the allocator has handed out, and it agrees with the registry on whatever is filed; what was evicted it remembers |
| `Records` | a stored record is the ledger's entry of its module, and its key is what that entry answered under some version of the import (`Said`) |
| `Loaded` | so is the key of each cell of a session that has loaded and not compiled yet |
| `Answers` | a cell of a session that has compiled, and one whose saving is not finished, has the key of its statement in the last program and answers its value |
| `Schedule` | only a first compile loads, and what is saved was compiled |

Equal keys then mean equal answers (`KeysFresh`), a statement that propagation does not
reach keeps its value (`FreshStays`), and a rebuilt cell answers what it was lowered from
(`RebuildIs`).  `Fresh`, `Keys`, `Behind` and `Contents` are recursive functions over
statements or keys; what the induction gives is stated once per function (`FreshIs`,
`KeysAre`, `BehindIs`, `ContentsAre`).

Left out: the text itself (re-lexing and splicing), the cells' positions and spans,
the modes of a compile, a marked binding that has no value when its cell would be frozen
and is skipped (`lib.rs:178-183`; the model freezes every marked one), a compile of a text
with the content the established build was made from, which touches no cell
(`session.rs:693-752`), and the host's watch over the import: a host drops the session
when the import changed, which is what `LanguageServer` models.

## Where the code and its documentation part

Two are runs, and findings of `PROJECT.json`.

- `store_chain_stale`: an artifact is loaded over a recompiled import
  (`device.rs:360`; `docs/notes/artifact-cache.md:49-51` promises that a change anywhere
  in the recorded closure recompiles every importer).
- `session_stale_record`: a cell's stored references are checked against a hash that is
  zero for every cell (`session.rs:474`; `cellcache.rs:29-30` promises that "a dependency
  that changed is a miss and never a stale value").

Eight are configurations kept beside the runs.  Each ends in a counterexample; run it as
`tlc -config <file> <module>`.

| file, module | the code | the text it contradicts |
|---|---|---|
| `registry_lost_update.cfg`, `MCDeviceRegistry` | two waiters break one dead lock, both mutate, one update is lost, and the loser's `publish` panics (`device.rs:311`) | "a lost update only costs a recompile, never corruption" (`artifact-cache.md:110`) |
| `registry_dangling.cfg`, `MCDeviceRegistry` | `remove` and `gc` ask the published records only: an importer compiled and not yet published ends up naming a reclaimed key (`device.rs:414`) | "A dead entry whose key a surviving entry still names is kept" (`device.rs:374`) |
| `scope_payload.cfg`, `MCScopeCollect` | a class member the walk does not enter keeps a handle into the released arena | "The value needs no migration" (`gc.rs:334`) |
| `store_library_stale.cfg`, `MCArtifactStore` | a record has no hash of the linked library, so importers of the linking package do not see it change (`package.rs:1063`) | "the library bytes are part of the package's artifact identity" (`docs/notes/package-graph.md:47`) |
| `store_server_panic.cfg`, `MCArtifactStore` | the server keeps one registry over its stores (`server.rs:193-198`, `353-357`); a dependency that was edited and loaded before its importer makes `try_reuse` panic on the importer's key (`package.rs:862-864`), with no key reclaimed | "was reclaimed and reallocated" (`package.rs:862`) |
| `gpu_lost_outputs.cfg`, `MCGpuContext` | the outputs of the node that could not be recorded are nowhere (`dispatch.rs:1674`) | "plus the outputs on a path that never completed" (`dispatch.rs:3054`) |
| `server_stale_error.cfg`, `MCLanguageServer` | the check of the generation and the publication are two steps (`server.rs:512`) | "a superseded one stops instead of resurrecting a stale error" (`server.rs:502`), "none of them publishes after the close" (`server.rs:805`) |
| `server_worker_dies.cfg`, `MCLanguageServer` | the one-shot analysis that answers for a compile that panicked runs outside `catch_unwind` (`server.rs:237-242`); the key panic above meets it again in the same registry and ends the worker | "A panicking compile must not take the worker down" (`server.rs:235`), "A compile that panics does not take the worker with it" (`docs/notes/incremental-update.md:613`) |

## Assumptions common to the proofs

Every theorem rests on the constants' `ASSUME`s: keys that are sets, `None` values that
are not keys (nor programs: `NoneAssumption`), positive sizes, bounds that are numbers, and in `ScopeCollect` finitely many
nodes.  TLC evaluates them on the runs.  The theorems hold for every number of processes,
threads, files, slots, nodes and faults.  Those of
`DeviceRegistryProofs` and `ArtifactStoreProofs` that need more say so in their own
hypotheses, and the sections above say why the code needs them too.

Only model-checked are

- liveness: `DeadLockIsBroken`, `LoadsEnd` and `EveryTextIsAnswered`, under the fairness
  each section justifies;
- `RetainedIsFresh` of `CellSession` across a restart, for one buffer; with two it is false;
- `ColdCompile` for import graphs deeper than one, where the recursion has no bound the
  provers can unfold (and where the code does not keep it).

## What is not modelled

- Pure functions: the parser, the preprocessor's rewriting, kernel IR and its fusion,
  the compute front end, the SPIR-V emitter, rendering.  They have no state and no order
  of events; their size is most of the repository's, and checking one on a small input
  would restate its tests.
- The highlevel checker: one pass that builds a lowlevel module; what it relies on is
  the unifier.
- The descent of `unify`, `apply`, templates, loop conversion, the wildcard and the
  `Error` value: planned, see above.
- `lichen-serve`: planned.
- One-shot commands (command line, package manager): their effect on shared state is
  the `remove` and `gc` of `DeviceRegistry`.
