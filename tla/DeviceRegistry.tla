--------------------------- MODULE DeviceRegistry ---------------------------
(***************************************************************************)
(* The cross-process index of compiled artifacts (lichen-registry,         *)
(* device.rs): one registry file that maps a file ID to its module key,    *)
(* mutated by every compiler process on the machine.  A mutation is        *)
(*                                                                         *)
(*   mkdir lock; reload; change the copy in memory; write a temporary      *)
(*   file; rename it over the registry; rmdir lock                         *)
(*                                                                         *)
(* and each of those is a step here, because a process may crash between   *)
(* any two of them, a lock older than LOCK_STALE is broken by whoever      *)
(* waits for it, and artifact payloads are stored under no lock at all.    *)
(* A record's hashes are abstracted to "published or still pending"; what  *)
(* the hashes decide is the subject of module ArtifactStore.               *)
(***************************************************************************)
EXTENDS Integers, FiniteSets

CONSTANTS
    Proc,        \* the compiler processes
    File,        \* file IDs
    Imports,     \* the files each file imports
    Junk,        \* file IDs that are neither .lichen nor virtual: what gc collects
    Removable,   \* file IDs some caller removes from the cache
    NoKey,       \* "this file has no entry"
    NoProc,      \* "the lock directory does not exist"
    MaxKey,      \* bound on next_key
    MaxCalls,    \* bound on the mutations the processes ask for
    MaxCrash,    \* bound on crashes
    MaxCorrupt,  \* bound on registry files damaged from outside
    MaxSaveFail, \* bound on writes and renames the file system refuses
    SlowHolders  \* may a live holder keep the lock past LOCK_STALE?

ASSUME RegistryAssumption ==
    /\ NoKey \notin Nat
    /\ NoProc \notin Proc
    /\ File # {}
    /\ Imports \in [File -> SUBSET File]
    /\ Junk \subseteq File /\ Removable \subseteq File
    /\ MaxKey \in Nat /\ MaxCalls \in Nat
    /\ MaxCrash \in Nat /\ MaxCorrupt \in Nat /\ MaxSaveFail \in Nat
    /\ SlowHolders \in BOOLEAN

VARIABLES
    disk,      \* the registry file
    tmp,       \* the file registry.tmp every save writes before its rename
    art,       \* the key in the header of each file's artifact, NoKey without one
    lock,      \* the process that created the lock directory, or NoProc
    lockOld,   \* is the lock directory older than LOCK_STALE?
    mem,       \* each process's in-memory copy of the registry
    recovered, \* registry_recovered of each process
    modules,   \* the key under which each process holds each module
    op,        \* the mutation each process is performing
    todo,      \* the dead entries a gc has still to look at
    pc,        \* where each process is
    calls,     \* how many mutations were asked for
    faults,    \* how many of each fault happened
    stolen     \* history: was the lock of a live holder ever removed by another?

vars == <<disk, tmp, art, lock, lockOld, mem, recovered, modules, op, todo, pc,
          calls, faults, stolen>>

-----------------------------------------------------------------------------
(* The registry's content and the mutations of it.                         *)

Keys == 0 .. MaxKey - 1

Registry == [next : 0 .. MaxKey,
             free : SUBSET Keys,
             key : [File -> Keys \cup {NoKey}],
             published : SUBSET File,
             deps : [File -> SUBSET (File \X Keys)]]

Empty == [next |-> 0, free |-> {}, key |-> [f \in File |-> NoKey],
          published |-> {}, deps |-> [f \in File |-> {}]]

Entries(r) == {f \in File : r.key[f] # NoKey}

\* Does an entry other than f's name f's key among its dependencies?
Referenced(r, f) ==
    \E g \in Entries(r) \ {f} : \E d \in r.deps[g] : d[2] = r.key[f]

Smallest(S) == CHOOSE k \in S : \A j \in S : k <= j

\* Mutant: the free list is never consulted.
TakenKeyFresh(r) == r.next

\* The key an allocation takes: the smallest free one, else a fresh one.
TakenKey(r) == IF r.free # {} THEN Smallest(r.free) ELSE r.next

CanAlloc(r, f) == f \in Entries(r) \/ r.free # {} \/ r.next < MaxKey

Alloc(r, f) ==
    IF f \in Entries(r) THEN r
    ELSE [r EXCEPT !.key[f] = TakenKey(r),
                   !.free = @ \ {TakenKey(r)},
                   !.next = IF r.free # {} THEN @ ELSE @ + 1]

Publish(r, f, deps) ==
    [r EXCEPT !.published = @ \cup {f}, !.deps[f] = deps]

Drop(r, f) ==
    [r EXCEPT !.key[f] = NoKey, !.free = @ \cup {r.key[f]},
              !.published = @ \ {f}, !.deps[f] = {}]

Removes(r, f) == f \in Entries(r) /\ ~Referenced(r, f)

Remove(r, f) == IF Removes(r, f) THEN Drop(r, f) ELSE r

\* Mutant: the restarted key space starts over.
RestartedAtZero(r) == Empty

\* Mutant: ... and keeps the free list of the old one.
RestartedKeepsFree(r) == [Empty EXCEPT !.free = r.free]

\* What recover keeps: next_key, so that no key of this process is reissued.
Restarted(r) ==
    [next |-> r.next, free |-> {}, key |-> [f \in File |-> NoKey],
     published |-> {}, deps |-> [f \in File |-> {}]]

-----------------------------------------------------------------------------
(* Files and processes.                                                    *)

\* A file is missing, unreadable, or holds a registry.
Image == [st : {"missing", "torn", "ok"}, reg : Registry]
Missing == [st |-> "missing", reg |-> Empty]
Torn == [st |-> "torn", reg |-> Empty]
Holding(r) == [st |-> "ok", reg |-> r]

\* The steps between acquiring the lock and dropping the guard.
HoldPcs == {"reload", "quarantine", "restart", "mutate", "gc", "save",
            "write", "rename", "release"}

Op == [kind : {"alloc", "publish", "remove", "gc", "none"},
       file : File, deps : SUBSET (File \X Keys), key : Keys \cup {NoKey}]

SomeFile == CHOOSE f \in File : TRUE
Idle == [kind |-> "none", file |-> SomeFile, deps |-> {}, key |-> NoKey]
NoModules == [f \in File |-> NoKey]

\* Inside with_lock; a store that only opens recovers outside of any lock.
Live(p) == pc[p] \in HoldPcs /\ op[p].kind # "none"

\* The lock's creator is not inside its critical section: it crashed there.
DeadLock == lock # NoProc /\ ~Live(lock)

Init ==
    /\ disk = Missing
    /\ tmp = Missing
    /\ art = [f \in File |-> NoKey]
    /\ lock = NoProc
    /\ lockOld = FALSE
    /\ mem = [p \in Proc |-> Empty]
    /\ recovered = [p \in Proc |-> FALSE]
    /\ modules = [p \in Proc |-> NoModules]
    /\ op = [p \in Proc |-> Idle]
    /\ todo = [p \in Proc |-> {}]
    /\ pc = [p \in Proc |-> "closed"]
    /\ calls = 0
    /\ faults = [crash |-> 0, corrupt |-> 0, save |-> 0]
    /\ stolen = FALSE

-----------------------------------------------------------------------------
(* Reading the registry file, with no lock when a store opens and under it *)
(* at the start of every mutation.                                         *)

\* What follows a read: a mutation, or an idle open store.
AfterRead(p) == IF op[p].kind = "none" THEN "idle" ELSE "mutate"

Read(p) ==
    /\ pc' = [pc EXCEPT ![p] = IF disk.st = "torn" /\ ~recovered[p]
                                 THEN "quarantine" ELSE AfterRead(p)]
    /\ mem' = [mem EXCEPT ![p] = IF disk.st = "ok" THEN disk.reg ELSE @]
    /\ recovered' = [recovered EXCEPT ![p] = @ /\ disk.st # "ok"]
    /\ UNCHANGED <<calls, disk, tmp, art, lock, lockOld, modules, op, todo, faults, stolen>>

Open(p) == pc[p] = "closed" /\ Read(p)

\* Mutant: with_lock mutates the copy it already has.
ReloadSkipped(p) ==
    /\ pc[p] = "reload"
    /\ pc' = [pc EXCEPT ![p] = AfterRead(p)]
    /\ UNCHANGED <<calls, disk, tmp, art, lock, lockOld, mem, recovered, modules, op,
                   todo, faults, stolen>>

Reload(p) == pc[p] = "reload" /\ Read(p)

\* recover moves the registry file aside first ...
QuarantineRegistry(p) ==
    /\ pc[p] = "quarantine"
    /\ disk' = Missing
    /\ pc' = [pc EXCEPT ![p] = "restart"]
    /\ UNCHANGED <<calls, tmp, art, lock, lockOld, mem, recovered, modules, op, todo,
                   faults, stolen>>

\* ... then the artifacts, and only then forgets the entries.
QuarantineArtifacts(p) ==
    /\ pc[p] = "restart"
    /\ art' = [f \in File |-> NoKey]
    /\ mem' = [mem EXCEPT ![p] = Restarted(@)]
    /\ recovered' = [recovered EXCEPT ![p] = TRUE]
    /\ pc' = [pc EXCEPT ![p] = AfterRead(p)]
    /\ UNCHANGED <<calls, disk, tmp, lock, lockOld, modules, op, todo, faults, stolen>>

-----------------------------------------------------------------------------
(* The calls a process makes of its store.                                 *)

Call(p, kind, f, deps, key) ==
    /\ calls < MaxCalls
    /\ calls' = calls + 1
    /\ op' = [op EXCEPT ![p] = [kind |-> kind, file |-> f, deps |-> deps, key |-> key]]
    /\ pc' = [pc EXCEPT ![p] = "acquire"]

Held(p, f) == modules[p][f] # NoKey

\* build_package has loaded every import before it allocates its own key.
CallAlloc(p, f) ==
    /\ pc[p] = "idle"
    /\ \A g \in Imports[f] : Held(p, g)
    /\ Call(p, "alloc", f, {}, NoKey)
    /\ UNCHANGED <<disk, tmp, art, lock, lockOld, mem, recovered, modules, todo,
                   faults, stolen>>

\* build_package stores the artifact, then publishes it; a refused store leaves
\* the previous artifact and is not reported.
StoreThenPublish(p, f) ==
    /\ pc[p] = "idle"
    /\ Held(p, f) /\ \A g \in Imports[f] : Held(p, g)
    /\ \/ art' = [art EXCEPT ![f] = modules[p][f]]
       \/ art' = art
    /\ Call(p, "publish", f, {<<g, modules[p][g]>> : g \in Imports[f]}, modules[p][f])
    /\ UNCHANGED <<disk, tmp, lock, lockOld, mem, recovered, modules, todo,
                   faults, stolen>>

CallRemove(p, f) ==
    /\ pc[p] = "idle"
    /\ f \in Removable
    /\ Call(p, "remove", f, {}, NoKey)
    /\ UNCHANGED <<disk, tmp, art, lock, lockOld, mem, recovered, modules, todo,
                   faults, stolen>>

CallGc(p) ==
    /\ pc[p] = "idle"
    /\ Junk # {}
    /\ Call(p, "gc", SomeFile, {}, NoKey)
    /\ UNCHANGED <<disk, tmp, art, lock, lockOld, mem, recovered, modules, todo,
                   faults, stolen>>

\* A verified artifact is loaded into the process without any lock.
LoadCached(p, f) ==
    /\ pc[p] = "idle"
    /\ disk.st = "ok" /\ f \in disk.reg.published /\ art[f] = disk.reg.key[f]
    /\ \A d \in disk.reg.deps[f] : disk.reg.key[d[1]] = d[2] /\ modules[p][d[1]] = d[2]
    /\ modules[p][f] = NoKey
    /\ modules' = [modules EXCEPT ![p][f] = disk.reg.key[f]]
    /\ UNCHANGED <<calls, disk, tmp, art, lock, lockOld, mem, recovered, op, todo, pc,
                   faults, stolen>>

-----------------------------------------------------------------------------
(* The mkdir lock.  Left out: a create_dir that fails for another reason and  *)
(* the remove_dir of a waiter that fails.  The loop then tries again, without *)
(* a deadline.                                                                *)

\* Mutant: create_dir_all, which succeeds on an existing directory.
MakeLockAnyway(p) ==
    /\ pc[p] = "acquire"
    /\ lock' = p
    /\ lockOld' = FALSE
    /\ pc' = [pc EXCEPT ![p] = "reload"]
    /\ UNCHANGED <<calls, disk, tmp, art, mem, recovered, modules, op, todo, faults, stolen>>

MakeLock(p) ==
    /\ pc[p] = "acquire"
    /\ lock = NoProc
    /\ lock' = p
    /\ lockOld' = FALSE
    /\ pc' = [pc EXCEPT ![p] = "reload"]
    /\ UNCHANGED <<calls, disk, tmp, art, mem, recovered, modules, op, todo, faults, stolen>>

\* The waiter reads the directory's age ...
SeeStale(p) ==
    /\ pc[p] = "acquire"
    /\ lock # NoProc /\ lockOld
    /\ pc' = [pc EXCEPT ![p] = "break"]
    /\ UNCHANGED <<calls, disk, tmp, art, lock, lockOld, mem, recovered, modules, op, todo,
                   faults, stolen>>

\* rmdir removes whichever lock directory is there by now.
RemoveLock(p) ==
    /\ lock' = NoProc
    /\ lockOld' = FALSE
    /\ stolen' = (stolen \/ (lock # NoProc /\ lock # p /\ Live(lock)))

\* Mutant: the directory survives the removal, as a non-empty one would.
BreakStaleFails(p) ==
    /\ pc[p] = "break"
    /\ pc' = [pc EXCEPT ![p] = "acquire"]
    /\ UNCHANGED <<calls, disk, tmp, art, lock, lockOld, mem, recovered, modules, op,
                   todo, faults, stolen>>

\* ... and removes what it finds some time later.
BreakStale(p) ==
    /\ pc[p] = "break"
    /\ RemoveLock(p)
    /\ pc' = [pc EXCEPT ![p] = "acquire"]
    /\ UNCHANGED <<calls, disk, tmp, art, mem, recovered, modules, op, todo, faults>>

\* A wait past LOCK_WAIT panics.
TimeOut(p) ==
    /\ pc[p] = "acquire"
    /\ lock # NoProc /\ ~lockOld
    /\ pc' = [pc EXCEPT ![p] = "timedout"]
    /\ UNCHANGED <<calls, disk, tmp, art, lock, lockOld, mem, recovered, modules, op, todo,
                   faults, stolen>>

\* The lock directory passes LOCK_STALE: only a crashed holder's does, unless a
\* live holder may be that slow.
Age ==
    /\ lock # NoProc /\ ~lockOld
    /\ DeadLock \/ SlowHolders
    /\ lockOld' = TRUE
    /\ UNCHANGED <<calls, disk, tmp, art, lock, mem, recovered, modules, op, todo, pc,
                   faults, stolen>>

-----------------------------------------------------------------------------
(* The mutation itself, on the copy in memory.                             *)

MutateAlloc(p) ==
    LET f == op[p].file IN
    /\ pc[p] = "mutate" /\ op[p].kind = "alloc"
    /\ CanAlloc(mem[p], f)
    /\ mem' = [mem EXCEPT ![p] = Alloc(@, f)]
    /\ op' = [op EXCEPT ![p] = [@ EXCEPT !.key = Alloc(mem[p], f).key[f]]]
    /\ pc' = [pc EXCEPT ![p] = "save"]
    /\ UNCHANGED <<calls, disk, tmp, art, lock, lockOld, recovered, modules, todo, faults, stolen>>

\* The entry exists and carries the key the caller compiled under.
PublishFits(p) == mem[p].key[op[p].file] = op[p].key /\ op[p].key # NoKey

MutatePublish(p) ==
    /\ pc[p] = "mutate" /\ op[p].kind = "publish"
    /\ PublishFits(p)
    /\ mem' = [mem EXCEPT ![p] = Publish(@, op[p].file, op[p].deps)]
    /\ pc' = [pc EXCEPT ![p] = "save"]
    /\ UNCHANGED <<calls, disk, tmp, art, lock, lockOld, recovered, modules, op, todo,
                   faults, stolen>>

\* "publishing an artifact that was never allocated": the panic unwinds through
\* the guard, which removes the lock.
PublishPanics(p) ==
    /\ pc[p] = "mutate" /\ op[p].kind = "publish"
    /\ ~PublishFits(p)
    /\ RemoveLock(p)
    /\ pc' = [pc EXCEPT ![p] = "panicked"]
    /\ UNCHANGED <<calls, disk, tmp, art, mem, recovered, modules, op, todo, faults>>

\* One entry goes: from the table, from the key space in use, and its file.
DropEntry(p, f) ==
    /\ mem' = [mem EXCEPT ![p] = Remove(@, f)]
    /\ art' = [art EXCEPT ![f] = IF Removes(mem[p], f) THEN NoKey ELSE @]

MutateRemove(p) ==
    /\ pc[p] = "mutate" /\ op[p].kind = "remove"
    /\ DropEntry(p, op[p].file)
    /\ pc' = [pc EXCEPT ![p] = "save"]
    /\ UNCHANGED <<calls, disk, tmp, lock, lockOld, recovered, modules, op, todo, faults, stolen>>

StartGc(p) ==
    /\ pc[p] = "mutate" /\ op[p].kind = "gc"
    /\ todo' = [todo EXCEPT ![p] = Junk \cap Entries(mem[p])]
    /\ pc' = [pc EXCEPT ![p] = "gc"]
    /\ UNCHANGED <<calls, disk, tmp, art, lock, lockOld, mem, recovered, modules, op,
                   faults, stolen>>

\* The dead entries are taken in hash order, which is any order.
GcEntry(p) ==
    /\ pc[p] = "gc"
    /\ \E f \in todo[p] :
          /\ DropEntry(p, f)
          /\ todo' = [todo EXCEPT ![p] = @ \ {f}]
    /\ UNCHANGED <<calls, disk, tmp, lock, lockOld, recovered, modules, op, pc, faults, stolen>>

EndGc(p) ==
    /\ pc[p] = "gc" /\ todo[p] = {}
    /\ pc' = [pc EXCEPT ![p] = "save"]
    /\ UNCHANGED <<calls, disk, tmp, art, lock, lockOld, mem, recovered, modules, op, todo,
                   faults, stolen>>

-----------------------------------------------------------------------------
(* The save: truncate registry.tmp, write it, rename it, drop the guard.   *)

\* Mutant: the registry is rewritten in place.
TruncateInPlace(p) ==
    /\ pc[p] = "save"
    /\ tmp' = Torn
    /\ disk' = Torn
    /\ pc' = [pc EXCEPT ![p] = "write"]
    /\ UNCHANGED <<calls, art, lock, lockOld, mem, recovered, modules, op, todo,
                   faults, stolen>>

TruncateTmp(p) ==
    /\ pc[p] = "save"
    /\ tmp' = Torn
    /\ pc' = [pc EXCEPT ![p] = "write"]
    /\ UNCHANGED <<calls, disk, art, lock, lockOld, mem, recovered, modules, op, todo,
                   faults, stolen>>

\* Over what another writer left there since the truncation, the result may be
\* either image's bytes with a tail of the other's.
WriteTmp(p) ==
    /\ pc[p] = "write"
    /\ \/ tmp' = Holding(mem[p])
       \/ tmp.st = "ok" /\ tmp' = Torn
    /\ pc' = [pc EXCEPT ![p] = "rename"]
    /\ UNCHANGED <<calls, disk, art, lock, lockOld, mem, recovered, modules, op, todo,
                   faults, stolen>>

RenameTmp(p) ==
    /\ pc[p] = "rename"
    /\ IF tmp.st = "missing" THEN UNCHANGED <<disk, tmp>>
                             ELSE disk' = tmp /\ tmp' = Missing
    /\ pc' = [pc EXCEPT ![p] = "release"]
    /\ UNCHANGED <<calls, art, lock, lockOld, mem, recovered, modules, op, todo, faults, stolen>>

\* What the file system refuses is dropped without a word: the save of the
\* registry, or the rename that should move the damaged registry, or the
\* artifacts, aside.
Refused(p) ==
    /\ faults.save < MaxSaveFail
    /\ faults' = [faults EXCEPT !.save = @ + 1]
    /\ \/ pc[p] = "save" /\ pc' = [pc EXCEPT ![p] = "release"] /\ UNCHANGED <<mem, recovered>>
       \/ pc[p] = "quarantine" /\ pc' = [pc EXCEPT ![p] = "restart"]
          /\ UNCHANGED <<mem, recovered>>
       \/ pc[p] = "restart" /\ pc' = [pc EXCEPT ![p] = AfterRead(p)]
          /\ mem' = [mem EXCEPT ![p] = Restarted(@)]
          /\ recovered' = [recovered EXCEPT ![p] = TRUE]
    /\ UNCHANGED <<calls, disk, tmp, art, lock, lockOld, modules, op, todo, stolen>>

\* The guard drops, and the call returns what it allocated.
Release(p) ==
    /\ pc[p] = "release"
    /\ RemoveLock(p)
    /\ modules' = IF op[p].kind = "alloc"
                  THEN [modules EXCEPT ![p][op[p].file] = op[p].key] ELSE modules
    /\ op' = [op EXCEPT ![p] = Idle]
    /\ pc' = [pc EXCEPT ![p] = "idle"]
    /\ UNCHANGED <<calls, disk, tmp, art, mem, recovered, todo, faults>>

-----------------------------------------------------------------------------
(* Faults from outside the code.                                           *)

\* A process dies wherever it is; its lock directory and registry.tmp stay.
Crash(p) ==
    /\ pc[p] \notin {"closed", "panicked", "timedout"}
    /\ faults.crash < MaxCrash
    /\ faults' = [faults EXCEPT !.crash = @ + 1]
    /\ pc' = [pc EXCEPT ![p] = "closed"]
    /\ mem' = [mem EXCEPT ![p] = Empty]
    /\ recovered' = [recovered EXCEPT ![p] = FALSE]
    /\ modules' = [modules EXCEPT ![p] = NoModules]
    /\ op' = [op EXCEPT ![p] = Idle]
    /\ todo' = [todo EXCEPT ![p] = {}]
    /\ UNCHANGED <<calls, disk, tmp, art, lock, lockOld, stolen>>

\* The registry file is damaged, or written by another format version.
Corrupt ==
    /\ disk.st = "ok"
    /\ faults.corrupt < MaxCorrupt
    /\ faults' = [faults EXCEPT !.corrupt = @ + 1]
    /\ disk' = Torn
    /\ UNCHANGED <<calls, tmp, art, lock, lockOld, mem, recovered, modules, op, todo, pc, stolen>>

-----------------------------------------------------------------------------
Store(p) ==
    \/ Open(p) \/ Reload(p) \/ QuarantineRegistry(p) \/ QuarantineArtifacts(p)
    \/ MakeLock(p) \/ SeeStale(p) \/ BreakStale(p)
    \/ MutateAlloc(p) \/ MutatePublish(p) \/ PublishPanics(p) \/ MutateRemove(p)
    \/ StartGc(p) \/ GcEntry(p) \/ EndGc(p)
    \/ TruncateTmp(p) \/ WriteTmp(p) \/ RenameTmp(p) \/ Release(p)

Caller(p) ==
    \/ \E f \in File : CallAlloc(p, f) \/ StoreThenPublish(p, f) \/ CallRemove(p, f)
                          \/ LoadCached(p, f)
    \/ CallGc(p)

Next ==
    \/ \E p \in Proc : Store(p) \/ Caller(p) \/ TimeOut(p) \/ Refused(p) \/ Crash(p)
    \/ Age
    \/ Corrupt

Spec == Init /\ [][Next]_vars

\* A process that is not killed keeps running and a directory keeps ageing;
\* nobody is obliged to call, to crash or to give up waiting.
FairSpec == Spec /\ WF_vars(Age) /\ \A p \in Proc : WF_vars(Store(p))

-----------------------------------------------------------------------------
(* Properties.                                                             *)

Pcs == HoldPcs \cup {"closed", "idle", "acquire", "break", "panicked", "timedout"}

\* The shape of the state: every image of the registry is a registry.
TypeOK ==
    /\ disk \in Image /\ tmp \in Image
    /\ art \in [File -> Keys \cup {NoKey}]
    /\ lock \in Proc \cup {NoProc} /\ lockOld \in BOOLEAN
    /\ mem \in [Proc -> Registry]
    /\ recovered \in [Proc -> BOOLEAN]
    /\ modules \in [Proc -> [File -> Keys \cup {NoKey}]]
    /\ op \in [Proc -> Op]
    /\ todo \in [Proc -> SUBSET File]
    /\ pc \in [Proc -> Pcs]
    /\ calls \in Nat
    /\ faults \in [crash : Nat, corrupt : Nat, save : Nat]
    /\ stolen \in BOOLEAN

\* No two entries share a key, no key in use is on the free list, and every key
\* in use or free was handed out before.
Consistent(r) ==
    /\ \A f \in Entries(r), g \in Entries(r) : r.key[f] = r.key[g] => f = g
    /\ \A f \in Entries(r) : r.key[f] \notin r.free /\ r.key[f] < r.next
    /\ \A k \in r.free : k < r.next

\* A registry file that can be read is consistent, however the processes that
\* wrote it crashed, raced for a broken lock or lost each other's updates: a
\* ModuleKey names one file (device.rs, alloc, remove, gc, recover, save).
KeysNameOneFile == disk.st = "ok" => Consistent(disk.reg)

\* As long as nobody removed the lock of a live holder, at most one process is
\* between acquiring the lock and dropping its guard (RegistryLock).
OneHolder == ~stolen => \A p, q \in Proc : Live(p) /\ Live(q) => p = q

\* ... and the file a save renames into place is whole: the fixed temporary name
\* is safe under the lock, and a crash leaves the previous registry (save).
NeverTorn == ~stolen /\ faults.corrupt = 0 => disk.st # "torn"

\* ... and what a process allocated is still its own when it publishes: no
\* "publishing an artifact that was never allocated" (alloc, publish).
PublishFindsItsEntry == ~stolen => \A p \in Proc : pc[p] # "panicked"

\* A rename never loses an entry another process saved: what disappears from a
\* readable registry was dropped by this process's own remove or gc (with_lock).
NoLostEntry ==
    [][\A p \in Proc :
          pc[p] = "rename" /\ pc'[p] = "release" /\ ~stolen
             /\ disk.st = "ok" /\ disk'.st = "ok"
             /\ op[p].kind \in {"alloc", "publish"}
          => \A f \in Entries(disk.reg) : disk'.reg.key[f] = disk.reg.key[f]]_vars

\* One process never holds two modules under one key: recover keeps next_key, so
\* no key this process handed out is reissued (recover).
ProcessKeysDistinct ==
    ~stolen => \A p \in Proc : \A f, g \in File :
        Held(p, f) /\ modules[p][f] = modules[p][g] => f = g

\* A key that a surviving entry names among its dependencies is not reclaimed:
\* that would hand it to a different module while an artifact on disk still
\* refers to it (gc, remove).
NamedKeysStay ==
    disk.st = "ok" =>
        \A f \in Entries(disk.reg) : \A d \in disk.reg.deps[f] :
            disk.reg.key[d[1]] = d[2]

\* No artifact on disk carries the key of another file's entry: the key space
\* restarts only once no artifact on disk carries an older key (recover).
OldKeysGone ==
    disk.st = "ok" =>
        \A f \in Entries(disk.reg), g \in File : art[g] = disk.reg.key[f] => f = g

\* A lost update only costs a recompile: no process dies of one
\* (artifact-cache.md on save; publish).
NobodyPanics == \A p \in Proc : pc[p] # "panicked"

Waits(p) == pc[p] \in {"acquire", "break"}

\* A crashed holder does not stop the others: while somebody waits, its lock
\* directory is broken (RegistryLock::acquire).
DeadLockIsBroken ==
    \A p \in Proc :
        (Waits(p) /\ DeadLock) ~> (~DeadLock \/ ~Waits(p))
=============================================================================
