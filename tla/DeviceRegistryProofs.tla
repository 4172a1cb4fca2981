------------------------ MODULE DeviceRegistryProofs ------------------------
(***************************************************************************)
(* What DeviceRegistry guarantees for any number of processes, files, keys *)
(* and faults.  First the file: the types, that a readable registry names  *)
(* one file per key, and that the mkdir lock excludes while no live        *)
(* holder's lock has been removed.  Then the keys the processes work       *)
(* under: no rename loses an entry another process saved; a file that      *)
(* nobody removes keeps its key, so that its publish finds its entry; and  *)
(* a process that recovers from a damaged registry reissues no key.        *)
(***************************************************************************)
EXTENDS DeviceRegistry, Induction, TLAPS

USE RegistryAssumption

\* pop_first has a smallest element to pop.
LEMMA SmallestIsThere ==
    ASSUME NEW S \in SUBSET Keys, S # {}
    PROVE  Smallest(S) \in S
<1>1. S \subseteq Nat
  BY DEF Keys
<1>2. PICK k \in S : \A j \in S : k <= j
  BY <1>1, LeastNumber
<1>. QED
  BY <1>2 DEF Smallest

\* A key an allocation may take is a key, on the free list or never used.
LEMMA TakenKeyType ==
    ASSUME NEW r \in Registry, NEW f \in File, CanAlloc(r, f), f \notin Entries(r)
    PROVE  /\ TakenKey(r) \in Keys
           /\ r.free # {} => TakenKey(r) \in r.free
           /\ r.free = {} => TakenKey(r) = r.next /\ r.next < MaxKey
<1>1. CASE r.free # {}
  BY <1>1, SmallestIsThere DEF TakenKey, Registry
<1>2. CASE r.free = {}
  BY <1>2 DEF TakenKey, Registry, CanAlloc, Keys
<1>. QED
  BY <1>1, <1>2

LEMMA EmptyRegistry == Empty \in Registry /\ Consistent(Empty)
  BY DEF Empty, Registry, Consistent, Entries, Keys

LEMMA ImageTypes ==
    /\ Missing \in Image /\ Torn \in Image
    /\ \A r \in Registry : Holding(r) \in Image
<1>1. Missing \in Image
  BY EmptyRegistry DEF Missing, Image
<1>2. Torn \in Image
  BY EmptyRegistry DEF Torn, Image
<1>3. ASSUME NEW r \in Registry PROVE Holding(r) \in Image
  BY <1>3 DEF Holding, Image
<1>. QED
  BY <1>1, <1>2, <1>3

LEMMA AllocKeepsRegistry ==
    ASSUME NEW r \in Registry, NEW f \in File, CanAlloc(r, f)
    PROVE  Alloc(r, f) \in Registry /\ Alloc(r, f).key[f] \in Keys
<1>1. CASE f \in Entries(r)
  BY <1>1 DEF Alloc, Entries, Registry
<1>2. CASE f \notin Entries(r)
  <2>. DEFINE s == Alloc(r, f)
  <2>1. TakenKey(r) \in Keys /\ (r.free = {} => r.next < MaxKey)
    BY <1>2, TakenKeyType
  <2>2. s = [next |-> IF r.free # {} THEN r.next ELSE r.next + 1,
             free |-> r.free \ {TakenKey(r)},
             key |-> [r.key EXCEPT ![f] = TakenKey(r)],
             published |-> r.published, deps |-> r.deps]
    BY <1>2 DEF Alloc, Registry
  <2>3. s.next \in 0 .. MaxKey
    BY <2>1, <2>2 DEF Registry
  <2>4. s.key \in [File -> Keys \cup {NoKey}] /\ s.key[f] \in Keys
    BY <2>1, <2>2 DEF Registry
  <2>. QED
    BY <2>2, <2>3, <2>4 DEF Registry
<1>. QED
  BY <1>1, <1>2

\* Allocation hands out a key nobody has.
LEMMA AllocKeepsConsistent ==
    ASSUME NEW r \in Registry, NEW f \in File, CanAlloc(r, f), Consistent(r)
    PROVE  Consistent(Alloc(r, f))
<1>1. CASE f \in Entries(r)
  BY <1>1 DEF Alloc
<1>2. CASE f \notin Entries(r)
  <2>. DEFINE k == TakenKey(r)
              s == Alloc(r, f)
  <2>1. /\ k \in Keys
        /\ r.free # {} => k \in r.free
        /\ r.free = {} => k = r.next
    BY <1>2, TakenKeyType
  <2>2. \A g \in Entries(r) : r.key[g] # k
    BY <2>1 DEF Consistent, Registry, Keys, Entries
  <2>3. /\ s.key = [r.key EXCEPT ![f] = k]
        /\ s.free = r.free \ {k}
        /\ s.next = IF r.free # {} THEN r.next ELSE r.next + 1
    BY <1>2 DEF Alloc, Registry
  <2>4. \A g \in File : s.key[g] = IF g = f THEN k ELSE r.key[g]
    BY <2>3 DEF Registry
  <2>5. Entries(s) = Entries(r) \cup {f}
    BY <2>1, <2>4 DEF Entries, Keys
  <2>6. \A g \in Entries(s), h \in Entries(s) : s.key[g] = s.key[h] => g = h
    BY <2>2, <2>4, <2>5 DEF Consistent, Entries
  <2>7. \A g \in Entries(s) : s.key[g] \notin s.free /\ s.key[g] < s.next
    <3>1. k < s.next
      BY <2>1, <2>3 DEF Consistent, Registry, Keys
    <3>2. \A g \in Entries(r) : r.key[g] \in Keys /\ r.key[g] < s.next
      BY <2>3 DEF Consistent, Registry, Keys, Entries
    <3>. QED
      BY <2>3, <2>4, <2>5, <3>1, <3>2 DEF Consistent
  <2>8. \A j \in s.free : j < s.next
    BY <2>3 DEF Consistent, Registry, Keys
  <2>. QED
    BY <2>6, <2>7, <2>8 DEF Consistent
<1>. QED
  BY <1>1, <1>2

LEMMA DropKeepsRegistry ==
    ASSUME NEW r \in Registry, NEW f \in Entries(r)
    PROVE  Drop(r, f) \in Registry
<1>1. f \in File /\ r.key[f] \in Keys
  BY DEF Entries, Registry
<1>. QED
  BY <1>1 DEF Drop, Registry

\* A dropped entry's key goes to the free list, where no entry has it.
LEMMA DropKeepsConsistent ==
    ASSUME NEW r \in Registry, NEW f \in Entries(r), Consistent(r)
    PROVE  Consistent(Drop(r, f))
<1>. DEFINE s == Drop(r, f)
<1>1. f \in File /\ r.key[f] \in Keys /\ r.key[f] < r.next
  BY DEF Entries, Registry, Consistent
<1>2. /\ s.key = [r.key EXCEPT ![f] = NoKey]
      /\ s.free = r.free \cup {r.key[f]}
      /\ s.next = r.next
  BY DEF Drop, Registry
<1>3. \A g \in File : s.key[g] = IF g = f THEN NoKey ELSE r.key[g]
  BY <1>1, <1>2 DEF Registry
<1>4. Entries(s) = Entries(r) \ {f}
  BY <1>3 DEF Entries
<1>5. \A g \in Entries(s) : g \in Entries(r) /\ g # f /\ s.key[g] = r.key[g]
  BY <1>3, <1>4 DEF Entries
<1>. QED
  BY <1>1, <1>2, <1>5 DEF Consistent

LEMMA RemoveKeeps ==
    ASSUME NEW r \in Registry, NEW f \in File
    PROVE  /\ Remove(r, f) \in Registry
           /\ Consistent(r) => Consistent(Remove(r, f))
<1>1. CASE Removes(r, f)
  BY <1>1, DropKeepsRegistry, DropKeepsConsistent DEF Remove, Removes
<1>2. CASE ~Removes(r, f)
  BY <1>2 DEF Remove
<1>. QED
  BY <1>1, <1>2

LEMMA PublishKeeps ==
    ASSUME NEW r \in Registry, NEW f \in File, NEW deps \in SUBSET (File \X Keys)
    PROVE  /\ Publish(r, f, deps) \in Registry
           /\ Consistent(r) => Consistent(Publish(r, f, deps))
<1>. DEFINE s == Publish(r, f, deps)
<1>1. s.key = r.key /\ s.free = r.free /\ s.next = r.next
  BY DEF Publish, Registry
<1>2. s \in Registry
  BY DEF Publish, Registry
<1>. QED
  BY <1>1, <1>2 DEF Consistent, Entries

LEMMA RestartedKeeps ==
    ASSUME NEW r \in Registry
    PROVE  Restarted(r) \in Registry /\ Consistent(Restarted(r))
<1>. DEFINE s == Restarted(r)
<1>1. s \in Registry /\ s.free = {}
  BY DEF Restarted, Registry
<1>2. \A f \in File : s.key[f] = NoKey
  BY DEF Restarted
<1>3. Entries(s) = {}
  BY <1>2 DEF Entries
<1>. QED
  BY <1>1, <1>3 DEF Consistent

-----------------------------------------------------------------------------
(* Type correctness.                                                       *)

LEMMA OpTypes ==
    /\ Idle \in Op
    /\ \A kind \in {"alloc", "publish", "remove", "gc"}, f \in File,
          deps \in SUBSET (File \X Keys), k \in Keys \cup {NoKey} :
          [kind |-> kind, file |-> f, deps |-> deps, key |-> k] \in Op
<1>1. SomeFile \in File
  BY DEF SomeFile
<1>. QED
  BY <1>1 DEF Idle, Op

LEMMA OpKeyType ==
    ASSUME NEW o \in Op, NEW k
    PROVE  /\ k \in Keys \cup {NoKey} => [o EXCEPT !.key = k] \in Op
           /\ [o EXCEPT !.key = k].kind = o.kind
  BY DEF Op

\* Counting a fault leaves a record of counters.
LEMMA FaultTypes ==
    ASSUME NEW c \in [crash : Nat, corrupt : Nat, save : Nat]
    PROVE  /\ [c EXCEPT !.crash = @ + 1] \in [crash : Nat, corrupt : Nat, save : Nat]
           /\ [c EXCEPT !.corrupt = @ + 1] \in [crash : Nat, corrupt : Nat, save : Nat]
           /\ [c EXCEPT !.save = @ + 1] \in [crash : Nat, corrupt : Nat, save : Nat]
  OBVIOUS

LEMMA TypeInit == Init => TypeOK
<1>. SUFFICES ASSUME Init PROVE TypeOK
  OBVIOUS
<1>1. NoModules \in [File -> Keys \cup {NoKey}]
  BY DEF NoModules
<1>2. disk \in Image /\ tmp \in Image /\ mem \in [Proc -> Registry]
  BY ImageTypes, EmptyRegistry DEF Init
<1>3. op \in [Proc -> Op] /\ modules \in [Proc -> [File -> Keys \cup {NoKey}]]
  BY <1>1, OpTypes DEF Init
<1>4. pc \in [Proc -> Pcs]
  BY DEF Init, Pcs
<1>. QED
  BY <1>2, <1>3, <1>4 DEF Init, TypeOK

\* One case per step of the store.
LEMMA TypeStore ==
    ASSUME TypeOK, NEW p \in Proc, Store(p)
    PROVE  TypeOK'
<1>. USE DEF TypeOK
<1>a. \A q \in Proc : AfterRead(q) \in Pcs
  BY DEF AfterRead, Pcs, HoldPcs
<1>b. {"closed", "idle", "acquire", "break", "panicked", "timedout", "reload",
       "quarantine", "restart", "mutate", "gc", "save", "write", "rename",
       "release"} \subseteq Pcs
  BY DEF Pcs, HoldPcs
<1>c. \A q \in Proc : op[q].file \in File /\ op[q].key \in Keys \cup {NoKey}
                          /\ op[q].deps \in SUBSET (File \X Keys)
  BY DEF Op
<1>1. ASSUME Read(p) PROVE TypeOK'
  <2>1. disk.reg \in Registry
    BY DEF Image
  <2>. QED
    BY <1>1, <1>a, <1>b, <2>1 DEF Read
<1>2. CASE QuarantineRegistry(p)
  BY <1>2, <1>b, ImageTypes DEF QuarantineRegistry
<1>3. CASE QuarantineArtifacts(p)
  <2>1. Restarted(mem[p]) \in Registry
    BY RestartedKeeps
  <2>. QED
    BY <1>3, <1>a, <2>1 DEF QuarantineArtifacts
<1>4. CASE MakeLock(p)
  BY <1>4, <1>b DEF MakeLock
<1>5. CASE SeeStale(p)
  BY <1>5, <1>b DEF SeeStale
<1>6. CASE BreakStale(p)
  BY <1>6, <1>b DEF BreakStale, RemoveLock
<1>7. CASE MutateAlloc(p)
  <2>. DEFINE f == op[p].file
              s == Alloc(mem[p], f)
  <2>1. s \in Registry /\ s.key[f] \in Keys
    BY <1>7, <1>c, AllocKeepsRegistry DEF MutateAlloc
  <2>2. mem' \in [Proc -> Registry]
    BY <1>7, <2>1 DEF MutateAlloc
  <2>3. op' \in [Proc -> Op]
    <3>1. [op[p] EXCEPT !.key = s.key[f]] \in Op
      BY <2>1, OpKeyType
    <3>. QED
      BY <1>7, <3>1 DEF MutateAlloc
  <2>. QED
    BY <1>7, <1>b, <2>2, <2>3 DEF MutateAlloc
<1>8. CASE MutatePublish(p)
  <2>1. Publish(mem[p], op[p].file, op[p].deps) \in Registry
    BY <1>c, PublishKeeps
  <2>. QED
    BY <1>8, <1>b, <2>1 DEF MutatePublish
<1>9. CASE PublishPanics(p)
  BY <1>9, <1>b DEF PublishPanics, RemoveLock
<1>10. ASSUME NEW f \in File, DropEntry(p, f)
       PROVE  mem' \in [Proc -> Registry] /\ art' \in [File -> Keys \cup {NoKey}]
  <2>1. Remove(mem[p], f) \in Registry
    BY RemoveKeeps
  <2>. QED
    BY <1>10, <2>1 DEF DropEntry
<1>11. CASE MutateRemove(p)
  BY <1>11, <1>b, <1>c, <1>10 DEF MutateRemove
<1>12. CASE StartGc(p)
  BY <1>12, <1>b DEF StartGc, Entries
<1>13. CASE GcEntry(p)
  BY <1>13, <1>10 DEF GcEntry
<1>14. CASE EndGc(p)
  BY <1>14, <1>b DEF EndGc
<1>15. CASE TruncateTmp(p)
  BY <1>15, <1>b, ImageTypes DEF TruncateTmp
<1>16. CASE WriteTmp(p)
  <2>1. tmp' \in Image
    BY <1>16, ImageTypes DEF WriteTmp
  <2>. QED
    BY <1>16, <1>b, <2>1 DEF WriteTmp
<1>17. CASE RenameTmp(p)
  BY <1>17, <1>b, ImageTypes DEF RenameTmp
<1>18. CASE Release(p)
  <2>1. modules' \in [Proc -> [File -> Keys \cup {NoKey}]]
    BY <1>18, <1>c DEF Release
  <2>. QED
    BY <1>18, <1>b, <2>1, OpTypes DEF Release, RemoveLock
<1>. QED
  BY <1>1, <1>2, <1>3, <1>4, <1>5, <1>6, <1>7, <1>8, <1>9, <1>11, <1>12, <1>13, <1>14,
     <1>15, <1>16, <1>17, <1>18 DEF Store, Open, Reload

\* One case per call a process makes.
LEMMA TypeCaller ==
    ASSUME TypeOK, NEW p \in Proc, Caller(p)
    PROVE  TypeOK'
<1>. USE DEF TypeOK
<1>1. {"idle", "acquire"} \subseteq Pcs
  BY DEF Pcs
<1>2. ASSUME NEW kind \in {"alloc", "publish", "remove", "gc"}, NEW f \in File,
             NEW deps \in SUBSET (File \X Keys), NEW k \in Keys \cup {NoKey},
             Call(p, kind, f, deps, k)
      PROVE  op' \in [Proc -> Op] /\ pc' \in [Proc -> Pcs] /\ calls' \in Nat
  <2>1. [kind |-> kind, file |-> f, deps |-> deps, key |-> k] \in Op
    BY OpTypes
  <2>. QED
    BY <1>1, <1>2, <2>1 DEF Call
<1>3. ASSUME NEW f \in File, CallAlloc(p, f) PROVE TypeOK'
  BY <1>2, <1>3 DEF CallAlloc
<1>4. ASSUME NEW f \in File, StoreThenPublish(p, f) PROVE TypeOK'
  <2>. DEFINE deps == {<<g, modules[p][g]>> : g \in Imports[f]}
  <2>1. deps \in SUBSET (File \X Keys)
    BY <1>4 DEF StoreThenPublish, Held
  <2>2. modules[p][f] \in Keys \cup {NoKey}
    OBVIOUS
  <2>3. op' \in [Proc -> Op] /\ pc' \in [Proc -> Pcs] /\ calls' \in Nat
    BY <1>2, <1>4, <2>1, <2>2 DEF StoreThenPublish
  <2>. QED
    BY <1>4, <2>2, <2>3 DEF StoreThenPublish
<1>5. ASSUME NEW f \in File, CallRemove(p, f) PROVE TypeOK'
  BY <1>2, <1>5 DEF CallRemove
<1>6. ASSUME NEW f \in File, LoadCached(p, f) PROVE TypeOK'
  <2>1. disk.reg.key[f] \in Keys \cup {NoKey}
    BY DEF Image, Registry
  <2>. QED
    BY <1>6, <2>1 DEF LoadCached
<1>7. CASE CallGc(p)
  <2>1. SomeFile \in File
    BY DEF SomeFile
  <2>. QED
    BY <1>2, <1>7, <2>1 DEF CallGc
<1>. QED
  BY <1>3, <1>4, <1>5, <1>6, <1>7 DEF Caller

\* Faults, ageing and giving up.
LEMMA TypeNext ==
    ASSUME TypeOK, [Next]_vars
    PROVE  TypeOK'
<1>. USE DEF TypeOK
<1>1. ASSUME NEW p \in Proc, TimeOut(p) \/ Refused(p) \/ Crash(p) PROVE TypeOK'
  <2>1. {"timedout", "release", "closed"} \subseteq Pcs
    BY DEF Pcs, HoldPcs
  <2>2. CASE TimeOut(p)
    BY <2>1, <2>2 DEF TimeOut
  <2>3. CASE Refused(p)
    <3>1. /\ {"release", "restart"} \subseteq Pcs /\ AfterRead(p) \in Pcs
          /\ Restarted(mem[p]) \in Registry
      BY RestartedKeeps DEF AfterRead, Pcs, HoldPcs
    <3>2. pc' \in [Proc -> Pcs]
      BY <2>3, <3>1 DEF Refused
    <3>3. mem' \in [Proc -> Registry] /\ recovered' \in [Proc -> BOOLEAN]
      <4>1. CASE UNCHANGED <<mem, recovered>>
        BY <4>1
      <4>2. CASE /\ mem' = [mem EXCEPT ![p] = Restarted(mem[p])]
                 /\ recovered' = [recovered EXCEPT ![p] = TRUE]
        BY <4>2, <3>1
      <4>. QED
        BY <2>3, <4>1, <4>2 DEF Refused
    <3>4. faults' \in [crash : Nat, corrupt : Nat, save : Nat]
      BY <2>3, FaultTypes DEF Refused
    <3>. QED
      BY <2>3, <3>2, <3>3, <3>4 DEF Refused
  <2>4. CASE Crash(p)
    <3>1. NoModules \in [File -> Keys \cup {NoKey}]
      BY DEF NoModules
    <3>. QED
      BY <2>1, <2>4, <3>1, OpTypes, EmptyRegistry, FaultTypes DEF Crash
  <2>. QED
    BY <1>1, <2>2, <2>3, <2>4
<1>2. CASE Age
  BY <1>2 DEF Age
<1>3. CASE Corrupt
  BY <1>3, ImageTypes, FaultTypes DEF Corrupt
<1>4. CASE UNCHANGED vars
  BY <1>4 DEF vars
<1>. QED
  BY <1>1, <1>2, <1>3, <1>4, TypeStore, TypeCaller DEF Next

\* Every reachable state has the shape TypeOK states.
THEOREM TypeCorrect == Spec => []TypeOK
<1>1. Init => TypeOK
  BY TypeInit
<1>2. TypeOK /\ [Next]_vars => TypeOK'
  BY TypeNext
<1>. QED
  BY <1>1, <1>2, PTL DEF Spec

-----------------------------------------------------------------------------
(* A key names one file, in every image of the registry.                   *)

\* Inductive: the file, the temporary file and every copy in memory.  Nothing
\* is said of the lock, so a lost update cannot break it.
ImagesConsistent ==
    /\ Consistent(disk.reg) /\ Consistent(tmp.reg)
    /\ \A p \in Proc : Consistent(mem[p])

LEMMA ConsistentStore ==
    ASSUME TypeOK, ImagesConsistent, NEW p \in Proc, Store(p)
    PROVE  ImagesConsistent'
<1>. USE DEF ImagesConsistent
<1>. USE EmptyRegistry DEF Missing, Torn, Holding
<1>a. /\ mem \in [Proc -> Registry] /\ mem[p] \in Registry
      /\ op[p].file \in File /\ op[p].deps \in SUBSET (File \X Keys)
      /\ todo[p] \subseteq File
  BY DEF TypeOK, Op
<1>b. ASSUME NEW r, Consistent(r), mem' = [mem EXCEPT ![p] = r]
      PROVE  \A q \in Proc : Consistent(mem'[q])
  <2>1. \A q \in Proc : mem'[q] = IF q = p THEN r ELSE mem[q]
    BY <1>a, <1>b
  <2>. QED
    BY <1>b, <2>1
<1>1. ASSUME Read(p) PROVE ImagesConsistent'
  BY <1>1, <1>b DEF Read
<1>2. CASE QuarantineRegistry(p)
  BY <1>2 DEF QuarantineRegistry
<1>3. CASE QuarantineArtifacts(p)
  <2>1. Consistent(Restarted(mem[p]))
    BY <1>a, RestartedKeeps
  <2>. QED
    BY <1>3, <1>b, <2>1 DEF QuarantineArtifacts
<1>4. CASE MakeLock(p) \/ SeeStale(p) \/ BreakStale(p) \/ PublishPanics(p)
             \/ StartGc(p) \/ EndGc(p) \/ Release(p)
  BY <1>4 DEF MakeLock, SeeStale, BreakStale, PublishPanics, StartGc, EndGc, Release
<1>5. CASE MutateAlloc(p)
  <2>1. Consistent(Alloc(mem[p], op[p].file))
    BY <1>5, <1>a, AllocKeepsConsistent DEF MutateAlloc
  <2>. QED
    BY <1>5, <1>b, <2>1 DEF MutateAlloc
<1>6. CASE MutatePublish(p)
  <2>1. Consistent(Publish(mem[p], op[p].file, op[p].deps))
    BY <1>a, PublishKeeps
  <2>. QED
    BY <1>6, <1>b, <2>1 DEF MutatePublish
<1>7. ASSUME NEW f \in File, DropEntry(p, f) PROVE \A q \in Proc : Consistent(mem'[q])
  <2>1. Consistent(Remove(mem[p], f))
    BY <1>a, RemoveKeeps
  <2>. QED
    BY <1>7, <1>b, <2>1 DEF DropEntry
<1>8. CASE MutateRemove(p)
  BY <1>8, <1>a, <1>7 DEF MutateRemove
<1>9. CASE GcEntry(p)
  BY <1>9, <1>a, <1>7 DEF GcEntry
<1>10. CASE TruncateTmp(p)
  BY <1>10 DEF TruncateTmp
<1>11. CASE WriteTmp(p)
  BY <1>11 DEF WriteTmp
<1>12. CASE RenameTmp(p)
  BY <1>12 DEF RenameTmp
<1>. QED
  BY <1>1, <1>2, <1>3, <1>4, <1>5, <1>6, <1>8, <1>9, <1>10, <1>11, <1>12
  DEF Store, Open, Reload

LEMMA ConsistentNext ==
    ASSUME TypeOK, ImagesConsistent, [Next]_vars
    PROVE  ImagesConsistent'
<1>1. ASSUME NEW p \in Proc, Caller(p) PROVE ImagesConsistent'
  BY <1>1 DEF ImagesConsistent, Caller, CallAlloc, StoreThenPublish, CallRemove,
              LoadCached, CallGc
<1>2. ASSUME NEW p \in Proc, TimeOut(p) \/ Refused(p) PROVE ImagesConsistent'
  <2>1. \A q \in Proc : mem'[q] \in {mem[q], Restarted(mem[q])}
    BY <1>2 DEF TimeOut, Refused, TypeOK
  <2>2. \A q \in Proc : Consistent(mem'[q])
    <3>1. ASSUME NEW q \in Proc PROVE Consistent(mem'[q])
      <4>1. mem[q] \in Registry /\ Consistent(mem[q])
        BY DEF ImagesConsistent, TypeOK
      <4>2. Consistent(Restarted(mem[q]))
        BY <4>1, RestartedKeeps
      <4>. QED
        BY <2>1, <4>1, <4>2
    <3>. QED
      BY <3>1
  <2>3. disk' = disk /\ tmp' = tmp
    BY <1>2 DEF TimeOut, Refused
  <2>. QED
    BY <2>2, <2>3 DEF ImagesConsistent
<1>3. ASSUME NEW p \in Proc, Crash(p) PROVE ImagesConsistent'
  <2>1. \A q \in Proc : mem'[q] = IF q = p THEN Empty ELSE mem[q]
    BY <1>3 DEF Crash, TypeOK
  <2>. QED
    BY <1>3, <2>1, EmptyRegistry DEF ImagesConsistent, Crash
<1>4. CASE Age
  BY <1>4 DEF ImagesConsistent, Age
<1>5. CASE Corrupt
  BY <1>5, EmptyRegistry DEF ImagesConsistent, Corrupt, Torn
<1>6. CASE UNCHANGED vars
  BY <1>6 DEF ImagesConsistent, vars
<1>. QED
  BY <1>1, <1>2, <1>3, <1>4, <1>5, <1>6, ConsistentStore DEF Next

\* A readable registry file never gives one key to two files, whatever crashes,
\* broken locks and lost updates it went through.
THEOREM KeysCorrect == Spec => []KeysNameOneFile
<1>1. Init => ImagesConsistent
  BY EmptyRegistry DEF Init, ImagesConsistent, Missing
<1>2. TypeOK /\ ImagesConsistent /\ [Next]_vars => ImagesConsistent'
  BY ConsistentNext
<1>3. ImagesConsistent => KeysNameOneFile
  BY DEF ImagesConsistent, KeysNameOneFile
<1>. QED
  BY <1>1, <1>2, <1>3, TypeCorrect, PTL DEF Spec

-----------------------------------------------------------------------------
(* The lock excludes, and a save is atomic, while no live holder's lock    *)
(* has been removed.                                                       *)

\* A process inside with_lock owns the lock directory; inside it, it is in a
\* call; and the temporary file is the holder's.
LockInv ==
    ~stolen =>
        \A p \in Proc :
            /\ Live(p) => lock = p
            /\ pc[p] \in {"acquire", "break", "reload", "mutate", "gc", "save",
                          "write", "rename", "release"} => op[p].kind # "none"
            /\ pc[p] = "closed" => op[p].kind = "none"
            /\ pc[p] = "write" => tmp.st = "torn"
            /\ pc[p] = "rename" => tmp.st = "ok"

DiskInv == ~stolen /\ faults.corrupt = 0 => disk.st # "torn"

LEMMA LockStore ==
    ASSUME TypeOK, LockInv, NEW p \in Proc, Store(p)
    PROVE  LockInv'
<1>. SUFFICES ASSUME ~stolen', NEW q \in Proc
              PROVE  /\ Live(q)' => lock' = q
                     /\ pc'[q] \in {"acquire", "break", "reload", "mutate", "gc", "save",
                                    "write", "rename", "release"} => op'[q].kind # "none"
                     /\ pc'[q] = "closed" => op'[q].kind = "none"
                     /\ pc'[q] = "write" => tmp'.st = "torn"
                     /\ pc'[q] = "rename" => tmp'.st = "ok"
  BY DEF LockInv
<1>0. ~stolen
  BY DEF Store, Open, Reload, Read, QuarantineRegistry, QuarantineArtifacts, MakeLock,
         SeeStale, BreakStale, RemoveLock, MutateAlloc, MutatePublish, PublishPanics,
         MutateRemove, StartGc, GcEntry, EndGc, TruncateTmp, WriteTmp, RenameTmp, Release
<1>. USE <1>0 DEF LockInv, Live, HoldPcs, TypeOK
<1>1. CASE Open(p)
  BY <1>1 DEF Open, Read, AfterRead
<1>2. CASE Reload(p)
  BY <1>2 DEF Reload, Read, AfterRead
<1>3. CASE QuarantineRegistry(p)
  BY <1>3 DEF QuarantineRegistry
<1>4. CASE QuarantineArtifacts(p)
  BY <1>4 DEF QuarantineArtifacts, AfterRead
<1>5. CASE MakeLock(p)
  BY <1>5 DEF MakeLock
<1>6. CASE SeeStale(p)
  BY <1>6 DEF SeeStale
<1>7. CASE BreakStale(p)
  BY <1>7 DEF BreakStale, RemoveLock
<1>8. CASE MutateAlloc(p)
  <2>1. op'[p].kind = op[p].kind /\ (q # p => op'[q] = op[q])
    <3>. DEFINE k == Alloc(mem[p], op[p].file).key[op[p].file]
    <3>1. op' = [op EXCEPT ![p] = [op[p] EXCEPT !.key = k]]
      BY <1>8 DEF MutateAlloc
    <3>2. [op[p] EXCEPT !.key = k].kind = op[p].kind
      BY OpKeyType
    <3>. HIDE DEF k
    <3>. QED
      BY <3>1, <3>2
  <2>. QED
    BY <1>8, <2>1 DEF MutateAlloc
<1>9. CASE MutatePublish(p) \/ MutateRemove(p) \/ StartGc(p) \/ GcEntry(p) \/ EndGc(p)
  BY <1>9 DEF MutatePublish, MutateRemove, StartGc, GcEntry, EndGc
<1>10. CASE PublishPanics(p)
  BY <1>10 DEF PublishPanics, RemoveLock
<1>11. CASE TruncateTmp(p)
  BY <1>11 DEF TruncateTmp, Torn
<1>12. CASE WriteTmp(p)
  BY <1>12 DEF WriteTmp, Holding
<1>13. CASE RenameTmp(p)
  BY <1>13 DEF RenameTmp
<1>14. CASE Release(p)
  BY <1>14 DEF Release, RemoveLock
<1>. QED
  BY <1>1, <1>2, <1>3, <1>4, <1>5, <1>6, <1>7, <1>8, <1>9, <1>10, <1>11, <1>12, <1>13,
     <1>14 DEF Store

LEMMA LockNext ==
    ASSUME TypeOK, LockInv, [Next]_vars
    PROVE  LockInv'
<1>. USE DEF LockInv, Live, HoldPcs, TypeOK
<1>1. ASSUME NEW p \in Proc, Caller(p) PROVE LockInv'
  <2>1. ASSUME NEW kind \in {"alloc", "publish", "remove", "gc"}, NEW f, NEW deps, NEW k,
               pc[p] = "idle", Call(p, kind, f, deps, k),
               UNCHANGED <<tmp, lock, stolen>>
        PROVE  LockInv'
    <3>1. /\ op'[p].kind = kind /\ pc'[p] = "acquire"
          /\ \A q \in Proc \ {p} : op'[q] = op[q] /\ pc'[q] = pc[q]
      BY <2>1 DEF Call
    <3>. QED
      BY <2>1, <3>1
  <2>2. ASSUME NEW f \in File, LoadCached(p, f) PROVE LockInv'
    BY <2>2 DEF LoadCached
  <2>. QED
    BY <1>1, <2>1, <2>2 DEF Caller, CallAlloc, StoreThenPublish, CallRemove, CallGc
<1>2. ASSUME NEW p \in Proc, TimeOut(p) PROVE LockInv'
  BY <1>2 DEF TimeOut
<1>3. ASSUME NEW p \in Proc, Refused(p) PROVE LockInv'
  BY <1>3 DEF Refused, AfterRead
<1>4. ASSUME NEW p \in Proc, Crash(p) PROVE LockInv'
  BY <1>4 DEF Crash, Idle
<1>5. CASE Age \/ Corrupt \/ UNCHANGED vars
  BY <1>5 DEF Age, Corrupt, vars
<1>. QED
  BY <1>1, <1>2, <1>3, <1>4, <1>5, LockStore DEF Next

\* At most one process is inside with_lock, across crashes and broken locks,
\* as long as every lock that was removed was its remover's own or a dead one.
THEOREM LockExcludes == Spec => []OneHolder
<1>1. Init => LockInv
  BY DEF Init, LockInv, Live, HoldPcs, Idle
<1>2. TypeOK /\ LockInv /\ [Next]_vars => LockInv'
  BY LockNext
<1>3. LockInv => OneHolder
  BY DEF LockInv, OneHolder
<1>. QED
  BY <1>1, <1>2, <1>3, TypeCorrect, PTL DEF Spec

\* Under that lock the file a save renames into place is complete, whenever a
\* process crashes and whatever the file system refuses.
THEOREM SaveIsAtomic == Spec => []NeverTorn
<1>1. Init => LockInv /\ DiskInv
  BY DEF Init, LockInv, Live, HoldPcs, Idle, DiskInv, Missing
<1>2. ASSUME TypeOK, LockInv, DiskInv, [Next]_vars PROVE DiskInv'
  <2>. USE <1>2 DEF DiskInv, LockInv, TypeOK
  <2>1. ASSUME NEW p \in Proc, RenameTmp(p) PROVE DiskInv'
    BY <2>1 DEF RenameTmp
  <2>2. ASSUME NEW p \in Proc, QuarantineRegistry(p) PROVE DiskInv'
    BY <2>2 DEF QuarantineRegistry, Missing
  <2>3. CASE Corrupt
    BY <2>3 DEF Corrupt
  <2>4. ASSUME NEW p \in Proc, Store(p), ~RenameTmp(p), ~QuarantineRegistry(p)
        PROVE  disk' = disk /\ (stolen => stolen') /\ faults' = faults
    BY <2>4 DEF Store, Open, Reload, Read, QuarantineArtifacts, MakeLock,
         SeeStale, BreakStale, RemoveLock, MutateAlloc, MutatePublish, PublishPanics,
         MutateRemove, StartGc, GcEntry, EndGc, TruncateTmp, WriteTmp, Release
  <2>5. ASSUME NEW p \in Proc, Caller(p) \/ TimeOut(p)
        PROVE  disk' = disk /\ stolen' = stolen /\ faults' = faults
    BY <2>5 DEF Caller, CallAlloc, StoreThenPublish, CallRemove, LoadCached, CallGc, TimeOut
  <2>6. ASSUME NEW p \in Proc, Refused(p) \/ Crash(p)
        PROVE  disk' = disk /\ stolen' = stolen /\ faults'.corrupt = faults.corrupt
    BY <2>6 DEF Refused, Crash
  <2>7. CASE Age \/ UNCHANGED vars
    BY <2>7 DEF Age, vars
  <2>. QED
    BY <2>1, <2>2, <2>3, <2>4, <2>5, <2>6, <2>7 DEF Next
<1>3. DiskInv => NeverTorn
  BY DEF DiskInv, NeverTorn
<1>. QED
  BY <1>1, <1>2, <1>3, LockNext, TypeCorrect, PTL DEF Spec

-----------------------------------------------------------------------------
(* What one step of a process leaves alone.                                *)

ProcStep(p) == Store(p) \/ Caller(p) \/ TimeOut(p) \/ Refused(p) \/ Crash(p)

\* A process changes only its own program counter, call and memory.
LEMMA OthersKept ==
    ASSUME TypeOK, NEW p \in Proc, NEW q \in Proc, q # p, ProcStep(p)
    PROVE  /\ pc'[q] = pc[q] /\ op'[q] = op[q] /\ mem'[q] = mem[q]
           /\ todo'[q] = todo[q] /\ modules'[q] = modules[q]
<1>. USE DEF TypeOK
<1>1. CASE Store(p)
  BY <1>1 DEF Store, Open, Reload, Read, QuarantineRegistry, QuarantineArtifacts, MakeLock,
         SeeStale, BreakStale, MutateAlloc, MutatePublish, PublishPanics, MutateRemove,
         StartGc, GcEntry, EndGc, TruncateTmp, WriteTmp, RenameTmp, Release, DropEntry
<1>2. CASE Caller(p)
  BY <1>2 DEF Caller, CallAlloc, StoreThenPublish, CallRemove, CallGc, LoadCached, Call
<1>3. CASE TimeOut(p) \/ Refused(p) \/ Crash(p)
  BY <1>3 DEF TimeOut, Refused, Crash
<1>. QED
  BY <1>1, <1>2, <1>3 DEF ProcStep

\* Only a rename and a quarantine replace the registry file.
LEMMA DiskSteps ==
    ASSUME NEW p \in Proc, ProcStep(p)
    PROVE  disk' = disk \/ RenameTmp(p) \/ QuarantineRegistry(p)
<1>1. CASE Store(p)
  BY <1>1 DEF Store, Open, Reload, Read, QuarantineArtifacts, MakeLock,
         SeeStale, BreakStale, MutateAlloc, MutatePublish, PublishPanics, MutateRemove,
         StartGc, GcEntry, EndGc, TruncateTmp, WriteTmp, Release
<1>2. CASE Caller(p)
  BY <1>2 DEF Caller, CallAlloc, StoreThenPublish, CallRemove, CallGc, LoadCached
<1>3. CASE TimeOut(p) \/ Refused(p) \/ Crash(p)
  BY <1>3 DEF TimeOut, Refused, Crash
<1>. QED
  BY <1>1, <1>2, <1>3 DEF ProcStep

\* Only a save touches the temporary file.
LEMMA TmpSteps ==
    ASSUME NEW p \in Proc, ProcStep(p)
    PROVE  tmp' = tmp \/ pc[p] \in {"save", "write", "rename"}
<1>1. CASE Store(p)
  BY <1>1 DEF Store, Open, Reload, Read, QuarantineRegistry, QuarantineArtifacts, MakeLock,
         SeeStale, BreakStale, MutateAlloc, MutatePublish, PublishPanics, MutateRemove,
         StartGc, GcEntry, EndGc, TruncateTmp, WriteTmp, RenameTmp, Release
<1>2. CASE Caller(p)
  BY <1>2 DEF Caller, CallAlloc, StoreThenPublish, CallRemove, CallGc, LoadCached
<1>3. CASE TimeOut(p) \/ Refused(p) \/ Crash(p)
  BY <1>3 DEF TimeOut, Refused, Crash
<1>. QED
  BY <1>1, <1>2, <1>3 DEF ProcStep

\* The history of stolen locks and of faults only grows.
LEMMA HistoryGrows ==
    ASSUME TypeOK, [Next]_vars
    PROVE  /\ ~stolen' => ~stolen
           /\ faults'.corrupt = 0 => faults.corrupt = 0
           /\ faults'.save = 0 => faults.save = 0
           /\ faults'.crash = 0 => faults.crash = 0
<1>. USE DEF TypeOK
<1>1. ASSUME NEW p \in Proc, Store(p) PROVE faults' = faults /\ (~stolen' => ~stolen)
  BY <1>1 DEF Store, Open, Reload, Read, QuarantineRegistry, QuarantineArtifacts, MakeLock,
         SeeStale, BreakStale, RemoveLock, MutateAlloc, MutatePublish, PublishPanics,
         MutateRemove, StartGc, GcEntry, EndGc, TruncateTmp, WriteTmp, RenameTmp, Release
<1>2. ASSUME NEW p \in Proc, Caller(p) \/ TimeOut(p) PROVE UNCHANGED <<faults, stolen>>
  BY <1>2 DEF Caller, CallAlloc, StoreThenPublish, CallRemove, CallGc, LoadCached, TimeOut
<1>3. ASSUME NEW p \in Proc, Refused(p) \/ Crash(p)
      PROVE  /\ stolen' = stolen /\ faults'.corrupt = faults.corrupt
             /\ faults'.save = 0 => faults.save = 0
             /\ faults'.crash = 0 => faults.crash = 0
  BY <1>3 DEF Refused, Crash
<1>4. CASE Age \/ Corrupt \/ UNCHANGED vars
  BY <1>4 DEF Age, Corrupt, vars
<1>. QED
  BY <1>1, <1>2, <1>3, <1>4 DEF Next

-----------------------------------------------------------------------------
(* No update is lost under the lock.                                       *)

\* What the holder renames into place is its own copy; a readable registry it
\* found is the one it changes, and nobody replaces it meanwhile.
UpdateOf(p) ==
    /\ pc[p] = "gc" => op[p].kind = "gc"
    /\ pc[p] = "rename" => tmp = Holding(mem[p])
    /\ Live(p) /\ pc[p] \in {"quarantine", "restart"} => disk.st # "ok"
    /\ /\ pc[p] \in {"mutate", "save", "write", "rename"}
       /\ op[p].kind \in {"alloc", "publish"}
       /\ disk.st = "ok"
       => \A f \in Entries(disk.reg) : mem[p].key[f] = disk.reg.key[f]

UpdateInv == ~stolen => \A p \in Proc : UpdateOf(p)

\* An allocation or a publication changes no entry that exists.
LEMMA AllocKeepsEntries ==
    ASSUME NEW r \in Registry, NEW f \in File, NEW g \in Entries(r)
    PROVE  Alloc(r, f).key[g] = r.key[g]
<1>1. CASE f \in Entries(r)
  BY <1>1 DEF Alloc
<1>2. CASE f \notin Entries(r)
  <2>1. Alloc(r, f).key = [r.key EXCEPT ![f] = TakenKey(r)]
    BY <1>2 DEF Alloc, Registry
  <2>. QED
    BY <1>2, <2>1 DEF Registry, Entries
<1>. QED
  BY <1>1, <1>2

LEMMA PublishKeepsKeys ==
    ASSUME NEW r \in Registry, NEW f, NEW deps
    PROVE  Publish(r, f, deps).key = r.key
  BY DEF Publish, Registry

\* Of the process that takes the step.
LEMMA UpdateOwn ==
    ASSUME TypeOK, LockInv, UpdateInv, ~stolen, NEW p \in Proc, ProcStep(p)
    PROVE  UpdateOf(p)'
<1>. USE DEF TypeOK, UpdateInv, UpdateOf, Live, HoldPcs
<1>a. /\ mem[p] \in Registry /\ op[p].file \in File /\ op[p].deps \in SUBSET (File \X Keys)
      /\ op[p].kind \in {"alloc", "publish", "remove", "gc", "none"}
  BY DEF Op
<1>b. Entries(Empty) = {}
  BY DEF Entries, Empty
<1>1. CASE Open(p) \/ Reload(p)
  BY <1>1, <1>b DEF Open, Reload, Read, AfterRead
<1>2. CASE QuarantineRegistry(p)
  BY <1>2 DEF QuarantineRegistry, Missing
<1>3. CASE QuarantineArtifacts(p)
  BY <1>3 DEF QuarantineArtifacts, AfterRead
<1>4. CASE MakeLock(p) \/ SeeStale(p) \/ BreakStale(p) \/ PublishPanics(p) \/ StartGc(p)
           \/ GcEntry(p) \/ RenameTmp(p) \/ TimeOut(p)
  BY <1>4 DEF MakeLock, SeeStale, BreakStale, PublishPanics, StartGc, GcEntry, RenameTmp,
              TimeOut
<1>5. CASE EndGc(p)
  BY <1>5 DEF EndGc
<1>6. CASE MutateAlloc(p)
  <2>1. \A g \in Entries(mem[p]) : Alloc(mem[p], op[p].file).key[g] = mem[p].key[g]
    BY <1>a, AllocKeepsEntries
  <2>2. mem'[p] = Alloc(mem[p], op[p].file) /\ pc'[p] = "save" /\ disk' = disk
    BY <1>6 DEF MutateAlloc
  <2>3. ASSUME disk.st = "ok", NEW f \in Entries(disk.reg)
        PROVE  mem'[p].key[f] = disk.reg.key[f]
    <3>1. mem[p].key[f] = disk.reg.key[f] /\ f \in Entries(mem[p])
      BY <1>6, <2>3 DEF MutateAlloc, Entries
    <3>. QED
      BY <2>1, <2>2, <3>1
  <2>. QED
    BY <2>2, <2>3
<1>7. CASE MutatePublish(p)
  <2>1. mem'[p].key = mem[p].key
    BY <1>7, <1>a, PublishKeepsKeys DEF MutatePublish
  <2>. QED
    BY <1>7, <2>1 DEF MutatePublish
<1>8. CASE MutateRemove(p)
  BY <1>8 DEF MutateRemove
<1>9. CASE TruncateTmp(p)
  BY <1>9 DEF TruncateTmp
<1>10. CASE WriteTmp(p)
  BY <1>10 DEF WriteTmp, LockInv
<1>11. CASE Release(p)
  BY <1>11 DEF Release
<1>12. CASE Caller(p)
  BY <1>12 DEF Caller, CallAlloc, StoreThenPublish, CallRemove, CallGc, LoadCached, Call
<1>13. CASE Crash(p)
  BY <1>13 DEF Crash
<1>r. CASE Refused(p)
  BY <1>r DEF Refused, AfterRead
<1>. QED
  BY <1>r, <1>1, <1>2, <1>3, <1>4, <1>5, <1>6, <1>7, <1>8, <1>9, <1>10, <1>11, <1>12, <1>13
  DEF ProcStep, Store

\* Of the others: a save needs the lock they would hold.
LEMMA UpdateOthers ==
    ASSUME TypeOK, LockInv, UpdateInv, ~stolen, NEW p \in Proc, ProcStep(p),
           NEW q \in Proc, q # p
    PROVE  UpdateOf(q)'
<1>1. /\ pc'[q] = pc[q] /\ op'[q] = op[q] /\ mem'[q] = mem[q]
  BY OthersKept
<1>2. /\ pc[p] \in {"save", "write", "rename"} => Live(p)
      /\ pc[q] \in {"mutate", "gc", "save", "write", "rename"} => Live(q)
      /\ ~(Live(p) /\ Live(q))
  BY DEF LockInv, Live, HoldPcs
<1>3. pc[q] = "rename" => tmp' = tmp
  BY <1>2, TmpSteps
<1>4. CASE disk' = disk
  BY <1>1, <1>3, <1>4 DEF UpdateInv, UpdateOf, Live
<1>5. CASE RenameTmp(p)
  <2>1. Live(p)
    BY <1>2, <1>5 DEF RenameTmp
  <2>. QED
    BY <1>1, <1>2, <2>1 DEF UpdateInv, UpdateOf, Live
<1>6. CASE QuarantineRegistry(p)
  BY <1>1, <1>3, <1>6 DEF UpdateInv, UpdateOf, Live, QuarantineRegistry, Missing
<1>. QED
  BY <1>4, <1>5, <1>6, DiskSteps

LEMMA UpdateNext ==
    ASSUME TypeOK, LockInv, UpdateInv, [Next]_vars
    PROVE  UpdateInv'
<1>. SUFFICES ASSUME ~stolen', NEW q \in Proc PROVE UpdateOf(q)'
  BY DEF UpdateInv
<1>0. ~stolen
  BY HistoryGrows
<1>1. CASE Age \/ Corrupt \/ UNCHANGED vars
  BY <1>0, <1>1 DEF Age, Corrupt, vars, UpdateInv, UpdateOf, Live, Torn
<1>2. ASSUME NEW p \in Proc, ProcStep(p) PROVE UpdateOf(q)'
  BY <1>0, <1>2, UpdateOwn, UpdateOthers
<1>. QED
  BY <1>1, <1>2 DEF Next, ProcStep

\* A rename never drops an entry another process saved: what a mutation under
\* the lock writes is what it read there and its own change, for any constants,
\* faults included (with_lock, reload, save).
THEOREM NoUpdateIsLost == Spec => NoLostEntry
<1>1. Init => LockInv /\ UpdateInv
  BY DEF Init, LockInv, UpdateInv, UpdateOf, Live, HoldPcs, Idle
<1>2. ASSUME TypeOK, LockInv, UpdateInv, [Next]_vars
      PROVE  [\A p \in Proc :
                pc[p] = "rename" /\ pc'[p] = "release" /\ ~stolen
                   /\ disk.st = "ok" /\ disk'.st = "ok"
                   /\ op[p].kind \in {"alloc", "publish"}
                => \A f \in Entries(disk.reg) : disk'.reg.key[f] = disk.reg.key[f]]_vars
  <2>. SUFFICES ASSUME NEW p \in Proc, Next,
                       pc[p] = "rename", pc'[p] = "release", ~stolen,
                       disk.st = "ok", disk'.st = "ok",
                       op[p].kind \in {"alloc", "publish"},
                       NEW f \in Entries(disk.reg)
                PROVE  disk'.reg.key[f] = disk.reg.key[f]
    BY <1>2
  <2>1. mem[p].key[f] = disk.reg.key[f] /\ tmp = Holding(mem[p])
    BY <1>2 DEF UpdateInv, UpdateOf
  <2>2. PICK q \in Proc : ProcStep(q)
    BY DEF Next, Age, Corrupt, ProcStep
  <2>3. p = q
    BY <1>2, <2>2, OthersKept
  <2>4. CASE disk' = disk
    BY <2>4
  <2>5. CASE RenameTmp(p)
    BY <2>1, <2>5 DEF RenameTmp, Holding
  <2>6. CASE QuarantineRegistry(p)
    BY <2>6 DEF QuarantineRegistry
  <2>. QED
    BY <2>2, <2>3, <2>4, <2>5, <2>6, DiskSteps
<1>. QED
  BY <1>1, <1>2, LockNext, UpdateNext, TypeCorrect, PTL DEF Spec, NoLostEntry

-----------------------------------------------------------------------------
(* A file that nobody removes keeps its key, as long as no live holder's   *)
(* lock is removed, nothing is refused and nobody damages the registry.    *)

\* The files no remove and no gc may drop.
Kept == File \ (Removable \cup Junk)

Calm == ~stolen /\ faults.corrupt = 0 /\ faults.save = 0

OnDisk(f, k) == disk.st = "ok" /\ disk.reg.key[f] = k

\* What each call was made with: a remove of a removable file, a gc of junk, and
\* a publish under the key the process holds.
CallInv ==
    \A p \in Proc :
        /\ op[p].kind = "remove" => op[p].file \in Removable
        /\ pc[p] = "gc" => op[p].kind = "gc" /\ todo[p] \subseteq Junk
        /\ op[p].kind = "publish" =>
              Held(p, op[p].file) /\ op[p].key = modules[p][op[p].file]
        /\ pc[p] = "idle" => op[p].kind = "none"
        /\ pc[p] = "panicked" => op[p].kind = "publish"

\* The holder's copy has every kept entry of the file it is about to replace.
CopyOf(p) ==
    pc[p] \in {"mutate", "gc", "save", "write", "rename"} /\ disk.st = "ok" =>
        \A f \in Kept : f \in Entries(disk.reg) => mem[p].key[f] = disk.reg.key[f]

\* The key an allocation returns is in the copy, then in the file.
PromiseOf(p) ==
    op[p].kind = "alloc" =>
        /\ pc[p] \in {"save", "write", "rename"} =>
              op[p].key # NoKey /\ mem[p].key[op[p].file] = op[p].key
        /\ pc[p] = "release" /\ op[p].file \in Kept =>
              op[p].key # NoKey /\ OnDisk(op[p].file, op[p].key)

KeptOf(p) ==
    /\ pc[p] \notin {"quarantine", "restart"}
    /\ \A f \in Kept : Held(p, f) => OnDisk(f, modules[p][f])
    /\ CopyOf(p)
    /\ PromiseOf(p)
    /\ pc[p] = "panicked" => op[p].file \notin Kept

KeptInv ==
    Calm =>
        /\ \A f \in Kept : art[f] # NoKey => OnDisk(f, art[f])
        /\ \A p \in Proc : KeptOf(p)

LEMMA CallOwn ==
    ASSUME TypeOK, CallInv, NEW p \in Proc, ProcStep(p)
    PROVE  /\ op'[p].kind = "remove" => op'[p].file \in Removable
           /\ pc'[p] = "gc" => op'[p].kind = "gc" /\ todo'[p] \subseteq Junk
           /\ op'[p].kind = "publish" =>
                 modules'[p][op'[p].file] # NoKey
                    /\ op'[p].key = modules'[p][op'[p].file]
           /\ pc'[p] = "idle" => op'[p].kind = "none"
           /\ pc'[p] = "panicked" => op'[p].kind = "publish"
<1>. USE DEF TypeOK, CallInv, Held
<1>a. op[p].kind \in {"alloc", "publish", "remove", "gc", "none"} /\ op[p].file \in File
  BY DEF Op
<1>1. CASE Open(p) \/ Reload(p)
  BY <1>1 DEF Open, Reload, Read, AfterRead
<1>2. CASE QuarantineRegistry(p) \/ QuarantineArtifacts(p)
  BY <1>2 DEF QuarantineRegistry, QuarantineArtifacts, AfterRead
<1>3. CASE MakeLock(p) \/ SeeStale(p) \/ BreakStale(p) \/ PublishPanics(p)
           \/ RenameTmp(p) \/ TimeOut(p) \/ EndGc(p) \/ MutateRemove(p)
           \/ TruncateTmp(p) \/ WriteTmp(p) \/ MutatePublish(p)
  BY <1>3 DEF MakeLock, SeeStale, BreakStale, PublishPanics, RenameTmp,
              TimeOut, EndGc, MutateRemove, TruncateTmp, WriteTmp, MutatePublish
<1>4. CASE StartGc(p) \/ GcEntry(p)
  BY <1>4 DEF StartGc, GcEntry
<1>6. CASE MutateAlloc(p)
  <2>. DEFINE k == Alloc(mem[p], op[p].file).key[op[p].file]
  <2>1. op' = [op EXCEPT ![p] = [op[p] EXCEPT !.key = k]]
    BY <1>6 DEF MutateAlloc
  <2>2. op'[p].kind = "alloc" /\ pc'[p] = "save"
    BY <1>6, <2>1, OpKeyType DEF MutateAlloc
  <2>. QED
    BY <2>2
<1>11. CASE Release(p)
  BY <1>11 DEF Release, Idle
<1>12. CASE Caller(p)
  BY <1>12 DEF Caller, CallAlloc, StoreThenPublish, CallRemove, CallGc, LoadCached, Call
<1>13. CASE Crash(p)
  BY <1>13 DEF Crash, Idle
<1>14. CASE Refused(p)
  BY <1>14 DEF Refused, AfterRead
<1>. QED
  BY <1>1, <1>2, <1>3, <1>4, <1>6, <1>11, <1>12, <1>13, <1>14 DEF ProcStep, Store

LEMMA CallNext ==
    ASSUME TypeOK, CallInv, [Next]_vars
    PROVE  CallInv'
<1>1. CASE Age \/ Corrupt \/ UNCHANGED vars
  BY <1>1 DEF Age, Corrupt, vars, CallInv, Held
<1>2. ASSUME NEW p \in Proc, ProcStep(p) PROVE CallInv'
  BY <1>2, CallOwn, OthersKept DEF CallInv, Held
<1>. QED
  BY <1>1, <1>2 DEF Next, ProcStep

LEMMA RemoveKeepsOthers ==
    ASSUME NEW r \in Registry, NEW f \in File, NEW g \in File, g # f
    PROVE  Remove(r, f).key[g] = r.key[g]
<1>1. CASE Removes(r, f)
  <2>1. Drop(r, f).key = [r.key EXCEPT ![f] = NoKey]
    BY DEF Drop, Registry
  <2>. QED
    BY <1>1, <2>1 DEF Remove, Registry
<1>2. CASE ~Removes(r, f)
  BY <1>2 DEF Remove
<1>. QED
  BY <1>1, <1>2

\* What a mutation does to the copy never touches a kept file's entry.
LEMMA CopyStays ==
    ASSUME TypeOK, CallInv, NEW p \in Proc, NEW f \in Kept, f \in Entries(mem[p]),
           \/ MutateAlloc(p) \/ MutatePublish(p) \/ MutateRemove(p) \/ GcEntry(p)
    PROVE  mem'[p].key[f] = mem[p].key[f]
<1>a. /\ mem \in [Proc -> Registry] /\ mem[p] \in Registry /\ op[p].file \in File
      /\ f \in File /\ f \notin Removable /\ f \notin Junk
  BY DEF TypeOK, Op, Kept
<1>1. CASE MutateAlloc(p)
  BY <1>1, <1>a, AllocKeepsEntries DEF MutateAlloc
<1>2. CASE MutatePublish(p)
  BY <1>2, <1>a, PublishKeepsKeys DEF MutatePublish
<1>3. ASSUME NEW g \in File, g # f, DropEntry(p, g)
      PROVE  mem'[p].key[f] = mem[p].key[f]
  BY <1>3, <1>a, RemoveKeepsOthers DEF DropEntry
<1>4. CASE MutateRemove(p)
  <2>1. op[p].file # f
    BY <1>4, <1>a DEF MutateRemove, CallInv
  <2>. QED
    BY <1>4, <1>a, <1>3, <2>1 DEF MutateRemove
<1>5. CASE GcEntry(p)
  <2>1. \A g \in todo[p] : g \in File /\ g # f
    BY <1>5, <1>a DEF GcEntry, CallInv
  <2>. QED
    BY <1>5, <1>3, <2>1 DEF GcEntry
<1>. QED
  BY <1>1, <1>2, <1>4, <1>5

\* A kept file's entry stays in the registry file under its key.
LEMMA EntryStays ==
    ASSUME TypeOK, UpdateInv, KeptInv, Calm, NEW p \in Proc, ProcStep(p),
           NEW f \in Kept, NEW k, k # NoKey, OnDisk(f, k)
    PROVE  OnDisk(f, k)'
<1>a. f \in File /\ f \in Entries(disk.reg)
  BY DEF Kept, OnDisk, Entries
<1>1. CASE disk' = disk
  BY <1>1 DEF OnDisk
<1>2. CASE RenameTmp(p)
  <2>1. tmp = Holding(mem[p]) /\ mem[p].key[f] = k
    BY <1>2, <1>a DEF RenameTmp, UpdateInv, UpdateOf, KeptInv, KeptOf, CopyOf, Calm, OnDisk
  <2>. QED
    BY <1>2, <2>1 DEF RenameTmp, Holding, OnDisk
<1>3. CASE QuarantineRegistry(p)
  BY <1>3 DEF QuarantineRegistry, KeptInv, KeptOf
<1>. QED
  BY <1>1, <1>2, <1>3, DiskSteps

LEMMA KeptOthers ==
    ASSUME TypeOK, LockInv, UpdateInv, KeptInv, Calm, NEW p \in Proc, ProcStep(p),
           NEW q \in Proc, q # p
    PROVE  KeptOf(q)'
<1>1. /\ pc'[q] = pc[q] /\ op'[q] = op[q] /\ mem'[q] = mem[q] /\ modules'[q] = modules[q]
  BY OthersKept
<1>2. /\ pc[p] = "rename" => Live(p)
      /\ pc[q] \in {"mutate", "gc", "save", "write", "rename", "release"} => Live(q)
      /\ ~(Live(p) /\ Live(q))
  BY DEF LockInv, Live, HoldPcs, Calm
<1>3. KeptOf(q)
  BY DEF KeptInv
<1>4. ASSUME NEW f \in Kept, Held(q, f) PROVE OnDisk(f, modules[q][f])'
  BY <1>1, <1>3, <1>4, EntryStays DEF KeptOf, Held
<1>5. ASSUME pc[q] \in {"mutate", "gc", "save", "write", "rename", "release"}
      PROVE  disk' = disk
  BY <1>2, <1>3, <1>5, DiskSteps DEF RenameTmp, QuarantineRegistry, KeptInv, KeptOf
<1>6. CopyOf(q)'
  BY <1>1, <1>3, <1>5 DEF KeptOf, CopyOf
<1>7. PromiseOf(q)'
  BY <1>1, <1>3, <1>5 DEF KeptOf, PromiseOf, OnDisk
<1>. QED
  BY <1>1, <1>3, <1>4, <1>6, <1>7 DEF KeptOf, Held

\* Of the process that takes the step: its copy and its promise ...
LEMMA CopyOwn ==
    ASSUME TypeOK, LockInv, CallInv, KeptInv, Calm, NEW p \in Proc, ProcStep(p)
    PROVE  CopyOf(p)'
<1>. USE DEF TypeOK, CopyOf
<1>a. CopyOf(p) /\ pc[p] \notin {"quarantine", "restart"}
  BY DEF KeptInv, KeptOf
<1>1. CASE Open(p) \/ Reload(p)
  BY <1>1 DEF Open, Reload, Read, AfterRead
<1>2. CASE QuarantineRegistry(p) \/ QuarantineArtifacts(p)
  BY <1>2, <1>a DEF QuarantineRegistry, QuarantineArtifacts
<1>3. CASE MakeLock(p) \/ SeeStale(p) \/ BreakStale(p) \/ PublishPanics(p)
           \/ RenameTmp(p) \/ TimeOut(p) \/ Refused(p) \/ Release(p) \/ Crash(p)
  BY <1>3, <1>a DEF MakeLock, SeeStale, BreakStale, PublishPanics, RenameTmp, TimeOut,
              Refused, Release, Crash
<1>4. CASE StartGc(p) \/ EndGc(p) \/ TruncateTmp(p) \/ WriteTmp(p)
  BY <1>4, <1>a DEF StartGc, EndGc, TruncateTmp, WriteTmp
<1>5. CASE MutateAlloc(p) \/ MutatePublish(p) \/ MutateRemove(p) \/ GcEntry(p)
  <2>1. disk' = disk /\ pc[p] \in {"mutate", "gc"}
    BY <1>5 DEF MutateAlloc, MutatePublish, MutateRemove, GcEntry
  <2>2. ASSUME disk.st = "ok", NEW f \in Kept, f \in Entries(disk.reg)
        PROVE  mem'[p].key[f] = disk.reg.key[f]
    <3>1. mem[p].key[f] = disk.reg.key[f] /\ f \in Entries(mem[p])
      BY <1>a, <2>1, <2>2 DEF Entries
    <3>. QED
      BY <1>5, <3>1, CopyStays
  <2>. QED
    BY <2>1, <2>2
<1>6. CASE Caller(p)
  BY <1>6 DEF Caller, CallAlloc, StoreThenPublish, CallRemove, CallGc, LoadCached, Call
<1>. QED
  BY <1>1, <1>2, <1>3, <1>4, <1>5, <1>6 DEF ProcStep, Store

LEMMA PromiseOwn ==
    ASSUME TypeOK, LockInv, UpdateInv, CallInv, KeptInv, Calm, NEW p \in Proc, ProcStep(p),
           ~Refused(p)
    PROVE  PromiseOf(p)'
<1>. USE DEF TypeOK, PromiseOf
<1>a. /\ PromiseOf(p) /\ pc[p] \notin {"quarantine", "restart"}
      /\ mem[p] \in Registry /\ op[p].file \in File
  BY DEF KeptInv, KeptOf, Op
<1>1. CASE Open(p) \/ Reload(p)
  BY <1>1 DEF Open, Reload, Read, AfterRead
<1>2. CASE QuarantineRegistry(p) \/ QuarantineArtifacts(p)
  BY <1>2, <1>a DEF QuarantineRegistry, QuarantineArtifacts
<1>3. CASE MakeLock(p) \/ SeeStale(p) \/ BreakStale(p) \/ PublishPanics(p)
           \/ TimeOut(p) \/ Release(p) \/ Crash(p)
  BY <1>3 DEF MakeLock, SeeStale, BreakStale, PublishPanics, TimeOut, Release, Crash
<1>4. CASE TruncateTmp(p) \/ WriteTmp(p)
  BY <1>4, <1>a DEF TruncateTmp, WriteTmp
<1>5. CASE MutatePublish(p) \/ MutateRemove(p) \/ GcEntry(p) \/ StartGc(p) \/ EndGc(p)
  BY <1>5 DEF MutatePublish, MutateRemove, GcEntry, StartGc, EndGc, CallInv
<1>6. CASE MutateAlloc(p)
  <2>. DEFINE k == Alloc(mem[p], op[p].file).key[op[p].file]
  <2>1. op' = [op EXCEPT ![p] = [op[p] EXCEPT !.key = k]]
    BY <1>6 DEF MutateAlloc
  <2>2. op'[p].key = k /\ op'[p].file = op[p].file /\ pc'[p] = "save"
    BY <1>6, <2>1 DEF MutateAlloc, Op
  <2>3. mem'[p].key[op[p].file] = k
    BY <1>6 DEF MutateAlloc
  <2>4. k # NoKey
    BY <1>6, <1>a, AllocKeepsRegistry DEF MutateAlloc, Keys
  <2>. QED
    BY <2>2, <2>3, <2>4
<1>7. CASE RenameTmp(p)
  BY <1>7, <1>a DEF RenameTmp, UpdateInv, UpdateOf, Holding, Calm, OnDisk
<1>8. CASE Caller(p)
  BY <1>8 DEF Caller, CallAlloc, StoreThenPublish, CallRemove, CallGc, LoadCached, Call
<1>. QED
  BY <1>1, <1>2, <1>3, <1>4, <1>5, <1>6, <1>7, <1>8 DEF ProcStep, Store

\* ... the keys it works under, and the publish that finds its entry.
LEMMA HeldOwn ==
    ASSUME TypeOK, UpdateInv, CallInv, KeptInv, Calm, NEW p \in Proc, ProcStep(p),
           NEW f \in Kept, Held(p, f)'
    PROVE  OnDisk(f, modules[p][f])'
<1>. USE DEF TypeOK, Held
<1>a. f \in File
  BY DEF Kept
<1>b. Held(p, f) => OnDisk(f, modules[p][f])
  BY DEF KeptInv, KeptOf
<1>1. CASE modules'[p][f] = modules[p][f]
  BY <1>1, <1>b, EntryStays
<1>2. CASE Release(p)
  <2>1. CASE op[p].kind = "alloc" /\ op[p].file = f
    <3>1. modules'[p][f] = op[p].key /\ op[p].key # NoKey /\ OnDisk(f, op[p].key)
      BY <1>2, <1>a, <2>1 DEF Release, KeptInv, KeptOf, PromiseOf
    <3>. QED
      BY <3>1, EntryStays
  <2>2. CASE ~(op[p].kind = "alloc" /\ op[p].file = f)
    BY <1>1, <1>2, <1>a, <2>2 DEF Release
  <2>. QED
    BY <2>1, <2>2
<1>3. ASSUME NEW g \in File, LoadCached(p, g) PROVE OnDisk(f, modules[p][f])'
  <2>1. modules'[p][f] = modules[p][f] \/ OnDisk(f, modules'[p][f])
    BY <1>3, <1>a DEF LoadCached, OnDisk
  <2>. QED
    BY <1>1, <2>1, EntryStays
<1>4. CASE Crash(p)
  BY <1>4, <1>a DEF Crash, NoModules
<1>5. CASE Store(p) /\ ~Release(p)
  BY <1>1, <1>5 DEF Store, Open, Reload, Read, QuarantineRegistry, QuarantineArtifacts,
         MakeLock, SeeStale, BreakStale, MutateAlloc, MutatePublish, PublishPanics,
         MutateRemove, StartGc, GcEntry, EndGc, TruncateTmp, WriteTmp, RenameTmp
<1>6. CASE TimeOut(p) \/ Refused(p)
  BY <1>1, <1>6 DEF TimeOut, Refused
<1>7. CASE Caller(p)
  BY <1>1, <1>3, <1>7 DEF Caller, CallAlloc, StoreThenPublish, CallRemove, CallGc
<1>. QED
  BY <1>2, <1>3, <1>4, <1>5, <1>6, <1>7 DEF ProcStep

LEMMA KeptOwn ==
    ASSUME TypeOK, LockInv, DiskInv, UpdateInv, CallInv, KeptInv, Calm,
           NEW p \in Proc, ProcStep(p), ~Refused(p)
    PROVE  KeptOf(p)'
<1>a. KeptOf(p)
  BY DEF KeptInv
<1>1. pc'[p] \notin {"quarantine", "restart"}
  <2>1. disk.st # "torn"
    BY DEF DiskInv, Calm
  <2>2. ASSUME Read(p) PROVE pc'[p] \notin {"quarantine", "restart"}
    BY <2>1, <2>2 DEF Read, AfterRead, TypeOK
  <2>3. CASE Store(p)
    BY <2>2, <2>3, <1>a DEF TypeOK, Store, Open, Reload, QuarantineRegistry,
         QuarantineArtifacts, MakeLock, SeeStale, BreakStale, MutateAlloc, MutatePublish,
         PublishPanics, MutateRemove, StartGc, GcEntry, EndGc, TruncateTmp, WriteTmp,
         RenameTmp, Release, AfterRead, KeptOf
  <2>4. CASE Caller(p)
    BY <2>4 DEF TypeOK, Caller, CallAlloc, StoreThenPublish, CallRemove, CallGc,
                LoadCached, Call
  <2>5. CASE TimeOut(p) \/ Crash(p)
    BY <2>5 DEF TypeOK, TimeOut, Crash
  <2>. QED
    BY <2>3, <2>4, <2>5 DEF ProcStep
<1>2. ASSUME pc'[p] = "panicked" PROVE op'[p].file \notin Kept
  <2>1. CASE PublishPanics(p)
    <3>. DEFINE f == op[p].file
                k == modules[p][f]
    <3>1. k # NoKey /\ op[p].key = k /\ f \in File
      BY <2>1 DEF PublishPanics, CallInv, Held, TypeOK, Op
    <3>2. ASSUME f \in Kept PROVE mem[p].key[f] = k
      BY <1>a, <2>1, <3>1, <3>2
      DEF PublishPanics, KeptOf, CopyOf, OnDisk, Held, Entries
    <3>. QED
      BY <2>1, <3>1, <3>2 DEF PublishPanics, PublishFits, TypeOK
  <2>2. CASE pc[p] = "panicked" /\ op'[p] = op[p]
    BY <1>a, <2>2 DEF KeptOf
  <2>3. CASE Store(p) /\ ~PublishPanics(p)
    BY <1>2, <2>2, <2>3 DEF TypeOK, Store, Open, Reload, Read, QuarantineRegistry,
         QuarantineArtifacts, MakeLock, SeeStale, BreakStale, MutateAlloc, MutatePublish,
         MutateRemove, StartGc, GcEntry, EndGc, TruncateTmp, WriteTmp,
         RenameTmp, Release, AfterRead
  <2>4. CASE Caller(p) \/ TimeOut(p) \/ Crash(p)
    BY <1>2, <2>2, <2>4 DEF TypeOK, Caller, CallAlloc, StoreThenPublish, CallRemove,
                CallGc, LoadCached, Call, TimeOut, Crash
  <2>. QED
    BY <2>1, <2>3, <2>4 DEF ProcStep
<1>. QED
  BY <1>1, <1>2, CopyOwn, PromiseOwn, HeldOwn DEF KeptOf

\* An artifact on disk carries the key of its file's entry.
LEMMA ArtifactStays ==
    ASSUME TypeOK, UpdateInv, CallInv, KeptInv, Calm, NEW p \in Proc, ProcStep(p),
           NEW f \in Kept, art'[f] # NoKey
    PROVE  OnDisk(f, art[f])'
<1>. USE DEF TypeOK
<1>a. f \in File /\ (art[f] # NoKey => OnDisk(f, art[f]))
  BY DEF Kept, KeptInv
<1>1. CASE art'[f] = art[f]
  BY <1>1, <1>a, EntryStays
<1>2. ASSUME NEW g \in File, StoreThenPublish(p, g) PROVE OnDisk(f, art[f])'
  <2>1. CASE g = f /\ art'[f] = modules[p][f]
    <3>1. OnDisk(f, modules[p][f])
      BY <1>2, <2>1 DEF StoreThenPublish, KeptInv, KeptOf
    <3>. QED
      BY <2>1, <3>1, EntryStays
  <2>2. CASE art'[f] = art[f]
    BY <1>1, <2>2
  <2>. QED
    BY <1>2, <1>a, <2>1, <2>2 DEF StoreThenPublish
<1>3. CASE QuarantineArtifacts(p)
  BY <1>3, <1>a DEF QuarantineArtifacts
<1>4. ASSUME NEW g, DropEntry(p, g) PROVE OnDisk(f, art[f])'
  <2>1. art'[f] = art[f]
    BY <1>4, <1>a DEF DropEntry
  <2>. QED
    BY <1>1, <2>1
<1>5. CASE Store(p) /\ ~QuarantineArtifacts(p)
  BY <1>1, <1>4, <1>5 DEF Store, Open, Reload, Read, QuarantineRegistry,
         MakeLock, SeeStale, BreakStale, MutateAlloc, MutatePublish, PublishPanics,
         MutateRemove, StartGc, GcEntry, EndGc, TruncateTmp, WriteTmp, RenameTmp, Release
<1>6. CASE Caller(p) \/ TimeOut(p) \/ Refused(p) \/ Crash(p)
  BY <1>1, <1>2, <1>6 DEF Caller, CallAlloc, CallRemove, CallGc, LoadCached, TimeOut,
         Refused, Crash
<1>. QED
  BY <1>3, <1>5, <1>6 DEF ProcStep

LEMMA KeptNext ==
    ASSUME TypeOK, LockInv, DiskInv, UpdateInv, CallInv, KeptInv, [Next]_vars
    PROVE  KeptInv'
<1>. SUFFICES ASSUME Calm'
              PROVE  /\ \A f \in Kept : art'[f] # NoKey => OnDisk(f, art[f])'
                     /\ \A q \in Proc : KeptOf(q)'
  BY DEF KeptInv
<1>0. Calm
  BY HistoryGrows DEF Calm
<1>1. CASE Age \/ UNCHANGED vars
  BY <1>0, <1>1 DEF Age, vars, KeptInv, KeptOf, CopyOf, PromiseOf, OnDisk, Held
<1>2. ~Corrupt
  BY DEF Corrupt, Calm, TypeOK
<1>3. ASSUME NEW p \in Proc, ProcStep(p) PROVE ~Refused(p)
  BY DEF Refused, Calm, TypeOK
<1>4. ASSUME NEW p \in Proc, ProcStep(p), NEW q \in Proc PROVE KeptOf(q)'
  BY <1>0, <1>3, <1>4, KeptOwn, KeptOthers
<1>5. ASSUME NEW p \in Proc, ProcStep(p), NEW f \in Kept, art'[f] # NoKey
      PROVE  OnDisk(f, art[f])'
  BY <1>0, <1>5, ArtifactStays
<1>. QED
  BY <1>1, <1>2, <1>4, <1>5 DEF Next, ProcStep

LEMMA InitKeys == Init => LockInv /\ DiskInv /\ UpdateInv /\ CallInv /\ KeptInv
<1>. SUFFICES ASSUME Init PROVE LockInv /\ DiskInv /\ UpdateInv /\ CallInv /\ KeptInv
  OBVIOUS
<1>1. \A f \in File : art[f] = NoKey
  BY DEF Init
<1>2. \A p \in Proc : pc[p] = "closed" /\ op[p].kind = "none"
                         /\ \A f \in File : modules[p][f] = NoKey
  BY DEF Init, Idle, NoModules
<1>3. disk.st = "missing"
  BY DEF Init, Missing
<1>4. LockInv /\ DiskInv /\ UpdateInv
  BY <1>2, <1>3 DEF LockInv, DiskInv, UpdateInv, UpdateOf, Live, HoldPcs
<1>5. CallInv
  BY <1>2 DEF CallInv
<1>6. KeptInv
  BY <1>1, <1>2, <1>3 DEF KeptInv, KeptOf, CopyOf, PromiseOf, Held, Kept
<1>. QED
  BY <1>4, <1>5, <1>6

LEMMA DiskNext ==
    ASSUME TypeOK, LockInv, DiskInv, [Next]_vars
    PROVE  DiskInv'
<1>. SUFFICES ASSUME ~stolen', faults'.corrupt = 0 PROVE disk'.st # "torn"
  BY DEF DiskInv
<1>0. ~stolen /\ faults.corrupt = 0 /\ disk.st # "torn"
  BY HistoryGrows DEF DiskInv
<1>1. CASE Age \/ UNCHANGED vars
  BY <1>0, <1>1 DEF Age, vars
<1>2. ~Corrupt
  BY DEF Corrupt, TypeOK
<1>3. ASSUME NEW p \in Proc, ProcStep(p) PROVE disk'.st # "torn"
  BY <1>0, <1>3, DiskSteps DEF RenameTmp, QuarantineRegistry, Missing, LockInv
<1>. QED
  BY <1>1, <1>2, <1>3 DEF Next, ProcStep

KeyInv == LockInv /\ DiskInv /\ UpdateInv /\ CallInv /\ KeptInv

LEMMA KeyInvariant == Spec => []KeyInv
<1>1. Init => KeyInv
  BY InitKeys DEF KeyInv
<1>2. TypeOK /\ KeyInv /\ [Next]_vars => KeyInv'
  BY LockNext, DiskNext, UpdateNext, CallNext, KeptNext DEF KeyInv
<1>. QED
  BY <1>1, <1>2, TypeCorrect, PTL DEF Spec

\* Without the damage that is outside the code's control, a process that panics
\* on publish was publishing a file that some caller removes or gc collects.
KeptPublishes ==
    Calm => \A p \in Proc : pc[p] = "panicked" => op[p].file \in Removable \cup Junk

\* ... and no two kept files, of one process or of several, and no two
\* artifacts of kept files, are under one key, and an artifact is under no
\* other kept file's.
KeptKeysDistinct ==
    Calm => \A f, g \in Kept :
        /\ \A p, q \in Proc : Held(p, f) /\ modules[p][f] = modules[q][g] => f = g
        /\ art[f] # NoKey /\ art[f] = art[g] => f = g
        /\ art[f] # NoKey /\ OnDisk(g, art[f]) => f = g

LEMMA KeptKeysMeanFiles ==
    ASSUME TypeOK, ImagesConsistent, KeptInv
    PROVE  KeptKeysDistinct
<1>. SUFFICES ASSUME Calm, NEW f \in Kept, NEW g \in Kept
              PROVE  /\ \A p, q \in Proc :
                            Held(p, f) /\ modules[p][f] = modules[q][g] => f = g
                     /\ art[f] # NoKey /\ art[f] = art[g] => f = g
                     /\ art[f] # NoKey /\ OnDisk(g, art[f]) => f = g
  BY DEF KeptKeysDistinct
<1>1. ASSUME NEW k, k # NoKey, OnDisk(f, k), OnDisk(g, k) PROVE f = g
  BY <1>1 DEF ImagesConsistent, Consistent, OnDisk, Entries, Kept
<1>. QED
  BY <1>1 DEF KeptInv, KeptOf, Held

\* The counted faults stay within their bounds.
FaultBound ==
    /\ faults.crash <= MaxCrash
    /\ faults.corrupt <= MaxCorrupt
    /\ faults.save <= MaxSaveFail

LEMMA FaultsBounded == Spec => []FaultBound
<1>1. Init => FaultBound
  BY DEF Init, FaultBound
<1>2. ASSUME TypeOK, FaultBound, [Next]_vars PROVE FaultBound'
  <2>. USE DEF FaultBound, TypeOK
  <2>1. ASSUME NEW p \in Proc, Store(p) PROVE faults' = faults
    BY <2>1 DEF Store, Open, Reload, Read, QuarantineRegistry, QuarantineArtifacts, MakeLock,
         SeeStale, BreakStale, MutateAlloc, MutatePublish, PublishPanics,
         MutateRemove, StartGc, GcEntry, EndGc, TruncateTmp, WriteTmp, RenameTmp, Release
  <2>2. ASSUME NEW p \in Proc, Caller(p) \/ TimeOut(p) PROVE faults' = faults
    BY <2>2 DEF Caller, CallAlloc, StoreThenPublish, CallRemove, CallGc, LoadCached, TimeOut
  <2>3. ASSUME NEW p \in Proc, Refused(p) PROVE FaultBound'
    BY <1>2, <2>3 DEF Refused
  <2>4. ASSUME NEW p \in Proc, Crash(p) PROVE FaultBound'
    BY <1>2, <2>4 DEF Crash
  <2>5. CASE Corrupt
    BY <1>2, <2>5 DEF Corrupt
  <2>6. CASE Age \/ UNCHANGED vars
    BY <1>2, <2>6 DEF Age, vars
  <2>. QED
    BY <1>2, <2>1, <2>2, <2>3, <2>4, <2>5, <2>6 DEF Next
<1>. QED
  BY <1>1, <1>2, TypeCorrect, PTL DEF Spec

LEMMA ImagesInvariant == Spec => []ImagesConsistent
<1>1. Init => ImagesConsistent
  BY EmptyRegistry DEF Init, ImagesConsistent, Missing
<1>2. TypeOK /\ ImagesConsistent /\ [Next]_vars => ImagesConsistent'
  BY ConsistentNext
<1>. QED
  BY <1>1, <1>2, TypeCorrect, PTL DEF Spec

\* A process that panics on publish was publishing a file that some caller
\* removes or gc collects: every other file keeps its entry, across crashes and
\* broken locks, until a lock is stolen, a write refused or the file damaged.
THEOREM KeptFilesPublish == Spec => []KeptPublishes
<1>1. TypeOK /\ KeyInv => KeptPublishes
  BY DEF KeyInv, KeptInv, KeptOf, KeptPublishes, Kept, TypeOK, Op
<1>. QED
  BY <1>1, KeyInvariant, TypeCorrect, PTL

\* ... and the keys of such files differ, in memory and on disk.
THEOREM KeptFilesDiffer == Spec => []KeptKeysDistinct
<1>. QED
  BY KeptKeysMeanFiles, KeyInvariant, TypeCorrect, ImagesInvariant, PTL DEF KeyInv

\* Where nobody removes entries and nothing outside the code fails, what a
\* process allocated is still its own when it publishes (alloc, publish).
THEOREM PublishNeverPanics ==
    ASSUME Removable = {}, Junk = {}, MaxCorrupt = 0, MaxSaveFail = 0
    PROVE  Spec => []PublishFindsItsEntry
<1>1. TypeOK /\ FaultBound /\ KeptPublishes => PublishFindsItsEntry
  BY DEF TypeOK, FaultBound, KeptPublishes, Calm, PublishFindsItsEntry
<1>. QED
  BY <1>1, KeptFilesPublish, FaultsBounded, TypeCorrect, PTL

-----------------------------------------------------------------------------
(* One process and any damage: recover keeps next_key, so that no key this *)
(* process handed out, and none an artifact on disk carries, is reissued.  *)

\* Under r, key k is f's or nobody's, and no allocation hands it out.
Reserved(r, f, k) ==
    /\ k < r.next /\ k \notin r.free
    /\ \A g \in Entries(r) : r.key[g] = k => g = f

LEMMA EntryIsReserved ==
    ASSUME NEW r \in Registry, Consistent(r), NEW f \in Entries(r)
    PROVE  Reserved(r, f, r.key[f])
  BY DEF Consistent, Reserved

LEMMA ReservedPublish ==
    ASSUME NEW r \in Registry, NEW f, NEW k, Reserved(r, f, k), NEW g \in File, NEW deps
    PROVE  Reserved(Publish(r, g, deps), f, k)
<1>. DEFINE s == Publish(r, g, deps)
<1>1. s.key = r.key /\ s.free = r.free /\ s.next = r.next
  BY DEF Publish, Registry
<1>. QED
  BY <1>1 DEF Reserved, Entries

LEMMA ReservedRestarted ==
    ASSUME NEW r \in Registry, NEW f, NEW k, Reserved(r, f, k)
    PROVE  Reserved(Restarted(r), f, k)
<1>1. Entries(Restarted(r)) = {}
  BY DEF Entries, Restarted
<1>. QED
  BY <1>1 DEF Reserved, Restarted

LEMMA ReservedRemove ==
    ASSUME NEW r \in Registry, NEW f, NEW k, Reserved(r, f, k),
           NEW g \in File, g # f
    PROVE  Reserved(Remove(r, g), f, k)
<1>1. CASE Removes(r, g)
  <2>. DEFINE s == Drop(r, g)
  <2>1. /\ s.key = [r.key EXCEPT ![g] = NoKey]
        /\ s.free = r.free \cup {r.key[g]}
        /\ s.next = r.next
    BY DEF Drop, Registry
  <2>2. g \in Entries(r) /\ r.key[g] # k
    BY <1>1 DEF Removes, Reserved
  <2>3. \A h \in Entries(s) : h \in Entries(r) /\ s.key[h] = r.key[h]
    BY <2>1 DEF Entries, Registry
  <2>4. Reserved(s, f, k)
    BY <2>1, <2>2, <2>3 DEF Reserved
  <2>. QED
    BY <1>1, <2>4 DEF Remove
<1>2. CASE ~Removes(r, g)
  BY <1>2 DEF Remove
<1>. QED
  BY <1>1, <1>2

\* An allocation takes neither a reserved key nor, for another file, an entry's.
LEMMA ReservedAlloc ==
    ASSUME NEW r \in Registry, NEW f \in File, NEW k \in Keys, Reserved(r, f, k),
           NEW g \in File, CanAlloc(r, g)
    PROVE  /\ Reserved(Alloc(r, g), f, k)
           /\ g # f => Alloc(r, g).key[g] # k
<1>1. CASE g \in Entries(r)
  BY <1>1 DEF Alloc, Reserved
<1>2. CASE g \notin Entries(r)
  <2>. DEFINE t == TakenKey(r)
              s == Alloc(r, g)
  <2>1. /\ t \in Keys
        /\ r.free # {} => t \in r.free
        /\ r.free = {} => t = r.next
    BY <1>2, TakenKeyType
  <2>2. t # k
    BY <2>1 DEF Reserved, Registry, Keys
  <2>3. /\ s.key = [r.key EXCEPT ![g] = t]
        /\ s.free = r.free \ {t}
        /\ s.next = IF r.free # {} THEN r.next ELSE r.next + 1
    BY <1>2 DEF Alloc, Registry
  <2>4. \A h \in File : s.key[h] = IF h = g THEN t ELSE r.key[h]
    BY <2>3 DEF Registry
  <2>5. \A h \in Entries(s) : s.key[h] = k => h = f
    BY <2>2, <2>4 DEF Reserved, Entries
  <2>6. k < s.next /\ k \notin s.free
    BY <2>3 DEF Reserved, Registry, Keys
  <2>. QED
    BY <2>2, <2>4, <2>5, <2>6 DEF Reserved
<1>. QED
  BY <1>1, <1>2

SoleProcess == \A p, q \in Proc : p = q

\* A key is in use for a file: a process holds the module under it, the registry
\* file names it, or the file's artifact carries it.
Claim(f, k) ==
    \/ \E p \in Proc : modules[p][f] = k
    \/ OnDisk(f, k)
    \/ faults.crash = 0 /\ art[f] = k

Secure(f, k) ==
    /\ disk.st = "ok" => Reserved(disk.reg, f, k)
    /\ \A p \in Proc : pc[p] # "closed" => Reserved(mem[p], f, k)

\* The key of an allocation in progress is reserved too, and it is not one the
\* process already holds.
PendingOf(p) ==
    op[p].kind = "alloc" /\ pc[p] \in {"save", "write", "rename", "release"}
       /\ op[p].file \in Kept =>
        /\ op[p].key \in Keys
        /\ Reserved(mem[p], op[p].file, op[p].key)
        /\ pc[p] = "release" /\ disk.st = "ok" =>
              Reserved(disk.reg, op[p].file, op[p].key)
        /\ \A g \in Kept : modules[p][g] = op[p].key => g = op[p].file

SoleOf(p) ==
    /\ pc[p] = "closed" =>
          /\ \A f \in File : modules[p][f] = NoKey
          /\ faults.crash = 0 => disk.st # "ok" /\ \A f \in File : art[f] = NoKey
    /\ pc[p] \in {"quarantine", "restart"} => disk.st # "ok"
    /\ PendingOf(p)
    /\ \A f, g \in Kept : Held(p, f) /\ modules[p][f] = modules[p][g] => f = g

SoleInv ==
    faults.save = 0 =>
        /\ \A f \in Kept, k \in Keys : Claim(f, k) => Secure(f, k)
        /\ \A p \in Proc : SoleOf(p)

\* Nobody can steal the lock of the only process there is.
LEMMA NeverStolen ==
    ASSUME SoleProcess
    PROVE  Spec => []~stolen
<1>1. Init => ~stolen
  BY DEF Init
<1>2. ASSUME TypeOK, ~stolen, [Next]_vars PROVE ~stolen'
  <2>1. ASSUME NEW p \in Proc, RemoveLock(p) PROVE ~stolen'
    BY <1>2, <2>1 DEF RemoveLock, TypeOK, SoleProcess
  <2>2. ASSUME NEW p \in Proc, Store(p) PROVE ~stolen'
    BY <1>2, <2>1, <2>2 DEF Store, Open, Reload, Read, QuarantineRegistry,
         QuarantineArtifacts, MakeLock, SeeStale, BreakStale, MutateAlloc, MutatePublish,
         PublishPanics, MutateRemove, StartGc, GcEntry, EndGc, TruncateTmp, WriteTmp,
         RenameTmp, Release
  <2>3. ASSUME NEW p \in Proc, Caller(p) \/ TimeOut(p) \/ Refused(p) \/ Crash(p)
        PROVE  ~stolen'
    BY <1>2, <2>3 DEF Caller, CallAlloc, StoreThenPublish, CallRemove, CallGc, LoadCached,
         TimeOut, Refused, Crash
  <2>4. CASE Age \/ Corrupt \/ UNCHANGED vars
    BY <1>2, <2>4 DEF Age, Corrupt, vars
  <2>. QED
    BY <1>2, <2>2, <2>3, <2>4 DEF Next
<1>. QED
  BY <1>1, <1>2, TypeCorrect, PTL DEF Spec

\* A secure key stays secure: what a step writes is the copy, what it reads is
\* the file.
LEMMA SecureStays ==
    ASSUME SoleProcess, TypeOK, ~stolen, UpdateInv, CallInv, NEW p \in Proc, ProcStep(p),
           NEW f \in Kept, NEW k \in Keys, Secure(f, k), pc[p] = "closed" => disk.st = "ok"
    PROVE  Secure(f, k)'
<1>. SUFFICES /\ disk'.st = "ok" => Reserved(disk'.reg, f, k)
              /\ pc'[p] # "closed" => Reserved(mem'[p], f, k)
  BY DEF SoleProcess, Secure
<1>. USE DEF TypeOK
<1>a. /\ disk.st = "ok" => Reserved(disk.reg, f, k)
      /\ pc[p] # "closed" => Reserved(mem[p], f, k)
      /\ mem[p] \in Registry /\ op[p].file \in File
      /\ f \in File /\ f \notin Removable /\ f \notin Junk
  BY DEF Secure, Kept, Op
<1>1. CASE Open(p) \/ Reload(p)
  BY <1>1, <1>a DEF Open, Reload, Read
<1>2. CASE QuarantineRegistry(p)
  BY <1>2, <1>a DEF QuarantineRegistry, Missing
<1>3. CASE QuarantineArtifacts(p)
  BY <1>3, <1>a, ReservedRestarted DEF QuarantineArtifacts
<1>4. CASE MakeLock(p) \/ SeeStale(p) \/ BreakStale(p) \/ PublishPanics(p)
           \/ TimeOut(p) \/ Release(p)
  BY <1>4, <1>a DEF MakeLock, SeeStale, BreakStale, PublishPanics, TimeOut, Release
<1>5. CASE StartGc(p) \/ EndGc(p) \/ TruncateTmp(p) \/ WriteTmp(p)
  BY <1>5, <1>a DEF StartGc, EndGc, TruncateTmp, WriteTmp
<1>6. CASE MutateAlloc(p)
  BY <1>6, <1>a, ReservedAlloc DEF MutateAlloc
<1>7. CASE MutatePublish(p)
  BY <1>7, <1>a, ReservedPublish DEF MutatePublish
<1>8. ASSUME NEW g \in File, g # f, DropEntry(p, g), pc[p] # "closed"
      PROVE  Reserved(mem'[p], f, k)
  BY <1>8, <1>a, ReservedRemove DEF DropEntry
<1>9. CASE MutateRemove(p)
  <2>1. op[p].file # f
    BY <1>9, <1>a DEF MutateRemove, CallInv
  <2>. QED
    BY <1>9, <1>a, <1>8, <2>1 DEF MutateRemove
<1>10. CASE GcEntry(p)
  <2>1. \A g \in todo[p] : g \in File /\ g # f
    BY <1>10, <1>a DEF GcEntry, CallInv
  <2>. QED
    BY <1>10, <1>a, <1>8, <2>1 DEF GcEntry
<1>11. CASE RenameTmp(p)
  BY <1>11, <1>a DEF RenameTmp, UpdateInv, UpdateOf, Holding
<1>12. CASE Caller(p)
  BY <1>12, <1>a DEF Caller, CallAlloc, StoreThenPublish, CallRemove, CallGc, LoadCached, Call
<1>13. CASE Crash(p)
  BY <1>13, <1>a DEF Crash
<1>14. CASE Refused(p)
  BY <1>14, <1>a, ReservedRestarted DEF Refused
<1>. QED
  BY <1>1, <1>2, <1>3, <1>4, <1>5, <1>6, <1>7, <1>9, <1>10, <1>11, <1>12, <1>13, <1>14
  DEF ProcStep, Store

\* A key that comes into use was in use, was promised, or is the copy's.
LEMMA NewClaims ==
    ASSUME SoleProcess, TypeOK, ~stolen, UpdateInv, NEW p \in Proc, ProcStep(p),
           NEW f \in Kept, NEW k \in Keys, Claim(f, k)'
    PROVE  \/ Claim(f, k)
           \/ Release(p) /\ op[p].kind = "alloc" /\ op[p].file = f /\ op[p].key = k
           \/ RenameTmp(p) /\ mem[p].key[f] = k
<1>. USE DEF TypeOK
<1>a. f \in File /\ k # NoKey /\ (faults'.crash = 0 => faults.crash = 0)
  BY HistoryGrows DEF Kept, Keys, Next, ProcStep
<1>1. CASE OnDisk(f, k)'
  <2>1. CASE disk' = disk
    BY <1>1, <2>1 DEF OnDisk, Claim
  <2>2. CASE RenameTmp(p)
    <3>1. tmp = Holding(mem[p])
      BY <2>2 DEF RenameTmp, UpdateInv, UpdateOf
    <3>. QED
      BY <1>1, <2>2, <3>1 DEF RenameTmp, Holding, OnDisk
  <2>3. CASE QuarantineRegistry(p)
    BY <1>1, <2>3 DEF QuarantineRegistry, Missing, OnDisk
  <2>. QED
    BY <2>1, <2>2, <2>3, DiskSteps
<1>2. CASE modules'[p][f] = k
  <2>1. CASE modules' = modules
    BY <1>2, <2>1 DEF Claim
  <2>2. CASE Release(p)
    BY <1>2, <1>a, <2>2 DEF Release, Claim
  <2>3. ASSUME NEW g \in File, LoadCached(p, g)
        PROVE  modules'[p][f] = modules[p][f] \/ OnDisk(f, modules'[p][f])
    BY <2>3, <1>a DEF LoadCached, OnDisk
  <2>4. CASE Crash(p)
    BY <1>2, <1>a, <2>4 DEF Crash, NoModules
  <2>5. CASE Store(p) /\ ~Release(p)
    BY <2>1, <2>5 DEF Store, Open, Reload, Read, QuarantineRegistry, QuarantineArtifacts,
           MakeLock, SeeStale, BreakStale, MutateAlloc, MutatePublish, PublishPanics,
           MutateRemove, StartGc, GcEntry, EndGc, TruncateTmp, WriteTmp, RenameTmp
  <2>6. CASE TimeOut(p) \/ Refused(p)
    BY <2>1, <2>6 DEF TimeOut, Refused
  <2>7. CASE Caller(p)
    BY <1>2, <2>1, <2>3, <2>7
    DEF Caller, CallAlloc, StoreThenPublish, CallRemove, CallGc, Claim
  <2>. QED
    BY <2>2, <2>4, <2>5, <2>6, <2>7 DEF ProcStep
<1>3. CASE faults'.crash = 0 /\ art'[f] = k
  <2>1. CASE art'[f] = art[f]
    BY <1>3, <1>a, <2>1 DEF Claim
  <2>2. ASSUME NEW g \in File, StoreThenPublish(p, g)
        PROVE  art'[f] = art[f] \/ art'[f] = modules[p][f]
    BY <2>2, <1>a DEF StoreThenPublish
  <2>3. CASE QuarantineArtifacts(p)
    BY <1>3, <1>a, <2>3 DEF QuarantineArtifacts
  <2>4. ASSUME NEW g, DropEntry(p, g) PROVE Claim(f, k)
    BY <1>3, <1>a, <2>4 DEF DropEntry, Claim
  <2>5. CASE Store(p) /\ ~QuarantineArtifacts(p)
    BY <2>1, <2>4, <2>5 DEF Store, Open, Reload, Read, QuarantineRegistry,
         MakeLock, SeeStale, BreakStale, MutateAlloc, MutatePublish, PublishPanics,
         MutateRemove, StartGc, GcEntry, EndGc, TruncateTmp, WriteTmp, RenameTmp, Release
  <2>6. CASE TimeOut(p) \/ Refused(p) \/ Crash(p)
    BY <2>1, <2>6 DEF TimeOut, Refused, Crash
  <2>7. CASE Caller(p)
    BY <1>3, <2>1, <2>2, <2>7
    DEF Caller, CallAlloc, CallRemove, CallGc, LoadCached, Claim
  <2>. QED
    BY <2>3, <2>5, <2>6, <2>7 DEF ProcStep
<1>. QED
  BY <1>1, <1>2, <1>3 DEF Claim, SoleProcess

SoleContext ==
    /\ SoleProcess /\ TypeOK /\ ImagesConsistent
    /\ ~stolen /\ faults.save = 0 /\ faults'.save = 0
    /\ LockInv /\ UpdateInv /\ CallInv /\ SoleInv

\* Before its store is open a process uses no key but those on disk.
LEMMA ClosedClaimsNothing ==
    ASSUME SoleContext, NEW p \in Proc, pc[p] = "closed",
           NEW f \in Kept, NEW k \in Keys, Claim(f, k)
    PROVE  OnDisk(f, k)
  BY DEF SoleContext, SoleInv, SoleOf, SoleProcess, Claim, Kept, Keys

LEMMA PendingOwn ==
    ASSUME SoleContext, NEW p \in Proc, ProcStep(p)
    PROVE  PendingOf(p)'
<1>. USE DEF TypeOK, SoleContext
<1>a. /\ PendingOf(p)
      /\ mem[p] \in Registry /\ op[p].file \in File /\ Consistent(mem[p])
      /\ \A f \in Kept, k \in Keys : Claim(f, k) => Secure(f, k)
      /\ \A f \in Kept : f \in File
  BY DEF SoleInv, SoleOf, Op, ImagesConsistent, Kept
<1>1. CASE Open(p) \/ Reload(p)
  BY <1>1 DEF Open, Reload, Read, AfterRead, PendingOf
<1>2. CASE QuarantineRegistry(p) \/ QuarantineArtifacts(p)
  BY <1>2 DEF QuarantineRegistry, QuarantineArtifacts, AfterRead, PendingOf
<1>3. CASE MakeLock(p) \/ SeeStale(p) \/ BreakStale(p) \/ PublishPanics(p)
           \/ TimeOut(p) \/ Release(p) \/ Crash(p)
  BY <1>3 DEF MakeLock, SeeStale, BreakStale, PublishPanics, TimeOut, Release, Crash,
              PendingOf
<1>4. CASE TruncateTmp(p) \/ WriteTmp(p)
  BY <1>4, <1>a DEF TruncateTmp, WriteTmp, PendingOf
<1>5. CASE MutatePublish(p) \/ MutateRemove(p) \/ GcEntry(p) \/ StartGc(p) \/ EndGc(p)
  BY <1>5 DEF MutatePublish, MutateRemove, GcEntry, StartGc, EndGc, CallInv, PendingOf
<1>6. ~Refused(p)
  BY DEF Refused
<1>7. CASE MutateAlloc(p)
  <2>. DEFINE f == op[p].file
              s == Alloc(mem[p], f)
              k == s.key[f]
  <2>1. op' = [op EXCEPT ![p] = [op[p] EXCEPT !.key = k]]
    BY <1>7 DEF MutateAlloc
  <2>2. op'[p].key = k /\ op'[p].file = f /\ pc'[p] = "save"
    BY <1>7, <2>1 DEF MutateAlloc, Op
  <2>3. mem'[p] = s /\ modules' = modules /\ CanAlloc(mem[p], f)
    BY <1>7 DEF MutateAlloc
  <2>4. s \in Registry /\ k \in Keys /\ Consistent(s)
    BY <1>a, <2>3, AllocKeepsRegistry, AllocKeepsConsistent
  <2>5. f \in Entries(s)
    BY <1>a, <2>4 DEF Entries, Keys
  <2>6. Reserved(s, f, k)
    BY <2>4, <2>5, EntryIsReserved
  <2>7. ASSUME NEW g \in Kept, modules[p][g] = k PROVE g = f
    <3>1. Claim(g, k)
      BY <2>7 DEF Claim
    <3>2. Reserved(mem[p], g, k)
      BY <1>7, <1>a, <2>4, <3>1 DEF Secure, MutateAlloc
    <3>. QED
      BY <1>a, <2>3, <2>4, <3>2, ReservedAlloc
  <2>. HIDE DEF s, k, f
  <2>. QED
    BY <2>2, <2>3, <2>4, <2>6, <2>7 DEF PendingOf
<1>8. CASE RenameTmp(p)
  BY <1>8, <1>a DEF RenameTmp, UpdateInv, UpdateOf, Holding, PendingOf
<1>9. CASE Caller(p)
  BY <1>9 DEF Caller, CallAlloc, StoreThenPublish, CallRemove, CallGc, LoadCached, Call,
              PendingOf
<1>. QED
  BY <1>1, <1>2, <1>3, <1>4, <1>5, <1>6, <1>7, <1>8, <1>9 DEF ProcStep, Store

LEMMA HeldKeysOwn ==
    ASSUME SoleContext, NEW p \in Proc, ProcStep(p), NEW f \in Kept, NEW g \in Kept,
           Held(p, f)', modules'[p][f] = modules'[p][g]
    PROVE  f = g
<1>. USE DEF TypeOK, SoleContext, Held
<1>a. /\ PendingOf(p) /\ f \in File /\ g \in File
      /\ modules[p][f] # NoKey /\ modules[p][f] = modules[p][g] => f = g
      /\ \A h \in Kept, k \in Keys : Claim(h, k) => Secure(h, k)
  BY DEF SoleInv, SoleOf, Kept
<1>1. CASE modules' = modules
  BY <1>1, <1>a
<1>2. CASE Release(p)
  <2>1. CASE op[p].kind = "alloc"
    <3>1. modules' = [modules EXCEPT ![p][op[p].file] = op[p].key]
      BY <1>2, <2>1 DEF Release
    <3>2. CASE op[p].file \in Kept
      BY <1>2, <1>a, <2>1, <3>1, <3>2 DEF Release, PendingOf
    <3>3. CASE op[p].file \notin Kept
      BY <1>a, <3>1, <3>3
    <3>. QED
      BY <3>2, <3>3
  <2>2. CASE op[p].kind # "alloc"
    BY <1>1, <1>2, <2>2 DEF Release
  <2>. QED
    BY <2>1, <2>2
<1>3. ASSUME NEW h \in File, LoadCached(p, h) PROVE f = g
  <2>. DEFINE k == disk.reg.key[h]
  <2>1. modules' = [modules EXCEPT ![p][h] = k] /\ disk.st = "ok" /\ modules[p][h] = NoKey
    BY <1>3 DEF LoadCached
  <2>2. k \in Keys \cup {NoKey}
    BY DEF Image, Registry
  <2>3. ASSUME NEW e \in Kept, e # h, modules[p][e] = k, k # NoKey PROVE FALSE
    <3>1. Claim(e, k) /\ k \in Keys
      BY <2>2, <2>3 DEF Claim
    <3>2. Reserved(disk.reg, e, k)
      BY <1>a, <2>1, <3>1 DEF Secure
    <3>3. h \in Entries(disk.reg)
      BY <2>3 DEF Entries
    <3>. QED
      BY <2>3, <3>2, <3>3 DEF Reserved
  <2>. HIDE DEF k
  <2>4. modules'[p][f] = IF f = h THEN k ELSE modules[p][f]
    BY <1>a, <2>1
  <2>5. modules'[p][g] = IF g = h THEN k ELSE modules[p][g]
    BY <1>a, <2>1
  <2>. QED
    BY <1>a, <2>3, <2>4, <2>5
<1>4. CASE Crash(p)
  BY <1>4, <1>a DEF Crash, NoModules
<1>5. CASE Store(p) /\ ~Release(p)
  BY <1>1, <1>5 DEF Store, Open, Reload, Read, QuarantineRegistry, QuarantineArtifacts,
         MakeLock, SeeStale, BreakStale, MutateAlloc, MutatePublish, PublishPanics,
         MutateRemove, StartGc, GcEntry, EndGc, TruncateTmp, WriteTmp, RenameTmp
<1>6. CASE TimeOut(p) \/ Refused(p)
  BY <1>1, <1>6 DEF TimeOut, Refused
<1>7. CASE Caller(p)
  BY <1>1, <1>3, <1>7 DEF Caller, CallAlloc, StoreThenPublish, CallRemove, CallGc
<1>. QED
  BY <1>2, <1>4, <1>5, <1>6, <1>7 DEF ProcStep

LEMMA SoleOwn ==
    ASSUME SoleContext, NEW p \in Proc, ProcStep(p)
    PROVE  SoleOf(p)'
<1>. USE DEF TypeOK, SoleContext
<1>a. SoleOf(p)
  BY DEF SoleInv
<1>1. ASSUME pc'[p] = "closed"
      PROVE  (\A f \in File : modules'[p][f] = NoKey) /\ faults'.crash # 0
  <2>1. CASE Crash(p)
    BY <2>1 DEF Crash, NoModules
  <2>2. CASE Store(p)
    BY <1>1, <2>2 DEF Store, Open, Reload, Read, AfterRead, QuarantineRegistry,
         QuarantineArtifacts, MakeLock, SeeStale, BreakStale, MutateAlloc, MutatePublish,
         PublishPanics, MutateRemove, StartGc, GcEntry, EndGc, TruncateTmp, WriteTmp,
         RenameTmp, Release
  <2>3. CASE Caller(p) \/ TimeOut(p) \/ Refused(p)
    BY <1>1, <2>3 DEF Caller, CallAlloc, StoreThenPublish, CallRemove, CallGc, LoadCached,
         Call, TimeOut, Refused
  <2>. QED
    BY <2>1, <2>2, <2>3 DEF ProcStep
<1>2. ASSUME pc'[p] \in {"quarantine", "restart"} PROVE disk'.st # "ok"
  <2>1. CASE Open(p) \/ Reload(p)
    BY <1>2, <2>1 DEF Open, Reload, Read, AfterRead
  <2>2. CASE QuarantineRegistry(p)
    BY <2>2 DEF QuarantineRegistry, Missing
  <2>3. CASE Store(p) /\ ~Open(p) /\ ~Reload(p) /\ ~QuarantineRegistry(p)
    BY <1>2, <2>3 DEF Store, AfterRead, QuarantineArtifacts, MakeLock, SeeStale,
         BreakStale, MutateAlloc, MutatePublish, PublishPanics, MutateRemove, StartGc,
         GcEntry, EndGc, TruncateTmp, WriteTmp, RenameTmp, Release
  <2>4. CASE Caller(p) \/ TimeOut(p) \/ Refused(p) \/ Crash(p)
    BY <1>2, <2>4 DEF Caller, CallAlloc, StoreThenPublish, CallRemove, CallGc, LoadCached,
         Call, TimeOut, Refused, Crash
  <2>. QED
    BY <2>1, <2>2, <2>3, <2>4 DEF ProcStep
<1>3. \A f, g \in Kept : Held(p, f)' /\ modules'[p][f] = modules'[p][g] => f = g
  BY HeldKeysOwn
<1>. QED
  BY <1>1, <1>2, <1>3, PendingOwn DEF SoleOf

LEMMA ClaimsSecure ==
    ASSUME SoleContext, NEW p \in Proc, ProcStep(p),
           NEW f \in Kept, NEW k \in Keys, Claim(f, k)'
    PROVE  Secure(f, k)'
<1>. USE DEF SoleContext
<1>1. CASE Claim(f, k)
  <2>1. Secure(f, k)
    BY <1>1 DEF SoleInv
  <2>2. pc[p] = "closed" => disk.st = "ok"
    BY <1>1, ClosedClaimsNothing DEF OnDisk
  <2>. QED
    BY <2>1, <2>2, SecureStays
<1>2. CASE Release(p) /\ op[p].kind = "alloc" /\ op[p].file = f /\ op[p].key = k
  <2>1. PendingOf(p) /\ pc[p] = "release"
    BY <1>2 DEF SoleInv, SoleOf, Release
  <2>2. Secure(f, k)
    BY <1>2, <2>1 DEF PendingOf, Secure, SoleProcess
  <2>. QED
    BY <2>1, <2>2, SecureStays
<1>3. CASE RenameTmp(p) /\ mem[p].key[f] = k
  <2>1. f \in Entries(mem[p]) /\ mem[p] \in Registry /\ Consistent(mem[p])
    BY <1>3 DEF Entries, Kept, Keys, TypeOK, ImagesConsistent
  <2>2. Reserved(mem[p], f, k)
    BY <1>3, <2>1, EntryIsReserved
  <2>3. mem' = mem /\ disk'.reg = mem[p]
    BY <1>3, <2>1 DEF RenameTmp, UpdateInv, UpdateOf, Holding
  <2>. QED
    BY <2>2, <2>3 DEF Secure, SoleProcess
<1>. QED
  BY <1>1, <1>2, <1>3, NewClaims

LEMMA SoleNext ==
    ASSUME SoleProcess, TypeOK, ImagesConsistent, ~stolen, LockInv, UpdateInv, CallInv,
           SoleInv, [Next]_vars
    PROVE  SoleInv'
<1>. SUFFICES ASSUME faults'.save = 0
              PROVE  /\ \A f \in Kept, k \in Keys : Claim(f, k)' => Secure(f, k)'
                     /\ \A p \in Proc : SoleOf(p)'
  BY DEF SoleInv
<1>0. faults.save = 0
  BY HistoryGrows
<1>1. CASE Age \/ UNCHANGED vars
  BY <1>0, <1>1 DEF Age, vars, SoleInv, SoleOf, PendingOf, Claim, Secure, OnDisk, Held
<1>2. CASE Corrupt
  <2>1. disk'.st # "ok" /\ disk.st = "ok" /\ faults'.crash = faults.crash
    BY <1>2 DEF Corrupt, Torn, TypeOK
  <2>. QED
    BY <1>0, <1>2, <2>1
    DEF Corrupt, SoleInv, SoleOf, PendingOf, Claim, Secure, OnDisk, Held
<1>3. ASSUME NEW p \in Proc, ProcStep(p)
      PROVE  /\ \A f \in Kept, k \in Keys : Claim(f, k)' => Secure(f, k)'
             /\ \A q \in Proc : SoleOf(q)'
  <2>1. SoleContext
    BY <1>0 DEF SoleContext
  <2>. QED
    BY <1>3, <2>1, SoleOwn, ClaimsSecure DEF SoleProcess
<1>. QED
  BY <1>1, <1>2, <1>3 DEF Next, ProcStep

LEMMA SoleInvariant ==
    ASSUME SoleProcess
    PROVE  Spec => [](~stolen /\ SoleInv)
<1>1. Init => SoleInv
  <2>. SUFFICES ASSUME Init PROVE SoleInv
    OBVIOUS
  <2>1. \A p \in Proc : pc[p] = "closed" /\ op[p].kind = "none"
                         /\ \A f \in File : modules[p][f] = NoKey
    BY DEF Init, Idle, NoModules
  <2>2. disk.st # "ok" /\ \A f \in File : art[f] = NoKey
    BY DEF Init, Missing
  <2>. QED
    BY <2>1, <2>2 DEF SoleInv, SoleOf, PendingOf, Claim, OnDisk, Held, Kept, Keys
<1>2. TypeOK /\ ImagesConsistent /\ ~stolen /\ KeyInv /\ SoleInv /\ [Next]_vars => SoleInv'
  BY SoleNext DEF KeyInv
<1>. QED
  BY <1>1, <1>2, NeverStolen, KeyInvariant, ImagesInvariant, TypeCorrect, PTL DEF Spec

\* One process never holds two modules under one key: with other processes, as
\* long as nothing outside the code fails; alone, through any damage to the
\* registry and any crash (alloc, recover).
THEOREM ProcessKeys ==
    ASSUME Removable = {}, Junk = {}, MaxSaveFail = 0, MaxCorrupt = 0 \/ SoleProcess
    PROVE  Spec => []ProcessKeysDistinct
<1>a. Kept = File
  BY DEF Kept
<1>1. CASE MaxCorrupt = 0
  <2>1. TypeOK /\ FaultBound /\ KeptKeysDistinct => ProcessKeysDistinct
    BY <1>a, <1>1 DEF TypeOK, FaultBound, KeptKeysDistinct, Calm, ProcessKeysDistinct
  <2>. QED
    BY <2>1, KeptFilesDiffer, FaultsBounded, TypeCorrect, PTL
<1>2. CASE SoleProcess
  <2>1. TypeOK /\ FaultBound /\ SoleInv => ProcessKeysDistinct
    BY <1>a DEF TypeOK, FaultBound, SoleInv, SoleOf, ProcessKeysDistinct
  <2>2. Spec => [](~stolen /\ SoleInv)
    BY <1>2, SoleInvariant
  <2>. QED
    BY <2>1, <2>2, FaultsBounded, TypeCorrect, PTL
<1>. QED
  BY <1>1, <1>2

\* No artifact on disk carries the key of another file's entry: one process
\* restarts its key space only after the artifacts of the old one are gone, and
\* may restart it any number of times, as long as it is not killed in between
\* (recover).
THEOREM OldKeysLeave ==
    ASSUME SoleProcess, Removable = {}, Junk = {}, MaxSaveFail = 0,
           MaxCrash = 0 \/ MaxCorrupt = 0
    PROVE  Spec => []OldKeysGone
<1>a. Kept = File
  BY DEF Kept
<1>1. CASE MaxCorrupt = 0
  <2>1. TypeOK /\ ImagesConsistent /\ FaultBound /\ ~stolen /\ KeptInv => OldKeysGone
    BY <1>a, <1>1 DEF TypeOK, ImagesConsistent, FaultBound, KeptInv, Calm, OnDisk,
                      Consistent, Entries, OldKeysGone
  <2>2. Spec => []KeptInv
    BY KeyInvariant, PTL DEF KeyInv
  <2>. QED
    BY <2>1, <2>2, NeverStolen, FaultsBounded, ImagesInvariant, TypeCorrect, PTL
<1>2. CASE MaxCrash = 0
  <2>1. ASSUME TypeOK, FaultBound, SoleInv PROVE OldKeysGone
    <3>. SUFFICES ASSUME disk.st = "ok", NEW f \in Entries(disk.reg), NEW g \in File,
                         art[g] = disk.reg.key[f]
                  PROVE  f = g
      BY DEF OldKeysGone
    <3>1. art[g] \in Keys /\ faults.crash = 0 /\ faults.save = 0
      BY <1>2, <2>1 DEF TypeOK, FaultBound, Entries
    <3>2. Claim(g, art[g])
      BY <3>1 DEF Claim
    <3>3. Reserved(disk.reg, g, art[g])
      BY <1>a, <2>1, <3>1, <3>2 DEF SoleInv, Secure
    <3>. QED
      BY <3>3 DEF Reserved
  <2>2. Spec => [](~stolen /\ SoleInv)
    BY SoleInvariant
  <2>. QED
    BY <2>1, <2>2, FaultsBounded, TypeCorrect, PTL
<1>. QED
  BY <1>1, <1>2
=============================================================================
