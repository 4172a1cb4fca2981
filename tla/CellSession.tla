---------------------------- MODULE CellSession ----------------------------
(* The incremental session: an edited buffer, the cells a compile retains, the *)
(* registry their frozen artifacts are filed in, and the cells kept on disk    *)
(* for the next process.                                                       *)
(* Source: lichen-language/src/session.rs, cells.rs, dirty.rs, key.rs,         *)
(* cellcache.rs and lib.rs, lichen-lowlevel/src/registry.rs.                   *)
(*                                                                             *)
(* A program is a choice of a code for each of its statements, which read      *)
(* earlier ones; statement 0 is the imported package and module 0 its          *)
(* artifact.  A value is the set of <<statement, code>> pairs it was computed  *)
(* from.  An artifact holds the pairs of its own nodes and refers to modules   *)
(* for the rest.                                                               *)
EXTENDS Integers, FiniteSets, FiniteSetsExt, Functions

CONSTANTS
  Source,      \* buffers, each with its session and its cache directory
  N,           \* statements of a buffer
  Code,        \* what a statement may say
  Reads,       \* [(1..N) \X Code -> the statements it reads]
  Keyless,     \* pairs whose key cannot be written down
  Unstorable,  \* pairs whose artifact the codec refuses
  None,
  MaxKey,      \* bound: cell keys handed out by a process
  MaxEdit,     \* bound: edits
  MaxImport,   \* bound: versions of the import
  MaxStop,     \* bound: processes that end or crash
  MaxFail      \* bound: savings cut short

Stmt == 1..N
Pair == Stmt \X Code
ASSUME SizeAssumption ==
  {N, MaxKey, MaxEdit, MaxStop, MaxFail} \subseteq Nat /\ MaxImport \in Nat \ {0}
ASSUME ReadsAssumption ==
  /\ Reads \in [Pair -> SUBSET (0..N)]
  /\ \A p \in Pair : \A j \in Reads[p] : j < p[1]
ASSUME PairAssumption == Keyless \cup Unstorable \subseteq Pair

VARIABLES
  imported,     \* the version of the imported package
  text,         \* [Source -> the buffer: Stmt -> None or [code, cached]]
  last,         \* [Source -> None or the program of the last compile]
  cells,        \* [Source -> [Stmt -> None or [module, key]]]
  build,        \* [Source -> the modules the established build reads]
  unreachable,  \* [Source -> artifacts of dropped cells, to be evicted]
  registry,     \* the modules filed: key -> [own, refs, hash]
  nextKey,      \* the last cell key handed out
  disk,         \* [Source -> [Stmt -> None or a record]]
  job,          \* the compile under way
  edits, stops, fails

session == <<last, cells, build, unreachable>>
bounds == <<edits, stops, fails>>
vars == <<imported, text, session, registry, nextKey, disk, job, bounds>>

Idle == [pc |-> "idle", source |-> None, todo |-> {}]

-----------------------------------------------------------------------------
(* Programs, their values and their keys.                                      *)

Present(prog) == {i \in Stmt : prog[i] # None}
Marked(prog) == {i \in Present(prog) : prog[i].cached}
PairOf(prog, i) == <<i, prog[i].code>>
ReadsOf(prog, i) == IF prog[i] = None THEN {} ELSE Reads[PairOf(prog, i)]

(* What a fresh compile computes: every statement it is made of.               *)
Fresh(prog) ==
  LET value[i \in 0..N] ==
        IF i = 0 THEN {<<0, imported>>}
        ELSE IF prog[i] = None THEN {<<i, None>>}
        ELSE {PairOf(prog, i)} \cup UNION {value[j] : j \in ReadsOf(prog, i)}
  IN value

(* binding_keys: a key folds the code and the keys of what it reads, and the   *)
(* digest of the import that is registered now.                                *)
Keys(prog) ==
  LET key[i \in 0..N] ==
        IF i = 0 THEN {<<0, imported>>}
        ELSE IF prog[i] = None THEN {<<i, None>>}
        ELSE LET read == {key[j] : j \in ReadsOf(prog, i)} IN
             IF PairOf(prog, i) \in Keyless \/ None \in read THEN None
             ELSE {PairOf(prog, i)} \cup UNION read
  IN key

(* The build succeeds: every read resolves.                                    *)
Ok(prog) == \A i \in Present(prog) : ReadsOf(prog, i) \subseteq Present(prog) \cup {0}

-----------------------------------------------------------------------------
(* Which retained cells an edit invalidates.                                   *)

(* dirty_statements: the window, and transitively whatever reads it.           *)
Behind(prog) ==
  LET behind[i \in 0..N] ==
        IF i = 0 THEN {0} ELSE {i} \cup UNION {behind[j] : j \in ReadsOf(prog, i)}
  IN behind
Reached(prog, window) == {i \in Present(prog) : Behind(prog)[i] \cap window # {}}

(* dirty_marked_paths: over the previous program and the current one.          *)
Propagated(old, new, window) ==
  UNION {Reached(p, window) \cap Marked(p) : p \in {old, new}}

(* The key decides; propagation where a key cannot be written.                 *)
Dirty(old, new, window) ==
  {i \in Marked(new) :
     IF i \in Marked(old) /\ Keys(old)[i] # None /\ Keys(new)[i] # None
       THEN Keys(old)[i] # Keys(new)[i]
       ELSE i \in Propagated(old, new, window)}

NoneMisjudged(kept, new) == {}

(* First compile: a loaded cell is judged by its stored key.                   *)
Misjudged(kept, new) ==
  {i \in Marked(new) : kept[i] # None /\ kept[i].key # None /\ kept[i].key # Keys(new)[i]}

(* The statements that differ, and any run of statements around them: the      *)
(* spliced window, or the whole program.                                       *)
Changed(old, new) == {i \in Stmt : old[i] # new[i]}
Windows(old, new) == {w \in {a..b : a, b \in Stmt} : w # {} /\ Changed(old, new) \subseteq w}

-----------------------------------------------------------------------------
(* The registry.                                                               *)

Filed == DOMAIN registry
ImportArtifact(v) == [own |-> {<<0, v>>}, refs |-> {}, hash |-> v]
FreshRegistry(v) == [k \in {0} |-> ImportArtifact(v)]

(* What a reader of a module finds: its own nodes and those it refers to.      *)
ContentsOf(modules) ==
  LET found[k \in 0..MaxKey] ==
        IF k \notin DOMAIN modules THEN {<<0, None>>}
        ELSE modules[k].own \cup UNION {found[j] : j \in modules[k].refs}
  IN found
Contents == ContentsOf(registry)

FreedBlindly(debt) == debt \cap Filed

(* evict_unreachable: passes over the debt until none of it can be freed.      *)
Freed(debt) ==
  UNION {gone \in SUBSET (debt \cap Filed) :
           \A k \in Filed \ gone : registry[k].refs \cap gone = {}}

Without(gone) == Restrict(registry, Filed \ gone)

-----------------------------------------------------------------------------
(* The buffer and its surroundings.                                            *)

Blank == [i \in Stmt |-> None]

(* set_source writes any program; the statement edits insert, remove and       *)
(* replace one statement each, any number of them between two compiles.        *)
Program == [Stmt -> {None} \cup [code : Code, cached : BOOLEAN]]
ASSUME NoneAssumption == None \notin Program
Edit(s) ==
  /\ job = Idle /\ edits < MaxEdit
  /\ edits' = edits + 1
  /\ \E new \in Program \ {text[s]} : text' = [text EXCEPT ![s] = new]
  /\ UNCHANGED <<imported, session, registry, nextKey, disk, job, stops, fails>>

Evict(s) ==
  /\ job = Idle /\ unreachable[s] \cap Filed # {}
  /\ LET gone == Freed(unreachable[s]) IN
       /\ registry' = Without(gone)
       /\ unreachable' = [unreachable EXCEPT ![s] = (@ \cap Filed) \ gone]
  /\ UNCHANGED <<imported, text, last, cells, build, nextKey, disk, job, bounds>>

NoSession == /\ last' = [s \in Source |-> None]
             /\ cells' = [s \in Source |-> Blank]
             /\ build' = [s \in Source |-> {}]
             /\ unreachable' = [s \in Source |-> {}]

(* The import is recompiled under its key; the host drops the sessions that    *)
(* read it, and what they retained stays filed.                                *)
ImportChanges ==
  /\ job = Idle /\ imported < MaxImport
  /\ imported' = imported + 1
  /\ registry' = [Without(Freed(UNION Range(unreachable))) EXCEPT ![0] = ImportArtifact(imported + 1)]
  /\ NoSession
  /\ UNCHANGED <<text, nextKey, disk, job, bounds>>

(* The process ends, in the middle of whatever it was doing (of a saving, at   *)
(* the expense of fails), and the next one begins with an empty registry.      *)
Stop ==
  /\ stops < MaxStop
  /\ \/ job.pc # "save" /\ fails' = fails
     \/ job.pc = "save" /\ fails < MaxFail /\ fails' = fails + 1
  /\ stops' = stops + 1
  /\ registry' = FreshRegistry(imported) /\ nextKey' = 0
  /\ NoSession
  /\ job' = Idle
  /\ UNCHANGED <<imported, text, disk, edits>>

-----------------------------------------------------------------------------
(* One compile: load what the cache holds, reconcile, build and freeze, save.  *)

Begin(s) ==
  /\ job = Idle
  /\ text[s] # last[s]
  /\ job' = [pc |-> "load", source |-> s,
             todo |-> IF last[s] = None THEN {i \in Stmt : disk[s][i] # None} ELSE {}]
  /\ UNCHANGED <<imported, text, session, registry, nextKey, disk, bounds>>

NotReserved(k) == nextKey

(* reserve_cell_key.                                                           *)
Reserved(k) == Max({nextKey, k})

(* load_cells, one record, in the order the directory lists them: its key must *)
(* be free, and every module it names registered with the hash it names.       *)
Loads(record) ==
  /\ record.module \notin Filed
  /\ \A ref \in record.refs : ref[1] \in Filed /\ registry[ref[1]].hash = ref[2]

LoadRecord(s, i) ==
  LET record == disk[s][i] IN
  /\ job.pc = "load" /\ job.source = s /\ i \in job.todo
  /\ IF Loads(record)
       THEN /\ registry' = [k \in Filed \cup {record.module} |->
                              IF k = record.module THEN record.artifact ELSE registry[k]]
            /\ nextKey' = Reserved(record.module)
            /\ cells' = [cells EXCEPT ![s][i] = [module |-> record.module, key |-> record.key]]
       ELSE UNCHANGED <<registry, nextKey, cells>>
  /\ job' = [job EXCEPT !.todo = @ \ {i}]
  /\ UNCHANGED <<imported, text, last, build, unreachable, disk, bounds>>

(* invalidate_paths and retain_marked.                                         *)
Kept(s, dirty) ==
  [i \in Stmt |-> IF i \in Marked(text[s]) \ dirty THEN cells[s][i] ELSE None]
Dropped(s, dirty) ==
  {cells[s][i].module : i \in {j \in Stmt : cells[s][j] # None /\ Kept(s, dirty)[j] = None}}

(* The lowering: a retained cell is a reference to its artifact, anything else *)
(* is built in this module, and a freeze copies what it reaches.               *)
Lowered(prog, kept) ==
  LET node[i \in 0..N] ==
        IF i = 0 THEN [own |-> {}, refs |-> {0}]
        ELSE IF prog[i] = None THEN [own |-> {<<i, None>>}, refs |-> {}]
        ELSE IF kept[i] # None THEN [own |-> {}, refs |-> {kept[i].module}]
        ELSE LET read == {node[j] : j \in ReadsOf(prog, i)} IN
             [own |-> {PairOf(prog, i)} \cup UNION {n.own : n \in read},
              refs |-> UNION {n.refs : n \in read}]
  IN node

(* freeze_cells: the cells of a clean build, under fresh keys, with no hash.   *)
Frozen(prog, kept) == IF Ok(prog) THEN {i \in Marked(prog) : kept[i] = None} ELSE {}
OneKey(frozen, i) == nextKey + 1

FreshKey(frozen, i) == nextKey + Cardinality({j \in frozen : j <= i})

Freeze(s, kept) ==
  LET prog == text[s]
      frozen == Frozen(prog, kept)
      artifact(i) == [own |-> Lowered(prog, kept)[i].own, refs |-> Lowered(prog, kept)[i].refs,
                      hash |-> 0]
  IN
  /\ nextKey + Cardinality(frozen) <= MaxKey
  /\ nextKey' = nextKey + Cardinality(frozen)
  /\ registry' = [k \in Filed \cup {FreshKey(frozen, i) : i \in frozen} |->
                    IF k \in Filed THEN registry[k]
                    ELSE artifact(CHOOSE i \in frozen : FreshKey(frozen, i) = k)]
  /\ cells' = [cells EXCEPT ![s] = [i \in Stmt |->
                 IF i \in frozen THEN [module |-> FreshKey(frozen, i), key |-> Keys(prog)[i]]
                 ELSE IF kept[i] # None THEN [kept[i] EXCEPT !.key = Keys(prog)[i]]
                 ELSE None]]
  /\ job' = [job EXCEPT !.pc = "save", !.todo = frozen]

Rebuild(s) ==
  /\ job.pc = "load" /\ job.source = s /\ job.todo = {}
  /\ \E dirty \in IF last[s] = None
                    THEN {Misjudged(cells[s], text[s])}
                    ELSE {Dirty(last[s], text[s], w) : w \in Windows(last[s], text[s])} :
       /\ Freeze(s, Kept(s, dirty))
       /\ unreachable' = [unreachable EXCEPT ![s] = @ \cup Dropped(s, dirty)]
       /\ build' = [build EXCEPT ![s] = {c.module : c \in Range(Kept(s, dirty)) \ {None}}]
  /\ last' = [last EXCEPT ![s] = text[s]]
  /\ UNCHANGED <<imported, text, disk, bounds>>

(* save_cells: a cell without a key, or whose closure the codec refuses, is    *)
(* not written; its older file, if any, stays.                                 *)
Storable(cell) == cell.key # None /\ registry[cell.module].own \cap Unstorable = {}
RecordOf(cell) ==
  [module |-> cell.module, key |-> cell.key, artifact |-> registry[cell.module],
   refs |-> {<<k, registry[k].hash>> : k \in registry[cell.module].refs}]

SaveRecord(s, i) ==
  /\ job.pc = "save" /\ job.source = s /\ i \in job.todo
  /\ disk' = IF Storable(cells[s][i])
               THEN [disk EXCEPT ![s][i] = RecordOf(cells[s][i])] ELSE disk
  /\ job' = [job EXCEPT !.todo = @ \ {i}]
  /\ UNCHANGED <<imported, text, session, registry, nextKey, bounds>>

(* The first file that cannot be written ends the writing.                     *)
SaveFails ==
  /\ job.pc = "save" /\ job.todo # {} /\ fails < MaxFail
  /\ fails' = fails + 1
  /\ job' = [job EXCEPT !.todo = {}]
  /\ UNCHANGED <<imported, text, session, registry, nextKey, disk, edits, stops>>

(* prune: the files of the paths that are no longer retained.                  *)
Prune(s) ==
  /\ job.pc = "save" /\ job.source = s /\ job.todo = {}
  /\ disk' = [disk EXCEPT ![s] = [i \in Stmt |-> IF cells[s][i] = None THEN None ELSE @[i]]]
  /\ job' = Idle
  /\ UNCHANGED <<imported, text, session, registry, nextKey, bounds>>

-----------------------------------------------------------------------------
Init ==
  /\ imported = 1
  /\ text = [s \in Source |-> Blank]
  /\ last = [s \in Source |-> None]
  /\ cells = [s \in Source |-> Blank]
  /\ build = [s \in Source |-> {}]
  /\ unreachable = [s \in Source |-> {}]
  /\ registry = FreshRegistry(1)
  /\ nextKey = 0
  /\ disk = [s \in Source |-> Blank]
  /\ job = Idle
  /\ edits = 0 /\ stops = 0 /\ fails = 0

CompileStep(s) ==
  \/ Begin(s) \/ Rebuild(s) \/ Prune(s)
  \/ \E i \in Stmt : LoadRecord(s, i) \/ SaveRecord(s, i)

Next ==
  \/ \E s \in Source : Edit(s) \/ Evict(s) \/ CompileStep(s)
  \/ SaveFails \/ ImportChanges \/ Stop

Spec == Init /\ [][Next]_vars

-----------------------------------------------------------------------------
(* Properties. *)

(* The cells and the registry keep their shape: a module refers to modules     *)
(* filed before it only, and no two cells name one module.                     *)
Retained == {x \in Source \X Stmt : cells[x[1]][x[2]] # None}
TypeOK ==
  /\ imported \in 1..MaxImport
  /\ Filed \subseteq 0..MaxKey /\ 0 \in Filed
  /\ \A k \in Filed : registry[k].refs \subseteq 0..(k - 1)
  /\ \A x, y \in Retained : cells[x[1]][x[2]].module = cells[y[1]][y[2]].module => x = y
  /\ \A s \in Source : build[s] \subseteq 0..MaxKey /\ unreachable[s] \subseteq 0..MaxKey

(* compile: a retained cell answers what a fresh compile of the program that   *)
(* was just built would compute, whatever was edited, dropped, loaded and      *)
(* stored before.                                                              *)
Compiled(s) == last[s] # None /\ ~(job.pc = "load" /\ job.source = s)
RetainedIsFresh ==
  \A x \in Retained : Compiled(x[1]) =>
    Contents[cells[x[1]][x[2]].module] = Fresh(last[x[1]])[x[2]]

(* evict_unreachable: eviction leaves no reader behind: every module a         *)
(* retained cell or the established build reads, however deep, is filed.       *)
ReadersResolve ==
  /\ \A k \in Filed : registry[k].refs \subseteq Filed
  /\ \A x \in Retained : cells[x[1]][x[2]].module \in Filed
  /\ \A s \in Source : build[s] \subseteq Filed
=============================================================================
