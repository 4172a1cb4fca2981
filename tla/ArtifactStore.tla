---------------------------- MODULE ArtifactStore ----------------------------
(***************************************************************************)
(* The package store of a compiler process (lichen-language, package.rs)   *)
(* over the cross-process artifact index: how a package is loaded, that    *)
(* is, verified against the recorded hashes, reused from its artifact, or  *)
(* compiled against its imports and published.                             *)
(*                                                                         *)
(* SHA-256 is taken to be injective: a hash is the value that was hashed.  *)
(* An artifact identity is then a tree of the same shape as the content of *)
(* a compiled package (see ColdCompile), and an artifact is right exactly  *)
(* when the identity in its header is the content behind it.  Module keys, *)
(* the registry's lock and its key allocation are module DeviceRegistry's. *)
(***************************************************************************)
EXTENDS Naturals, Sequences, FiniteSets

CONSTANTS
    Process,        \* the compiler processes
    File,           \* package files
    Version,        \* what an edit may leave in a file
    Imports,        \* the files that each version of each file imports
    Broken,         \* the <<file, version>> pairs that do not compile
    Uncached,       \* ... and those whose module has no artifact form
    Linked,         \* the files that link a dynamic library
    Roots,          \* the packages some program imports
    Shared,         \* processes whose stores share one module registry
    EditWhileOpen,  \* may sources change while a process has a store?
    None,           \* no such thing
    MaxEdit,        \* bound on edits
    MaxCrash,       \* bound on crashes
    MaxStoreFail    \* bound on artifact files that cannot be written

ASSUME StoreAssumption ==
    /\ Imports \in [File \X Version -> SUBSET File]
    /\ Broken \subseteq File \X Version
    /\ Uncached \subseteq File \X Version
    /\ Linked \subseteq File /\ Roots \subseteq File /\ Shared \subseteq Process
    /\ EditWhileOpen \in BOOLEAN
    /\ None \notin Version
    /\ MaxEdit \in Nat /\ MaxCrash \in Nat /\ MaxStoreFail \in Nat

VARIABLES
    src,       \* the text of each file and the library it links
    rec,       \* the published record of each file
    art,       \* the artifact file of each file
    reg,       \* each process's module registry
    packages,  \* the packages each process's store has loaded
    loading,   \* the loads in flight in each process, innermost first
    frame,     \* ... and how far each of them is
    panicked,  \* processes that died of another module under a key
    counts     \* how many edits and faults happened

vars == <<src, rec, art, reg, packages, loading, frame, panicked, counts>>

Source == [text : Version, lib : Version \cup {None}]

Nothing == [f \in File |-> None]

-----------------------------------------------------------------------------
(* The index: what is recorded of a file, and what is recomputed from it.  *)

\* What a dependency contributes to its importer's fold: the identity it was
\* published with, or the sentinel of a file with no published record.
RecordedId(g) == IF rec[g] = None THEN None ELSE rec[g].id

\* The identity of an artifact over its dependencies as recorded now.
Fold(text, lib, deps) ==
    [text |-> text, lib |-> lib, on |-> [g \in deps |-> RecordedId(g)]]

\* A pending record's all-zero source hash matches nothing.
Matches(g, text) == rec[g] # None /\ rec[g].text = text

\* Mutant: the walk stops at the file's own hash.
UpToDateShallow(f, text) == Matches(f, text)

\* verify: the file and everything below it in the recorded graph are as
\* they were when they were recorded.
UpToDate(f, text) ==
    /\ Matches(f, text)
    /\ \E below \in SUBSET (File \ {f}) :
          /\ rec[f].deps \subseteq below \cup {f}
          /\ \A g \in below : Matches(g, src[g].text)
                              /\ rec[g].deps \subseteq below \cup {f}

-----------------------------------------------------------------------------
(* A load in flight.                                                       *)

\* The local state of load_package for one file; no file is in flight twice.
NoFrame == [at |-> "none", text |-> None, id |-> None, want |-> {}, failed |-> {}]
NewFrame == [at |-> "read", text |-> None, id |-> None, want |-> {}, failed |-> {}]
NoFrames == [f \in File |-> NoFrame]

Top(p) == Head(loading[p])
Me(p) == frame[p][Top(p)]
At(p, place) == loading[p] # <<>> /\ Me(p).at = place

Push(p, f) ==
    /\ loading' = [loading EXCEPT ![p] = <<f>> \o @]
    /\ frame' = [frame EXCEPT ![p] = [@ EXCEPT ![f] = NewFrame]]

\* The innermost load of p goes on as frame fr.
Becomes(p, fr) ==
    /\ frame' = [frame EXCEPT ![p] = [@ EXCEPT ![Top(p)] = fr]]
    /\ UNCHANGED loading

\* Mutant: a load that succeeds stays on the stack of loads in flight.
DoneWithoutPop(p) ==
    /\ packages' = [packages EXCEPT ![p] = @ \cup {Top(p)}]
    /\ frame' = [frame EXCEPT ![p] = [@ EXCEPT ![Top(p)] = NoFrame]]
    /\ UNCHANGED loading

\* The innermost load of p succeeds.
Done(p) ==
    /\ packages' = [packages EXCEPT ![p] = @ \cup {Top(p)}]
    /\ frame' = [frame EXCEPT ![p] = [@ EXCEPT ![Top(p)] = NoFrame]]
    /\ loading' = [loading EXCEPT ![p] = Tail(@)]

\* A caller learns that g does not load: reuse gives up at once, while the
\* preprocessor goes on to the block's other imports.
Told(fr, g) == IF fr.at = "deps" THEN [fr EXCEPT !.at = "failed"]
                                 ELSE [fr EXCEPT !.failed = @ \cup {g}]

\* Everything the innermost load needs is loaded, or failed to.
Settled(p) == Me(p).want \subseteq packages[p] \cup Me(p).failed

Closed(p) == packages[p] = {} /\ loading[p] = <<>>

Init ==
    /\ src \in {s \in [File -> Source] :
                   \A f \in File : (s[f].lib # None) <=> (f \in Linked)}
    /\ rec = Nothing
    /\ art = Nothing
    /\ reg = [p \in Process |-> Nothing]
    /\ packages = [p \in Process |-> {}]
    /\ loading = [p \in Process |-> <<>>]
    /\ frame = [p \in Process |-> NoFrames]
    /\ panicked = {}
    /\ counts = [edit |-> 0, crash |-> 0, store |-> 0]

-----------------------------------------------------------------------------
(* Loading a package.                                                      *)

\* A program's own import; one that is loaded already answers at once.
Begin(p, f) ==
    /\ loading[p] = <<>> /\ p \notin panicked
    /\ f \in Roots \ packages[p]
    /\ Push(p, f)
    /\ UNCHANGED <<src, rec, art, reg, packages, panicked, counts>>

\* The source is read once, for verification and compile both.
ReadSource(p) ==
    /\ At(p, "read")
    /\ Becomes(p, [Me(p) EXCEPT !.at = "verify", !.text = src[Top(p)].text])
    /\ UNCHANGED <<src, rec, art, reg, packages, panicked, counts>>

\* The load has to compile: its imports are still to resolve.
Compiles(p) ==
    Becomes(p, [Me(p) EXCEPT !.at = "imports", !.want = Imports[Top(p), Me(p).text]])

\* Mutant: the identity is read from the record, not recomputed.
ReusesRecorded(p) ==
    Becomes(p, [Me(p) EXCEPT !.at = "deps", !.want = rec[Top(p)].deps,
                             !.id = rec[Top(p)].id])

\* The load may reuse: its recorded dependencies are still to load.
Reuses(p) ==
    Becomes(p, [Me(p) EXCEPT !.at = "deps", !.want = rec[Top(p)].deps,
                             !.id = Fold(Me(p).text, None, rec[Top(p)].deps)])

\* The walk reads the sources of the whole recorded graph; it is one step here.
Verify(p) ==
    /\ At(p, "verify")
    /\ IF UpToDate(Top(p), Me(p).text) THEN Reuses(p) ELSE Compiles(p)
    /\ UNCHANGED <<src, rec, art, reg, packages, panicked, counts>>

\* The next recorded dependency, or the next import of the block, loads first;
\* one that is in flight closes a cycle.
LoadNext(p) ==
    /\ At(p, "deps") \/ At(p, "imports")
    /\ \E g \in Me(p).want \ (packages[p] \cup Me(p).failed) :
          IF frame[p][g].at # "none" THEN Becomes(p, Told(Me(p), g)) ELSE Push(p, g)
    /\ UNCHANGED <<src, rec, art, reg, packages, panicked, counts>>

\* The load fails, and its caller is told.
Fail(p) ==
    LET callers == Tail(loading[p]) IN
    /\ At(p, "failed") \/ (At(p, "imports") /\ Settled(p) /\ Me(p).failed # {})
    /\ loading' = [loading EXCEPT ![p] = callers]
    /\ frame' = [frame EXCEPT ![p] =
                    [g \in File |->
                        IF g = Top(p) THEN NoFrame
                        ELSE IF callers # <<>> /\ g = Head(callers)
                             THEN Told(frame[p][g], Top(p))
                             ELSE frame[p][g]]]
    /\ UNCHANGED <<src, rec, art, reg, packages, panicked, counts>>

Reusing(p) == At(p, "deps") /\ Settled(p)

\* This process's registry holds the very artifact already.
ReuseRegistered(p) ==
    /\ Reusing(p)
    /\ reg[p][Top(p)] # None /\ reg[p][Top(p)].id = Me(p).id
    /\ Done(p)
    /\ UNCHANGED <<src, rec, art, reg, panicked, counts>>

\* ... or another one under the same key.
KeyPanic(p) ==
    /\ Reusing(p)
    /\ reg[p][Top(p)] # None /\ reg[p][Top(p)].id # Me(p).id
    /\ panicked' = panicked \cup {p}
    /\ loading' = [loading EXCEPT ![p] = <<>>]
    /\ frame' = [frame EXCEPT ![p] = NoFrames]
    /\ packages' = [packages EXCEPT ![p] = {}]
    /\ UNCHANGED <<src, rec, art, reg, counts>>

\* Mutant: an artifact on disk is taken for the verified one.
HeaderUnread(f, id) == art[f] # None

\* The header of the artifact on disk carries the verified identity.
HeaderMatches(f, id) == art[f] # None /\ art[f].id = id

LoadArtifact(p) ==
    /\ Reusing(p)
    /\ reg[p][Top(p)] = None /\ HeaderMatches(Top(p), Me(p).id)
    /\ reg' = [reg EXCEPT ![p] = [@ EXCEPT ![Top(p)] = art[Top(p)]]]
    /\ Done(p)
    /\ UNCHANGED <<src, rec, art, panicked, counts>>

\* Mutant: a rejected artifact is verified once more.
RejectArtifactRetries(p) ==
    /\ Reusing(p)
    /\ reg[p][Top(p)] = None /\ ~HeaderMatches(Top(p), Me(p).id)
    /\ Becomes(p, [Me(p) EXCEPT !.at = "verify"])
    /\ UNCHANGED <<src, rec, art, reg, packages, panicked, counts>>

\* Otherwise the source that was read is compiled.
RejectArtifact(p) ==
    /\ Reusing(p)
    /\ reg[p][Top(p)] = None /\ ~HeaderMatches(Top(p), Me(p).id)
    /\ Compiles(p)
    /\ UNCHANGED <<src, rec, art, reg, packages, panicked, counts>>

Buildable(p) == At(p, "imports") /\ Settled(p) /\ Me(p).failed = {}

Breaks(p) == <<Top(p), Me(p).text>> \in Broken

CompileFails(p) ==
    /\ Buildable(p) /\ Breaks(p)
    /\ Becomes(p, [Me(p) EXCEPT !.at = "failed"])
    /\ UNCHANGED <<src, rec, art, reg, packages, panicked, counts>>

\* Mutant: the module is filed under the hash of its source alone.
FrozenOverSource(p) ==
    LET lib == src[Top(p)].lib
    IN  [id |-> Fold(Me(p).text, lib, {}),
         code |-> [text |-> Me(p).text, lib |-> lib,
                   on |-> [g \in Me(p).want |-> reg[p][g].code]]]

\* What the freeze files: the identity from the index, the content from the
\* modules of this process.
Frozen(p) ==
    LET lib == src[Top(p)].lib
    IN  [id |-> Fold(Me(p).text, lib, Me(p).want),
         code |-> [text |-> Me(p).text, lib |-> lib,
                   on |-> [g \in Me(p).want |-> reg[p][g].code]]]

Compile(p) ==
    /\ Buildable(p) /\ ~Breaks(p)
    /\ reg' = [reg EXCEPT ![p] = [@ EXCEPT ![Top(p)] = Frozen(p)]]
    /\ Becomes(p, [Me(p) EXCEPT !.at = "store"])
    /\ UNCHANGED <<src, rec, art, packages, panicked, counts>>

-----------------------------------------------------------------------------
(* Storing and publishing what was compiled.                               *)

Cacheable(p) == <<Top(p), Me(p).text>> \notin Uncached

\* A module that names a live kernel is left uncached.
SkipStore(p) ==
    /\ At(p, "store") /\ ~Cacheable(p)
    /\ Done(p)
    /\ UNCHANGED <<src, rec, art, reg, panicked, counts>>

StoreArtifact(p) ==
    /\ At(p, "store") /\ Cacheable(p)
    /\ art' = [art EXCEPT ![Top(p)] = reg[p][Top(p)]]
    /\ Becomes(p, [Me(p) EXCEPT !.at = "publish"])
    /\ UNCHANGED <<src, rec, reg, packages, panicked, counts>>

\* A write the file system refuses leaves the previous artifact, unreported.
StoreFails(p) ==
    /\ At(p, "store") /\ Cacheable(p)
    /\ counts.store < MaxStoreFail
    /\ counts' = [counts EXCEPT !.store = @ + 1]
    /\ Becomes(p, [Me(p) EXCEPT !.at = "publish"])
    /\ UNCHANGED <<src, rec, art, reg, packages, panicked>>

\* Mutant: the record is completed without the dependency list.
RecordNoDeps(p) ==
    [text |-> Me(p).text, deps |-> {}, id |-> Fold(Me(p).text, None, Me(p).want)]

\* The record's hash is of the source alone, its identity is folded anew.
Record(p) ==
    [text |-> Me(p).text, deps |-> Me(p).want,
     id |-> Fold(Me(p).text, None, Me(p).want)]

\* Mutant: only a file that has no record yet is published.
PublishOnce(p) ==
    /\ At(p, "publish")
    /\ rec' = [rec EXCEPT ![Top(p)] = IF @ # None THEN @ ELSE Record(p)]
    /\ Done(p)
    /\ UNCHANGED <<src, art, reg, panicked, counts>>

Publish(p) ==
    /\ At(p, "publish")
    /\ rec' = [rec EXCEPT ![Top(p)] = Record(p)]
    /\ Done(p)
    /\ UNCHANGED <<src, art, reg, panicked, counts>>

-----------------------------------------------------------------------------
(* The store's end, and what happens outside it.                           *)

\* The store is dropped; a shared registry outlives it.
CloseStore(p) ==
    /\ loading[p] = <<>> /\ packages[p] # {}
    /\ packages' = [packages EXCEPT ![p] = {}]
    /\ reg' = IF p \in Shared THEN reg ELSE [reg EXCEPT ![p] = Nothing]
    /\ UNCHANGED <<src, rec, art, loading, frame, panicked, counts>>

\* The process is killed in the middle of a load.
Crash(p) ==
    /\ loading[p] # <<>>
    /\ counts.crash < MaxCrash
    /\ counts' = [counts EXCEPT !.crash = @ + 1]
    /\ packages' = [packages EXCEPT ![p] = {}]
    /\ reg' = [reg EXCEPT ![p] = Nothing]
    /\ loading' = [loading EXCEPT ![p] = <<>>]
    /\ frame' = [frame EXCEPT ![p] = NoFrames]
    /\ UNCHANGED <<src, rec, art, panicked>>

\* A source is saved, or a linked library rebuilt.
Edit(f) ==
    /\ EditWhileOpen \/ \A p \in Process : Closed(p)
    /\ counts.edit < MaxEdit
    /\ counts' = [counts EXCEPT !.edit = @ + 1]
    /\ \E v \in Version :
          \/ v # src[f].text /\ src' = [src EXCEPT ![f] = [@ EXCEPT !.text = v]]
          \/ f \in Linked /\ v # src[f].lib /\ src' = [src EXCEPT ![f] = [@ EXCEPT !.lib = v]]
    /\ UNCHANGED <<rec, art, reg, packages, loading, frame, panicked>>

-----------------------------------------------------------------------------
Step(p) ==
    \/ ReadSource(p) \/ Verify(p) \/ LoadNext(p) \/ Fail(p)
    \/ ReuseRegistered(p) \/ KeyPanic(p) \/ LoadArtifact(p) \/ RejectArtifact(p)
    \/ CompileFails(p) \/ Compile(p)
    \/ SkipStore(p) \/ StoreArtifact(p) \/ Publish(p)

Next ==
    \/ \E p \in Process : \/ Step(p) \/ StoreFails(p) \/ CloseStore(p) \/ Crash(p)
                          \/ \E f \in File : Begin(p, f)
    \/ \E f \in File : Edit(f)

Spec == Init /\ [][Next]_vars

\* A load that was begun is carried on; nobody has to begin one.
FairSpec == Spec /\ \A p \in Process : WF_vars(Step(p))

-----------------------------------------------------------------------------
(* Properties.                                                             *)

\* The root of an identity or of a content.
Tree(t) == /\ DOMAIN t = {"text", "lib", "on"}
           /\ t.text \in Version /\ t.lib \in Version \cup {None}
           /\ DOMAIN t.on \subseteq File

\* The shape of the state.
TypeOK ==
    /\ src \in [File -> Source]
    /\ \A f \in File :
          /\ rec[f] # None => /\ rec[f].text \in Version /\ rec[f].deps \subseteq File
                              /\ Tree(rec[f].id)
          /\ art[f] # None => Tree(art[f].id) /\ Tree(art[f].code)
          /\ \A p \in Process :
                reg[p][f] # None => Tree(reg[p][f].id) /\ Tree(reg[p][f].code)
    /\ packages \in [Process -> SUBSET File]
    /\ loading \in [Process -> Seq(File)]
    /\ \A p \in Process, f \in File :
          LET fr == frame[p][f] IN
          /\ fr.at # "none" <=> \E i \in 1 .. Len(loading[p]) : loading[p][i] = f
          /\ fr.at \in {"none", "read", "verify", "deps", "imports", "store", "publish",
                        "failed"}
          /\ fr.text \in Version \cup {None}
          /\ fr.id # None => Tree(fr.id)
          /\ fr.want \subseteq File /\ fr.failed \subseteq fr.want
    /\ panicked \subseteq Process
    /\ counts \in [edit : 0 .. MaxEdit, crash : 0 .. MaxCrash, store : 0 .. MaxStoreFail]

\* The store implements a compiler without a cache.
Promise == INSTANCE ColdCompile WITH
    held <- [p \in Process |->
                [f \in File |-> IF f \in packages[p] THEN reg[p][f].code ELSE None]]

\* Whatever a process has loaded is what a cold compile of the sources as they
\* are gives, whoever compiled it and whenever (try_reuse, build_package).
ImplementsColdCompile == Promise!Spec

Refers(m, g) == g \in DOMAIN m.code.on

\* A loaded package was compiled against the very modules this process holds
\* for its imports: its references are indices into their arenas
\* (load_artifact, build_package).
RefsResolve ==
    \A p \in Process : \A f, g \in packages[p] :
        Refers(reg[p][f], g) => reg[p][f].code.on[g] = reg[p][g].code

\* The identity in the header of an artifact is the content behind it: equal
\* identities, which is all a load compares, mean equal artifacts
\* (artifact_identity, load_artifact).
HeadersAreHonest ==
    \A f \in File : art[f] # None => art[f].id = art[f].code

\* No key is reclaimed in this model, so nobody should die of "was reclaimed and
\* reallocated" (try_reuse).  Refuted where a registry outlives its store: an edited
\* package that is loaded before its importer meets its own old module.
NobodyPanics == panicked = {}

\* A process that dies of the module its registry has kept under a key dies of an
\* old one: the sources, as they are, compile to another (try_reuse).
PanicsAreOfOldModules ==
    [][\A p \in panicked' \ panicked :
          reg[p][Top(p)].code # Promise!Cold(src)[Top(p)]]_vars

\* Without a fault, what a process has loaded with its store the next process
\* reuses: a change costs one compile, not one on every run (artifact_identity,
\* publish, verify).
NextRunReuses ==
    counts.crash = 0 /\ counts.store = 0 =>
      \A p \in Process \ Shared : \A f \in {g \in packages[p] : <<g, src[g].text>> \notin Uncached} :
        /\ UpToDate(f, src[f].text)
        /\ HeaderMatches(f, Fold(src[f].text, None, rec[f].deps))

\* A load comes to an end, with a handle, with diagnostics or with a panic,
\* import cycles included (load_package).
LoadsEnd == \A p \in Process : (loading[p] # <<>>) ~> (loading[p] = <<>>)
=============================================================================
