----------------------------- MODULE ColdCompile -----------------------------
(***************************************************************************)
(* What the artifact store promises a program: the package it imports is   *)
(* the one a compiler without any cache would build from the sources as    *)
(* they are, imports and their imports included.                           *)
(*                                                                         *)
(* The content of a compiled package is the text it was compiled from, the *)
(* version of the library it links, and the content of each of its imports *)
(* (a frozen module's references are indices into their arenas).           *)
(***************************************************************************)
EXTENDS FiniteSets

CONSTANTS
    Process,  \* the compiler processes
    File,     \* package files
    Version,  \* what an edit may leave in a file
    Imports,  \* the files that each version of each file imports
    Broken,   \* the <<file, version>> pairs that do not compile
    None      \* no such thing

VARIABLES
    src,   \* the text of each file and the library it links
    held   \* the content of each package each process has loaded

vars == <<src, held>>

Source == [text : Version, lib : Version \cup {None}]

-----------------------------------------------------------------------------
\* What a compile of f produces over its imports, below: None if it does not
\* compile, or something it imports does not.
Built(s, f, below) ==
    LET on == Imports[f, s[f].text]
    IN  IF <<f, s[f].text>> \in Broken \/ \E g \in on : below[g] = None
        THEN None
        ELSE [text |-> s[f].text, lib |-> s[f].lib, on |-> [g \in on |-> below[g]]]

\* The content a compile of every file from nothing produces, None for a file
\* that does not compile or imports itself; busy are the loads in flight.
Cold(s) ==
    LET Compiled[busy \in SUBSET File] ==
            [f \in File |-> IF f \in busy THEN None
                            ELSE Built(s, f, Compiled[busy \cup {f}])]
    IN  Compiled[{}]

Nothing == [f \in File |-> None]

Init ==
    /\ src \in [File -> Source]
    /\ held = [p \in Process |-> Nothing]

\* Somebody saves a file or rebuilds a library.
Edit ==
    /\ \E f \in File, s \in Source : src' = [src EXCEPT ![f] = s]
    /\ UNCHANGED held

Load(p, f) ==
    /\ Cold(src)[f] # None
    /\ held' = [held EXCEPT ![p][f] = Cold(src)[f]]
    /\ UNCHANGED src

\* A store is dropped, or its process dies.
Forget(p) ==
    /\ held' = [held EXCEPT ![p] = Nothing]
    /\ UNCHANGED src

Next == Edit \/ \E p \in Process : Forget(p) \/ \E f \in File : Load(p, f)

Spec == Init /\ [][Next]_vars
=============================================================================
