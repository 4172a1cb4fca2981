-------------------------- MODULE MCLanguageServer --------------------------
(* Small instances of LanguageServer. *)
EXTENDS LanguageServer, TLC

(* The documents are interchangeable: a safety property may merge the states   *)
(* that differ by a renaming of them.                                          *)
Symmetric == Permutations(Uri)
=============================================================================
