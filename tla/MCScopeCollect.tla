--------------------------- MODULE MCScopeCollect ---------------------------
(***************************************************************************)
(* Small instances of ScopeCollect.  A graph with everything at once is    *)
(* out of reach, so the run explores four families, each with the parts    *)
(* whose interplay matters; every state of a family is reached through     *)
(* states of the same family.                                              *)
(***************************************************************************)
EXTENDS ScopeCollect, TLC

\* A slot map's keys are interchangeable.
Keys == Permutations(Node)

Born(records) == Cardinality({k \in DOMAIN records : records[k].status # "unborn"})
Tags == {node[n].value.tag : n \in {m \in LiveNode : node[m].value # None}}
NoOperations == \A n \in LiveNode : node[n].operand = None
NoItems == \A n \in LiveNode : node[n].value # None => node[n].value.items = {}

\* One tree of blocks: a forest's trees do not meet.
OneTree == Cardinality({b \in LiveBlock : block[b].parent = None}) <= 1

\* Operators that read across a scope's boundary.
Operations ==
    /\ Born(block) <= 2 /\ Born(function) = 0
    /\ asserts = {} /\ Tags \subseteq {"array"}

\* A pending assert in a scope, over values.
Asserts ==
    /\ Born(block) <= 2 /\ Born(function) = 0
    /\ Cardinality(asserts) <= 1 /\ NoOperations

\* Functions, their templates and their nesting.
Templates ==
    /\ Born(node) + Born(function) <= 4 /\ Born(block) <= 2
    /\ asserts = {} /\ NoOperations /\ NoItems /\ "scalar" \notin Tags

\* A scope within a scope.
Nested ==
    /\ Born(function) = 0
    /\ asserts = {} /\ NoOperations /\ Tags \subseteq {"array"}

Families ==
    /\ OneTree
    /\ Operations \/ Asserts \/ Templates \/ Nested
=============================================================================
