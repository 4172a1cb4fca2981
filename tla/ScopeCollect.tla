---------------------------- MODULE ScopeCollect ----------------------------
(***************************************************************************)
(* The value graph of one lichen-lowlevel Module and the collector that    *)
(* ends a scope: nodes homed in a tree of blocks, equality classes over    *)
(* them that are decided as a whole, function templates that own nodes, and*)
(* garbage_collect, which moves what a scope's root reaches into the       *)
(* parent block and releases the rest with the block's arena.              *)
(*                                                                         *)
(* The walk is a recursion in the code.  Here it is one Visit per node,    *)
(* over the sets of nodes reached (grey) and entered (black), in any order *)
(* of the pending ones; nothing else runs while a collect does.  A value   *)
(* is its tag, the nodes it names and the arena its payload lives in.      *)
(* Frozen modules, the wildcard, the Error value and the side tables of    *)
(* the host are left out, and so are table and extension payloads, which   *)
(* the walk treats as it treats an array.                                  *)
(***************************************************************************)
EXTENDS DisjointSet

CONSTANTS Node, Block, Function, \* Slot-map keys; a key is never reused.
          Width                  \* The most items a fresh array is given.

ASSUME KeysAreOrdered == Block \cup Function \subseteq Nat
ASSUME KeysAreKeys == None \notin Node \cup Block \cup Function
ASSUME NodesAreFinite == IsFiniteSet(Node)
ASSUME WidthIsNat == Width \in Nat

VARIABLES node,     \* The node records of Module::nodes.
          meta,     \* Their union-find links.
          block,    \* Module::blocks.
          function, \* Module::functions.
          asserts,  \* The conditions of the pending asserts.
          walk      \* The collect in progress.

vars == <<node, meta, block, function, asserts, walk>>

-----------------------------------------------------------------------------
Tag == {"scalar", "array", "function"}
Value == [tag : Tag, items : SUBSET Node, arena : Block \cup {None},
          function : Function \cup {None}]

ASSUME NoneIsNoValue == None \notin Value \cup Tag

Scalar == [tag |-> "scalar", items |-> {}, arena |-> None, function |-> None]
Array(items, arena) ==
    [tag |-> "array", items |-> items, arena |-> arena, function |-> None]
Closure(f) ==
    [tag |-> "function", items |-> {}, arena |-> None, function |-> f]

Status == {"unborn", "live", "released"}
NodeRecord == [status : Status, block : Block \cup {None},
               value : Value \cup {None}, operand : Node \cup {None},
               ran : BOOLEAN, owner : Function \cup {None},
               shape : Tag \cup {None}, summary : SUBSET Function]
Links == [parent : Node \cup {None}, next : Node \cup {None},
          tail : Node \cup {None}, size : Nat]
BlockRecord == [status : Status, parent : Block \cup {None},
                line : SUBSET Block, root : Node \cup {None}]
FunctionRecord == [status : Status, block : Block \cup {None},
                   nodes : SUBSET Node, scope : SUBSET Function]
Stage == {"idle", "root", "asserts", "templates"}
Walk == [stage : Stage, source : Block \cup {None}, target : Block \cup {None},
         grey : SUBSET Node, black : SUBSET Node, classes : SUBSET Node,
         entries : SUBSET Node, moved : SUBSET Node]

TypeOK ==
    /\ node \in [Node -> NodeRecord]
    /\ meta \in [Node -> Links]
    /\ block \in [Block -> BlockRecord]
    /\ function \in [Function -> FunctionRecord]
    /\ asserts \subseteq Node
    /\ walk \in Walk

AbsentNode(status) ==
    [status |-> status, block |-> None, value |-> None, operand |-> None,
     ran |-> FALSE, owner |-> None, shape |-> None, summary |-> {}]
NoLinks == [parent |-> None, next |-> None, tail |-> None, size |-> 0]
AbsentBlock(status) ==
    [status |-> status, parent |-> None, line |-> {}, root |-> None]
AbsentFunction(status) ==
    [status |-> status, block |-> None, nodes |-> {}, scope |-> {}]
NoWalk == [stage |-> "idle", source |-> None, target |-> None, grey |-> {},
           black |-> {}, classes |-> {}, entries |-> {}, moved |-> {}]

LiveNode == {n \in Node : node[n].status = "live"}
LiveBlock == {b \in Block : block[b].status = "live"}
LiveFunction == {f \in Function : function[f].status = "live"}

Idle == walk.stage = "idle"

\* descends_from: a block's line is the block and its ancestors.
Descends(b, ancestor) == ancestor \in block[b].line

\* The scope a node's owner names; {} is the virtual root.  A scope is the
\* set of functions from it up, so the nearest common ancestor of two scopes
\* is their intersection and the virtual root absorbs.
OwnerScope(n, nodes, functions) ==
    IF nodes[n].owner = None THEN {} ELSE functions[nodes[n].owner].scope

\* refresh_class_summary, as the value it writes.
Meet(members, nodes, functions) ==
    {f \in Function : \A n \in members : f \in OwnerScope(n, nodes, functions)}

\* has_no_result_yet: the operator owes its answer.
Owes(n) ==
    /\ node[n].operand # None
    /\ node[n].value = None \/ ~node[n].ran

\* unify_inner on two decided values, where its descent merges nothing more.
\* Values of two kinds never unify.  Two of one kind may: functions if they are
\* one or their signatures unify, arrays if the items that meet do, and an item
\* whose place only one layout has meets none.  Which of them do is left open.
MayAgree(v, w) == v.tag = w.tag

\* observed_low_shape: only a scalar's tag states its shape.
Observed(v) == IF v # None /\ v.tag = "scalar" THEN "scalar" ELSE None

-----------------------------------------------------------------------------
(***************************************************************************)
(* The host's contract (may_be_named in the language's block_boundary      *)
(* test, D21): a payload or an operand names a node of its own block, of   *)
(* an ancestor, of a parentless block, or the declared root of a child     *)
(* scope.  A function value follows the same rule by its home block.       *)
(***************************************************************************)
Outlives(home, b) ==
    home # None /\ (block[home].parent = None \/ home \in block[b].line)

MayBeNamed(m, b) ==
    LET home == node[m].block
    IN  \/ Outlives(home, b)
        \/ home # None /\ block[home].root = m /\ Outlives(block[home].parent, b)

WithinBoundary(n) ==
    LET v == node[n].value
        b == node[n].block
    IN  /\ Owes(n) => MayBeNamed(node[n].operand, b)
        /\ v # None =>
              /\ \A i \in v.items : MayBeNamed(i, b)
              /\ v.function # None => Outlives(function[v.function].block, b)

BoundaryHolds == \A n \in LiveNode : WithinBoundary(n)

-----------------------------------------------------------------------------
\* Building the graph.

\* The key a slot map hands out next.
FreshKey(k, records) ==
    /\ records[k].status = "unborn"
    /\ \A other \in DOMAIN records : other < k => records[other].status # "unborn"

\* A mutant: the absent parent is put on the line.
AddBlockUnder(b, p) ==
    /\ Idle
    /\ FreshKey(b, block)
    /\ p = None \/ p \in LiveBlock
    /\ block' = [block EXCEPT ![b] =
                   [status |-> "live", parent |-> p, root |-> None,
                    line |-> {b, p} \cup (IF p = None THEN {} ELSE block[p].line)]]
    /\ UNCHANGED <<node, meta, function, asserts, walk>>

\* add_block: a block's line is fixed when it is made.
AddBlock(b, p) ==
    /\ Idle
    /\ FreshKey(b, block)
    /\ p = None \/ p \in LiveBlock
    /\ block' = [block EXCEPT ![b] =
                   [status |-> "live", parent |-> p, root |-> None,
                    line |-> {b} \cup (IF p = None THEN {} ELSE block[p].line)]]
    /\ UNCHANGED <<node, meta, function, asserts, walk>>

\* The payloads a node of block b may be allocated with.
FreshValue(b) ==
    {Scalar} \cup {Closure(f) : f \in LiveFunction}
             \cup {Array(s, b) : s \in {t \in SUBSET LiveNode : Cardinality(t) <= Width}}

\* add_node: a cell, an operation or a value, the sole member of its class.
AddNode(n, b, v, operand) ==
    /\ Idle
    /\ node[n].status = "unborn" /\ b \in LiveBlock
    /\ \/ v = None /\ operand \in LiveNode \cup {None}
       \/ v \in FreshValue(b) /\ operand = None
    /\ node' = [node EXCEPT ![n] =
                  [status |-> "live", block |-> b, value |-> v,
                   operand |-> operand, ran |-> FALSE, owner |-> None,
                   shape |-> Observed(v), summary |-> {}]]
    /\ meta' = MakeSet(meta, n)
    /\ UNCHANGED <<block, function, asserts, walk>>
    /\ WithinBoundary(n)'

\* mark_scope_root: once per scope, on a block that has a parent.
MarkScopeRoot(n) ==
    LET b == node[n].block
    IN  /\ Idle
        /\ n \in LiveNode
        /\ block[b].parent # None /\ block[b].root = None
        /\ block' = [block EXCEPT ![b].root = n]
        /\ UNCHANGED <<node, meta, function, asserts, walk>>

BeginFunction(f, b, parent) ==
    /\ Idle
    /\ FreshKey(f, function) /\ b \in LiveBlock
    /\ parent \in LiveFunction \cup {None}
    /\ function' = [function EXCEPT ![f] =
                      [status |-> "live", block |-> b, nodes |-> {},
                       scope |-> {f} \cup (IF parent = None THEN {}
                                           ELSE function[parent].scope)]]
    /\ UNCHANGED <<node, meta, block, asserts, walk>>

\* register_in_function: the owner tag, the class summary and the template
\* list are written together.
Register(f, n) ==
    LET root == Root(meta, n)
        tagged == [node EXCEPT ![n].owner = f]
    IN  /\ Idle
        /\ f \in LiveFunction /\ n \in LiveNode /\ node[n].owner = None
        /\ meta' = Find(meta, n)
        /\ node' = [tagged EXCEPT ![root].summary =
                      Meet(Class(meta, n), tagged, function)]
        /\ function' = [function EXCEPT ![f].nodes = @ \cup {n}]
        /\ UNCHANGED <<block, asserts, walk>>

AddAssert(n) ==
    /\ Idle /\ n \in LiveNode
    /\ asserts' = asserts \cup {n}
    /\ UNCHANGED <<node, meta, block, function, walk>>

-----------------------------------------------------------------------------
\* Deciding classes.

Refined(shape, by) == IF shape = None THEN by ELSE shape

\* A mutant: only the representative is filled.
FilledAtRoot(n, members, v) ==
    IF n \in members /\ node[n].value = None /\ meta[n].parent = None
    THEN v ELSE node[n].value

\* fill_class_holes: a member that holds a value keeps it.
Filled(n, members, v) ==
    IF n \in members /\ node[n].value = None THEN v ELSE node[n].value

(***************************************************************************)
(* unify, where it merges: one side holds nothing, or both hold values     *)
(* that the descent finds equal.  add_equality fills the side without a    *)
(* value, joins the two sets, and meets their summaries and shapes on the  *)
(* new representative; where both sides are decided each keeps its own.    *)
(***************************************************************************)
Unify(a, b) ==
    LET va == node[a].value
        vb == node[b].value
        ra == Root(meta, a)
        rb == Root(meta, b)
        joined == Union(meta, a, b)
        rep == Root(joined, a)
        filled(n) == CASE va = None /\ vb # None -> Filled(n, Members(meta, ra), vb)
                       [] va # None /\ vb = None -> Filled(n, Members(meta, rb), va)
                       [] OTHER -> node[n].value
    IN  /\ Idle
        /\ {a, b} \subseteq LiveNode /\ ra # rb
        /\ va # None /\ vb # None => MayAgree(va, vb)
        /\ meta' = joined
        /\ node' = [n \in Node |->
              IF n = rep
              THEN [node[n] EXCEPT !.value = filled(n),
                                   !.summary = node[ra].summary \cap node[rb].summary,
                                   !.shape = Refined(Refined(@, node[ra].shape),
                                                     node[rb].shape)]
              ELSE [node[n] EXCEPT !.value = filled(n)]]
        /\ UNCHANGED <<block, function, asserts, walk>>
        /\ BoundaryHolds'

\* An answer: a scalar, the operand's own value, handle and all, or an array
\* built in the node's block over the operand.
Answer(n) ==
    {Scalar, Array({}, node[n].block), Array({node[n].operand}, node[n].block)}
        \cup ({node[node[n].operand].value} \ {None})

(***************************************************************************)
(* evaluate_node_operation: the operator runs once.  An undecided run      *)
(* writes the stamp only.  An answer is committed by write_node_answer: a  *)
(* class that holds a value keeps it whether the answer agrees or not, an  *)
(* empty one takes the answer whole, and a lone node's slot write ends     *)
(* there, with no shape observed.  Reading a decided scope root ends the   *)
(* scope first.  Where an array answers against a held array, the code     *)
(* also unifies their items, and a read of an element also joins the       *)
(* reader to its class; here those are Unify steps of their own.           *)
(***************************************************************************)
Run(n, answer) ==
    LET root == Root(meta, n)
        members == Class(meta, n)
        operand == node[n].operand
        writes == answer # None /\ node[n].value = None
    IN  /\ Idle
        /\ n \in LiveNode /\ Owes(n) /\ ~node[n].ran
        /\ block[node[operand].block].root = operand => answer = None
        /\ meta' = IF writes /\ members # {n} THEN Find(meta, n) ELSE meta
        /\ node' = [m \in Node |->
              [node[m] EXCEPT
                 !.ran = @ \/ m = n,
                 !.value = IF writes /\ m \in members THEN answer ELSE @,
                 !.shape = IF writes /\ m = root /\ members # {n}
                           THEN Refined(@, Observed(answer)) ELSE @]]
        /\ UNCHANGED <<block, function, asserts, walk>>
        /\ BoundaryHolds'

-----------------------------------------------------------------------------
\* Ending a scope.

\* evaluate_block on a declared root that has its value: the marker goes and
\* the collect starts.
Collect(r) ==
    LET source == node[r].block
    IN  /\ Idle
        /\ r \in LiveNode
        /\ block[source].root = r /\ block[source].parent # None
        /\ node[r].value # None
        /\ node[r].operand # None => node[r].ran
        /\ block' = [block EXCEPT ![source].root = None]
        /\ walk' = [NoWalk EXCEPT !.stage = "root", !.source = source,
                                  !.target = block[source].parent, !.grey = {r}]
        /\ UNCHANGED <<node, meta, function, asserts>>

Inside(n) == Descends(node[n].block, walk.source)

\* class_walk: a class is entered once, through whichever member comes first.
ClassWalk(n) ==
    IF Root(meta, n) \in walk.classes THEN {} ELSE Class(meta, n) \ {n}

\* The template a reached function brings along, when it is reached from
\* inside the scope.
WalkedFunctions(n) ==
    IF node[n].value # None /\ Inside(n) THEN {node[n].value.function} \ {None}
    ELSE {}

\* A mutant: an operator whose slot a unification filled owes nothing.
EdgesUnlessFilled(n) ==
    ClassWalk(n)
        \cup (IF node[n].value = None THEN {node[n].operand} \ {None}
              ELSE node[n].value.items)
        \cup UNION {function[f].nodes : f \in WalkedFunctions(n)}

\* Every node garbage_collect_node goes on to from n.
Edges(n) ==
    ClassWalk(n)
        \cup (IF Owes(n) THEN {node[n].operand} ELSE {})
        \cup (IF node[n].value = None THEN {} ELSE node[n].value.items)
        \cup UNION {function[f].nodes : f \in WalkedFunctions(n)}

\* A mutant: no payload is moved for a class member.
RelocatedNone(n) == {}

\* The members whose payload relocate_class_value moves as n's class is
\* entered.
Relocated(n) == {m \in ClassWalk(n) : ~Inside(m)}

\* The same value with its payload allocated anew in block b.
Reallocated(v, b) ==
    IF v # None /\ v.tag = "array" THEN [v EXCEPT !.arena = b] ELSE v

(***************************************************************************)
(* garbage_collect_node.  A node inside the scope moves to the target with *)
(* its payload; a node outside stays, but a class member that is outside   *)
(* has its payload moved into its own block (relocate_class_value).  The   *)
(* node the class was entered through is not one of those members.         *)
(***************************************************************************)
Visit(n) ==
    LET inside == Inside(n)
    IN  /\ n \in walk.grey \ walk.black
        /\ meta' = Find(meta, n)
        /\ node' = [m \in Node |->
              CASE m = n /\ inside ->
                     [node[m] EXCEPT !.block = walk.target,
                                     !.value = Reallocated(@, walk.target)]
                [] m \in Relocated(n) ->
                     [node[m] EXCEPT !.value = Reallocated(@, node[m].block)]
                [] OTHER -> node[m]]
        /\ function' = [f \in Function |->
              IF f \in WalkedFunctions(n) /\ Descends(function[f].block, walk.source)
              THEN [function[f] EXCEPT !.block = walk.target] ELSE function[f]]
        /\ walk' = [walk EXCEPT
              !.grey = @ \cup Edges(n), !.black = @ \cup {n},
              !.classes = @ \cup {Root(meta, n)},
              !.entries = IF Root(meta, n) \in walk.classes THEN @ ELSE @ \cup {n},
              !.moved = IF inside THEN @ \cup {n} ELSE @]
        /\ UNCHANGED <<block, asserts>>

WalkedOut == walk.grey \subseteq walk.black

\* A mutant: the conditions are looked at and not walked.
AssertRootsUnwalked ==
    /\ walk.stage = "root" /\ WalkedOut
    /\ walk' = [walk EXCEPT !.stage = "asserts"]
    /\ UNCHANGED <<node, meta, block, function, asserts>>

\* A pending assert's condition inside the scope is a root.
AssertRoots ==
    /\ walk.stage = "root" /\ WalkedOut
    /\ walk' = [walk EXCEPT !.stage = "asserts",
                            !.grey = @ \cup {n \in asserts \cap LiveNode : Inside(n)}]
    /\ UNCHANGED <<node, meta, block, function, asserts>>

\* owned_by_surviving_function: so is what a function homed elsewhere owns.
TemplateRoots ==
    /\ walk.stage = "asserts" /\ WalkedOut
    /\ walk' = [walk EXCEPT !.stage = "templates",
          !.grey = @ \cup {n \in LiveNode :
                             /\ Inside(n)
                             /\ node[n].owner \in LiveFunction
                             /\ ~Descends(function[node[n].owner].block, walk.source)}]
    /\ UNCHANGED <<node, meta, block, function, asserts>>

-----------------------------------------------------------------------------
\* drop_block, over the whole subtree it releases.  The paths its reads
\* compress in classes it does not flatten are not recorded.

DoomedBlocks == {b \in LiveBlock : Descends(b, walk.source)}
DoomedNodes == {n \in LiveNode : node[n].block \in DoomedBlocks}
DoomedFunctions == {f \in LiveFunction : function[f].block \in DoomedBlocks}

Survivors(r) == Members(meta, r) \ DoomedNodes

\* The representatives whose class loses a member, and keeps one.
Flattened ==
    {r \in LiveNode : /\ meta[r].parent = None
                      /\ Members(meta, r) \cap DoomedNodes # {}
                      /\ Survivors(r) # {}}

\* flatten_class on every class that loses a member: the links.
FlattenedMeta ==
    [n \in Node |->
        IF n \in DoomedNodes THEN NoLinks
        ELSE IF Root(meta, n) \in Flattened
             THEN Rebuild(meta, Survivors(Root(meta, n)))[n]
             ELSE meta[n]]

ReleasedFunctions ==
    [f \in Function |-> IF f \in DoomedFunctions THEN AbsentFunction("released")
                        ELSE function[f]]

\* A mutant: only the flattened classes are refreshed.
RefreshedFlattened == {FirstOf(meta, Survivors(r)) : r \in Flattened}

\* The classes whose summary drop_block rebuilds: those it flattens, and
\* those of the surviving nodes on a dropped function's list.
Refreshed ==
    {FirstOf(meta, Survivors(r)) : r \in Flattened}
        \cup {Root(FlattenedMeta, n) :
                n \in (UNION {function[f].nodes : f \in DoomedFunctions}) \ DoomedNodes}

\* A mutant: the new representative starts without a shape.
SurvivorUnshaped(n) ==
    LET old == Root(meta, n)
        held == {node[m].value : m \in Survivors(old)} \ {None}
        cut == old \in Flattened
    IN  [node[n] EXCEPT
           !.value = IF cut /\ @ = None /\ held # {} THEN CHOOSE v \in held : TRUE ELSE @,
           !.summary = IF n \in Refreshed
                       THEN Meet(Class(FlattenedMeta, n), node, ReleasedFunctions)
                       ELSE @]

\* A surviving node's record: the value a survivor holds fills a hole, and
\* the released representative's shape goes to the new one.
Survivor(n) ==
    LET old == Root(meta, n)
        held == {node[m].value : m \in Survivors(old)} \ {None}
        cut == old \in Flattened
        first == FlattenedMeta[n].parent = None
    IN  [node[n] EXCEPT
           !.value = IF cut /\ @ = None /\ held # {} THEN CHOOSE v \in held : TRUE ELSE @,
           !.shape = IF cut /\ first THEN Refined(@, node[old].shape) ELSE @,
           !.summary = IF n \in Refreshed
                       THEN Meet(Class(FlattenedMeta, n), node, ReleasedFunctions)
                       ELSE @]

DropBlock ==
    /\ walk.stage = "templates" /\ WalkedOut
    /\ node' = [n \in Node |-> CASE n \in DoomedNodes -> AbsentNode("released")
                                 [] n \in LiveNode \ DoomedNodes -> Survivor(n)
                                 [] OTHER -> node[n]]
    /\ meta' = FlattenedMeta
    /\ block' = [b \in Block |-> IF b \in DoomedBlocks THEN AbsentBlock("released")
                                 ELSE block[b]]
    /\ function' = ReleasedFunctions
    /\ asserts' = asserts \ DoomedNodes
    /\ walk' = NoWalk

-----------------------------------------------------------------------------
Init ==
    /\ node = [n \in Node |-> AbsentNode("unborn")]
    /\ meta = [n \in Node |-> NoLinks]
    /\ block = [b \in Block |-> AbsentBlock("unborn")]
    /\ function = [f \in Function |-> AbsentFunction("unborn")]
    /\ asserts = {}
    /\ walk = NoWalk

Build ==
    \/ \E b \in Block, p \in Block \cup {None} : AddBlock(b, p)
    \/ \E n \in Node, b \in LiveBlock, o \in Node \cup {None} :
          \E v \in FreshValue(b) \cup {None} : AddNode(n, b, v, o)
    \/ \E n \in Node : MarkScopeRoot(n) \/ AddAssert(n)
    \/ \E f \in Function, b \in Block, p \in Function \cup {None} : BeginFunction(f, b, p)
    \/ \E f \in Function, n \in Node : Register(f, n)

Evaluate ==
    \/ \E a, b \in Node : Unify(a, b)
    \/ \E n \in {m \in LiveNode : Owes(m)} :
          \E v \in Answer(n) \cup {None} : Run(n, v)

End ==
    \/ \E n \in Node : Collect(n) \/ Visit(n)
    \/ AssertRoots \/ TemplateRoots \/ DropBlock

Next == Build \/ Evaluate \/ End

Spec == Init /\ [][Next]_vars

-----------------------------------------------------------------------------
(***************************************************************************)
(* The classes stay well formed through unions and through the collector's *)
(* splicing: no live member's list passes through a released node, and     *)
(* every member finds the representative whose list it is on.              *)
(***************************************************************************)
ClassesWellFormed == WellFormed(meta, LiveNode)

(***************************************************************************)
(* A class is decided as a whole: after any merges, answers and flattening *)
(* no member of a decided class has an empty slot, so that each answers    *)
(* for it (class_value, answer_class_side), and the members' values are of *)
(* one kind, the one the class's shape states (refine_class_low_type).     *)
(***************************************************************************)
ClassesDecideTogether ==
    \A n \in LiveNode : \A m \in Class(meta, n) :
        LET v == node[n].value
            w == node[m].value
            shape == node[Root(meta, n)].shape
        IN  \/ v = None /\ w = None /\ shape = None
            \/ /\ v # None /\ w # None
               /\ v.tag = w.tag /\ shape \in {v.tag, None}

(***************************************************************************)
(* A class's scope summary is the nearest common ancestor of the scopes    *)
(* its members' owners name, also after an owner was dropped with a scope  *)
(* and after the member that made the class external was released.         *)
(***************************************************************************)
SummariesAreCurrent ==
    \A r \in {n \in LiveNode : meta[n].parent = None} :
        node[r].summary = Meet(Members(meta, r), node, function)

(***************************************************************************)
(* Between collects nothing live names anything released: not a payload,   *)
(* not the operand of an operator that still owes its answer, not a        *)
(* function's template, not a pending assert.                              *)
(***************************************************************************)
NamesAreLive ==
    Idle =>
        /\ \A n \in LiveNode :
              /\ node[n].block \in LiveBlock
              /\ Owes(n) => node[n].operand \in LiveNode
              /\ node[n].value # None =>
                    /\ node[n].value.items \subseteq LiveNode
                    /\ node[n].value.function \in LiveFunction \cup {None}
        /\ \A f \in LiveFunction : function[f].nodes \subseteq LiveNode
        /\ asserts \subseteq LiveNode

(***************************************************************************)
(* A collect unregisters no assert: a pending condition inside the scope   *)
(* moves out with it, so the assert pass still reads it.                   *)
(***************************************************************************)
AssertsAreKept == [][asserts \subseteq asserts']_vars

(***************************************************************************)
(* What a class states of its shape is never lost or changed, although it  *)
(* is kept at the representative only and a collect may release that one.  *)
(***************************************************************************)
ShapesAreKept ==
    [][\A n \in LiveNode \cap LiveNode' :
          LET shape == node[Root(meta, n)].shape
          IN  shape # None => node'[Root(meta', n)].shape = shape]_vars

(***************************************************************************)
(* When the arena goes, no node that the walk moved, and no outside member *)
(* of a class it entered through another member, holds a payload in it.    *)
(***************************************************************************)
PayloadIsLive(n) ==
    node[n].value # None /\ node[n].value.tag = "array"
        => node[n].value.arena \in LiveBlock

WalkedPayloadsMove ==
    [][DropBlock => \A n \in walk.moved \cup (walk.black \ walk.entries) :
                       PayloadIsLive(n)']_vars

(***************************************************************************)
(* What flatten_class and relocate_class_value say together: a class that  *)
(* loses a member needs no migration of its value, and a payload shared    *)
(* with the scope is re-allocated before its arena goes.  No live node     *)
(* holds a payload in a released arena.                                    *)
(***************************************************************************)
PayloadsAreLive == Idle => \A n \in LiveNode : PayloadIsLive(n)
=============================================================================
