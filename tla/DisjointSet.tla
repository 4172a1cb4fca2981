----------------------------- MODULE DisjointSet -----------------------------
(***************************************************************************)
(* The intrusive union-find of lichen-utils/src/disjoint.rs, as operators  *)
(* on `meta`: a function from keys to the four links a node embeds.  A     *)
(* class is a parent tree, and a member list that starts at its            *)
(* representative and follows `next`.                                      *)
(***************************************************************************)
EXTENDS Naturals, FiniteSets

CONSTANT None  \* The absent link.

Singleton(k) == [parent |-> None, next |-> None, tail |-> k, size |-> 1]

\* make_set: the key becomes the representative of a set of its own.
MakeSet(meta, k) == [meta EXCEPT ![k] = Singleton(k)]

\* The keys met by following `link` from k; a list no longer than its keys.
Chain(link, k) ==
    LET Step(x) == IF x = None THEN None ELSE link[x]
        at[i \in 0 .. Cardinality(DOMAIN link)] ==
            IF i = 0 THEN k ELSE Step(at[i - 1])
    IN  DOMAIN link \cap {at[i] : i \in DOMAIN at}

Parents(meta, k) == Chain([x \in DOMAIN meta |-> meta[x].parent], k)
Follow(meta, k) == Chain([x \in DOMAIN meta |-> meta[x].next], k)

Root(meta, k) == CHOOSE r \in Parents(meta, k) : meta[r].parent = None

\* members: the list is read from the representative.
Members(meta, r) == Follow(meta, r)

Class(meta, k) == Members(meta, Root(meta, k))

\* find: every key on the path is re-pointed straight at the root.
Find(meta, k) ==
    LET root == Root(meta, k)
        path == Parents(meta, k) \ {root}
    IN  [x \in DOMAIN meta |->
            IF x \in path THEN [meta[x] EXCEPT !.parent = root] ELSE meta[x]]

(***************************************************************************)
(* union: the smaller set goes under the larger, a tie keeps a's           *)
(* representative, and the second list is spliced onto the first one's     *)
(* tail.                                                                   *)
(***************************************************************************)
Splice(meta, ra, rb) ==
    [x \in DOMAIN meta |->
        [parent |-> IF x = rb THEN ra ELSE meta[x].parent,
         next   |-> IF x = meta[ra].tail THEN rb ELSE meta[x].next,
         tail   |-> IF x = ra THEN meta[rb].tail ELSE meta[x].tail,
         size   |-> IF x = ra THEN meta[ra].size + meta[rb].size
                              ELSE meta[x].size]]

Union(meta, a, b) ==
    LET found == Find(Find(meta, a), b)
        ra == Root(found, a)
        rb == Root(found, b)
    IN  CASE ra = rb -> found
          [] ra # rb /\ found[ra].size < found[rb].size -> Splice(found, rb, ra)
          [] OTHER -> Splice(found, ra, rb)

(***************************************************************************)
(* rebuild: the members in `kept`, in list order, become a set whose       *)
(* representative is the first of them.  The others keep their links.      *)
(***************************************************************************)
FirstOf(meta, kept) == CHOOSE x \in kept : kept \subseteq Follow(meta, x)

After(meta, kept, x) == (Follow(meta, x) \cap kept) \ {x}

\* A mutant: the last member keeps the link it had.
RebuildKeepsNext(meta, kept) ==
    LET first == FirstOf(meta, kept)
        last  == CHOOSE x \in kept : After(meta, kept, x) = {}
    IN  [x \in DOMAIN meta |->
            IF x \notin kept THEN meta[x]
            ELSE [parent |-> IF x = first THEN None ELSE first,
                  next |-> IF x = last THEN meta[x].next
                           ELSE FirstOf(meta, After(meta, kept, x)),
                  tail |-> IF x = first THEN last ELSE meta[x].tail,
                  size |-> IF x = first THEN Cardinality(kept)
                                        ELSE meta[x].size]]

Rebuild(meta, kept) ==
    LET first == FirstOf(meta, kept)
        last  == CHOOSE x \in kept : After(meta, kept, x) = {}
    IN  [x \in DOMAIN meta |->
            IF x \notin kept THEN meta[x]
            ELSE [parent |-> IF x = first THEN None ELSE first,
                  next |-> IF x = last THEN None
                           ELSE FirstOf(meta, After(meta, kept, x)),
                  tail |-> IF x = first THEN last ELSE meta[x].tail,
                  size |-> IF x = first THEN Cardinality(kept)
                                        ELSE meta[x].size]]

(***************************************************************************)
(* What the module's invariant promises of the keys in `live`: every path  *)
(* ends at one representative, whose list holds exactly the keys that find *)
(* it, ends at its tail, is as long as its size, and names no other key.   *)
(***************************************************************************)
WellFormed(meta, live) ==
    /\ \A k \in live :
          /\ \E r \in Parents(meta, k) : meta[r].parent = None
          /\ Parents(meta, k) \cup Follow(meta, k) \subseteq live
    /\ \A r \in {k \in live : meta[k].parent = None} :
          /\ Members(meta, r) = {k \in live : Root(meta, k) = r}
          /\ meta[r].tail \in Members(meta, r)
          /\ meta[meta[r].tail].next = None
          /\ meta[r].size = Cardinality(Members(meta, r))
=============================================================================
