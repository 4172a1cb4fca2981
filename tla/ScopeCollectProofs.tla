------------------------- MODULE ScopeCollectProofs -------------------------
(***************************************************************************)
(* What ScopeCollect guarantees for any set of nodes, blocks and           *)
(* functions, any graph over them and any order of the walk.  The          *)
(* invariants are proved in stages, each from those before it:             *)
(*   IInv       where nodes are, and what the walk has reached;            *)
(*   ClassInv   classes, by what is shown first of the union-find;         *)
(*   TypeOK     the types of everything;                                   *)
(*   Placed     ancestry of blocks, templates and their owners;            *)
(*   Named      what a node names is live, may be named or will be walked, *)
(*              and a class is decided as a whole: each needs the others;  *)
(*   Shapes     a shape is the tag of a value its member holds;            *)
(*   Payloads   what the walk has passed holds its payload at home;        *)
(*   Summaries  a representative's summary is its class's meet.            *)
(* Base is the first three, Ground the first four.                         *)
(***************************************************************************)
EXTENDS ScopeCollect, FiniteSetTheorems, Induction, TLAPS

-----------------------------------------------------------------------------
(***************************************************************************)
(* First, what the operations of the union-find do to any well-formed      *)
(* representation over any finite set of keys.                             *)
(*                                                                         *)
(* A chain is defined by counting steps; it is used as the least set that  *)
(* holds its first key and is closed under the link (ChainIsLeast), which  *)
(* is where the induction is.  Everything later is an argument about       *)
(* closed sets: to show that a list holds no other key than these, show    *)
(* that these are closed under its link.                                   *)
(***************************************************************************)
\* A family of subsets of a finite set has a minimal member.
LEMMA SmallestSet ==
    ASSUME NEW S, IsFiniteSet(S), NEW T, T # {}, \A x \in T : x \subseteq S
    PROVE  \E x \in T : \A y \in T : y \subseteq x => y = x
<1>1. IsWellFoundedOn(StrictSubsetOrdering(S), FiniteSubsetsOf(S))
  BY FS_StrictSubsetOrderingWellFounded
<1>2. T \subseteq FiniteSubsetsOf(S)
  BY FS_FiniteSubsetsOfFinite
<1>. DEFINE R == StrictSubsetOrdering(S)
<1>3. \E x \in T : \A y \in T : ~ (<<y, x>> \in R)
  <2>. HIDE DEF R
  <2>. QED
    BY <1>1, <1>2, WFMin DEF R
<1>. QED
  BY <1>3 DEF StrictSubsetOrdering

-----------------------------------------------------------------------------
(* Chains.  Following a link from a key reaches the least set that holds   *)
(* the key and is closed under the link.                                   *)

Linked(link, K) ==
    /\ DOMAIN link = K
    /\ \A x \in K : link[x] \in K \cup {None}

\* C is closed under the link.
Closed(link, C) == \A x \in C : link[x] # None => link[x] \in C

Onward(link, x) == IF x = None THEN None ELSE link[x]

\* The walk that Chain takes exists.
LEMMA WalkExists ==
    ASSUME NEW K, None \notin K, NEW link, Linked(link, K), NEW k \in K, NEW N \in Nat
    PROVE  \E g \in [0 .. N -> K \cup {None}] :
              g[0] = k /\ \A i \in 1 .. N : g[i] = Onward(link, g[i - 1])
<1>. DEFINE Walks(n) == \E g \in [0 .. n -> K \cup {None}] :
              g[0] = k /\ \A i \in 1 .. n : g[i] = Onward(link, g[i - 1])
            S == {n \in Nat : Walks(n)}
<1>1. 0 \in S
  <2>1. [i \in 0 .. 0 |-> k] \in [0 .. 0 -> K \cup {None}]
    OBVIOUS
  <2>2. [i \in 0 .. 0 |-> k][0] = k /\ 1 .. 0 = {}
    OBVIOUS
  <2>3. Walks(0)
    BY <2>1, <2>2
  <2>. QED
    BY <2>3
<1>2. ASSUME NEW n \in Nat, n \in S PROVE n + 1 \in S
  <2>1. PICK g \in [0 .. n -> K \cup {None}] :
              g[0] = k /\ \A i \in 1 .. n : g[i] = Onward(link, g[i - 1])
    BY <1>2
  <2>. DEFINE h == [i \in 0 .. n + 1 |-> IF i \in 0 .. n THEN g[i] ELSE Onward(link, g[n])]
  <2>2. Onward(link, g[n]) \in K \cup {None}
    <3>1. g[n] \in K \cup {None}
      BY <2>1
    <3>. QED
      BY <3>1 DEF Onward, Linked
  <2>3. h \in [0 .. n + 1 -> K \cup {None}]
    BY <2>1, <2>2
  <2>4. h[0] = k
    BY <2>1
  <2>5. ASSUME NEW i \in 1 .. n + 1 PROVE h[i] = Onward(link, h[i - 1])
    <3>1. CASE i \in 1 .. n
      BY <2>1, <3>1
    <3>2. CASE i = n + 1
      BY <3>2
    <3>. QED
      BY <3>1, <3>2
  <2>6. Walks(n + 1)
    BY <2>3, <2>4, <2>5
  <2>. QED
    BY <2>6
<1>3. Nat \subseteq S
  <2>. HIDE DEF S
  <2>. QED
    BY <1>1, <1>2, ByInduction
<1>. QED
  BY <1>3

\* A chain is the keys of that walk.
LEMMA ChainWalks ==
    ASSUME NEW K, IsFiniteSet(K), None \notin K, NEW link, Linked(link, K), NEW k \in K
    PROVE  \E g \in [0 .. Cardinality(K) -> K \cup {None}] :
              /\ g[0] = k
              /\ \A i \in 1 .. Cardinality(K) : g[i] = Onward(link, g[i - 1])
              /\ Chain(link, k) = K \cap {g[i] : i \in 0 .. Cardinality(K)}
<1>. DEFINE N == Cardinality(K)
            Def(h) == [i \in 0 .. N |-> IF i = 0 THEN k ELSE Onward(link, h[i - 1])]
            at == CHOOSE h : h = Def(h)
<1>1. N \in Nat
  BY FS_CardinalityType
<1>2. PICK g \in [0 .. N -> K \cup {None}] :
              g[0] = k /\ \A i \in 1 .. N : g[i] = Onward(link, g[i - 1])
  BY <1>1, WalkExists
<1>3. g = Def(g)
  <2>1. \A i \in 0 .. N : g[i] = Def(g)[i]
    BY <1>1, <1>2
  <2>. QED
    BY <2>1, <1>2
<1>4. at = Def(at)
  <2>. HIDE DEF Def
  <2>. QED
    BY <1>3
<1>5. Chain(link, k) = K \cap {at[i] : i \in DOMAIN at}
  BY DEF Chain, Onward, Linked
<1>6. /\ DOMAIN at = 0 .. N /\ at = [i \in 0 .. N |-> at[i]]
      /\ at[0] = k
      /\ \A i \in 1 .. N : at[i] = Onward(link, at[i - 1])
  <2>. HIDE DEF at
  <2>. QED
    BY <1>1, <1>4
<1>7. \A i \in 0 .. N : at[i] \in K \cup {None}
  <2>. DEFINE S == {i \in Nat : i \in 0 .. N => at[i] \in K \cup {None}}
  <2>. HIDE DEF at
  <2>1. 0 \in S
    BY <1>6
  <2>2. ASSUME NEW i \in Nat, i \in S PROVE i + 1 \in S
    <3>1. CASE i + 1 \in 0 .. N
      <4>1. i \in 0 .. N /\ i + 1 \in 1 .. N /\ (i + 1) - 1 = i
        BY <1>1, <2>2, <3>1
      <4>2. at[i] \in K \cup {None}
        BY <2>2, <4>1
      <4>3. at[i + 1] = Onward(link, at[i])
        BY <1>6, <4>1
      <4>. QED
        BY <4>2, <4>3 DEF Onward, Linked
    <3>. QED
      BY <3>1
  <2>3. Nat \subseteq S
    <3>. HIDE DEF S
    <3>. QED
      BY <2>1, <2>2, ByInduction
  <2>. QED
    BY <1>1, <2>3
<1>. HIDE DEF at
<1>8. at \in [0 .. N -> K \cup {None}]
  BY <1>6, <1>7
<1>9. Chain(link, k) = K \cap {at[i] : i \in 0 .. N}
  BY <1>5, <1>6
<1>. QED
  BY <1>6, <1>8, <1>9

(***************************************************************************)
(* Following a link from a key, no further than there are keys, reaches    *)
(* the least set that holds the key and is closed under the link: the      *)
(* bound in Chain cuts nothing off, so parents and lists are followed to   *)
(* their end.                                                              *)
(***************************************************************************)
THEOREM ChainIsLeast ==
    ASSUME NEW K, IsFiniteSet(K), None \notin K, NEW link, Linked(link, K), NEW k \in K
    PROVE  /\ k \in Chain(link, k) /\ Chain(link, k) \subseteq K
           /\ Closed(link, Chain(link, k))
           /\ \A D : k \in D /\ Closed(link, D \cap K) => Chain(link, k) \subseteq D
<1>. DEFINE N == Cardinality(K)
            C == Chain(link, k)
<1>1. N \in Nat
  BY FS_CardinalityType
<1>2. PICK g \in [0 .. N -> K \cup {None}] :
        /\ g[0] = k
        /\ \A i \in 1 .. N : g[i] = Onward(link, g[i - 1])
        /\ C = K \cap {g[i] : i \in 0 .. N}
  BY ChainWalks
<1>3. \A i \in 0 .. N : i + 1 \in 0 .. N => g[i + 1] = Onward(link, g[i])
  <2>. SUFFICES ASSUME NEW i \in 0 .. N, i + 1 \in 0 .. N
                PROVE  g[i + 1] = Onward(link, g[i])
    OBVIOUS
  <2>1. i + 1 \in 1 .. N /\ (i + 1) - 1 = i
    BY <1>1
  <2>. QED
    BY <1>2, <2>1
<1>. HIDE DEF N, C
<1>4. k \in C /\ C \subseteq K
  BY <1>1, <1>2
<1>5. ASSUME NEW D, k \in D, Closed(link, D \cap K) PROVE C \subseteq D
  <2>. DEFINE S == {i \in Nat : i \in 0 .. N /\ g[i] # None => g[i] \in D}
  <2>1. 0 \in S
    BY <1>2, <1>5
  <2>2. ASSUME NEW i \in Nat, i \in S PROVE i + 1 \in S
    <3>. SUFFICES ASSUME i + 1 \in 0 .. N, g[i + 1] # None PROVE g[i + 1] \in D
      OBVIOUS
    <3>1. i \in 0 .. N
      BY <1>1
    <3>2. g[i + 1] = Onward(link, g[i])
      BY <1>3, <3>1
    <3>3. g[i] \in K /\ g[i] \in D /\ g[i + 1] = link[g[i]]
      BY <2>2, <3>1, <3>2 DEF Onward
    <3>. QED
      BY <1>5, <3>3 DEF Closed
  <2>3. Nat \subseteq S
    <3>. HIDE DEF S
    <3>. QED
      BY <2>1, <2>2, ByInduction
  <2>. QED
    BY <1>1, <1>2, <2>3
<1>6. Closed(link, C)
  <2>. SUFFICES ASSUME NEW x \in C, link[x] # None, link[x] \notin C PROVE FALSE
    BY DEF Closed
  <2>1. link[x] \in K
    BY <1>4 DEF Linked
  <2>2. ASSUME NEW i \in 0 .. N, g[i] = x PROVE i = N
    <3>1. CASE i + 1 \in 0 .. N
      <4>1. g[i + 1] = link[x]
        BY <1>3, <1>4, <2>2, <3>1 DEF Onward
      <4>. QED
        BY <1>2, <2>1, <3>1, <4>1
    <3>. QED
      BY <1>1, <3>1
  <2>3. g[N] = x
    <3>1. PICK i \in 0 .. N : g[i] = x
      BY <1>2
    <3>. QED
      BY <2>2, <3>1
  <2>4. ASSUME NEW i \in 0 .. N, g[i] = None PROVE FALSE
    <3>. DEFINE S == {j \in Nat : i + j \in 0 .. N => g[i + j] = None}
    <3>1. 0 \in S
      BY <2>4
    <3>2. ASSUME NEW j \in Nat, j \in S PROVE j + 1 \in S
      <4>. SUFFICES ASSUME i + (j + 1) \in 0 .. N PROVE g[i + (j + 1)] = None
        OBVIOUS
      <4>1. i + j \in 0 .. N /\ (i + j) + 1 = i + (j + 1)
        BY <1>1
      <4>2. g[(i + j) + 1] = Onward(link, g[i + j])
        BY <1>3, <4>1
      <4>. QED
        BY <3>2, <4>1, <4>2 DEF Onward
    <3>3. Nat \subseteq S
      <4>. HIDE DEF S
      <4>. QED
        BY <3>1, <3>2, ByInduction
    <3>4. N - i \in Nat /\ i + (N - i) = N /\ N \in 0 .. N
      BY <1>1
    <3>5. g[N] = None
      BY <3>3, <3>4
    <3>. QED
      BY <1>4, <2>3, <3>5
  <2>5. PICK i \in 0 .. N, j \in 0 .. N : i # j /\ g[i] = g[j]
    <3>1. IsFiniteSet(0 .. N) /\ Cardinality(0 .. N) = N + 1
      <4>1. 0 \in Int /\ N \in Int /\ ~(0 > N) /\ N - 0 + 1 = N + 1
        BY <1>1
      <4>2. /\ IsFiniteSet(0 .. N)
            /\ Cardinality(0 .. N) = IF 0 > N THEN 0 ELSE N - 0 + 1
        BY <4>1, FS_Interval
      <4>. QED
        BY <4>1, <4>2
    <3>2. g \in [0 .. N -> K]
      BY <1>2, <2>4
    <3>3. Cardinality(K) < Cardinality(0 .. N)
      BY <1>1, <3>1 DEF N
    <3>. QED
      BY <3>1, <3>2, <3>3, FS_PigeonHole
  <2>6. ASSUME NEW a \in 0 .. N, NEW b \in 0 .. N, a < b, g[a] = g[b] PROVE FALSE
    <3>. DEFINE S == {d \in Nat : b + d \in 0 .. N => g[a + d] = g[b + d]}
    <3>1. 0 \in S
      BY <2>6
    <3>2. ASSUME NEW d \in Nat, d \in S PROVE d + 1 \in S
      <4>. SUFFICES ASSUME b + (d + 1) \in 0 .. N
                    PROVE  g[a + (d + 1)] = g[b + (d + 1)]
        OBVIOUS
      <4>1. /\ b + d \in 0 .. N /\ (b + d) + 1 = b + (d + 1) /\ (b + d) + 1 \in 0 .. N
            /\ a + d \in 0 .. N /\ (a + d) + 1 = a + (d + 1) /\ (a + d) + 1 \in 0 .. N
        BY <1>1, <2>6
      <4>2. /\ g[(b + d) + 1] = Onward(link, g[b + d])
            /\ g[(a + d) + 1] = Onward(link, g[a + d])
        BY <1>3, <4>1
      <4>3. g[a + d] = g[b + d]
        BY <3>2, <4>1
      <4>. QED
        BY <4>1, <4>2, <4>3
    <3>3. Nat \subseteq S
      <4>. HIDE DEF S
      <4>. QED
        BY <3>1, <3>2, ByInduction
    <3>4. /\ N - b \in Nat /\ b + (N - b) = N /\ N \in 0 .. N
          /\ a + (N - b) \in 0 .. N /\ a + (N - b) # N
      BY <1>1, <2>6
    <3>5. g[a + (N - b)] = x
      BY <2>3, <3>3, <3>4
    <3>. QED
      BY <2>2, <3>4, <3>5
  <2>. QED
    BY <1>1, <2>5, <2>6
<1>. QED
  BY <1>4, <1>5, <1>6 DEF C

\* What the rest needs to know of a link: it leads from keys to keys.
Good(link, K) == IsFiniteSet(K) /\ None \notin K /\ Linked(link, K)

\* The same, as the proofs below use it.
LEMMA ChainFacts ==
    ASSUME NEW K, NEW link, Good(link, K), NEW k \in K
    PROVE  /\ k \in Chain(link, k) /\ Chain(link, k) \subseteq K
           /\ \A x \in Chain(link, k) : link[x] # None => link[x] \in Chain(link, k)
           /\ \A D : k \in D /\ (\A x \in D \cap K : link[x] # None => link[x] \in D)
                        => Chain(link, k) \subseteq D
  <1>1. \A D : k \in D /\ Closed(link, D \cap K) => Chain(link, k) \subseteq D
    BY ChainIsLeast DEF Good
  <1>2. \A D : (\A x \in D \cap K : link[x] # None => link[x] \in D) => Closed(link, D \cap K)
    BY DEF Closed, Good, Linked
  <1>. QED
    BY ChainIsLeast, <1>1, <1>2 DEF Good, Closed

\* Everything on a chain continues along it.
LEMMA ChainGoesOn ==
    ASSUME NEW K, NEW link, Good(link, K), NEW k \in K, NEW x \in Chain(link, k)
    PROVE  x \in K /\ x \in Chain(link, x) /\ Chain(link, x) \subseteq Chain(link, k)
<1>. DEFINE D == Chain(link, k)
<1>1. /\ x \in D /\ D \subseteq K
      /\ \A y \in D \cap K : link[y] # None => link[y] \in D
  BY ChainFacts
<1>2. x \in K
  BY <1>1
<1>. HIDE DEF D
<1>3. Chain(link, x) \subseteq D
  BY <1>1, <1>2, ChainFacts
<1>4. x \in Chain(link, x)
  BY <1>2, ChainFacts
<1>. QED
  BY <1>2, <1>3, <1>4 DEF D

\* A chain is its first key and the chain of the next one.
LEMMA ChainUnfolds ==
    ASSUME NEW K, NEW link, Good(link, K), NEW k \in K
    PROVE  /\ link[k] = None => Chain(link, k) = {k}
           /\ link[k] # None => /\ link[k] \in K
                                /\ Chain(link, k) = {k} \cup Chain(link, link[k])
<1>1. ASSUME link[k] = None PROVE Chain(link, k) = {k}
  <2>1. Chain(link, k) \subseteq {k}
    <3>. DEFINE D == {k}
    <3>1. k \in D /\ \A x \in D \cap K : link[x] # None => link[x] \in D
      BY <1>1
    <3>. HIDE DEF D
    <3>2. Chain(link, k) \subseteq D
      BY <3>1, ChainFacts
    <3>. QED
      BY <3>2 DEF D
  <2>. QED
    BY <2>1, ChainFacts
<1>2. ASSUME link[k] # None
      PROVE  link[k] \in K /\ Chain(link, k) = {k} \cup Chain(link, link[k])
  <2>1. link[k] \in K
    BY <1>2 DEF Good, Linked
  <2>2. PICK y \in K : y = link[k]
    BY <2>1
  <2>3. k \in Chain(link, k) /\ y \in Chain(link, k)
    BY <1>2, <2>2, ChainFacts
  <2>4. Chain(link, y) \subseteq Chain(link, k)
    BY <2>3, ChainGoesOn
  <2>. DEFINE D == {k} \cup Chain(link, y)
  <2>5. k \in D /\ \A x \in D \cap K : link[x] # None => link[x] \in D
    BY <2>2, ChainFacts
  <2>6. Chain(link, k) \subseteq D
    <3>. HIDE DEF D
    <3>. QED
      BY <2>5, ChainFacts
  <2>. QED
    BY <2>1, <2>2, <2>3, <2>4, <2>6
<1>. QED
  BY <1>1, <1>2

\* Of two keys on a chain one leads to the other.
LEMMA ChainCompares ==
    ASSUME NEW K, NEW link, Good(link, K), NEW k \in K,
           NEW x \in Chain(link, k), NEW y \in Chain(link, k)
    PROVE  x \in Chain(link, y) \/ y \in Chain(link, x)
<1>. DEFINE C == Chain(link, k)
            D == {z \in C : x \in Chain(link, z) \/ z \in Chain(link, x)}
<1>1. k \in D
  BY ChainFacts
<1>2. ASSUME NEW z \in D \cap K, link[z] # None PROVE link[z] \in D
  <2>1. link[z] \in C
    BY <1>2, ChainFacts
  <2>2. x \in K /\ x \in Chain(link, x)
    BY ChainGoesOn
  <2>3. CASE z \in Chain(link, x)
    BY <1>2, <2>1, <2>2, <2>3, ChainFacts
  <2>4. CASE x \in Chain(link, z)
    <3>1. x = z \/ x \in Chain(link, link[z])
      BY <1>2, <2>4, ChainUnfolds
    <3>2. CASE x = z
      BY <1>2, <2>1, <2>2, <3>2, ChainFacts
    <3>. QED
      BY <2>1, <3>1, <3>2
  <2>. QED
    BY <1>2, <2>3, <2>4
<1>3. C \subseteq D
  <2>. HIDE DEF C, D
  <2>1. Chain(link, k) \subseteq D
    BY <1>1, <1>2, ChainFacts
  <2>. QED
    BY <2>1 DEF C
<1>. QED
  BY <1>3

\* A chain has at most one end, and everything on it leads there.
LEMMA ChainEnd ==
    ASSUME NEW K, NEW link, Good(link, K), NEW k \in K,
           NEW r \in Chain(link, k), link[r] = None, NEW x \in Chain(link, k)
    PROVE  r \in Chain(link, x) /\ (link[x] = None => x = r)
<1>1. r \in K /\ x \in K
  BY ChainFacts
<1>2. Chain(link, r) = {r}
  BY <1>1, ChainUnfolds
<1>3. x \in Chain(link, r) \/ r \in Chain(link, x)
  BY ChainCompares
<1>4. x \in Chain(link, x)
  BY <1>1, ChainFacts
<1>5. link[x] = None => Chain(link, x) = {x}
  BY <1>1, ChainUnfolds
<1>. QED
  BY <1>2, <1>3, <1>4, <1>5

\* What holds at a chain's end, and of a key if of the next one, holds of all.
LEMMA ChainBackwards ==
    ASSUME NEW K, NEW link, Good(link, K), NEW k \in K,
           NEW r \in Chain(link, k), link[r] = None,
           NEW G, r \in G,
           \A x \in Chain(link, k) : link[x] # None /\ link[x] \in G => x \in G
    PROVE  k \in G
<1>. SUFFICES ASSUME k \notin G PROVE FALSE
  OBVIOUS
<1>. DEFINE D == Chain(link, k) \ G
<1>1. k \in D
  BY ChainFacts
<1>2. \A x \in D \cap K : link[x] # None => link[x] \in D
  BY ChainFacts
<1>3. Chain(link, k) \subseteq D
  <2>. HIDE DEF D
  <2>. QED
    BY <1>1, <1>2, ChainFacts
<1>. QED
  BY <1>3

\* A chain that ends does not come back.
LEMMA ChainNoCycle ==
    ASSUME NEW K, NEW link, Good(link, K), NEW k \in K,
           NEW r \in Chain(link, k), link[r] = None
    PROVE  /\ link[k] # None => k \notin Chain(link, link[k])
           /\ \A x \in Chain(link, k) : k \in Chain(link, x) => x = k
<1>1. ASSUME link[k] # None, k \in Chain(link, link[k]) PROVE FALSE
  <2>. DEFINE D == {z \in Chain(link, k) : k \in Chain(link, z)}
  <2>1. k \in D
    BY ChainFacts
  <2>2. ASSUME NEW z \in D \cap K, link[z] # None PROVE link[z] \in D
    <3>1. link[z] \in Chain(link, k)
      BY <2>2, ChainFacts
    <3>2. Chain(link, z) = {z} \cup Chain(link, link[z])
      BY <2>2, ChainUnfolds
    <3>. QED
      BY <1>1, <2>2, <3>1, <3>2
  <2>3. Chain(link, k) \subseteq D
    <3>. HIDE DEF D
    <3>. QED
      BY <2>1, <2>2, ChainFacts
  <2>4. r \in K /\ k \in Chain(link, r)
    BY <2>3, ChainFacts
  <2>5. k = r
    BY <2>4, ChainUnfolds
  <2>. QED
    BY <1>1, <2>5
<1>2. ASSUME NEW x \in Chain(link, k), k \in Chain(link, x), x # k PROVE FALSE
  <2>1. link[k] # None /\ x \in Chain(link, link[k]) /\ link[k] \in K
    BY <1>2, ChainUnfolds
  <2>2. PICK y \in K : y = link[k]
    BY <2>1
  <2>3. Chain(link, x) \subseteq Chain(link, y)
    BY <2>1, <2>2, ChainGoesOn
  <2>. QED
    BY <1>1, <1>2, <2>1, <2>2, <2>3
<1>. QED
  BY <1>1, <1>2

\* A chain is read from the links of the keys on it.
LEMMA SameChain ==
    ASSUME NEW K, NEW link, Good(link, K), NEW other, Good(other, K), NEW k \in K,
           \A x \in Chain(link, k) : other[x] = link[x]
    PROVE  Chain(other, k) = Chain(link, k)
<1>. DEFINE C == Chain(link, k)
            D == Chain(other, k)
<1>1. k \in C /\ C \subseteq K /\ \A x \in C : other[x] # None => other[x] \in C
  BY ChainFacts
<1>2. D \subseteq C
  <2>. HIDE DEF C, D
  <2>1. \A x \in C \cap K : other[x] # None => other[x] \in C
    BY <1>1
  <2>. QED
    BY <1>1, <2>1, ChainFacts DEF D
<1>3. k \in D /\ \A x \in D \cap K : link[x] # None => link[x] \in D
  BY <1>2, ChainFacts
<1>4. C \subseteq D
  <2>. HIDE DEF C, D
  <2>. QED
    BY <1>3, ChainFacts DEF C
<1>. QED
  BY <1>2, <1>4

-----------------------------------------------------------------------------
(* Classes.                                                                *)

LinksOver(K) == [parent : K \cup {None}, next : K \cup {None},
                 tail : K \cup {None}, size : Nat]
Typed(links, K) == IsFiniteSet(K) /\ None \notin K /\ links \in [K -> LinksOver(K)]

ParentOf(links) == [x \in DOMAIN links |-> links[x].parent]
NextOf(links) == [x \in DOMAIN links |-> links[x].next]

\* The two links of a typed representation lead from keys to keys.
LEMMA LinksAreGood ==
    ASSUME NEW K, NEW links, Typed(links, K)
    PROVE  /\ Good(ParentOf(links), K) /\ Good(NextOf(links), K)
           /\ \A x \in K : /\ ParentOf(links)[x] = links[x].parent
                           /\ NextOf(links)[x] = links[x].next
           /\ \A k : /\ Parents(links, k) = Chain(ParentOf(links), k)
                     /\ Follow(links, k) = Chain(NextOf(links), k)
                     /\ Members(links, k) = Chain(NextOf(links), k)
  BY DEF Typed, LinksOver, Good, Linked, ParentOf, NextOf, Parents, Follow, Members

\* What a well-formed representation tells of one key.
LEMMA RootFacts ==
    ASSUME NEW K, NEW links, Typed(links, K), NEW live \in SUBSET K,
           WellFormed(links, live), NEW k \in live
    PROVE  /\ Root(links, k) \in Parents(links, k) /\ Root(links, k) \in live
           /\ links[Root(links, k)].parent = None
           /\ Parents(links, k) \subseteq live /\ Follow(links, k) \subseteq live
           /\ \A x \in Parents(links, k) :
                 /\ Root(links, x) = Root(links, k)
                 /\ Root(links, k) \in Parents(links, x)
                 /\ links[x].parent = None => x = Root(links, k)
<1>. DEFINE p == ParentOf(links)
<1>1. /\ Good(p, K) /\ Parents(links, k) = Chain(p, k)
      /\ \A x \in K : p[x] = links[x].parent /\ Parents(links, x) = Chain(p, x)
  BY LinksAreGood
<1>2. PICK r \in Parents(links, k) : links[r].parent = None
  BY DEF WellFormed
<1>3. Parents(links, k) \subseteq live /\ Follow(links, k) \subseteq live
  BY DEF WellFormed
<1>. HIDE DEF p
<1>4. ASSUME NEW x \in Parents(links, k), NEW y \in Parents(links, x), links[y].parent = None
      PROVE  y = r
  <2>1. x \in K /\ y \in Parents(links, k) /\ y \in K
    BY <1>1, <1>3, <1>4, ChainGoesOn
  <2>2. /\ k \in K /\ r \in Chain(p, k) /\ p[r] = None
        /\ y \in Chain(p, k) /\ p[y] = None
    BY <1>1, <1>2, <1>3, <1>4, <2>1
  <2>. QED
    BY <1>1, <2>2, ChainEnd
<1>5. ASSUME NEW x \in Parents(links, k) PROVE r \in Parents(links, x)
  <2>1. x \in K /\ r \in K
    BY <1>2, <1>3
  <2>. QED
    BY <1>1, <1>2, <2>1, ChainEnd
<1>6. ASSUME NEW x \in Parents(links, k) PROVE Root(links, x) = r
  BY <1>2, <1>4, <1>5 DEF Root
<1>7. k \in Parents(links, k)
  BY <1>1, ChainFacts
<1>8. Root(links, k) = r
  BY <1>6, <1>7
<1>9. ASSUME NEW x \in Parents(links, k), links[x].parent = None PROVE x = r
  BY <1>4, <1>7, <1>9
<1>. QED
  BY <1>2, <1>3, <1>5, <1>6, <1>8, <1>9

\* A class is the list of its representative.
LEMMA ClassFacts ==
    ASSUME NEW K, NEW links, Typed(links, K), NEW live \in SUBSET K,
           WellFormed(links, live), NEW k \in live
    PROVE  /\ Class(links, k) = {x \in live : Root(links, x) = Root(links, k)}
           /\ k \in Class(links, k)
           /\ \A x \in Class(links, k) : Class(links, x) = Class(links, k)
           /\ Members(links, Root(links, k)) = Class(links, k)
           /\ Root(links, Root(links, k)) = Root(links, k)
<1>1. Root(links, k) \in live /\ links[Root(links, k)].parent = None
  BY RootFacts
<1>2. Members(links, Root(links, k)) = {x \in live : Root(links, x) = Root(links, k)}
  BY <1>1 DEF WellFormed
<1>3. Root(links, Root(links, k)) = Root(links, k)
  BY RootFacts
<1>. QED
  BY <1>2, <1>3 DEF Class

\* The members of a list, seen from its representative.
LEMMA ListFacts ==
    ASSUME NEW K, NEW links, Typed(links, K), NEW live \in SUBSET K,
           WellFormed(links, live), NEW r \in live, links[r].parent = None
    PROVE  /\ Members(links, r) = {x \in live : Root(links, x) = r}
           /\ Members(links, r) \subseteq live /\ r \in Members(links, r)
           /\ Root(links, r) = r
           /\ links[r].tail \in Members(links, r) /\ links[links[r].tail].next = None
           /\ links[r].size = Cardinality(Members(links, r))
           /\ \A x \in Members(links, r) :
                 /\ links[x].next = None => x = links[r].tail
                 /\ links[x].next # None => links[x].next \in Members(links, r)
<1>. DEFINE n == NextOf(links)
<1>1. /\ Good(n, K) /\ Members(links, r) = Chain(n, r)
      /\ \A x \in K : n[x] = links[x].next
  BY LinksAreGood
<1>2. r \in K /\ r \in Parents(links, r)
  <2>. DEFINE p == ParentOf(links)
  <2>1. Good(p, K) /\ Parents(links, r) = Chain(p, r)
    BY LinksAreGood
  <2>. HIDE DEF p
  <2>. QED
    BY <2>1, ChainFacts
<1>3. Root(links, r) = r
  BY <1>2, RootFacts
<1>. HIDE DEF n
<1>4. /\ Members(links, r) = {x \in live : Root(links, x) = r}
      /\ links[r].tail \in Members(links, r) /\ links[links[r].tail].next = None
      /\ links[r].size = Cardinality(Members(links, r))
  BY DEF WellFormed
<1>5. ASSUME NEW x \in Members(links, r)
      PROVE  /\ links[x].next = None => x = links[r].tail
             /\ links[x].next # None => links[x].next \in Members(links, r)
  <2>1. x \in K /\ links[r].tail \in K
    BY <1>4
  <2>2. links[x].next = None => x = links[r].tail
    <3>. SUFFICES ASSUME links[x].next = None PROVE x = links[r].tail
      OBVIOUS
    <3>1. PICK t \in K : t = links[r].tail
      BY <2>1
    <3>2. t \in Chain(n, r) /\ n[t] = None /\ x \in Chain(n, r) /\ n[x] = None
      BY <1>1, <1>4, <2>1, <3>1
    <3>. QED
      BY <1>1, <1>2, <3>1, <3>2, ChainEnd
  <2>3. links[x].next # None => links[x].next \in Members(links, r)
    BY <1>1, <1>2, <2>1, ChainFacts
  <2>. QED
    BY <2>2, <2>3
<1>. QED
  BY <1>3, <1>4, <1>5

\* A representation that keeps a class per representative is well formed.
LEMMA WellFormedBy ==
    ASSUME NEW K, NEW links, Typed(links, K), NEW live \in SUBSET K, NEW rep,
           \A k \in live : /\ rep[k] \in Parents(links, k)
                           /\ links[rep[k]].parent = None
                           /\ links[k].parent \in live \cup {None}
                           /\ links[k].next \in live \cup {None},
           \A r \in live : links[r].parent = None =>
              /\ Members(links, r) = {k \in live : rep[k] = r}
              /\ links[r].tail \in Members(links, r)
              /\ links[links[r].tail].next = None
              /\ links[r].size = Cardinality(Members(links, r))
    PROVE  WellFormed(links, live) /\ \A k \in live : Root(links, k) = rep[k]
<1>. DEFINE p == ParentOf(links)
            n == NextOf(links)
<1>1. /\ Good(p, K) /\ Good(n, K)
      /\ \A x \in K : p[x] = links[x].parent /\ n[x] = links[x].next
      /\ \A k : Parents(links, k) = Chain(p, k) /\ Follow(links, k) = Chain(n, k)
  BY LinksAreGood
<1>. HIDE DEF p, n
<1>2. ASSUME NEW k \in live PROVE Parents(links, k) \subseteq live /\ Follow(links, k) \subseteq live
  <2>1. /\ \A x \in live \cap K : p[x] # None => p[x] \in live
        /\ \A x \in live \cap K : n[x] # None => n[x] \in live
    BY <1>1
  <2>. QED
    BY <1>1, <2>1, ChainFacts
<1>3. ASSUME NEW k \in live PROVE Root(links, k) = rep[k]
  <2>1. \A x \in Parents(links, k) : links[x].parent = None => x = rep[k]
    BY <1>1, <1>2, ChainEnd
  <2>. QED
    BY <2>1 DEF Root
<1>4. ASSUME NEW k \in live PROVE \E r \in Parents(links, k) : links[r].parent = None
  OBVIOUS
<1>5. ASSUME NEW r \in {k \in live : links[k].parent = None}
      PROVE  Members(links, r) = {k \in live : Root(links, k) = r}
  BY <1>3
<1>. QED
  BY <1>2, <1>3, <1>4, <1>5 DEF WellFormed

(***************************************************************************)
(* find's path compression changes no representative, no member list and   *)
(* no key off the live ones, and leaves the representation well formed.    *)
(***************************************************************************)
THEOREM FindKeeps ==
    ASSUME NEW K, NEW links, Typed(links, K), NEW live \in SUBSET K,
           WellFormed(links, live), NEW k \in live
    PROVE  /\ Typed(Find(links, k), K) /\ WellFormed(Find(links, k), live)
           /\ \A x \in live : Root(Find(links, k), x) = Root(links, x)
           /\ \A x \in K : /\ Find(links, k)[x].next = links[x].next
                           /\ Find(links, k)[x].tail = links[x].tail
                           /\ Find(links, k)[x].size = links[x].size
                           /\ Find(links, k)[x].parent = None <=> links[x].parent = None
                           /\ x \notin live => Find(links, k)[x] = links[x]
           /\ \A x \in live : Members(Find(links, k), x) = Members(links, x)
<1>. DEFINE m == Find(links, k)
            root == Root(links, k)
            path == Parents(links, k) \ {root}
            p == ParentOf(links)
            q == ParentOf(m)
<1>1. /\ root \in Parents(links, k) /\ root \in live /\ links[root].parent = None
      /\ Parents(links, k) \subseteq live
      /\ \A x \in Parents(links, k) :
            /\ Root(links, x) = root /\ root \in Parents(links, x)
            /\ links[x].parent = None => x = root
  BY RootFacts
<1>2. /\ DOMAIN m = K
      /\ \A x \in K : m[x] = IF x \in path THEN [links[x] EXCEPT !.parent = root] ELSE links[x]
  BY DEF Find, Typed
<1>. HIDE DEF m, root
<1>3. ASSUME NEW x \in K
      PROVE  /\ m[x] \in LinksOver(K)
             /\ m[x].next = links[x].next /\ m[x].tail = links[x].tail
             /\ m[x].size = links[x].size
             /\ x \in path => m[x].parent = root
             /\ x \notin path => m[x] = links[x]
  <2>1. links[x] \in LinksOver(K) /\ root \in K
    BY <1>1 DEF Typed
  <2>. QED
    BY <1>2, <2>1 DEF LinksOver
<1>4. Typed(m, K)
  <2>1. m \in [K -> LinksOver(K)]
    <3>1. m = [x \in K |-> m[x]]
      BY <1>2 DEF m, Find, Typed
    <3>. QED
      BY <1>3, <3>1
  <2>. QED
    BY <2>1 DEF Typed
<1>5. root \in K /\ root # None
  BY <1>1 DEF Typed
<1>6. ASSUME NEW x \in K
      PROVE  /\ m[x].parent = None <=> links[x].parent = None
             /\ x \notin live => m[x] = links[x]
  BY <1>1, <1>3, <1>5
<1>7. ASSUME NEW x \in live PROVE Root(links, x) \in Parents(m, x)
  <2>. DEFINE G == {y \in K : Root(links, x) \in Parents(m, y)}
              r == Root(links, x)
  <2>1. /\ Good(p, K) /\ Good(q, K)
        /\ \A y \in K : p[y] = links[y].parent /\ q[y] = m[y].parent
        /\ \A y : Parents(links, y) = Chain(p, y) /\ Parents(m, y) = Chain(q, y)
    BY <1>4, LinksAreGood
  <2>2. /\ r \in Parents(links, x) /\ r \in live /\ links[r].parent = None
        /\ Parents(links, x) \subseteq live
        /\ \A y \in Parents(links, x) : Root(links, y) = r
    BY RootFacts
  <2>. HIDE DEF p, q, r
  <2>3. r \in G
    BY <2>1, <2>2, ChainFacts DEF r
  <2>4. ASSUME NEW y \in Chain(p, x), p[y] # None, p[y] \in G PROVE y \in G
    <3>1. y \in live /\ y \in K /\ Root(links, y) = r
      BY <2>1, <2>2
    <3>2. CASE y \in path
      <4>1. q[y] = r /\ r # None /\ r \in K
        BY <1>1, <1>3, <1>5, <2>1, <3>1, <3>2
      <4>2. r \in Chain(q, r)
        BY <2>1, <4>1, ChainFacts
      <4>3. Chain(q, y) = {y} \cup Chain(q, r)
        BY <2>1, <3>1, <4>1, ChainUnfolds
      <4>. QED
        BY <2>1, <3>1, <4>2, <4>3 DEF r
    <3>3. CASE y \notin path
      <4>1. q[y] = p[y]
        BY <1>3, <2>1, <3>1, <3>3
      <4>2. Chain(q, y) = {y} \cup Chain(q, q[y])
        BY <2>1, <2>4, <3>1, <4>1, ChainUnfolds
      <4>. QED
        BY <2>1, <2>4, <3>1, <4>1, <4>2 DEF r
    <3>. QED
      BY <3>2, <3>3
  <2>5. x \in G
    <3>. HIDE DEF G
    <3>1. x \in K /\ r \in Chain(p, x) /\ p[r] = None
      BY <2>1, <2>2
    <3>. QED
      BY <2>1, <2>3, <2>4, <3>1, ChainBackwards
  <2>. QED
    BY <2>5
<1>8. NextOf(m) = NextOf(links)
  BY <1>2, <1>3 DEF NextOf, Typed
<1>9. \A x : Members(m, x) = Members(links, x) /\ Follow(m, x) = Follow(links, x)
  BY <1>4, <1>8, LinksAreGood
<1>10. ASSUME NEW x \in live
       PROVE  /\ m[x].parent \in live \cup {None} /\ m[x].next \in live \cup {None}
              /\ m[Root(links, x)].parent = None
  <2>1. links[x].parent \in live \cup {None} /\ links[x].next \in live \cup {None}
    <3>1. /\ Good(p, K) /\ Good(NextOf(links), K) /\ p[x] = links[x].parent
          /\ NextOf(links)[x] = links[x].next
          /\ Parents(links, x) = Chain(p, x) /\ Follow(links, x) = Chain(NextOf(links), x)
      BY LinksAreGood
    <3>. HIDE DEF p
    <3>. QED
      BY <3>1, RootFacts, ChainFacts
  <2>2. Root(links, x) \in live /\ links[Root(links, x)].parent = None
    BY RootFacts
  <2>. QED
    BY <1>1, <1>3, <1>6, <2>1, <2>2
<1>11. ASSUME NEW r \in live, m[r].parent = None
       PROVE  /\ Members(m, r) = {x \in live : Root(links, x) = r}
              /\ m[r].tail \in Members(m, r) /\ m[m[r].tail].next = None
              /\ m[r].size = Cardinality(Members(m, r))
  <2>1. links[r].parent = None
    BY <1>6, <1>11
  <2>2. links[r].tail \in live
    BY <2>1, ListFacts
  <2>. QED
    BY <1>3, <1>9, <2>1, <2>2, ListFacts
<1>12. WellFormed(m, live) /\ \A x \in live : Root(m, x) = Root(links, x)
  <2>. DEFINE rep == [x \in live |-> Root(links, x)]
  <2>1. \A x \in live : rep[x] = Root(links, x)
    OBVIOUS
  <2>. HIDE DEF rep
  <2>2. \A x \in live : /\ rep[x] \in Parents(m, x)
                        /\ m[rep[x]].parent = None
                        /\ m[x].parent \in live \cup {None}
                        /\ m[x].next \in live \cup {None}
    BY <1>7, <1>10, <2>1
  <2>3. \A r \in live : m[r].parent = None =>
              /\ Members(m, r) = {x \in live : rep[x] = r}
              /\ m[r].tail \in Members(m, r)
              /\ m[m[r].tail].next = None
              /\ m[r].size = Cardinality(Members(m, r))
    BY <1>11, <2>1
  <2>. QED
    BY <1>4, <2>1, <2>2, <2>3, WellFormedBy
<1>. QED
  BY <1>3, <1>4, <1>6, <1>9, <1>12 DEF m

\* The links that live keys hold lead to live keys.
LEMMA LiveLinks ==
    ASSUME NEW K, NEW links, Typed(links, K), NEW live \in SUBSET K,
           WellFormed(links, live), NEW x \in live
    PROVE  links[x].parent \in live \cup {None} /\ links[x].next \in live \cup {None}
<1>. DEFINE p == ParentOf(links)
            n == NextOf(links)
<1>1. /\ Good(p, K) /\ Good(n, K) /\ p[x] = links[x].parent /\ n[x] = links[x].next
      /\ Parents(links, x) = Chain(p, x) /\ Follow(links, x) = Chain(n, x)
  BY LinksAreGood
<1>. HIDE DEF p, n
<1>. QED
  BY <1>1, RootFacts, ChainFacts

\* union's splice puts the second class at the end of the first.
LEMMA SpliceJoins ==
    ASSUME NEW K, NEW links, Typed(links, K), NEW live \in SUBSET K,
           WellFormed(links, live), NEW ra \in live, NEW rb \in live, ra # rb,
           links[ra].parent = None, links[rb].parent = None
    PROVE  /\ Typed(Splice(links, ra, rb), K) /\ WellFormed(Splice(links, ra, rb), live)
           /\ \A x \in live : Root(Splice(links, ra, rb), x) =
                                 IF Root(links, x) = rb THEN ra ELSE Root(links, x)
<1>. DEFINE m == Splice(links, ra, rb)
            t == links[ra].tail
            A == Members(links, ra)
            B == Members(links, rb)
            p == ParentOf(links)
            q == ParentOf(m)
            n == NextOf(links)
            o == NextOf(m)
            rep == [x \in live |-> IF Root(links, x) = rb THEN ra ELSE Root(links, x)]
<1>1. /\ A = {x \in live : Root(links, x) = ra} /\ ra \in A
      /\ t \in A /\ links[t].next = None
      /\ links[ra].size = Cardinality(A) /\ Root(links, ra) = ra
      /\ \A x \in A : links[x].next = None => x = t
  BY ListFacts
<1>2. /\ B = {x \in live : Root(links, x) = rb} /\ rb \in B
      /\ links[rb].tail \in B /\ links[links[rb].tail].next = None
      /\ links[rb].size = Cardinality(B) /\ Root(links, rb) = rb
  BY ListFacts
<1>3. A \cap B = {} /\ A \subseteq live /\ B \subseteq live
  BY <1>1, <1>2
<1>4. /\ DOMAIN m = K
      /\ \A x \in K : /\ m[x].parent = IF x = rb THEN ra ELSE links[x].parent
                      /\ m[x].next = IF x = t THEN rb ELSE links[x].next
                      /\ m[x].tail = IF x = ra THEN links[rb].tail ELSE links[x].tail
                      /\ m[x].size = IF x = ra THEN links[ra].size + links[rb].size
                                     ELSE links[x].size
  BY DEF Splice, Typed
<1>5. Typed(m, K)
  <2>1. \A x \in K : links[x] \in LinksOver(K)
    BY DEF Typed
  <2>2. \A x \in K : m[x] \in LinksOver(K)
    <3>. SUFFICES ASSUME NEW x \in K PROVE m[x] \in LinksOver(K)
      OBVIOUS
    <3>1. m[x] = [parent |-> IF x = rb THEN ra ELSE links[x].parent,
                  next   |-> IF x = t THEN rb ELSE links[x].next,
                  tail   |-> IF x = ra THEN links[rb].tail ELSE links[x].tail,
                  size   |-> IF x = ra THEN links[ra].size + links[rb].size
                              ELSE links[x].size]
      BY DEF Splice, Typed
    <3>2. /\ links[x] \in LinksOver(K) /\ links[ra] \in LinksOver(K)
          /\ links[rb] \in LinksOver(K)
      BY <2>1
    <3>3. /\ (IF x = rb THEN ra ELSE links[x].parent) \in K \cup {None}
          /\ (IF x = t THEN rb ELSE links[x].next) \in K \cup {None}
          /\ (IF x = ra THEN links[rb].tail ELSE links[x].tail) \in K \cup {None}
          /\ (IF x = ra THEN links[ra].size + links[rb].size ELSE links[x].size) \in Nat
      BY <3>2 DEF LinksOver
    <3>. QED
      BY <3>1, <3>3 DEF LinksOver
  <2>3. m = [x \in K |-> m[x]]
    BY DEF Splice, Typed
  <2>. QED
    BY <2>2, <2>3 DEF Typed
<1>6. /\ Good(p, K) /\ Good(n, K)
      /\ \A x \in K : p[x] = links[x].parent /\ n[x] = links[x].next
      /\ \A x : /\ Parents(links, x) = Chain(p, x)
                /\ Follow(links, x) = Chain(n, x) /\ Members(links, x) = Chain(n, x)
  BY LinksAreGood
<1>7. /\ Good(q, K) /\ Good(o, K)
      /\ \A x \in K : q[x] = m[x].parent /\ o[x] = m[x].next
      /\ \A x : /\ Parents(m, x) = Chain(q, x)
                /\ Follow(m, x) = Chain(o, x) /\ Members(m, x) = Chain(o, x)
  BY <1>5, LinksAreGood
<1>8. None \notin K
  BY DEF Typed
<1>. HIDE DEF m, t, A, B, p, q, n, o
<1>9. ASSUME NEW x \in live PROVE rep[x] \in Parents(m, x)
  <2>1. /\ Root(links, x) \in Chain(p, x) /\ Root(links, x) \in live
        /\ p[Root(links, x)] = None /\ Chain(p, x) \subseteq live
    BY <1>6, RootFacts
  <2>. DEFINE r == Root(links, x)
              G == {y \in K : rep[x] \in Chain(q, y)}
  <2>2. r \in G
    <3>1. CASE r = rb
      <4>1. q[rb] = ra /\ rep[x] = ra
        BY <1>4, <1>7, <3>1
      <4>2. Chain(q, rb) = {rb} \cup Chain(q, ra) /\ ra \in Chain(q, ra)
        BY <1>7, <1>8, <4>1, ChainUnfolds, ChainFacts
      <4>. QED
        BY <3>1, <4>1, <4>2
    <3>2. CASE r # rb
      BY <1>7, <2>1, <3>2, ChainFacts
    <3>. QED
      BY <3>1, <3>2
  <2>3. ASSUME NEW y \in Chain(p, x), p[y] # None, p[y] \in G PROVE y \in G
    <3>1. y \in K /\ y # rb
      BY <1>6, <2>1, <2>3
    <3>2. q[y] = p[y]
      BY <1>4, <1>6, <1>7, <3>1
    <3>3. Chain(q, y) = {y} \cup Chain(q, q[y])
      BY <1>7, <2>3, <3>1, <3>2, ChainUnfolds
    <3>. QED
      BY <2>3, <3>1, <3>2, <3>3
  <2>4. x \in G
    <3>. HIDE DEF G, rep
    <3>1. x \in K
      OBVIOUS
    <3>. QED
      BY <1>6, <2>1, <2>2, <2>3, <3>1, ChainBackwards
  <2>. QED
    BY <1>7, <2>4
<1>10. ASSUME NEW x \in live
       PROVE  /\ m[x].parent \in live \cup {None} /\ m[x].next \in live \cup {None}
              /\ rep[x] \in live /\ m[rep[x]].parent = None
  <2>1. links[x].parent \in live \cup {None} /\ links[x].next \in live \cup {None}
    BY LiveLinks
  <2>2. Root(links, x) \in live /\ links[Root(links, x)].parent = None
    BY RootFacts
  <2>. QED
    BY <1>4, <2>1, <2>2
<1>11. Members(m, ra) = A \cup B
  <2>1. ra \in K /\ rb \in K /\ A = Chain(n, ra) /\ B = Chain(n, rb)
    BY <1>6 DEF A, B
  <2>2. Chain(o, ra) \subseteq A \cup B
    <3>. DEFINE D == A \cup B
    <3>1. ra \in D
      BY <1>1
    <3>2. ASSUME NEW x \in D \cap K, o[x] # None PROVE o[x] \in D
      <4>1. CASE x = t
        BY <1>2, <1>4, <1>7, <4>1
      <4>2. CASE x # t
        <5>1. o[x] = n[x]
          BY <1>4, <1>6, <1>7, <4>2
        <5>. QED
          BY <1>6, <2>1, <3>2, <5>1, ChainFacts
      <4>. QED
        BY <4>1, <4>2
    <3>. HIDE DEF D
    <3>3. Chain(o, ra) \subseteq D
      BY <1>7, <2>1, <3>1, <3>2, ChainFacts
    <3>. QED
      BY <3>3 DEF D
  <2>. DEFINE E == Chain(o, ra)
  <2>3. ASSUME NEW x \in E \cap K, n[x] # None PROVE n[x] \in E
    <3>1. x # t
      BY <1>1, <1>3, <1>6, <2>3
    <3>2. o[x] = n[x]
      BY <1>4, <1>6, <1>7, <2>3, <3>1
    <3>. QED
      BY <1>7, <2>1, <2>3, <3>2, ChainFacts
  <2>4. ra \in E
    BY <1>7, <2>1, ChainFacts
  <2>5. A \subseteq E
    <3>. HIDE DEF E
    <3>. QED
      BY <1>6, <2>1, <2>3, <2>4, ChainFacts
  <2>6. rb \in E
    <3>1. t \in E /\ t \in K
      BY <1>1, <1>3, <2>5
    <3>2. o[t] = rb
      BY <1>4, <1>7, <3>1
    <3>. QED
      BY <1>7, <1>8, <2>1, <3>1, <3>2, ChainFacts
  <2>7. B \subseteq E
    <3>. HIDE DEF E
    <3>. QED
      BY <1>6, <2>1, <2>3, <2>6, ChainFacts
  <2>. QED
    BY <1>7, <2>2, <2>5, <2>7
<1>12. ASSUME NEW r \in live, m[r].parent = None
       PROVE  /\ Members(m, r) = {x \in live : rep[x] = r}
              /\ m[r].tail \in Members(m, r)
              /\ m[m[r].tail].next = None
              /\ m[r].size = Cardinality(Members(m, r))
  <2>1. links[r].parent = None /\ r # rb /\ r \in K
    BY <1>4, <1>8, <1>12
  <2>2. CASE r = ra
    <3>1. A \cup B = {x \in live : rep[x] = ra}
      BY <1>1, <1>2
    <3>2. m[ra].tail = links[rb].tail /\ links[rb].tail # t /\ links[rb].tail \in K
      BY <1>1, <1>2, <1>3, <1>4
    <3>3. m[links[rb].tail].next = None
      BY <1>2, <1>4, <3>2
    <3>4. IsFiniteSet(A) /\ IsFiniteSet(B)
      BY <1>3, FS_Subset DEF Typed
    <3>5. Cardinality(A \cup B) = Cardinality(A) + Cardinality(B)
      <4>1. Cardinality(A \cup B) = Cardinality(A) + Cardinality(B) - Cardinality(A \cap B)
        BY <3>4, FS_Union
      <4>2. Cardinality(A \cap B) = 0
        BY <1>3, FS_EmptySet
      <4>3. Cardinality(A) \in Nat /\ Cardinality(B) \in Nat
        BY <3>4, FS_CardinalityType
      <4>. QED
        BY <4>1, <4>2, <4>3
    <3>6. m[ra].size = Cardinality(A \cup B)
      BY <1>1, <1>2, <1>4, <3>5
    <3>. QED
      BY <1>2, <1>11, <2>2, <3>1, <3>2, <3>3, <3>6
  <2>3. CASE r # ra
    <3>1. /\ Members(links, r) = {x \in live : Root(links, x) = r}
          /\ links[r].tail \in Members(links, r) /\ links[links[r].tail].next = None
          /\ links[r].size = Cardinality(Members(links, r))
      BY <2>1, ListFacts
    <3>2. t \notin Members(links, r)
      BY <1>1, <2>3, <3>1
    <3>3. ASSUME NEW x \in Chain(n, r) PROVE o[x] = n[x]
      BY <1>4, <1>6, <1>7, <3>1, <3>2
    <3>4. Members(m, r) = Members(links, r)
      BY <1>6, <1>7, <2>1, <3>3, SameChain
    <3>5. m[r].tail = links[r].tail /\ m[r].size = links[r].size
      BY <1>4, <2>1, <2>3
    <3>6. m[links[r].tail].next = None
      BY <1>4, <3>1, <3>2
    <3>7. Members(links, r) = {x \in live : rep[x] = r}
      BY <2>1, <2>3, <3>1
    <3>. QED
      BY <3>1, <3>4, <3>5, <3>6, <3>7
  <2>. QED
    BY <2>2, <2>3
<1>13. WellFormed(m, live) /\ \A x \in live : Root(m, x) = rep[x]
  <2>. HIDE DEF rep
  <2>1. \A x \in live : /\ rep[x] \in Parents(m, x)
                        /\ m[rep[x]].parent = None
                        /\ m[x].parent \in live \cup {None}
                        /\ m[x].next \in live \cup {None}
    BY <1>9, <1>10
  <2>2. \A r \in live : m[r].parent = None =>
              /\ Members(m, r) = {x \in live : rep[x] = r}
              /\ m[r].tail \in Members(m, r)
              /\ m[m[r].tail].next = None
              /\ m[r].size = Cardinality(Members(m, r))
    BY <1>12
  <2>. QED
    BY <1>5, <2>1, <2>2, WellFormedBy
<1>. QED
  BY <1>5, <1>13 DEF m

(***************************************************************************)
(* union leaves the representation well formed, whichever of the two       *)
(* representatives it keeps: the members of both classes find that one,    *)
(* and every other key finds the one it found.                             *)
(***************************************************************************)
THEOREM UnionJoins ==
    ASSUME NEW K, NEW links, Typed(links, K), NEW live \in SUBSET K,
           WellFormed(links, live), NEW a \in live, NEW b \in live
    PROVE  /\ Typed(Union(links, a, b), K) /\ WellFormed(Union(links, a, b), live)
           /\ \E rep \in {Root(links, a), Root(links, b)} :
                 \A x \in live : Root(Union(links, a, b), x) =
                    IF Root(links, x) \in {Root(links, a), Root(links, b)} THEN rep
                    ELSE Root(links, x)
<1>1. PICK first : first = Find(links, a)
  OBVIOUS
<1>2. PICK found : found = Find(first, b)
  OBVIOUS
<1>3. /\ Typed(first, K) /\ WellFormed(first, live)
      /\ \A x \in live : Root(first, x) = Root(links, x)
  BY <1>1, FindKeeps
<1>4. /\ Typed(found, K) /\ WellFormed(found, live)
      /\ \A x \in live : Root(found, x) = Root(links, x)
  BY <1>2, <1>3, FindKeeps
<1>5. PICK ra, rb : ra = Root(links, a) /\ rb = Root(links, b)
  OBVIOUS
<1>6. /\ ra \in live /\ rb \in live /\ ra = Root(found, a) /\ rb = Root(found, b)
      /\ found[ra].parent = None /\ found[rb].parent = None
  BY <1>4, <1>5, RootFacts
<1>7. \/ ra = rb /\ Union(links, a, b) = found
      \/ ra # rb /\ Union(links, a, b) = Splice(found, ra, rb)
      \/ ra # rb /\ Union(links, a, b) = Splice(found, rb, ra)
  BY <1>1, <1>2, <1>6 DEF Union
<1>8. CASE ra = rb /\ Union(links, a, b) = found
  BY <1>4, <1>5, <1>8
<1>9. CASE ra # rb /\ Union(links, a, b) = Splice(found, ra, rb)
  <2>1. /\ Typed(Splice(found, ra, rb), K) /\ WellFormed(Splice(found, ra, rb), live)
        /\ \A x \in live : Root(Splice(found, ra, rb), x) =
                              IF Root(found, x) = rb THEN ra ELSE Root(found, x)
    BY <1>4, <1>6, <1>9, SpliceJoins
  <2>2. \A x \in live : Root(Union(links, a, b), x) =
                    IF Root(links, x) \in {ra, rb} THEN ra ELSE Root(links, x)
    BY <1>4, <1>9, <2>1
  <2>. QED
    BY <1>5, <1>9, <2>1, <2>2
<1>10. CASE ra # rb /\ Union(links, a, b) = Splice(found, rb, ra)
  <2>1. /\ Typed(Splice(found, rb, ra), K) /\ WellFormed(Splice(found, rb, ra), live)
        /\ \A x \in live : Root(Splice(found, rb, ra), x) =
                              IF Root(found, x) = ra THEN rb ELSE Root(found, x)
    BY <1>4, <1>6, <1>10, SpliceJoins
  <2>2. \A x \in live : Root(Union(links, a, b), x) =
                    IF Root(links, x) \in {ra, rb} THEN rb ELSE Root(links, x)
    BY <1>4, <1>10, <2>1
  <2>. QED
    BY <1>5, <1>10, <2>1, <2>2
<1>. QED
  BY <1>7, <1>8, <1>9, <1>10

\* Neither step touches a key outside the live ones.
LEMMA UnionOutside ==
    ASSUME NEW K, NEW links, Typed(links, K), NEW live \in SUBSET K,
           WellFormed(links, live), NEW a \in live, NEW b \in live,
           NEW x \in K \ live
    PROVE  Union(links, a, b)[x] = links[x]
<1>1. PICK first : first = Find(links, a)
  OBVIOUS
<1>2. PICK found : found = Find(first, b)
  OBVIOUS
<1>3. Typed(first, K) /\ WellFormed(first, live) /\ first[x] = links[x]
  BY <1>1, FindKeeps
<1>4. Typed(found, K) /\ WellFormed(found, live) /\ found[x] = links[x]
  BY <1>2, <1>3, FindKeeps
<1>5. ASSUME NEW r \in live, NEW s \in live, found[r].parent = None
      PROVE  Splice(found, r, s)[x] = found[x]
  <2>1. found[r].tail \in live
    BY <1>4, <1>5, ListFacts
  <2>2. x # r /\ x # s /\ x # found[r].tail
    BY <2>1
  <2>3. Splice(found, r, s)[x] =
           [parent |-> found[x].parent, next |-> found[x].next,
            tail |-> found[x].tail, size |-> found[x].size]
    BY <1>4, <2>2 DEF Splice, Typed
  <2>4. found[x] \in LinksOver(K)
    BY <1>4 DEF Typed
  <2>. QED
    BY <2>3, <2>4 DEF LinksOver
<1>6. PICK ra, rb : ra = Root(found, a) /\ rb = Root(found, b)
  OBVIOUS
<1>7. /\ ra \in live /\ rb \in live
      /\ found[ra].parent = None /\ found[rb].parent = None
  BY <1>4, <1>6, RootFacts
<1>8. Union(links, a, b) \in {found, Splice(found, ra, rb), Splice(found, rb, ra)}
  BY <1>1, <1>2, <1>6 DEF Union
<1>. QED
  BY <1>4, <1>5, <1>7, <1>8

\* make_set adds a class of one.
LEMMA MakeSetAdds ==
    ASSUME NEW K, NEW links, Typed(links, K), NEW live \in SUBSET K,
           WellFormed(links, live), NEW k \in K \ live
    PROVE  /\ Typed(MakeSet(links, k), K) /\ WellFormed(MakeSet(links, k), live \cup {k})
           /\ \A x \in live : Root(MakeSet(links, k), x) = Root(links, x)
           /\ Root(MakeSet(links, k), k) = k
<1>. DEFINE m == MakeSet(links, k)
            rep == [x \in live \cup {k} |-> IF x = k THEN k ELSE Root(links, x)]
            p == ParentOf(links)
            q == ParentOf(m)
            n == NextOf(links)
            o == NextOf(m)
<1>1. /\ DOMAIN m = K /\ m[k] = Singleton(k)
      /\ \A x \in K : x # k => m[x] = links[x]
  BY DEF MakeSet, Typed
<1>2. Typed(m, K)
  BY DEF MakeSet, Typed, LinksOver, Singleton
<1>3. /\ Good(p, K) /\ Good(n, K)
      /\ \A x \in K : p[x] = links[x].parent /\ n[x] = links[x].next
      /\ \A x : Parents(links, x) = Chain(p, x) /\ Members(links, x) = Chain(n, x)
  BY LinksAreGood
<1>4. /\ Good(q, K) /\ Good(o, K)
      /\ \A x \in K : q[x] = m[x].parent /\ o[x] = m[x].next
      /\ \A x : Parents(m, x) = Chain(q, x) /\ Members(m, x) = Chain(o, x)
  BY <1>2, LinksAreGood
<1>5. m[k].parent = None /\ m[k].next = None /\ m[k].tail = k /\ m[k].size = 1
  BY <1>1 DEF Singleton
<1>. HIDE DEF m, p, q, n, o
<1>6. Chain(q, k) = {k} /\ Chain(o, k) = {k}
  BY <1>4, <1>5, ChainUnfolds
<1>7. ASSUME NEW x \in live
      PROVE  /\ Chain(q, x) = Chain(p, x) /\ Chain(o, x) = Chain(n, x)
             /\ Root(links, x) \in Chain(p, x) /\ Root(links, x) \in live
             /\ links[Root(links, x)].parent = None
             /\ links[x].parent \in live \cup {None} /\ links[x].next \in live \cup {None}
  <2>1. /\ Chain(p, x) \subseteq live /\ Follow(links, x) \subseteq live
        /\ Root(links, x) \in Chain(p, x) /\ Root(links, x) \in live
        /\ links[Root(links, x)].parent = None
    BY <1>3, RootFacts
  <2>2. Chain(n, x) \subseteq live
    BY <1>3, <2>1 DEF Follow, Members
  <2>3. \A y \in Chain(p, x) : q[y] = p[y]
    BY <1>1, <1>3, <1>4, <2>1
  <2>4. \A y \in Chain(n, x) : o[y] = n[y]
    BY <1>1, <1>3, <1>4, <2>2
  <2>5. Chain(q, x) = Chain(p, x)
    BY <1>3, <1>4, <2>3, SameChain
  <2>6. Chain(o, x) = Chain(n, x)
    BY <1>3, <1>4, <2>4, SameChain
  <2>. QED
    BY <2>1, <2>5, <2>6, LiveLinks
<1>8. \A x \in live : x # k /\ rep[x] = Root(links, x) /\ m[x] = links[x]
  BY <1>1
<1>9. rep[k] = k
  OBVIOUS
<1>10. \A x \in live \cup {k} : /\ rep[x] \in Parents(m, x)
                                /\ m[rep[x]].parent = None
                                /\ m[x].parent \in (live \cup {k}) \cup {None}
                                /\ m[x].next \in (live \cup {k}) \cup {None}
  BY <1>4, <1>5, <1>6, <1>7, <1>8, <1>9
<1>11. ASSUME NEW r \in live \cup {k}, m[r].parent = None
       PROVE  /\ Members(m, r) = {x \in live \cup {k} : rep[x] = r}
              /\ m[r].tail \in Members(m, r)
              /\ m[m[r].tail].next = None
              /\ m[r].size = Cardinality(Members(m, r))
  <2>1. CASE r = k
    <3>1. \A x \in live : rep[x] # k
      BY <1>7, <1>8
    <3>2. Cardinality({k}) = 1
      BY FS_Singleton
    <3>. QED
      BY <1>4, <1>5, <1>6, <1>9, <2>1, <3>1, <3>2
  <2>2. CASE r # k
    <3>1. r \in live /\ links[r].parent = None
      BY <1>8, <1>11, <2>2
    <3>2. /\ Members(links, r) = {x \in live : Root(links, x) = r}
          /\ links[r].tail \in Members(links, r) /\ links[links[r].tail].next = None
          /\ links[r].size = Cardinality(Members(links, r))
      BY <3>1, ListFacts
    <3>3. Members(m, r) = Members(links, r)
      BY <1>3, <1>4, <1>7, <3>1
    <3>4. m[r] = links[r] /\ m[links[r].tail] = links[links[r].tail]
      BY <1>8, <3>1, <3>2
    <3>5. Members(links, r) = {x \in live \cup {k} : rep[x] = r}
      BY <1>8, <1>9, <2>2, <3>2
    <3>. QED
      BY <3>2, <3>3, <3>4, <3>5
  <2>. QED
    BY <2>1, <2>2
<1>12. WellFormed(m, live \cup {k}) /\ \A x \in live \cup {k} : Root(m, x) = rep[x]
  <2>1. PICK alive : alive = live \cup {k} /\ alive \in SUBSET K
    OBVIOUS
  <2>2. PICK other : other = rep
    OBVIOUS
  <2>. HIDE DEF rep
  <2>3. \A x \in alive : /\ other[x] \in Parents(m, x)
                         /\ m[other[x]].parent = None
                         /\ m[x].parent \in alive \cup {None}
                         /\ m[x].next \in alive \cup {None}
    BY <1>10, <2>1, <2>2
  <2>4. \A r \in alive : m[r].parent = None =>
              /\ Members(m, r) = {x \in alive : other[x] = r}
              /\ m[r].tail \in Members(m, r)
              /\ m[m[r].tail].next = None
              /\ m[r].size = Cardinality(Members(m, r))
    BY <1>11, <2>1, <2>2
  <2>5. WellFormed(m, alive) /\ \A x \in alive : Root(m, x) = other[x]
    <3>1. alive \in SUBSET K
      BY <2>1
    <3>. QED
      BY ONLY <1>2, <2>3, <2>4, <3>1, WellFormedBy
  <2>. QED
    BY <2>1, <2>2, <2>5
<1>. QED
  BY <1>2, <1>8, <1>9, <1>12 DEF m

-----------------------------------------------------------------------------
(* rebuild.  The members of a class are ordered by its list.               *)

LEMMA ListOrder ==
    ASSUME NEW K, NEW links, Typed(links, K), NEW live \in SUBSET K,
           WellFormed(links, live), NEW r \in live, links[r].parent = None
    PROVE  \A x, y \in Members(links, r) :
              /\ x \in Follow(links, x) /\ Follow(links, x) \subseteq Members(links, r)
              /\ x \in Follow(links, y) \/ y \in Follow(links, x)
              /\ y \in Follow(links, x) => Follow(links, y) \subseteq Follow(links, x)
              /\ y \in Follow(links, x) /\ x \in Follow(links, y) => x = y
<1>. DEFINE n == NextOf(links)
<1>1. /\ Good(n, K) /\ Members(links, r) = Chain(n, r)
      /\ \A x \in K : n[x] = links[x].next
      /\ \A x : Follow(links, x) = Chain(n, x)
  BY LinksAreGood
<1>. HIDE DEF n
<1>2. PICK t \in Chain(n, r) : t = links[r].tail /\ n[t] = None /\ t \in K
  BY <1>1, ListFacts
<1>3. r \in K
  OBVIOUS
<1>. SUFFICES ASSUME NEW x \in Chain(n, r), NEW y \in Chain(n, r)
              PROVE  /\ x \in Chain(n, x) /\ Chain(n, x) \subseteq Chain(n, r)
                     /\ x \in Chain(n, y) \/ y \in Chain(n, x)
                     /\ y \in Chain(n, x) => Chain(n, y) \subseteq Chain(n, x)
                     /\ y \in Chain(n, x) /\ x \in Chain(n, y) => x = y
  BY <1>1
<1>4. x \in K /\ x \in Chain(n, x) /\ Chain(n, x) \subseteq Chain(n, r)
  BY <1>1, <1>3, ChainGoesOn
<1>5. x \in Chain(n, y) \/ y \in Chain(n, x)
  BY <1>1, <1>3, ChainCompares
<1>6. y \in Chain(n, x) => Chain(n, y) \subseteq Chain(n, x)
  BY <1>1, <1>4, ChainGoesOn
<1>7. y \in Chain(n, x) /\ x \in Chain(n, y) => x = y
  <2>1. t \in Chain(n, x)
    BY <1>1, <1>2, <1>3, ChainEnd
  <2>. QED
    BY <1>1, <1>2, <1>4, <2>1, ChainNoCycle
<1>. QED
  BY <1>4, <1>5, <1>6, <1>7

\* Some of a class's members have a first one and a last one.
LEMMA FirstAndLast ==
    ASSUME NEW K, NEW links, Typed(links, K), NEW live \in SUBSET K,
           WellFormed(links, live), NEW r \in live, links[r].parent = None,
           NEW S, S \subseteq Members(links, r), S # {}
    PROVE  /\ FirstOf(links, S) \in S /\ S \subseteq Follow(links, FirstOf(links, S))
           /\ \E x \in S : \A y \in Follow(links, x) \cap S : y = x
<1>. DEFINE M == Members(links, r)
            F(x) == Follow(links, x)
<1>1. \A x, y \in M : /\ x \in F(x) /\ F(x) \subseteq M
                      /\ x \in F(y) \/ y \in F(x)
                      /\ y \in F(x) => F(y) \subseteq F(x)
                      /\ y \in F(x) /\ x \in F(y) => x = y
  BY ListOrder
<1>2. IsFiniteSet(M)
  <2>1. M \subseteq live
    BY ListFacts
  <2>2. M \in SUBSET K /\ IsFiniteSet(K)
    BY <2>1 DEF Typed
  <2>. HIDE DEF M
  <2>. QED
    BY <2>2, FS_Subset
<1>. HIDE DEF F, M
<1>0. S \subseteq M /\ S # {}
  BY DEF M
<1>3. \E x \in S : S \subseteq F(x)
  <2>1. PICK T : T = {M \ F(x) : x \in S}
    OBVIOUS
  <2>2. T # {} /\ \A u \in T : u \subseteq M
    BY <1>0, <2>1
  <2>3. PICK u \in T : \A v \in T : v \subseteq u => v = u
    BY <1>2, <2>2, SmallestSet
  <2>4. PICK x \in S : u = M \ F(x)
    BY <2>1, <2>3
  <2>5. ASSUME NEW y \in S, y \notin F(x) PROVE FALSE
    <3>1. x \in M /\ y \in M /\ x \in F(y) /\ F(x) \subseteq F(y)
      BY <1>0, <1>1, <2>5
    <3>2. M \ F(y) \subseteq M \ F(x) /\ M \ F(y) \in T
      BY <2>1, <3>1
    <3>3. M \ F(y) = M \ F(x)
      BY <2>3, <2>4, <3>2
    <3>. QED
      BY <1>1, <2>5, <3>1, <3>3
  <2>. QED
    BY <2>5
<1>4. \E x \in S : \A y \in F(x) \cap S : y = x
  <2>1. PICK T : T = {F(x) : x \in S}
    OBVIOUS
  <2>2. T # {} /\ \A u \in T : u \subseteq M
    BY <1>0, <1>1, <2>1
  <2>3. PICK u \in T : \A v \in T : v \subseteq u => v = u
    BY <1>2, <2>2, SmallestSet
  <2>4. PICK x \in S : u = F(x)
    BY <2>1, <2>3
  <2>5. ASSUME NEW y \in F(x) \cap S, y # x PROVE FALSE
    <3>1. x \in M /\ y \in M /\ F(y) \subseteq F(x) /\ F(y) \in T
      BY <1>0, <1>1, <2>1, <2>5
    <3>2. F(y) = F(x)
      BY <2>3, <2>4, <3>1
    <3>. QED
      BY <1>1, <2>5, <3>1, <3>2
  <2>. QED
    BY <2>5
<1>. QED
  BY <1>3, <1>4 DEF FirstOf, F

\* In m the keys in kept form one class, headed by first.
Headed(m, K, kept, first) ==
    /\ first \in kept /\ first # None
    /\ \A x \in kept : /\ m[x] \in LinksOver(K)
                       /\ m[x].parent = IF x = first THEN None ELSE first
                       /\ m[x].next \in kept \cup {None}
    /\ m[first].tail \in kept /\ m[m[first].tail].next = None
    /\ m[first].size = Cardinality(kept)
    /\ \A D : first \in D /\ (\A x \in D \cap kept : m[x].next # None => m[x].next \in D)
                 => kept \subseteq D

Rebuilt(links, kept, first, m) ==
    first = FirstOf(links, kept) /\ \A x \in kept : m[x] = Rebuild(links, kept)[x]

(***************************************************************************)
(* rebuild, on any of a class's members, makes a class of exactly these:   *)
(* one headed by the first, ended by its tail, as long as its size, and    *)
(* naming no member that was left out.                                     *)
(***************************************************************************)
THEOREM RebuildKeeps ==
    ASSUME NEW K, NEW links, Typed(links, K), NEW live \in SUBSET K,
           WellFormed(links, live), NEW r \in live, links[r].parent = None,
           NEW kept, kept \subseteq Members(links, r), kept # {},
           NEW first, NEW m, Rebuilt(links, kept, first, m)
    PROVE  Headed(m, K, kept, first)
<1>. DEFINE M == Members(links, r)
            F(x) == Follow(links, x)
<1>0. PICK last : last = CHOOSE x \in kept : After(links, kept, x) = {}
  OBVIOUS
<1>1. \A x, y \in M : /\ x \in F(x) /\ F(x) \subseteq M
                      /\ x \in F(y) \/ y \in F(x)
                      /\ y \in F(x) => F(y) \subseteq F(x)
                      /\ y \in F(x) /\ x \in F(y) => x = y
  BY ListOrder
<1>2. M \subseteq live /\ kept \subseteq M /\ kept \subseteq K /\ None \notin K
  BY ListFacts DEF Typed
<1>3. first \in kept /\ kept \subseteq F(first) /\ first # None
  BY <1>2, FirstAndLast DEF Rebuilt
<1>4. last \in kept /\ After(links, kept, last) = {}
  <2>1. \E x \in kept : \A y \in Follow(links, x) \cap kept : y = x
    BY FirstAndLast
  <2>2. \E x \in kept : After(links, kept, x) = {}
    BY <2>1 DEF After
  <2>. QED
    BY <1>0, <2>2
<1>5. IsFiniteSet(kept) /\ Cardinality(kept) \in Nat
  <2>1. kept \in SUBSET K /\ IsFiniteSet(K)
    BY <1>2 DEF Typed
  <2>2. IsFiniteSet(kept)
    BY <2>1, FS_Subset
  <2>. QED
    BY <2>2, FS_CardinalityType
<1>6. ASSUME NEW x \in kept
      PROVE  /\ m[x] = [parent |-> m[x].parent, next |-> m[x].next,
                        tail |-> m[x].tail, size |-> m[x].size]
             /\ m[x].parent = IF x = first THEN None ELSE first
             /\ m[x].next = IF x = last THEN None
                            ELSE FirstOf(links, After(links, kept, x))
             /\ m[x].tail = IF x = first THEN last ELSE links[x].tail
             /\ m[x].size = IF x = first THEN Cardinality(kept) ELSE links[x].size
  <2>1. m[x] = [parent |-> IF x = first THEN None ELSE first,
                next |-> IF x = last THEN None
                         ELSE FirstOf(links, After(links, kept, x)),
                tail |-> IF x = first THEN last ELSE links[x].tail,
                size |-> IF x = first THEN Cardinality(kept) ELSE links[x].size]
    BY <1>0, <1>2 DEF Rebuild, Rebuilt, Typed
  <2>. QED
    BY <2>1
<1>. HIDE DEF M, F
<1>7. ASSUME NEW x \in kept, x # last
      PROVE  /\ m[x].next \in kept /\ m[x].next \in F(x) /\ m[x].next # x
             /\ After(links, kept, x) \subseteq F(m[x].next)
  <2>. DEFINE S == After(links, kept, x)
  <2>1. S \subseteq Members(links, r) /\ S \subseteq kept
    BY <1>2 DEF After, M
  <2>2. S # {}
    <3>1. last \in F(x) \/ x \in F(last)
      BY <1>1, <1>2, <1>4
    <3>2. x \notin F(last)
      BY <1>4, <1>7 DEF After, F
    <3>. QED
      BY <1>4, <1>7, <3>1, <3>2 DEF After, F
  <2>3. FirstOf(links, S) \in S /\ S \subseteq Follow(links, FirstOf(links, S))
    <3>. HIDE DEF S
    <3>. QED
      BY <2>1, <2>2, FirstAndLast
  <2>4. m[x].next = FirstOf(links, S)
    BY <1>6, <1>7
  <2>. QED
    BY <2>3, <2>4 DEF After, F
<1>8. ASSUME NEW x \in kept
      PROVE  /\ m[x] \in LinksOver(K)
             /\ m[x].parent = IF x = first THEN None ELSE first
             /\ m[x].next \in kept \cup {None}
  <2>1. m[x].parent = IF x = first THEN None ELSE first
    BY <1>6
  <2>2. m[x].next \in kept \cup {None}
    BY <1>6, <1>7
  <2>3. links[x] \in LinksOver(K)
    BY <1>2 DEF Typed
  <2>4. /\ m[x].tail = IF x = first THEN last ELSE links[x].tail
        /\ m[x].size = IF x = first THEN Cardinality(kept) ELSE links[x].size
    BY <1>6
  <2>5. m[x].tail \in K \cup {None} /\ m[x].size \in Nat
    BY <1>2, <1>4, <1>5, <2>3, <2>4 DEF LinksOver
  <2>6. m[x].parent \in K \cup {None} /\ m[x].next \in K \cup {None}
    BY <1>2, <1>3, <2>1, <2>2
  <2>7. m[x] = [parent |-> m[x].parent, next |-> m[x].next, tail |-> m[x].tail,
                size |-> m[x].size]
    BY <1>6
  <2>8. m[x] \in LinksOver(K)
    BY <2>5, <2>6, <2>7 DEF LinksOver
  <2>. QED
    BY <2>1, <2>2, <2>8
<1>9. m[first].tail = last /\ m[last].next = None /\ m[first].size = Cardinality(kept)
  BY <1>3, <1>4, <1>6
<1>10. ASSUME NEW D, first \in D,
              \A x \in D \cap kept : m[x].next # None => m[x].next \in D
       PROVE  kept \subseteq D
  <2>. SUFFICES ASSUME kept \ D # {} PROVE FALSE
    OBVIOUS
  <2>1. PICK y : y \in kept \ D /\ kept \ D \subseteq F(y)
    <3>1. PICK S : S = kept \ D
      OBVIOUS
    <3>2. S \subseteq Members(links, r) /\ S # {}
      BY <1>2, <3>1 DEF M
    <3>3. FirstOf(links, S) \in S /\ S \subseteq Follow(links, FirstOf(links, S))
      BY <3>2, FirstAndLast
    <3>. QED
      BY <3>1, <3>3 DEF F
  <2>2. PICK S : S = {z \in kept : y \in F(z) /\ z # y}
    OBVIOUS
  <2>3. first \in S
    BY <1>3, <1>10, <2>1, <2>2
  <2>4. S \subseteq D
    BY <1>1, <1>2, <2>1, <2>2
  <2>5. PICK z \in S : After(links, S, z) = {}
    <3>1. S \subseteq Members(links, r) /\ S # {}
      BY <1>2, <2>2, <2>3 DEF M
    <3>2. \E x \in S : \A w \in Follow(links, x) \cap S : w = x
      BY <3>1, FirstAndLast
    <3>. QED
      BY <3>2 DEF After
  <2>6. z \in kept /\ z # y /\ y \in After(links, kept, z) /\ z # last
    BY <1>4, <2>1, <2>2, <2>5 DEF After, F
  <2>7. /\ m[z].next \in kept /\ m[z].next \in F(z) /\ m[z].next # z
        /\ y \in F(m[z].next)
    BY <1>7, <2>6
  <2>8. m[z].next = y
    <3>. SUFFICES ASSUME m[z].next # y PROVE FALSE
      OBVIOUS
    <3>1. m[z].next \in S
      BY <2>2, <2>7
    <3>. QED
      BY <2>5, <2>7, <3>1 DEF After, F
  <2>9. y # None /\ z \in D \cap kept
    BY <1>2, <2>1, <2>4, <2>6
  <2>. QED
    BY <1>10, <2>1, <2>8, <2>9
<1>. QED
  BY <1>3, <1>4, <1>8, <1>9, <1>10 DEF Headed

\* Taking the doomed members out of every class and rebuilding the classes
\* that keep some of theirs leaves the rest of each class together.
HeadOf(links, doomed, x) ==
    LET r == Root(links, x)
    IN  IF Members(links, r) \cap doomed = {} THEN r
        ELSE FirstOf(links, Members(links, r) \ doomed)

Cut(links, doomed, x) ==
    LET r == Root(links, x)
    IN  IF Members(links, r) \cap doomed = {} THEN links[x]
        ELSE Rebuild(links, Members(links, r) \ doomed)[x]

(***************************************************************************)
(* Rebuilding every class that loses members, as flatten_class does before *)
(* drop_block removes them, leaves a representation over the keys that     *)
(* stay in which each class is the rest of the class it was.               *)
(***************************************************************************)
THEOREM CutKeeps ==
    ASSUME NEW K, NEW links, Typed(links, K), NEW live \in SUBSET K,
           WellFormed(links, live), NEW doomed \in SUBSET live,
           NEW m, m = [x \in K |-> m[x]],
           \A x \in K \ (live \ doomed) : m[x] \in LinksOver(K),
           \A x \in live \ doomed : m[x] = Cut(links, doomed, x)
    PROVE  /\ Typed(m, K) /\ WellFormed(m, live \ doomed)
           /\ \A x \in live \ doomed : Root(m, x) = HeadOf(links, doomed, x)
           /\ \A x \in live \ doomed : Class(m, x) = Class(links, x) \ doomed
<1>1. PICK left : left = live \ doomed
  OBVIOUS
<1>. DEFINE M(x) == Members(links, Root(links, x))
            Whole(x) == M(x) \cap doomed = {}
            rep == [x \in left |-> HeadOf(links, doomed, x)]
<1>2. ASSUME NEW x \in live
      PROVE  /\ Root(links, x) \in live /\ links[Root(links, x)].parent = None
             /\ M(x) = {y \in live : Root(links, y) = Root(links, x)}
             /\ x \in M(x)
             /\ Class(links, x) = M(x)
             /\ Root(links, Root(links, x)) = Root(links, x)
  BY RootFacts, ClassFacts
<1>3. None \notin K /\ \A x \in K : links[x] \in LinksOver(K)
  BY DEF Typed
<1>4. ASSUME NEW x \in left, Whole(x)
      PROVE  m[x] = links[x] /\ rep[x] = Root(links, x) /\ M(x) \subseteq left
  <2>1. m[x] = links[x]
    BY <1>1, <1>4 DEF Cut
  <2>2. rep[x] = Root(links, x)
    BY <1>4 DEF HeadOf
  <2>3. M(x) \subseteq left
    BY <1>1, <1>2, <1>4
  <2>. QED
    BY <2>1, <2>2, <2>3
<1>5. ASSUME NEW x \in left, ~Whole(x), NEW kept, kept = M(x) \ doomed
      PROVE  x \in kept /\ kept \subseteq left /\ Headed(m, K, kept, rep[x])
  <2>1. PICK r : r = Root(links, x)
    OBVIOUS
  <2>2. kept = M(x) \ doomed
    BY <1>5
  <2>3. PICK first : first = FirstOf(links, kept)
    OBVIOUS
  <2>4. /\ r \in live /\ links[r].parent = None /\ M(x) = Members(links, r)
        /\ M(x) = {y \in live : Root(links, y) = r} /\ x \in M(x)
    BY <1>1, <1>2, <2>1
  <2>5. x \in kept /\ kept \subseteq left /\ kept # {} /\ kept \subseteq Members(links, r)
    BY <1>1, <2>2, <2>4
  <2>6. ASSUME NEW y \in kept PROVE m[y] = Rebuild(links, kept)[y]
    <3>1. y \in left /\ Root(links, y) = r
      BY <2>2, <2>4, <2>5
    <3>2. Members(links, r) \cap doomed # {} /\ Members(links, r) \ doomed = kept
      BY <1>5, <2>2, <2>4
    <3>3. m[y] = Cut(links, doomed, y)
      BY <1>1, <3>1
    <3>. QED
      BY <3>1, <3>2, <3>3 DEF Cut
  <2>7. Rebuilt(links, kept, first, m)
    BY <2>3, <2>6 DEF Rebuilt
  <2>8. rep[x] = first
    <3>1. Members(links, r) \cap doomed # {} /\ Members(links, r) \ doomed = kept
      BY <1>5, <2>2, <2>4
    <3>. QED
      BY <2>1, <2>3, <3>1 DEF HeadOf
  <2>9. Headed(m, K, kept, first)
    BY <2>4, <2>5, <2>7, RebuildKeeps
  <2>. QED
    BY <2>5, <2>8, <2>9
<1>6. Typed(m, K)
  <2>1. ASSUME NEW x \in left PROVE m[x] \in LinksOver(K)
    <3>1. CASE Whole(x)
      BY <1>1, <1>3, <1>4, <3>1
    <3>2. CASE ~Whole(x)
      <4>1. PICK kept : kept = M(x) \ doomed
        OBVIOUS
      <4>2. x \in kept /\ Headed(m, K, kept, rep[x])
        BY <1>5, <3>2, <4>1
      <4>. QED
        BY <4>2 DEF Headed
    <3>. QED
      BY <3>1, <3>2
  <2>2. \A x \in K : m[x] \in LinksOver(K)
    BY <1>1, <2>1
  <2>. QED
    BY <2>2 DEF Typed
<1>. DEFINE p == ParentOf(links)
            q == ParentOf(m)
            n == NextOf(links)
            o == NextOf(m)
<1>7. /\ Good(p, K) /\ Good(n, K) /\ Good(q, K) /\ Good(o, K)
      /\ \A x \in K : p[x] = links[x].parent /\ n[x] = links[x].next
      /\ \A x \in K : q[x] = m[x].parent /\ o[x] = m[x].next
      /\ \A x : Parents(links, x) = Chain(p, x) /\ Members(links, x) = Chain(n, x)
      /\ \A x : Parents(m, x) = Chain(q, x) /\ Members(m, x) = Chain(o, x)
  BY <1>6, LinksAreGood
<1>. HIDE DEF p, q, n, o
<1>8. left \subseteq K /\ left \subseteq live
  BY <1>1
<1>9. ASSUME NEW x \in left
      PROVE  /\ rep[x] \in Parents(m, x) /\ m[rep[x]].parent = None
             /\ m[x].parent \in left \cup {None} /\ m[x].next \in left \cup {None}
             /\ rep[x] \in left /\ Root(links, rep[x]) = Root(links, x)
  <2>1. CASE Whole(x)
    <3>1. /\ m[x] = links[x] /\ rep[x] = Root(links, x) /\ M(x) \subseteq left
      BY <1>4, <2>1
    <3>2. /\ Root(links, x) \in M(x) /\ Root(links, Root(links, x)) = Root(links, x)
      BY <1>2, <1>8
    <3>3. \A y \in M(x) : m[y] = links[y]
      <4>. SUFFICES ASSUME NEW y \in M(x) PROVE m[y] = links[y]
        OBVIOUS
      <4>1. y \in left /\ Root(links, y) = Root(links, x)
        BY <1>2, <1>8, <3>1
      <4>. QED
        BY <1>4, <2>1, <4>1
    <3>4. Parents(links, x) \subseteq M(x) /\ Root(links, x) \in Parents(links, x)
      BY <1>2, <1>8, RootFacts
    <3>5. \A y \in Chain(p, x) : q[y] = p[y]
      BY <1>7, <1>8, <3>1, <3>3, <3>4
    <3>6. Chain(q, x) = Chain(p, x)
      BY <1>7, <1>8, <3>5, SameChain
    <3>7. m[Root(links, x)].parent = None
      BY <1>2, <1>8, <3>2, <3>3
    <3>8. links[x].parent \in M(x) \cup {None}
      <4>1. p[x] # None => p[x] \in Chain(p, x)
        BY <1>7, <1>8, ChainFacts
      <4>. QED
        BY <1>7, <1>8, <3>4, <4>1
    <3>9. links[x].next \in M(x) \cup {None}
      BY <1>2, <1>8, ListFacts
    <3>. QED
      BY <1>7, <3>1, <3>2, <3>4, <3>6, <3>7, <3>8, <3>9
  <2>2. CASE ~Whole(x)
    <3>1. PICK kept : kept = M(x) \ doomed
      OBVIOUS
    <3>2. PICK first : first = rep[x]
      OBVIOUS
    <3>3. /\ rep[x] = first /\ x \in kept /\ kept \subseteq left
          /\ first \in kept /\ first # None
          /\ \A y \in kept :
                /\ m[y].parent = IF y = first THEN None ELSE first
                /\ m[y].next \in kept \cup {None}
      <4>1. x \in kept /\ kept \subseteq left /\ Headed(m, K, kept, first)
        BY <1>5, <2>2, <3>1, <3>2
      <4>. QED
        BY <3>2, <4>1 DEF Headed
    <3>4. first \in K /\ first \in Chain(q, first)
      BY <1>7, <1>8, <3>3, ChainFacts
    <3>5. first \in Chain(q, x)
      <4>1. CASE x = first
        BY <3>4, <4>1
      <4>2. CASE x # first
        <5>1. q[x] = first
          BY <1>7, <1>8, <3>3, <4>2
        <5>. QED
          BY <1>7, <1>8, <3>3, <3>4, <5>1, ChainUnfolds
      <4>. QED
        BY <4>1, <4>2
    <3>6. Root(links, first) = Root(links, x)
      BY <1>2, <1>8, <3>1, <3>3
    <3>. HIDE DEF rep
    <3>. QED
      BY <1>7, <3>3, <3>5, <3>6
  <2>. QED
    BY <2>1, <2>2
<1>10. ASSUME NEW r \in left, m[r].parent = None
       PROVE  /\ Members(m, r) = {x \in left : rep[x] = r}
              /\ Members(m, r) = M(r) \ doomed
              /\ m[r].tail \in Members(m, r)
              /\ m[m[r].tail].next = None
              /\ m[r].size = Cardinality(Members(m, r))
  <2>1. M(r) = {y \in live : Root(links, y) = Root(links, r)} /\ r \in M(r)
    BY <1>2, <1>8
  <2>2. CASE Whole(r)
    <3>1. m[r] = links[r] /\ M(r) \subseteq left /\ rep[r] = Root(links, r)
      BY <1>4, <2>2
    <3>2. Root(links, r) = r
      BY <1>8, <1>10, <3>1, ListFacts
    <3>3. /\ M(r) = Members(links, r)
          /\ links[r].tail \in M(r) /\ links[links[r].tail].next = None
          /\ links[r].size = Cardinality(M(r))
      BY <1>8, <1>10, <3>1, <3>2, ListFacts
    <3>4. \A y \in M(r) : m[y] = links[y] /\ rep[y] = r
      <4>. SUFFICES ASSUME NEW y \in M(r) PROVE m[y] = links[y] /\ rep[y] = r
        OBVIOUS
      <4>1. y \in left /\ Root(links, y) = Root(links, r)
        BY <2>1, <3>1
      <4>2. Whole(y)
        BY <2>2, <4>1
      <4>. QED
        BY <1>4, <3>2, <4>1, <4>2
    <3>5. \A y \in Chain(n, r) : o[y] = n[y]
      <4>. SUFFICES ASSUME NEW y \in Chain(n, r) PROVE o[y] = n[y]
        OBVIOUS
      <4>1. y \in M(r) /\ y \in K
        BY <1>7, <1>8, <3>1, <3>3
      <4>. QED
        BY <1>7, <3>4, <4>1
    <3>6. Members(m, r) = M(r)
      BY <1>7, <1>8, <3>3, <3>5, SameChain
    <3>7. M(r) = {x \in left : rep[x] = r}
      <4>1. \A x \in left : rep[x] = r => x \in M(r)
        BY <1>8, <1>9, <2>1, <3>2
      <4>. QED
        BY <3>1, <3>4, <4>1
    <3>. QED
      BY <2>2, <3>1, <3>3, <3>4, <3>6, <3>7
  <2>3. CASE ~Whole(r)
    <3>1. PICK kept : kept = M(r) \ doomed
      OBVIOUS
    <3>2. PICK first : first = rep[r]
      OBVIOUS
    <3>3. /\ rep[r] = first /\ r \in kept /\ kept \subseteq left
          /\ first \in kept /\ first # None
          /\ \A y \in kept :
                /\ m[y].parent = IF y = first THEN None ELSE first
                /\ m[y].next \in kept \cup {None}
          /\ m[first].tail \in kept /\ m[m[first].tail].next = None
          /\ m[first].size = Cardinality(kept)
          /\ \A D : first \in D /\ (\A y \in D \cap kept : m[y].next # None => m[y].next \in D)
                       => kept \subseteq D
      <4>1. r \in kept /\ kept \subseteq left /\ Headed(m, K, kept, first)
        BY <1>5, <2>3, <3>1, <3>2
      <4>. QED
        BY <3>2, <4>1 DEF Headed
    <3>4. r = first
      BY <1>10, <3>3
    <3>5. Chain(o, r) \subseteq kept
      <4>1. ASSUME NEW y \in kept \cap K, o[y] # None PROVE o[y] \in kept
        <5>1. o[y] = m[y].next /\ m[y].next \in kept \cup {None}
          BY <1>7, <3>3
        <5>. QED
          BY <4>1, <5>1
      <4>. QED
        BY <1>7, <1>8, <3>3, <4>1, ChainFacts
    <3>6. kept \subseteq Chain(o, r)
      <4>1. PICK D : D = Chain(o, r)
        OBVIOUS
      <4>2. r \in D /\ \A y \in D : o[y] # None => o[y] \in D
        BY <1>7, <1>8, <4>1, ChainFacts
      <4>3. \A y \in D \cap kept : m[y].next # None => m[y].next \in D
        BY <1>7, <1>8, <3>3, <4>2
      <4>. QED
        BY <3>3, <3>4, <4>1, <4>2, <4>3
    <3>7. \A x \in kept : rep[x] = first
      <4>. SUFFICES ASSUME NEW x \in kept PROVE rep[x] = first
        OBVIOUS
      <4>1. x \in left /\ Root(links, x) = Root(links, r)
        BY <2>1, <3>1, <3>3
      <4>2. HeadOf(links, doomed, x) = HeadOf(links, doomed, r)
        BY <4>1 DEF HeadOf
      <4>. QED
        BY <3>2, <4>1, <4>2
    <3>8. \A x \in left : rep[x] = r => x \in kept
      BY <1>1, <1>8, <1>9, <2>1, <3>1
    <3>9. kept = {x \in left : rep[x] = r}
      BY <3>3, <3>4, <3>7, <3>8
    <3>. HIDE DEF rep
    <3>10. Members(m, r) = kept
      BY <1>7, <3>5, <3>6
    <3>. QED
      BY <3>1, <3>3, <3>4, <3>9, <3>10
  <2>. QED
    BY <2>2, <2>3
<1>11. WellFormed(m, left) /\ \A x \in left : Root(m, x) = rep[x]
  <2>. HIDE DEF rep
  <2>1. \A x \in left : /\ rep[x] \in Parents(m, x)
                        /\ m[rep[x]].parent = None
                        /\ m[x].parent \in left \cup {None}
                        /\ m[x].next \in left \cup {None}
    BY <1>9
  <2>2. \A r \in left : m[r].parent = None =>
              /\ Members(m, r) = {x \in left : rep[x] = r}
              /\ m[r].tail \in Members(m, r)
              /\ m[m[r].tail].next = None
              /\ m[r].size = Cardinality(Members(m, r))
    BY <1>10
  <2>3. left \in SUBSET K
    BY <1>8
  <2>. QED
    BY ONLY <1>6, <2>1, <2>2, <2>3, WellFormedBy
<1>12. ASSUME NEW x \in left PROVE Class(m, x) = Class(links, x) \ doomed
  <2>1. PICK r \in left : r = rep[x]
    BY <1>9
  <2>2. m[r].parent = None /\ Root(links, r) = Root(links, x)
    BY <1>9, <2>1
  <2>3. Members(m, r) = M(x) \ doomed
    BY <1>10, <2>2
  <2>4. Class(m, x) = Members(m, r)
    BY <1>11, <2>1 DEF Class
  <2>. QED
    BY <1>2, <1>8, <2>3, <2>4
<1>. QED
  BY <1>1, <1>6, <1>11, <1>12

\* A key whose links are absent is its own representative and alone.
LEMMA AloneWithoutLinks ==
    ASSUME NEW K, NEW links, Typed(links, K), NEW k \in K,
           links[k].parent = None, links[k].next = None
    PROVE  /\ Root(links, k) = k /\ Class(links, k) = {k} /\ Find(links, k) = links
<1>. DEFINE p == ParentOf(links)
            q == NextOf(links)
<1>1. /\ Good(p, K) /\ Good(q, K)
      /\ p[k] = links[k].parent /\ q[k] = links[k].next
      /\ Parents(links, k) = Chain(p, k) /\ Members(links, k) = Chain(q, k)
  BY LinksAreGood
<1>. HIDE DEF p, q
<1>2. Parents(links, k) = {k} /\ Members(links, k) = {k}
  BY <1>1, ChainUnfolds
<1>3. Root(links, k) = k
  BY <1>2 DEF Root
<1>4. Find(links, k) = links
  <2>1. Parents(links, k) \ {Root(links, k)} = {}
    BY <1>2, <1>3
  <2>2. links = [x \in DOMAIN links |-> links[x]]
    BY DEF Typed
  <2>. QED
    BY <2>1, <2>2 DEF Find
<1>. QED
  BY <1>2, <1>3, <1>4 DEF Class

-----------------------------------------------------------------------------
(***************************************************************************)
(* The collector.                                                          *)
(***************************************************************************)
WalkFields == {"stage", "source", "target", "grey", "black", "classes",
               "entries", "moved"}

\* The part of the types that the argument needs.
RecordsTyped ==
    /\ DOMAIN node = Node
    /\ \A n \in Node : "status" \in DOMAIN node[n] /\ "block" \in DOMAIN node[n]
    /\ block \in [Block -> BlockRecord]
    /\ WalkFields \subseteq DOMAIN walk

\* A block's line is itself and its parent's line, all of them live.
BlockTree ==
    \A b \in LiveBlock :
        /\ b \in block[b].line /\ block[b].line \subseteq LiveBlock
        /\ \A c \in block[b].line : block[c].line \subseteq block[b].line
        /\ block[b].parent # None =>
              /\ block[b].parent \in block[b].line
              /\ b \notin block[block[b].parent].line

\* The walk moves what it enters out of the source, and from the second stage
\* on it has reached every assert's condition that is inside.
WalkInOrder ==
    /\ Idle => walk.grey = {}
    /\ ~Idle =>
          /\ walk.source \in LiveBlock /\ walk.target # None
          /\ walk.target = block[walk.source].parent
          /\ \A n \in walk.black \cap Node : ~Inside(n)
    /\ walk.stage \in {"asserts", "templates"} =>
          \A n \in asserts : Inside(n) => n \in walk.grey

IInv ==
    /\ RecordsTyped
    /\ BlockTree
    /\ \A n \in LiveNode : node[n].block \in LiveBlock
    /\ asserts \subseteq LiveNode
    /\ WalkInOrder

-----------------------------------------------------------------------------
LEMMA InitInv == Init => IInv
<1>. SUFFICES ASSUME Init PROVE IInv
  OBVIOUS
<1>1. RecordsTyped
  BY DEF Init, RecordsTyped, AbsentNode, AbsentBlock, BlockRecord, Status, NoWalk,
         WalkFields
<1>2. /\ LiveBlock = {} /\ LiveNode = {} /\ asserts = {}
      /\ Idle /\ walk.grey = {} /\ walk.stage = "idle"
  BY DEF Init, LiveBlock, LiveNode, AbsentBlock, AbsentNode, Idle, NoWalk
<1>. QED
  BY <1>1, <1>2 DEF IInv, BlockTree, WalkInOrder

\* The tree is the blocks' status, parents and lines.
LEMMA SameTree ==
    ASSUME RecordsTyped, BlockTree,
           \A b \in Block : /\ block'[b].status = block[b].status
                            /\ block'[b].parent = block[b].parent
                            /\ block'[b].line = block[b].line
    PROVE  BlockTree' /\ LiveBlock' = LiveBlock
<1>1. LiveBlock' = LiveBlock
  BY DEF LiveBlock
<1>2. LiveBlock \subseteq Block
  BY DEF LiveBlock
<1>. QED
  BY <1>1, <1>2 DEF BlockTree

\* A step outside a collect that leaves the walk alone owes the walk nothing.
LEMMA IdleStays ==
    ASSUME Idle, WalkInOrder, UNCHANGED walk
    PROVE  WalkInOrder'
  BY DEF Idle, WalkInOrder

\* Merging, running and owning a node leave it where it is.
LEMMA RecordsKept ==
    ASSUME RecordsTyped,
           \/ \E a, b \in Node : Unify(a, b)
           \/ \E n \in Node : \E v : Run(n, v)
           \/ \E f \in Function, n \in Node : Register(f, n)
    PROVE  /\ DOMAIN node' = Node
           /\ \A m \in Node :
                 /\ "status" \in DOMAIN node'[m] /\ "block" \in DOMAIN node'[m]
                 /\ node'[m].status = node[m].status
                 /\ node'[m].block = node[m].block
<1>. USE DEF RecordsTyped
<1>1. ASSUME NEW a \in Node, NEW b \in Node, Unify(a, b), NEW m \in Node
      PROVE  \/ \E x, y, z : node'[m] = [node[m] EXCEPT !.value = x, !.summary = y, !.shape = z]
             \/ \E x : node'[m] = [node[m] EXCEPT !.value = x]
  BY <1>1 DEF Unify
<1>2. ASSUME NEW n \in Node, NEW v, Run(n, v), NEW m \in Node
      PROVE  \E x, y, z : node'[m] = [node[m] EXCEPT !.ran = x, !.value = y, !.shape = z]
  BY <1>2 DEF Run
<1>3. ASSUME NEW f \in Function, NEW n \in Node, Register(f, n), NEW m \in Node
      PROVE  \/ \E x, y : node'[m] = [[node[m] EXCEPT !.owner = x] EXCEPT !.summary = y]
             \/ \E x : node'[m] = [node[m] EXCEPT !.owner = x]
             \/ \E y : node'[m] = [node[m] EXCEPT !.summary = y]
             \/ node'[m] = node[m]
  BY <1>3 DEF Register
<1>4. DOMAIN node' = Node
  BY DEF Unify, Run, Register
<1>. QED
  BY <1>1, <1>2, <1>3, <1>4

-----------------------------------------------------------------------------
(* Each step keeps the invariant.                                          *)

LEMMA BuildKeeps ==
    ASSUME IInv, Build
    PROVE  IInv'
<1>. USE DEF IInv
<1>1. ASSUME NEW b \in Block, NEW p \in Block \cup {None}, AddBlock(b, p)
      PROVE  IInv'
  <2>. DEFINE line == {b} \cup (IF p = None THEN {} ELSE block[p].line)
              fresh == [status |-> "live", parent |-> p, root |-> None, line |-> line]
  <2>1. p # None => p \in LiveBlock /\ block[p].line \subseteq LiveBlock
    BY <1>1 DEF AddBlock, BlockTree
  <2>2. LiveBlock \subseteq Block /\ b \notin LiveBlock
    BY <1>1 DEF AddBlock, FreshKey, LiveBlock
  <2>3. fresh \in BlockRecord
    BY <2>1, <2>2 DEF BlockRecord, Status
  <2>4. block' = [block EXCEPT ![b] = fresh]
    BY <1>1 DEF AddBlock
  <2>5. /\ block' \in [Block -> BlockRecord]
        /\ block'[b] = fresh
        /\ \A c \in LiveBlock : block'[c] = block[c]
    BY <2>2, <2>3, <2>4 DEF RecordsTyped
  <2>6. LiveBlock' = LiveBlock \cup {b}
    BY <2>4, <2>2 DEF LiveBlock, RecordsTyped
  <2>7. BlockTree'
    <3>1. ASSUME NEW c \in LiveBlock
          PROVE  /\ c \in block'[c].line /\ block'[c].line \subseteq LiveBlock'
                 /\ \A d \in block'[c].line : block'[d].line \subseteq block'[c].line
                 /\ block'[c].parent # None =>
                       /\ block'[c].parent \in block'[c].line
                       /\ c \notin block'[block'[c].parent].line
      BY <2>5, <2>6 DEF BlockTree
    <3>2. b \in line /\ line \subseteq LiveBlock'
      BY <2>1, <2>6
    <3>3. ASSUME NEW d \in line PROVE block'[d].line \subseteq line
      <4>1. CASE d = b
        BY <4>1, <2>5
      <4>2. CASE d # b
        <5>1. p # None /\ d \in block[p].line /\ p \in LiveBlock /\ d \in LiveBlock
          BY <4>2, <2>1
        <5>2. block[d].line \subseteq block[p].line
          BY <5>1 DEF BlockTree
        <5>. QED
          BY <5>1, <5>2, <2>5
      <4>. QED
        BY <4>1, <4>2
    <3>4. p # None => p \in line /\ b \notin block'[p].line
      BY <2>1, <2>2, <2>5 DEF BlockTree
    <3>. HIDE DEF line
    <3>5. /\ b \in block'[b].line /\ block'[b].line \subseteq LiveBlock'
          /\ \A d \in block'[b].line : block'[d].line \subseteq block'[b].line
          /\ block'[b].parent # None =>
                /\ block'[b].parent \in block'[b].line
                /\ b \notin block'[block'[b].parent].line
      BY <3>2, <3>3, <3>4, <2>5
    <3>. QED
      BY <3>1, <3>5, <2>6 DEF BlockTree
  <2>8. RecordsTyped'
    BY <1>1, <2>5 DEF AddBlock, RecordsTyped
  <2>. QED
    BY <1>1, <2>6, <2>7, <2>8, IdleStays DEF AddBlock, LiveNode
<1>2. ASSUME NEW n \in Node, NEW b \in LiveBlock, NEW o \in Node \cup {None},
             NEW v \in FreshValue(b) \cup {None}, AddNode(n, b, v, o)
      PROVE  IInv'
  <2>. DEFINE fresh == [status |-> "live", block |-> b, value |-> v, operand |-> o,
                        ran |-> FALSE, owner |-> None, shape |-> Observed(v),
                        summary |-> {}]
  <2>0. node' = [node EXCEPT ![n] = fresh]
    BY <1>2 DEF AddNode
  <2>3. /\ "status" \in DOMAIN fresh /\ "block" \in DOMAIN fresh
        /\ fresh.status = "live" /\ fresh.block = b
    OBVIOUS
  <2>. HIDE DEF fresh
  <2>1. RecordsTyped' /\ LiveNode' = LiveNode \cup {n}
    BY <1>2, <2>0, <2>3 DEF AddNode, RecordsTyped, LiveNode
  <2>2. BlockTree' /\ LiveBlock' = LiveBlock
    BY <1>2, SameTree DEF AddNode
  <2>4. \A m \in LiveNode' : node'[m].block \in LiveBlock'
    BY <2>0, <2>1, <2>2, <2>3 DEF RecordsTyped, LiveNode
  <2>. QED
    BY <1>2, <2>1, <2>2, <2>4, IdleStays DEF AddNode
<1>3. ASSUME NEW n \in Node, MarkScopeRoot(n)
      PROVE  IInv'
  <2>. DEFINE marked == [block[node[n].block] EXCEPT !.root = n]
  <2>1. block' = [block EXCEPT ![node[n].block] = marked]
    BY <1>3 DEF MarkScopeRoot
  <2>2. ASSUME NEW r \in BlockRecord
        PROVE  /\ [r EXCEPT !.root = n] \in BlockRecord
               /\ [r EXCEPT !.root = n].status = r.status
               /\ [r EXCEPT !.root = n].parent = r.parent
               /\ [r EXCEPT !.root = n].line = r.line
    BY DEF BlockRecord
  <2>3. ASSUME node[n].block \in Block
        PROVE  /\ marked \in BlockRecord
               /\ marked.status = block[node[n].block].status
               /\ marked.parent = block[node[n].block].parent
               /\ marked.line = block[node[n].block].line
    BY <2>2, <2>3 DEF RecordsTyped
  <2>. HIDE DEF marked
  <2>4. /\ block' \in [Block -> BlockRecord]
        /\ \A b \in Block : /\ block'[b].status = block[b].status
                            /\ block'[b].parent = block[b].parent
                            /\ block'[b].line = block[b].line
    BY <2>1, <2>3 DEF RecordsTyped
  <2>5. BlockTree' /\ LiveBlock' = LiveBlock
    BY <2>4, SameTree
  <2>6. RecordsTyped'
    BY <1>3, <2>4 DEF MarkScopeRoot, RecordsTyped
  <2>. QED
    BY <1>3, <2>5, <2>6, IdleStays DEF MarkScopeRoot, LiveNode
<1>4. ASSUME NEW n \in Node, AddAssert(n)
      PROVE  IInv'
  <2>1. BlockTree' /\ LiveBlock' = LiveBlock /\ RecordsTyped'
    BY <1>4, SameTree DEF AddAssert, RecordsTyped
  <2>. QED
    BY <1>4, <2>1, IdleStays DEF AddAssert, LiveNode
<1>5. ASSUME NEW f \in Function, NEW b \in Block, NEW p \in Function \cup {None},
             BeginFunction(f, b, p)
      PROVE  IInv'
  <2>1. BlockTree' /\ LiveBlock' = LiveBlock /\ RecordsTyped'
    BY <1>5, SameTree DEF BeginFunction, RecordsTyped
  <2>. QED
    BY <1>5, <2>1, IdleStays DEF BeginFunction, LiveNode
<1>6. ASSUME NEW f \in Function, NEW n \in Node, Register(f, n)
      PROVE  IInv'
  <2>1. BlockTree' /\ LiveBlock' = LiveBlock /\ RecordsTyped'
    BY <1>6, SameTree, RecordsKept DEF Register, RecordsTyped
  <2>2. LiveNode' = LiveNode
    BY <1>6, RecordsKept DEF LiveNode
  <2>3. \A m \in LiveNode : node'[m].block = node[m].block
    BY <1>6, RecordsKept DEF LiveNode
  <2>4. UNCHANGED <<block, asserts, walk>> /\ Idle
    BY <1>6 DEF Register
  <2>. QED
    BY <2>1, <2>2, <2>3, <2>4, IdleStays
<1>. QED
  BY <1>1, <1>2, <1>3, <1>4, <1>5, <1>6 DEF Build

LEMMA EvaluateKeeps ==
    ASSUME IInv, Evaluate
    PROVE  IInv'
<1>. USE DEF IInv
<1>1. PICK a \in Node, b \in Node, n \in Node : Unify(a, b) \/ \E v : Run(n, v)
  BY DEF Evaluate, LiveNode
<1>2. UNCHANGED <<block, function, asserts, walk>> /\ Idle
  BY <1>1 DEF Unify, Run
<1>3. BlockTree' /\ LiveBlock' = LiveBlock
  BY <1>2, SameTree
<1>4. RecordsTyped'
  BY <1>1, <1>2, RecordsKept DEF RecordsTyped
<1>5. LiveNode' = LiveNode /\ \A m \in LiveNode : node'[m].block = node[m].block
  BY <1>1, RecordsKept DEF LiveNode
<1>. QED
  BY <1>2, <1>3, <1>4, <1>5, IdleStays

\* The target is not inside the scope that is being collected.
LEMMA TargetOutside ==
    ASSUME IInv, ~Idle
    PROVE  walk.target \in LiveBlock /\ ~Descends(walk.target, walk.source)
  BY DEF IInv, BlockTree, WalkInOrder, Descends

\* A visit moves the visited node out of the scope, and no other node.
LEMMA VisitMoves ==
    ASSUME RecordsTyped, NEW n \in Node, Visit(n)
    PROVE  /\ DOMAIN node' = Node
           /\ \A m \in Node :
                 /\ "status" \in DOMAIN node'[m] /\ "block" \in DOMAIN node'[m]
                 /\ node'[m].status = node[m].status
                 /\ node'[m].block = IF m = n /\ Inside(n) THEN walk.target
                                     ELSE node[m].block
<1>. USE DEF RecordsTyped
<1>1. DOMAIN node' = Node
  BY DEF Visit
<1>. DEFINE Moved(r, b) == [r EXCEPT !.block = b, !.value = Reallocated(@, b)]
            Kept(r) == [r EXCEPT !.value = Reallocated(@, r.block)]
<1>2. ASSUME NEW r, "status" \in DOMAIN r, "block" \in DOMAIN r
      PROVE  /\ \A b : /\ DOMAIN Moved(r, b) = DOMAIN r
                       /\ Moved(r, b).status = r.status /\ Moved(r, b).block = b
             /\ DOMAIN Kept(r) = DOMAIN r
             /\ Kept(r).status = r.status /\ Kept(r).block = r.block
  BY <1>2
<1>3. ASSUME NEW m \in Node
      PROVE  /\ m = n /\ Inside(n) => node'[m] = Moved(node[m], walk.target)
             /\ ~(m = n /\ Inside(n)) => node'[m] \in {Kept(node[m]), node[m]}
  <2>1. node'[m] = CASE m = n /\ Inside(n) -> Moved(node[m], walk.target)
                     [] m \in Relocated(n) -> Kept(node[m])
                     [] OTHER -> node[m]
    BY DEF Visit
  <2>2. m = n /\ Inside(n) => m \notin Relocated(n)
    BY DEF Relocated
  <2>. HIDE DEF Moved, Kept
  <2>. QED
    BY <2>1, <2>2
<1>. HIDE DEF Moved, Kept
<1>4. \A m \in Node : "status" \in DOMAIN node[m] /\ "block" \in DOMAIN node[m]
  OBVIOUS
<1>5. ASSUME NEW m \in Node
      PROVE  /\ "status" \in DOMAIN node'[m] /\ "block" \in DOMAIN node'[m]
             /\ node'[m].status = node[m].status
             /\ node'[m].block = IF m = n /\ Inside(n) THEN walk.target
                                 ELSE node[m].block
  <2>. DEFINE r == node[m]
  <2>1. /\ DOMAIN Moved(r, walk.target) = DOMAIN r
        /\ Moved(r, walk.target).status = r.status
        /\ Moved(r, walk.target).block = walk.target
        /\ DOMAIN Kept(r) = DOMAIN r
        /\ Kept(r).status = r.status /\ Kept(r).block = r.block
    BY <1>2, <1>4
  <2>2. /\ m = n /\ Inside(n) => node'[m] = Moved(r, walk.target)
        /\ ~(m = n /\ Inside(n)) => node'[m] \in {Kept(r), r}
    BY <1>3
  <2>3. "status" \in DOMAIN r /\ "block" \in DOMAIN r
    BY <1>4
  <2>. QED
    BY <2>1, <2>2, <2>3
<1>. QED
  BY <1>1, <1>5

LEMMA EndKeeps ==
    ASSUME IInv, End
    PROVE  IInv'
<1>. USE DEF IInv
<1>1. ASSUME NEW r \in Node, Collect(r)
      PROVE  IInv'
  <2>. DEFINE source == node[r].block
              unmarked == [block[source] EXCEPT !.root = None]
  <2>1. block' = [block EXCEPT ![source] = unmarked]
    BY <1>1 DEF Collect
  <2>2. ASSUME NEW b \in BlockRecord
        PROVE  /\ [b EXCEPT !.root = None] \in BlockRecord
               /\ [b EXCEPT !.root = None].status = b.status
               /\ [b EXCEPT !.root = None].parent = b.parent
               /\ [b EXCEPT !.root = None].line = b.line
    BY DEF BlockRecord
  <2>3. ASSUME source \in Block
        PROVE  /\ unmarked \in BlockRecord
               /\ unmarked.status = block[source].status
               /\ unmarked.parent = block[source].parent
               /\ unmarked.line = block[source].line
    BY <2>2, <2>3 DEF RecordsTyped
  <2>. HIDE DEF unmarked
  <2>4. /\ block' \in [Block -> BlockRecord]
        /\ \A b \in Block : /\ block'[b].status = block[b].status
                            /\ block'[b].parent = block[b].parent
                            /\ block'[b].line = block[b].line
    BY <2>1, <2>3 DEF RecordsTyped
  <2>5. BlockTree' /\ LiveBlock' = LiveBlock
    BY <2>4, SameTree
  <2>. HIDE DEF source
  <2>6. walk' = [NoWalk EXCEPT !.stage = "root", !.source = source,
                               !.target = block[source].parent, !.grey = {r}]
    BY <1>1 DEF Collect, source
  <2>7. /\ walk'.stage = "root" /\ walk'.black = {}
        /\ walk'.source = source /\ walk'.target = block[source].parent
        /\ WalkFields \subseteq DOMAIN walk'
    BY <2>6 DEF NoWalk, WalkFields
  <2>8. RecordsTyped'
    BY <1>1, <2>4, <2>7 DEF Collect, RecordsTyped
  <2>9. source \in LiveBlock /\ block[source].parent # None
    BY <1>1 DEF Collect, source
  <2>10. WalkInOrder'
    BY <2>4, <2>5, <2>7, <2>9 DEF WalkInOrder, LiveBlock, Idle
  <2>. QED
    BY <1>1, <2>5, <2>8, <2>10 DEF Collect, LiveNode
<1>2. ASSUME NEW n \in Node, Visit(n)
      PROVE  IInv'
  <2>0. \E g, c, e, m :
           walk' = [walk EXCEPT !.grey = walk.grey \cup g,
                                !.black = walk.black \cup {n},
                                !.classes = c, !.entries = e, !.moved = m]
    BY <1>2 DEF Visit
  <2>1. /\ UNCHANGED <<block, asserts>>
        /\ walk'.stage = walk.stage /\ walk'.source = walk.source
        /\ walk'.target = walk.target /\ walk'.black = walk.black \cup {n}
        /\ walk.grey \subseteq walk'.grey
        /\ WalkFields \subseteq DOMAIN walk'
    BY <1>2, <2>0 DEF Visit, RecordsTyped, WalkFields
  <2>2. BlockTree' /\ LiveBlock' = LiveBlock
    BY <2>1, SameTree
  <2>3. RecordsTyped' /\ LiveNode' = LiveNode
    BY <1>2, <2>1, VisitMoves DEF RecordsTyped, LiveNode
  <2>5. ~Idle
    BY <1>2 DEF Visit, WalkInOrder
  <2>6. \A m \in LiveNode' : node'[m].block \in LiveBlock'
    BY <1>2, <2>2, <2>3, <2>5, VisitMoves, TargetOutside DEF LiveNode
  <2>4. WalkInOrder'
    <3>1. ~Inside(n)'
      BY <1>2, <2>1, <2>5, VisitMoves, TargetOutside DEF Inside, Descends
    <3>2. ASSUME NEW m \in Node, Inside(m)' PROVE Inside(m)
      BY <1>2, <2>1, <3>1, <3>2, VisitMoves DEF Inside, Descends
    <3>. QED
      BY <2>1, <2>2, <2>5, <3>1, <3>2 DEF WalkInOrder, Idle, LiveNode
  <2>. QED
    BY <2>1, <2>2, <2>3, <2>4, <2>6
<1>3. ASSUME AssertRoots \/ TemplateRoots
      PROVE  IInv'
  <2>1. /\ UNCHANGED <<node, meta, block, function, asserts>>
        /\ \E st, g : walk' = [walk EXCEPT !.stage = st, !.grey = walk.grey \cup g]
        /\ walk.stage \in {"root", "asserts"} /\ walk'.stage \in {"asserts", "templates"}
    BY <1>3 DEF AssertRoots, TemplateRoots, RecordsTyped, WalkFields
  <2>2. /\ walk'.source = walk.source /\ walk'.target = walk.target
        /\ walk'.black = walk.black /\ walk.grey \subseteq walk'.grey
        /\ WalkFields \subseteq DOMAIN walk'
    BY <2>1 DEF RecordsTyped, WalkFields
  <2>3. BlockTree' /\ LiveBlock' = LiveBlock
    BY <2>1, SameTree
  <2>4. RecordsTyped' /\ LiveNode' = LiveNode
    BY <2>1, <2>2 DEF RecordsTyped, LiveNode
  <2>5. \A n \in asserts : Inside(n)' => n \in walk'.grey
    <3>1. CASE AssertRoots
      BY <3>1, <2>1, <2>2 DEF AssertRoots, Inside, Descends, RecordsTyped, WalkFields
    <3>2. CASE TemplateRoots
      BY <3>2, <2>1, <2>2 DEF TemplateRoots, WalkInOrder, Inside, Descends
    <3>. QED
      BY <1>3, <3>1, <3>2
  <2>6. WalkInOrder'
    BY <2>1, <2>2, <2>3, <2>5 DEF WalkInOrder, Idle, Inside, Descends
  <2>. QED
    BY <2>1, <2>3, <2>4, <2>6 DEF LiveNode
<1>4. ASSUME DropBlock
      PROVE  IInv'
  <2>1. /\ node' = [n \in Node |-> CASE n \in DoomedNodes -> AbsentNode("released")
                                     [] n \in LiveNode \ DoomedNodes -> Survivor(n)
                                     [] OTHER -> node[n]]
        /\ block' = [b \in Block |-> IF b \in DoomedBlocks THEN AbsentBlock("released")
                                     ELSE block[b]]
        /\ asserts' = asserts \ DoomedNodes /\ walk' = NoWalk
    BY <1>4 DEF DropBlock
  <2>2. LiveBlock' = LiveBlock \ DoomedBlocks
    BY <2>1 DEF LiveBlock, AbsentBlock, DoomedBlocks, RecordsTyped
  <2>3. \A b \in LiveBlock' : block'[b] = block[b] /\ b \in LiveBlock
    BY <2>1, <2>2 DEF LiveBlock
  <2>4. BlockTree'
    <3>1. ASSUME NEW b \in LiveBlock', NEW c \in block[b].line
          PROVE  c \in LiveBlock'
      BY <3>1, <2>2, <2>3 DEF BlockTree, DoomedBlocks, Descends
    <3>2. ASSUME NEW b \in LiveBlock'
          PROVE  /\ b \in block'[b].line /\ block'[b].line \subseteq LiveBlock'
                 /\ \A c \in block'[b].line : block'[c].line \subseteq block'[b].line
                 /\ block'[b].parent # None =>
                       /\ block'[b].parent \in block'[b].line
                       /\ b \notin block'[block'[b].parent].line
      BY <2>3, <3>1 DEF BlockTree
    <3>. QED
      BY <3>2 DEF BlockTree
  <2>5. ASSUME NEW r, NEW v, NEW s, NEW u, "status" \in DOMAIN r, "block" \in DOMAIN r
        PROVE  LET q == [r EXCEPT !.value = v, !.shape = s, !.summary = u]
               IN  /\ "status" \in DOMAIN q /\ "block" \in DOMAIN q
                   /\ q.status = r.status /\ q.block = r.block
    BY <2>5
  <2>6. ASSUME NEW n \in Node
        PROVE  /\ "status" \in DOMAIN Survivor(n) /\ "block" \in DOMAIN Survivor(n)
               /\ Survivor(n).status = node[n].status
               /\ Survivor(n).block = node[n].block
    BY <2>5 DEF Survivor, RecordsTyped
  <2>7. ASSUME NEW n \in Node
        PROVE  /\ "status" \in DOMAIN node'[n] /\ "block" \in DOMAIN node'[n]
               /\ n \in DoomedNodes => node'[n].status = "released"
               /\ n \notin DoomedNodes => /\ node'[n].status = node[n].status
                                         /\ node'[n].block = node[n].block
    BY <2>1, <2>6 DEF AbsentNode, RecordsTyped
  <2>8. LiveNode' = LiveNode \ DoomedNodes
    BY <2>7 DEF LiveNode, DoomedNodes
  <2>9. \A n \in LiveNode' : node'[n].block \in LiveBlock'
    BY <2>2, <2>7, <2>8 DEF LiveNode, DoomedNodes
  <2>10. RecordsTyped'
    <3>1. block' \in [Block -> BlockRecord]
      BY <2>1 DEF RecordsTyped, AbsentBlock, BlockRecord, Status
    <3>2. WalkFields \subseteq DOMAIN walk'
      BY <2>1 DEF NoWalk, WalkFields
    <3>. QED
      BY <2>1, <2>7, <3>1, <3>2 DEF RecordsTyped
  <2>11. WalkInOrder'
    BY <2>1 DEF WalkInOrder, Idle, NoWalk
  <2>. QED
    BY <2>1, <2>4, <2>8, <2>9, <2>10, <2>11
<1>. QED
  BY <1>1, <1>2, <1>3, <1>4 DEF End

THEOREM Inductive == Spec => []IInv
<1>1. IInv /\ [Next]_vars => IInv'
  <2>. SUFFICES ASSUME IInv, [Next]_vars PROVE IInv'
    OBVIOUS
  <2>1. CASE Next
    BY <2>1, BuildKeeps, EvaluateKeeps, EndKeeps DEF Next
  <2>2. CASE UNCHANGED vars
    BY <2>2 DEF vars, IInv, RecordsTyped, BlockTree, WalkInOrder, LiveNode,
               LiveBlock, Inside, Descends, Idle
  <2>. QED
    BY <2>1, <2>2
<1>. QED
  BY InitInv, <1>1, PTL DEF Spec

(***************************************************************************)
(* A collect unregisters no assert: when drop_block runs, every condition  *)
(* inside the scope was a root of the walk, was therefore entered, and has *)
(* moved out.                                                              *)
(***************************************************************************)
THEOREM AssertsSurvive == Spec => AssertsAreKept
<1>1. IInv /\ [Next]_vars => [asserts \subseteq asserts']_vars
  <2>. SUFFICES ASSUME IInv, Next PROVE asserts \subseteq asserts'
    OBVIOUS
  <2>1. CASE DropBlock
    <3>1. /\ walk.stage = "templates" /\ walk.grey \subseteq walk.black
          /\ asserts' = asserts \ DoomedNodes
      BY <2>1 DEF DropBlock, WalkedOut
    <3>2. ASSUME NEW n \in asserts PROVE n \notin DoomedNodes
      <4>1. n \in LiveNode /\ n \in Node
        BY DEF IInv, LiveNode
      <4>2. Inside(n) => n \in walk.black
        BY <3>1 DEF IInv, WalkInOrder
      <4>3. ~Inside(n)
        BY <3>1, <4>1, <4>2 DEF IInv, WalkInOrder, Idle
      <4>. QED
        BY <4>3 DEF DoomedNodes, DoomedBlocks, Inside
    <3>. QED
      BY <3>1, <3>2
  <2>2. CASE \E n \in Node : AddAssert(n)
    BY <2>2 DEF AddAssert
  <2>3. CASE ~DropBlock /\ ~\E n \in Node : AddAssert(n)
    <3>1. asserts' = asserts
      BY <2>3 DEF Next, Build, Evaluate, End, AddBlock, AddNode, MarkScopeRoot,
                  BeginFunction, Register, Unify, Run, Collect, Visit, AssertRoots,
                  TemplateRoots
    <3>. QED
      BY <3>1
  <2>. QED
    BY <2>1, <2>2, <2>3
<1>. QED
  BY Inductive, <1>1, PTL DEF Spec, AssertsAreKept

-----------------------------------------------------------------------------
(***************************************************************************)
(* Equality classes.  The representation is well formed over the live      *)
(* nodes, and a key without a node holds no links.                         *)
(***************************************************************************)
ClassesOf(links, live) ==
    /\ Typed(links, Node)
    /\ WellFormed(links, live)
    /\ \A n \in Node \ live : links[n] = NoLinks

ClassInv == ClassesOf(meta, LiveNode)

LEMMA LiveNodesAreNodes == LiveNode \in SUBSET Node
  BY DEF LiveNode

\* Every representative is a key, and a live node's is live.
LEMMA RootIsNode ==
    ASSUME NEW links, NEW live \in SUBSET Node, ClassesOf(links, live), NEW n \in Node
    PROVE  /\ Root(links, n) \in Node /\ n \in Class(links, n)
           /\ Class(links, n) \subseteq Node
           /\ n \in live =>
                 /\ Root(links, n) \in live /\ links[Root(links, n)].parent = None
                 /\ Class(links, n) = {m \in live : Root(links, m) = Root(links, n)}
                 /\ Members(links, Root(links, n)) = Class(links, n)
                 /\ Root(links, Root(links, n)) = Root(links, n)
           /\ n \notin live =>
                 /\ Root(links, n) = n /\ Class(links, n) = {n} /\ Find(links, n) = links
<1>1. CASE n \in live
  BY <1>1, RootFacts, ClassFacts DEF ClassesOf
<1>2. CASE n \notin live
  BY <1>2, AloneWithoutLinks DEF ClassesOf, NoLinks
<1>. QED
  BY <1>1, <1>2

\* Compressing a path changes no class.
LEMMA FindKeepsClasses ==
    ASSUME NEW links, NEW live \in SUBSET Node, ClassesOf(links, live), NEW n \in Node,
           NEW found, found = Find(links, n) \/ found = links
    PROVE  /\ ClassesOf(found, live)
           /\ \A m \in Node : /\ Root(found, m) = Root(links, m)
                              /\ Class(found, m) = Class(links, m)
                              /\ found[m].parent = None <=> links[m].parent = None
<1>1. CASE found = links
  BY <1>1
<1>2. CASE n \in live /\ found = Find(links, n)
  <2>1. Typed(links, Node) /\ WellFormed(links, live)
    BY DEF ClassesOf
  <2>2. /\ Typed(found, Node) /\ WellFormed(found, live)
        /\ \A x \in live : Root(found, x) = Root(links, x)
        /\ \A x \in Node : /\ found[x].parent = None <=> links[x].parent = None
                           /\ x \notin live => found[x] = links[x]
    BY <1>2, <2>1, FindKeeps
  <2>3. ClassesOf(found, live)
    BY <2>2 DEF ClassesOf
  <2>4. ASSUME NEW m \in Node
        PROVE  Root(found, m) = Root(links, m) /\ Class(found, m) = Class(links, m)
    <3>1. CASE m \in live
      <4>1. Class(links, m) = {x \in live : Root(links, x) = Root(links, m)}
        BY <3>1, RootIsNode
      <4>2. Class(found, m) = {x \in live : Root(found, x) = Root(found, m)}
        BY <2>3, <3>1, RootIsNode
      <4>. QED
        BY <2>2, <3>1, <4>1, <4>2
    <3>2. CASE m \notin live
      <4>1. Root(links, m) = m /\ Class(links, m) = {m}
        BY <3>2, RootIsNode
      <4>2. Root(found, m) = m /\ Class(found, m) = {m}
        BY <2>3, <3>2, RootIsNode
      <4>. QED
        BY <4>1, <4>2
    <3>. QED
      BY <3>1, <3>2
  <2>. QED
    BY <2>2, <2>3, <2>4
<1>3. CASE n \notin live
  <2>1. found = links
    BY <1>3, RootIsNode
  <2>. QED
    BY <1>1, <2>1
<1>. QED
  BY <1>1, <1>2, <1>3
\* make_set gives a key that holds no node a class of its own.
LEMMA MakeSetAddsClass ==
    ASSUME NEW links, NEW live \in SUBSET Node, ClassesOf(links, live),
           NEW k \in Node \ live
    PROVE  /\ ClassesOf(MakeSet(links, k), live \cup {k})
           /\ Root(MakeSet(links, k), k) = k /\ Class(MakeSet(links, k), k) = {k}
           /\ \A x \in live : /\ Root(MakeSet(links, k), x) = Root(links, x)
                              /\ MakeSet(links, k)[x] = links[x]
<1>1. PICK made : made = MakeSet(links, k)
  OBVIOUS
<1>2. PICK more \in SUBSET Node : more = live \cup {k}
  OBVIOUS
<1>3. /\ Typed(made, Node) /\ WellFormed(made, more)
      /\ \A x \in live : Root(made, x) = Root(links, x)
      /\ Root(made, k) = k
  BY <1>1, <1>2, MakeSetAdds DEF ClassesOf
<1>4. \A x \in Node : x # k => made[x] = links[x]
  BY <1>1 DEF MakeSet, ClassesOf, Typed
<1>5. ClassesOf(made, more)
  BY <1>2, <1>3, <1>4 DEF ClassesOf
<1>6. \A x \in live : Root(links, x) \in live
  BY RootIsNode
<1>7. \A x \in more : Class(made, x) = {m \in more : Root(made, m) = Root(made, x)}
  BY <1>5, RootIsNode
<1>8. \A x \in live : Class(links, x) = {m \in live : Root(links, m) = Root(links, x)}
  BY RootIsNode
<1>9. Class(made, k) = {k}
  BY <1>2, <1>3, <1>6, <1>7
<1>. QED
  BY <1>1, <1>2, <1>3, <1>4, <1>5, <1>9

LEMMA MakeSetKeeps ==
    ASSUME NEW links, NEW live \in SUBSET Node, ClassesOf(links, live),
           NEW k \in Node \ live, NEW x \in live
    PROVE  /\ Root(MakeSet(links, k), x) = Root(links, x)
           /\ Class(MakeSet(links, k), x) = Class(links, x)
<1>1. PICK made : made = MakeSet(links, k)
  OBVIOUS
<1>2. PICK more \in SUBSET Node : more = live \cup {k}
  OBVIOUS
<1>3. /\ ClassesOf(made, more) /\ Root(made, k) = k
      /\ \A m \in live : Root(made, m) = Root(links, m)
  BY <1>1, <1>2, MakeSetAddsClass
<1>4. Class(made, x) = {m \in more : Root(made, m) = Root(made, x)}
  BY <1>2, <1>3, RootIsNode
<1>5. Class(links, x) = {m \in live : Root(links, m) = Root(links, x)}
  BY RootIsNode
<1>6. Root(links, x) \in live
  BY RootIsNode
<1>7. \A m \in more : Root(made, m) = Root(made, x)
                          <=> m \in live /\ Root(links, m) = Root(links, x)
  BY <1>2, <1>3, <1>6
<1>8. Class(made, x) = Class(links, x)
  BY <1>2, <1>4, <1>5, <1>7
<1>. QED
  BY <1>1, <1>3, <1>8

\* In joined the classes of a and b are one, found at rep; the others are kept.
JoinedAt(rep, links, joined, live, a, b) ==
    /\ rep \in {Root(links, a), Root(links, b)}
    /\ \A x \in live : Root(joined, x) =
                        IF Root(links, x) \in {Root(links, a), Root(links, b)} THEN rep
                        ELSE Root(links, x)

\* union joins two classes of live nodes, under one of their representatives.
LEMMA UnionJoinsClasses ==
    ASSUME NEW links, NEW live \in SUBSET Node, ClassesOf(links, live),
           NEW a \in live, NEW b \in live
    PROVE  /\ ClassesOf(Union(links, a, b), live)
           /\ \E rep : JoinedAt(rep, links, Union(links, a, b), live, a, b)
<1>1. PICK joined : joined = Union(links, a, b)
  OBVIOUS
<1>2. /\ Typed(joined, Node) /\ WellFormed(joined, live)
      /\ \E rep \in {Root(links, a), Root(links, b)} :
                 \A x \in live : Root(joined, x) =
                    IF Root(links, x) \in {Root(links, a), Root(links, b)} THEN rep
                    ELSE Root(links, x)
  BY <1>1, UnionJoins DEF ClassesOf
<1>3. \A x \in Node \ live : joined[x] = links[x]
  BY <1>1, UnionOutside DEF ClassesOf
<1>4. \E rep : JoinedAt(rep, links, joined, live, a, b)
  BY <1>2 DEF JoinedAt
<1>. QED
  BY <1>1, <1>2, <1>3, <1>4 DEF ClassesOf

\* The links drop_block leaves are the cut of every class by the doomed nodes.
LEMMA FlattenCuts ==
    ASSUME ClassInv
    PROVE  /\ ClassesOf(FlattenedMeta, LiveNode \ DoomedNodes)
           /\ \A x \in LiveNode \ DoomedNodes :
                 /\ Root(FlattenedMeta, x) = HeadOf(meta, DoomedNodes, x)
                 /\ Class(FlattenedMeta, x) = Class(meta, x) \ DoomedNodes
<1>1. PICK cut : cut = FlattenedMeta
  OBVIOUS
<1>2. PICK doomed \in SUBSET LiveNode : doomed = DoomedNodes
  BY DEF DoomedNodes
<1>3. /\ LiveNode \in SUBSET Node /\ cut = [x \in Node |-> cut[x]]
      /\ Typed(meta, Node) /\ WellFormed(meta, LiveNode)
  BY <1>1, LiveNodesAreNodes DEF FlattenedMeta, ClassInv, ClassesOf
<1>4. NoLinks \in LinksOver(Node)
  BY DEF NoLinks, LinksOver
<1>5. ASSUME NEW x \in Node, x \notin LiveNode \ doomed PROVE cut[x] = NoLinks
  <2>1. CASE x \in doomed
    BY <1>1, <1>2, <2>1 DEF FlattenedMeta
  <2>2. CASE x \notin doomed
    <3>1. x \notin LiveNode /\ meta[x] = NoLinks
      BY <1>5, <2>2 DEF ClassInv, ClassesOf
    <3>2. Root(meta, x) = x
      BY <1>3, <3>1, RootIsNode DEF ClassInv
    <3>3. x \notin Flattened
      BY <3>1 DEF Flattened
    <3>. QED
      BY <1>1, <1>2, <2>2, <3>1, <3>2, <3>3 DEF FlattenedMeta
  <2>. QED
    BY <2>1, <2>2
<1>6. ASSUME NEW x \in LiveNode \ doomed PROVE cut[x] = Cut(meta, doomed, x)
  <2>1. PICK r : r = Root(meta, x)
    OBVIOUS
  <2>2. /\ r \in LiveNode /\ meta[r].parent = None /\ x \in Members(meta, r)
        /\ x \in Node
    BY <1>3, <2>1, RootIsNode DEF ClassInv
  <2>3. Survivors(r) = Members(meta, r) \ doomed /\ x \in Survivors(r)
    BY <1>2, <1>6, <2>2 DEF Survivors
  <2>4. r \in Flattened <=> Members(meta, r) \cap doomed # {}
    BY <1>2, <2>2, <2>3 DEF Flattened
  <2>5. cut[x] = IF r \in Flattened THEN Rebuild(meta, Survivors(r))[x] ELSE meta[x]
    BY <1>1, <1>2, <1>6, <2>1, <2>2 DEF FlattenedMeta
  <2>. QED
    BY <2>1, <2>3, <2>4, <2>5 DEF Cut
<1>7. \A x \in Node \ (LiveNode \ doomed) : cut[x] \in LinksOver(Node)
  BY <1>4, <1>5
<1>8. /\ Typed(cut, Node) /\ WellFormed(cut, LiveNode \ doomed)
      /\ \A x \in LiveNode \ doomed : Root(cut, x) = HeadOf(meta, doomed, x)
      /\ \A x \in LiveNode \ doomed : Class(cut, x) = Class(meta, x) \ doomed
  BY <1>3, <1>6, <1>7, CutKeeps
<1>9. ClassesOf(cut, LiveNode \ doomed)
  BY <1>5, <1>8 DEF ClassesOf
<1>. QED
  BY <1>1, <1>2, <1>8, <1>9

\* What drop_block leaves of the records.
LEMMA DropReleases ==
    ASSUME RecordsTyped, DropBlock
    PROVE  /\ LiveBlock' = LiveBlock \ DoomedBlocks
           /\ LiveNode' = LiveNode \ DoomedNodes
           /\ \A b \in LiveBlock' : block'[b] = block[b]
           /\ \A n \in LiveNode' : node'[n] = Survivor(n) /\ node'[n].block = node[n].block
<1>1. /\ node' = [n \in Node |-> CASE n \in DoomedNodes -> AbsentNode("released")
                                   [] n \in LiveNode \ DoomedNodes -> Survivor(n)
                                   [] OTHER -> node[n]]
      /\ block' = [b \in Block |-> IF b \in DoomedBlocks THEN AbsentBlock("released")
                                   ELSE block[b]]
  BY DEF DropBlock
<1>2. LiveBlock' = LiveBlock \ DoomedBlocks
  BY <1>1 DEF LiveBlock, AbsentBlock, DoomedBlocks, RecordsTyped
<1>3. ASSUME NEW r, NEW v, NEW s, NEW u, "status" \in DOMAIN r, "block" \in DOMAIN r
      PROVE  LET q == [r EXCEPT !.value = v, !.shape = s, !.summary = u]
             IN  q.status = r.status /\ q.block = r.block
  BY <1>3
<1>4. ASSUME NEW n \in Node
      PROVE  Survivor(n).status = node[n].status /\ Survivor(n).block = node[n].block
  BY <1>3 DEF Survivor, RecordsTyped
<1>5. LiveNode' = LiveNode \ DoomedNodes
  BY <1>1, <1>4 DEF AbsentNode, LiveNode, DoomedNodes
<1>. QED
  BY <1>1, <1>2, <1>4, <1>5 DEF LiveBlock, LiveNode

-----------------------------------------------------------------------------
(* The classes stay well formed.                                           *)

LEMMA ClassesAtFirst == Init => ClassInv
<1>. SUFFICES ASSUME Init PROVE ClassInv
  OBVIOUS
<1>1. LiveNode = {} /\ meta = [n \in Node |-> NoLinks]
  BY DEF Init, LiveNode, AbsentNode
<1>2. NoLinks \in LinksOver(Node)
  BY DEF NoLinks, LinksOver
<1>3. Typed(meta, Node)
  BY <1>1, <1>2, NodesAreFinite, KeysAreKeys DEF Typed
<1>4. WellFormed(meta, {})
  BY DEF WellFormed
<1>. QED
  BY <1>1, <1>3, <1>4 DEF ClassInv, ClassesOf

LEMMA ClassStep ==
    ASSUME IInv, IInv', ClassInv, Next
    PROVE  ClassInv'
<1>. USE DEF IInv
<1>0. LiveNode \in SUBSET Node
  BY LiveNodesAreNodes
<1>1. ASSUME ClassesOf(meta', LiveNode) /\ LiveNode' = LiveNode
      PROVE  ClassInv'
  BY <1>1 DEF ClassInv
<1>2. ASSUME NEW n \in Node, meta' = Find(meta, n) \/ meta' = meta, LiveNode' = LiveNode
      PROVE  ClassInv'
  BY <1>0, <1>1, <1>2, FindKeepsClasses DEF ClassInv
<1>3. ASSUME meta' = meta, LiveNode' = LiveNode
      PROVE  ClassInv'
  BY <1>1, <1>3 DEF ClassInv
<1>4. CASE \E n \in Node, b \in LiveBlock, o \in Node \cup {None} :
              \E v \in FreshValue(b) \cup {None} : AddNode(n, b, v, o)
  <2>0. PICK n \in Node, b \in LiveBlock, o \in Node \cup {None} :
           \E v \in FreshValue(b) \cup {None} : AddNode(n, b, v, o)
    BY <1>4
  <2>1. PICK v \in FreshValue(b) \cup {None} : AddNode(n, b, v, o)
    BY <2>0
  <2>. DEFINE fresh == [status |-> "live", block |-> b, value |-> v, operand |-> o,
                        ran |-> FALSE, owner |-> None, shape |-> Observed(v),
                        summary |-> {}]
  <2>2. /\ meta' = MakeSet(meta, n) /\ node[n].status = "unborn"
        /\ node' = [node EXCEPT ![n] = fresh] /\ fresh.status = "live"
    BY <2>1 DEF AddNode
  <2>. HIDE DEF fresh
  <2>3. LiveNode' = LiveNode \cup {n} /\ n \notin LiveNode
    BY <2>2 DEF LiveNode, RecordsTyped
  <2>4. ClassesOf(MakeSet(meta, n), LiveNode \cup {n})
    BY <1>0, <2>3, MakeSetAddsClass DEF ClassInv
  <2>. QED
    BY <2>2, <2>3, <2>4 DEF ClassInv
<1>5. CASE \E f \in Function, n \in Node : Register(f, n)
  <2>1. PICK f \in Function, n \in Node : Register(f, n)
    BY <1>5
  <2>2. LiveNode' = LiveNode
    BY <2>1, RecordsKept DEF LiveNode
  <2>. QED
    BY <1>2, <2>1, <2>2 DEF Register
<1>6. CASE \E a, b \in Node : Unify(a, b)
  <2>1. PICK a \in Node, b \in Node : Unify(a, b)
    BY <1>6
  <2>2. LiveNode' = LiveNode
    BY <2>1, RecordsKept DEF LiveNode
  <2>3. meta' = Union(meta, a, b) /\ a \in LiveNode /\ b \in LiveNode
    BY <2>1 DEF Unify
  <2>4. ClassesOf(Union(meta, a, b), LiveNode)
    BY <1>0, <2>3, UnionJoinsClasses DEF ClassInv
  <2>. QED
    BY <1>1, <2>2, <2>3, <2>4
<1>7. CASE \E n \in Node : \E v : Run(n, v)
  <2>1. PICK n \in Node : \E v : Run(n, v)
    BY <1>7
  <2>2. LiveNode' = LiveNode
    BY <2>1, RecordsKept DEF LiveNode
  <2>3. meta' = Find(meta, n) \/ meta' = meta
    BY <2>1 DEF Run
  <2>. QED
    BY <1>2, <2>2, <2>3
<1>8. CASE \E n \in Node : Visit(n)
  <2>1. PICK n \in Node : Visit(n)
    BY <1>8
  <2>2. LiveNode' = LiveNode
    BY <2>1, VisitMoves DEF LiveNode
  <2>. QED
    BY <1>2, <2>1, <2>2 DEF Visit
<1>9. CASE DropBlock
  <2>1. meta' = FlattenedMeta
    BY <1>9 DEF DropBlock
  <2>2. LiveNode' = LiveNode \ DoomedNodes
    BY <1>9, DropReleases
  <2>. QED
    BY <2>1, <2>2, FlattenCuts DEF ClassInv
<1>10. CASE UNCHANGED <<node, meta>>
  BY <1>3, <1>10 DEF LiveNode
<1>11. \/ UNCHANGED <<node, meta>>
       \/ \E n \in Node, b \in LiveBlock, o \in Node \cup {None} :
              \E v \in FreshValue(b) \cup {None} : AddNode(n, b, v, o)
       \/ \E f \in Function, n \in Node : Register(f, n)
       \/ \E a, b \in Node : Unify(a, b)
       \/ \E n \in Node : \E v : Run(n, v)
       \/ \E n \in Node : Visit(n)
       \/ DropBlock
  <2>1. CASE Build
    BY <2>1 DEF Build, AddBlock, MarkScopeRoot, AddAssert, BeginFunction
  <2>2. CASE Evaluate
    BY <2>2 DEF Evaluate, LiveNode
  <2>3. CASE End
    BY <2>3 DEF End, Collect, AssertRoots, TemplateRoots
  <2>. QED
    BY <2>1, <2>2, <2>3 DEF Next
<1>. QED
  BY <1>4, <1>5, <1>6, <1>7, <1>8, <1>9, <1>10, <1>11

LEMMA ClassesInductive == Spec => []ClassInv
<1>1. IInv /\ IInv' /\ ClassInv /\ [Next]_vars => ClassInv'
  <2>. SUFFICES ASSUME IInv, IInv', ClassInv, [Next]_vars PROVE ClassInv'
    OBVIOUS
  <2>1. CASE Next
    BY <2>1, ClassStep
  <2>2. CASE UNCHANGED vars
    BY <2>2 DEF vars, ClassInv, LiveNode
  <2>. QED
    BY <2>1, <2>2
<1>. QED
  BY ClassesAtFirst, Inductive, <1>1, PTL DEF Spec

(***************************************************************************)
(* The union-find stays well formed through the module's every use of it:  *)
(* make_set, union, find on every path the walk compresses, and            *)
(* drop_block's flattening of every class that loses a member.             *)
(***************************************************************************)
THEOREM ClassesStayWellFormed == Spec => []ClassesWellFormed
<1>1. ClassInv => ClassesWellFormed
  BY DEF ClassInv, ClassesOf, ClassesWellFormed
<1>. QED
  BY ClassesInductive, <1>1, PTL

-----------------------------------------------------------------------------
(* What each step does to the records, field by field.                     *)

LEMMA ValueFields ==
    ASSUME NEW v \in Value, NEW b \in Block \cup {None}
    PROVE  /\ Reallocated(v, b) \in Value /\ Reallocated(v, b) # None /\ v # None
           /\ Reallocated(v, b).tag = v.tag /\ Reallocated(v, b).items = v.items
           /\ Reallocated(v, b).function = v.function
           /\ v.tag = "array" => Reallocated(v, b).arena = b
<1>1. CASE v.tag = "array"
  <2>1. v # None /\ Reallocated(v, b) = [v EXCEPT !.arena = b]
    BY <1>1, NoneIsNoValue DEF Reallocated
  <2>2. [v EXCEPT !.arena = b] \in Value
    BY DEF Value
  <2>3. LET w == [v EXCEPT !.arena = b]
        IN  /\ w.tag = v.tag /\ w.items = v.items /\ w.function = v.function
            /\ w.arena = b
    BY DEF Value
  <2>. QED
    BY <2>1, <2>2, <2>3, NoneIsNoValue
<1>2. CASE v.tag # "array"
  <2>1. Reallocated(v, b) = v
    BY <1>2 DEF Reallocated
  <2>. QED
    BY <1>2, <2>1, NoneIsNoValue
<1>. QED
  BY <1>1, <1>2

LEMMA FreshIsValue ==
    ASSUME TypeOK, NEW b \in LiveBlock, NEW v \in FreshValue(b)
    PROVE  /\ v \in Value /\ v # None /\ v.items \subseteq LiveNode
           /\ v.function \in LiveFunction \cup {None}
<1>1. b \in Block /\ LiveNode \subseteq Node /\ LiveFunction \subseteq Function
  BY DEF LiveBlock, LiveNode, LiveFunction
<1>2. CASE v = Scalar
  BY <1>2, NoneIsNoValue DEF Scalar, Value, Tag
<1>3. CASE \E f \in LiveFunction : v = Closure(f)
  BY <1>1, <1>3, NoneIsNoValue DEF Closure, Value, Tag
<1>4. CASE \E s \in SUBSET LiveNode : v = Array(s, b)
  BY <1>1, <1>4, NoneIsNoValue DEF Array, Value, Tag
<1>. QED
  BY <1>2, <1>3, <1>4 DEF FreshValue

LEMMA AddNodeFields ==
    ASSUME TypeOK, NEW n \in Node, NEW b \in LiveBlock, NEW o \in Node \cup {None},
           NEW v \in FreshValue(b) \cup {None}, AddNode(n, b, v, o)
    PROVE  /\ node' \in [Node -> NodeRecord]
           /\ \A m \in Node : m # n => node'[m] = node[m]
           /\ node[n].status = "unborn" /\ n \notin LiveNode
           /\ LiveNode' = LiveNode \cup {n}
           /\ node'[n].status = "live" /\ node'[n].block = b /\ node'[n].value = v
           /\ node'[n].operand = o /\ node'[n].ran = FALSE /\ node'[n].owner = None
           /\ node'[n].shape = Observed(v)
           /\ node'[n].summary = {}
           /\ o \in LiveNode \cup {None}
           /\ meta' = MakeSet(meta, n) /\ UNCHANGED <<block, function, asserts, walk>>
           /\ Idle /\ WithinBoundary(n)'
<1>. DEFINE shape == Observed(v)
            fresh == [status |-> "live", block |-> b, value |-> v, operand |-> o,
                      ran |-> FALSE, owner |-> None, shape |-> shape, summary |-> {}]
<1>1. /\ node' = [node EXCEPT ![n] = fresh] /\ node[n].status = "unborn"
      /\ o \in LiveNode \cup {None}
      /\ meta' = MakeSet(meta, n) /\ UNCHANGED <<block, function, asserts, walk>>
      /\ Idle /\ WithinBoundary(n)'
  BY DEF AddNode
<1>2. v \in Value \cup {None} /\ shape \in Tag \cup {None} /\ b \in Block
  BY FreshIsValue DEF Value, LiveBlock, Observed, Tag
<1>. HIDE DEF shape
<1>3. fresh \in NodeRecord
  BY <1>2 DEF NodeRecord, Status
<1>4. /\ fresh.status = "live" /\ fresh.block = b /\ fresh.value = v
      /\ fresh.operand = o /\ fresh.ran = FALSE /\ fresh.owner = None
      /\ fresh.shape = shape /\ fresh.summary = {}
  OBVIOUS
<1>. HIDE DEF fresh
<1>5. /\ node' \in [Node -> NodeRecord] /\ node'[n] = fresh
      /\ \A m \in Node : m # n => node'[m] = node[m]
  BY <1>1, <1>3 DEF TypeOK
<1>6. LiveNode' = LiveNode \cup {n} /\ n \notin LiveNode
  BY <1>1, <1>4, <1>5 DEF LiveNode
<1>. QED
  BY <1>1, <1>4, <1>5, <1>6 DEF shape

LEMMA RegisterFields ==
    ASSUME TypeOK, ClassInv, NEW f \in Function, NEW n \in Node, Register(f, n)
    PROVE  /\ node' \in [Node -> NodeRecord] /\ function' \in [Function -> FunctionRecord]
           /\ f \in LiveFunction /\ n \in LiveNode /\ node[n].owner = None /\ Idle
           /\ \A m \in Node :
                 /\ node'[m].status = node[m].status /\ node'[m].block = node[m].block
                 /\ node'[m].value = node[m].value /\ node'[m].operand = node[m].operand
                 /\ node'[m].ran = node[m].ran /\ node'[m].shape = node[m].shape
                 /\ node'[m].owner = IF m = n THEN f ELSE node[m].owner
                 /\ node'[m].summary = IF m = Root(meta, n)
                                       THEN Meet(Class(meta, n), node', function)
                                       ELSE node[m].summary
           /\ \A g \in Function : g # f => function'[g] = function[g]
           /\ function'[f].status = function[f].status
           /\ function'[f].block = function[f].block
           /\ function'[f].scope = function[f].scope
           /\ function'[f].nodes = function[f].nodes \cup {n}
           /\ LiveNode' = LiveNode /\ LiveFunction' = LiveFunction
           /\ meta' = Find(meta, n) /\ UNCHANGED <<block, asserts, walk>>
<1>1. PICK tagged : tagged = [node EXCEPT ![n].owner = f]
  OBVIOUS
<1>2. PICK root \in Node : root = Root(meta, n)
  BY RootIsNode, LiveNodesAreNodes DEF ClassInv
<1>3. PICK meet : meet = Meet(Class(meta, n), tagged, function)
  OBVIOUS
<1>4. /\ node' = [tagged EXCEPT ![root].summary = meet]
      /\ function' = [function EXCEPT ![f].nodes = @ \cup {n}]
      /\ f \in LiveFunction /\ n \in LiveNode /\ node[n].owner = None /\ Idle
      /\ meta' = Find(meta, n) /\ UNCHANGED <<block, asserts, walk>>
  BY <1>1, <1>2, <1>3 DEF Register
<1>5. meet \in SUBSET Function
  BY <1>3 DEF Meet
<1>6. /\ tagged \in [Node -> NodeRecord]
      /\ \A m \in Node :
            /\ tagged[m].status = node[m].status /\ tagged[m].block = node[m].block
            /\ tagged[m].value = node[m].value /\ tagged[m].operand = node[m].operand
            /\ tagged[m].ran = node[m].ran /\ tagged[m].shape = node[m].shape
            /\ tagged[m].summary = node[m].summary
            /\ tagged[m].owner = IF m = n THEN f ELSE node[m].owner
  <2>1. tagged = [node EXCEPT ![n] = [node[n] EXCEPT !.owner = f]]
    BY <1>1
  <2>2. node[n] \in NodeRecord
    BY DEF TypeOK
  <2>. DEFINE q == [node[n] EXCEPT !.owner = f]
  <2>3. /\ q \in NodeRecord
        /\ q.status = node[n].status /\ q.block = node[n].block
        /\ q.operand = node[n].operand /\ q.ran = node[n].ran /\ q.owner = f
        /\ q.value = node[n].value /\ q.shape = node[n].shape
        /\ q.summary = node[n].summary
    BY <2>2 DEF NodeRecord
  <2>. HIDE DEF q
  <2>. QED
    BY <2>1, <2>3 DEF TypeOK, q
<1>7. /\ node' \in [Node -> NodeRecord]
      /\ \A m \in Node :
            /\ node'[m].status = tagged[m].status /\ node'[m].block = tagged[m].block
            /\ node'[m].value = tagged[m].value /\ node'[m].operand = tagged[m].operand
            /\ node'[m].ran = tagged[m].ran /\ node'[m].shape = tagged[m].shape
            /\ node'[m].owner = tagged[m].owner
            /\ node'[m].summary = IF m = root THEN meet ELSE tagged[m].summary
  <2>1. node' = [tagged EXCEPT ![root] = [tagged[root] EXCEPT !.summary = meet]]
    BY <1>4
  <2>2. tagged[root] \in NodeRecord
    BY <1>6
  <2>. DEFINE q == [tagged[root] EXCEPT !.summary = meet]
  <2>3. /\ q \in NodeRecord
        /\ q.status = tagged[root].status /\ q.block = tagged[root].block
        /\ q.operand = tagged[root].operand /\ q.ran = tagged[root].ran
        /\ q.owner = tagged[root].owner
        /\ q.value = tagged[root].value /\ q.shape = tagged[root].shape
        /\ q.summary = meet
    BY <1>5, <2>2 DEF NodeRecord
  <2>. HIDE DEF q
  <2>. QED
    BY <1>6, <2>1, <2>3 DEF q
<1>8. \A m \in Node : OwnerScope(m, node', function) = OwnerScope(m, tagged, function)
  BY <1>7 DEF OwnerScope
<1>9. Class(meta, n) \subseteq Node
  BY RootIsNode, LiveNodesAreNodes DEF ClassInv
<1>10. meet = Meet(Class(meta, n), node', function)
  BY <1>3, <1>8, <1>9 DEF Meet
<1>11. /\ function' \in [Function -> FunctionRecord]
       /\ \A g \in Function : g # f => function'[g] = function[g]
       /\ function'[f].status = function[f].status
       /\ function'[f].block = function[f].block
       /\ function'[f].scope = function[f].scope
       /\ function'[f].nodes = function[f].nodes \cup {n}
  <2>1. function' = [function EXCEPT ![f] = [function[f] EXCEPT !.nodes = function[f].nodes \cup {n}]]
    BY <1>4
  <2>2. function[f] \in FunctionRecord
    BY DEF TypeOK
  <2>. DEFINE q == [function[f] EXCEPT !.nodes = function[f].nodes \cup {n}]
  <2>3. /\ q \in FunctionRecord
        /\ q.status = function[f].status /\ q.block = function[f].block
        /\ q.scope = function[f].scope /\ q.nodes = function[f].nodes \cup {n}
    BY <2>2 DEF FunctionRecord
  <2>. HIDE DEF q
  <2>. QED
    BY <2>1, <2>3 DEF TypeOK, q
<1>12. LiveNode' = LiveNode /\ LiveFunction' = LiveFunction
  <2>1. \A m \in Node : node'[m].status = node[m].status
    BY <1>6, <1>7
  <2>2. LiveNode' = LiveNode
    BY <2>1 DEF LiveNode
  <2>3. LiveFunction' = LiveFunction
    BY <1>11 DEF LiveFunction
  <2>. QED
    BY <2>2, <2>3
<1>13. /\ f \in LiveFunction /\ n \in LiveNode /\ node[n].owner = None /\ Idle
       /\ meta' = Find(meta, n) /\ UNCHANGED <<block, asserts, walk>>
  BY <1>4
<1>14. \A m \in Node :
                 /\ node'[m].status = node[m].status /\ node'[m].block = node[m].block
                 /\ node'[m].value = node[m].value /\ node'[m].operand = node[m].operand
                 /\ node'[m].ran = node[m].ran /\ node'[m].shape = node[m].shape
                 /\ node'[m].owner = IF m = n THEN f ELSE node[m].owner
                 /\ node'[m].summary = IF m = Root(meta, n)
                                       THEN Meet(Class(meta, n), node', function)
                                       ELSE node[m].summary
  BY <1>2, <1>6, <1>7, <1>10
<1>. QED
  BY <1>7, <1>11, <1>12, <1>13, <1>14

LEMMA UnifyFields ==
    ASSUME TypeOK, ClassInv, NEW a \in Node, NEW b \in Node, Unify(a, b)
    PROVE  /\ node' \in [Node -> NodeRecord]
           /\ a \in LiveNode /\ b \in LiveNode /\ Root(meta, a) # Root(meta, b) /\ Idle
           /\ node[a].value # None /\ node[b].value # None
                 => MayAgree(node[a].value, node[b].value)
           /\ \A n \in Node :
                 /\ node'[n].status = node[n].status /\ node'[n].block = node[n].block
                 /\ node'[n].operand = node[n].operand
                 /\ node'[n].ran = node[n].ran /\ node'[n].owner = node[n].owner
                 /\ node'[n].value =
                       IF node[n].value # None THEN node[n].value
                       ELSE IF node[a].value = None /\ n \in Class(meta, a)
                            THEN node[b].value
                       ELSE IF node[b].value = None /\ n \in Class(meta, b)
                            THEN node[a].value
                       ELSE None
           /\ \E rep \in {Root(meta, a), Root(meta, b)} :
                 /\ \A x \in LiveNode : Root(meta', x) =
                       IF Root(meta, x) \in {Root(meta, a), Root(meta, b)} THEN rep
                       ELSE Root(meta, x)
                 /\ \A n \in Node : n # rep => /\ node'[n].shape = node[n].shape
                                               /\ node'[n].summary = node[n].summary
                 /\ node'[rep].shape =
                       Refined(Refined(node[rep].shape, node[Root(meta, a)].shape),
                               node[Root(meta, b)].shape)
                 /\ node'[rep].summary = node[Root(meta, a)].summary
                                            \cap node[Root(meta, b)].summary
           /\ LiveNode' = LiveNode
           /\ UNCHANGED <<block, function, asserts, walk>> /\ BoundaryHolds'
<1>1. PICK va, vb : va = node[a].value /\ vb = node[b].value
  OBVIOUS
<1>2. PICK ra, rb : ra = Root(meta, a) /\ rb = Root(meta, b)
  OBVIOUS
<1>3. /\ a \in LiveNode /\ b \in LiveNode /\ ra # rb /\ Idle
      /\ va # None /\ vb # None => MayAgree(va, vb)
      /\ meta' = Union(meta, a, b)
      /\ UNCHANGED <<block, function, asserts, walk>> /\ BoundaryHolds'
  BY <1>1, <1>2 DEF Unify
<1>4. ra \in Node /\ rb \in Node
  BY <1>2, RootIsNode, LiveNodesAreNodes DEF ClassInv
<1>5. PICK rep \in {ra, rb} :
         \A x \in LiveNode : Root(meta', x) =
            IF Root(meta, x) \in {ra, rb} THEN rep ELSE Root(meta, x)
  <2>1. ClassesOf(meta, LiveNode) /\ LiveNode \in SUBSET Node
    BY LiveNodesAreNodes DEF ClassInv
  <2>2. \E rep : JoinedAt(rep, meta, Union(meta, a, b), LiveNode, a, b)
    BY <1>3, <2>1, UnionJoinsClasses
  <2>3. PICK rep : JoinedAt(rep, meta, meta', LiveNode, a, b)
    BY <1>3, <2>2
  <2>. QED
    BY <1>2, <2>3 DEF JoinedAt
<1>6. rep = Root(meta', a)
  BY <1>2, <1>3, <1>5
<1>. DEFINE filled(n) == CASE va = None /\ vb # None -> Filled(n, Members(meta, ra), vb)
                           [] va # None /\ vb = None -> Filled(n, Members(meta, rb), va)
                           [] OTHER -> node[n].value
            met == node[ra].summary \cap node[rb].summary
            refined(n) == Refined(Refined(node[n].shape, node[ra].shape), node[rb].shape)
<1>7. node' = [n \in Node |->
              IF n = rep
              THEN [node[n] EXCEPT !.value = filled(n), !.summary = met,
                                   !.shape = refined(n)]
              ELSE [node[n] EXCEPT !.value = filled(n)]]
  BY <1>1, <1>2, <1>3, <1>6 DEF Unify
<1>8. ASSUME NEW n \in Node
      PROVE  /\ filled(n) = IF node[n].value # None THEN node[n].value
                            ELSE IF va = None /\ n \in Class(meta, a) THEN vb
                            ELSE IF vb = None /\ n \in Class(meta, b) THEN va
                            ELSE None
             /\ filled(n) \in Value \cup {None}
  <2>1. /\ Members(meta, ra) = Class(meta, a) /\ Members(meta, rb) = Class(meta, b)
        /\ {node[n].value, va, vb} \subseteq Value \cup {None}
    BY <1>1, <1>2 DEF Class, TypeOK, NodeRecord
  <2>2. CASE va = None /\ vb # None
    BY <2>1, <2>2 DEF Filled
  <2>3. CASE va # None /\ vb = None
    BY <2>1, <2>3 DEF Filled
  <2>4. CASE va = None <=> vb = None
    BY <2>1, <2>4
  <2>. QED
    BY <2>2, <2>3, <2>4
<1>9. ASSUME NEW n \in Node
      PROVE  refined(n) \in Tag \cup {None} /\ met \in SUBSET Function
  BY <1>4 DEF Refined, TypeOK, NodeRecord
<1>. HIDE DEF filled, met, refined
<1>10. ASSUME NEW n \in Node
       PROVE  /\ node'[n] \in NodeRecord
              /\ node'[n].status = node[n].status /\ node'[n].block = node[n].block
              /\ node'[n].operand = node[n].operand
              /\ node'[n].ran = node[n].ran /\ node'[n].owner = node[n].owner
              /\ node'[n].value = filled(n)
              /\ n # rep => /\ node'[n].shape = node[n].shape
                            /\ node'[n].summary = node[n].summary
              /\ n = rep => node'[n].shape = refined(n) /\ node'[n].summary = met
  <2>1. node[n] \in NodeRecord
    BY DEF TypeOK
  <2>2. CASE n = rep
    <3>1. node'[n] = [node[n] EXCEPT !.value = filled(n), !.summary = met,
                                     !.shape = refined(n)]
      BY <1>7, <2>2
    <3>2. PICK r \in NodeRecord, v \in Value \cup {None}, u \in SUBSET Function,
               s \in Tag \cup {None} :
             r = node[n] /\ v = filled(n) /\ u = met /\ s = refined(n)
      BY <1>8, <1>9, <2>1
    <3>3. node'[n] = [r EXCEPT !.value = v, !.summary = u, !.shape = s]
      BY <3>1, <3>2
    <3>4. /\ node'[n] \in NodeRecord
          /\ node'[n].status = r.status /\ node'[n].block = r.block
          /\ node'[n].operand = r.operand
          /\ node'[n].ran = r.ran /\ node'[n].owner = r.owner
          /\ node'[n].value = v /\ node'[n].shape = s /\ node'[n].summary = u
      BY <3>3 DEF NodeRecord
    <3>. QED
      BY <2>2, <3>2, <3>4
  <2>3. CASE n # rep
    <3>1. node'[n] = [node[n] EXCEPT !.value = filled(n)]
      BY <1>7, <2>3
    <3>2. PICK r \in NodeRecord, v \in Value \cup {None} : r = node[n] /\ v = filled(n)
      BY <1>8, <2>1
    <3>3. node'[n] = [r EXCEPT !.value = v]
      BY <3>1, <3>2
    <3>4. /\ node'[n] \in NodeRecord
          /\ node'[n].status = r.status /\ node'[n].block = r.block
          /\ node'[n].operand = r.operand
          /\ node'[n].ran = r.ran /\ node'[n].owner = r.owner
          /\ node'[n].value = v /\ node'[n].shape = r.shape /\ node'[n].summary = r.summary
      BY <3>3 DEF NodeRecord
    <3>. QED
      BY <2>3, <3>2, <3>4
  <2>. QED
    BY <2>2, <2>3
<1>11. node' \in [Node -> NodeRecord]
  BY <1>7, <1>10
<1>12. LiveNode' = LiveNode
  BY <1>10 DEF LiveNode
<1>13. \A n \in Node : node'[n].value = IF node[n].value # None THEN node[n].value
                            ELSE IF va = None /\ n \in Class(meta, a) THEN vb
                            ELSE IF vb = None /\ n \in Class(meta, b) THEN va
                            ELSE None
  BY <1>8, <1>10
<1>14. /\ \A n \in Node : n # rep => /\ node'[n].shape = node[n].shape
                                     /\ node'[n].summary = node[n].summary
       /\ node'[rep].shape = refined(rep) /\ node'[rep].summary = met
  BY <1>4, <1>10
<1>. QED
  BY <1>1, <1>2, <1>3, <1>5, <1>10, <1>11, <1>12, <1>13, <1>14 DEF refined, met

LEMMA AnswerIsValue ==
    ASSUME TypeOK, NEW n \in LiveNode, Owes(n), NEW v \in Answer(n)
    PROVE  /\ v \in Value /\ v # None
           /\ \/ v.items = {} \/ v.items = {node[n].operand}
              \/ v = node[node[n].operand].value
           /\ v.function = None \/ v = node[node[n].operand].value
<1>1. node[n].operand \in Node /\ node[n].block \in Block \cup {None}
  BY DEF TypeOK, NodeRecord, Owes, LiveNode
<1>2. CASE v = Scalar
  BY <1>2, NoneIsNoValue DEF Scalar, Value, Tag
<1>3. CASE v \in {Array({}, node[n].block), Array({node[n].operand}, node[n].block)}
  BY <1>1, <1>3, NoneIsNoValue DEF Array, Value, Tag
<1>4. CASE v \in {node[node[n].operand].value} \ {None}
  BY <1>1, <1>4 DEF TypeOK, NodeRecord
<1>. QED
  BY <1>2, <1>3, <1>4 DEF Answer

LEMMA RunFields ==
    ASSUME TypeOK, ClassInv, NEW n \in LiveNode, Owes(n), NEW v \in Answer(n) \cup {None},
           Run(n, v)
    PROVE  /\ node' \in [Node -> NodeRecord] /\ Idle
           /\ \A m \in Node :
                 /\ node'[m].status = node[m].status /\ node'[m].block = node[m].block
                 /\ node'[m].operand = node[m].operand /\ node'[m].owner = node[m].owner
                 /\ node'[m].summary = node[m].summary
                 /\ node'[m].ran = (node[m].ran \/ m = n)
                 /\ node'[m].value = IF v # None /\ node[n].value = None
                                        /\ m \in Class(meta, n)
                                     THEN v ELSE node[m].value
                 /\ \/ node'[m].shape = node[m].shape
                    \/ /\ v # None /\ node[n].value = None
                       /\ m = Root(meta, n) /\ node'[m].shape = Refined(node[m].shape, Observed(v))
           /\ LiveNode' = LiveNode
           /\ meta' = Find(meta, n) \/ meta' = meta
           /\ UNCHANGED <<block, function, asserts, walk>> /\ BoundaryHolds'
<1>. DEFINE writes == v # None /\ node[n].value = None
            alone == Class(meta, n) = {n}
            value(m) == IF writes /\ m \in Class(meta, n) THEN v ELSE node[m].value
            shape(m) == IF writes /\ m = Root(meta, n) /\ ~alone
                        THEN Refined(node[m].shape, Observed(v)) ELSE node[m].shape
            ran(m) == node[m].ran \/ m = n
<1>1. /\ node' = [m \in Node |-> [node[m] EXCEPT !.ran = ran(m), !.value = value(m),
                                                 !.shape = shape(m)]]
      /\ Idle /\ UNCHANGED <<block, function, asserts, walk>> /\ BoundaryHolds'
      /\ meta' = Find(meta, n) \/ meta' = meta
  BY DEF Run
<1>2. ASSUME NEW m \in Node
      PROVE  /\ value(m) \in Value \cup {None} /\ shape(m) \in Tag \cup {None}
             /\ ran(m) \in BOOLEAN
  <2>1. node[m].value \in Value \cup {None} /\ node[m].shape \in Tag \cup {None}
    BY DEF TypeOK, NodeRecord
  <2>2. v \in Value \cup {None}
    BY AnswerIsValue
  <2>3. Observed(v) \in Tag \cup {None}
    BY DEF Observed, Tag
  <2>. QED
    BY <2>1, <2>2, <2>3 DEF Refined
<1>3. ASSUME NEW m \in Node
      PROVE  \/ shape(m) = node[m].shape
             \/ /\ v # None /\ node[n].value = None
                /\ m = Root(meta, n) /\ shape(m) = Refined(node[m].shape, Observed(v))
  OBVIOUS
<1>4. ASSUME NEW m \in Node
      PROVE  /\ node'[m] \in NodeRecord
             /\ node'[m].status = node[m].status /\ node'[m].block = node[m].block
             /\ node'[m].operand = node[m].operand /\ node'[m].owner = node[m].owner
             /\ node'[m].summary = node[m].summary /\ node'[m].ran = ran(m)
             /\ node'[m].value = value(m) /\ node'[m].shape = shape(m)
  <2>. HIDE DEF ran, value, shape
  <2>1. node[m] \in NodeRecord
    BY DEF TypeOK
  <2>2. node'[m] = [node[m] EXCEPT !.ran = ran(m), !.value = value(m), !.shape = shape(m)]
    BY <1>1
  <2>3. PICK r \in NodeRecord, w \in Value \cup {None}, s \in Tag \cup {None},
             t \in BOOLEAN :
           r = node[m] /\ w = value(m) /\ s = shape(m) /\ t = ran(m)
    BY <1>2, <2>1
  <2>4. node'[m] = [r EXCEPT !.ran = t, !.value = w, !.shape = s]
    BY <2>2, <2>3
  <2>5. /\ node'[m] \in NodeRecord
        /\ node'[m].status = r.status /\ node'[m].block = r.block
        /\ node'[m].operand = r.operand /\ node'[m].ran = t /\ node'[m].owner = r.owner
        /\ node'[m].value = w /\ node'[m].shape = s /\ node'[m].summary = r.summary
    BY <2>4 DEF NodeRecord
  <2>. QED
    BY <2>3, <2>5
<1>. HIDE DEF shape, ran
<1>5. node' \in [Node -> NodeRecord]
  BY <1>1, <1>4
<1>6. LiveNode' = LiveNode
  BY <1>4 DEF LiveNode
<1>7. \A m \in Node : \/ node'[m].shape = node[m].shape
                      \/ /\ v # None /\ node[n].value = None /\ m = Root(meta, n)
                         /\ node'[m].shape = Refined(node[m].shape, Observed(v))
  BY <1>3, <1>4
<1>8. \A m \in Node : node'[m].ran = (node[m].ran \/ m = n)
  BY <1>4 DEF ran
<1>. QED
  BY <1>1, <1>4, <1>5, <1>6, <1>7, <1>8

\* Two slots that differ in the payload's arena at most.
SameSlot(v, w) ==
    /\ v = None <=> w = None
    /\ v # None => v.tag = w.tag /\ v.items = w.items /\ v.function = w.function

LEMMA EdgesAreNodes ==
    ASSUME TypeOK, ClassInv, NEW n \in Node
    PROVE  /\ Edges(n) \subseteq Node /\ Root(meta, n) \in Node
           /\ WalkedFunctions(n) \subseteq Function
<1>1. Root(meta, n) \in Node /\ Class(meta, n) \subseteq Node
  BY RootIsNode, LiveNodesAreNodes DEF ClassInv
<1>2. /\ node[n].value # None => node[n].value.items \subseteq Node
      /\ node[n].value # None => node[n].value.function \in Function \cup {None}
  BY DEF TypeOK, NodeRecord, Value
<1>3. Owes(n) => node[n].operand \in Node
  BY DEF TypeOK, NodeRecord, Owes
<1>4. WalkedFunctions(n) \subseteq Function
  BY <1>2 DEF WalkedFunctions
<1>5. \A f \in WalkedFunctions(n) : function[f].nodes \subseteq Node
  BY <1>4 DEF TypeOK, FunctionRecord
<1>6. UNION {function[f].nodes : f \in WalkedFunctions(n)} \subseteq Node
  BY <1>5
<1>7. (IF Owes(n) THEN {node[n].operand} ELSE {}) \subseteq Node
  BY <1>3
<1>8. (IF node[n].value = None THEN {} ELSE node[n].value.items) \subseteq Node
  BY <1>2
<1>9. ClassWalk(n) \subseteq Node
  BY <1>1 DEF ClassWalk
<1>. QED
  BY <1>1, <1>4, <1>6, <1>7, <1>8, <1>9 DEF Edges

LEMMA VisitNodes ==
    ASSUME TypeOK, ClassInv, NEW n \in Node, Visit(n)
    PROVE  /\ node' \in [Node -> NodeRecord] /\ LiveNode' = LiveNode
           /\ \A m \in Node :
                 /\ node'[m].status = node[m].status /\ node'[m].operand = node[m].operand
                 /\ node'[m].ran = node[m].ran /\ node'[m].owner = node[m].owner
                 /\ node'[m].shape = node[m].shape /\ node'[m].summary = node[m].summary
                 /\ node'[m].block = IF m = n /\ Inside(n) THEN walk.target
                                     ELSE node[m].block
                 /\ SameSlot(node[m].value, node'[m].value)
                 /\ m # n /\ m \notin Relocated(n) => node'[m] = node[m]
                 /\ m = n /\ ~Inside(n) => node'[m] = node[m]
                 /\ (m = n /\ Inside(n)) \/ m \in Relocated(n) =>
                       (node[m].value # None /\ node[m].value.tag = "array"
                           => node'[m].value.arena = node'[m].block)
<1>. DEFINE Moved(r) == [r EXCEPT !.block = walk.target, !.value = Reallocated(@, walk.target)]
            Kept(r) == [r EXCEPT !.value = Reallocated(@, r.block)]
<1>1. walk.target \in Block \cup {None}
  BY DEF TypeOK, Walk
<1>2. ASSUME NEW v \in Value \cup {None}, NEW b \in Block \cup {None}
      PROVE  /\ Reallocated(v, b) \in Value \cup {None}
             /\ SameSlot(v, Reallocated(v, b))
             /\ v # None /\ v.tag = "array" => Reallocated(v, b).arena = b
  <2>1. CASE v \in Value
    BY <2>1, ValueFields DEF SameSlot
  <2>2. CASE v = None
    BY <2>2 DEF SameSlot, Reallocated
  <2>. QED
    BY <2>1, <2>2
<1>3. ASSUME NEW r \in NodeRecord
      PROVE  /\ Moved(r) \in NodeRecord
             /\ Moved(r).status = r.status /\ Moved(r).operand = r.operand
             /\ Moved(r).ran = r.ran /\ Moved(r).owner = r.owner
             /\ Moved(r).shape = r.shape /\ Moved(r).summary = r.summary
             /\ Moved(r).block = walk.target /\ SameSlot(r.value, Moved(r).value)
             /\ r.value # None /\ r.value.tag = "array"
                   => Moved(r).value.arena = walk.target
  <2>1. r.value \in Value \cup {None}
    BY DEF NodeRecord
  <2>2. PICK w : w = Reallocated(r.value, walk.target)
    OBVIOUS
  <2>3. /\ w \in Value \cup {None} /\ SameSlot(r.value, w)
        /\ r.value # None /\ r.value.tag = "array" => w.arena = walk.target
    BY <1>1, <1>2, <2>1, <2>2
  <2>4. Moved(r) = [r EXCEPT !.block = walk.target, !.value = w]
    BY <2>2
  <2>. HIDE DEF Moved
  <2>5. /\ Moved(r) \in NodeRecord
        /\ Moved(r).status = r.status /\ Moved(r).operand = r.operand
        /\ Moved(r).ran = r.ran /\ Moved(r).owner = r.owner
        /\ Moved(r).shape = r.shape /\ Moved(r).summary = r.summary
        /\ Moved(r).block = walk.target /\ Moved(r).value = w
    BY <1>1, <2>3, <2>4 DEF NodeRecord
  <2>. QED
    BY <2>3, <2>5
<1>4. ASSUME NEW r \in NodeRecord
      PROVE  /\ Kept(r) \in NodeRecord
             /\ Kept(r).status = r.status /\ Kept(r).operand = r.operand
             /\ Kept(r).ran = r.ran /\ Kept(r).owner = r.owner
             /\ Kept(r).shape = r.shape /\ Kept(r).summary = r.summary
             /\ Kept(r).block = r.block /\ SameSlot(r.value, Kept(r).value)
             /\ r.value # None /\ r.value.tag = "array"
                   => Kept(r).value.arena = r.block
  <2>1. r.value \in Value \cup {None} /\ r.block \in Block \cup {None}
    BY DEF NodeRecord
  <2>2. PICK w : w = Reallocated(r.value, r.block)
    OBVIOUS
  <2>3. /\ w \in Value \cup {None} /\ SameSlot(r.value, w)
        /\ r.value # None /\ r.value.tag = "array" => w.arena = r.block
    BY <1>2, <2>1, <2>2
  <2>4. Kept(r) = [r EXCEPT !.value = w]
    BY <2>2
  <2>. HIDE DEF Kept
  <2>5. /\ Kept(r) \in NodeRecord
        /\ Kept(r).status = r.status /\ Kept(r).operand = r.operand
        /\ Kept(r).ran = r.ran /\ Kept(r).owner = r.owner
        /\ Kept(r).shape = r.shape /\ Kept(r).summary = r.summary
        /\ Kept(r).block = r.block /\ Kept(r).value = w
    BY <2>3, <2>4 DEF NodeRecord
  <2>. QED
    BY <2>3, <2>5
<1>5. node' = [m \in Node |-> CASE m = n /\ Inside(n) -> Moved(node[m])
                                [] m \in Relocated(n) -> Kept(node[m])
                                [] OTHER -> node[m]]
  BY DEF Visit
<1>. HIDE DEF Moved, Kept
<1>6. \A m \in Node : node[m] \in NodeRecord /\ SameSlot(node[m].value, node[m].value)
  BY DEF TypeOK, SameSlot
<1>7. n \notin Relocated(n)
  BY DEF Relocated, ClassWalk
<1>8. ASSUME NEW m \in Node
      PROVE  /\ m = n /\ Inside(n) => node'[m] = Moved(node[m])
             /\ m \in Relocated(n) => node'[m] = Kept(node[m])
             /\ m # n /\ m \notin Relocated(n) => node'[m] = node[m]
             /\ m = n /\ ~Inside(n) => node'[m] = node[m]
  BY <1>5, <1>7
<1>9. ASSUME NEW m \in Node
      PROVE  /\ node'[m] \in NodeRecord
             /\ node'[m].status = node[m].status /\ node'[m].operand = node[m].operand
             /\ node'[m].ran = node[m].ran /\ node'[m].owner = node[m].owner
             /\ node'[m].shape = node[m].shape /\ node'[m].summary = node[m].summary
             /\ node'[m].block = IF m = n /\ Inside(n) THEN walk.target
                                 ELSE node[m].block
             /\ SameSlot(node[m].value, node'[m].value)
             /\ (m = n /\ Inside(n)) \/ m \in Relocated(n) =>
                   (node[m].value # None /\ node[m].value.tag = "array"
                       => node'[m].value.arena = node'[m].block)
  <2>1. CASE m = n /\ Inside(n)
    BY <1>3, <1>6, <1>8, <2>1
  <2>2. CASE m \in Relocated(n)
    BY <1>4, <1>6, <1>7, <1>8, <2>2
  <2>3. CASE ~(m = n /\ Inside(n)) /\ m \notin Relocated(n)
    BY <1>6, <1>8, <2>3
  <2>. QED
    BY <2>1, <2>2, <2>3
<1>10. node' \in [Node -> NodeRecord]
  BY <1>5, <1>9
<1>11. LiveNode' = LiveNode
  BY <1>9 DEF LiveNode
<1>. QED
  BY <1>8, <1>9, <1>10, <1>11

LEMMA VisitRest ==
    ASSUME TypeOK, ClassInv, NEW n \in Node, Visit(n)
    PROVE  /\ function' \in [Function -> FunctionRecord]
           /\ \A f \in Function :
                 /\ function'[f].status = function[f].status
                 /\ function'[f].nodes = function[f].nodes
                 /\ function'[f].scope = function[f].scope
                 /\ function'[f].block =
                       IF f \in WalkedFunctions(n)
                             /\ Descends(function[f].block, walk.source)
                       THEN walk.target ELSE function[f].block
           /\ LiveFunction' = LiveFunction
           /\ walk' \in Walk
           /\ walk'.stage = walk.stage /\ walk'.source = walk.source
           /\ walk'.target = walk.target
           /\ walk'.grey = walk.grey \cup Edges(n)
           /\ walk'.black = walk.black \cup {n}
           /\ walk'.classes = walk.classes \cup {Root(meta, n)}
           /\ walk'.entries = (IF Root(meta, n) \in walk.classes THEN walk.entries
                               ELSE walk.entries \cup {n})
           /\ walk'.moved = (IF Inside(n) THEN walk.moved \cup {n} ELSE walk.moved)
           /\ n \in walk.grey \ walk.black
           /\ meta' = Find(meta, n) /\ UNCHANGED <<block, asserts>>
<1>1. /\ n \in walk.grey \ walk.black
      /\ meta' = Find(meta, n) /\ UNCHANGED <<block, asserts>>
  BY DEF Visit
<1>2. walk.target \in Block \cup {None} /\ walk \in Walk
  BY DEF TypeOK, Walk
<1>3. ASSUME NEW f \in Function
      PROVE  LET q == [function[f] EXCEPT !.block = walk.target]
             IN  /\ q \in FunctionRecord /\ q.block = walk.target
                 /\ q.status = function[f].status /\ q.nodes = function[f].nodes
                 /\ q.scope = function[f].scope
  <2>1. function[f] \in FunctionRecord
    BY DEF TypeOK
  <2>. QED
    BY <1>2, <2>1 DEF FunctionRecord
<1>. DEFINE Moving(f) == f \in WalkedFunctions(n) /\ Descends(function[f].block, walk.source)
            Moved(f) == [function[f] EXCEPT !.block = walk.target]
<1>4. function' = [f \in Function |-> IF Moving(f) THEN Moved(f) ELSE function[f]]
  BY DEF Visit
<1>5. ASSUME NEW f \in Function
      PROVE  /\ function'[f] \in FunctionRecord
             /\ function'[f].status = function[f].status
             /\ function'[f].nodes = function[f].nodes
             /\ function'[f].scope = function[f].scope
             /\ function'[f].block = IF Moving(f) THEN walk.target ELSE function[f].block
  <2>. HIDE DEF Moving
  <2>1. CASE Moving(f)
    <3>1. function'[f] = Moved(f)
      BY <1>4, <2>1
    <3>. QED
      BY <1>3, <2>1, <3>1
  <2>2. CASE ~Moving(f)
    BY <1>4, <2>2 DEF TypeOK
  <2>. QED
    BY <2>1, <2>2
<1>6. LiveFunction' = LiveFunction
  BY <1>5 DEF LiveFunction
<1>7. function' \in [Function -> FunctionRecord]
  <2>. HIDE DEF Moving, Moved
  <2>. QED
    BY <1>4, <1>5
<1>8. PICK g, c, e, m :
         /\ walk' = [walk EXCEPT !.grey = g, !.black = walk.black \cup {n},
                                 !.classes = c, !.entries = e, !.moved = m]
         /\ g = walk.grey \cup Edges(n)
         /\ c = walk.classes \cup {Root(meta, n)}
         /\ e = IF Root(meta, n) \in walk.classes THEN walk.entries
                ELSE walk.entries \cup {n}
         /\ m = IF Inside(n) THEN walk.moved \cup {n} ELSE walk.moved
  BY DEF Visit
<1>9. {g, c, e, m} \subseteq SUBSET Node
  BY <1>2, <1>8, EdgesAreNodes DEF Walk
<1>10. /\ walk' \in Walk
       /\ walk'.stage = walk.stage /\ walk'.source = walk.source
       /\ walk'.target = walk.target
       /\ walk'.grey = g /\ walk'.black = walk.black \cup {n}
       /\ walk'.classes = c /\ walk'.entries = e /\ walk'.moved = m
  BY <1>2, <1>8, <1>9 DEF Walk
<1>. QED
  BY <1>1, <1>5, <1>6, <1>7, <1>8, <1>10

LEMMA SurvivorFields ==
    ASSUME TypeOK, ClassInv, NEW n \in Node
    PROVE  /\ Survivor(n) \in NodeRecord
           /\ Survivor(n).status = node[n].status /\ Survivor(n).block = node[n].block
           /\ Survivor(n).operand = node[n].operand /\ Survivor(n).ran = node[n].ran
           /\ Survivor(n).owner = node[n].owner
           /\ \/ Survivor(n).value = node[n].value
              \/ /\ node[n].value = None
                 /\ \E m \in Class(meta, n) : node[m].value # None
           /\ Survivor(n).shape =
                 IF Root(meta, n) \in Flattened /\ FlattenedMeta[n].parent = None
                 THEN Refined(node[n].shape, node[Root(meta, n)].shape)
                 ELSE node[n].shape
           /\ Survivor(n).summary =
                 IF n \in Refreshed
                 THEN Meet(Class(FlattenedMeta, n), node, ReleasedFunctions)
                 ELSE node[n].summary
<1>. DEFINE old == Root(meta, n)
            held == {node[m].value : m \in Survivors(old)} \ {None}
            fills == old \in Flattened /\ node[n].value = None /\ held # {}
            v == IF fills THEN CHOOSE v \in held : TRUE ELSE node[n].value
            heads == old \in Flattened /\ FlattenedMeta[n].parent = None
            s == IF heads THEN Refined(node[n].shape, node[old].shape) ELSE node[n].shape
            u == IF n \in Refreshed
                 THEN Meet(Class(FlattenedMeta, n), node, ReleasedFunctions)
                 ELSE node[n].summary
<1>1. Survivor(n) = [node[n] EXCEPT !.value = v, !.shape = s, !.summary = u]
  BY DEF Survivor
<1>2. /\ old \in Node /\ Class(meta, n) \subseteq Node
      /\ Survivors(old) \subseteq Class(meta, n)
  BY RootIsNode, LiveNodesAreNodes DEF ClassInv, Survivors, Class
<1>3. \A m \in Node : node[m] \in NodeRecord
  BY DEF TypeOK
<1>4. \A w \in held : w \in Value /\ w # None /\ \E m \in Class(meta, n) : node[m].value = w
  BY <1>2, <1>3 DEF NodeRecord
<1>5. /\ v \in Value \cup {None}
      /\ v = node[n].value \/ (node[n].value = None
                                 /\ \E m \in Class(meta, n) : node[m].value # None)
  <2>1. CASE fills
    <3>1. v \in held
      BY <2>1
    <3>. QED
      BY <1>4, <2>1, <3>1
  <2>2. CASE ~fills
    BY <1>3, <2>2 DEF NodeRecord
  <2>. QED
    BY <2>1, <2>2
<1>6. s \in Tag \cup {None}
  BY <1>2, <1>3 DEF NodeRecord, Refined
<1>7. u \in SUBSET Function
  BY <1>3 DEF NodeRecord, Meet
<1>. HIDE DEF v, s, u
<1>8. /\ Survivor(n) \in NodeRecord
      /\ Survivor(n).status = node[n].status /\ Survivor(n).block = node[n].block
      /\ Survivor(n).operand = node[n].operand /\ Survivor(n).ran = node[n].ran
      /\ Survivor(n).owner = node[n].owner
      /\ Survivor(n).value = v /\ Survivor(n).shape = s /\ Survivor(n).summary = u
  <2>1. PICK r \in NodeRecord : r = node[n]
    BY <1>3
  <2>2. Survivor(n) = [r EXCEPT !.value = v, !.shape = s, !.summary = u]
    BY <1>1, <2>1
  <2>3. /\ Survivor(n) \in NodeRecord
        /\ Survivor(n).status = r.status /\ Survivor(n).block = r.block
        /\ Survivor(n).operand = r.operand /\ Survivor(n).ran = r.ran
        /\ Survivor(n).owner = r.owner
        /\ Survivor(n).value = v /\ Survivor(n).shape = s /\ Survivor(n).summary = u
    BY <1>5, <1>6, <1>7, <2>2 DEF NodeRecord
  <2>. QED
    BY <2>1, <2>3
<1>9. s = IF Root(meta, n) \in Flattened /\ FlattenedMeta[n].parent = None
          THEN Refined(node[n].shape, node[Root(meta, n)].shape)
          ELSE node[n].shape
  BY DEF s
<1>10. u = IF n \in Refreshed
           THEN Meet(Class(FlattenedMeta, n), node, ReleasedFunctions)
           ELSE node[n].summary
  BY DEF u
<1>. QED
  BY <1>5, <1>8, <1>9, <1>10

LEMMA DropFields ==
    ASSUME TypeOK, ClassInv, DropBlock
    PROVE  /\ node' \in [Node -> NodeRecord] /\ function' \in [Function -> FunctionRecord]
           /\ LiveNode' = LiveNode \ DoomedNodes
           /\ LiveBlock' = LiveBlock \ DoomedBlocks
           /\ LiveFunction' = LiveFunction \ DoomedFunctions
           /\ \A n \in LiveNode' : node'[n] = Survivor(n)
           /\ \A n \in Node \ LiveNode' : node'[n] \in {AbsentNode("released"), node[n]}
           /\ \A b \in Block \ DoomedBlocks : block'[b] = block[b]
           /\ \A f \in Function : function'[f] =
                 IF f \in DoomedFunctions THEN AbsentFunction("released") ELSE function[f]
           /\ walk' = NoWalk /\ meta' = FlattenedMeta
           /\ walk.stage = "templates" /\ walk.grey \subseteq walk.black
<1>1. /\ node' = [n \in Node |-> CASE n \in DoomedNodes -> AbsentNode("released")
                                   [] n \in LiveNode \ DoomedNodes -> Survivor(n)
                                   [] OTHER -> node[n]]
      /\ block' = [b \in Block |-> IF b \in DoomedBlocks THEN AbsentBlock("released")
                                   ELSE block[b]]
      /\ function' = [f \in Function |-> IF f \in DoomedFunctions
                                         THEN AbsentFunction("released")
                                         ELSE function[f]]
      /\ walk' = NoWalk /\ meta' = FlattenedMeta
      /\ walk.stage = "templates" /\ walk.grey \subseteq walk.black
  BY DEF DropBlock, ReleasedFunctions, WalkedOut
<1>2. AbsentNode("released") \in NodeRecord /\ AbsentNode("released").status = "released"
  BY DEF AbsentNode, NodeRecord, Status
<1>3. /\ AbsentFunction("released") \in FunctionRecord
      /\ AbsentFunction("released").status = "released"
      /\ AbsentBlock("released").status = "released"
  BY DEF AbsentFunction, FunctionRecord, AbsentBlock, Status
<1>4. \A n \in Node : node[n] \in NodeRecord
  BY DEF TypeOK
<1>5. \A n \in Node : /\ node'[n] \in NodeRecord
                      /\ n \in DoomedNodes => node'[n] = AbsentNode("released")
                      /\ n \in LiveNode \ DoomedNodes => node'[n] = Survivor(n)
                      /\ n \notin LiveNode /\ n \notin DoomedNodes => node'[n] = node[n]
  BY <1>1, <1>2, <1>4, SurvivorFields
<1>6. LiveNode' = LiveNode \ DoomedNodes
  <2>1. ASSUME NEW n \in Node
        PROVE  node'[n].status = "live" <=> n \in LiveNode /\ n \notin DoomedNodes
    <3>1. CASE n \in DoomedNodes
      BY <1>2, <1>5, <3>1
    <3>2. CASE n \in LiveNode \ DoomedNodes
      BY <1>5, <3>2, SurvivorFields DEF LiveNode
    <3>3. CASE n \notin LiveNode /\ n \notin DoomedNodes
      BY <1>5, <3>3 DEF LiveNode
    <3>. QED
      BY <3>1, <3>2, <3>3
  <2>. QED
    BY <2>1 DEF LiveNode
<1>7. LiveBlock' = LiveBlock \ DoomedBlocks
  BY <1>1, <1>3 DEF LiveBlock, DoomedBlocks
<1>8. LiveFunction' = LiveFunction \ DoomedFunctions
  BY <1>1, <1>3 DEF LiveFunction, DoomedFunctions
<1>9. function' \in [Function -> FunctionRecord]
  BY <1>1, <1>3 DEF TypeOK
<1>10. node' \in [Node -> NodeRecord]
  BY <1>1, <1>5
<1>11. LiveNode \subseteq Node
  BY DEF LiveNode
<1>12. /\ \A n \in LiveNode' : node'[n] = Survivor(n)
       /\ \A n \in Node \ LiveNode' : node'[n] \in {AbsentNode("released"), node[n]}
  BY <1>5, <1>6, <1>11
<1>. QED
  BY <1>1, <1>6, <1>7, <1>8, <1>9, <1>10, <1>12

\* The remaining steps of a collect.
LEMMA RootsFields ==
    ASSUME TypeOK, AssertRoots \/ TemplateRoots
    PROVE  /\ walk' \in Walk
           /\ walk'.source = walk.source /\ walk'.target = walk.target
           /\ walk'.black = walk.black /\ walk'.classes = walk.classes
           /\ walk'.entries = walk.entries /\ walk'.moved = walk.moved
           /\ walk.grey \subseteq walk'.grey /\ walk'.grey \subseteq walk.grey \cup LiveNode
           /\ ~Idle /\ ~Idle'
           /\ UNCHANGED <<node, meta, block, function, asserts>>
<1>1. walk \in Walk /\ asserts \subseteq Node /\ LiveNode \subseteq Node
  BY DEF TypeOK, LiveNode
<1>2. PICK s \in {"asserts", "templates"}, g \in SUBSET LiveNode :
         walk' = [walk EXCEPT !.stage = s, !.grey = walk.grey \cup g]
  <2>1. CASE AssertRoots
    <3>1. PICK g : g = {n \in asserts \cap LiveNode : Inside(n)}
      OBVIOUS
    <3>2. walk' = [walk EXCEPT !.stage = "asserts", !.grey = walk.grey \cup g]
      BY <2>1, <3>1 DEF AssertRoots
    <3>. QED
      BY <3>1, <3>2
  <2>2. CASE TemplateRoots
    <3>1. PICK g : g = {n \in LiveNode :
                             /\ Inside(n)
                             /\ node[n].owner \in LiveFunction
                             /\ ~Descends(function[node[n].owner].block, walk.source)}
      OBVIOUS
    <3>2. walk' = [walk EXCEPT !.stage = "templates", !.grey = walk.grey \cup g]
      BY <2>2, <3>1 DEF TemplateRoots
    <3>. QED
      BY <3>1, <3>2
  <2>. QED
    BY <2>1, <2>2
<1>3. /\ walk' \in Walk /\ walk'.stage = s
      /\ walk'.source = walk.source /\ walk'.target = walk.target
      /\ walk'.black = walk.black /\ walk'.classes = walk.classes
      /\ walk'.entries = walk.entries /\ walk'.moved = walk.moved
      /\ walk'.grey = walk.grey \cup g
  BY <1>1, <1>2 DEF Walk, Stage
<1>4. walk.stage \in {"root", "asserts"} /\ UNCHANGED <<node, meta, block, function, asserts>>
  BY DEF AssertRoots, TemplateRoots
<1>. QED
  BY <1>2, <1>3, <1>4 DEF Idle

LEMMA CollectFields ==
    ASSUME TypeOK, IInv, NEW r \in Node, Collect(r)
    PROVE  /\ Idle /\ ~Idle' /\ r \in LiveNode
           /\ block[node[r].block].root = r /\ block[node[r].block].parent # None
           /\ walk' \in Walk /\ walk'.stage = "root"
           /\ walk'.source = node[r].block /\ walk'.target = block[node[r].block].parent
           /\ walk'.grey = {r} /\ walk'.black = {} /\ walk'.classes = {}
           /\ walk'.entries = {} /\ walk'.moved = {}
           /\ \A b \in Block : /\ block'[b].status = block[b].status
                               /\ block'[b].parent = block[b].parent
                               /\ block'[b].line = block[b].line
                               /\ block'[b].root = IF b = node[r].block THEN None
                                                   ELSE block[b].root
           /\ UNCHANGED <<node, meta, function, asserts>>
<1>1. PICK source : source = node[r].block
  OBVIOUS
<1>2. /\ Idle /\ r \in LiveNode
      /\ block[source].root = r /\ block[source].parent # None
      /\ block' = [block EXCEPT ![source].root = None]
      /\ walk' = [NoWalk EXCEPT !.stage = "root", !.source = source,
                                !.target = block[source].parent, !.grey = {r}]
      /\ UNCHANGED <<node, meta, function, asserts>>
  BY <1>1 DEF Collect
<1>3. /\ walk'.stage = "root" /\ walk'.source = source
      /\ walk'.target = block[source].parent
      /\ walk'.grey = {r} /\ walk'.black = {} /\ walk'.classes = {}
      /\ walk'.entries = {} /\ walk'.moved = {}
  BY <1>2 DEF NoWalk
<1>4. \A b \in Block : block[b] \in BlockRecord
  BY DEF TypeOK
<1>5. \A b \in Block : /\ block'[b].status = block[b].status
                       /\ block'[b].parent = block[b].parent
                       /\ block'[b].line = block[b].line
                       /\ block'[b].root = IF b = source THEN None ELSE block[b].root
  BY <1>2, <1>4 DEF TypeOK, BlockRecord
<1>6. source \in Block /\ block[source].parent \in Block \cup {None}
  BY <1>1, <1>2 DEF IInv, LiveBlock, TypeOK, BlockRecord
<1>7. walk' \in Walk
  BY <1>2, <1>6 DEF NoWalk, Walk, Stage
<1>. QED
  BY <1>1, <1>2, <1>3, <1>5, <1>7 DEF Idle

\* A new function, and a new block.
LEMMA BeginFields ==
    ASSUME TypeOK, NEW f \in Function, NEW b \in Block, NEW p \in Function \cup {None},
           BeginFunction(f, b, p)
    PROVE  /\ function' \in [Function -> FunctionRecord]
           /\ Idle /\ b \in LiveBlock /\ function[f].status = "unborn"
           /\ function'[f].status = "live" /\ function'[f].block = b
           /\ function'[f].nodes = {}
           /\ \A g \in Function : g # f => function'[g] = function[g]
           /\ LiveFunction' = LiveFunction \cup {f} /\ f \notin LiveFunction
           /\ UNCHANGED <<node, meta, block, asserts, walk>>
<1>. DEFINE scope == {f} \cup (IF p = None THEN {} ELSE function[p].scope)
            fresh == [status |-> "live", block |-> b, nodes |-> {}, scope |-> scope]
<1>1. /\ function' = [function EXCEPT ![f] = fresh]
      /\ Idle /\ b \in LiveBlock /\ function[f].status = "unborn"
      /\ p \in LiveFunction \cup {None}
      /\ UNCHANGED <<node, meta, block, asserts, walk>>
  BY DEF BeginFunction, FreshKey
<1>2. scope \subseteq Function
  BY DEF TypeOK, FunctionRecord
<1>. HIDE DEF scope
<1>3. fresh \in FunctionRecord
  BY <1>2 DEF FunctionRecord, Status
<1>4. fresh.status = "live" /\ fresh.block = b /\ fresh.nodes = {}
  OBVIOUS
<1>. HIDE DEF fresh
<1>5. /\ function' \in [Function -> FunctionRecord] /\ function'[f] = fresh
      /\ \A g \in Function : g # f => function'[g] = function[g]
  BY <1>1, <1>3 DEF TypeOK
<1>6. LiveFunction' = LiveFunction \cup {f} /\ f \notin LiveFunction
  BY <1>1, <1>4, <1>5 DEF LiveFunction
<1>. QED
  BY <1>1, <1>4, <1>5, <1>6

LEMMA AddBlockFields ==
    ASSUME TypeOK, NEW b \in Block, NEW p \in Block \cup {None}, AddBlock(b, p)
    PROVE  /\ Idle
           /\ p = None \/ p \in LiveBlock
           /\ LiveBlock' = LiveBlock \cup {b} /\ b \notin LiveBlock
           /\ block'[b].status = "live" /\ block'[b].parent = p /\ block'[b].root = None
           /\ block'[b].line = {b} \cup (IF p = None THEN {} ELSE block[p].line)
           /\ \A c \in Block : c # b => block'[c] = block[c]
           /\ UNCHANGED <<node, meta, function, asserts, walk>>
<1>. DEFINE line == {b} \cup (IF p = None THEN {} ELSE block[p].line)
            fresh == [status |-> "live", parent |-> p, root |-> None, line |-> line]
<1>1. /\ block' = [block EXCEPT ![b] = fresh] /\ block[b].status = "unborn"
      /\ Idle
      /\ p = None \/ p \in LiveBlock
      /\ UNCHANGED <<node, meta, function, asserts, walk>>
  BY DEF AddBlock, FreshKey
<1>2. /\ fresh.status = "live" /\ fresh.parent = p /\ fresh.root = None
      /\ fresh.line = line
  OBVIOUS
<1>. HIDE DEF fresh
<1>3. block'[b] = fresh /\ \A c \in Block : c # b => block'[c] = block[c]
  BY <1>1 DEF TypeOK
<1>4. LiveBlock' = LiveBlock \cup {b} /\ b \notin LiveBlock
  BY <1>1, <1>2, <1>3 DEF LiveBlock
<1>. QED
  BY <1>1, <1>2, <1>3, <1>4

LEMMA MarkFields ==
    ASSUME TypeOK, IInv, NEW n \in Node, MarkScopeRoot(n)
    PROVE  /\ Idle /\ n \in LiveNode /\ node[n].block \in Block
           /\ block[node[n].block].root = None /\ block[node[n].block].parent # None
           /\ \A b \in Block : /\ block'[b].status = block[b].status
                               /\ block'[b].parent = block[b].parent
                               /\ block'[b].line = block[b].line
                               /\ block'[b].root = IF b = node[n].block THEN n
                                                   ELSE block[b].root
           /\ UNCHANGED <<node, meta, function, asserts, walk>>
<1>1. PICK home : home = node[n].block
  OBVIOUS
<1>2. /\ Idle /\ n \in LiveNode
      /\ block[home].root = None /\ block[home].parent # None
      /\ block' = [block EXCEPT ![home].root = n]
      /\ UNCHANGED <<node, meta, function, asserts, walk>>
  BY <1>1 DEF MarkScopeRoot
<1>3. \A b \in Block : block[b] \in BlockRecord
  BY DEF TypeOK
<1>4. home \in Block
  BY <1>1, <1>2 DEF IInv, LiveBlock
<1>5. \A b \in Block : /\ block'[b].status = block[b].status
                       /\ block'[b].parent = block[b].parent
                       /\ block'[b].line = block[b].line
                       /\ block'[b].root = IF b = home THEN n ELSE block[b].root
  BY <1>2, <1>3 DEF TypeOK, BlockRecord
<1>. QED
  BY <1>1, <1>2, <1>4, <1>5

-----------------------------------------------------------------------------
(* Types.                                                                  *)

LEMMA TypeAtFirst == Init => TypeOK
<1>. SUFFICES ASSUME Init PROVE TypeOK
  OBVIOUS
<1>1. AbsentNode("unborn") \in NodeRecord
  BY DEF AbsentNode, NodeRecord, Status
<1>2. NoLinks \in Links
  BY DEF NoLinks, Links
<1>3. AbsentBlock("unborn") \in BlockRecord
  BY DEF AbsentBlock, BlockRecord, Status
<1>4. AbsentFunction("unborn") \in FunctionRecord
  BY DEF AbsentFunction, FunctionRecord, Status
<1>5. NoWalk \in Walk
  BY DEF NoWalk, Walk, Stage
<1>. QED
  BY <1>1, <1>2, <1>3, <1>4, <1>5 DEF Init, TypeOK

\* Every step is one of these.
LEMMA Steps ==
    ASSUME Next
    PROVE  \/ \E b \in Block, p \in Block \cup {None} : AddBlock(b, p)
           \/ \E n \in Node, b \in LiveBlock, o \in Node \cup {None} :
                 \E v \in FreshValue(b) \cup {None} : AddNode(n, b, v, o)
           \/ \E n \in Node : MarkScopeRoot(n)
           \/ \E n \in Node : AddAssert(n)
           \/ \E f \in Function, b \in Block, p \in Function \cup {None} :
                 BeginFunction(f, b, p)
           \/ \E f \in Function, n \in Node : Register(f, n)
           \/ \E a, b \in Node : Unify(a, b)
           \/ \E n \in LiveNode : Owes(n) /\ \E v \in Answer(n) \cup {None} : Run(n, v)
           \/ \E n \in Node : Collect(n)
           \/ \E n \in Node : Visit(n)
           \/ AssertRoots \/ TemplateRoots
           \/ DropBlock
  BY DEF Next, Build, Evaluate, End

LEMMA TypeStep ==
    ASSUME TypeOK, IInv, IInv', ClassInv, ClassInv', Next
    PROVE  TypeOK'
<1>1. meta' \in [Node -> Links]
  <2>1. LinksOver(Node) = Links
    BY DEF LinksOver, Links
  <2>. QED
    BY <2>1 DEF ClassInv, ClassesOf, Typed
<1>2. block' \in [Block -> BlockRecord] /\ asserts' \subseteq Node
  BY DEF IInv, RecordsTyped, LiveNode
<1>3. ASSUME node' \in [Node -> NodeRecord], function' \in [Function -> FunctionRecord],
             walk' \in Walk
      PROVE  TypeOK'
  BY <1>1, <1>2, <1>3 DEF TypeOK
<1>4. /\ node \in [Node -> NodeRecord] /\ function \in [Function -> FunctionRecord]
      /\ walk \in Walk
  BY DEF TypeOK
<1>5. CASE \E n \in Node, b \in LiveBlock, o \in Node \cup {None} :
              \E v \in FreshValue(b) \cup {None} : AddNode(n, b, v, o)
  <2>1. PICK n \in Node, b \in LiveBlock, o \in Node \cup {None} :
           \E v \in FreshValue(b) \cup {None} : AddNode(n, b, v, o)
    BY <1>5
  <2>2. PICK v \in FreshValue(b) \cup {None} : AddNode(n, b, v, o)
    BY <2>1
  <2>3. node' \in [Node -> NodeRecord] /\ UNCHANGED <<function, walk>>
    BY <2>2, AddNodeFields
  <2>. QED
    BY <1>3, <1>4, <2>3
<1>6. CASE \E f \in Function, b \in Block, p \in Function \cup {None} :
              BeginFunction(f, b, p)
  BY <1>3, <1>4, <1>6, BeginFields
<1>7. CASE \E f \in Function, n \in Node : Register(f, n)
  BY <1>3, <1>4, <1>7, RegisterFields
<1>8. CASE \E a, b \in Node : Unify(a, b)
  BY <1>3, <1>4, <1>8, UnifyFields
<1>9. CASE \E n \in LiveNode : Owes(n) /\ \E v \in Answer(n) \cup {None} : Run(n, v)
  BY <1>3, <1>4, <1>9, RunFields
<1>10. CASE \E n \in Node : Collect(n)
  BY <1>3, <1>4, <1>10, CollectFields
<1>11. CASE \E n \in Node : Visit(n)
  BY <1>3, <1>11, VisitNodes, VisitRest
<1>12. CASE AssertRoots \/ TemplateRoots
  BY <1>3, <1>4, <1>12, RootsFields
<1>13. CASE DropBlock
  <2>1. NoWalk \in Walk
    BY DEF NoWalk, Walk, Stage
  <2>. QED
    BY <1>3, <1>13, <2>1, DropFields
<1>14. CASE UNCHANGED <<node, function, walk>>
  BY <1>3, <1>4, <1>14
<1>15. CASE \/ \E b \in Block, p \in Block \cup {None} : AddBlock(b, p)
            \/ \E n \in Node : MarkScopeRoot(n)
            \/ \E n \in Node : AddAssert(n)
  BY <1>14, <1>15 DEF AddBlock, MarkScopeRoot, AddAssert
<1>. QED
  BY <1>5, <1>6, <1>7, <1>8, <1>9, <1>10, <1>11, <1>12, <1>13, <1>15, Steps

(***************************************************************************)
(* The records, links and the walk keep their types: no key is written     *)
(* where there is none to write, through merges, answers and collects.     *)
(***************************************************************************)
THEOREM TypeCorrect == Spec => []TypeOK
<1>1. /\ TypeOK /\ IInv /\ IInv' /\ ClassInv /\ ClassInv' /\ [Next]_vars => TypeOK'
  <2>. SUFFICES ASSUME TypeOK, IInv, IInv', ClassInv, ClassInv', [Next]_vars
                PROVE  TypeOK'
    OBVIOUS
  <2>1. CASE Next
    BY <2>1, TypeStep
  <2>2. CASE UNCHANGED vars
    BY <2>2 DEF vars, TypeOK
  <2>. QED
    BY <2>1, <2>2
<1>. QED
  BY TypeAtFirst, Inductive, ClassesInductive, <1>1, PTL DEF Spec

-----------------------------------------------------------------------------
(***************************************************************************)
(* Where things are.  A block's line is the chain of its ancestors; a live *)
(* function is homed in a live block and is what its template's nodes name *)
(* as their owner; once the last roots are taken, every template that      *)
(* survives has been reached.                                              *)
(***************************************************************************)
Lineage ==
    \A b \in LiveBlock :
        /\ block[b].line = {b} \cup (IF block[b].parent = None THEN {}
                                     ELSE block[block[b].parent].line)
        /\ \A c, d \in block[b].line : c \in block[d].line \/ d \in block[c].line

Templates ==
    \A f \in LiveFunction :
        /\ function[f].block \in LiveBlock
        /\ \A n \in function[f].nodes : n \in LiveNode /\ node[n].owner = f

Owners ==
    \A n \in LiveNode :
        node[n].owner # None =>
            /\ function[node[n].owner].status # "unborn"
            /\ node[n].owner \in LiveFunction => n \in function[node[n].owner].nodes

TemplatesReached ==
    walk.stage = "templates" =>
        \A f \in LiveFunction :
            ~Descends(function[f].block, walk.source) =>
                \A n \in function[f].nodes : Inside(n) => n \in walk.grey

Placed == Lineage /\ Templates /\ Owners /\ TemplatesReached /\ (Idle => walk = NoWalk)

\* What the stages before give to the next one.
Base == IInv /\ ClassInv /\ TypeOK

LEMMA SameLineage ==
    ASSUME Base, Lineage,
           \A b \in Block : /\ block'[b].status = block[b].status
                            /\ block'[b].parent = block[b].parent
                            /\ block'[b].line = block[b].line
    PROVE  Lineage' /\ LiveBlock' = LiveBlock
<1>1. LiveBlock' = LiveBlock /\ LiveBlock \subseteq Block
  BY DEF LiveBlock
<1>2. \A b \in LiveBlock : /\ block[b].line \subseteq LiveBlock
                           /\ block[b].parent # None => block[b].parent \in LiveBlock
  BY DEF Base, IInv, BlockTree
<1>. QED
  BY <1>1, <1>2 DEF Lineage

LEMMA LineageKept ==
    ASSUME Base, Lineage, Next
    PROVE  Lineage'
<1>0. /\ LiveBlock \subseteq Block /\ None \notin Block
      /\ \A b \in LiveBlock :
            /\ b \in block[b].line /\ block[b].line \subseteq LiveBlock
            /\ \A c \in block[b].line : block[c].line \subseteq block[b].line
            /\ block[b].parent # None => block[b].parent \in block[b].line
  BY KeysAreKeys DEF Base, IInv, BlockTree, LiveBlock
<1>1. ASSUME NEW b \in Block, NEW p \in Block \cup {None}, AddBlock(b, p)
      PROVE  Lineage'
  <2>1. /\ LiveBlock' = LiveBlock \cup {b} /\ b \notin LiveBlock
        /\ p = None \/ p \in LiveBlock
        /\ block'[b].parent = p
        /\ block'[b].line = {b} \cup (IF p = None THEN {} ELSE block[p].line)
        /\ \A c \in LiveBlock : block'[c] = block[c]
    BY <1>0, <1>1, AddBlockFields DEF Base
  <2>2. ASSUME NEW c \in LiveBlock
        PROVE  /\ block'[c].line = {c} \cup (IF block'[c].parent = None THEN {}
                                             ELSE block'[block'[c].parent].line)
               /\ \A d, e \in block'[c].line : d \in block'[e].line \/ e \in block'[d].line
    <3>1. /\ block[c].line = {c} \cup (IF block[c].parent = None THEN {}
                                       ELSE block[block[c].parent].line)
          /\ \A d, e \in block[c].line : d \in block[e].line \/ e \in block[d].line
      BY DEF Lineage
    <3>2. block[c].parent # None => block[c].parent \in LiveBlock
      BY <1>0
    <3>. QED
      BY <1>0, <2>1, <3>1, <3>2
  <2>3. ASSUME NEW d \in block'[b].line, NEW e \in block'[b].line
        PROVE  d \in block'[e].line \/ e \in block'[d].line
    <3>1. CASE d = b \/ e = b
      BY <3>1
    <3>2. CASE d # b /\ e # b
      <4>1. p \in LiveBlock /\ d \in block[p].line /\ e \in block[p].line
        BY <2>1, <3>2
      <4>2. d \in LiveBlock /\ e \in LiveBlock
        BY <1>0, <4>1
      <4>. QED
        BY <2>1, <4>1, <4>2 DEF Lineage
    <3>. QED
      BY <3>1, <3>2
  <2>4. p # None => block'[p].line = block[p].line
    BY <2>1
  <2>. QED
    BY <2>1, <2>2, <2>3, <2>4 DEF Lineage
<1>2. ASSUME NEW n \in Node, MarkScopeRoot(n) \/ Collect(n)
      PROVE  Lineage'
  <2>1. \A b \in Block : /\ block'[b].status = block[b].status
                         /\ block'[b].parent = block[b].parent
                         /\ block'[b].line = block[b].line
    BY <1>2, MarkFields, CollectFields DEF Base
  <2>. QED
    BY <2>1, SameLineage
<1>3. ASSUME DropBlock
      PROVE  Lineage'
  <2>1. /\ LiveBlock' = LiveBlock \ DoomedBlocks
        /\ \A b \in Block \ DoomedBlocks : block'[b] = block[b]
    BY <1>3, DropFields DEF Base
  <2>2. ASSUME NEW b \in LiveBlock', NEW c \in block[b].line
        PROVE  c \in LiveBlock' /\ block'[c] = block[c]
    BY <1>0, <2>1 DEF DoomedBlocks, Descends
  <2>3. ASSUME NEW b \in LiveBlock'
        PROVE  /\ block'[b] = block[b] /\ b \in LiveBlock
               /\ block[b].parent # None => block'[block[b].parent] = block[block[b].parent]
    BY <1>0, <2>1, <2>2
  <2>4. ASSUME NEW b \in LiveBlock'
        PROVE  /\ block'[b].line = {b} \cup (IF block'[b].parent = None THEN {}
                                             ELSE block'[block'[b].parent].line)
               /\ \A d, e \in block'[b].line : d \in block'[e].line \/ e \in block'[d].line
    <3>1. /\ block[b].line = {b} \cup (IF block[b].parent = None THEN {}
                                       ELSE block[block[b].parent].line)
          /\ \A d, e \in block[b].line : d \in block[e].line \/ e \in block[d].line
      BY <2>3 DEF Lineage
    <3>. QED
      BY <2>2, <2>3, <3>1
  <2>. QED
    BY <2>4 DEF Lineage
<1>4. CASE UNCHANGED block
  BY <1>4, SameLineage
<1>5. \/ UNCHANGED block \/ DropBlock
      \/ \E b \in Block, p \in Block \cup {None} : AddBlock(b, p)
      \/ \E n \in Node : MarkScopeRoot(n) \/ Collect(n)
  BY DEF Next, Build, Evaluate, End, AddNode, AddAssert, BeginFunction, Register,
         Unify, Run, Visit, AssertRoots, TemplateRoots
<1>. QED
  BY <1>1, <1>2, <1>3, <1>4, <1>5

\* Ownership is read from the owners, the lists and who is alive.
LEMMA SameOwners ==
    ASSUME Base, Templates, Owners,
           LiveNode' = LiveNode, LiveFunction' = LiveFunction,
           LiveBlock \subseteq LiveBlock',
           \A n \in LiveNode : node'[n].owner = node[n].owner,
           \A f \in Function : /\ function'[f].status = function[f].status
                               /\ function'[f].nodes = function[f].nodes
                               /\ function'[f].block \in {function[f].block} \cup LiveBlock'
    PROVE  Templates' /\ Owners'
<1>1. LiveFunction \subseteq Function
  BY DEF LiveFunction
<1>2. \A n \in LiveNode : node[n].owner \in Function \cup {None}
  BY DEF Base, TypeOK, NodeRecord, LiveNode
<1>3. Templates'
  BY <1>1 DEF Templates
<1>4. Owners'
  BY <1>2 DEF Owners
<1>. QED
  BY <1>3, <1>4

LEMMA PlacedStep ==
    ASSUME Base, Base', Placed, Next
    PROVE  Placed'
<1>. USE DEF Placed
<1>0. /\ LiveFunction \subseteq Function /\ LiveNode \subseteq Node /\ LiveBlock \subseteq Block
      /\ None \notin Function
      /\ \A n \in LiveNode : node[n].owner \in Function \cup {None}
  BY KeysAreKeys DEF Base, TypeOK, NodeRecord, LiveNode, LiveFunction, LiveBlock
<1>L. Lineage'
  BY LineageKept
<1>W. ASSUME Idle, UNCHANGED walk
      PROVE  TemplatesReached' /\ (Idle' => walk' = NoWalk)
  BY <1>W DEF TemplatesReached, Idle
<1>1. ASSUME NEW b \in Block, NEW p \in Block \cup {None}, AddBlock(b, p)
      PROVE  Placed'
  <2>1. /\ Idle /\ LiveBlock' = LiveBlock \cup {b}
        /\ UNCHANGED <<node, meta, function, asserts, walk>>
    BY <1>1, AddBlockFields DEF Base
  <2>2. LiveNode' = LiveNode /\ LiveFunction' = LiveFunction
    BY <2>1 DEF LiveNode, LiveFunction
  <2>3. Templates' /\ Owners'
    BY <2>1, <2>2, SameOwners
  <2>. QED
    BY <1>L, <1>W, <2>1, <2>3
<1>2. ASSUME NEW n \in Node, NEW b \in LiveBlock, NEW o \in Node \cup {None},
             NEW v \in FreshValue(b) \cup {None}, AddNode(n, b, v, o)
      PROVE  Placed'
  <2>1. /\ \A m \in Node : m # n => node'[m] = node[m]
        /\ LiveNode' = LiveNode \cup {n} /\ n \notin LiveNode /\ node'[n].owner = None
        /\ UNCHANGED <<block, function, asserts, walk>> /\ Idle
    BY <1>2, AddNodeFields DEF Base
  <2>2. LiveFunction' = LiveFunction /\ LiveBlock' = LiveBlock
    BY <2>1 DEF LiveBlock, LiveFunction
  <2>3. \A m \in LiveNode : node'[m] = node[m]
    BY <1>0, <2>1
  <2>4. Templates'
    BY <2>1, <2>2, <2>3 DEF Templates
  <2>5. Owners'
    BY <2>1, <2>2, <2>3 DEF Owners
  <2>. QED
    BY <1>L, <1>W, <2>1, <2>4, <2>5
<1>3. ASSUME NEW n \in Node, MarkScopeRoot(n)
      PROVE  Placed'
  <2>1. /\ Idle /\ UNCHANGED <<node, meta, function, asserts, walk>>
        /\ \A b \in Block : block'[b].status = block[b].status
    BY <1>3, MarkFields DEF Base
  <2>2. LiveNode' = LiveNode /\ LiveFunction' = LiveFunction /\ LiveBlock' = LiveBlock
    BY <2>1 DEF LiveNode, LiveFunction, LiveBlock
  <2>3. Templates' /\ Owners'
    BY <2>1, <2>2, SameOwners
  <2>. QED
    BY <1>L, <1>W, <2>1, <2>3
<1>4. ASSUME NEW n \in Node, AddAssert(n)
      PROVE  Placed'
  <2>1. Idle /\ UNCHANGED <<node, meta, block, function, walk>>
    BY <1>4 DEF AddAssert
  <2>2. LiveNode' = LiveNode /\ LiveFunction' = LiveFunction /\ LiveBlock' = LiveBlock
    BY <2>1 DEF LiveNode, LiveFunction, LiveBlock
  <2>3. Templates' /\ Owners'
    BY <2>1, <2>2, SameOwners
  <2>. QED
    BY <1>L, <1>W, <2>1, <2>3
<1>5. ASSUME NEW f \in Function, NEW b \in Block, NEW p \in Function \cup {None},
             BeginFunction(f, b, p)
      PROVE  Placed'
  <2>1. /\ Idle /\ b \in LiveBlock /\ function[f].status = "unborn"
        /\ function'[f].status = "live" /\ function'[f].block = b
        /\ function'[f].nodes = {}
        /\ \A g \in Function : g # f => function'[g] = function[g]
        /\ LiveFunction' = LiveFunction \cup {f} /\ f \notin LiveFunction
        /\ UNCHANGED <<node, meta, block, asserts, walk>>
    BY <1>5, BeginFields DEF Base
  <2>2. LiveNode' = LiveNode /\ LiveBlock' = LiveBlock
    BY <2>1 DEF LiveNode, LiveBlock
  <2>3. Templates'
    BY <1>0, <2>1, <2>2 DEF Templates
  <2>4. Owners'
    <3>1. ASSUME NEW n \in LiveNode, node[n].owner # None
          PROVE  /\ function'[node[n].owner] = function[node[n].owner]
                 /\ node[n].owner \in LiveFunction' => node[n].owner \in LiveFunction
      <4>1. node[n].owner \in Function /\ function[node[n].owner].status # "unborn"
        BY <1>0, <3>1 DEF Owners
      <4>2. node[n].owner # f
        BY <2>1, <4>1
      <4>. QED
        BY <2>1, <4>1, <4>2
    <3>. QED
      BY <2>1, <2>2, <3>1 DEF Owners
  <2>. QED
    BY <1>L, <1>W, <2>1, <2>3, <2>4
<1>6. ASSUME NEW f \in Function, NEW n \in Node, Register(f, n)
      PROVE  Placed'
  <2>1. /\ f \in LiveFunction /\ n \in LiveNode /\ node[n].owner = None /\ Idle
        /\ \A m \in Node : node'[m].owner = IF m = n THEN f ELSE node[m].owner
        /\ \A g \in Function :
              /\ function'[g].status = function[g].status
              /\ function'[g].block = function[g].block
              /\ function'[g].nodes = IF g = f THEN function[g].nodes \cup {n}
                                      ELSE function[g].nodes
        /\ LiveNode' = LiveNode /\ LiveFunction' = LiveFunction
        /\ UNCHANGED <<block, asserts, walk>>
    <3>1. TypeOK /\ ClassInv /\ Register(f, n)
      BY <1>6 DEF Base
    <3>2. f \in LiveFunction /\ n \in LiveNode /\ node[n].owner = None /\ Idle
      BY <3>1, RegisterFields
    <3>3. \A m \in Node : node'[m].owner = IF m = n THEN f ELSE node[m].owner
      BY <3>1, RegisterFields
    <3>4. /\ \A g \in Function : g # f => function'[g] = function[g]
          /\ function'[f].status = function[f].status
          /\ function'[f].block = function[f].block
          /\ function'[f].nodes = function[f].nodes \cup {n}
      BY <3>1, RegisterFields
    <3>5. /\ LiveNode' = LiveNode /\ LiveFunction' = LiveFunction
          /\ UNCHANGED <<block, asserts, walk>>
      BY <3>1, RegisterFields
    <3>. QED
      BY <3>2, <3>3, <3>4, <3>5
  <2>2. LiveBlock' = LiveBlock
    BY <2>1 DEF LiveBlock
  <2>3. Templates'
    <3>1. ASSUME NEW g \in LiveFunction
          PROVE  /\ function'[g].block \in LiveBlock'
                 /\ \A m \in function'[g].nodes : m \in LiveNode' /\ node'[m].owner = g
      <4>1. /\ function[g].block \in LiveBlock
            /\ \A m \in function[g].nodes : m \in LiveNode /\ node[m].owner = g
        BY DEF Templates
      <4>2. n \notin function[g].nodes
        BY <1>0, <2>1, <4>1
      <4>3. /\ g \in Function /\ function'[g].block = function[g].block
            /\ function'[g].nodes \subseteq function[g].nodes \cup {n}
            /\ n \in function'[g].nodes => g = f
        BY <1>0, <2>1, <4>2
      <4>4. ASSUME NEW m \in function'[g].nodes PROVE m \in LiveNode' /\ node'[m].owner = g
        <5>1. CASE m = n
          BY <1>0, <2>1, <4>3, <5>1
        <5>2. CASE m # n
          BY <1>0, <2>1, <4>1, <4>3, <5>2
        <5>. QED
          BY <5>1, <5>2
      <4>. QED
        BY <2>2, <4>1, <4>3, <4>4
    <3>. QED
      BY <2>1, <3>1 DEF Templates
  <2>4. Owners'
    <3>1. ASSUME NEW m \in LiveNode, node'[m].owner # None
          PROVE  /\ function'[node'[m].owner].status # "unborn"
                 /\ node'[m].owner \in LiveFunction => m \in function'[node'[m].owner].nodes
      <4>1. CASE m = n
        BY <1>0, <2>1, <4>1 DEF LiveFunction
      <4>2. CASE m # n
        <5>1. node'[m].owner = node[m].owner /\ node[m].owner \in Function
          BY <1>0, <2>1, <3>1, <4>2
        <5>2. /\ function[node[m].owner].status # "unborn"
              /\ node[m].owner \in LiveFunction => m \in function[node[m].owner].nodes
          BY <3>1, <5>1 DEF Owners
        <5>. QED
          BY <2>1, <5>1, <5>2
      <4>. QED
        BY <4>1, <4>2
    <3>. QED
      BY <2>1, <3>1 DEF Owners
  <2>. QED
    BY <1>L, <1>W, <2>1, <2>3, <2>4
<1>7. ASSUME \/ \E a, b \in Node : Unify(a, b)
             \/ \E n \in LiveNode : Owes(n) /\ \E v \in Answer(n) \cup {None} : Run(n, v)
      PROVE  Placed'
  <2>1. /\ Idle /\ UNCHANGED <<block, function, asserts, walk>> /\ LiveNode' = LiveNode
        /\ \A n \in Node : node'[n].owner = node[n].owner
    BY <1>7, UnifyFields, RunFields DEF Base
  <2>2. LiveFunction' = LiveFunction /\ LiveBlock' = LiveBlock
    BY <2>1 DEF LiveFunction, LiveBlock
  <2>3. Templates' /\ Owners'
    BY <1>0, <2>1, <2>2, SameOwners
  <2>. QED
    BY <1>L, <1>W, <2>1, <2>3
<1>8. ASSUME NEW r \in Node, Collect(r)
      PROVE  Placed'
  <2>1. /\ ~Idle' /\ walk'.stage = "root" /\ UNCHANGED <<node, meta, function, asserts>>
        /\ \A b \in Block : block'[b].status = block[b].status
    BY <1>8, CollectFields DEF Base
  <2>2. LiveNode' = LiveNode /\ LiveFunction' = LiveFunction /\ LiveBlock' = LiveBlock
    BY <2>1 DEF LiveNode, LiveFunction, LiveBlock
  <2>3. Templates' /\ Owners'
    BY <2>1, <2>2, SameOwners
  <2>4. TemplatesReached'
    BY <2>1 DEF TemplatesReached
  <2>. QED
    BY <1>L, <2>1, <2>3, <2>4
<1>9. ASSUME NEW n \in Node, Visit(n)
      PROVE  Placed'
  <2>1. /\ \A f \in Function :
              /\ function'[f].status = function[f].status
              /\ function'[f].nodes = function[f].nodes
              /\ function'[f].block =
                    IF f \in WalkedFunctions(n) /\ Descends(function[f].block, walk.source)
                    THEN walk.target ELSE function[f].block
        /\ LiveFunction' = LiveFunction
        /\ walk'.stage = walk.stage /\ walk'.source = walk.source
        /\ walk'.grey = walk.grey \cup Edges(n)
        /\ n \in walk.grey \ walk.black /\ UNCHANGED <<block, asserts>>
    BY <1>9, VisitRest DEF Base
  <2>2. /\ LiveNode' = LiveNode
        /\ \A m \in Node : /\ node'[m].owner = node[m].owner
                           /\ node'[m].block = IF m = n /\ Inside(n) THEN walk.target
                                               ELSE node[m].block
    BY <1>9, VisitNodes DEF Base
  <2>3. ~Idle /\ ~Idle'
    BY <2>1 DEF Base, IInv, WalkInOrder, Idle
  <2>4. walk.target \in LiveBlock /\ ~Descends(walk.target, walk.source)
    BY <2>3, TargetOutside DEF Base
  <2>5. LiveBlock' = LiveBlock
    BY <2>1 DEF LiveBlock
  <2>6. Templates' /\ Owners'
    BY <1>0, <2>1, <2>2, <2>4, <2>5, SameOwners
  <2>7. TemplatesReached'
    <3>1. ASSUME walk.stage = "templates", NEW f \in LiveFunction,
                 ~Descends(function[f].block, walk.source)',
                 NEW m \in function[f].nodes, Inside(m)'
          PROVE  m \in walk'.grey
      <4>1. m \in LiveNode /\ m \in Node /\ f \in Function
        BY <1>0 DEF Templates
      <4>2. Inside(m)
        BY <2>1, <2>2, <2>4, <3>1, <4>1 DEF Inside, Descends
      <4>3. CASE f \in WalkedFunctions(n)
        BY <2>1, <4>3 DEF Edges
      <4>4. CASE f \notin WalkedFunctions(n)
        <5>1. ~Descends(function[f].block, walk.source)
          BY <2>1, <3>1, <4>1, <4>4 DEF Descends
        <5>. QED
          BY <2>1, <3>1, <4>2, <5>1 DEF TemplatesReached
      <4>. QED
        BY <4>3, <4>4
    <3>2. \A f \in LiveFunction : function'[f].nodes = function[f].nodes
      BY <1>0, <2>1
    <3>. QED
      BY <2>1, <3>1, <3>2 DEF TemplatesReached
  <2>. QED
    BY <1>L, <2>3, <2>6, <2>7
<1>10. ASSUME AssertRoots \/ TemplateRoots
       PROVE  Placed'
  <2>1. /\ walk'.source = walk.source /\ walk.grey \subseteq walk'.grey
        /\ ~Idle' /\ UNCHANGED <<node, meta, block, function, asserts>>
    BY <1>10, RootsFields DEF Base
  <2>2. LiveNode' = LiveNode /\ LiveFunction' = LiveFunction /\ LiveBlock' = LiveBlock
    BY <2>1 DEF LiveNode, LiveFunction, LiveBlock
  <2>3. Templates' /\ Owners'
    BY <2>1, <2>2, SameOwners
  <2>4. TemplatesReached'
    <3>1. CASE AssertRoots
      <4>1. \E g : walk' = [walk EXCEPT !.stage = "asserts", !.grey = g]
        BY <3>1 DEF AssertRoots
      <4>2. walk'.stage = "asserts"
        BY <4>1 DEF Base, TypeOK, Walk
      <4>. QED
        BY <4>2 DEF TemplatesReached
    <3>2. CASE TemplateRoots
      <4>1. PICK g : g = {n \in LiveNode :
                             /\ Inside(n)
                             /\ node[n].owner \in LiveFunction
                             /\ ~Descends(function[node[n].owner].block, walk.source)}
        OBVIOUS
      <4>2. walk' = [walk EXCEPT !.stage = "templates", !.grey = walk.grey \cup g]
        BY <3>2, <4>1 DEF TemplateRoots
      <4>3. walk'.grey = walk.grey \cup g
        BY <4>2 DEF Base, TypeOK, Walk
      <4>4. ASSUME NEW f \in LiveFunction, ~Descends(function[f].block, walk.source),
                   NEW n \in function[f].nodes, Inside(n)
            PROVE  n \in walk'.grey
        BY <4>1, <4>3, <4>4 DEF Templates
      <4>. QED
        BY <2>1, <2>2, <4>4 DEF TemplatesReached, Inside, Descends
    <3>. QED
      BY <1>10, <3>1, <3>2
  <2>. QED
    BY <1>L, <2>1, <2>3, <2>4
<1>11. ASSUME DropBlock
       PROVE  Placed'
  <2>1. /\ LiveNode' = LiveNode \ DoomedNodes
        /\ LiveBlock' = LiveBlock \ DoomedBlocks
        /\ LiveFunction' = LiveFunction \ DoomedFunctions
        /\ \A n \in LiveNode' : node'[n] = Survivor(n)
        /\ \A f \in Function : function'[f] =
              IF f \in DoomedFunctions THEN AbsentFunction("released") ELSE function[f]
        /\ walk' = NoWalk
        /\ walk.stage = "templates" /\ walk.grey \subseteq walk.black
    BY <1>11, DropFields DEF Base
  <2>2. \A n \in LiveNode' : node'[n].owner = node[n].owner
    BY <1>0, <2>1, SurvivorFields DEF Base
  <2>3. Templates'
    <3>1. ASSUME NEW f \in LiveFunction'
          PROVE  /\ f \in LiveFunction /\ function'[f] = function[f]
                 /\ function[f].block \in LiveBlock'
                 /\ \A n \in function[f].nodes : n \in LiveNode' /\ node[n].owner = f
      <4>1. f \in LiveFunction /\ f \notin DoomedFunctions /\ f \in Function
        BY <1>0, <2>1
      <4>2. function[f].block \in LiveBlock \ DoomedBlocks
        BY <4>1 DEF Templates, DoomedFunctions
      <4>3. ~Descends(function[f].block, walk.source)
        BY <4>2 DEF DoomedBlocks
      <4>4. ASSUME NEW n \in function[f].nodes PROVE n \in LiveNode' /\ node[n].owner = f
        <5>1. n \in LiveNode /\ n \in Node /\ node[n].owner = f
          BY <1>0, <4>1 DEF Templates
        <5>2. Inside(n) => n \in walk.black
          BY <2>1, <4>1, <4>3 DEF TemplatesReached
        <5>3. ~Inside(n)
          BY <2>1, <5>1, <5>2 DEF Base, IInv, WalkInOrder, Idle
        <5>4. n \notin DoomedNodes
          BY <5>3 DEF DoomedNodes, DoomedBlocks, Inside
        <5>. QED
          BY <2>1, <5>1, <5>4
      <4>. QED
        BY <2>1, <4>1, <4>2, <4>4
    <3>. QED
      BY <2>2, <3>1 DEF Templates
  <2>4. Owners'
    <3>1. ASSUME NEW n \in LiveNode', node[n].owner # None
          PROVE  /\ function'[node[n].owner].status # "unborn"
                 /\ node[n].owner \in LiveFunction' => n \in function'[node[n].owner].nodes
      <4>1. n \in LiveNode /\ node[n].owner \in Function
        BY <1>0, <2>1, <3>1
      <4>2. /\ function[node[n].owner].status # "unborn"
            /\ node[n].owner \in LiveFunction => n \in function[node[n].owner].nodes
        BY <3>1, <4>1 DEF Owners
      <4>3. AbsentFunction("released").status = "released"
        BY DEF AbsentFunction
      <4>. QED
        BY <2>1, <4>1, <4>2, <4>3
    <3>. QED
      BY <2>2, <3>1 DEF Owners
  <2>5. TemplatesReached' /\ walk' = NoWalk
    BY <2>1 DEF TemplatesReached, NoWalk
  <2>. QED
    BY <1>L, <2>3, <2>4, <2>5
<1>. QED
  BY <1>1, <1>2, <1>3, <1>4, <1>5, <1>6, <1>7, <1>8, <1>9, <1>10, <1>11, Steps

LEMMA PlacedInductive == Spec => [](Base /\ Placed)
<1>1. Init => Placed
  <2>. SUFFICES ASSUME Init PROVE Placed
    OBVIOUS
  <2>1. LiveBlock = {} /\ LiveFunction = {} /\ LiveNode = {} /\ walk = NoWalk
    BY DEF Init, LiveBlock, LiveFunction, LiveNode, AbsentBlock, AbsentFunction, AbsentNode
  <2>. QED
    BY <2>1 DEF Placed, Lineage, Templates, Owners, TemplatesReached, NoWalk
<1>2. Base /\ Base' /\ Placed /\ [Next]_vars => Placed'
  <2>. SUFFICES ASSUME Base, Base', Placed, [Next]_vars PROVE Placed'
    OBVIOUS
  <2>1. CASE Next
    BY <2>1, PlacedStep
  <2>2. CASE UNCHANGED vars
    BY <2>2 DEF vars, Placed, Lineage, Templates, Owners, TemplatesReached, LiveBlock,
                LiveFunction, LiveNode, Inside, Descends, Idle
  <2>. QED
    BY <2>1, <2>2
<1>3. Spec => []Base
  BY Inductive, ClassesInductive, TypeCorrect, PTL DEF Base
<1>. QED
  BY <1>1, <1>2, <1>3, PTL DEF Spec

-----------------------------------------------------------------------------
(* A class is decided as a whole.                                          *)

\* Both without a value, or with values of one kind.
OfAKind(v, w) ==
    /\ v = None <=> w = None
    /\ v # None => v.tag = w.tag

DecidedOf(nodes, links, live) ==
    \A n, m \in live : Root(links, n) = Root(links, m)
                          => OfAKind(nodes[n].value, nodes[m].value)

LEMMA KindsAreEquivalence ==
    /\ \A v : OfAKind(v, v)
    /\ \A v, w : OfAKind(v, w) => OfAKind(w, v)
    /\ \A u, v, w : OfAKind(u, v) /\ OfAKind(v, w) => OfAKind(u, w)
  BY DEF OfAKind

\* A step that writes no value and joins no classes.
LEMMA DecidedKept ==
    ASSUME NEW nodes, NEW links, NEW live, DecidedOf(nodes, links, live),
           NEW nodes2, NEW links2, NEW live2, live2 \subseteq live,
           \A n \in live2 : SameSlot(nodes[n].value, nodes2[n].value),
           \A x, y \in live2 : Root(links2, x) = Root(links2, y)
                                  <=> Root(links, x) = Root(links, y)
    PROVE  DecidedOf(nodes2, links2, live2)
<1>1. ASSUME NEW n \in live2, NEW m \in live2, Root(links2, n) = Root(links2, m)
      PROVE  OfAKind(nodes2[n].value, nodes2[m].value)
  <2>1. PICK v, w, v2, w2 : /\ v = nodes[n].value /\ w = nodes[m].value
                            /\ v2 = nodes2[n].value /\ w2 = nodes2[m].value
    OBVIOUS
  <2>2. OfAKind(v, w)
    BY <1>1, <2>1 DEF DecidedOf
  <2>3. SameSlot(v, v2) /\ SameSlot(w, w2)
    BY <2>1
  <2>4. OfAKind(v2, w2)
    BY <2>2, <2>3 DEF OfAKind, SameSlot
  <2>. QED
    BY <2>1, <2>4
<1>. QED
  BY <1>1 DEF DecidedOf

-----------------------------------------------------------------------------
(***************************************************************************)
(* What a node names, and where that is.  Outside a collect, names respect *)
(* the host's boundary.  During one, what a node inside the scope names is *)
(* inside too or can be named from the target; and a node outside names    *)
(* only what the target outlives it for, and of the scope only what the    *)
(* walk has reached.                                                       *)
(***************************************************************************)
Names(n) ==
    (IF Owes(n) THEN {node[n].operand} ELSE {})
        \cup (IF node[n].value = None THEN {} ELSE node[n].value.items)

FunctionOf(n) == IF node[n].value = None THEN None ELSE node[n].value.function

NamesLive ==
    /\ \A n \in LiveNode : /\ Names(n) \subseteq LiveNode
                           /\ FunctionOf(n) \in LiveFunction \cup {None}
    /\ walk.grey \subseteq LiveNode /\ walk.black \subseteq walk.grey

Bounded(n) ==
    /\ \A m \in Names(n) : MayBeNamed(m, node[n].block)
    /\ FunctionOf(n) # None => Outlives(function[FunctionOf(n)].block, node[n].block)

BoundedInWalk(n) ==
    /\ \A m \in Names(n) :
          /\ Inside(n) => Inside(m) \/ MayBeNamed(m, walk.target)
          /\ ~Inside(n) /\ Inside(m) =>
                m \in walk.grey /\ Outlives(walk.target, node[n].block)
          /\ ~Inside(n) /\ ~Inside(m) => MayBeNamed(m, node[n].block)
    /\ FunctionOf(n) # None =>
          LET home == function[FunctionOf(n)].block
          IN  /\ Inside(n) => Descends(home, walk.source) \/ Outlives(home, walk.target)
              /\ ~Inside(n) => Outlives(home, node[n].block)

Boundary ==
    /\ Idle => \A n \in LiveNode : Bounded(n)
    /\ ~Idle => \A n \in LiveNode : BoundedInWalk(n)

Decided == DecidedOf(node, meta, LiveNode)

Named == NamesLive /\ Boundary /\ Decided

Ground == Base /\ Placed

\* What a visited node leads to is alive.
LEMMA EdgesAreLive ==
    ASSUME Ground, NamesLive, NEW n \in LiveNode
    PROVE  Edges(n) \subseteq LiveNode /\ Names(n) \subseteq Edges(n)
<1>1. n \in Node /\ LiveNode \in SUBSET Node /\ ClassesOf(meta, LiveNode)
  BY LiveNodesAreNodes DEF Ground, Base, ClassInv
<1>2. Class(meta, n) = {x \in LiveNode : Root(meta, x) = Root(meta, n)}
  BY <1>1, RootIsNode
<1>3. ClassWalk(n) \subseteq LiveNode
  BY <1>2 DEF ClassWalk
<1>4. \A f \in WalkedFunctions(n) : f \in LiveFunction
  BY DEF WalkedFunctions, NamesLive, FunctionOf
<1>5. \A f \in WalkedFunctions(n) : function[f].nodes \subseteq LiveNode
  BY <1>4 DEF Ground, Placed, Templates
<1>6. UNION {function[f].nodes : f \in WalkedFunctions(n)} \subseteq LiveNode
  BY <1>5
<1>7. Names(n) \subseteq LiveNode
  BY DEF NamesLive
<1>. QED
  BY <1>3, <1>6, <1>7 DEF Edges, Names

\* No node that a collect is about to keep is inside the scope.
LEMMA SurvivorsAreOutside ==
    ASSUME Ground, NamesLive, DropBlock
    PROVE  /\ \A n \in walk.grey : n \in LiveNode /\ ~Inside(n) /\ n \in LiveNode'
           /\ \A n \in LiveNode : n \in LiveNode' <=> ~Inside(n)
           /\ LiveNode' \subseteq LiveNode
           /\ \A b \in LiveBlock : b \in LiveBlock' <=> ~Descends(b, walk.source)
           /\ \A f \in LiveFunction : f \in LiveFunction'
                                         <=> ~Descends(function[f].block, walk.source)
           /\ ~Idle
<1>1. /\ LiveNode' = LiveNode \ DoomedNodes
      /\ LiveBlock' = LiveBlock \ DoomedBlocks
      /\ LiveFunction' = LiveFunction \ DoomedFunctions
      /\ walk.stage = "templates" /\ walk.grey \subseteq walk.black
  BY DropFields DEF Ground, Base
<1>2. ~Idle
  BY <1>1 DEF Idle
<1>3. \A n \in LiveNode : node[n].block \in LiveBlock
  BY DEF Ground, Base, IInv
<1>4. \A f \in LiveFunction : function[f].block \in LiveBlock
  BY DEF Ground, Placed, Templates
<1>5. \A b \in LiveBlock : b \in LiveBlock' <=> ~Descends(b, walk.source)
  BY <1>1 DEF DoomedBlocks
<1>6. \A n \in LiveNode : n \in LiveNode' <=> ~Inside(n)
  BY <1>1, <1>3 DEF DoomedNodes, DoomedBlocks, Inside
<1>7. \A f \in LiveFunction : f \in LiveFunction' <=> ~Descends(function[f].block, walk.source)
  BY <1>1, <1>4 DEF DoomedFunctions, DoomedBlocks
<1>8. ASSUME NEW n \in walk.grey PROVE n \in LiveNode /\ ~Inside(n)
  <2>1. n \in LiveNode /\ n \in Node /\ n \in walk.black
    BY <1>1 DEF NamesLive, LiveNode
  <2>. QED
    BY <1>2, <2>1 DEF Ground, Base, IInv, WalkInOrder
<1>. QED
  BY <1>1, <1>2, <1>5, <1>6, <1>7, <1>8

\* A collect that ends fills no slot: a class that holds a value holds it in
\* every member.
LEMMA NothingIsFilled ==
    ASSUME Ground, Decided, DropBlock, NEW n \in LiveNode'
    PROVE  /\ n \in LiveNode /\ node'[n].value = node[n].value
           /\ node'[n].operand = node[n].operand /\ node'[n].ran = node[n].ran
           /\ node'[n].block = node[n].block /\ node'[n].owner = node[n].owner
<1>1. /\ n \in LiveNode /\ n \in Node /\ node'[n] = Survivor(n)
  BY DropFields DEF Ground, Base, LiveNode
<1>2. /\ Survivor(n).block = node[n].block
      /\ Survivor(n).operand = node[n].operand /\ Survivor(n).ran = node[n].ran
      /\ Survivor(n).owner = node[n].owner
      /\ \/ Survivor(n).value = node[n].value
         \/ /\ node[n].value = None
            /\ \E m \in Class(meta, n) : node[m].value # None
  BY <1>1, SurvivorFields DEF Ground, Base
<1>3. Class(meta, n) = {x \in LiveNode : Root(meta, x) = Root(meta, n)}
  BY <1>1, RootIsNode, LiveNodesAreNodes DEF Ground, Base, ClassInv
<1>4. ASSUME node[n].value = None, NEW m \in Class(meta, n) PROVE node[m].value = None
  BY <1>1, <1>3, <1>4 DEF Decided, DecidedOf, OfAKind
<1>. QED
  BY <1>1, <1>2, <1>4

-----------------------------------------------------------------------------
\* A slot that changes its payload's arena at most names what it named.
LEMMA SameNames ==
    ASSUME NEW n, node'[n].operand = node[n].operand, node'[n].ran = node[n].ran,
           SameSlot(node[n].value, node'[n].value)
    PROVE  /\ Names(n)' = Names(n) /\ FunctionOf(n)' = FunctionOf(n)
           /\ node[n].value # None => node'[n].value.items = node[n].value.items
<1>1. Owes(n)' <=> Owes(n)
  BY DEF Owes, SameSlot
<1>. QED
  BY <1>1 DEF Names, FunctionOf, SameSlot

\* A step that writes no slot and releases nothing.
LEMMA NamesLiveKept ==
    ASSUME NamesLive, LiveNode' = LiveNode, LiveFunction \subseteq LiveFunction',
           \A n \in LiveNode : /\ node'[n].operand = node[n].operand
                               /\ node'[n].ran = node[n].ran
                               /\ SameSlot(node[n].value, node'[n].value),
           walk'.grey \subseteq LiveNode, walk'.black \subseteq walk'.grey
    PROVE  NamesLive'
<1>1. \A n \in LiveNode : Names(n)' = Names(n) /\ FunctionOf(n)' = FunctionOf(n)
  BY SameNames
<1>2. \A n \in LiveNode : Names(n) \subseteq LiveNode /\ FunctionOf(n) \in LiveFunction \cup {None}
  BY DEF NamesLive
<1>. QED
  BY <1>1, <1>2 DEF NamesLive

LEMMA SameSlotReflexive == \A v : SameSlot(v, v)
  BY DEF SameSlot

\* What outlives a block outside the scope is outside itself.
LEMMA OutlivingIsOutside ==
    ASSUME Base, Lineage, ~Idle, NEW h \in LiveBlock, NEW b \in LiveBlock,
           Outlives(h, b), Descends(h, walk.source)
    PROVE  Descends(b, walk.source)
<1>1. walk.source \in LiveBlock /\ block[walk.source].parent # None
  BY DEF Base, IInv, WalkInOrder
<1>2. CASE block[h].parent = None
  <2>1. block[h].line = {h}
    BY <1>2 DEF Lineage
  <2>. QED
    BY <1>1, <1>2, <2>1 DEF Descends
<1>3. CASE h \in block[b].line
  BY <1>3 DEF Base, IInv, BlockTree, Descends
<1>. QED
  BY <1>2, <1>3 DEF Outlives

\* Naming at another moment, when the blocks concerned have not changed.
LEMMA OutlivesKept ==
    ASSUME NEW h, NEW b, Outlives(h, b),
           block'[h].parent = block[h].parent, block'[b].line = block[b].line
    PROVE  Outlives(h, b)'
  BY DEF Outlives

LEMMA NamingKept ==
    ASSUME Base, NEW m \in LiveNode, NEW b \in LiveBlock, MayBeNamed(m, b),
           node'[m].block = node[m].block, block'[b].line = block[b].line,
           \A c \in block[node[m].block].line : block'[c].parent = block[c].parent,
           block[node[m].block].root = m => block'[node[m].block].root = m
    PROVE  MayBeNamed(m, b)'
<1>1. PICK h \in LiveBlock : h = node[m].block
  BY DEF Base, IInv
<1>2. /\ h \in block[h].line
      /\ block[h].parent # None => block[h].parent \in block[h].line
  BY DEF Base, IInv, BlockTree
<1>3. block'[h].parent = block[h].parent
  BY <1>1, <1>2
<1>4. CASE Outlives(h, b)
  <2>1. Outlives(h, b)'
    BY <1>3, <1>4, OutlivesKept
  <2>. QED
    BY <1>1, <2>1 DEF MayBeNamed
<1>5. CASE block[h].root = m /\ Outlives(block[h].parent, b)
  <2>1. PICK p : p = block[h].parent
    OBVIOUS
  <2>2. p # None /\ p \in block[h].line
    BY <1>2, <1>5, <2>1 DEF Outlives
  <2>3. block'[p].parent = block[p].parent
    BY <1>1, <2>2
  <2>4. Outlives(p, b)'
    BY <1>5, <2>1, <2>3, OutlivesKept
  <2>5. h # None
    BY KeysAreKeys DEF LiveBlock
  <2>. QED
    BY <1>1, <1>3, <1>5, <2>1, <2>4, <2>5 DEF MayBeNamed
<1>. QED
  BY <1>1, <1>4, <1>5 DEF MayBeNamed

-----------------------------------------------------------------------------
\* What is named stays alive.
LEMMA NamesLiveStep ==
    ASSUME Ground, Base', Named, Next
    PROVE  NamesLive'
<1>. USE DEF Ground, Named
<1>0. LiveNode \subseteq Node /\ LiveFunction \subseteq Function
  BY DEF LiveNode, LiveFunction
<1>W. walk.grey \subseteq LiveNode /\ walk.black \subseteq walk.grey
  BY DEF NamesLive
<1>S. \A v : SameSlot(v, v)
  BY SameSlotReflexive
<1>1. ASSUME \/ \E b \in Block, p \in Block \cup {None} : AddBlock(b, p)
             \/ \E n \in Node : MarkScopeRoot(n) \/ AddAssert(n)
             \/ \E f \in Function, b \in Block, p \in Function \cup {None} :
                   BeginFunction(f, b, p)
      PROVE  NamesLive'
  <2>1. UNCHANGED <<node, walk>> /\ LiveFunction \subseteq LiveFunction'
    <3>1. CASE \E b \in Block, p \in Block \cup {None} : AddBlock(b, p)
      BY <3>1 DEF AddBlock, LiveFunction
    <3>2. CASE \E n \in Node : MarkScopeRoot(n) \/ AddAssert(n)
      BY <3>2 DEF MarkScopeRoot, AddAssert, LiveFunction
    <3>3. CASE \E f \in Function, b \in Block, p \in Function \cup {None} :
                  BeginFunction(f, b, p)
      BY <3>3, BeginFields DEF Base
    <3>. QED
      BY <1>1, <3>1, <3>2, <3>3
  <2>2. LiveNode' = LiveNode
    BY <2>1 DEF LiveNode
  <2>. QED
    BY <1>W, <1>S, <2>1, <2>2, NamesLiveKept
<1>2. ASSUME NEW f \in Function, NEW n \in Node, Register(f, n)
      PROVE  NamesLive'
  <2>1. TypeOK /\ ClassInv /\ Register(f, n)
    BY <1>2 DEF Base
  <2>2. /\ LiveNode' = LiveNode /\ LiveFunction' = LiveFunction /\ UNCHANGED walk
        /\ \A m \in Node : /\ node'[m].value = node[m].value
                           /\ node'[m].operand = node[m].operand
                           /\ node'[m].ran = node[m].ran
    BY <2>1, RegisterFields
  <2>. QED
    BY <1>0, <1>W, <1>S, <2>2, NamesLiveKept
<1>3. ASSUME NEW r \in Node, Collect(r)
      PROVE  NamesLive'
  <2>1. /\ UNCHANGED <<node, function>> /\ walk'.grey = {r} /\ walk'.black = {}
        /\ r \in LiveNode
    BY <1>3, CollectFields DEF Base
  <2>2. LiveNode' = LiveNode /\ LiveFunction' = LiveFunction
    BY <2>1 DEF LiveNode, LiveFunction
  <2>. QED
    BY <1>S, <2>1, <2>2, NamesLiveKept
<1>4. ASSUME AssertRoots \/ TemplateRoots
      PROVE  NamesLive'
  <2>1. /\ UNCHANGED <<node, function>> /\ walk'.black = walk.black
        /\ walk.grey \subseteq walk'.grey /\ walk'.grey \subseteq walk.grey \cup LiveNode
    BY <1>4, RootsFields DEF Base
  <2>2. LiveNode' = LiveNode /\ LiveFunction' = LiveFunction
    BY <2>1 DEF LiveNode, LiveFunction
  <2>. QED
    BY <1>S, <1>W, <2>1, <2>2, NamesLiveKept
<1>5. ASSUME NEW n \in Node, Visit(n)
      PROVE  NamesLive'
  <2>1. /\ walk'.grey = walk.grey \cup Edges(n) /\ walk'.black = walk.black \cup {n}
        /\ LiveFunction' = LiveFunction /\ n \in walk.grey
    BY <1>5, VisitRest DEF Base
  <2>2. /\ LiveNode' = LiveNode
        /\ \A m \in Node : /\ node'[m].operand = node[m].operand
                           /\ node'[m].ran = node[m].ran
                           /\ SameSlot(node[m].value, node'[m].value)
    BY <1>5, VisitNodes DEF Base
  <2>3. Edges(n) \subseteq LiveNode
    BY <1>W, <2>1, EdgesAreLive
  <2>. QED
    BY <1>0, <1>W, <2>1, <2>2, <2>3, NamesLiveKept
<1>6. ASSUME NEW n \in Node, NEW b \in LiveBlock, NEW o \in Node \cup {None},
             NEW v \in FreshValue(b) \cup {None}, AddNode(n, b, v, o)
      PROVE  NamesLive'
  <2>1. /\ \A m \in Node : m # n => node'[m] = node[m]
        /\ LiveNode' = LiveNode \cup {n} /\ n \notin LiveNode
        /\ node'[n].value = v /\ node'[n].operand = o
        /\ o \in LiveNode \cup {None} /\ UNCHANGED <<function, walk>>
    BY <1>6, AddNodeFields DEF Base
  <2>2. LiveFunction' = LiveFunction
    BY <2>1 DEF LiveFunction
  <2>3. ASSUME NEW m \in LiveNode
        PROVE  Names(m)' \subseteq LiveNode /\ FunctionOf(m)' \in LiveFunction \cup {None}
    <3>1. node'[m] = node[m]
      BY <1>0, <2>1
    <3>2. Names(m)' = Names(m) /\ FunctionOf(m)' = FunctionOf(m)
      BY <1>S, <3>1, SameNames
    <3>. QED
      BY <3>2 DEF NamesLive
  <2>4. v # None => v.items \subseteq LiveNode /\ v.function \in LiveFunction \cup {None}
    BY FreshIsValue DEF Base
  <2>5. Names(n)' \subseteq LiveNode
    <3>1. Owes(n)' => o \in LiveNode
      BY <2>1 DEF Owes
    <3>. QED
      BY <2>1, <2>4, <3>1 DEF Names
  <2>6. FunctionOf(n)' \in LiveFunction \cup {None}
    BY <2>1, <2>4 DEF FunctionOf
  <2>. QED
    BY <1>W, <2>1, <2>2, <2>3, <2>5, <2>6 DEF NamesLive
<1>7. ASSUME NEW a \in Node, NEW b \in Node, Unify(a, b)
      PROVE  NamesLive'
  <2>1. /\ a \in LiveNode /\ b \in LiveNode /\ LiveNode' = LiveNode
        /\ UNCHANGED <<function, walk>>
        /\ \A n \in Node :
              /\ node'[n].operand = node[n].operand /\ node'[n].ran = node[n].ran
              /\ node'[n].value \in {node[n].value, node[a].value, node[b].value}
              /\ node[n].value # None => node'[n].value = node[n].value
    BY <1>7, UnifyFields DEF Base
  <2>2. LiveFunction' = LiveFunction
    BY <2>1 DEF LiveFunction
  <2>3. ASSUME NEW n \in LiveNode, node[n].value # None
        PROVE  node[n].value.items \subseteq LiveNode
               /\ node[n].value.function \in LiveFunction \cup {None}
    BY <2>3 DEF NamesLive, Names, FunctionOf
  <2>4. ASSUME NEW n \in LiveNode
        PROVE  Names(n)' \subseteq LiveNode /\ FunctionOf(n)' \in LiveFunction \cup {None}
    <3>1. /\ node'[n].operand = node[n].operand /\ node'[n].ran = node[n].ran
          /\ node[n].value # None => node'[n].value = node[n].value
          /\ node'[n].value \in {node[n].value, node[a].value, node[b].value}
      BY <1>0, <2>1
    <3>2. Owes(n)' => Owes(n)
      BY <3>1 DEF Owes
    <3>3. Owes(n)' => node'[n].operand \in LiveNode
      BY <3>1, <3>2 DEF NamesLive, Names
    <3>4. node'[n].value # None => /\ node'[n].value.items \subseteq LiveNode
                                   /\ node'[n].value.function \in LiveFunction \cup {None}
      BY <2>1, <2>3, <3>1
    <3>. QED
      BY <3>3, <3>4 DEF Names, FunctionOf
  <2>. QED
    BY <1>W, <2>1, <2>2, <2>4 DEF NamesLive
<1>8. ASSUME NEW n \in LiveNode, Owes(n), NEW v \in Answer(n) \cup {None}, Run(n, v)
      PROVE  NamesLive'
  <2>1. /\ LiveNode' = LiveNode /\ UNCHANGED <<function, walk>>
        /\ \A m \in Node :
              /\ node'[m].operand = node[m].operand
              /\ node'[m].ran = (node[m].ran \/ m = n)
              /\ \/ node'[m].value = node[m].value
                 \/ v # None /\ node'[m].value = v
    BY <1>8, RunFields DEF Base
  <2>V. \A m \in Node : node'[m].value = None => node[m].value = None
    <3>1. \A m \in Node : node'[m].value = IF v # None /\ node[n].value = None
                                              /\ m \in Class(meta, n)
                                           THEN v ELSE node[m].value
      BY <1>8, RunFields DEF Base
    <3>. QED
      BY <3>1
  <2>2. LiveFunction' = LiveFunction
    BY <2>1 DEF LiveFunction
  <2>3. ASSUME NEW m \in LiveNode, node[m].value # None
        PROVE  node[m].value.items \subseteq LiveNode
               /\ node[m].value.function \in LiveFunction \cup {None}
    BY <2>3 DEF NamesLive, Names, FunctionOf
  <2>4. node[n].operand \in LiveNode
    BY <1>8 DEF NamesLive, Names
  <2>5. v # None => v.items \subseteq LiveNode /\ v.function \in LiveFunction \cup {None}
    <3>1. ASSUME v # None
          PROVE  /\ v # None
                 /\ \/ v.items = {} \/ v.items = {node[n].operand}
                    \/ v = node[node[n].operand].value
                 /\ v.function = None \/ v = node[node[n].operand].value
      BY <1>8, <3>1, AnswerIsValue DEF Base
    <3>. QED
      BY <2>3, <2>4, <3>1
  <2>6. ASSUME NEW m \in LiveNode
        PROVE  Names(m)' \subseteq LiveNode /\ FunctionOf(m)' \in LiveFunction \cup {None}
    <3>1. /\ node'[m].operand = node[m].operand
          /\ node'[m].ran = (node[m].ran \/ m = n)
          /\ node'[m].value = None => node[m].value = None
          /\ node'[m].value = node[m].value \/ (v # None /\ node'[m].value = v)
      BY <1>0, <2>1, <2>V
    <3>2. Owes(m)' => Owes(m)
      BY <3>1 DEF Owes
    <3>3. Owes(m)' => node'[m].operand \in LiveNode
      BY <3>1, <3>2 DEF NamesLive, Names
    <3>4. node'[m].value # None => /\ node'[m].value.items \subseteq LiveNode
                                   /\ node'[m].value.function \in LiveFunction \cup {None}
      BY <2>3, <2>5, <3>1
    <3>. QED
      BY <3>3, <3>4 DEF Names, FunctionOf
  <2>. QED
    BY <1>W, <2>1, <2>2, <2>6 DEF NamesLive
<1>9. ASSUME DropBlock
      PROVE  NamesLive'
  <2>1. /\ \A n \in walk.grey : ~Inside(n)
        /\ \A n \in LiveNode : n \in LiveNode' <=> ~Inside(n)
        /\ LiveNode' \subseteq LiveNode
        /\ \A f \in LiveFunction : f \in LiveFunction'
                                      <=> ~Descends(function[f].block, walk.source)
        /\ ~Idle /\ walk' = NoWalk
    BY <1>9, SurvivorsAreOutside, DropFields DEF Base
  <2>2. ASSUME NEW n \in LiveNode'
        PROVE  Names(n)' \subseteq LiveNode' /\ FunctionOf(n)' \in LiveFunction' \cup {None}
    <3>1. /\ n \in LiveNode /\ node'[n].value = node[n].value
          /\ node'[n].operand = node[n].operand /\ node'[n].ran = node[n].ran
      BY <1>9, NothingIsFilled
    <3>2. Names(n)' = Names(n) /\ FunctionOf(n)' = FunctionOf(n)
      BY <1>S, <3>1, SameNames
    <3>3. /\ ~Inside(n) /\ BoundedInWalk(n)
          /\ Names(n) \subseteq LiveNode /\ FunctionOf(n) \in LiveFunction \cup {None}
      BY <2>1, <3>1 DEF Boundary, NamesLive
    <3>4. ASSUME NEW m \in Names(n) PROVE m \in LiveNode'
      <4>1. m \in LiveNode /\ (Inside(m) => m \in walk.grey)
        BY <3>3 DEF BoundedInWalk
      <4>. QED
        BY <2>1, <4>1
    <3>5. ASSUME FunctionOf(n) # None PROVE FunctionOf(n) \in LiveFunction'
      <4>1. PICK f \in LiveFunction : f = FunctionOf(n)
        BY <3>3, <3>5
      <4>2. Outlives(function[f].block, node[n].block)
        BY <3>3, <3>5, <4>1 DEF BoundedInWalk
      <4>3. function[f].block \in LiveBlock /\ node[n].block \in LiveBlock
        BY <3>1 DEF Base, IInv, Placed, Templates
      <4>4. ~Descends(function[f].block, walk.source)
        BY <2>1, <3>3, <4>2, <4>3, OutlivingIsOutside DEF Placed, Inside
      <4>. QED
        BY <2>1, <4>1, <4>4
    <3>. QED
      BY <3>2, <3>4, <3>5
  <2>. QED
    BY <2>1, <2>2 DEF NamesLive, NoWalk
<1>. QED
  BY <1>1, <1>2, <1>3, <1>4, <1>5, <1>6, <1>7, <1>8, <1>9, Steps

-----------------------------------------------------------------------------
\* A step outside a collect that keeps what a node names, and where that is.
LEMMA BoundedKept ==
    ASSUME Ground, NamesLive, NEW n \in LiveNode, Bounded(n),
           Names(n)' = Names(n), FunctionOf(n)' = FunctionOf(n),
           \A m \in LiveNode : node'[m].block = node[m].block,
           \A f \in LiveFunction : function'[f].block = function[f].block,
           \A b \in LiveBlock : /\ block'[b].parent = block[b].parent
                                /\ block'[b].line = block[b].line
                                /\ block[b].root \in Node => block'[b].root = block[b].root
    PROVE  Bounded(n)'
<1>1. PICK b \in LiveBlock : b = node[n].block
  BY DEF Ground, Base, IInv
<1>2. Names(n) \subseteq LiveNode /\ FunctionOf(n) \in LiveFunction \cup {None}
  BY DEF NamesLive
<1>3. ASSUME NEW m \in Names(n) PROVE MayBeNamed(m, b)'
  <2>1. m \in LiveNode /\ m \in Node /\ node[m].block \in LiveBlock /\ MayBeNamed(m, b)
    BY <1>1, <1>2 DEF Bounded, LiveNode, Ground, Base, IInv
  <2>2. block[node[m].block].line \subseteq LiveBlock
    BY <2>1 DEF Ground, Base, IInv, BlockTree
  <2>3. \A c \in block[node[m].block].line : block'[c].parent = block[c].parent
    BY <2>2
  <2>. QED
    BY <1>1, <2>1, <2>3, NamingKept DEF Ground
<1>4. ASSUME FunctionOf(n) # None PROVE Outlives(function[FunctionOf(n)].block, b)'
  <2>1. PICK f \in LiveFunction : f = FunctionOf(n)
    BY <1>2, <1>4
  <2>2. PICK h \in LiveBlock : h = function[f].block
    BY DEF Ground, Placed, Templates
  <2>3. Outlives(h, b)'
    BY <1>1, <1>4, <2>1, <2>2, OutlivesKept DEF Bounded
  <2>4. function'[FunctionOf(n)].block = h
    BY <2>1, <2>2
  <2>. QED
    BY <2>3, <2>4
<1>5. node'[n].block = b
  BY <1>1
<1>. QED
  BY <1>3, <1>4, <1>5 DEF Bounded

\* BoundedInWalk after a step, from what holds for the values it reads then.
LEMMA WalkBoundPrimed ==
    ASSUME NEW n, NEW s, NEW t, NEW b,
           s = walk'.source, t = walk'.target, b = node'[n].block,
           \A m \in Names(n)' :
              /\ Inside(n)' => Inside(m)' \/ MayBeNamed(m, t)'
              /\ ~Inside(n)' /\ Inside(m)' => m \in walk'.grey /\ Outlives(t, b)'
              /\ ~Inside(n)' /\ ~Inside(m)' => MayBeNamed(m, b)',
           FunctionOf(n)' # None =>
              \E h : /\ h = function'[FunctionOf(n)'].block
                     /\ Inside(n)' => Descends(h, s)' \/ Outlives(h, t)'
                     /\ ~Inside(n)' => Outlives(h, b)'
    PROVE  BoundedInWalk(n)'
<1>1. ASSUME NEW m \in Names(n)'
      PROVE  (/\ Inside(n) => Inside(m) \/ MayBeNamed(m, walk.target)
              /\ ~Inside(n) /\ Inside(m) =>
                    m \in walk.grey /\ Outlives(walk.target, node[n].block)
              /\ ~Inside(n) /\ ~Inside(m) => MayBeNamed(m, node[n].block))'
  BY DEF MayBeNamed, Outlives
<1>2. ASSUME FunctionOf(n)' # None
      PROVE  (LET home == function[FunctionOf(n)].block
              IN  /\ Inside(n) => Descends(home, walk.source) \/ Outlives(home, walk.target)
                  /\ ~Inside(n) => Outlives(home, node[n].block))'
  BY <1>2 DEF Descends, Outlives
<1>. QED
  BY <1>1, <1>2 DEF BoundedInWalk

\* A collect starts: what respected the boundary respects it towards the scope.
LEMMA BoundaryAtCollect ==
    ASSUME Ground, NamesLive, Boundary, NEW r \in Node, Collect(r)
    PROVE  \A n \in LiveNode : BoundedInWalk(n)'
<1>. USE DEF Ground
<1>1. PICK s \in LiveBlock : s = node[r].block
  BY CollectFields DEF Base, IInv
<1>2. PICK t \in LiveBlock : t = block[s].parent
  BY <1>1, CollectFields DEF Base, IInv, BlockTree
<1>3. /\ Idle /\ block[s].root = r /\ block[s].parent # None
      /\ walk'.source = s /\ walk'.target = t /\ walk'.grey = {r}
      /\ UNCHANGED <<node, function>>
      /\ \A b \in LiveBlock : /\ block'[b].parent = block[b].parent
                              /\ block'[b].line = block[b].line
                              /\ b # s => block'[b].root = block[b].root
  BY <1>1, <1>2, CollectFields DEF Base, LiveBlock
<1>4. /\ \A b \in LiveBlock : /\ b \in block[b].line /\ block[b].line \subseteq LiveBlock
                              /\ \A c \in block[b].line : block[c].line \subseteq block[b].line
      /\ block[s].line = {s} \cup block[t].line
      /\ \A b \in LiveBlock : block[b].parent = None => block[b].line = {b}
      /\ \A b \in LiveBlock : block[b].parent # None =>
            /\ block[b].parent \in LiveBlock
            /\ block[b].line = {b} \cup block[block[b].parent].line
  <2>1. \A b \in LiveBlock :
           /\ b \in block[b].line /\ block[b].line \subseteq LiveBlock
           /\ \A c \in block[b].line : block[c].line \subseteq block[b].line
           /\ block[b].parent # None => block[b].parent \in block[b].line
    BY DEF Base, IInv, BlockTree
  <2>2. \A b \in LiveBlock :
           block[b].line = {b} \cup (IF block[b].parent = None THEN {}
                                     ELSE block[block[b].parent].line)
    BY DEF Placed, Lineage
  <2>. QED
    BY <1>2, <1>3, <2>1, <2>2
<1>5. \A b \in LiveBlock : s \in block[b].line =>
         \A c \in block[b].line : s \in block[c].line \/ c = s \/ c \in block[t].line
  <2>1. \A b \in LiveBlock : \A c, d \in block[b].line : c \in block[d].line \/ d \in block[c].line
    BY DEF Placed, Lineage
  <2>. QED
    BY <1>4, <2>1
<1>6. \A c, b \in LiveBlock : Outlives(c, b) => Outlives(c, b)'
  BY <1>3, OutlivesKept
<1>7. ASSUME NEW c \in LiveBlock, NEW b \in LiveBlock, Outlives(c, b)
      PROVE  /\ s \in block[b].line => s \in block[c].line \/ Outlives(c, t)'
             /\ s \in block[c].line => s \in block[b].line
  <2>1. c # None
    BY KeysAreKeys DEF LiveBlock
  <2>2. c \in block[b].line \/ block[c].parent = None
    BY <1>7 DEF Outlives
  <2>3. s \in block[b].line => s \in block[c].line \/ Outlives(c, t)
    BY <1>4, <1>5, <2>1, <2>2 DEF Outlives
  <2>4. s \in block[c].line => s \in block[b].line
    BY <1>3, <1>4, <2>2
  <2>. QED
    BY <1>6, <2>3, <2>4
<1>8. ASSUME NEW n \in LiveNode PROVE BoundedInWalk(n)'
  <2>1. PICK b \in LiveBlock : b = node[n].block
    BY DEF Base, IInv
  <2>2. /\ Names(n)' = Names(n) /\ FunctionOf(n)' = FunctionOf(n)
        /\ Names(n) \subseteq LiveNode /\ FunctionOf(n) \in LiveFunction \cup {None}
        /\ Bounded(n) /\ node'[n].block = b
        /\ Inside(n)' <=> s \in block[b].line
    <3>1. Names(n)' = Names(n) /\ FunctionOf(n)' = FunctionOf(n)
      BY <1>3, SameNames, SameSlotReflexive
    <3>2. Inside(n)' <=> s \in block[b].line
      BY <1>3, <2>1 DEF Inside, Descends
    <3>. QED
      BY <1>3, <2>1, <3>1, <3>2 DEF NamesLive, Boundary
  <2>3. ASSUME NEW m \in Names(n)
        PROVE  /\ Inside(n)' => Inside(m)' \/ MayBeNamed(m, t)'
               /\ ~Inside(n)' /\ Inside(m)' => m \in walk'.grey /\ Outlives(t, b)'
               /\ ~Inside(n)' /\ ~Inside(m)' => MayBeNamed(m, b)'
    <3>1. PICK h \in LiveBlock : h = node[m].block
      BY <2>2 DEF Base, IInv
    <3>2. /\ m \in LiveNode /\ node'[m].block = h /\ h # None
          /\ Inside(m)' <=> s \in block[h].line
          /\ MayBeNamed(m, b)
      <4>1. Inside(m)' <=> s \in block[h].line
        BY <1>3, <3>1 DEF Inside, Descends
      <4>. QED
        BY <1>3, <2>1, <2>2, <3>1, <4>1, KeysAreKeys DEF Bounded, LiveBlock
    <3>3. CASE Outlives(h, b)
      <4>1. Outlives(h, b)' /\ MayBeNamed(m, b)'
        BY <1>6, <3>2, <3>3 DEF MayBeNamed
      <4>2. s \in block[b].line => s \in block[h].line \/ MayBeNamed(m, t)'
        BY <1>7, <3>2, <3>3 DEF MayBeNamed
      <4>3. s \in block[h].line => s \in block[b].line
        BY <1>7, <3>3
      <4>. QED
        BY <2>2, <3>2, <4>1, <4>2, <4>3
    <3>4. CASE block[h].root = m /\ Outlives(block[h].parent, b)
      <4>1. PICK p \in LiveBlock : p = block[h].parent
        BY <1>4, <3>4 DEF Outlives
      <4>2. block[h].line = {h} \cup block[p].line /\ block'[h].parent = p
        BY <1>3, <1>4, <3>4, <4>1, KeysAreKeys DEF LiveBlock
      <4>3. /\ s \in block[b].line => s \in block[p].line \/ Outlives(p, t)'
            /\ s \in block[p].line => s \in block[b].line
            /\ Outlives(p, b)'
        BY <1>6, <1>7, <3>4, <4>1
      <4>4. CASE h = s
        <5>1. m = r /\ p = t /\ s \in block[h].line
          BY <1>2, <1>3, <1>4, <3>4, <4>1, <4>4
        <5>. QED
          BY <1>3, <2>2, <3>2, <4>3, <5>1
      <4>5. CASE h # s
        <5>1. block'[h].root = m
          BY <1>3, <3>4, <4>5
        <5>2. MayBeNamed(m, b)' /\ (Outlives(p, t)' => MayBeNamed(m, t)')
          BY <3>2, <4>2, <4>3, <5>1 DEF MayBeNamed
        <5>. QED
          BY <2>2, <3>2, <4>2, <4>3, <4>5, <5>2
      <4>. QED
        BY <4>4, <4>5
    <3>. QED
      BY <3>1, <3>2, <3>3, <3>4 DEF MayBeNamed
  <2>4. ASSUME FunctionOf(n) # None
        PROVE  \E h : /\ h = function'[FunctionOf(n)].block
                      /\ Inside(n)' => Descends(h, s)' \/ Outlives(h, t)'
                      /\ ~Inside(n)' => Outlives(h, b)'
    <3>1. PICK f \in LiveFunction : f = FunctionOf(n)
      BY <2>2, <2>4
    <3>2. PICK h \in LiveBlock : h = function[f].block
      BY DEF Placed, Templates
    <3>3. Outlives(h, b)
      BY <2>1, <2>2, <2>4, <3>1, <3>2 DEF Bounded
    <3>4. Descends(h, s)' <=> s \in block[h].line
      BY <1>3 DEF Descends
    <3>5. /\ Inside(n)' => Descends(h, s)' \/ Outlives(h, t)'
          /\ ~Inside(n)' => Outlives(h, b)'
      BY <1>6, <1>7, <2>2, <3>3, <3>4
    <3>6. function'[FunctionOf(n)].block = h
      BY <1>3, <3>1, <3>2
    <3>. QED
      BY <3>5, <3>6
  <2>. QED
    BY <1>3, <2>2, <2>3, <2>4, WalkBoundPrimed
<1>. QED
  BY <1>8

\* A visit moves one node and the homes of the functions it walked.
LEMMA BoundaryAtVisit ==
    ASSUME Ground, NamesLive, Boundary, NEW z \in Node, Visit(z)
    PROVE  \A n \in LiveNode : BoundedInWalk(n)'
<1>. USE DEF Ground
<1>1. /\ z \in walk.grey /\ walk'.grey = walk.grey \cup Edges(z)
      /\ walk'.source = walk.source /\ walk'.target = walk.target
      /\ \A f \in Function : function'[f].block =
            IF f \in WalkedFunctions(z) /\ Descends(function[f].block, walk.source)
            THEN walk.target ELSE function[f].block
      /\ UNCHANGED block
  BY VisitRest DEF Base
<1>2. \A m \in Node :
         /\ node'[m].operand = node[m].operand /\ node'[m].ran = node[m].ran
         /\ SameSlot(node[m].value, node'[m].value)
         /\ node'[m].block = IF m = z /\ Inside(z) THEN walk.target ELSE node[m].block
  BY VisitNodes DEF Base
<1>3. ~Idle /\ z \in LiveNode
  BY <1>1 DEF Base, IInv, WalkInOrder, NamesLive
<1>4. PICK s \in LiveBlock, t \in LiveBlock : s = walk.source /\ t = walk.target
  BY <1>3, TargetOutside DEF Base, IInv, WalkInOrder
<1>5. /\ ~Descends(t, s) /\ Outlives(t, t) /\ t # None
  BY <1>3, <1>4, TargetOutside, KeysAreKeys DEF Base, IInv, BlockTree, Outlives, LiveBlock
<1>6. /\ \A h, b : Outlives(h, b)' <=> Outlives(h, b)
      /\ \A b, c : Descends(b, c)' <=> Descends(b, c)
  BY <1>1 DEF Outlives, Descends
<1>7. \A m \in LiveNode : Inside(m)' <=> Inside(m) /\ m # z
  <2>1. ASSUME NEW m \in LiveNode PROVE Inside(m)' <=> Inside(m) /\ m # z
    <3>1. Inside(m)' <=> s \in block[node'[m].block].line
      BY <1>1, <1>4 DEF Inside, Descends
    <3>. QED
      BY <1>2, <1>4, <1>5, <3>1 DEF Inside, Descends, LiveNode
  <2>. QED
    BY <2>1
<1>8. ASSUME NEW m \in LiveNode, NEW b
      PROVE  /\ m = z /\ Inside(z) => (Outlives(t, b) => MayBeNamed(m, b)')
             /\ ~(m = z /\ Inside(z)) => (MayBeNamed(m, b)' <=> MayBeNamed(m, b))
  <2>1. CASE m = z /\ Inside(z)
    <3>1. node'[m].block = t
      BY <1>2, <1>4, <2>1
    <3>2. Outlives(t, b) => MayBeNamed(m, b)'
      BY <1>1, <3>1 DEF MayBeNamed, Outlives
    <3>. QED
      BY <2>1, <3>2
  <2>2. CASE ~(m = z /\ Inside(z))
    <3>1. node'[m].block = node[m].block
      BY <1>2, <2>2 DEF LiveNode
    <3>2. MayBeNamed(m, b)' <=> MayBeNamed(m, b)
      BY <1>1, <3>1 DEF MayBeNamed, Outlives
    <3>. QED
      BY <2>2, <3>2
  <2>. QED
    BY <2>1, <2>2
<1>9. ASSUME NEW n \in LiveNode PROVE BoundedInWalk(n)'
  <2>1. /\ Names(n)' = Names(n) /\ FunctionOf(n)' = FunctionOf(n)
        /\ Names(n) \subseteq LiveNode /\ FunctionOf(n) \in LiveFunction \cup {None}
        /\ BoundedInWalk(n) /\ n \in Node
    <3>1. n \in Node
      BY DEF LiveNode
    <3>2. Names(n)' = Names(n) /\ FunctionOf(n)' = FunctionOf(n)
      BY <1>2, <3>1, SameNames
    <3>. QED
      BY <1>3, <3>1, <3>2 DEF NamesLive, Boundary
  <2>2. PICK b \in LiveBlock : b = node[n].block
    BY DEF Base, IInv
  <2>3. PICK c : c = node'[n].block
    OBVIOUS
  <2>4. c = IF n = z /\ Inside(z) THEN t ELSE b
    BY <1>2, <1>4, <2>1, <2>2, <2>3
  <2>5. ASSUME NEW m \in Names(n)
        PROVE  /\ Inside(n)' => Inside(m)' \/ MayBeNamed(m, t)'
               /\ ~Inside(n)' /\ Inside(m)' => m \in walk'.grey /\ Outlives(t, c)'
               /\ ~Inside(n)' /\ ~Inside(m)' => MayBeNamed(m, c)'
    <3>1. /\ m \in LiveNode
          /\ Inside(n) => Inside(m) \/ MayBeNamed(m, t)
          /\ ~Inside(n) /\ Inside(m) => m \in walk.grey /\ Outlives(t, b)
          /\ ~Inside(n) /\ ~Inside(m) => MayBeNamed(m, b)
      BY <1>4, <2>1, <2>2 DEF BoundedInWalk
    <3>2. n = z => m \in walk'.grey
      BY <1>1, <1>3, EdgesAreLive
    <3>3. m \in walk.grey => m \in walk'.grey
      BY <1>1
    <3>4. /\ Inside(n)' <=> Inside(n) /\ n # z
          /\ Inside(m)' <=> Inside(m) /\ m # z
      BY <1>7, <3>1
    <3>5. /\ m = z /\ Inside(z) /\ Outlives(t, t) => MayBeNamed(m, t)'
          /\ m = z /\ Inside(z) /\ Outlives(t, c) => MayBeNamed(m, c)'
          /\ ~(m = z /\ Inside(z)) /\ MayBeNamed(m, t) => MayBeNamed(m, t)'
          /\ ~(m = z /\ Inside(z)) /\ MayBeNamed(m, c) => MayBeNamed(m, c)'
          /\ Outlives(t, c)' <=> Outlives(t, c)
      BY <1>6, <1>8, <3>1
    <3>6. CASE n = z /\ Inside(z)
      BY <1>5, <2>4, <3>1, <3>2, <3>4, <3>5, <3>6
    <3>7. CASE ~(n = z /\ Inside(z))
      BY <1>5, <2>4, <3>1, <3>3, <3>4, <3>5, <3>7
    <3>. QED
      BY <3>6, <3>7
  <2>6. ASSUME FunctionOf(n) # None
        PROVE  \E h : /\ h = function'[FunctionOf(n)].block
                      /\ Inside(n)' => Descends(h, s)' \/ Outlives(h, t)'
                      /\ ~Inside(n)' => Outlives(h, c)'
    <3>1. PICK f \in LiveFunction : f = FunctionOf(n)
      BY <2>1, <2>6
    <3>2. PICK g \in LiveBlock : g = function[f].block
      BY DEF Placed, Templates
    <3>3. PICK h : h = function'[f].block
      OBVIOUS
    <3>4. h = IF f \in WalkedFunctions(z) /\ Descends(g, s) THEN t ELSE g
      BY <1>1, <1>4, <3>2, <3>3 DEF LiveFunction
    <3>5. /\ Inside(n) => Descends(g, s) \/ Outlives(g, t)
          /\ ~Inside(n) => Outlives(g, b)
      BY <1>4, <2>1, <2>2, <2>6, <3>1, <3>2 DEF BoundedInWalk
    <3>6. Inside(n)' <=> Inside(n) /\ n # z
      BY <1>7
    <3>7. ~Inside(n) => ~Descends(g, s)
      BY <1>3, <1>4, <2>2, <3>5, OutlivingIsOutside DEF Placed, Inside
    <3>8. n = z /\ Inside(z) => f \in WalkedFunctions(z)
      BY <2>6, <3>1 DEF FunctionOf, WalkedFunctions
    <3>9. /\ Inside(n)' => Descends(h, s) \/ Outlives(h, t)
          /\ ~Inside(n)' => Outlives(h, c)
      <4>1. CASE n = z /\ Inside(z)
        BY <1>5, <2>4, <3>4, <3>5, <3>6, <3>8, <4>1
      <4>2. CASE ~(n = z /\ Inside(z))
        BY <1>5, <2>4, <3>4, <3>5, <3>6, <3>7, <4>2
      <4>. QED
        BY <4>1, <4>2
    <3>10. /\ Inside(n)' => Descends(h, s)' \/ Outlives(h, t)'
           /\ ~Inside(n)' => Outlives(h, c)'
      BY <1>6, <3>9
    <3>. QED
      BY <3>1, <3>3, <3>10
  <2>7. s = walk'.source /\ t = walk'.target
    BY <1>1, <1>4
  <2>. QED
    BY <2>1, <2>3, <2>5, <2>6, <2>7, WalkBoundPrimed
<1>. QED
  BY <1>9

\* Names respect the boundary, between collects and during one.
LEMMA BoundaryStep ==
    ASSUME Ground, Base', Named, NamesLive', Next
    PROVE  Boundary'
<1>. USE DEF Ground, Named
<1>0. LiveNode \subseteq Node /\ LiveFunction \subseteq Function /\ LiveBlock \subseteq Block
  BY DEF LiveNode, LiveFunction, LiveBlock
<1>S. \A v : SameSlot(v, v)
  BY SameSlotReflexive
<1>K. ASSUME Idle, Idle', LiveNode' = LiveNode,
             \A n \in LiveNode : /\ node'[n].operand = node[n].operand
                                 /\ node'[n].ran = node[n].ran
                                 /\ node'[n].value = node[n].value
                                 /\ node'[n].block = node[n].block,
             \A f \in LiveFunction : function'[f].block = function[f].block,
             \A b \in LiveBlock :
                /\ block'[b].parent = block[b].parent /\ block'[b].line = block[b].line
                /\ block[b].root \in Node => block'[b].root = block[b].root
      PROVE  Boundary'
  <2>1. ASSUME NEW n \in LiveNode PROVE Bounded(n)'
    <3>1. Names(n)' = Names(n) /\ FunctionOf(n)' = FunctionOf(n)
      BY <1>K, <1>S, SameNames
    <3>2. Bounded(n)
      BY <1>K DEF Boundary
    <3>. QED
      BY <1>K, <3>1, <3>2, BoundedKept
  <2>. QED
    BY <1>K, <2>1 DEF Boundary
<1>1. ASSUME NEW b \in Block, NEW p \in Block \cup {None}, AddBlock(b, p)
      PROVE  Boundary'
  <2>1. /\ Idle /\ b \notin LiveBlock /\ \A c \in Block : c # b => block'[c] = block[c]
        /\ UNCHANGED <<node, function, walk>>
    BY <1>1, AddBlockFields DEF Base
  <2>2. Idle' /\ LiveNode' = LiveNode /\ \A c \in LiveBlock : block'[c] = block[c]
    BY <1>0, <2>1 DEF Idle, LiveNode
  <2>. QED
    BY <1>K, <2>1, <2>2
<1>2. ASSUME NEW n \in Node, MarkScopeRoot(n)
      PROVE  Boundary'
  <2>1. /\ Idle /\ block[node[n].block].root = None
        /\ \A b \in Block : /\ block'[b].parent = block[b].parent
                            /\ block'[b].line = block[b].line
                            /\ block'[b].root = IF b = node[n].block THEN n
                                                ELSE block[b].root
        /\ UNCHANGED <<node, function, walk>>
    BY <1>2, MarkFields DEF Base
  <2>2. Idle' /\ LiveNode' = LiveNode
    BY <2>1 DEF Idle, LiveNode
  <2>3. \A b \in LiveBlock :
           /\ block'[b].parent = block[b].parent /\ block'[b].line = block[b].line
           /\ block[b].root \in Node => block'[b].root = block[b].root
    BY <1>0, <2>1, KeysAreKeys
  <2>. QED
    BY <1>K, <2>1, <2>2, <2>3
<1>3. ASSUME NEW n \in Node, AddAssert(n)
      PROVE  Boundary'
  <2>1. Idle /\ UNCHANGED <<node, block, function, walk>>
    BY <1>3 DEF AddAssert
  <2>2. Idle' /\ LiveNode' = LiveNode
    BY <2>1 DEF Idle, LiveNode
  <2>. QED
    BY <1>K, <2>1, <2>2
<1>4. ASSUME NEW f \in Function, NEW b \in Block, NEW p \in Function \cup {None},
             BeginFunction(f, b, p)
      PROVE  Boundary'
  <2>1. /\ Idle /\ f \notin LiveFunction
        /\ \A g \in Function : g # f => function'[g] = function[g]
        /\ UNCHANGED <<node, block, walk>>
    BY <1>4, BeginFields DEF Base
  <2>2. Idle' /\ LiveNode' = LiveNode /\ \A g \in LiveFunction : function'[g] = function[g]
    BY <1>0, <2>1 DEF Idle, LiveNode
  <2>. QED
    BY <1>K, <2>1, <2>2
<1>5. ASSUME NEW f \in Function, NEW n \in Node, Register(f, n)
      PROVE  Boundary'
  <2>1. TypeOK /\ ClassInv /\ Register(f, n)
    BY <1>5 DEF Base
  <2>2. /\ Idle /\ UNCHANGED <<block, walk>> /\ LiveNode' = LiveNode
        /\ \A m \in Node :
              /\ node'[m].block = node[m].block /\ node'[m].value = node[m].value
              /\ node'[m].operand = node[m].operand /\ node'[m].ran = node[m].ran
    BY <2>1, RegisterFields
  <2>3. /\ \A g \in Function : g # f => function'[g] = function[g]
        /\ function'[f].block = function[f].block
    BY <2>1, RegisterFields
  <2>4. Idle' /\ \A g \in LiveFunction : function'[g].block = function[g].block
    BY <1>0, <2>2, <2>3 DEF Idle
  <2>5. \A m \in LiveNode :
           /\ node'[m].block = node[m].block /\ node'[m].value = node[m].value
           /\ node'[m].operand = node[m].operand /\ node'[m].ran = node[m].ran
    BY <1>0, <2>2
  <2>. QED
    BY <1>K, <2>2, <2>4, <2>5
<1>6. ASSUME NEW n \in Node, NEW b \in LiveBlock, NEW o \in Node \cup {None},
             NEW v \in FreshValue(b) \cup {None}, AddNode(n, b, v, o)
      PROVE  Boundary'
  <2>1. /\ \A m \in Node : m # n => node'[m] = node[m]
        /\ LiveNode' = LiveNode \cup {n} /\ n \notin LiveNode /\ Idle
        /\ UNCHANGED <<block, function, walk>> /\ WithinBoundary(n)'
    BY <1>6, AddNodeFields DEF Base
  <2>2. Idle' /\ \A m \in LiveNode : node'[m] = node[m]
    BY <1>0, <2>1 DEF Idle
  <2>3. Bounded(n)'
    BY <2>1 DEF WithinBoundary, Bounded, Names, FunctionOf
  <2>4. ASSUME NEW m \in LiveNode PROVE Bounded(m)'
    <3>1. Names(m)' = Names(m) /\ FunctionOf(m)' = FunctionOf(m)
      BY <1>S, <2>2, SameNames
    <3>2. Bounded(m)
      BY <2>1 DEF Boundary
    <3>. QED
      BY <2>1, <2>2, <3>1, <3>2, BoundedKept
  <2>. QED
    BY <2>1, <2>2, <2>3, <2>4 DEF Boundary
<1>7. ASSUME \/ \E a, b \in Node : Unify(a, b)
             \/ \E n \in LiveNode : Owes(n) /\ \E v \in Answer(n) \cup {None} : Run(n, v)
      PROVE  Boundary'
  <2>1. Idle /\ UNCHANGED walk /\ BoundaryHolds'
    BY <1>7 DEF Unify, Run
  <2>2. Idle'
    BY <2>1 DEF Idle
  <2>3. \A n \in LiveNode' : Bounded(n)'
    BY <2>1 DEF BoundaryHolds, WithinBoundary, Bounded, Names, FunctionOf
  <2>. QED
    BY <2>2, <2>3 DEF Boundary
<1>8. ASSUME NEW r \in Node, Collect(r)
      PROVE  Boundary'
  <2>1. ~Idle' /\ UNCHANGED node
    BY <1>8, CollectFields DEF Base
  <2>2. LiveNode' = LiveNode
    BY <2>1 DEF LiveNode
  <2>. QED
    BY <1>8, <2>1, <2>2, BoundaryAtCollect DEF Boundary
<1>9. ASSUME NEW n \in Node, Visit(n)
      PROVE  Boundary'
  <2>1. LiveNode' = LiveNode
    BY <1>9, VisitNodes DEF Base
  <2>2. walk'.stage = walk.stage /\ n \in walk.grey
    BY <1>9, VisitRest DEF Base
  <2>3. ~Idle'
    BY <2>2 DEF Base, IInv, WalkInOrder, Idle
  <2>. QED
    BY <1>9, <2>1, <2>3, BoundaryAtVisit DEF Boundary
<1>10. ASSUME AssertRoots \/ TemplateRoots
       PROVE  Boundary'
  <2>1. /\ walk'.source = walk.source /\ walk'.target = walk.target
        /\ walk.grey \subseteq walk'.grey /\ ~Idle /\ ~Idle'
        /\ UNCHANGED <<node, block, function>>
    BY <1>10, RootsFields DEF Base
  <2>2. LiveNode' = LiveNode
    BY <2>1 DEF LiveNode
  <2>3. ASSUME NEW n \in LiveNode PROVE BoundedInWalk(n)'
    <3>1. BoundedInWalk(n)
      BY <2>1 DEF Boundary
    <3>. QED
      BY <2>1, <3>1 DEF BoundedInWalk, Names, FunctionOf, Owes, Inside, Descends,
                        MayBeNamed, Outlives
  <2>. QED
    BY <2>1, <2>2, <2>3 DEF Boundary
<1>11. ASSUME DropBlock
       PROVE  Boundary'
  <2>1. /\ \A n \in walk.grey : ~Inside(n)
        /\ \A n \in LiveNode : n \in LiveNode' <=> ~Inside(n)
        /\ LiveNode' \subseteq LiveNode /\ ~Idle /\ walk' = NoWalk
        /\ \A b \in LiveBlock : b \in LiveBlock' <=> ~Descends(b, walk.source)
    BY <1>11, SurvivorsAreOutside, DropFields DEF Base
  <2>2. /\ LiveBlock' = LiveBlock \ DoomedBlocks
        /\ \A b \in Block \ DoomedBlocks : block'[b] = block[b]
        /\ \A f \in Function : function'[f] =
              IF f \in DoomedFunctions THEN AbsentFunction("released") ELSE function[f]
        /\ LiveFunction' = LiveFunction \ DoomedFunctions
    BY <1>11, DropFields DEF Base
  <2>3. Idle'
    BY <2>1 DEF Idle, NoWalk
  <2>4. \A b \in LiveBlock' : block'[b] = block[b] /\ block[b].line \subseteq LiveBlock'
    <3>1. \A b \in LiveBlock' : block'[b] = block[b]
      BY <1>0, <2>2
    <3>2. \A b \in LiveBlock' : block'[b].line \subseteq LiveBlock'
      BY DEF Base, IInv, BlockTree
    <3>. QED
      BY <3>1, <3>2
  <2>5. ASSUME NEW n \in LiveNode' PROVE Bounded(n)'
    <3>1. /\ n \in LiveNode /\ node'[n].value = node[n].value
          /\ node'[n].operand = node[n].operand /\ node'[n].ran = node[n].ran
          /\ node'[n].block = node[n].block
      BY <1>11, NothingIsFilled
    <3>2. Names(n)' = Names(n) /\ FunctionOf(n)' = FunctionOf(n)
      BY <1>S, <3>1, SameNames
    <3>3. /\ ~Inside(n) /\ BoundedInWalk(n) /\ Names(n) \subseteq LiveNode
          /\ FunctionOf(n)' \in LiveFunction' \cup {None}
      BY <2>1, <3>1 DEF Boundary, NamesLive
    <3>4. PICK b \in LiveBlock' : b = node[n].block
      BY <3>1 DEF Base, IInv
    <3>5. b \in LiveBlock /\ block'[b].line = block[b].line
      BY <2>2, <2>4
    <3>6. ASSUME NEW m \in Names(n) PROVE MayBeNamed(m, b)'
      <4>1. m \in LiveNode /\ ~Inside(m) /\ MayBeNamed(m, b)
        BY <2>1, <3>3, <3>4 DEF BoundedInWalk
      <4>2. /\ m \in LiveNode' /\ node'[m].block = node[m].block
        BY <1>11, <2>1, <4>1, NothingIsFilled
      <4>3. node[m].block \in LiveBlock'
        BY <4>2 DEF Base, IInv
      <4>4. \A c \in block[node[m].block].line : block'[c].parent = block[c].parent
        BY <2>4, <4>3
      <4>5. block'[node[m].block] = block[node[m].block]
        BY <2>4, <4>3
      <4>6. block[node[m].block].root = m => block'[node[m].block].root = m
        BY <4>5
      <4>. QED
        BY <3>5, <4>1, <4>2, <4>4, <4>6, NamingKept
    <3>7. ASSUME FunctionOf(n) # None
          PROVE  \E h : h = function'[FunctionOf(n)].block /\ Outlives(h, b)'
      <4>1. PICK f \in LiveFunction' : f = FunctionOf(n)
        BY <3>2, <3>3, <3>7
      <4>2. f \in LiveFunction /\ f \in Function /\ function'[f] = function[f]
        BY <1>0, <2>2
      <4>3. PICK h \in LiveBlock : h = function[f].block
        BY <4>2 DEF Placed, Templates
      <4>4. Outlives(h, b)
        BY <3>3, <3>4, <3>7, <4>1, <4>3 DEF BoundedInWalk
      <4>5. ~Descends(h, walk.source)
        BY <2>1, <3>3, <3>4, <3>5, <4>4, OutlivingIsOutside DEF Placed, Inside
      <4>6. block'[h] = block[h]
        BY <2>1, <2>4, <4>5
      <4>7. Outlives(h, b)'
        BY <3>5, <4>4, <4>6, OutlivesKept
      <4>. QED
        BY <4>1, <4>2, <4>3, <4>7
    <3>8. \A m \in Names(n)' : MayBeNamed(m, node[n].block)'
      BY <3>1, <3>2, <3>4, <3>6 DEF MayBeNamed, Outlives
    <3>9. FunctionOf(n)' # None =>
             (Outlives(function[FunctionOf(n)].block, node[n].block))'
      BY <3>1, <3>2, <3>4, <3>7 DEF Outlives
    <3>. QED
      BY <3>8, <3>9 DEF Bounded
  <2>. QED
    BY <2>3, <2>5 DEF Boundary
<1>. QED
  BY <1>1, <1>2, <1>3, <1>4, <1>5, <1>6, <1>7, <1>8, <1>9, <1>10, <1>11, Steps

-----------------------------------------------------------------------------
\* A class stays decided as a whole.
LEMMA LiveClasses ==
    ASSUME ClassInv
    PROVE  /\ \A n \in LiveNode : /\ Root(meta, n) \in LiveNode
                                  /\ Root(meta, Root(meta, n)) = Root(meta, n)
                                  /\ meta[Root(meta, n)].parent = None
                                  /\ Members(meta, Root(meta, n)) = Class(meta, n)
           /\ \A n, m \in LiveNode : m \in Class(meta, n) <=> Root(meta, m) = Root(meta, n)
           /\ \A n \in LiveNode : n \in Class(meta, n) /\ Class(meta, n) \subseteq LiveNode
<1>1. ClassesOf(meta, LiveNode) /\ LiveNode \in SUBSET Node
  BY LiveNodesAreNodes DEF ClassInv
<1>2. ASSUME NEW n \in LiveNode
      PROVE  /\ Root(meta, n) \in LiveNode /\ Root(meta, Root(meta, n)) = Root(meta, n)
             /\ meta[Root(meta, n)].parent = None
             /\ Members(meta, Root(meta, n)) = Class(meta, n)
             /\ Class(meta, n) = {m \in LiveNode : Root(meta, m) = Root(meta, n)}
             /\ n \in Class(meta, n)
  BY <1>1, RootIsNode
<1>. QED
  BY <1>2

LEMMA DecidedAtUnify ==
    ASSUME Ground, Named, NEW a \in Node, NEW b \in Node, Unify(a, b)
    PROVE  Decided'
<1>. USE DEF Ground, Named
<1>0. LiveNode \subseteq Node
  BY DEF LiveNode
<1>1. /\ a \in LiveNode /\ b \in LiveNode /\ Root(meta, a) # Root(meta, b)
      /\ node[a].value # None /\ node[b].value # None
            => MayAgree(node[a].value, node[b].value)
      /\ LiveNode' = LiveNode
  BY UnifyFields DEF Base
<1>2. \A n \in Node :
         node'[n].value = IF node[n].value # None THEN node[n].value
                          ELSE IF node[a].value = None /\ n \in Class(meta, a)
                               THEN node[b].value
                          ELSE IF node[b].value = None /\ n \in Class(meta, b)
                               THEN node[a].value
                          ELSE None
  BY UnifyFields DEF Base
<1>3. PICK rep \in {Root(meta, a), Root(meta, b)} :
         \A x \in LiveNode : Root(meta', x) =
            IF Root(meta, x) \in {Root(meta, a), Root(meta, b)} THEN rep ELSE Root(meta, x)
  BY UnifyFields DEF Base
<1>4. PICK ra, rb, va, vb : /\ ra = Root(meta, a) /\ rb = Root(meta, b)
                            /\ va = node[a].value /\ vb = node[b].value
  OBVIOUS
<1>5. PICK w : w = IF va # None THEN va ELSE vb
  OBVIOUS
<1>6. /\ OfAKind(vb, va) \/ va = None \/ vb = None
      /\ \A v : OfAKind(v, v)
      /\ \A t, u, v : OfAKind(t, u) /\ OfAKind(u, v) => OfAKind(t, v)
      /\ \A u, v : OfAKind(u, v) => OfAKind(v, u)
  <2>1. va # None /\ vb # None => OfAKind(va, vb)
    BY <1>1, <1>4 DEF MayAgree, OfAKind
  <2>. QED
    BY <2>1, KindsAreEquivalence
<1>7. ASSUME NEW x \in LiveNode
      PROVE  /\ Root(meta, x) \in {ra, rb} => OfAKind(node'[x].value, w)
             /\ Root(meta, x) \notin {ra, rb} => node'[x].value = node[x].value
  <2>1. PICK v, u : v = node[x].value /\ u = node'[x].value
    OBVIOUS
  <2>2. /\ x \in Class(meta, a) <=> Root(meta, x) = ra
        /\ x \in Class(meta, b) <=> Root(meta, x) = rb
    BY <1>1, <1>4, LiveClasses DEF Base
  <2>3. /\ Root(meta, x) = ra => OfAKind(v, va)
        /\ Root(meta, x) = rb => OfAKind(v, vb)
    BY <1>1, <1>4, <2>1 DEF Decided, DecidedOf
  <2>4. u = IF v # None THEN v
            ELSE IF va = None /\ Root(meta, x) = ra THEN vb
            ELSE IF vb = None /\ Root(meta, x) = rb THEN va
            ELSE None
    BY <1>0, <1>2, <1>4, <2>1, <2>2
  <2>5. ra # rb
    BY <1>1, <1>4
  <2>6. ASSUME Root(meta, x) = ra PROVE OfAKind(u, w)
    <3>1. v = None <=> va = None
      BY <2>3, <2>6 DEF OfAKind
    <3>. QED
      BY <1>5, <1>6, <2>3, <2>4, <2>6, <3>1
  <2>7. ASSUME Root(meta, x) = rb PROVE OfAKind(u, w)
    <3>1. v = None <=> vb = None
      BY <2>3, <2>7 DEF OfAKind
    <3>2. CASE vb = None
      BY <1>5, <1>6, <2>4, <2>5, <2>7, <3>1, <3>2
    <3>3. CASE vb # None
      <4>1. u = v /\ OfAKind(v, vb)
        BY <2>3, <2>4, <2>7, <3>1, <3>3
      <4>2. OfAKind(vb, w)
        BY <1>5, <1>6, <3>3
      <4>. QED
        BY <1>6, <4>1, <4>2
    <3>. QED
      BY <3>2, <3>3
  <2>8. Root(meta, x) \notin {ra, rb} => u = v
    BY <2>4
  <2>. QED
    BY <2>1, <2>6, <2>7, <2>8
<1>8. ASSUME NEW x \in LiveNode, NEW y \in LiveNode, Root(meta', x) = Root(meta', y)
      PROVE  OfAKind(node'[x].value, node'[y].value)
  <2>1. PICK u, v : u = node'[x].value /\ v = node'[y].value
    OBVIOUS
  <2>2. OfAKind(u, v)
    <3>1. CASE Root(meta, x) \in {ra, rb} /\ Root(meta, y) \in {ra, rb}
      BY <1>6, <1>7, <2>1, <3>1
    <3>2. CASE ~(Root(meta, x) \in {ra, rb} /\ Root(meta, y) \in {ra, rb})
      <4>1. /\ Root(meta, x) \notin {ra, rb} /\ Root(meta, y) \notin {ra, rb}
            /\ Root(meta, x) = Root(meta, y)
        BY <1>3, <1>4, <1>8, <3>2
      <4>2. OfAKind(node[x].value, node[y].value)
        BY <4>1 DEF Decided, DecidedOf
      <4>. QED
        BY <1>7, <2>1, <4>1, <4>2
    <3>. QED
      BY <3>1, <3>2
  <2>. QED
    BY <2>1, <2>2
<1>. QED
  BY <1>1, <1>8 DEF Decided, DecidedOf

LEMMA DecidedAtRun ==
    ASSUME Ground, Named, NEW n \in LiveNode, Owes(n),
           NEW v \in Answer(n) \cup {None}, Run(n, v)
    PROVE  Decided'
<1>. USE DEF Ground, Named
<1>0. LiveNode \subseteq Node
  BY DEF LiveNode
<1>1. /\ LiveNode' = LiveNode /\ (meta' = Find(meta, n) \/ meta' = meta)
      /\ \A m \in Node : node'[m].value = IF v # None /\ node[n].value = None
                                             /\ m \in Class(meta, n)
                                          THEN v ELSE node[m].value
  BY RunFields DEF Base
<1>2. \A x \in LiveNode : Root(meta', x) = Root(meta, x)
  <2>1. PICK live, found : live \in SUBSET Node /\ live = LiveNode /\ found = meta'
    BY LiveNodesAreNodes
  <2>2. /\ ClassesOf(meta, live) /\ n \in Node
        /\ found = Find(meta, n) \/ found = meta
    BY <1>0, <1>1, <2>1 DEF Base, ClassInv
  <2>3. \A x \in Node : Root(found, x) = Root(meta, x)
    BY <2>1, <2>2, FindKeepsClasses
  <2>. QED
    BY <1>0, <2>1, <2>3
<1>3. ASSUME NEW x \in LiveNode, NEW y \in LiveNode, Root(meta', x) = Root(meta', y)
      PROVE  OfAKind(node'[x].value, node'[y].value)
  <2>1. PICK u, w : u = node'[x].value /\ w = node'[y].value
    OBVIOUS
  <2>2. Root(meta, x) = Root(meta, y)
    BY <1>2, <1>3
  <2>3. /\ x \in Class(meta, n) <=> y \in Class(meta, n)
        /\ OfAKind(node[x].value, node[y].value)
    BY <2>2, LiveClasses DEF Base, Decided, DecidedOf
  <2>4. OfAKind(u, w)
    BY <1>0, <1>1, <2>1, <2>3, KindsAreEquivalence
  <2>. QED
    BY <2>1, <2>4
<1>. QED
  BY <1>1, <1>3 DEF Decided, DecidedOf

LEMMA DecidedAtAddNode ==
    ASSUME Ground, Named, NEW n \in Node, NEW b \in LiveBlock, NEW o \in Node \cup {None},
           NEW v \in FreshValue(b) \cup {None}, AddNode(n, b, v, o)
    PROVE  Decided'
<1>. USE DEF Ground, Named
<1>0. LiveNode \subseteq Node
  BY DEF LiveNode
<1>1. /\ \A m \in Node : m # n => node'[m] = node[m]
      /\ LiveNode' = LiveNode \cup {n} /\ n \notin LiveNode /\ meta' = MakeSet(meta, n)
  BY AddNodeFields DEF Base
<1>2. PICK links : links = meta'
  OBVIOUS
<1>3. /\ Root(links, n) = n /\ \A x \in LiveNode : Root(links, x) = Root(meta, x)
  BY <1>1, <1>2, MakeSetAddsClass, MakeSetKeeps, LiveNodesAreNodes DEF Base, ClassInv
<1>4. \A x \in LiveNode : Root(links, x) # n
  BY <1>1, <1>3, LiveClasses DEF Base
<1>5. ASSUME NEW x \in LiveNode', NEW y \in LiveNode', Root(links, x) = Root(links, y)
      PROVE  OfAKind(node'[x].value, node'[y].value)
  <2>1. CASE x = n \/ y = n
    <3>1. x = y
      BY <1>1, <1>3, <1>4, <1>5, <2>1
    <3>. QED
      BY <3>1, KindsAreEquivalence
  <2>2. CASE x # n /\ y # n
    <3>1. /\ x \in LiveNode /\ y \in LiveNode /\ node'[x] = node[x] /\ node'[y] = node[y]
      BY <1>0, <1>1, <2>2
    <3>2. PICK u, w : u = node[x].value /\ w = node[y].value
      OBVIOUS
    <3>3. OfAKind(u, w)
      BY <1>3, <1>5, <3>1, <3>2 DEF Decided, DecidedOf
    <3>. QED
      BY <3>1, <3>2, <3>3
  <2>. QED
    BY <2>1, <2>2
<1>. QED
  BY <1>2, <1>5 DEF Decided, DecidedOf

LEMMA DecidedStep ==
    ASSUME Ground, Named, Next
    PROVE  Decided'
<1>. USE DEF Ground, Named
<1>0. LiveNode \subseteq Node
  BY DEF LiveNode
<1>S. \A v : SameSlot(v, v)
  BY SameSlotReflexive
<1>F. ASSUME NEW n \in Node, meta' = Find(meta, n) \/ meta' = meta, LiveNode' = LiveNode,
             \A x \in LiveNode : SameSlot(node[x].value, node'[x].value)
      PROVE  Decided'
  <2>1. PICK live, found : live \in SUBSET Node /\ live = LiveNode /\ found = meta'
    BY LiveNodesAreNodes
  <2>2. /\ ClassesOf(meta, live) /\ n \in Node
        /\ found = Find(meta, n) \/ found = meta
    BY <1>F, <2>1 DEF Base, ClassInv
  <2>3. ASSUME NEW x \in Node PROVE Root(found, x) = Root(meta, x)
    <3>1. live \in SUBSET Node
      BY <2>1
    <3>. QED
      BY ONLY <2>2, <3>1, FindKeepsClasses
  <2>4. \A x, y \in live : Root(found, x) = Root(found, y) <=> Root(meta, x) = Root(meta, y)
    BY <2>1, <2>3
  <2>5. DecidedOf(node', found, live)
    BY <1>F, <2>1, <2>4, DecidedKept DEF Decided
  <2>. QED
    BY <1>F, <2>1, <2>5 DEF Decided
<1>1. ASSUME UNCHANGED <<node, meta>>
      PROVE  Decided'
  <2>1. LiveNode' = LiveNode
    BY <1>1 DEF LiveNode
  <2>. QED
    BY <1>1, <2>1 DEF Decided
<1>2. ASSUME \/ \E b \in Block, p \in Block \cup {None} : AddBlock(b, p)
             \/ \E n \in Node : MarkScopeRoot(n) \/ AddAssert(n) \/ Collect(n)
             \/ \E f \in Function, b \in Block, p \in Function \cup {None} :
                   BeginFunction(f, b, p)
             \/ AssertRoots \/ TemplateRoots
      PROVE  Decided'
  <2>1. UNCHANGED <<node, meta>>
    BY <1>2 DEF AddBlock, MarkScopeRoot, AddAssert, Collect, BeginFunction, AssertRoots,
                TemplateRoots
  <2>. QED
    BY <1>1, <2>1
<1>3. ASSUME NEW f \in Function, NEW n \in Node, Register(f, n)
      PROVE  Decided'
  <2>1. TypeOK /\ ClassInv /\ Register(f, n)
    BY <1>3 DEF Base
  <2>2. /\ LiveNode' = LiveNode /\ meta' = Find(meta, n)
        /\ \A m \in Node : node'[m].value = node[m].value
    BY <2>1, RegisterFields
  <2>. QED
    BY <1>0, <1>S, <1>F, <2>2
<1>4. ASSUME NEW n \in Node, Visit(n)
      PROVE  Decided'
  <2>1. meta' = Find(meta, n)
    BY <1>4, VisitRest DEF Base
  <2>2. LiveNode' = LiveNode /\ \A m \in Node : SameSlot(node[m].value, node'[m].value)
    BY <1>4, VisitNodes DEF Base
  <2>. QED
    BY <1>0, <1>F, <2>1, <2>2
<1>5. ASSUME DropBlock
      PROVE  Decided'
  <2>1. PICK live, links : live = LiveNode' /\ links = meta'
    OBVIOUS
  <2>2. /\ live = LiveNode \ DoomedNodes /\ links = FlattenedMeta /\ live \in SUBSET Node
    BY <1>0, <1>5, <2>1, DropFields DEF Base
  <2>3. /\ ClassesOf(links, live)
        /\ \A x \in live : Class(links, x) = Class(meta, x) \ DoomedNodes
    BY <2>2, FlattenCuts DEF Base
  <2>4. ASSUME NEW x \in live, NEW y \in live
        PROVE  Root(links, x) = Root(links, y) <=> Root(meta, x) = Root(meta, y)
    <3>1. Class(links, x) = {m \in live : Root(links, m) = Root(links, x)}
      BY <2>2, <2>3, RootIsNode
    <3>2. y \in Class(links, x) <=> y \in Class(meta, x)
      BY <2>2, <2>3
    <3>3. y \in Class(meta, x) <=> Root(meta, y) = Root(meta, x)
      BY <2>2, LiveClasses DEF Base
    <3>. QED
      BY <3>1, <3>2, <3>3
  <2>5. \A x \in live : node'[x].value = node[x].value
    BY <1>5, <2>1, NothingIsFilled
  <2>6. DecidedOf(node', links, live)
    BY <1>S, <2>2, <2>4, <2>5, DecidedKept DEF Decided
  <2>. QED
    BY <2>1, <2>6 DEF Decided
<1>. QED
  BY <1>2, <1>3, <1>4, <1>5, Steps, DecidedAtUnify, DecidedAtRun, DecidedAtAddNode

LEMMA NamedInductive == Spec => [](Ground /\ Named)
<1>1. Init => Named
  <2>. SUFFICES ASSUME Init PROVE Named
    OBVIOUS
  <2>1. LiveNode = {} /\ walk = NoWalk
    BY DEF Init, LiveNode, AbsentNode
  <2>. QED
    BY <2>1 DEF Named, NamesLive, Boundary, Decided, DecidedOf, NoWalk, Idle
<1>2. Ground /\ Ground' /\ Named /\ [Next]_vars => Named'
  <2>. SUFFICES ASSUME Ground, Ground', Named, [Next]_vars PROVE Named'
    OBVIOUS
  <2>1. CASE Next
    <3>1. NamesLive'
      BY <2>1, NamesLiveStep DEF Ground
    <3>. QED
      BY <2>1, <3>1, BoundaryStep, DecidedStep DEF Named, Ground
  <2>2. CASE UNCHANGED vars
    <3>1. /\ LiveNode' = LiveNode /\ LiveFunction' = LiveFunction /\ (Idle' <=> Idle)
          /\ UNCHANGED <<node, meta, block, function, walk>>
      BY <2>2 DEF vars, LiveNode, LiveFunction, Idle
    <3>2. \A n : Bounded(n)' <=> Bounded(n)
      BY <3>1 DEF Bounded, Names, FunctionOf, Owes, MayBeNamed, Outlives
    <3>3. \A n : BoundedInWalk(n)' <=> BoundedInWalk(n)
      BY <3>1 DEF BoundedInWalk, Names, FunctionOf, Owes, Inside, Descends, MayBeNamed,
                  Outlives
    <3>4. NamesLive'
      BY <3>1 DEF Named, NamesLive, Names, FunctionOf, Owes
    <3>5. Decided'
      BY <3>1 DEF Named, Decided
    <3>. QED
      BY <3>1, <3>2, <3>3, <3>4, <3>5 DEF Named, Boundary
  <2>. QED
    BY <2>1, <2>2
<1>3. Spec => []Ground
  BY PlacedInductive, PTL DEF Ground
<1>. QED
  BY <1>1, <1>2, <1>3, PTL DEF Spec

(***************************************************************************)
(* Nothing live names anything released, whatever is built, merged and     *)
(* collected: the walk reaches all that survivors name inside the scope,   *)
(* and the host's contract rules out every other name into it.             *)
(***************************************************************************)
THEOREM NothingLiveDangles == Spec => []NamesAreLive
<1>1. Ground /\ Named => NamesAreLive
  <2>. SUFFICES ASSUME Ground, Named PROVE NamesAreLive
    OBVIOUS
  <2>1. \A n \in LiveNode : node[n].block \in LiveBlock
    BY DEF Ground, Base, IInv
  <2>2. \A n \in LiveNode : /\ Owes(n) => node[n].operand \in LiveNode
                            /\ node[n].value # None =>
                                  /\ node[n].value.items \subseteq LiveNode
                                  /\ node[n].value.function \in LiveFunction \cup {None}
    BY DEF Named, NamesLive, Names, FunctionOf
  <2>3. \A f \in LiveFunction : function[f].nodes \subseteq LiveNode
    BY DEF Ground, Placed, Templates
  <2>4. asserts \subseteq LiveNode
    BY DEF Ground, Base, IInv
  <2>. QED
    BY <2>1, <2>2, <2>3, <2>4 DEF NamesAreLive
<1>. QED
  BY NamedInductive, <1>1, PTL

-----------------------------------------------------------------------------
(* Shapes: what a class states of its shape is its value's tag.            *)

\* A find changes no class.
LEMMA RootsKept ==
    ASSUME ClassInv, NEW n \in Node, meta' = Find(meta, n) \/ meta' = meta
    PROVE  \A m \in Node : /\ Root(meta', m) = Root(meta, m)
                           /\ Class(meta', m) = Class(meta, m)
                           /\ meta'[m].parent = None <=> meta[m].parent = None
<1>1. PICK live, found : live \in SUBSET Node /\ live = LiveNode /\ found = meta'
  BY LiveNodesAreNodes
<1>2. /\ live \in SUBSET Node /\ ClassesOf(meta, live) /\ n \in Node
      /\ found = Find(meta, n) \/ found = meta
  BY <1>1 DEF ClassInv
<1>3. \A m \in Node : /\ Root(found, m) = Root(meta, m)
                      /\ Class(found, m) = Class(meta, m)
                      /\ found[m].parent = None <=> meta[m].parent = None
  BY ONLY <1>2, FindKeepsClasses
<1>. QED
  BY <1>1, <1>3

\* Where drop_block leaves a survivor's class.
LEMMA AfterDrop ==
    ASSUME Ground, DropBlock, NEW n \in LiveNode'
    PROVE  /\ n \in LiveNode /\ Root(meta', n) \in LiveNode' /\ Root(meta', n) \in LiveNode
           /\ Root(meta, Root(meta', n)) = Root(meta, n)
           /\ FlattenedMeta[Root(meta', n)].parent = None
           /\ Class(meta', n) = Class(FlattenedMeta, n)
           /\ Class(meta', n) = Class(meta, n) \ DoomedNodes
           /\ Root(meta, n) \in Flattened <=> Class(meta, n) \cap DoomedNodes # {}
           /\ Root(meta', n) = IF Root(meta, n) \in Flattened
                               THEN FirstOf(meta, Survivors(Root(meta, n)))
                               ELSE Root(meta, n)
<1>1. PICK links, live : links = meta' /\ live = LiveNode'
  OBVIOUS
<1>2. /\ live = LiveNode \ DoomedNodes /\ links = FlattenedMeta
      /\ live \in SUBSET Node /\ n \in live /\ n \in LiveNode
  BY <1>1, DropFields DEF Ground, Base, LiveNode
<1>3. /\ ClassesOf(links, live)
      /\ Root(links, n) = HeadOf(meta, DoomedNodes, n)
      /\ Class(links, n) = Class(meta, n) \ DoomedNodes
  BY <1>2, FlattenCuts DEF Ground, Base
<1>4. /\ Root(links, n) \in live /\ links[Root(links, n)].parent = None
      /\ Class(links, n) = {m \in live : Root(links, m) = Root(links, n)}
      /\ Root(links, Root(links, n)) = Root(links, n)
  BY <1>2, <1>3, RootIsNode
<1>5. Root(meta, Root(links, n)) = Root(meta, n)
  <2>1. Root(links, n) \in Class(meta, n)
    BY <1>3, <1>4
  <2>. QED
    BY <1>2, <1>4, <2>1, LiveClasses DEF Ground, Base
<1>6. PICK r : r = Root(meta, n)
  OBVIOUS
<1>7. /\ r \in LiveNode /\ meta[r].parent = None /\ Members(meta, r) = Class(meta, n)
      /\ n \in Class(meta, n) /\ n \notin DoomedNodes
  BY <1>2, <1>6, LiveClasses DEF Ground, Base
<1>8. Survivors(r) = Class(meta, n) \ DoomedNodes /\ Survivors(r) # {}
  BY <1>7 DEF Survivors
<1>9. r \in Flattened <=> Class(meta, n) \cap DoomedNodes # {}
  BY <1>7, <1>8 DEF Flattened
<1>10. Root(links, n) = IF r \in Flattened THEN FirstOf(meta, Survivors(r)) ELSE r
  BY <1>3, <1>6, <1>7, <1>9 DEF HeadOf, Survivors
<1>. QED
  BY <1>1, <1>2, <1>3, <1>4, <1>5, <1>6, <1>9, <1>10

\* Two members' values are both there or both missing, and have one tag.
LEMMA OneKind ==
    ASSUME Decided, NEW n \in LiveNode, NEW m \in LiveNode, Root(meta, n) = Root(meta, m)
    PROVE  /\ node[n].value = None <=> node[m].value = None
           /\ node[n].value # None => node[n].value.tag = node[m].value.tag
  BY DEF Decided, DecidedOf, OfAKind

Shapes ==
    \A n \in LiveNode :
        node[n].shape # None => node[n].value # None /\ node[n].shape = node[n].value.tag

LEMMA ShapesStep ==
    ASSUME Ground, Named, Decided', Shapes, Next
    PROVE  Shapes'
<1>. USE DEF Ground, Named
<1>0. LiveNode \subseteq Node
  BY DEF LiveNode
<1>K. ASSUME LiveNode' = LiveNode,
             \A n \in LiveNode : /\ node'[n].shape = node[n].shape
                                 /\ SameSlot(node[n].value, node'[n].value)
      PROVE  Shapes'
  BY <1>K DEF Shapes, SameSlot
<1>1. ASSUME \/ \E b \in Block, p \in Block \cup {None} : AddBlock(b, p)
             \/ \E n \in Node : MarkScopeRoot(n) \/ AddAssert(n) \/ Collect(n)
             \/ \E f \in Function, b \in Block, p \in Function \cup {None} :
                   BeginFunction(f, b, p)
             \/ AssertRoots \/ TemplateRoots
      PROVE  Shapes'
  <2>1. UNCHANGED node
    BY <1>1 DEF AddBlock, MarkScopeRoot, AddAssert, Collect, BeginFunction, AssertRoots,
                TemplateRoots
  <2>2. LiveNode' = LiveNode
    BY <2>1 DEF LiveNode
  <2>. QED
    BY <1>K, <2>1, <2>2, SameSlotReflexive
<1>2. ASSUME NEW f \in Function, NEW n \in Node, Register(f, n)
      PROVE  Shapes'
  <2>1. TypeOK /\ ClassInv /\ Register(f, n)
    BY <1>2 DEF Base
  <2>2. /\ LiveNode' = LiveNode
        /\ \A m \in Node : node'[m].value = node[m].value /\ node'[m].shape = node[m].shape
    BY <2>1, RegisterFields
  <2>. QED
    BY <1>0, <1>K, <2>2, SameSlotReflexive
<1>3. ASSUME NEW n \in Node, Visit(n)
      PROVE  Shapes'
  <2>1. /\ LiveNode' = LiveNode
        /\ \A m \in Node : /\ SameSlot(node[m].value, node'[m].value)
                           /\ node'[m].shape = node[m].shape
    BY <1>3, VisitNodes DEF Base
  <2>. QED
    BY <1>0, <1>K, <2>1
<1>4. ASSUME NEW n \in Node, NEW b \in LiveBlock, NEW o \in Node \cup {None},
             NEW v \in FreshValue(b) \cup {None}, AddNode(n, b, v, o)
      PROVE  Shapes'
  <2>1. /\ \A m \in Node : m # n => node'[m] = node[m]
        /\ LiveNode' = LiveNode \cup {n} /\ node'[n].value = v
    BY <1>4, AddNodeFields DEF Base
  <2>2. node'[n].shape = Observed(v)
    BY <1>4, AddNodeFields DEF Base
  <2>. QED
    BY <1>0, <2>1, <2>2 DEF Shapes, Observed
<1>5. ASSUME NEW a \in Node, NEW b \in Node, Unify(a, b)
      PROVE  Shapes'
  <2>1. /\ a \in LiveNode /\ b \in LiveNode /\ LiveNode' = LiveNode
        /\ \A n \in Node : node[n].value # None => node'[n].value = node[n].value
    BY <1>5, UnifyFields DEF Base
  <2>2. PICK rep \in {Root(meta, a), Root(meta, b)} :
           /\ \A x \in LiveNode : Root(meta', x) =
                 IF Root(meta, x) \in {Root(meta, a), Root(meta, b)} THEN rep
                 ELSE Root(meta, x)
           /\ \A n \in Node : n # rep => node'[n].shape = node[n].shape
           /\ node'[rep].shape =
                 Refined(Refined(node[rep].shape, node[Root(meta, a)].shape),
                         node[Root(meta, b)].shape)
    BY <1>5, UnifyFields DEF Base
  <2>3. PICK ra \in LiveNode, rb \in LiveNode : ra = Root(meta, a) /\ rb = Root(meta, b)
    BY <2>1, LiveClasses DEF Base
  <2>4. Root(meta, ra) = ra /\ Root(meta, rb) = rb
    BY <2>1, <2>3, LiveClasses DEF Base
  <2>5. ASSUME NEW x \in {ra, rb}, node[x].shape # None
        PROVE  node'[rep].value # None /\ node'[rep].value.tag = node[x].shape
    <3>1. x \in LiveNode /\ rep \in LiveNode /\ Root(meta', x) = Root(meta', rep)
      BY <2>2, <2>3, <2>4
    <3>2. node'[x].value = node[x].value /\ node[x].value # None
          /\ node[x].value.tag = node[x].shape
      BY <1>0, <2>1, <2>5, <3>1 DEF Shapes
    <3>3. OfAKind(node'[x].value, node'[rep].value)
      BY <2>1, <3>1 DEF Decided, DecidedOf
    <3>. QED
      BY <3>2, <3>3 DEF OfAKind
  <2>6. node'[rep].shape # None => /\ node'[rep].value # None
                                   /\ node'[rep].shape = node'[rep].value.tag
    <3>1. rep \in {ra, rb}
      BY <2>2, <2>3
    <3>2. node'[rep].shape # None =>
             \E x \in {ra, rb} : node[x].shape # None /\ node'[rep].shape = node[x].shape
      BY <2>2, <2>3, <3>1 DEF Refined
    <3>. QED
      BY <2>5, <3>2
  <2>7. ASSUME NEW n \in LiveNode, n # rep, node'[n].shape # None
        PROVE  node'[n].value # None /\ node'[n].shape = node'[n].value.tag
    BY <1>0, <2>1, <2>2, <2>7 DEF Shapes
  <2>. QED
    BY <2>1, <2>6, <2>7 DEF Shapes
<1>6. ASSUME NEW n \in LiveNode, Owes(n), NEW v \in Answer(n) \cup {None}, Run(n, v)
      PROVE  Shapes'
  <2>1. /\ LiveNode' = LiveNode
        /\ \A m \in Node :
              /\ node'[m].value = IF v # None /\ node[n].value = None
                                     /\ m \in Class(meta, n)
                                  THEN v ELSE node[m].value
              /\ \/ node'[m].shape = node[m].shape
                 \/ /\ v # None /\ node[n].value = None
                    /\ m = Root(meta, n) /\ node'[m].shape = Refined(node[m].shape, Observed(v))
    BY <1>6, RunFields DEF Base
  <2>2. ASSUME NEW m \in LiveNode, node'[m].shape # None
        PROVE  node'[m].value # None /\ node'[m].shape = node'[m].value.tag
    <3>1. m \in Class(meta, n) /\ node[n].value = None => node[m].shape = None
      <4>1. m \in Class(meta, n) => Root(meta, m) = Root(meta, n)
        BY LiveClasses DEF Base
      <4>. QED
        BY <4>1, OneKind DEF Shapes
    <3>2. Root(meta, n) \in Class(meta, n)
      BY LiveClasses DEF Base
    <3>3. /\ node'[m].value = IF v # None /\ node[n].value = None
                                 /\ m \in Class(meta, n)
                              THEN v ELSE node[m].value
          /\ \/ node'[m].shape = node[m].shape
             \/ /\ v # None /\ node[n].value = None
                /\ m = Root(meta, n) /\ node'[m].shape = Refined(node[m].shape, Observed(v))
      BY <1>0, <2>1
    <3>4. node[m].shape # None => /\ node[m].value # None
                                  /\ node[m].shape = node[m].value.tag
      BY DEF Shapes
    <3>5. CASE node'[m].shape = node[m].shape
      BY <2>2, <3>1, <3>3, <3>4, <3>5
    <3>6. CASE /\ v # None /\ node[n].value = None
               /\ m = Root(meta, n) /\ node'[m].shape = Refined(node[m].shape, Observed(v))
      <4>1. node'[m].value = v /\ node[m].shape = None
        BY <3>1, <3>2, <3>3, <3>6
      <4>2. node'[m].shape = Observed(v)
        BY <3>6, <4>1 DEF Refined
      <4>3. Observed(v) # None => Observed(v) = v.tag
        BY DEF Observed
      <4>. QED
        BY <2>2, <3>6, <4>1, <4>2, <4>3
    <3>. QED
      BY <3>3, <3>5, <3>6
  <2>. QED
    BY <2>1, <2>2 DEF Shapes
<1>7. ASSUME DropBlock
      PROVE  Shapes'
  <2>1. ASSUME NEW n \in LiveNode', node'[n].shape # None
        PROVE  node'[n].value # None /\ node'[n].shape = node'[n].value.tag
    <3>1. /\ n \in LiveNode /\ node'[n].value = node[n].value
      BY <1>7, NothingIsFilled
    <3>2. node'[n].shape \in {node[n].shape, Refined(node[n].shape, node[Root(meta, n)].shape)}
      BY <1>0, <1>7, <3>1, DropFields, SurvivorFields DEF Base
    <3>3. PICK r \in LiveNode : r = Root(meta, n) /\ Root(meta, r) = r
      BY <3>1, LiveClasses DEF Base
    <3>4. /\ node[n].value = None <=> node[r].value = None
          /\ node[n].value # None => node[n].value.tag = node[r].value.tag
      BY <3>1, <3>3, OneKind
    <3>5. /\ node[n].shape # None => node[n].value # None /\ node[n].shape = node[n].value.tag
          /\ node[r].shape # None => node[r].value # None /\ node[r].shape = node[r].value.tag
      BY <3>1 DEF Shapes
    <3>6. node'[n].shape \in {node[n].shape, node[r].shape}
      BY <3>2, <3>3 DEF Refined
    <3>. QED
      BY <2>1, <3>1, <3>4, <3>5, <3>6
  <2>. QED
    BY <2>1 DEF Shapes
<1>. QED
  BY <1>1, <1>2, <1>3, <1>4, <1>5, <1>6, <1>7, Steps

\* No step loses or changes the shape a surviving member's class states.
LEMMA ShapeStays ==
    ASSUME Ground, Named, Decided', Shapes, Shapes', Next,
           NEW n \in LiveNode, n \in LiveNode', node[Root(meta, n)].shape # None
    PROVE  node'[Root(meta', n)].shape = node[Root(meta, n)].shape
<1>. USE DEF Ground, Named
<1>0. LiveNode \subseteq Node
  BY DEF LiveNode
<1>1. PICK r \in LiveNode : r = Root(meta, n) /\ Root(meta, r) = r
  BY LiveClasses DEF Base
<1>2. /\ node[r].shape # None /\ node[r].value # None /\ node[r].shape = node[r].value.tag
      /\ r \in Node
  BY <1>0, <1>1 DEF Shapes
<1>K. ASSUME Root(meta', n) = r, node'[r].shape = node[r].shape
      PROVE  node'[Root(meta', n)].shape = node[Root(meta, n)].shape
  BY <1>1, <1>K
<1>3. ASSUME \/ \E b \in Block, p \in Block \cup {None} : AddBlock(b, p)
             \/ \E m \in Node : MarkScopeRoot(m) \/ AddAssert(m) \/ Collect(m)
             \/ \E f \in Function, b \in Block, p \in Function \cup {None} :
                   BeginFunction(f, b, p)
             \/ AssertRoots \/ TemplateRoots
      PROVE  node'[Root(meta', n)].shape = node[Root(meta, n)].shape
  <2>1. UNCHANGED <<node, meta>>
    BY <1>3 DEF AddBlock, MarkScopeRoot, AddAssert, Collect, BeginFunction, AssertRoots,
                TemplateRoots
  <2>. QED
    BY <2>1
<1>4. ASSUME NEW f \in Function, NEW m \in Node, Register(f, m)
      PROVE  node'[Root(meta', n)].shape = node[Root(meta, n)].shape
  <2>1. TypeOK /\ ClassInv /\ Register(f, m)
    BY <1>4 DEF Base
  <2>2. meta' = Find(meta, m) /\ \A x \in Node : node'[x].shape = node[x].shape
    BY <2>1, RegisterFields
  <2>3. Root(meta', n) = r
    BY <1>0, <1>1, <2>1, <2>2, RootsKept
  <2>. QED
    BY <1>2, <1>K, <2>2, <2>3
<1>5. ASSUME NEW m \in Node, Visit(m)
      PROVE  node'[Root(meta', n)].shape = node[Root(meta, n)].shape
  <2>1. meta' = Find(meta, m)
    BY <1>5, VisitRest DEF Base
  <2>2. \A x \in Node : node'[x].shape = node[x].shape
    BY <1>5, VisitNodes DEF Base
  <2>3. Root(meta', n) = r
    BY <1>0, <1>1, <2>1, RootsKept DEF Base
  <2>. QED
    BY <1>2, <1>K, <2>2, <2>3
<1>6. ASSUME NEW m \in Node, NEW b \in LiveBlock, NEW o \in Node \cup {None},
             NEW v \in FreshValue(b) \cup {None}, AddNode(m, b, v, o)
      PROVE  node'[Root(meta', n)].shape = node[Root(meta, n)].shape
  <2>1. /\ \A x \in Node : x # m => node'[x] = node[x]
        /\ m \notin LiveNode /\ meta' = MakeSet(meta, m)
    BY <1>6, AddNodeFields DEF Base
  <2>2. \A x \in LiveNode : Root(meta', x) = Root(meta, x)
    <3>1. PICK links : links = meta'
      OBVIOUS
    <3>2. PICK live : live = LiveNode
      OBVIOUS
    <3>3. /\ ClassesOf(meta, live) /\ live \in SUBSET Node /\ m \in Node \ live
          /\ links = MakeSet(meta, m)
      BY <2>1, <3>1, <3>2, LiveNodesAreNodes DEF Base, ClassInv
    <3>4. \A x \in live : Root(links, x) = Root(meta, x)
      BY ONLY <3>3, MakeSetKeeps
    <3>. QED
      BY <3>1, <3>2, <3>4
  <2>3. Root(meta', n) = r /\ node'[r] = node[r]
    BY <1>1, <1>2, <2>1, <2>2
  <2>. QED
    BY <1>K, <2>3
<1>7. ASSUME NEW a \in Node, NEW b \in Node, Unify(a, b)
      PROVE  node'[Root(meta', n)].shape = node[Root(meta, n)].shape
  <2>1. /\ a \in LiveNode /\ b \in LiveNode /\ LiveNode' = LiveNode
        /\ \A x \in Node : node[x].value # None => node'[x].value = node[x].value
    BY <1>7, UnifyFields DEF Base
  <2>2. PICK rep \in {Root(meta, a), Root(meta, b)} :
           /\ \A x \in LiveNode : Root(meta', x) =
                 IF Root(meta, x) \in {Root(meta, a), Root(meta, b)} THEN rep
                 ELSE Root(meta, x)
           /\ \A x \in Node : x # rep => node'[x].shape = node[x].shape
           /\ node'[rep].shape =
                 Refined(Refined(node[rep].shape, node[Root(meta, a)].shape),
                         node[Root(meta, b)].shape)
    BY <1>7, UnifyFields DEF Base
  <2>3. CASE r \in {Root(meta, a), Root(meta, b)}
    <3>1. Root(meta', n) = rep /\ Root(meta', r) = rep
      BY <1>1, <2>2, <2>3
    <3>2. rep \in LiveNode /\ Root(meta', rep) = rep
      BY <2>1, <2>2, LiveClasses DEF Base
    <3>3. node'[rep].shape # None
      BY <1>2, <2>2, <2>3 DEF Refined
    <3>4. node'[rep].value # None /\ node'[rep].shape = node'[rep].value.tag
      BY <2>1, <3>2, <3>3 DEF Shapes
    <3>5. OfAKind(node'[r].value, node'[rep].value)
      BY <2>1, <3>1, <3>2 DEF Decided, DecidedOf
    <3>6. node'[r].value.tag = node'[rep].value.tag
      BY <3>4, <3>5 DEF OfAKind
    <3>. QED
      BY <1>1, <1>2, <2>1, <3>1, <3>4, <3>6
  <2>4. CASE r \notin {Root(meta, a), Root(meta, b)}
    <3>1. Root(meta', n) = r /\ r # rep
      BY <1>1, <2>2, <2>4
    <3>. QED
      BY <1>2, <1>K, <2>2, <3>1
  <2>. QED
    BY <2>3, <2>4
<1>8. ASSUME NEW m \in LiveNode, Owes(m), NEW v \in Answer(m) \cup {None}, Run(m, v)
      PROVE  node'[Root(meta', n)].shape = node[Root(meta, n)].shape
  <2>1. /\ meta' = Find(meta, m) \/ meta' = meta
        /\ \A x \in Node : \/ node'[x].shape = node[x].shape
                           \/ node'[x].shape = Refined(node[x].shape, Observed(v))
    BY <1>8, RunFields DEF Base
  <2>2. Root(meta', n) = r
    BY <1>0, <1>1, <2>1, RootsKept DEF Base
  <2>3. node'[r].shape = node[r].shape
    BY <1>2, <2>1 DEF Refined
  <2>. QED
    BY <1>K, <2>2, <2>3
<1>9. ASSUME DropBlock
      PROVE  node'[Root(meta', n)].shape = node[Root(meta, n)].shape
  <2>1. PICK h : h = Root(meta', n)
    OBVIOUS
  <2>2. /\ h \in LiveNode' /\ h \in LiveNode /\ h \in Node
        /\ Root(meta, h) = r /\ FlattenedMeta[h].parent = None
        /\ r \notin Flattened => h = r
    BY <1>0, <1>1, <1>9, <2>1, AfterDrop
  <2>3. /\ node'[h].shape = IF r \in Flattened THEN Refined(node[h].shape, node[r].shape)
                            ELSE node[h].shape
        /\ node'[h].value = node[h].value
    <3>1. node'[h] = Survivor(h)
      BY <1>9, <2>2, DropFields DEF Base
    <3>2. Survivor(h).shape =
             IF Root(meta, h) \in Flattened /\ FlattenedMeta[h].parent = None
             THEN Refined(node[h].shape, node[Root(meta, h)].shape)
             ELSE node[h].shape
      BY <2>2, SurvivorFields DEF Base
    <3>3. node'[h].value = node[h].value
      BY <1>9, <2>2, NothingIsFilled
    <3>. QED
      BY <2>2, <3>1, <3>2, <3>3
  <2>4. node'[h].shape # None
    BY <1>2, <2>2, <2>3 DEF Refined
  <2>5. node'[h].shape = node'[h].value.tag
    BY <2>2, <2>4 DEF Shapes
  <2>6. node[h].value # None /\ node[h].value.tag = node[r].value.tag
    BY <1>1, <1>2, <2>2, OneKind
  <2>. QED
    BY <1>1, <1>2, <2>1, <2>3, <2>5, <2>6
<1>. QED
  BY <1>3, <1>4, <1>5, <1>6, <1>7, <1>8, <1>9, Steps

LEMMA ShapesInductive == Spec => [](Ground /\ Named /\ Shapes)
<1>1. Init => Shapes
  BY DEF Init, Shapes, LiveNode, AbsentNode
<1>2. Ground /\ Named /\ Ground' /\ Named' /\ Shapes /\ [Next]_vars => Shapes'
  <2>. SUFFICES ASSUME Ground, Named, Named', Shapes, [Next]_vars PROVE Shapes'
    OBVIOUS
  <2>1. CASE Next
    BY <2>1, ShapesStep DEF Named
  <2>2. CASE UNCHANGED vars
    BY <2>2 DEF vars, Shapes, LiveNode
  <2>. QED
    BY <2>1, <2>2
<1>. QED
  BY <1>1, <1>2, NamedInductive, PTL DEF Spec

(***************************************************************************)
(* What a class states of its shape is never lost or changed: it is its    *)
(* one value's tag, a union meets both sides' shapes, and a collect hands  *)
(* a released representative's shape to the new one.                       *)
(***************************************************************************)
THEOREM ShapesStay == Spec => ShapesAreKept
<1>1. Ground /\ Named /\ Shapes /\ Ground' /\ Named' /\ Shapes' /\ [Next]_vars
      => [\A n \in LiveNode \cap LiveNode' :
             LET shape == node[Root(meta, n)].shape
             IN  shape # None => node'[Root(meta', n)].shape = shape]_vars
  <2>. SUFFICES ASSUME Ground, Named, Shapes, Named', Shapes', Next,
                       NEW n \in LiveNode, n \in LiveNode', node[Root(meta, n)].shape # None
                PROVE  node'[Root(meta', n)].shape = node[Root(meta, n)].shape
    OBVIOUS
  <2>. QED
    BY ShapeStays DEF Named
<1>. QED
  BY <1>1, ShapesInductive, PTL DEF Spec, ShapesAreKept

(***************************************************************************)
(* A class is decided as a whole: no merge, answer, move or flatten leaves *)
(* a member of a decided class without a value, or with one of another     *)
(* kind than the other members' or than the class's shape states.          *)
(***************************************************************************)
THEOREM ClassesAreDecided == Spec => []ClassesDecideTogether
<1>1. Ground /\ Named /\ Shapes => ClassesDecideTogether
  <2>. SUFFICES ASSUME Ground, Named, Shapes, NEW n \in LiveNode, NEW m \in Class(meta, n)
                PROVE  LET v == node[n].value
                           w == node[m].value
                           shape == node[Root(meta, n)].shape
                       IN  \/ v = None /\ w = None /\ shape = None
                           \/ /\ v # None /\ w # None
                              /\ v.tag = w.tag /\ shape \in {v.tag, None}
    BY DEF ClassesDecideTogether
  <2>1. m \in LiveNode /\ Root(meta, m) = Root(meta, n)
    BY LiveClasses DEF Ground, Base
  <2>2. PICK r \in LiveNode : r = Root(meta, n) /\ Root(meta, r) = r
    BY LiveClasses DEF Ground, Base
  <2>3. /\ node[n].value = None <=> node[m].value = None
        /\ node[n].value # None => node[n].value.tag = node[m].value.tag
    BY <2>1, OneKind DEF Named
  <2>4. /\ node[r].value = None <=> node[n].value = None
        /\ node[r].value # None => node[r].value.tag = node[n].value.tag
    BY <2>2, OneKind DEF Named
  <2>5. node[r].shape # None => node[r].value # None /\ node[r].shape = node[r].value.tag
    BY DEF Shapes
  <2>. QED
    BY <2>2, <2>3, <2>4, <2>5
<1>. QED
  BY ShapesInductive, <1>1, PTL

-----------------------------------------------------------------------------
(***************************************************************************)
(* Payloads.  Once the walk has entered a class, what its outside members  *)
(* hold is in their own blocks' arenas, but for the member it was entered  *)
(* through; and so is what a node holds that the walk moved.               *)
(***************************************************************************)
AtHome(n) ==
    node[n].value # None /\ node[n].value.tag = "array"
        => node[n].value.arena = node[n].block

Payloads ==
    /\ \A n \in walk.black : Root(meta, n) \in walk.classes
    /\ \A n \in LiveNode :
          Root(meta, n) \in walk.classes /\ ~Inside(n) /\ n \notin walk.entries => AtHome(n)
    /\ walk.moved \subseteq walk.black
    /\ \A n \in walk.moved : AtHome(n)

LEMMA PayloadsAtVisit ==
    ASSUME Ground, Named, Payloads, NEW z \in Node, Visit(z)
    PROVE  Payloads'
<1>. USE DEF Ground, Named
<1>0. /\ LiveNode \subseteq Node /\ walk.black \subseteq LiveNode
      /\ walk.moved \subseteq walk.black
  BY DEF LiveNode, NamesLive, Payloads
<1>1. /\ walk'.source = walk.source /\ walk'.target = walk.target
      /\ walk'.black = walk.black \cup {z}
      /\ walk'.classes = walk.classes \cup {Root(meta, z)}
      /\ walk'.entries = (IF Root(meta, z) \in walk.classes THEN walk.entries
                          ELSE walk.entries \cup {z})
      /\ walk'.moved = (IF Inside(z) THEN walk.moved \cup {z} ELSE walk.moved)
      /\ z \in walk.grey /\ z \notin walk.black
      /\ meta' = Find(meta, z) /\ UNCHANGED block
  BY VisitRest DEF Base
<1>2. /\ LiveNode' = LiveNode
      /\ \A m \in Node :
            /\ node'[m].block = IF m = z /\ Inside(z) THEN walk.target ELSE node[m].block
            /\ SameSlot(node[m].value, node'[m].value)
            /\ m # z /\ m \notin Relocated(z) => node'[m] = node[m]
            /\ m = z /\ ~Inside(z) => node'[m] = node[m]
            /\ (m = z /\ Inside(z)) \/ m \in Relocated(z) =>
                  (node[m].value # None /\ node[m].value.tag = "array"
                      => node'[m].value.arena = node'[m].block)
  BY VisitNodes DEF Base
<1>3. z \in LiveNode /\ ~Idle
  BY <1>1 DEF NamesLive, Base, IInv, WalkInOrder
<1>4. \A m \in LiveNode : Root(meta', m) = Root(meta, m)
  BY <1>0, <1>1, RootsKept DEF Base
<1>5. ASSUME NEW m \in LiveNode, (m = z /\ Inside(z)) \/ m \in Relocated(z)
      PROVE  AtHome(m)'
  <2>1. /\ SameSlot(node[m].value, node'[m].value)
        /\ node[m].value # None /\ node[m].value.tag = "array"
              => node'[m].value.arena = node'[m].block
    BY <1>0, <1>2, <1>5
  <2>. QED
    BY <2>1 DEF AtHome, SameSlot
<1>6. ASSUME NEW m \in LiveNode, AtHome(m), ~(m = z /\ Inside(z))
      PROVE  AtHome(m)'
  <2>1. CASE m \in Relocated(z)
    BY <1>5, <2>1
  <2>2. CASE m \notin Relocated(z)
    <3>1. node'[m] = node[m]
      BY <1>0, <1>2, <1>6, <2>2
    <3>. QED
      BY <1>6, <3>1 DEF AtHome
  <2>. QED
    BY <2>1, <2>2
<1>7. ASSUME NEW n \in LiveNode, Root(meta, n) \in walk'.classes, ~Inside(n)',
             n \notin walk'.entries
      PROVE  AtHome(n)'
  <2>1. CASE n = z /\ Inside(z)
    BY <1>5, <2>1
  <2>2. CASE ~(n = z /\ Inside(z))
    <3>1. ~Inside(n)
      <4>1. node'[n].block = node[n].block
        BY <1>0, <1>2, <2>2
      <4>. QED
        BY <1>1, <1>7, <4>1 DEF Inside, Descends
    <3>2. CASE Root(meta, n) \in walk.classes
      <4>1. n \notin walk.entries
        BY <1>1, <1>7
      <4>2. AtHome(n)
        BY <3>1, <3>2, <4>1 DEF Payloads
      <4>. QED
        BY <1>6, <2>2, <4>2
    <3>3. CASE Root(meta, n) \notin walk.classes
      <4>1. Root(meta, n) = Root(meta, z) /\ n # z
        BY <1>1, <1>7, <3>3
      <4>2. n \in Class(meta, z)
        BY <1>3, <4>1, LiveClasses DEF Base
      <4>3. n \in Relocated(z)
        BY <3>1, <3>3, <4>1, <4>2 DEF Relocated, ClassWalk
      <4>. QED
        BY <1>5, <4>3
    <3>. QED
      BY <3>2, <3>3
  <2>. QED
    BY <2>1, <2>2
<1>8. ASSUME NEW n \in walk'.moved PROVE AtHome(n)'
  <2>1. CASE n = z /\ Inside(z)
    BY <1>3, <1>5, <2>1
  <2>2. CASE ~(n = z /\ Inside(z))
    <3>1. n \in walk.moved
      BY <1>1, <1>8, <2>2
    <3>2. n \in LiveNode /\ AtHome(n)
      BY <1>0, <3>1 DEF Payloads
    <3>. QED
      BY <1>6, <2>2, <3>2
  <2>. QED
    BY <2>1, <2>2
<1>9. \A n \in walk'.black : Root(meta', n) \in walk'.classes
  <2>1. \A n \in walk.black : Root(meta, n) \in walk.classes
    BY DEF Payloads
  <2>. QED
    BY <1>0, <1>1, <1>3, <1>4, <2>1
<1>10. walk'.moved \subseteq walk'.black
  BY <1>0, <1>1
<1>11. \A n \in LiveNode' : Root(meta', n) \in walk'.classes /\ ~Inside(n)'
                               /\ n \notin walk'.entries => AtHome(n)'
  BY <1>2, <1>4, <1>7
<1>. QED
  BY <1>8, <1>9, <1>10, <1>11 DEF Payloads

LEMMA PayloadsStep ==
    ASSUME Ground, Ground', Named, Payloads, Next
    PROVE  Payloads'
<1>. USE DEF Ground, Named
<1>1. ASSUME walk' = NoWalk PROVE Payloads'
  <2>1. walk'.black = {} /\ walk'.classes = {} /\ walk'.moved = {}
    BY <1>1 DEF NoWalk
  <2>. QED
    BY <2>1 DEF Payloads
<1>2. ASSUME Idle, UNCHANGED walk PROVE Payloads'
  BY <1>1, <1>2 DEF Placed
<1>3. ASSUME NEW r \in Node, Collect(r) PROVE Payloads'
  <2>1. walk'.black = {} /\ walk'.classes = {} /\ walk'.moved = {}
    BY <1>3, CollectFields DEF Base
  <2>. QED
    BY <2>1 DEF Payloads
<1>4. ASSUME AssertRoots \/ TemplateRoots PROVE Payloads'
  <2>1. /\ walk'.source = walk.source /\ walk'.black = walk.black
        /\ walk'.classes = walk.classes /\ walk'.entries = walk.entries
        /\ walk'.moved = walk.moved /\ UNCHANGED <<node, meta, block>>
    BY <1>4, RootsFields DEF Base
  <2>. QED
    BY <2>1 DEF Payloads, AtHome, LiveNode, Inside, Descends
<1>5. ASSUME DropBlock PROVE Payloads'
  BY <1>1, <1>5 DEF DropBlock
<1>6. ASSUME NEW b \in Block, NEW p \in Block \cup {None}, AddBlock(b, p) PROVE Payloads'
  BY <1>2, <1>6 DEF AddBlock
<1>7. ASSUME NEW n \in Node, NEW b \in LiveBlock, NEW o \in Node \cup {None},
             NEW v \in FreshValue(b) \cup {None}, AddNode(n, b, v, o)
      PROVE  Payloads'
  BY <1>2, <1>7 DEF AddNode
<1>8. ASSUME NEW n \in Node, MarkScopeRoot(n) \/ AddAssert(n) PROVE Payloads'
  BY <1>2, <1>8 DEF MarkScopeRoot, AddAssert
<1>9. ASSUME NEW f \in Function, NEW b \in Block, NEW p \in Function \cup {None},
             BeginFunction(f, b, p)
      PROVE  Payloads'
  BY <1>2, <1>9 DEF BeginFunction
<1>10. ASSUME NEW f \in Function, NEW n \in Node, Register(f, n) PROVE Payloads'
  BY <1>2, <1>10 DEF Register
<1>11. ASSUME NEW a \in Node, NEW b \in Node, Unify(a, b) PROVE Payloads'
  BY <1>2, <1>11 DEF Unify
<1>12. ASSUME NEW n \in LiveNode, NEW v, Run(n, v) PROVE Payloads'
  BY <1>2, <1>12 DEF Run
<1>. QED
  BY <1>3, <1>4, <1>5, <1>6, <1>7, <1>8, <1>9, <1>10, <1>11, <1>12, Steps, PayloadsAtVisit

LEMMA PayloadsInductive == Spec => [](Ground /\ Named /\ Payloads)
<1>1. Init => Payloads
  <2>. SUFFICES ASSUME Init PROVE Payloads
    OBVIOUS
  <2>1. walk.black = {} /\ walk.classes = {} /\ walk.moved = {}
    BY DEF Init, NoWalk
  <2>. QED
    BY <2>1 DEF Payloads
<1>2. Ground /\ Named /\ Ground' /\ Named' /\ Payloads /\ [Next]_vars => Payloads'
  <2>. SUFFICES ASSUME Ground, Ground', Named, Payloads, [Next]_vars PROVE Payloads'
    OBVIOUS
  <2>1. CASE Next
    BY <2>1, PayloadsStep
  <2>2. CASE UNCHANGED vars
    BY <2>2 DEF vars, Payloads, AtHome, LiveNode, Inside, Descends
  <2>. QED
    BY <2>1, <2>2
<1>. QED
  BY <1>1, <1>2, NamedInductive, PTL DEF Spec

(***************************************************************************)
(* When the arena goes, nothing the walk moved and no outside member of a  *)
(* class it entered through another member holds a payload in it:          *)
(* relocate_class_value and the move re-allocate what they pass.           *)
(***************************************************************************)
THEOREM PayloadsLeave == Spec => WalkedPayloadsMove
<1>1. Ground /\ Named /\ Payloads /\ Ground' /\ [Next]_vars
      => [DropBlock => \A n \in walk.moved \cup (walk.black \ walk.entries) :
                          PayloadIsLive(n)']_vars
  <2>. SUFFICES ASSUME Ground, Named, Payloads, Ground', DropBlock,
                       NEW n \in walk.moved \cup (walk.black \ walk.entries)
                PROVE  PayloadIsLive(n)'
    OBVIOUS
  <2>1. n \in walk.black /\ n \in walk.grey
    BY DEF Payloads, Named, NamesLive
  <2>2. n \in LiveNode /\ ~Inside(n) /\ n \in LiveNode'
    BY <2>1, SurvivorsAreOutside DEF Named
  <2>3. AtHome(n)
    <3>1. CASE n \in walk.moved
      BY <3>1 DEF Payloads
    <3>2. CASE n \notin walk.moved
      <4>1. n \notin walk.entries /\ Root(meta, n) \in walk.classes
        BY <2>1, <3>2 DEF Payloads
      <4>. QED
        BY <2>2, <4>1 DEF Payloads
    <3>. QED
      BY <3>1, <3>2
  <2>4. node'[n].value = node[n].value /\ node'[n].block = node[n].block
    BY <2>2, NothingIsFilled DEF Named
  <2>5. node'[n].block \in LiveBlock'
    BY <2>2 DEF Ground, Base, IInv
  <2>. QED
    BY <2>3, <2>4, <2>5 DEF AtHome, PayloadIsLive
<1>. QED
  BY <1>1, PayloadsInductive, PTL DEF Spec, WalkedPayloadsMove

-----------------------------------------------------------------------------
(* Summaries: the nearest common ancestor of the owners' scopes.           *)

Summaries ==
    \A r \in LiveNode :
        Root(meta, r) = r => node[r].summary = Meet(Class(meta, r), node, function)

\* A representative is a member without a parent.
LEMMA Representatives ==
    ASSUME ClassInv, NEW r \in LiveNode
    PROVE  meta[r].parent = None <=> Root(meta, r) = r
<1>1. PICK live : live = LiveNode
  OBVIOUS
<1>2. /\ live \in SUBSET Node /\ Typed(meta, Node) /\ WellFormed(meta, live) /\ r \in live
      /\ ClassesOf(meta, live) /\ r \in Node
  BY <1>1, LiveNodesAreNodes DEF ClassInv, ClassesOf
<1>3. meta[r].parent = None => Root(meta, r) = r
  BY ONLY <1>2, ListFacts
<1>4. Root(meta, r) = r => meta[r].parent = None
  BY <1>2, RootIsNode
<1>. QED
  BY <1>3, <1>4

LEMMA SummariesAre ==
    ASSUME ClassInv, Summaries
    PROVE  SummariesAreCurrent
<1>1. ASSUME NEW r \in LiveNode, meta[r].parent = None
      PROVE  node[r].summary = Meet(Members(meta, r), node, function)
  <2>1. Root(meta, r) = r
    BY <1>1, Representatives
  <2>2. Members(meta, r) = Class(meta, r)
    BY <2>1 DEF Class
  <2>. QED
    BY <2>1, <2>2 DEF Summaries
<1>. QED
  BY <1>1 DEF SummariesAreCurrent

LEMMA SameMeet ==
    ASSUME NEW members, NEW nodes, NEW functions, NEW nodes2, NEW functions2,
           \A n \in members :
              OwnerScope(n, nodes2, functions2) = OwnerScope(n, nodes, functions)
    PROVE  Meet(members, nodes2, functions2) = Meet(members, nodes, functions)
  BY DEF Meet

\* Two classes' meets meet in the meet of both.
LEMMA MeetOfBoth ==
    ASSUME NEW A, NEW B, NEW nodes, NEW functions
    PROVE  Meet(A \cup B, nodes, functions)
              = Meet(A, nodes, functions) \cap Meet(B, nodes, functions)
  BY DEF Meet

LEMMA SameScope ==
    ASSUME NEW n, node'[n].owner = node[n].owner,
           node[n].owner # None =>
              function'[node[n].owner].scope = function[node[n].owner].scope
    PROVE  OwnerScope(n, node', function') = OwnerScope(n, node, function)
  BY DEF OwnerScope

\* A step that changes no class, no summary and no live node's owner scope.
LEMMA SummariesKept ==
    ASSUME ClassInv, Summaries, LiveNode' = LiveNode,
           \A n \in LiveNode :
              /\ Root(meta', n) = Root(meta, n) /\ Class(meta', n) = Class(meta, n)
              /\ node'[n].summary = node[n].summary
              /\ OwnerScope(n, node', function') = OwnerScope(n, node, function)
    PROVE  Summaries'
<1>1. ASSUME NEW r \in LiveNode, Root(meta', r) = r
      PROVE  node'[r].summary = Meet(Class(meta', r), node', function')
  <2>1. Class(meta, r) \subseteq LiveNode
    BY LiveClasses
  <2>2. \A n \in Class(meta, r) :
           OwnerScope(n, node', function') = OwnerScope(n, node, function)
    BY <2>1
  <2>3. Meet(Class(meta, r), node', function') = Meet(Class(meta, r), node, function)
    BY <2>2, SameMeet
  <2>. QED
    BY <1>1, <2>3 DEF Summaries
<1>. QED
  BY <1>1 DEF Summaries

LEMMA SummariesAtUnify ==
    ASSUME Base, Base', Summaries, NEW a \in Node, NEW b \in Node, Unify(a, b)
    PROVE  Summaries'
<1>0. LiveNode \subseteq Node
  BY DEF LiveNode
<1>1. /\ a \in LiveNode /\ b \in LiveNode /\ LiveNode' = LiveNode /\ UNCHANGED function
      /\ \A n \in Node : node'[n].owner = node[n].owner
  BY UnifyFields DEF Base
<1>2. PICK rep \in {Root(meta, a), Root(meta, b)} :
         /\ \A x \in LiveNode : Root(meta', x) =
               IF Root(meta, x) \in {Root(meta, a), Root(meta, b)} THEN rep
               ELSE Root(meta, x)
         /\ \A n \in Node : n # rep => node'[n].summary = node[n].summary
         /\ node'[rep].summary = node[Root(meta, a)].summary
                                    \cap node[Root(meta, b)].summary
  BY UnifyFields DEF Base
<1>3. PICK ra \in LiveNode, rb \in LiveNode : ra = Root(meta, a) /\ rb = Root(meta, b)
  BY <1>1, LiveClasses DEF Base
<1>4. Root(meta, ra) = ra /\ Root(meta, rb) = rb
  BY <1>1, <1>3, LiveClasses DEF Base
<1>5. PICK links, live : links = meta' /\ live = LiveNode
  OBVIOUS
<1>6. ClassesOf(links, live) /\ live \in SUBSET Node
  BY <1>1, <1>5, LiveNodesAreNodes DEF Base, ClassInv
<1>7. \A r \in live : Class(links, r) = {m \in live : Root(links, m) = Root(links, r)}
  BY <1>6, RootIsNode
<1>8. \A r \in LiveNode : Class(meta, r) = {m \in LiveNode : Root(meta, m) = Root(meta, r)}
  BY LiveNodesAreNodes, RootIsNode DEF Base, ClassInv
<1>9. \A n \in LiveNode : OwnerScope(n, node', function') = OwnerScope(n, node, function)
  BY <1>0, <1>1, SameScope
<1>10. \A r \in LiveNode : Class(links, r) \subseteq LiveNode
  BY <1>5, <1>7
<1>11. ASSUME NEW r \in LiveNode, Root(meta', r) = r
       PROVE  node'[r].summary = Meet(Class(meta', r), node', function')
  <2>1. Meet(Class(links, r), node', function') = Meet(Class(links, r), node, function)
    BY <1>9, <1>10, SameMeet
  <2>2. CASE r = rep
    <3>1. \A m \in LiveNode : Root(links, m) = rep <=> Root(meta, m) \in {ra, rb}
      BY <1>2, <1>3, <1>5
    <3>2. Class(links, r) = Class(meta, ra) \cup Class(meta, rb)
      BY <1>4, <1>5, <1>7, <1>8, <1>11, <2>2, <3>1
    <3>3. /\ node[ra].summary = Meet(Class(meta, ra), node, function)
          /\ node[rb].summary = Meet(Class(meta, rb), node, function)
      BY <1>4 DEF Summaries
    <3>4. node'[r].summary = node[ra].summary \cap node[rb].summary
      BY <1>2, <1>3, <2>2
    <3>5. Meet(Class(links, r), node, function)
             = Meet(Class(meta, ra), node, function) \cap Meet(Class(meta, rb), node, function)
      BY <3>2, MeetOfBoth
    <3>. QED
      BY <1>5, <2>1, <3>3, <3>4, <3>5
  <2>3. CASE r # rep
    <3>1. Root(meta, r) = r /\ r \notin {ra, rb}
      BY <1>2, <1>3, <1>11, <2>3
    <3>2. \A m \in LiveNode : Root(links, m) = r <=> Root(meta, m) = r
      BY <1>2, <1>3, <1>5, <2>3, <3>1
    <3>3. Class(links, r) = Class(meta, r)
      <4>1. Class(links, r) = {m \in LiveNode : Root(links, m) = r}
        BY <1>5, <1>7, <1>11
      <4>2. Class(meta, r) = {m \in LiveNode : Root(meta, m) = r}
        BY <1>8, <3>1
      <4>. QED
        BY <3>2, <4>1, <4>2
    <3>4. node'[r].summary = node[r].summary
      BY <1>0, <1>2, <2>3
    <3>. QED
      BY <1>5, <2>1, <3>1, <3>3, <3>4 DEF Summaries
  <2>. QED
    BY <2>2, <2>3
<1>. QED
  BY <1>1, <1>11 DEF Summaries

LEMMA SummariesAtDrop ==
    ASSUME Ground, Named, Summaries, DropBlock
    PROVE  Summaries'
<1>. USE DEF Ground, Named
<1>0. LiveNode \subseteq Node /\ LiveFunction \subseteq Function
  BY DEF LiveNode, LiveFunction
<1>1. /\ meta' = FlattenedMeta /\ LiveNode' = LiveNode \ DoomedNodes
      /\ \A n \in LiveNode' : node'[n] = Survivor(n)
      /\ \A f \in Function : function'[f] =
            IF f \in DoomedFunctions THEN AbsentFunction("released") ELSE function[f]
  BY DropFields DEF Base
<1>2. function' = ReleasedFunctions
  BY DEF DropBlock
<1>3. \A n \in LiveNode' : node'[n].owner = node[n].owner
  BY NothingIsFilled
<1>4. ASSUME NEW r \in LiveNode', Root(meta', r) = r
      PROVE  node'[r].summary = Meet(Class(meta', r), node', function')
  <2>1. /\ r \in LiveNode /\ r \in Node
        /\ Class(meta', r) = Class(FlattenedMeta, r)
        /\ Class(meta', r) = Class(meta, r) \ DoomedNodes
        /\ Root(meta, r) \in Flattened <=> Class(meta, r) \cap DoomedNodes # {}
        /\ r = IF Root(meta, r) \in Flattened THEN FirstOf(meta, Survivors(Root(meta, r)))
               ELSE Root(meta, r)
    BY <1>0, <1>4, AfterDrop
  <2>2. Class(meta, r) \subseteq LiveNode
    BY <2>1, LiveClasses DEF Base
  <2>3. node'[r].summary = IF r \in Refreshed
                           THEN Meet(Class(FlattenedMeta, r), node, ReleasedFunctions)
                           ELSE node[r].summary
    BY <1>1, <2>1, SurvivorFields DEF Base
  <2>4. Meet(Class(meta', r), node', function') = Meet(Class(meta', r), node, function')
    <3>1. \A n \in Class(meta', r) :
             OwnerScope(n, node', function') = OwnerScope(n, node, function')
      BY <1>1, <1>3, <2>1, <2>2 DEF OwnerScope
    <3>. QED
      BY <3>1, SameMeet
  <2>5. CASE r \in Refreshed
    BY <1>2, <2>1, <2>3, <2>4, <2>5
  <2>6. CASE r \notin Refreshed
    <3>1. Root(meta, r) \notin Flattened
      BY <2>1, <2>6 DEF Refreshed
    <3>2. Class(meta', r) = Class(meta, r) /\ Root(meta, r) = r
          /\ Class(meta, r) \cap DoomedNodes = {}
      BY <2>1, <3>1
    <3>3. ASSUME NEW n \in Class(meta, r)
          PROVE  OwnerScope(n, node, function') = OwnerScope(n, node, function)
      <4>1. n \in LiveNode /\ n \in LiveNode' /\ n \in Node
        BY <1>0, <1>1, <2>2, <3>2
      <4>2. Root(meta, n) = r
        BY <2>1, <3>2, <4>1, LiveClasses DEF Base
      <4>3. Root(FlattenedMeta, n) = r
        BY <1>1, <3>1, <3>2, <4>1, <4>2, AfterDrop
      <4>4. node[n].owner \notin DoomedFunctions
        <5>1. SUFFICES ASSUME node[n].owner \in DoomedFunctions PROVE FALSE
          OBVIOUS
        <5>2. node[n].owner \in LiveFunction /\ node[n].owner # None
          BY <1>0, <5>1, KeysAreKeys DEF DoomedFunctions
        <5>3. n \in function[node[n].owner].nodes
          BY <4>1, <5>2 DEF Placed, Owners
        <5>4. PICK f \in DoomedFunctions : f = node[n].owner /\ n \in function[f].nodes
          BY <5>1, <5>3
        <5>5. n \in (UNION {function[g].nodes : g \in DoomedFunctions}) \ DoomedNodes
          <6>1. n \notin DoomedNodes
            BY <1>1, <4>1
          <6>2. PICK lists : lists = {function[g].nodes : g \in DoomedFunctions}
            OBVIOUS
          <6>3. \E list \in lists : n \in list
            BY <5>4, <6>2
          <6>4. n \in UNION lists
            BY ONLY <6>3
          <6>. QED
            BY <6>1, <6>2, <6>4
        <5>. QED
          BY <2>6, <4>3, <5>5 DEF Refreshed
      <4>5. node[n].owner \in Function \cup {None}
        BY <4>1 DEF Base, TypeOK, NodeRecord
      <4>. QED
        BY <1>1, <4>4, <4>5 DEF OwnerScope
    <3>4. Meet(Class(meta, r), node, function') = Meet(Class(meta, r), node, function)
      BY <3>3, SameMeet
    <3>5. node[r].summary = Meet(Class(meta, r), node, function)
      BY <2>1, <3>2 DEF Summaries
    <3>. QED
      BY <2>3, <2>4, <2>6, <3>2, <3>4, <3>5
  <2>. QED
    BY <2>5, <2>6
<1>. QED
  BY <1>4 DEF Summaries

LEMMA SummariesStep ==
    ASSUME Ground, Ground', Named, Summaries, Next
    PROVE  Summaries'
<1>. USE DEF Ground, Named
<1>0. LiveNode \subseteq Node /\ ClassInv
  BY DEF LiveNode, Base
<1>1. ASSUME \/ \E b \in Block, p \in Block \cup {None} : AddBlock(b, p)
             \/ \E n \in Node : MarkScopeRoot(n) \/ AddAssert(n) \/ Collect(n)
             \/ AssertRoots \/ TemplateRoots
      PROVE  Summaries'
  <2>1. UNCHANGED <<node, meta, function>>
    BY <1>1 DEF AddBlock, MarkScopeRoot, AddAssert, Collect, AssertRoots, TemplateRoots
  <2>. QED
    BY <2>1 DEF Summaries, LiveNode
<1>2. ASSUME NEW f \in Function, NEW b \in Block, NEW p \in Function \cup {None},
             BeginFunction(f, b, p)
      PROVE  Summaries'
  <2>1. /\ function[f].status = "unborn" /\ UNCHANGED <<node, meta>>
        /\ \A g \in Function : g # f => function'[g] = function[g]
    BY <1>2, BeginFields DEF Base
  <2>2. LiveNode' = LiveNode
    BY <2>1 DEF LiveNode
  <2>3. ASSUME NEW n \in LiveNode
        PROVE  OwnerScope(n, node', function') = OwnerScope(n, node, function)
    <3>1. node[n].owner \in Function \cup {None}
      BY <1>0 DEF Base, TypeOK, NodeRecord
    <3>2. node[n].owner # None => node[n].owner # f
      BY <2>1 DEF Placed, Owners
    <3>. QED
      BY <2>1, <3>1, <3>2, SameScope
  <2>. QED
    BY <1>0, <2>1, <2>2, <2>3, SummariesKept
<1>3. ASSUME NEW f \in Function, NEW n \in Node, Register(f, n)
      PROVE  Summaries'
  <2>1. TypeOK /\ ClassInv /\ Register(f, n)
    BY <1>3 DEF Base
  <2>2. /\ n \in LiveNode /\ LiveNode' = LiveNode /\ meta' = Find(meta, n)
        /\ \A m \in Node :
              /\ node'[m].owner = IF m = n THEN f ELSE node[m].owner
              /\ node'[m].summary = IF m = Root(meta, n)
                                    THEN Meet(Class(meta, n), node', function)
                                    ELSE node[m].summary
    BY <2>1, RegisterFields
  <2>3. \A g \in Function : function'[g].scope = function[g].scope
    BY <2>1, RegisterFields
  <2>4. \A m \in Node : Root(meta', m) = Root(meta, m) /\ Class(meta', m) = Class(meta, m)
    BY <2>1, <2>2, RootsKept
  <2>5. ASSUME NEW m \in LiveNode
        PROVE  /\ OwnerScope(m, node', function') = OwnerScope(m, node', function)
               /\ m # n => OwnerScope(m, node', function) = OwnerScope(m, node, function)
    <3>1. node[m].owner \in Function \cup {None}
      BY <1>0 DEF Base, TypeOK, NodeRecord
    <3>. QED
      BY <1>0, <2>2, <2>3, <3>1 DEF OwnerScope
  <2>6. ASSUME NEW r \in LiveNode, Root(meta', r) = r
        PROVE  node'[r].summary = Meet(Class(meta', r), node', function')
    <3>1. Root(meta, r) = r /\ Class(meta', r) = Class(meta, r) /\ r \in Node
          /\ Class(meta, r) \subseteq LiveNode
      BY <1>0, <2>4, <2>6, LiveClasses
    <3>2. Meet(Class(meta, r), node', function') = Meet(Class(meta, r), node', function)
      BY <2>5, <3>1, SameMeet
    <3>3. CASE r = Root(meta, n)
      <4>1. Class(meta, r) = Class(meta, n)
        BY <1>0, <2>2, <3>1, <3>3, LiveClasses
      <4>. QED
        BY <2>2, <3>1, <3>2, <3>3, <4>1
    <3>4. CASE r # Root(meta, n)
      <4>1. n \notin Class(meta, r)
        BY <1>0, <2>2, <3>1, <3>4, LiveClasses
      <4>2. \A m \in Class(meta, r) :
               OwnerScope(m, node', function) = OwnerScope(m, node, function)
        BY <2>5, <3>1, <4>1
      <4>3. Meet(Class(meta, r), node', function) = Meet(Class(meta, r), node, function)
        BY <4>2, SameMeet
      <4>. QED
        BY <2>2, <3>1, <3>2, <3>4, <4>3 DEF Summaries
    <3>. QED
      BY <3>3, <3>4
  <2>. QED
    BY <2>2, <2>6 DEF Summaries
<1>4. ASSUME NEW n \in Node, Visit(n)
      PROVE  Summaries'
  <2>1. /\ meta' = Find(meta, n)
        /\ \A f \in Function : function'[f].scope = function[f].scope
    BY <1>4, VisitRest DEF Base
  <2>2. /\ LiveNode' = LiveNode
        /\ \A m \in Node : /\ node'[m].owner = node[m].owner
                           /\ node'[m].summary = node[m].summary
    BY <1>4, VisitNodes DEF Base
  <2>3. ASSUME NEW m \in LiveNode
        PROVE  OwnerScope(m, node', function') = OwnerScope(m, node, function)
    <3>1. node[m].owner \in Function \cup {None}
      BY <1>0 DEF Base, TypeOK, NodeRecord
    <3>. QED
      BY <1>0, <2>1, <2>2, <3>1, SameScope
  <2>. QED
    BY <1>0, <2>1, <2>2, <2>3, RootsKept, SummariesKept
<1>5. ASSUME NEW n \in LiveNode, Owes(n), NEW v \in Answer(n) \cup {None}, Run(n, v)
      PROVE  Summaries'
  <2>1. /\ LiveNode' = LiveNode /\ UNCHANGED function
        /\ meta' = Find(meta, n) \/ meta' = meta
        /\ \A m \in Node : /\ node'[m].owner = node[m].owner
                           /\ node'[m].summary = node[m].summary
    BY <1>5, RunFields DEF Base
  <2>2. \A m \in LiveNode : OwnerScope(m, node', function') = OwnerScope(m, node, function)
    BY <1>0, <2>1, SameScope
  <2>. QED
    BY <1>0, <2>1, <2>2, RootsKept, SummariesKept
<1>6. ASSUME NEW n \in Node, NEW b \in LiveBlock, NEW o \in Node \cup {None},
             NEW v \in FreshValue(b) \cup {None}, AddNode(n, b, v, o)
      PROVE  Summaries'
  <2>1. /\ \A m \in Node : m # n => node'[m] = node[m]
        /\ n \notin LiveNode /\ LiveNode' = LiveNode \cup {n}
        /\ node'[n].owner = None /\ node'[n].summary = {}
        /\ meta' = MakeSet(meta, n) /\ UNCHANGED function
    BY <1>6, AddNodeFields DEF Base
  <2>2. /\ Class(meta', n) = {n}
        /\ \A x \in LiveNode : /\ Root(meta', x) = Root(meta, x)
                               /\ Class(meta', x) = Class(meta, x)
    <3>1. PICK links : links = meta'
      OBVIOUS
    <3>2. PICK live : live = LiveNode
      OBVIOUS
    <3>3. /\ ClassesOf(meta, live) /\ live \in SUBSET Node /\ n \in Node \ live
          /\ links = MakeSet(meta, n)
      BY <1>0, <2>1, <3>1, <3>2, LiveNodesAreNodes DEF ClassInv
    <3>4. \A x \in live : Root(links, x) = Root(meta, x)
      BY ONLY <3>3, MakeSetKeeps
    <3>5. \A x \in live : Class(links, x) = Class(meta, x)
      BY ONLY <3>3, MakeSetKeeps
    <3>6. Class(links, n) = {n}
      BY ONLY <3>3, MakeSetAddsClass
    <3>. QED
      BY <3>1, <3>2, <3>4, <3>5, <3>6
  <2>3. node'[n].summary = Meet(Class(meta', n), node', function')
    BY <2>1, <2>2 DEF Meet, OwnerScope
  <2>4. ASSUME NEW r \in LiveNode, Root(meta', r) = r
        PROVE  node'[r].summary = Meet(Class(meta', r), node', function')
    <3>1. Root(meta, r) = r /\ Class(meta', r) = Class(meta, r)
          /\ Class(meta, r) \subseteq LiveNode
      BY <1>0, <2>2, <2>4, LiveClasses
    <3>2. \A m \in LiveNode : node'[m] = node[m]
      BY <1>0, <2>1
    <3>3. \A m \in Class(meta, r) :
             OwnerScope(m, node', function') = OwnerScope(m, node, function)
      BY <2>1, <3>1, <3>2 DEF OwnerScope
    <3>4. Meet(Class(meta, r), node', function') = Meet(Class(meta, r), node, function)
      BY <3>3, SameMeet
    <3>. QED
      BY <3>1, <3>2, <3>4 DEF Summaries
  <2>. QED
    BY <2>1, <2>3, <2>4 DEF Summaries
<1>7. ASSUME NEW a \in Node, NEW b \in Node, Unify(a, b)
      PROVE  Summaries'
  BY <1>7, SummariesAtUnify
<1>8. ASSUME DropBlock
      PROVE  Summaries'
  BY <1>8, SummariesAtDrop
<1>. QED
  BY <1>1, <1>2, <1>3, <1>4, <1>5, <1>6, <1>7, <1>8, Steps

LEMMA SummariesInductive == Spec => [](Ground /\ Named /\ Summaries)
<1>1. Init => Summaries
  <2>. SUFFICES ASSUME Init PROVE Summaries
    OBVIOUS
  <2>1. LiveNode = {}
    BY DEF Init, LiveNode, AbsentNode
  <2>. QED
    BY <2>1 DEF Summaries
<1>2. Ground /\ Named /\ Ground' /\ Summaries /\ [Next]_vars => Summaries'
  <2>. SUFFICES ASSUME Ground, Ground', Named, Summaries, [Next]_vars PROVE Summaries'
    OBVIOUS
  <2>1. CASE Next
    BY <2>1, SummariesStep
  <2>2. CASE UNCHANGED vars
    BY <2>2 DEF vars, Summaries, LiveNode
  <2>. QED
    BY <2>1, <2>2
<1>. QED
  BY <1>1, <1>2, NamedInductive, PTL DEF Spec

(***************************************************************************)
(* A representative always states what add_in_function,                    *)
(* try_promise_equal and drop_block are there to keep: the scopes that     *)
(* every member's owner stands in.                                         *)
(***************************************************************************)
THEOREM SummariesStay == Spec => []SummariesAreCurrent
<1>1. Ground /\ Named /\ Summaries => SummariesAreCurrent
  BY SummariesAre DEF Ground, Base
<1>. QED
  BY <1>1, SummariesInductive, PTL
=============================================================================
