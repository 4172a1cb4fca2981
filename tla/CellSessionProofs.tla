------------------------- MODULE CellSessionProofs -------------------------
(***************************************************************************)
(* What CellSession guarantees for any number of buffers, statements,      *)
(* codes, edits, imports, restarts and savings cut short: whoever reads a  *)
(* module finds it filed, no two cells name one module; and, within one    *)
(* process, a retained cell answers what a fresh compile computes.         *)
(***************************************************************************)
EXTENDS CellSession, FiniteSetTheorems, Induction, TLAPS

-----------------------------------------------------------------------------
(***************************************************************************)
(* The functions over the statements of a program, place by place.  Each   *)
(* is defined because a statement reads earlier ones only.                 *)
(***************************************************************************)
LEMMA SizesAre == N \in Nat /\ MaxKey \in Nat
  BY SizeAssumption

LEMMA ReadsAre ==
    ASSUME NEW prog \in Program, NEW i \in Stmt
    PROVE  /\ \A j \in ReadsOf(prog, i) : j \in 0 .. N /\ j < i
           /\ prog[i] # None => PairOf(prog, i) \in Pair /\ ReadsOf(prog, i) = Reads[PairOf(prog, i)]
<1>1. CASE prog[i] = None
  BY <1>1 DEF ReadsOf
<1>2. CASE prog[i] # None
  <2>1. prog[i].code \in Code
    BY <1>2 DEF Program
  <2>2. PairOf(prog, i) \in Pair /\ PairOf(prog, i)[1] = i
    BY <2>1 DEF PairOf, Pair
  <2>. QED
    BY <1>2, <2>2, ReadsAssumption DEF ReadsOf
<1>. QED
  BY <1>1, <1>2

LEMMA FreshIs ==
    ASSUME NEW prog \in Program
    PROVE  /\ Fresh(prog)[0] = {<<0, imported>>}
           /\ \A i \in Stmt : Fresh(prog)[i] =
                IF prog[i] = None THEN {<<i, None>>}
                ELSE {PairOf(prog, i)} \cup UNION {Fresh(prog)[j] : j \in ReadsOf(prog, i)}
<1>. DEFINE S == SUBSET ({<<0, imported>>} \cup (Stmt \X (Code \cup {None})))
            Body(i, f) == IF i = 0 THEN {<<0, imported>>}
                          ELSE IF prog[i] = None THEN {<<i, None>>}
                          ELSE {PairOf(prog, i)} \cup UNION {f[j] : j \in ReadsOf(prog, i)}
            G == [p \in (0 .. N) \X [0 .. N -> S] |-> Body(p[1], p[2])]
            Def(f) == [i \in 0 .. N |-> Body(i, f)]
            at == CHOOSE f : f = Def(f)
<1>1. N \in Nat /\ {} \in S
  BY SizesAre
<1>2. \A i \in 1 .. N : \A j \in ReadsOf(prog, i) : j \in 0 .. N /\ j < i
  BY ReadsAre DEF Stmt
<1>3. ASSUME NEW i \in 0 .. N, NEW f \in [0 .. N -> S] PROVE Body(i, f) \in S
  <2>1. CASE i # 0 /\ prog[i] # None
    <3>1. PairOf(prog, i) \in Stmt \X (Code \cup {None})
      BY <2>1, ReadsAre DEF Pair, Stmt
    <3>2. \A j \in ReadsOf(prog, i) : f[j] \in S
      BY <1>2, <2>1
    <3>. QED
      BY <2>1, <3>1, <3>2
  <2>. QED
    BY <2>1 DEF Stmt
<1>4. ASSUME NEW i \in 0 .. N, NEW f, NEW g, \A j \in 0 .. i - 1 : f[j] = g[j]
      PROVE  Body(i, f) = Body(i, g)
  <2>1. CASE i # 0
    <3>1. \A j \in ReadsOf(prog, i) : f[j] = g[j]
      BY <1>2, <1>4, <2>1
    <3>. QED
      BY <3>1
  <2>. QED
    BY <2>1
<1>5. \A i \in 0 .. N : \A f \in [0 .. N -> S] : G[<<i, f>>] = Body(i, f)
  <2>. HIDE DEF Body, S
  <2>. QED
    OBVIOUS
<1>6. Causal(N, S, G)
  <2>. HIDE DEF Body, S
  <2>. QED
    BY <1>3, <1>4, <1>5 DEF Causal
<1>. HIDE DEF G, S
<1>7. PICK g : Recurs(g, N, S, G)
  BY <1>1, <1>6, RecursionExists
<1>8. g = Def(g)
  <2>. HIDE DEF Body
  <2>. QED
    BY <1>5, <1>7 DEF Recurs
<1>9. at = Def(at)
  <2>. HIDE DEF Def
  <2>. QED
    BY <1>8
<1>10. Fresh(prog) = at
  BY DEF Fresh
<1>. HIDE DEF at
<1>11. \A i \in 0 .. N : Fresh(prog)[i] = Body(i, Fresh(prog))
  <2>. HIDE DEF Body
  <2>. QED
    BY <1>9, <1>10
<1>12. 0 \in 0 .. N /\ \A i \in Stmt : i \in 0 .. N /\ i # 0
  BY <1>1 DEF Stmt
<1>. QED
  BY <1>11, <1>12

LEMMA KeysAre ==
    ASSUME NEW prog \in Program
    PROVE  /\ Keys(prog)[0] = {<<0, imported>>}
           /\ \A i \in Stmt : Keys(prog)[i] =
                IF prog[i] = None THEN {<<i, None>>}
                ELSE IF PairOf(prog, i) \in Keyless \/ None \in {Keys(prog)[j] : j \in ReadsOf(prog, i)}
                  THEN None
                  ELSE {PairOf(prog, i)} \cup UNION {Keys(prog)[j] : j \in ReadsOf(prog, i)}
<1>. DEFINE S == {None} \cup SUBSET ({<<0, imported>>} \cup (Stmt \X (Code \cup {None})))
            Body(i, f) == IF i = 0 THEN {<<0, imported>>}
                          ELSE IF prog[i] = None THEN {<<i, None>>}
                          ELSE LET read == {f[j] : j \in ReadsOf(prog, i)} IN
                               IF PairOf(prog, i) \in Keyless \/ None \in read THEN None
                               ELSE {PairOf(prog, i)} \cup UNION read
            G == [p \in (0 .. N) \X [0 .. N -> S] |-> Body(p[1], p[2])]
            Def(f) == [i \in 0 .. N |-> Body(i, f)]
            at == CHOOSE f : f = Def(f)
<1>1. N \in Nat /\ None \in S
  BY SizesAre
<1>2. \A i \in 1 .. N : \A j \in ReadsOf(prog, i) : j \in 0 .. N /\ j < i
  BY ReadsAre DEF Stmt
<1>3. ASSUME NEW i \in 0 .. N, NEW f \in [0 .. N -> S] PROVE Body(i, f) \in S
  <2>. DEFINE read == {f[j] : j \in ReadsOf(prog, i)}
  <2>1. CASE i # 0 /\ prog[i] # None /\ ~(PairOf(prog, i) \in Keyless \/ None \in read)
    <3>1. PairOf(prog, i) \in Stmt \X (Code \cup {None})
      BY <2>1, ReadsAre DEF Pair, Stmt
    <3>2. \A j \in ReadsOf(prog, i) : f[j] \in S /\ f[j] # None
      BY <1>2, <2>1
    <3>3. \A x \in read : x \in SUBSET ({<<0, imported>>} \cup (Stmt \X (Code \cup {None})))
      BY <3>2
    <3>4. Body(i, f) = {PairOf(prog, i)} \cup UNION read
      BY <2>1
    <3>. HIDE DEF read, Body
    <3>. QED
      BY <3>1, <3>3, <3>4
  <2>2. CASE i # 0 /\ prog[i] # None /\ (PairOf(prog, i) \in Keyless \/ None \in read)
    BY <2>2
  <2>3. CASE i = 0 \/ prog[i] = None
    BY <2>3 DEF Stmt
  <2>. QED
    BY <2>1, <2>2, <2>3
<1>4. ASSUME NEW i \in 0 .. N, NEW f, NEW g, \A j \in 0 .. i - 1 : f[j] = g[j]
      PROVE  Body(i, f) = Body(i, g)
  <2>1. CASE i # 0
    <3>1. \A j \in ReadsOf(prog, i) : f[j] = g[j]
      BY <1>2, <1>4, <2>1
    <3>2. {f[j] : j \in ReadsOf(prog, i)} = {g[j] : j \in ReadsOf(prog, i)}
      BY <3>1
    <3>. QED
      BY <3>2
  <2>. QED
    BY <2>1
<1>5. \A i \in 0 .. N : \A f \in [0 .. N -> S] : G[<<i, f>>] = Body(i, f)
  <2>. HIDE DEF Body, S
  <2>. QED
    OBVIOUS
<1>6. Causal(N, S, G)
  <2>. HIDE DEF Body, S
  <2>. QED
    BY <1>3, <1>4, <1>5 DEF Causal
<1>. HIDE DEF G, S
<1>7. PICK g : Recurs(g, N, S, G)
  BY <1>1, <1>6, RecursionExists
<1>8. g = Def(g)
  <2>. HIDE DEF Body
  <2>. QED
    BY <1>5, <1>7 DEF Recurs
<1>9. at = Def(at)
  <2>. HIDE DEF Def
  <2>. QED
    BY <1>8
<1>10. Keys(prog) = at
  BY DEF Keys
<1>. HIDE DEF at
<1>11. \A i \in 0 .. N : Keys(prog)[i] = Body(i, Keys(prog))
  <2>. HIDE DEF Body
  <2>. QED
    BY <1>9, <1>10
<1>12. 0 \in 0 .. N /\ \A i \in Stmt : i \in 0 .. N /\ i # 0
  BY <1>1 DEF Stmt
<1>. QED
  BY <1>11, <1>12

LEMMA BehindIs ==
    ASSUME NEW prog \in Program
    PROVE  /\ Behind(prog)[0] = {0}
           /\ \A i \in Stmt : Behind(prog)[i] = {i} \cup UNION {Behind(prog)[j] : j \in ReadsOf(prog, i)}
<1>. DEFINE S == SUBSET (0 .. N)
            Body(i, f) == IF i = 0 THEN {0} ELSE {i} \cup UNION {f[j] : j \in ReadsOf(prog, i)}
            G == [p \in (0 .. N) \X [0 .. N -> S] |-> Body(p[1], p[2])]
            Def(f) == [i \in 0 .. N |-> Body(i, f)]
            at == CHOOSE f : f = Def(f)
<1>1. N \in Nat /\ {} \in S
  BY SizesAre
<1>2. \A i \in 1 .. N : \A j \in ReadsOf(prog, i) : j \in 0 .. N /\ j < i
  BY ReadsAre DEF Stmt
<1>3. ASSUME NEW i \in 0 .. N, NEW f \in [0 .. N -> S] PROVE Body(i, f) \in S
  <2>1. CASE i # 0
    <3>1. \A j \in ReadsOf(prog, i) : f[j] \in S
      BY <1>2, <2>1
    <3>. QED
      BY <2>1, <3>1
  <2>. QED
    BY <2>1
<1>4. ASSUME NEW i \in 0 .. N, NEW f, NEW g, \A j \in 0 .. i - 1 : f[j] = g[j]
      PROVE  Body(i, f) = Body(i, g)
  <2>1. CASE i # 0
    <3>1. \A j \in ReadsOf(prog, i) : f[j] = g[j]
      BY <1>2, <1>4, <2>1
    <3>2. {f[j] : j \in ReadsOf(prog, i)} = {g[j] : j \in ReadsOf(prog, i)}
      BY <3>1
    <3>. QED
      BY <3>2
  <2>. QED
    BY <2>1
<1>5. \A i \in 0 .. N : \A f \in [0 .. N -> S] : G[<<i, f>>] = Body(i, f)
  <2>. HIDE DEF Body, S
  <2>. QED
    OBVIOUS
<1>6. Causal(N, S, G)
  <2>. HIDE DEF Body, S
  <2>. QED
    BY <1>3, <1>4, <1>5 DEF Causal
<1>. HIDE DEF G, S
<1>7. PICK g : Recurs(g, N, S, G)
  BY <1>1, <1>6, RecursionExists
<1>8. g = Def(g)
  <2>. HIDE DEF Body
  <2>. QED
    BY <1>5, <1>7 DEF Recurs
<1>9. at = Def(at)
  <2>. HIDE DEF Def
  <2>. QED
    BY <1>8
<1>10. Behind(prog) = at
  BY DEF Behind
<1>. HIDE DEF at
<1>11. \A i \in 0 .. N : Behind(prog)[i] = Body(i, Behind(prog))
  <2>. HIDE DEF Body
  <2>. QED
    BY <1>9, <1>10
<1>12. 0 \in 0 .. N /\ \A i \in Stmt : i \in 0 .. N /\ i # 0
  BY <1>1 DEF Stmt
<1>. QED
  BY <1>11, <1>12

LEMMA LoweredIs ==
    ASSUME NEW prog \in Program, NEW kept
    PROVE  /\ Lowered(prog, kept)[0].own = {} /\ Lowered(prog, kept)[0].refs = {0}
           /\ \A i \in Stmt :
                /\ prog[i] = None =>
                     Lowered(prog, kept)[i].own = {<<i, None>>} /\ Lowered(prog, kept)[i].refs = {}
                /\ prog[i] # None /\ kept[i] # None =>
                     Lowered(prog, kept)[i].own = {} /\ Lowered(prog, kept)[i].refs = {kept[i].module}
                /\ prog[i] # None /\ kept[i] = None =>
                     /\ Lowered(prog, kept)[i].own =
                          {PairOf(prog, i)} \cup UNION {Lowered(prog, kept)[j].own : j \in ReadsOf(prog, i)}
                     /\ Lowered(prog, kept)[i].refs = UNION {Lowered(prog, kept)[j].refs : j \in ReadsOf(prog, i)}
<1>. DEFINE S == [own : SUBSET (Stmt \X (Code \cup {None})),
                  refs : SUBSET ({0} \cup {kept[i].module : i \in Stmt})]
            Body(i, f) == IF i = 0 THEN [own |-> {}, refs |-> {0}]
                          ELSE IF prog[i] = None THEN [own |-> {<<i, None>>}, refs |-> {}]
                          ELSE IF kept[i] # None THEN [own |-> {}, refs |-> {kept[i].module}]
                          ELSE LET read == {f[j] : j \in ReadsOf(prog, i)} IN
                               [own |-> {PairOf(prog, i)} \cup UNION {n.own : n \in read},
                                refs |-> UNION {n.refs : n \in read}]
            G == [p \in (0 .. N) \X [0 .. N -> S] |-> Body(p[1], p[2])]
            Def(f) == [i \in 0 .. N |-> Body(i, f)]
            at == CHOOSE f : f = Def(f)
<1>1. N \in Nat /\ [own |-> {}, refs |-> {}] \in S
  BY SizesAre
<1>2. \A i \in 1 .. N : \A j \in ReadsOf(prog, i) : j \in 0 .. N /\ j < i
  BY ReadsAre DEF Stmt
<1>3. ASSUME NEW i \in 0 .. N, NEW f \in [0 .. N -> S] PROVE Body(i, f) \in S
  <2>1. CASE i # 0 /\ prog[i] # None /\ kept[i] = None
    <3>. DEFINE read == {f[j] : j \in ReadsOf(prog, i)}
    <3>1. PairOf(prog, i) \in Stmt \X (Code \cup {None})
      BY <2>1, ReadsAre DEF Pair, Stmt
    <3>2. \A x \in read : x \in S
      BY <1>2, <2>1
    <3>3. Body(i, f) = [own |-> {PairOf(prog, i)} \cup UNION {x.own : x \in read},
                        refs |-> UNION {x.refs : x \in read}]
      BY <2>1
    <3>4. /\ \A x \in read : x.own \subseteq Stmt \X (Code \cup {None})
          /\ \A x \in read : x.refs \subseteq {0} \cup {kept[j].module : j \in Stmt}
      BY <3>2
    <3>. HIDE DEF read, Body
    <3>. QED
      BY <3>1, <3>3, <3>4
  <2>2. CASE i # 0 /\ prog[i] # None /\ kept[i] # None
    <3>1. kept[i].module \in {kept[j].module : j \in Stmt}
      BY <2>2 DEF Stmt
    <3>2. Body(i, f) = [own |-> {}, refs |-> {kept[i].module}]
      BY <2>2
    <3>. HIDE DEF Body
    <3>. QED
      BY <3>1, <3>2
  <2>3. CASE i # 0 /\ prog[i] = None
    BY <2>3 DEF Stmt
  <2>4. CASE i = 0
    BY <2>4
  <2>. QED
    BY <2>1, <2>2, <2>3, <2>4
<1>4. ASSUME NEW i \in 0 .. N, NEW f, NEW g, \A j \in 0 .. i - 1 : f[j] = g[j]
      PROVE  Body(i, f) = Body(i, g)
  <2>1. CASE i # 0
    <3>1. \A j \in ReadsOf(prog, i) : f[j] = g[j]
      BY <1>2, <1>4, <2>1
    <3>2. {f[j] : j \in ReadsOf(prog, i)} = {g[j] : j \in ReadsOf(prog, i)}
      BY <3>1
    <3>. QED
      BY <3>2
  <2>. QED
    BY <2>1
<1>5. \A i \in 0 .. N : \A f \in [0 .. N -> S] : G[<<i, f>>] = Body(i, f)
  <2>. HIDE DEF Body, S
  <2>. QED
    OBVIOUS
<1>6. Causal(N, S, G)
  <2>. HIDE DEF Body, S
  <2>. QED
    BY <1>3, <1>4, <1>5 DEF Causal
<1>. HIDE DEF G, S
<1>7. PICK g : Recurs(g, N, S, G)
  BY <1>1, <1>6, RecursionExists
<1>8. g = Def(g)
  <2>. HIDE DEF Body
  <2>. QED
    BY <1>5, <1>7 DEF Recurs
<1>9. at = Def(at)
  <2>. HIDE DEF Def
  <2>. QED
    BY <1>8
<1>10. Lowered(prog, kept) = at
  BY DEF Lowered
<1>. HIDE DEF at
<1>11. \A i \in 0 .. N : Lowered(prog, kept)[i] = Body(i, Lowered(prog, kept))
  <2>. HIDE DEF Body
  <2>. QED
    BY <1>9, <1>10
<1>12. 0 \in 0 .. N /\ \A i \in Stmt : i \in 0 .. N /\ i # 0
  BY <1>1 DEF Stmt
<1>. DEFINE L == Lowered(prog, kept)
<1>13. ASSUME NEW i \in Stmt, prog[i] # None, kept[i] = None
       PROVE  /\ L[i].own = {PairOf(prog, i)} \cup UNION {L[j].own : j \in ReadsOf(prog, i)}
              /\ L[i].refs = UNION {L[j].refs : j \in ReadsOf(prog, i)}
  <2>. DEFINE read == {L[j] : j \in ReadsOf(prog, i)}
              own == {PairOf(prog, i)} \cup UNION {q.own : q \in read}
              refs == UNION {q.refs : q \in read}
  <2>1. Body(i, L) = [own |-> own, refs |-> refs]
    BY <1>12, <1>13
  <2>2. UNION {q.own : q \in read} = UNION {L[j].own : j \in ReadsOf(prog, i)}
    <3>. HIDE DEF L
    <3>. QED
      OBVIOUS
  <2>3. UNION {q.refs : q \in read} = UNION {L[j].refs : j \in ReadsOf(prog, i)}
    <3>. HIDE DEF L
    <3>. QED
      OBVIOUS
  <2>4. L[i] = Body(i, L)
    BY <1>11, <1>12
  <2>5. L[i] = [own |-> own, refs |-> refs]
    BY <2>1, <2>4
  <2>6. L[i].own = own /\ L[i].refs = refs
    <3>. HIDE DEF L, own, refs
    <3>. QED
      BY <2>5
  <2>. QED
    BY <2>2, <2>3, <2>6
<1>14. ASSUME NEW i \in Stmt
       PROVE  /\ prog[i] = None => L[i].own = {<<i, None>>} /\ L[i].refs = {}
              /\ prog[i] # None /\ kept[i] # None => L[i].own = {} /\ L[i].refs = {kept[i].module}
  <2>1. L[i] = Body(i, L) /\ i # 0
    BY <1>11, <1>12
  <2>. HIDE DEF L
  <2>. QED
    BY <2>1
<1>15. L[0].own = {} /\ L[0].refs = {0}
  <2>1. L[0] = Body(0, L)
    BY <1>11, <1>12
  <2>. HIDE DEF L
  <2>. QED
    BY <2>1
<1>. QED
  BY <1>13, <1>14, <1>15

\* A module refers to modules filed before it.
Ordered(modules) ==
  \A k \in DOMAIN modules : \A j \in modules[k].refs : j \in 0 .. MaxKey /\ j < k

LEMMA ContentsAre ==
    ASSUME NEW modules, Ordered(modules)
    PROVE  \A k \in 0 .. MaxKey : ContentsOf(modules)[k] =
             IF k \notin DOMAIN modules THEN {<<0, None>>}
             ELSE modules[k].own \cup UNION {ContentsOf(modules)[j] : j \in modules[k].refs}
<1>. DEFINE S == SUBSET ({<<0, None>>} \cup UNION {modules[k].own : k \in DOMAIN modules})
            Body(i, f) == IF i \notin DOMAIN modules THEN {<<0, None>>}
                          ELSE modules[i].own \cup UNION {f[j] : j \in modules[i].refs}
            G == [p \in (0 .. MaxKey) \X [0 .. MaxKey -> S] |-> Body(p[1], p[2])]
            Def(f) == [i \in 0 .. MaxKey |-> Body(i, f)]
            at == CHOOSE f : f = Def(f)
<1>1. MaxKey \in Nat /\ {} \in S
  BY SizesAre
<1>2. \A i \in DOMAIN modules : \A j \in modules[i].refs : j \in 0 .. MaxKey /\ j < i
  BY DEF Ordered
<1>3. ASSUME NEW i \in 0 .. MaxKey, NEW f \in [0 .. MaxKey -> S] PROVE Body(i, f) \in S
  <2>1. CASE i \in DOMAIN modules
    <3>1. \A j \in modules[i].refs : f[j] \in S
      BY <1>2, <2>1
    <3>2. modules[i].own \subseteq UNION {modules[k].own : k \in DOMAIN modules}
      BY <2>1
    <3>. QED
      BY <2>1, <3>1, <3>2
  <2>. QED
    BY <2>1
<1>4. ASSUME NEW i \in 0 .. MaxKey, NEW f, NEW g, \A j \in 0 .. i - 1 : f[j] = g[j]
      PROVE  Body(i, f) = Body(i, g)
  <2>1. CASE i \in DOMAIN modules
    <3>1. \A j \in modules[i].refs : f[j] = g[j]
      BY <1>2, <1>4, <2>1
    <3>2. {f[j] : j \in modules[i].refs} = {g[j] : j \in modules[i].refs}
      BY <3>1
    <3>. QED
      BY <3>2
  <2>. QED
    BY <2>1
<1>5. \A i \in 0 .. MaxKey : \A f \in [0 .. MaxKey -> S] : G[<<i, f>>] = Body(i, f)
  <2>. HIDE DEF Body, S
  <2>. QED
    OBVIOUS
<1>6. Causal(MaxKey, S, G)
  <2>. HIDE DEF Body, S
  <2>1. G \in [(0 .. MaxKey) \X [0 .. MaxKey -> S] -> S]
    BY <1>3
  <2>2. ASSUME NEW k \in 0 .. MaxKey, NEW g \in [0 .. MaxKey -> S], NEW h \in [0 .. MaxKey -> S],
               \A j \in 0 .. k - 1 : g[j] = h[j]
        PROVE  G[<<k, g>>] = G[<<k, h>>]
    <3>1. Body(k, g) = Body(k, h)
      BY <1>4, <2>2
    <3>2. G[<<k, g>>] = Body(k, g) /\ G[<<k, h>>] = Body(k, h)
      BY <1>5
    <3>. QED
      BY <3>1, <3>2
  <2>. HIDE DEF G
  <2>. QED
    BY <2>1, <2>2 DEF Causal
<1>. HIDE DEF G, S
<1>7. PICK g : Recurs(g, MaxKey, S, G)
  BY <1>1, <1>6, RecursionExists
<1>8. g = Def(g)
  <2>. HIDE DEF Body
  <2>. QED
    BY <1>5, <1>7 DEF Recurs
<1>9. at = Def(at)
  <2>. HIDE DEF Def
  <2>. QED
    BY <1>8
<1>10. ContentsOf(modules) = at
  BY DEF ContentsOf
<1>. HIDE DEF at
<1>11. \A i \in 0 .. MaxKey : ContentsOf(modules)[i] = Body(i, ContentsOf(modules))
  <2>. HIDE DEF Body
  <2>. QED
    BY <1>9, <1>10
<1>. QED
  BY <1>11

-----------------------------------------------------------------------------
(***************************************************************************)
(* The invariant that keeps readers safe.  A module is in one cell, or in  *)
(* one session's debt, and what is owed to eviction is in no cell and in   *)
(* no build; so eviction takes from nobody.                                *)
(***************************************************************************)
Shaped ==
  /\ text \in [Source -> Program]
  /\ DOMAIN last = Source /\ \A s \in Source : last[s] = None \/ last[s] \in Program
  /\ DOMAIN cells = Source /\ \A s \in Source : DOMAIN cells[s] = Stmt
  /\ \A s \in Source : \A i \in Stmt :
       cells[s][i] # None => DOMAIN cells[s][i] = {"module", "key"}
  /\ DOMAIN build = Source /\ DOMAIN unreachable = Source
  /\ DOMAIN disk = Source /\ \A s \in Source : DOMAIN disk[s] = Stmt

Filing ==
  /\ nextKey \in 0 .. MaxKey /\ imported \in 1 .. MaxImport
  /\ 0 \in Filed /\ Filed \subseteq 0 .. nextKey
  /\ \A k \in Filed : \A j \in registry[k].refs : j \in Filed /\ j < k

InCells ==
  /\ \A s \in Source : \A i \in Stmt : cells[s][i] # None =>
       cells[s][i].module \in Filed /\ cells[s][i].module # 0
  /\ \A s, t \in Source : \A i, j \in Stmt :
       cells[s][i] # None /\ cells[t][j] # None /\ cells[s][i].module = cells[t][j].module
         => s = t /\ i = j

Owed ==
  /\ \A s \in Source : unreachable[s] \subseteq Filed \ {0} /\ build[s] \subseteq Filed
  /\ \A s, t \in Source : \A i \in Stmt : cells[t][i] # None =>
       cells[t][i].module \notin unreachable[s] /\ (s # t => cells[t][i].module \notin build[s])
  /\ \A s, t \in Source : unreachable[s] \cap build[t] = {}
  /\ \A s, t \in Source : s # t => unreachable[s] \cap unreachable[t] = {}

\* A record names the modules its artifact refers to.
Recorded(r) ==
  /\ r.module \in 1 .. MaxKey
  /\ \A j \in r.artifact.refs : j \in Nat /\ j < r.module /\ \E ref \in r.refs : ref[1] = j
OnDisk == \A s \in Source : \A i \in Stmt : disk[s][i] # None => Recorded(disk[s][i])

Working ==
  /\ DOMAIN job = {"pc", "source", "todo"}
  /\ job = Idle \/ (job.pc \in {"load", "save"} /\ job.source \in Source /\ job.todo \subseteq Stmt)
  /\ job.pc = "load" => \A i \in job.todo : disk[job.source][i] # None
  /\ job.pc = "save" => \A i \in job.todo :
       cells[job.source][i].module \in Filed /\ cells[job.source][i].module # 0

IInv == Shaped /\ Filing /\ InCells /\ Owed /\ OnDisk /\ Working

LEMMA IdleIs == DOMAIN Idle = {"pc", "source", "todo"} /\ Idle.pc = "idle"
  BY DEF Idle

LEMMA FreedIs ==
    ASSUME NEW debt
    PROVE  /\ Freed(debt) \subseteq debt \cap Filed
           /\ \A k \in Filed : k \notin Freed(debt) => registry[k].refs \cap Freed(debt) = {}
<1>1. \A g : g \in Freed(debt) <=>
        \E gone \in SUBSET (debt \cap Filed) :
          g \in gone /\ \A k \in Filed \ gone : registry[k].refs \cap gone = {}
  BY DEF Freed
<1>2. Freed(debt) \subseteq debt \cap Filed
  BY <1>1
<1>3. ASSUME NEW k \in Filed, k \notin Freed(debt), NEW g \in registry[k].refs, g \in Freed(debt)
      PROVE  FALSE
  <2>1. PICK gone \in SUBSET (debt \cap Filed) :
          g \in gone /\ \A j \in Filed \ gone : registry[j].refs \cap gone = {}
    BY <1>1, <1>3
  <2>2. k \notin gone
    BY <1>1, <1>3, <2>1
  <2>. QED
    BY <1>3, <2>1, <2>2
<1>. QED
  BY <1>2, <1>3

LEMMA WithoutIs ==
    ASSUME NEW gone, gone \subseteq Filed
    PROVE  /\ DOMAIN Without(gone) = Filed \ gone
           /\ \A k \in Filed \ gone : Without(gone)[k] = registry[k]
  BY DEF Without, Restrict, Filed

LEMMA ReservedIs ==
    ASSUME NEW k \in Nat, nextKey \in Nat
    PROVE  Reserved(k) \in {nextKey, k} /\ Reserved(k) >= nextKey /\ Reserved(k) >= k
<1>1. \E x \in {nextKey, k} : \A y \in {nextKey, k} : x >= y
  <2>1. CASE k >= nextKey
    BY <2>1
  <2>2. CASE nextKey >= k
    BY <2>2
  <2>. QED
    BY <2>1, <2>2
<1>. QED
  BY <1>1 DEF Reserved, Max

-----------------------------------------------------------------------------
(***************************************************************************)
(* The small steps.                                                        *)
(***************************************************************************)
LEMMA EvictSafe ==
    ASSUME IInv, NEW s \in Source, Evict(s)
    PROVE  IInv'
<1>. DEFINE gone == Freed(unreachable[s])
<1>1. /\ job = Idle /\ registry' = Without(gone)
      /\ unreachable' = [unreachable EXCEPT ![s] = (@ \cap Filed) \ gone]
      /\ UNCHANGED <<imported, text, last, cells, build, nextKey, disk, job>>
  BY DEF Evict
<1>2. gone \subseteq unreachable[s] /\ gone \subseteq Filed
      /\ \A k \in Filed : k \notin gone => registry[k].refs \cap gone = {}
  BY FreedIs
<1>. HIDE DEF gone
<1>3. Filed' = Filed \ gone /\ \A k \in Filed \ gone : registry'[k] = registry[k]
  BY <1>1, <1>2, WithoutIs DEF Filed
<1>4. unreachable'[s] = unreachable[s] \ gone /\ DOMAIN unreachable' = Source
      /\ \A t \in Source : t # s => unreachable'[t] = unreachable[t]
  BY <1>1 DEF IInv, Shaped, Owed
<1>5. 0 \notin gone /\ \A t \in Source : t # s => unreachable[t] \cap gone = {}
  BY <1>2 DEF IInv, Owed
<1>6. \A t \in Source : build[t] \cap gone = {}
  BY <1>2 DEF IInv, Owed
<1>7. \A t \in Source : \A i \in Stmt : cells[t][i] # None => cells[t][i].module \notin gone
  BY <1>2 DEF IInv, Owed
<1>8. Shaped'
  BY <1>1, <1>4 DEF IInv, Shaped
<1>9. Filing'
  <2>1. \A k \in Filed' : \A j \in registry'[k].refs : j \in Filed' /\ j < k
    BY <1>2, <1>3 DEF IInv, Filing
  <2>. QED
    BY <1>1, <1>3, <1>5, <2>1 DEF IInv, Filing
<1>10. InCells'
  BY <1>1, <1>3, <1>7 DEF IInv, InCells
<1>11. Owed'
  <2>1. \A t \in Source : unreachable'[t] \subseteq unreachable[t]
    BY <1>4
  <2>2. \A t \in Source : unreachable'[t] \subseteq Filed' \ {0} /\ build'[t] \subseteq Filed'
    <3>1. \A t \in Source : unreachable[t] \subseteq Filed \ {0} /\ build[t] \subseteq Filed
      BY DEF IInv, Owed
    <3>. QED
      BY <1>1, <1>3, <1>4, <1>5, <1>6, <3>1
  <2>. QED
    BY <1>1, <2>1, <2>2 DEF IInv, Owed
<1>12. OnDisk' /\ Working'
  <2>1. OnDisk'
    BY <1>1 DEF IInv, OnDisk
  <2>2. Working'
    BY <1>1, IdleIs DEF IInv, Working
  <2>. QED
    BY <2>1, <2>2
<1>. QED
  BY <1>8, <1>9, <1>10, <1>11, <1>12 DEF IInv

\* Whoever drops every session, and keeps a registry that is closed.
LEMMA NoSessionSafe ==
    ASSUME IInv, NoSession, UNCHANGED <<text, disk>>, job' = Idle, Filing'
    PROVE  IInv'
<1>1. \A s \in Source : /\ last'[s] = None /\ build'[s] = {} /\ unreachable'[s] = {}
                        /\ \A i \in Stmt : cells'[s][i] = None
  BY DEF NoSession, Blank
<1>2. Shaped'
  BY DEF IInv, Shaped, NoSession, Blank
<1>3. InCells' /\ Owed'
  BY <1>1 DEF InCells, Owed
<1>4. OnDisk'
  BY DEF IInv, OnDisk
<1>5. Working'
  BY IdleIs DEF Working
<1>. QED
  BY <1>2, <1>3, <1>4, <1>5 DEF IInv

LEMMA ImportSafe ==
    ASSUME IInv, ImportChanges
    PROVE  IInv'
<1>. DEFINE gone == Freed(UNION Range(unreachable))
            left == Without(gone)
<1>1. /\ imported < MaxImport /\ imported' = imported + 1 /\ NoSession /\ job' = Idle
      /\ registry' = [left EXCEPT ![0] = ImportArtifact(imported + 1)]
      /\ UNCHANGED <<text, disk, nextKey>>
  BY DEF ImportChanges
<1>2. /\ gone \subseteq UNION Range(unreachable) /\ gone \subseteq Filed
      /\ \A k \in Filed : k \notin gone => registry[k].refs \cap gone = {}
  BY FreedIs
<1>3. 0 \notin gone
  <2>1. \A x \in Range(unreachable) : 0 \notin x
    BY DEF Range, IInv, Owed, Shaped
  <2>. QED
    BY <1>2, <2>1
<1>. HIDE DEF gone
<1>4. DOMAIN left = Filed \ gone /\ \A k \in Filed \ gone : left[k] = registry[k]
  BY <1>2, WithoutIs
<1>. HIDE DEF left
<1>5. /\ Filed' = Filed \ gone /\ 0 \in Filed'
      /\ \A k \in Filed \ gone : k # 0 => registry'[k] = registry[k]
      /\ registry'[0].refs = {}
  BY <1>1, <1>3, <1>4 DEF IInv, Filing, Filed, ImportArtifact
<1>6. \A k \in Filed' : \A j \in registry'[k].refs : j \in Filed' /\ j < k
  BY <1>2, <1>5 DEF IInv, Filing
<1>7. imported' \in 1 .. MaxImport
  BY <1>1, SizeAssumption DEF IInv, Filing
<1>8. Filing'
  BY <1>1, <1>5, <1>6, <1>7 DEF IInv, Filing
<1>. QED
  BY <1>1, <1>8, NoSessionSafe

LEMMA StopSafe ==
    ASSUME IInv, Stop
    PROVE  IInv'
<1>1. /\ registry' = FreshRegistry(imported) /\ nextKey' = 0 /\ NoSession /\ job' = Idle
      /\ UNCHANGED <<imported, text, disk>>
  BY DEF Stop
<1>2. Filed' = {0} /\ registry'[0].refs = {}
  BY <1>1 DEF Filed, FreshRegistry, ImportArtifact
<1>3. Filing'
  BY <1>1, <1>2, SizesAre DEF IInv, Filing
<1>. QED
  BY <1>1, <1>3, NoSessionSafe

LEMMA EditSafe ==
    ASSUME IInv, NEW s \in Source, Edit(s)
    PROVE  IInv'
<1>1. UNCHANGED <<imported, last, cells, build, unreachable, registry, nextKey, disk, job>>
      /\ text' \in [Source -> Program]
  BY DEF Edit, session, IInv, Shaped
<1>. QED
  BY <1>1 DEF IInv, Shaped, Filing, Filed, InCells, Owed, OnDisk, Working

\* A step of the compile that changes its own record alone.
LEMMA JobSafe ==
    ASSUME IInv, UNCHANGED <<imported, text, session, registry, nextKey, disk>>, Working'
    PROVE  IInv'
<1>1. UNCHANGED <<last, cells, build, unreachable>>
  BY DEF session
<1>. QED
  BY <1>1 DEF IInv, Shaped, Filing, Filed, InCells, Owed, OnDisk

LEMMA BeginSafe ==
    ASSUME IInv, NEW s \in Source, Begin(s)
    PROVE  IInv'
<1>1. /\ job' = [pc |-> "load", source |-> s,
                 todo |-> IF last[s] = None THEN {i \in Stmt : disk[s][i] # None} ELSE {}]
      /\ UNCHANGED <<imported, text, session, registry, nextKey, disk>>
  BY DEF Begin
<1>2. Working'
  BY <1>1 DEF Working
<1>. QED
  BY <1>1, <1>2, JobSafe

LEMMA SaveFailsSafe ==
    ASSUME IInv, SaveFails
    PROVE  IInv'
<1>1. /\ job.pc = "save" /\ job' = [job EXCEPT !.todo = {}]
      /\ UNCHANGED <<imported, text, session, registry, nextKey, disk>>
  BY DEF SaveFails
<1>2. job # Idle
  BY <1>1, IdleIs
<1>3. DOMAIN job = {"pc", "source", "todo"} /\ job.source \in Source
  BY <1>1, <1>2 DEF IInv, Working
<1>4. DOMAIN job' = {"pc", "source", "todo"} /\ job'.pc = "save" /\ job'.source = job.source
      /\ job'.todo = {}
  BY <1>1, <1>3
<1>5. Working'
  BY <1>3, <1>4 DEF Working
<1>. QED
  BY <1>1, <1>5, JobSafe

\* A step that writes records or removes them, of a compile that saves.
LEMMA DiskSafe ==
    ASSUME IInv, UNCHANGED <<imported, text, session, registry, nextKey>>, Working',
           OnDisk', DOMAIN disk' = Source, \A s \in Source : DOMAIN disk'[s] = Stmt
    PROVE  IInv'
<1>1. UNCHANGED <<last, cells, build, unreachable>>
  BY DEF session
<1>. QED
  BY <1>1 DEF IInv, Shaped, Filing, Filed, InCells, Owed

LEMMA RecordIs ==
    ASSUME IInv, NEW cell, cell.module \in Filed, cell.module # 0
    PROVE  Recorded(RecordOf(cell))
<1>. DEFINE m == cell.module
            r == RecordOf(cell)
<1>1. r.module = m /\ r.artifact = registry[m] /\ r.refs = {<<k, registry[k].hash>> : k \in registry[m].refs}
  BY DEF RecordOf
<1>. HIDE DEF r, m
<1>2. m \in 1 .. MaxKey
  <2>1. nextKey \in 0 .. MaxKey /\ Filed \subseteq 0 .. nextKey
    BY DEF IInv, Filing
  <2>2. m \in Filed /\ m # 0
    BY DEF m
  <2>. QED
    BY <2>1, <2>2, SizesAre
<1>3. ASSUME NEW j \in registry[m].refs PROVE j \in Nat /\ j < m
  <2>1. m \in Filed
    BY DEF m
  <2>2. j \in Filed /\ j < m
    BY <2>1 DEF IInv, Filing
  <2>3. nextKey \in 0 .. MaxKey /\ Filed \subseteq 0 .. nextKey
    BY DEF IInv, Filing
  <2>. QED
    BY <2>2, <2>3, SizesAre
<1>4. \A j \in registry[m].refs : <<j, registry[j].hash>> \in r.refs /\ <<j, registry[j].hash>>[1] = j
  BY <1>1
<1>. QED
  BY <1>1, <1>2, <1>3, <1>4 DEF Recorded, r

LEMMA SaveRecordSafe ==
    ASSUME IInv, NEW s \in Source, NEW i \in Stmt, SaveRecord(s, i)
    PROVE  IInv'
<1>1. /\ job.pc = "save" /\ job.source = s /\ i \in job.todo
      /\ disk' = disk \/ disk' = [disk EXCEPT ![s][i] = RecordOf(cells[s][i])]
      /\ job' = [job EXCEPT !.todo = @ \ {i}]
      /\ UNCHANGED <<imported, text, session, registry, nextKey>>
  BY DEF SaveRecord
<1>2. job # Idle
  BY <1>1, IdleIs
<1>3. /\ DOMAIN job = {"pc", "source", "todo"} /\ job.todo \subseteq Stmt
      /\ \A j \in job.todo : cells[s][j].module \in Filed /\ cells[s][j].module # 0
  BY <1>1, <1>2 DEF IInv, Working
<1>4. DOMAIN job' = {"pc", "source", "todo"} /\ job'.pc = "save" /\ job'.source = s
      /\ job'.todo = job.todo \ {i}
  BY <1>1, <1>3
<1>5. UNCHANGED <<cells, registry>>
  BY <1>1 DEF session
<1>6. Working'
  BY <1>3, <1>4, <1>5 DEF Working, Filed
<1>7. Recorded(RecordOf(cells[s][i]))
  BY <1>1, <1>3, RecordIs
<1>8. DOMAIN disk = Source /\ \A t \in Source : DOMAIN disk[t] = Stmt
  BY DEF IInv, Shaped
<1>9. /\ DOMAIN disk' = Source /\ \A t \in Source : DOMAIN disk'[t] = Stmt
      /\ \A t \in Source : \A j \in Stmt :
           disk'[t][j] = disk[t][j] \/ disk'[t][j] = RecordOf(cells[s][i])
  BY <1>1, <1>8
<1>10. OnDisk'
  BY <1>7, <1>9 DEF IInv, OnDisk
<1>. QED
  BY <1>1, <1>6, <1>9, <1>10, DiskSafe

LEMMA PruneSafe ==
    ASSUME IInv, NEW s \in Source, Prune(s)
    PROVE  IInv'
<1>1. /\ disk' = [disk EXCEPT ![s] = [i \in Stmt |-> IF cells[s][i] = None THEN None ELSE @[i]]]
      /\ job' = Idle
      /\ UNCHANGED <<imported, text, session, registry, nextKey>>
  BY DEF Prune
<1>2. DOMAIN disk = Source /\ \A t \in Source : DOMAIN disk[t] = Stmt
  BY DEF IInv, Shaped
<1>3. /\ DOMAIN disk' = Source /\ \A t \in Source : DOMAIN disk'[t] = Stmt
      /\ \A t \in Source : \A j \in Stmt : disk'[t][j] = disk[t][j] \/ disk'[t][j] = None
  BY <1>1, <1>2
<1>4. OnDisk'
  BY <1>3 DEF IInv, OnDisk
<1>5. Working'
  BY <1>1, IdleIs DEF Working
<1>. QED
  BY <1>1, <1>3, <1>4, <1>5, DiskSafe

LEMMA LoadSafe ==
    ASSUME IInv, NEW s \in Source, NEW i \in Stmt, LoadRecord(s, i)
    PROVE  IInv'
<1>. DEFINE r == disk[s][i]
            m == r.module
            c == [module |-> m, key |-> r.key]
<1>1. /\ job.pc = "load" /\ job.source = s /\ i \in job.todo
      /\ job' = [job EXCEPT !.todo = @ \ {i}]
      /\ UNCHANGED <<imported, text, last, build, unreachable, disk>>
  BY DEF LoadRecord
<1>2. job # Idle
  BY <1>1, IdleIs
<1>3. /\ DOMAIN job = {"pc", "source", "todo"} /\ job.todo \subseteq Stmt
      /\ \A j \in job.todo : disk[s][j] # None
  BY <1>1, <1>2 DEF IInv, Working
<1>4. DOMAIN job' = {"pc", "source", "todo"} /\ job'.pc = "load" /\ job'.source = s
      /\ job'.todo = job.todo \ {i}
  BY <1>1, <1>3
<1>5. Working'
  BY <1>1, <1>3, <1>4 DEF Working
<1>6. CASE ~Loads(r)
  <2>1. UNCHANGED <<registry, nextKey, cells>>
    BY <1>6 DEF LoadRecord
  <2>. QED
    BY <1>1, <1>5, <2>1, JobSafe DEF session
<1>7. CASE Loads(r)
  <2>1. /\ m \notin Filed /\ \A ref \in r.refs : ref[1] \in Filed
        /\ registry' = [k \in Filed \cup {m} |-> IF k = m THEN r.artifact ELSE registry[k]]
        /\ nextKey' = Reserved(m)
        /\ cells' = [cells EXCEPT ![s][i] = c]
    BY <1>7 DEF LoadRecord, Loads
  <2>2. Recorded(r)
    BY <1>1, <1>3 DEF IInv, OnDisk
  <2>3. m \in 1 .. MaxKey /\ \A j \in r.artifact.refs : j \in Filed /\ j < m
    BY <2>1, <2>2 DEF Recorded
  <2>4. DOMAIN c = {"module", "key"} /\ c.module = m
    OBVIOUS
  <2>. HIDE DEF c, m, r
  <2>5. Filed' = Filed \cup {m} /\ registry'[m] = r.artifact
        /\ \A k \in Filed : k # m => registry'[k] = registry[k]
    BY <2>1 DEF Filed
  <2>6. /\ DOMAIN cells' = Source /\ \A t \in Source : DOMAIN cells'[t] = Stmt
        /\ cells'[s][i] = c
        /\ \A t \in Source : \A j \in Stmt : t # s \/ j # i => cells'[t][j] = cells[t][j]
    BY <2>1 DEF IInv, Shaped
  <2>7. Shaped'
    <3>1. \A t \in Source : \A j \in Stmt :
            cells'[t][j] # None => DOMAIN cells'[t][j] = {"module", "key"}
      BY <2>4, <2>6 DEF IInv, Shaped
    <3>. QED
      BY <1>1, <2>6, <3>1 DEF IInv, Shaped
  <2>8. Filing'
    <3>1. nextKey \in Nat /\ m \in Nat /\ nextKey <= MaxKey
      BY <2>3, SizesAre DEF IInv, Filing
    <3>2. nextKey' \in 0 .. MaxKey /\ nextKey' >= nextKey /\ nextKey' >= m
      BY <2>1, <2>3, <3>1, ReservedIs
    <3>3. 0 \in Filed' /\ Filed' \subseteq 0 .. nextKey'
      BY <2>3, <2>5, <3>1, <3>2 DEF IInv, Filing
    <3>4. \A k \in Filed' : \A j \in registry'[k].refs : j \in Filed' /\ j < k
      BY <2>1, <2>3, <2>5 DEF IInv, Filing
    <3>. QED
      BY <1>1, <3>2, <3>3, <3>4 DEF IInv, Filing
  <2>9. InCells'
    <3>1. \A t \in Source : \A j \in Stmt : cells'[t][j] # None =>
            cells'[t][j].module \in Filed' /\ cells'[t][j].module # 0
      BY <2>3, <2>4, <2>5, <2>6 DEF IInv, InCells
    <3>2. \A t \in Source : \A j \in Stmt : t # s \/ j # i =>
            (cells'[t][j] # None => cells'[t][j].module # m)
      BY <2>1, <2>6 DEF IInv, InCells
    <3>3. ASSUME NEW t \in Source, NEW u \in Source, NEW j \in Stmt, NEW k \in Stmt,
                 cells'[t][j] # None, cells'[u][k] # None, cells'[t][j].module = cells'[u][k].module
          PROVE  t = u /\ j = k
      <4>1. CASE (t # s \/ j # i) /\ (u # s \/ k # i)
        BY <2>6, <3>3, <4>1 DEF IInv, InCells
      <4>2. CASE t = s /\ j = i
        BY <2>4, <2>6, <3>2, <3>3, <4>2
      <4>3. CASE u = s /\ k = i
        BY <2>4, <2>6, <3>2, <3>3, <4>3
      <4>. QED
        BY <4>1, <4>2, <4>3
    <3>. QED
      BY <3>1, <3>3 DEF InCells
  <2>10. Owed'
    <3>1. \A t \in Source : m \notin unreachable[t] /\ m \notin build[t]
      BY <2>1 DEF IInv, Owed
    <3>2. \A t, u \in Source : \A j \in Stmt : cells'[u][j] # None =>
            cells'[u][j].module \notin unreachable[t]
            /\ (t # u => cells'[u][j].module \notin build[t])
      BY <2>4, <2>6, <3>1 DEF IInv, Owed
    <3>3. \A t \in Source : unreachable[t] \subseteq Filed' \ {0} /\ build[t] \subseteq Filed'
      BY <2>5 DEF IInv, Owed
    <3>. QED
      BY <1>1, <3>2, <3>3 DEF IInv, Owed
  <2>11. OnDisk'
    BY <1>1 DEF IInv, OnDisk
  <2>. QED
    BY <1>5, <2>7, <2>8, <2>9, <2>10, <2>11 DEF IInv
<1>. QED
  BY <1>6, <1>7

-----------------------------------------------------------------------------
(***************************************************************************)
(* The rebuild.                                                            *)
(***************************************************************************)
LEMMA FreshKeysAre ==
    ASSUME NEW frozen, frozen \subseteq Stmt, nextKey \in Nat
    PROVE  /\ Cardinality(frozen) \in Nat
           /\ \A i \in frozen : FreshKey(frozen, i) \in nextKey + 1 .. nextKey + Cardinality(frozen)
           /\ \A i, j \in frozen : FreshKey(frozen, i) = FreshKey(frozen, j) => i = j
<1>. DEFINE upTo(i) == {j \in frozen : j <= i}
<1>1. IsFiniteSet(frozen) /\ Cardinality(frozen) \in Nat
  <2>1. IsFiniteSet(Stmt)
    BY SizesAre, FS_Interval DEF Stmt
  <2>. QED
    BY <2>1, FS_Subset, FS_CardinalityType
<1>2. \A i \in frozen : i \in Int
  BY SizesAre DEF Stmt
<1>3. ASSUME NEW i \in frozen
      PROVE  /\ IsFiniteSet(upTo(i)) /\ Cardinality(upTo(i)) \in 1 .. Cardinality(frozen)
             /\ i \in upTo(i)
  <2>1. upTo(i) \in SUBSET frozen /\ i \in upTo(i)
    BY <1>2
  <2>. HIDE DEF upTo
  <2>2. IsFiniteSet(upTo(i)) /\ Cardinality(upTo(i)) <= Cardinality(frozen)
    BY <1>1, <2>1, FS_Subset
  <2>3. Cardinality(upTo(i)) \in Nat
    BY <2>2, FS_CardinalityType
  <2>4. Cardinality(upTo(i)) # 0
    BY <2>1, <2>2, FS_EmptySet
  <2>. QED
    BY <1>1, <2>1, <2>2, <2>3, <2>4
<1>4. ASSUME NEW i \in frozen, NEW j \in frozen, i < j
      PROVE  Cardinality(upTo(i)) # Cardinality(upTo(j))
  <2>1. upTo(i) \in SUBSET upTo(j) /\ j \in upTo(j) /\ j \notin upTo(i)
    BY <1>2, <1>4
  <2>2. IsFiniteSet(upTo(j))
    BY <1>3
  <2>. HIDE DEF upTo
  <2>. QED
    BY <2>1, <2>2, FS_Subset
<1>5. \A i \in frozen : FreshKey(frozen, i) = nextKey + Cardinality(upTo(i))
  BY DEF FreshKey
<1>. HIDE DEF upTo
<1>6. \A i \in frozen : FreshKey(frozen, i) \in nextKey + 1 .. nextKey + Cardinality(frozen)
  BY <1>1, <1>3, <1>5
<1>7. \A i, j \in frozen : FreshKey(frozen, i) = FreshKey(frozen, j) => i = j
  <2>1. \A i \in frozen : Cardinality(upTo(i)) \in Nat
    BY <1>1, <1>3
  <2>2. ASSUME NEW i \in frozen, NEW j \in frozen, FreshKey(frozen, i) = FreshKey(frozen, j)
        PROVE  i = j
    <3>1. Cardinality(upTo(i)) = Cardinality(upTo(j))
      BY <1>5, <2>1, <2>2
    <3>2. ~(i < j) /\ ~(j < i)
      BY <1>4, <3>1
    <3>. QED
      BY <1>2, <3>2
  <2>. QED
    BY <2>2
<1>. QED
  BY <1>1, <1>6, <1>7

LEMMA LoweredRefs ==
    ASSUME NEW prog \in Program, NEW kept, NEW i \in Stmt,
           NEW r \in Lowered(prog, kept)[i].refs
    PROVE  r = 0 \/ \E j \in Stmt : kept[j] # None /\ r = kept[j].module
<1>. DEFINE From(x) == x = 0 \/ \E j \in Stmt : kept[j] # None /\ x = kept[j].module
            L == Lowered(prog, kept)
            T == {n \in Nat : n <= N => \A x \in L[n].refs : From(x)}
<1>1. L[0].refs = {0}
  BY LoweredIs
<1>2. ASSUME NEW n \in Nat, \A k \in 0 .. n - 1 : k \in T PROVE n \in T
  <2>. SUFFICES ASSUME n <= N, NEW x \in L[n].refs PROVE From(x)
    OBVIOUS
  <2>1. CASE n = 0
    BY <1>1, <2>1
  <2>2. CASE n # 0
    <3>1. n \in Stmt
      BY <2>2, SizesAre DEF Stmt
    <3>2. \A k \in ReadsOf(prog, n) : k \in 0 .. n - 1 /\ k \in Nat /\ k <= N
      BY <3>1, ReadsAre, SizesAre DEF Stmt
    <3>3. \A k \in ReadsOf(prog, n) : \A y \in L[k].refs : From(y)
      <4>1. \A k \in ReadsOf(prog, n) : k \in T
        BY <1>2, <3>2
      <4>. QED
        BY <3>2, <4>1
    <3>4. /\ prog[n] = None => L[n].refs = {}
          /\ prog[n] # None /\ kept[n] # None => L[n].refs = {kept[n].module}
          /\ prog[n] # None /\ kept[n] = None => L[n].refs = UNION {L[k].refs : k \in ReadsOf(prog, n)}
      BY <3>1, LoweredIs
    <3>. HIDE DEF L
    <3>5. CASE prog[n] = None
      BY <3>4, <3>5
    <3>6. CASE prog[n] # None /\ kept[n] # None
      BY <3>1, <3>4, <3>6
    <3>7. CASE prog[n] # None /\ kept[n] = None
      <4>1. PICK k \in ReadsOf(prog, n) : x \in L[k].refs
        BY <3>4, <3>7
      <4>. QED
        BY <3>3, <4>1
    <3>. QED
      BY <3>5, <3>6, <3>7
  <2>. QED
    BY <2>1, <2>2
<1>. HIDE DEF T
<1>3. Nat \subseteq T
  BY <1>2, ByStrongInduction
<1>4. i \in T /\ i <= N
  BY <1>3, SizesAre DEF Stmt
<1>. QED
  BY <1>4 DEF T

\* What a rebuild that keeps the cells in kept and freezes others does.
Rebuilt(s, kept, frozen) ==
  /\ frozen \subseteq Marked(text[s]) /\ \A i \in frozen : kept[i] = None
  /\ \A i \in Stmt : kept[i] # None => kept[i] = cells[s][i] /\ i \in Marked(text[s])
  /\ nextKey' = nextKey + Cardinality(frozen) /\ nextKey' \in 0 .. MaxKey
  /\ \A i \in frozen : FreshKey(frozen, i) \in nextKey + 1 .. nextKey'
  /\ \A i, j \in frozen : FreshKey(frozen, i) = FreshKey(frozen, j) => i = j
  /\ Filed' = Filed \cup {FreshKey(frozen, i) : i \in frozen}
  /\ \A k \in Filed : registry'[k] = registry[k]
  /\ \A i \in frozen : registry'[FreshKey(frozen, i)] =
       [own |-> Lowered(text[s], kept)[i].own, refs |-> Lowered(text[s], kept)[i].refs, hash |-> 0]
  /\ DOMAIN cells' = Source /\ DOMAIN cells'[s] = Stmt
  /\ \A t \in Source : t # s => cells'[t] = cells[t]
  /\ \A i \in Stmt :
       /\ i \in frozen => cells'[s][i] = [module |-> FreshKey(frozen, i), key |-> Keys(text[s])[i]]
       /\ i \notin frozen /\ kept[i] # None =>
            cells'[s][i] = [module |-> cells[s][i].module, key |-> Keys(text[s])[i]]
       /\ i \notin frozen /\ kept[i] = None => cells'[s][i] = None

LEMMA RebuildIs ==
    ASSUME IInv, NEW s \in Source, NEW dirty, job.pc = "load", Freeze(s, Kept(s, dirty))
    PROVE  Rebuilt(s, Kept(s, dirty), Frozen(text[s], Kept(s, dirty)))
<1>. DEFINE kept == Kept(s, dirty)
            frozen == Frozen(text[s], kept)
            at(i) == FreshKey(frozen, i)
            artifact(i) == [own |-> Lowered(text[s], kept)[i].own, refs |-> Lowered(text[s], kept)[i].refs,
                            hash |-> 0]
<1>1. /\ nextKey + Cardinality(frozen) <= MaxKey
      /\ nextKey' = nextKey + Cardinality(frozen)
      /\ registry' = [k \in Filed \cup {at(i) : i \in frozen} |->
                        IF k \in Filed THEN registry[k]
                        ELSE artifact(CHOOSE i \in frozen : at(i) = k)]
      /\ cells' = [cells EXCEPT ![s] = [i \in Stmt |->
                     IF i \in frozen THEN [module |-> at(i), key |-> Keys(text[s])[i]]
                     ELSE IF kept[i] # None THEN [kept[i] EXCEPT !.key = Keys(text[s])[i]]
                     ELSE None]]
  BY DEF Freeze
<1>2. \A i \in Stmt : kept[i] # None => kept[i] = cells[s][i] /\ i \in Marked(text[s])
  BY DEF Kept
<1>3. frozen \subseteq Marked(text[s]) /\ \A i \in frozen : kept[i] = None
  BY DEF Frozen
<1>4. frozen \subseteq Stmt /\ nextKey \in 0 .. MaxKey /\ Filed \subseteq 0 .. nextKey
  BY <1>3 DEF Marked, Present, IInv, Filing
<1>5. /\ Cardinality(frozen) \in Nat
      /\ \A i \in frozen : at(i) \in nextKey + 1 .. nextKey + Cardinality(frozen)
      /\ \A i, j \in frozen : at(i) = at(j) => i = j
  <2>1. nextKey \in Nat
    BY <1>4, SizesAre
  <2>. QED
    BY <1>4, <2>1, FreshKeysAre
<1>6. nextKey' \in 0 .. MaxKey /\ \A i \in frozen : at(i) \in nextKey + 1 .. nextKey'
  BY <1>1, <1>4, <1>5, SizesAre
<1>7. \A i \in frozen : at(i) \notin Filed
  BY <1>4, <1>5, SizesAre
<1>8. DOMAIN cells = Source
      /\ \A i \in Stmt : cells[s][i] # None => DOMAIN cells[s][i] = {"module", "key"}
  BY DEF IInv, Shaped
<1>9. \A i \in Stmt : kept[i] # None =>
        [kept[i] EXCEPT !.key = Keys(text[s])[i]] = [module |-> cells[s][i].module, key |-> Keys(text[s])[i]]
  <2>1. ASSUME NEW c, DOMAIN c = {"module", "key"}, NEW k, c = [x \in DOMAIN c |-> c[x]]
        PROVE  [c EXCEPT !.key = k] = [module |-> c.module, key |-> k]
    BY <2>1
  <2>. QED
    BY <1>2, <1>8, <2>1
<1>. HIDE DEF kept, frozen, at, artifact
<1>10. Filed' = Filed \cup {at(i) : i \in frozen} /\ \A k \in Filed : registry'[k] = registry[k]
  BY <1>1 DEF Filed
<1>11. ASSUME NEW i \in frozen PROVE registry'[at(i)] = artifact(i)
  <2>1. (CHOOSE j \in frozen : at(j) = at(i)) = i
    BY <1>5
  <2>. QED
    BY <1>1, <1>7, <2>1
<1>12. /\ DOMAIN cells' = Source /\ DOMAIN cells'[s] = Stmt
       /\ \A t \in Source : t # s => cells'[t] = cells[t]
       /\ \A i \in Stmt : cells'[s][i] =
            IF i \in frozen THEN [module |-> at(i), key |-> Keys(text[s])[i]]
            ELSE IF kept[i] # None THEN [kept[i] EXCEPT !.key = Keys(text[s])[i]]
            ELSE None
  BY <1>1, <1>8
<1>13. \A i \in Stmt :
         /\ i \in frozen => cells'[s][i] = [module |-> at(i), key |-> Keys(text[s])[i]]
         /\ i \notin frozen /\ kept[i] # None =>
              cells'[s][i] = [module |-> cells[s][i].module, key |-> Keys(text[s])[i]]
         /\ i \notin frozen /\ kept[i] = None => cells'[s][i] = None
  BY <1>9, <1>12
<1>14. \A i \in frozen : registry'[at(i)] =
         [own |-> Lowered(text[s], kept)[i].own, refs |-> Lowered(text[s], kept)[i].refs, hash |-> 0]
  BY <1>11 DEF artifact
<1>15. Rebuilt(s, kept, frozen)
  BY <1>1, <1>2, <1>3, <1>5, <1>6, <1>10, <1>12, <1>13, <1>14 DEF Rebuilt, at
<1>. QED
  BY <1>15 DEF kept, frozen

LEMMA RebuildSafe ==
    ASSUME IInv, NEW s \in Source, Rebuild(s)
    PROVE  IInv'
<1>1. PICK dirty :
        /\ Freeze(s, Kept(s, dirty))
        /\ unreachable' = [unreachable EXCEPT ![s] = @ \cup Dropped(s, dirty)]
        /\ build' = [build EXCEPT ![s] = {c.module : c \in Range(Kept(s, dirty)) \ {None}}]
  BY DEF Rebuild
<1>. DEFINE kept == Kept(s, dirty)
            frozen == Frozen(text[s], kept)
            at(i) == FreshKey(frozen, i)
            dropped == Dropped(s, dirty)
            reused == {c.module : c \in Range(kept) \ {None}}
<1>2. /\ job.pc = "load" /\ job.source = s
      /\ last' = [last EXCEPT ![s] = text[s]]
      /\ UNCHANGED <<imported, text, disk>>
  BY DEF Rebuild
<1>3. Rebuilt(s, kept, frozen)
  BY <1>1, <1>2, RebuildIs
<1>4. job' = [job EXCEPT !.pc = "save", !.todo = frozen]
  BY <1>1 DEF Freeze
<1>5. /\ unreachable' = [unreachable EXCEPT ![s] = @ \cup dropped]
      /\ build' = [build EXCEPT ![s] = reused]
  BY <1>1
<1>6. \A m \in dropped : \E j \in Stmt :
        cells[s][j] # None /\ kept[j] = None /\ m = cells[s][j].module
  BY DEF Dropped
<1>7. \A m \in reused : \E j \in Stmt : kept[j] # None /\ m = kept[j].module
  <2>1. \A c \in Range(kept) : \E j \in Stmt : c = kept[j]
    BY DEF Range, Kept
  <2>. HIDE DEF kept
  <2>. QED
    BY <2>1
<1>8. /\ frozen \subseteq Marked(text[s]) /\ \A i \in frozen : kept[i] = None
      /\ \A i \in Stmt : kept[i] # None => kept[i] = cells[s][i] /\ i \in Marked(text[s])
      /\ nextKey' \in 0 .. MaxKey
      /\ \A i \in frozen : at(i) \in nextKey + 1 .. nextKey'
      /\ \A i, j \in frozen : at(i) = at(j) => i = j
      /\ Filed' = Filed \cup {at(i) : i \in frozen}
      /\ \A k \in Filed : registry'[k] = registry[k]
      /\ \A i \in frozen : registry'[at(i)].refs = Lowered(text[s], kept)[i].refs
      /\ DOMAIN cells' = Source /\ DOMAIN cells'[s] = Stmt
      /\ \A t \in Source : t # s => cells'[t] = cells[t]
  <2>1. ASSUME NEW i \in frozen PROVE registry'[at(i)].refs = Lowered(text[s], kept)[i].refs
    <3>1. registry'[at(i)] =
            [own |-> Lowered(text[s], kept)[i].own, refs |-> Lowered(text[s], kept)[i].refs, hash |-> 0]
      BY <1>3 DEF Rebuilt
    <3>. HIDE DEF at, frozen, kept
    <3>. QED
      BY <3>1
  <2>. QED
    BY <1>3, <2>1 DEF Rebuilt
<1>9. \A i \in Stmt :
        /\ i \in frozen => cells'[s][i] = [module |-> at(i), key |-> Keys(text[s])[i]]
        /\ i \notin frozen /\ kept[i] # None =>
             cells'[s][i] = [module |-> cells[s][i].module, key |-> Keys(text[s])[i]]
        /\ i \notin frozen /\ kept[i] = None => cells'[s][i] = None
  BY <1>3 DEF Rebuilt
<1>10. ASSUME NEW i \in frozen, NEW r \in Lowered(text[s], kept)[i].refs
       PROVE  r = 0 \/ \E j \in Stmt : kept[j] # None /\ r = kept[j].module
  <2>1. text[s] \in Program /\ i \in Stmt
    BY <1>8 DEF IInv, Shaped, Marked, Present
  <2>. HIDE DEF kept
  <2>. QED
    BY <2>1, LoweredRefs
<1>11. frozen \subseteq Stmt
  BY <1>8 DEF Marked, Present
<1>. HIDE DEF kept, frozen, at, dropped, reused
<1>12. nextKey \in 0 .. MaxKey /\ nextKey \in Nat /\ MaxKey \in Nat
       /\ 0 \in Filed /\ Filed \subseteq 0 .. nextKey
  BY SizesAre DEF IInv, Filing
<1>13. \A i \in frozen : at(i) \in Nat /\ at(i) > nextKey /\ at(i) # 0 /\ at(i) \notin Filed
       /\ at(i) \in Filed'
  <2>1. \A i \in frozen : at(i) \in Nat /\ at(i) > nextKey
    BY <1>8, <1>12
  <2>. QED
    BY <1>8, <1>12, <2>1
<1>14. \A j \in Stmt : kept[j] # None => cells[s][j] # None /\ kept[j].module = cells[s][j].module
       /\ cells[s][j].module \in Filed /\ cells[s][j].module # 0
  BY <1>8 DEF IInv, InCells
<1>15. dropped \subseteq Filed \ {0} /\ reused \subseteq Filed \ {0}
  BY <1>6, <1>7, <1>14 DEF IInv, InCells
<1>16. ASSUME NEW i \in frozen
       PROVE  DOMAIN cells'[s][i] = {"module", "key"} /\ cells'[s][i].module = at(i)
  <2>1. cells'[s][i] = [module |-> at(i), key |-> Keys(text[s])[i]]
    BY <1>9, <1>11
  <2>2. DOMAIN cells'[s][i] = {"module", "key"}
    BY <2>1
  <2>3. cells'[s][i].module = at(i)
    BY <2>1
  <2>. QED
    BY <2>2, <2>3
<1>17. ASSUME NEW i \in Stmt, i \notin frozen, kept[i] # None
       PROVE  DOMAIN cells'[s][i] = {"module", "key"} /\ cells'[s][i].module = cells[s][i].module
  <2>1. cells'[s][i] = [module |-> cells[s][i].module, key |-> Keys(text[s])[i]]
    BY <1>9, <1>17
  <2>2. \A m, k : DOMAIN [module |-> m, key |-> k] = {"module", "key"} /\ [module |-> m, key |-> k].module = m
    OBVIOUS
  <2>3. DOMAIN cells'[s][i] = {"module", "key"}
    BY <2>1
  <2>. QED
    BY <2>1, <2>2, <2>3
<1>18. \A i \in Stmt : cells'[s][i] # None =>
         /\ DOMAIN cells'[s][i] = {"module", "key"}
         /\ \/ i \in frozen /\ cells'[s][i].module = at(i)
            \/ kept[i] # None /\ cells[s][i] # None /\ cells'[s][i].module = cells[s][i].module
  <2>1. \A i \in Stmt : i \notin frozen /\ kept[i] = None => cells'[s][i] = None
    BY <1>9
  <2>. SUFFICES ASSUME NEW i \in Stmt, cells'[s][i] # None
                PROVE  /\ DOMAIN cells'[s][i] = {"module", "key"}
                       /\ \/ i \in frozen /\ cells'[s][i].module = at(i)
                          \/ kept[i] # None /\ cells[s][i] # None /\ cells'[s][i].module = cells[s][i].module
    OBVIOUS
  <2>2. CASE i \in frozen
    BY <1>16, <2>2
  <2>3. CASE i \notin frozen
    <3>1. kept[i] # None
      BY <2>1, <2>3
    <3>2. cells[s][i] # None
      BY <1>14, <3>1
    <3>. QED
      BY <1>17, <2>3, <3>1, <3>2
  <2>. QED
    BY <2>2, <2>3
<1>19. Shaped'
  <2>1. \A t \in Source : DOMAIN cells'[t] = Stmt
    BY <1>8 DEF IInv, Shaped
  <2>2. \A t \in Source : \A i \in Stmt :
          cells'[t][i] # None => DOMAIN cells'[t][i] = {"module", "key"}
    BY <1>8, <1>18 DEF IInv, Shaped
  <2>3. DOMAIN last' = Source /\ \A t \in Source : last'[t] = None \/ last'[t] \in Program
    BY <1>2 DEF IInv, Shaped
  <2>4. DOMAIN build' = Source /\ DOMAIN unreachable' = Source
    BY <1>5 DEF IInv, Shaped
  <2>. QED
    BY <1>2, <1>8, <2>1, <2>2, <2>3, <2>4 DEF IInv, Shaped
<1>20. Filing'
  <2>1. 0 \in Filed' /\ Filed' \subseteq 0 .. nextKey'
    <3>1. \A k \in Filed' : k \in Filed \/ \E i \in frozen : k = at(i)
      BY <1>8
    <3>2. nextKey' >= nextKey
      BY <1>3, <1>11, <1>12, FreshKeysAre DEF Rebuilt
    <3>3. \A k \in Filed : k \in 0 .. nextKey'
      BY <1>8, <1>12, <3>2
    <3>4. \A i \in frozen : at(i) \in 0 .. nextKey'
      BY <1>8, <1>12
    <3>. QED
      BY <1>8, <1>12, <3>1, <3>3, <3>4
  <2>2. ASSUME NEW k \in Filed', NEW j \in registry'[k].refs
        PROVE  j \in Filed' /\ j < k
    <3>1. CASE k \in Filed
      BY <1>8, <2>2, <3>1 DEF IInv, Filing
    <3>2. CASE k \notin Filed
      <4>1. PICK i \in frozen : k = at(i)
        BY <1>8, <3>2
      <4>2. j \in Lowered(text[s], kept)[i].refs
        BY <1>8, <2>2, <4>1
      <4>3. j \in Filed
        BY <1>10, <1>12, <1>14, <4>2
      <4>. QED
        BY <1>8, <1>12, <1>13, <4>1, <4>3
    <3>. QED
      BY <3>1, <3>2
  <2>. QED
    BY <1>2, <1>8, <2>1, <2>2 DEF IInv, Filing
<1>21. InCells'
  <2>1. \A t \in Source : \A i \in Stmt : cells'[t][i] # None =>
          cells'[t][i].module \in Filed' /\ cells'[t][i].module # 0
    BY <1>8, <1>13, <1>14, <1>18 DEF IInv, InCells
  <2>2. ASSUME NEW t \in Source, NEW i \in Stmt, t # s, cells'[t][i] # None, NEW j \in Stmt,
               cells'[s][j] # None, cells'[t][i].module = cells'[s][j].module
        PROVE  FALSE
    <3>1. cells'[t][i] = cells[t][i] /\ cells[t][i].module \in Filed
      BY <1>8, <2>2 DEF IInv, InCells
    <3>. QED
      BY <1>13, <1>18, <2>2, <3>1 DEF IInv, InCells
  <2>3. ASSUME NEW i \in Stmt, NEW j \in Stmt, cells'[s][i] # None, cells'[s][j] # None,
               cells'[s][i].module = cells'[s][j].module
        PROVE  i = j
    <3>1. CASE i \in frozen /\ cells'[s][i].module = at(i)
      <4>1. at(i) \notin Filed
        BY <1>13, <3>1
      <4>2. j \in frozen /\ cells'[s][j].module = at(j)
        BY <1>14, <1>18, <2>3, <3>1, <4>1
      <4>3. at(i) = at(j)
        BY <2>3, <3>1, <4>2
      <4>4. \A a, b \in frozen : at(a) = at(b) => a = b
        BY <1>8
      <4>. QED
        BY <3>1, <4>2, <4>3, <4>4
    <3>2. CASE kept[i] # None /\ cells[s][i] # None /\ cells'[s][i].module = cells[s][i].module
      <4>1. cells[s][i].module \in Filed
        BY <1>14, <3>2
      <4>2. cells[s][j] # None /\ cells'[s][j].module = cells[s][j].module
        BY <1>13, <1>18, <2>3, <3>2, <4>1
      <4>. QED
        BY <2>3, <3>2, <4>2 DEF IInv, InCells
    <3>. QED
      BY <1>18, <2>3, <3>1, <3>2
  <2>4. ASSUME NEW t \in Source, NEW u \in Source, NEW i \in Stmt, NEW j \in Stmt,
               cells'[t][i] # None, cells'[u][j] # None, cells'[t][i].module = cells'[u][j].module
        PROVE  t = u /\ i = j
    <3>1. CASE t # s /\ u # s
      BY <1>8, <2>4, <3>1 DEF IInv, InCells
    <3>2. CASE t = s \/ u = s
      BY <2>2, <2>3, <2>4, <3>2
    <3>. QED
      BY <3>1, <3>2
  <2>. QED
    BY <2>1, <2>4 DEF InCells
<1>22. Owed'
  <2>1. /\ \A t \in Source : unreachable'[t] = IF t = s THEN unreachable[s] \cup dropped ELSE unreachable[t]
        /\ \A t \in Source : build'[t] = IF t = s THEN reused ELSE build[t]
    BY <1>5 DEF IInv, Shaped
  <2>2. \A t \in Source : unreachable'[t] \subseteq Filed \ {0} /\ build'[t] \subseteq Filed
    BY <1>15, <2>1 DEF IInv, Owed
  <2>3. \A t \in Source : \A i \in Stmt : cells[t][i] # None /\ (t # s \/ kept[i] # None) =>
          cells[t][i].module \notin dropped
    BY <1>6 DEF IInv, InCells
  <2>4. \A t \in Source : \A i \in Stmt : cells'[t][i] # None =>
          \/ cells'[t][i].module \notin Filed /\ t = s
          \/ cells[t][i] # None /\ cells'[t][i].module = cells[t][i].module /\ (t # s \/ kept[i] # None)
    BY <1>8, <1>13, <1>18
  <2>5. ASSUME NEW t \in Source, NEW u \in Source, NEW i \in Stmt, cells'[t][i] # None
        PROVE  /\ cells'[t][i].module \notin unreachable'[u]
               /\ u # t => cells'[t][i].module \notin build'[u]
    <3>1. CASE cells'[t][i].module \notin Filed
      BY <2>2, <3>1
    <3>2. CASE cells[t][i] # None /\ cells'[t][i].module = cells[t][i].module
               /\ (t # s \/ kept[i] # None)
      <4>1. cells[t][i].module \notin unreachable[u] /\ cells[t][i].module \notin dropped
            /\ (u # t => cells[t][i].module \notin build[u])
        BY <2>3, <3>2 DEF IInv, Owed
      <4>2. t # s => cells[t][i].module \notin reused
        BY <1>7, <1>14, <3>2 DEF IInv, InCells
      <4>. QED
        BY <2>1, <3>2, <4>1, <4>2
    <3>. QED
      BY <2>4, <2>5, <3>1, <3>2
  <2>6. ASSUME NEW t \in Source, NEW u \in Source PROVE unreachable'[t] \cap build'[u] = {}
    <3>1. unreachable[t] \cap reused = {}
      BY <1>7, <1>14 DEF IInv, Owed
    <3>2. dropped \cap reused = {}
      BY <1>6, <1>7, <1>14 DEF IInv, InCells
    <3>3. u # s => dropped \cap build[u] = {}
      BY <1>6 DEF IInv, Owed
    <3>4. unreachable[t] \cap build[u] = {}
      BY DEF IInv, Owed
    <3>. QED
      BY <2>1, <3>1, <3>2, <3>3, <3>4
  <2>7. ASSUME NEW t \in Source, NEW u \in Source, t # u PROVE unreachable'[t] \cap unreachable'[u] = {}
    <3>1. unreachable[t] \cap unreachable[u] = {}
      BY <2>7 DEF IInv, Owed
    <3>2. dropped \cap unreachable[t] = {} /\ dropped \cap unreachable[u] = {}
      BY <1>6 DEF IInv, Owed
    <3>. QED
      BY <2>1, <2>7, <3>1, <3>2
  <2>8. Filed \subseteq Filed'
    BY <1>8
  <2>. QED
    BY <2>2, <2>5, <2>6, <2>7, <2>8 DEF Owed
<1>23. OnDisk'
  BY <1>2 DEF IInv, OnDisk
<1>24. Working'
  <2>1. job # Idle
    BY <1>2, IdleIs
  <2>2. DOMAIN job = {"pc", "source", "todo"}
    BY DEF IInv, Working
  <2>3. DOMAIN job' = {"pc", "source", "todo"} /\ job'.pc = "save" /\ job'.source = s
        /\ job'.todo = frozen
    BY <1>2, <1>4, <2>2
  <2>4. \A i \in frozen : cells'[s][i].module \in Filed' /\ cells'[s][i].module # 0
    BY <1>13, <1>16
  <2>. QED
    BY <1>11, <2>3, <2>4 DEF Working
<1>. QED
  BY <1>19, <1>20, <1>21, <1>22, <1>23, <1>24 DEF IInv

-----------------------------------------------------------------------------
(***************************************************************************)
(* The invariant holds of every state.                                     *)
(***************************************************************************)
LEMMA Starts == ASSUME Init PROVE IInv
<1>1. /\ \A s \in Source : /\ last[s] = None /\ build[s] = {} /\ unreachable[s] = {}
                           /\ \A i \in Stmt : cells[s][i] = None /\ disk[s][i] = None
      /\ job = Idle /\ nextKey = 0 /\ imported = 1
  BY DEF Init, Blank
<1>2. Shaped
  BY DEF Init, Shaped, Program, Blank
<1>3. Filing
  <2>1. Filed = {0} /\ registry[0].refs = {}
    BY DEF Init, Filed, FreshRegistry, ImportArtifact
  <2>. QED
    BY <1>1, <2>1, SizeAssumption DEF Filing
<1>4. InCells /\ Owed /\ OnDisk
  BY <1>1 DEF InCells, Owed, OnDisk
<1>5. Working
  BY <1>1, IdleIs DEF Working
<1>. QED
  BY <1>2, <1>3, <1>4, <1>5 DEF IInv

LEMMA Keeps == ASSUME IInv, [Next]_vars PROVE IInv'
<1>1. CASE UNCHANGED vars
  BY <1>1 DEF vars, session, IInv, Shaped, Filing, Filed, InCells, Owed, OnDisk, Working
<1>2. CASE \E s \in Source : Edit(s)
  BY <1>2, EditSafe
<1>3. CASE \E s \in Source : Evict(s)
  BY <1>3, EvictSafe
<1>4. CASE \E s \in Source : Begin(s)
  BY <1>4, BeginSafe
<1>5. CASE \E s \in Source : Rebuild(s)
  BY <1>5, RebuildSafe
<1>6. CASE \E s \in Source : Prune(s)
  BY <1>6, PruneSafe
<1>7. CASE \E s \in Source, i \in Stmt : LoadRecord(s, i)
  BY <1>7, LoadSafe
<1>8. CASE \E s \in Source, i \in Stmt : SaveRecord(s, i)
  BY <1>8, SaveRecordSafe
<1>9. CASE SaveFails
  BY <1>9, SaveFailsSafe
<1>10. CASE ImportChanges
  BY <1>10, ImportSafe
<1>11. CASE Stop
  BY <1>11, StopSafe
<1>. QED
  BY <1>1, <1>2, <1>3, <1>4, <1>5, <1>6, <1>7, <1>8, <1>9, <1>10, <1>11 DEF Next, CompileStep

LEMMA Always == Spec => []IInv
<1>1. Init => IInv
  BY Starts
<1>2. IInv /\ [Next]_vars => IInv'
  BY Keeps
<1>. QED
  BY <1>1, <1>2, PTL DEF Spec

\* Whatever was edited, evicted, loaded or restarted, a module refers to
\* modules filed before it, and no two cells name one module (reserve_cell_key,
\* freeze_cells).
THEOREM TypeCorrect == Spec => []TypeOK
<1>1. IInv => TypeOK
  <2>. SUFFICES ASSUME IInv PROVE TypeOK
    OBVIOUS
  <2>1. nextKey \in 0 .. MaxKey /\ Filed \subseteq 0 .. nextKey /\ 0 \in Filed /\ imported \in 1 .. MaxImport
    BY DEF IInv, Filing
  <2>2. Filed \subseteq 0 .. MaxKey
    BY <2>1, SizesAre
  <2>3. ASSUME NEW k \in Filed, NEW j \in registry[k].refs PROVE j \in 0 .. (k - 1)
    <3>1. j \in Filed /\ j < k
      BY <2>3 DEF IInv, Filing
    <3>. QED
      BY <2>1, <3>1, SizesAre
  <2>4. ASSUME NEW x \in Retained, NEW y \in Retained,
               cells[x[1]][x[2]].module = cells[y[1]][y[2]].module
        PROVE  x = y
    <3>1. /\ x \in Source \X Stmt /\ cells[x[1]][x[2]] # None
          /\ y \in Source \X Stmt /\ cells[y[1]][y[2]] # None
      BY DEF Retained
    <3>2. x[1] = y[1] /\ x[2] = y[2]
      BY <2>4, <3>1 DEF IInv, InCells
    <3>. QED
      BY <3>1, <3>2
  <2>5. \A s \in Source : build[s] \subseteq 0 .. MaxKey /\ unreachable[s] \subseteq 0 .. MaxKey
    BY <2>2 DEF IInv, Owed
  <2>. QED
    BY <2>1, <2>2, <2>3, <2>4, <2>5 DEF TypeOK
<1>. QED
  BY <1>1, Always, PTL

\* evict_unreachable leaves no reader behind: every module that a retained cell
\* or the established build reads, however deep, is filed.
THEOREM ReadersStay == Spec => []ReadersResolve
<1>1. IInv => ReadersResolve
  <2>. SUFFICES ASSUME IInv PROVE ReadersResolve
    OBVIOUS
  <2>1. \A k \in Filed : registry[k].refs \subseteq Filed
    BY DEF IInv, Filing
  <2>2. \A x \in Retained : cells[x[1]][x[2]].module \in Filed
    BY DEF Retained, IInv, InCells
  <2>3. \A s \in Source : build[s] \subseteq Filed
    BY DEF IInv, Owed
  <2>. QED
    BY <2>1, <2>2, <2>3 DEF ReadersResolve
<1>. QED
  BY <1>1, Always, PTL

-----------------------------------------------------------------------------
(***************************************************************************)
(* What values, keys and contents have to do with each other.              *)
(***************************************************************************)
LEMMA FreshVersion ==
    ASSUME NEW prog \in Program, NEW i \in 0 .. N, NEW v, <<0, v>> \in Fresh(prog)[i]
    PROVE  v = imported
<1>. DEFINE F == Fresh(prog)
            T == {n \in Nat : n <= N /\ <<0, v>> \in F[n] => v = imported}
<1>1. ASSUME NEW n \in Nat, \A k \in 0 .. n - 1 : k \in T PROVE n \in T
  <2>. SUFFICES ASSUME n <= N, <<0, v>> \in F[n] PROVE v = imported
    OBVIOUS
  <2>1. CASE n = 0
    BY <2>1, FreshIs
  <2>2. CASE n # 0
    <3>1. n \in Stmt
      BY <2>2, SizesAre DEF Stmt
    <3>2. \A k \in ReadsOf(prog, n) : k \in 0 .. n - 1 /\ k <= N
      BY <3>1, ReadsAre, SizesAre DEF Stmt
    <3>3. F[n] = IF prog[n] = None THEN {<<n, None>>}
                 ELSE {PairOf(prog, n)} \cup UNION {F[j] : j \in ReadsOf(prog, n)}
      BY <3>1, FreshIs
    <3>4. PairOf(prog, n)[1] = n
      BY DEF PairOf
    <3>. HIDE DEF F
    <3>5. PICK j \in ReadsOf(prog, n) : <<0, v>> \in F[j]
      BY <2>2, <3>3, <3>4
    <3>. QED
      BY <1>1, <3>2, <3>5
  <2>. QED
    BY <2>1, <2>2
<1>. HIDE DEF T
<1>2. Nat \subseteq T
  BY <1>1, ByStrongInduction
<1>3. i \in T /\ i <= N
  BY <1>2, SizesAre
<1>. QED
  BY <1>3 DEF T

LEMMA KeysFresh ==
    ASSUME NEW prog \in Program, NEW i \in 0 .. N, Keys(prog)[i] # None
    PROVE  Keys(prog)[i] = Fresh(prog)[i]
<1>. DEFINE F == Fresh(prog)
            K == Keys(prog)
            T == {n \in Nat : n <= N => K[n] = None \/ K[n] = F[n]}
<1>1. ASSUME NEW n \in Nat, \A k \in 0 .. n - 1 : k \in T PROVE n \in T
  <2>. SUFFICES ASSUME n <= N PROVE K[n] = None \/ K[n] = F[n]
    OBVIOUS
  <2>1. CASE n = 0
    BY <2>1, FreshIs, KeysAre
  <2>2. CASE n # 0
    <3>1. n \in Stmt
      BY <2>2, SizesAre DEF Stmt
    <3>2. \A k \in ReadsOf(prog, n) : k \in 0 .. n - 1 /\ k <= N
      BY <3>1, ReadsAre, SizesAre DEF Stmt
    <3>3. F[n] = IF prog[n] = None THEN {<<n, None>>}
                 ELSE {PairOf(prog, n)} \cup UNION {F[j] : j \in ReadsOf(prog, n)}
      BY <3>1, FreshIs
    <3>4. K[n] = IF prog[n] = None THEN {<<n, None>>}
                 ELSE IF PairOf(prog, n) \in Keyless \/ None \in {K[j] : j \in ReadsOf(prog, n)}
                   THEN None
                   ELSE {PairOf(prog, n)} \cup UNION {K[j] : j \in ReadsOf(prog, n)}
      BY <3>1, KeysAre
    <3>5. \A k \in ReadsOf(prog, n) : K[k] = None \/ K[k] = F[k]
      BY <1>1, <3>2
    <3>. HIDE DEF F, K
    <3>6. CASE None \in {K[j] : j \in ReadsOf(prog, n)}
      BY <3>3, <3>4, <3>6
    <3>7. CASE None \notin {K[j] : j \in ReadsOf(prog, n)}
      <4>1. \A k \in ReadsOf(prog, n) : K[k] = F[k]
        BY <3>5, <3>7
      <4>2. {K[j] : j \in ReadsOf(prog, n)} = {F[j] : j \in ReadsOf(prog, n)}
        BY <4>1
      <4>. QED
        BY <3>3, <3>4, <4>2
    <3>. QED
      BY <3>6, <3>7
  <2>. QED
    BY <2>1, <2>2
<1>. HIDE DEF T
<1>2. Nat \subseteq T
  BY <1>1, ByStrongInduction
<1>3. i \in T /\ i <= N
  BY <1>2, SizesAre
<1>. QED
  BY <1>3 DEF T

\* A statement none of whose reads, however far, was edited keeps its value.
LEMMA FreshStays ==
    ASSUME NEW old \in Program, NEW new \in Program, NEW i \in 0 .. N,
           Behind(old)[i] \cap Changed(old, new) = {}
    PROVE  Fresh(new)[i] = Fresh(old)[i]
<1>. DEFINE F == Fresh(old)
            G == Fresh(new)
            B == Behind(old)
            T == {n \in Nat : n <= N /\ B[n] \cap Changed(old, new) = {} => G[n] = F[n]}
<1>1. ASSUME NEW n \in Nat, \A k \in 0 .. n - 1 : k \in T PROVE n \in T
  <2>. SUFFICES ASSUME n <= N, B[n] \cap Changed(old, new) = {} PROVE G[n] = F[n]
    OBVIOUS
  <2>1. CASE n = 0
    BY <2>1, FreshIs
  <2>2. CASE n # 0
    <3>1. n \in Stmt
      BY <2>2, SizesAre DEF Stmt
    <3>2. \A k \in ReadsOf(old, n) : k \in 0 .. n - 1 /\ k <= N
      BY <3>1, ReadsAre, SizesAre DEF Stmt
    <3>3. B[n] = {n} \cup UNION {B[j] : j \in ReadsOf(old, n)}
      BY <3>1, BehindIs
    <3>4. new[n] = old[n]
      BY <3>1, <3>3 DEF Changed
    <3>5. PairOf(new, n) = PairOf(old, n) /\ ReadsOf(new, n) = ReadsOf(old, n)
      BY <3>4 DEF PairOf, ReadsOf
    <3>6. F[n] = IF old[n] = None THEN {<<n, None>>}
                 ELSE {PairOf(old, n)} \cup UNION {F[j] : j \in ReadsOf(old, n)}
      BY <3>1, FreshIs
    <3>7. G[n] = IF old[n] = None THEN {<<n, None>>}
                 ELSE {PairOf(old, n)} \cup UNION {G[j] : j \in ReadsOf(old, n)}
      BY <3>1, <3>4, <3>5, FreshIs
    <3>. HIDE DEF F, G, B
    <3>8. \A k \in ReadsOf(old, n) : B[k] \cap Changed(old, new) = {}
      BY <3>3
    <3>9. \A k \in ReadsOf(old, n) : G[k] = F[k]
      BY <1>1, <3>2, <3>8
    <3>10. {G[j] : j \in ReadsOf(old, n)} = {F[j] : j \in ReadsOf(old, n)}
      BY <3>9
    <3>. QED
      BY <3>6, <3>7, <3>10
  <2>. QED
    BY <2>1, <2>2
<1>. HIDE DEF T
<1>2. Nat \subseteq T
  BY <1>1, ByStrongInduction
<1>3. i \in T /\ i <= N
  BY <1>2, SizesAre
<1>. QED
  BY <1>3 DEF T

\* A module refers to earlier modules, and they are there.
Closed(modules) ==
  /\ DOMAIN modules \subseteq 0 .. MaxKey
  /\ \A k \in DOMAIN modules : \A j \in modules[k].refs : j \in DOMAIN modules /\ j < k

LEMMA ClosedIs ==
    ASSUME NEW modules, Closed(modules)
    PROVE  /\ Ordered(modules)
           /\ \A k \in DOMAIN modules : ContentsOf(modules)[k] =
                modules[k].own \cup UNION {ContentsOf(modules)[j] : j \in modules[k].refs}
<1>1. Ordered(modules)
  BY DEF Closed, Ordered
<1>. QED
  BY <1>1, ContentsAre DEF Closed

\* What is said of a module holds whatever else is filed.
LEMMA ContentsExtend ==
    ASSUME NEW old, NEW new, Closed(old), Closed(new), DOMAIN old \subseteq DOMAIN new,
           \A k \in DOMAIN old : new[k].own = old[k].own /\ new[k].refs = old[k].refs,
           NEW m \in DOMAIN old
    PROVE  ContentsOf(new)[m] = ContentsOf(old)[m]
<1>. DEFINE C == ContentsOf(old)
            D == ContentsOf(new)
            T == {n \in Nat : n \in DOMAIN old => D[n] = C[n]}
<1>1. ASSUME NEW n \in Nat, \A k \in 0 .. n - 1 : k \in T PROVE n \in T
  <2>. SUFFICES ASSUME n \in DOMAIN old PROVE D[n] = C[n]
    OBVIOUS
  <2>1. /\ C[n] = old[n].own \cup UNION {C[j] : j \in old[n].refs}
        /\ D[n] = new[n].own \cup UNION {D[j] : j \in new[n].refs}
    BY ClosedIs
  <2>2. \A j \in old[n].refs : j \in DOMAIN old /\ j \in 0 .. n - 1
    BY SizesAre DEF Closed
  <2>. HIDE DEF C, D
  <2>3. \A j \in old[n].refs : D[j] = C[j]
    BY <1>1, <2>2
  <2>4. {D[j] : j \in old[n].refs} = {C[j] : j \in old[n].refs}
    BY <2>3
  <2>5. new[n].own = old[n].own /\ new[n].refs = old[n].refs
    OBVIOUS
  <2>. QED
    BY <2>1, <2>4, <2>5
<1>. HIDE DEF T
<1>2. Nat \subseteq T
  BY <1>1, ByStrongInduction
<1>3. m \in T
  BY <1>2, SizesAre DEF Closed
<1>. QED
  BY <1>3 DEF T

\* The modules as they read while another version of the import is registered.
At(modules, v) == [modules EXCEPT ![0] = ImportArtifact(v)]

LEMMA AtIs ==
    ASSUME NEW modules, Closed(modules), 0 \in DOMAIN modules, NEW v
    PROVE  /\ Closed(At(modules, v)) /\ DOMAIN At(modules, v) = DOMAIN modules
           /\ ContentsOf(At(modules, v))[0] = {<<0, v>>}
           /\ \A k \in DOMAIN modules : k # 0 => At(modules, v)[k] = modules[k]
<1>. DEFINE B == At(modules, v)
<1>1. /\ DOMAIN B = DOMAIN modules
      /\ B[0].own = {<<0, v>>} /\ B[0].refs = {}
      /\ \A k \in DOMAIN modules : k # 0 => B[k] = modules[k]
  BY DEF At, ImportArtifact
<1>. HIDE DEF B
<1>2. Closed(B)
  BY <1>1 DEF Closed
<1>3. ContentsOf(B)[0] = B[0].own \cup UNION {ContentsOf(B)[j] : j \in B[0].refs}
  BY <1>1, <1>2, ClosedIs
<1>4. ContentsOf(B)[0] = {<<0, v>>}
  BY <1>1, <1>3
<1>. QED
  BY <1>1, <1>2, <1>4 DEF B

\* What does not show the import is the same for every version of it.
LEMMA ContentsVersion ==
    ASSUME NEW modules, Closed(modules), 0 \in DOMAIN modules, NEW v,
           NEW m \in DOMAIN modules, <<0, v>> \notin ContentsOf(At(modules, v))[m]
    PROVE  ContentsOf(modules)[m] = ContentsOf(At(modules, v))[m]
<1>. DEFINE C == ContentsOf(modules)
            B == At(modules, v)
            D == ContentsOf(B)
            T == {n \in Nat : n \in DOMAIN modules /\ <<0, v>> \notin D[n] => D[n] = C[n]}
<1>1. /\ Closed(B) /\ DOMAIN B = DOMAIN modules /\ D[0] = {<<0, v>>}
      /\ \A k \in DOMAIN modules : k # 0 => B[k] = modules[k]
  BY AtIs
<1>. HIDE DEF B
<1>2. ASSUME NEW n \in Nat, \A k \in 0 .. n - 1 : k \in T PROVE n \in T
  <2>. SUFFICES ASSUME n \in DOMAIN modules, <<0, v>> \notin D[n] PROVE D[n] = C[n]
    OBVIOUS
  <2>1. n # 0 /\ B[n] = modules[n]
    BY <1>1
  <2>2. /\ C[n] = modules[n].own \cup UNION {C[j] : j \in modules[n].refs}
        /\ D[n] = modules[n].own \cup UNION {D[j] : j \in modules[n].refs}
    BY <1>1, <2>1, ClosedIs
  <2>3. \A j \in modules[n].refs : j \in DOMAIN modules /\ j \in 0 .. n - 1
    BY SizesAre DEF Closed
  <2>. HIDE DEF C, D
  <2>4. \A j \in modules[n].refs : <<0, v>> \notin D[j]
    BY <2>2
  <2>5. \A j \in modules[n].refs : D[j] = C[j]
    BY <1>2, <2>3, <2>4
  <2>6. {D[j] : j \in modules[n].refs} = {C[j] : j \in modules[n].refs}
    BY <2>5
  <2>. QED
    BY <2>2, <2>6
<1>. HIDE DEF T
<1>3. Nat \subseteq T
  BY <1>2, ByStrongInduction
<1>4. m \in T
  BY <1>3, SizesAre DEF Closed
<1>. QED
  BY <1>4 DEF T, B

\* The lowering of a program over retained cells that answer what it computes
\* reads what it computes.
LEMMA LoweredMeans ==
    ASSUME NEW prog \in Program, NEW kept, NEW C, C[0] = {<<0, imported>>},
           \A j \in Stmt : kept[j] # None => prog[j] # None /\ C[kept[j].module] = Fresh(prog)[j],
           NEW i \in 0 .. N
    PROVE  Lowered(prog, kept)[i].own \cup UNION {C[r] : r \in Lowered(prog, kept)[i].refs}
             = Fresh(prog)[i]
<1>. DEFINE F == Fresh(prog)
            L == Lowered(prog, kept)
            T == {n \in Nat : n <= N => L[n].own \cup UNION {C[r] : r \in L[n].refs} = F[n]}
<1>1. ASSUME NEW n \in Nat, \A k \in 0 .. n - 1 : k \in T PROVE n \in T
  <2>. SUFFICES ASSUME n <= N PROVE L[n].own \cup UNION {C[r] : r \in L[n].refs} = F[n]
    OBVIOUS
  <2>1. CASE n = 0
    <3>1. L[0].own = {} /\ L[0].refs = {0} /\ F[0] = {<<0, imported>>}
      BY LoweredIs, FreshIs
    <3>. HIDE DEF L, F
    <3>. QED
      BY <2>1, <3>1
  <2>2. CASE n # 0
    <3>1. n \in Stmt
      BY <2>2, SizesAre DEF Stmt
    <3>2. \A k \in ReadsOf(prog, n) : k \in 0 .. n - 1 /\ k <= N
      BY <3>1, ReadsAre, SizesAre DEF Stmt
    <3>3. F[n] = IF prog[n] = None THEN {<<n, None>>}
                 ELSE {PairOf(prog, n)} \cup UNION {F[j] : j \in ReadsOf(prog, n)}
      BY <3>1, FreshIs
    <3>4. /\ prog[n] = None => L[n].own = {<<n, None>>} /\ L[n].refs = {}
          /\ prog[n] # None /\ kept[n] # None => L[n].own = {} /\ L[n].refs = {kept[n].module}
          /\ prog[n] # None /\ kept[n] = None =>
               /\ L[n].own = {PairOf(prog, n)} \cup UNION {L[k].own : k \in ReadsOf(prog, n)}
               /\ L[n].refs = UNION {L[k].refs : k \in ReadsOf(prog, n)}
      BY <3>1, LoweredIs
    <3>5. \A k \in ReadsOf(prog, n) : L[k].own \cup UNION {C[r] : r \in L[k].refs} = F[k]
      BY <1>1, <3>2
    <3>6. kept[n] # None => prog[n] # None /\ C[kept[n].module] = F[n]
      BY <3>1
    <3>. HIDE DEF L, F
    <3>7. CASE prog[n] = None
      BY <3>3, <3>4, <3>7
    <3>8. CASE prog[n] # None /\ kept[n] # None
      BY <3>4, <3>6, <3>8
    <3>9. CASE prog[n] # None /\ kept[n] = None
      <4>1. /\ L[n].own = {PairOf(prog, n)} \cup UNION {L[k].own : k \in ReadsOf(prog, n)}
            /\ L[n].refs = UNION {L[k].refs : k \in ReadsOf(prog, n)}
        BY <3>4, <3>9
      <4>2. F[n] = {PairOf(prog, n)} \cup UNION {F[j] : j \in ReadsOf(prog, n)}
        BY <3>3, <3>9
      <4>3. ASSUME NEW x \in F[n] PROVE x \in L[n].own \cup UNION {C[r] : r \in L[n].refs}
        <5>1. CASE x = PairOf(prog, n)
          BY <4>1, <5>1
        <5>2. CASE \E k \in ReadsOf(prog, n) : x \in F[k]
          <6>1. PICK k \in ReadsOf(prog, n) : x \in F[k]
            BY <5>2
          <6>2. x \in L[k].own \/ \E r \in L[k].refs : x \in C[r]
            BY <3>5, <6>1
          <6>3. L[k].own \subseteq L[n].own /\ L[k].refs \subseteq L[n].refs
            BY <4>1
          <6>. QED
            BY <6>2, <6>3
        <5>. QED
          BY <4>2, <4>3, <5>1, <5>2
      <4>4. ASSUME NEW x \in L[n].own PROVE x \in F[n]
        <5>1. x = PairOf(prog, n) \/ \E k \in ReadsOf(prog, n) : x \in L[k].own
          BY <4>1, <4>4
        <5>. QED
          BY <3>5, <4>2, <5>1
      <4>5. ASSUME NEW r \in L[n].refs, NEW x \in C[r] PROVE x \in F[n]
        <5>1. \E k \in ReadsOf(prog, n) : r \in L[k].refs
          BY <4>1, <4>5
        <5>. QED
          BY <3>5, <4>2, <4>5, <5>1
      <4>. QED
        BY <4>3, <4>4, <4>5
    <3>. QED
      BY <3>7, <3>8, <3>9
  <2>. QED
    BY <2>1, <2>2
<1>. HIDE DEF T
<1>2. Nat \subseteq T
  BY <1>1, ByStrongInduction
<1>3. i \in T /\ i <= N
  BY <1>2, SizesAre
<1>. QED
  BY <1>3 DEF T

-----------------------------------------------------------------------------
(***************************************************************************)
(* One process.  A key is handed out once, so there is one ledger of all   *)
(* the artifacts ever filed, evicted ones too: the registry is a part of   *)
(* it, every record on disk is an entry of it, and the key of a record is  *)
(* what the entry answered under some version of the import.               *)
(***************************************************************************)
\* What module m answers, or answered under another version of the import.
Said(ledger, m, key) == \E v \in Nat : key = ContentsOf(At(ledger, v))[m]

Entries(ledger) ==
  /\ Closed(ledger) /\ DOMAIN ledger \subseteq 0 .. nextKey
  /\ Filed \subseteq DOMAIN ledger /\ \A k \in Filed : ledger[k] = registry[k]
  /\ registry[0] = ImportArtifact(imported)

Records(ledger) ==
  \A s \in Source : \A i \in Stmt : disk[s][i] # None =>
    /\ disk[s][i].module \in DOMAIN ledger /\ disk[s][i].artifact = ledger[disk[s][i].module]
    /\ disk[s][i].key # None /\ Said(ledger, disk[s][i].module, disk[s][i].key)

\* The cells of a session that has not compiled yet are as they were loaded.
Loaded(ledger) ==
  \A s \in Source : \A i \in Stmt : cells[s][i] # None /\ last[s] = None =>
    cells[s][i].key # None /\ Said(ledger, cells[s][i].module, cells[s][i].key)

\* The cells of a session that has compiled, and those that are being saved.
Saving(s, i) == job.pc = "save" /\ job.source = s /\ i \in job.todo
Answers(ledger) ==
  \A s \in Source : \A i \in Stmt : last[s] # None /\ (cells[s][i] # None \/ Saving(s, i)) =>
    /\ i \in Marked(last[s]) /\ cells[s][i].key = Keys(last[s])[i]
    /\ ContentsOf(ledger)[cells[s][i].module] = Fresh(last[s])[i]

\* Only a first compile loads, and what is saved was compiled.
Schedule ==
  /\ job.pc = "load" /\ last[job.source] # None => job.todo = {}
  /\ job.pc = "save" => last[job.source] # None

Ledger(ledger) == Entries(ledger) /\ Records(ledger) /\ Loaded(ledger) /\ Answers(ledger) /\ Schedule

\* The values and keys of a program, before the step and after it.
LEMMA ValuesMove ==
    ASSUME imported' = imported, NEW s, NEW p, last'[s] = p
    PROVE  Fresh(last[s])' = Fresh(p) /\ Keys(last[s])' = Keys(p)
<1>1. Fresh(last[s])' = Fresh(p)
  BY DEF Fresh
<1>2. Keys(last[s])' = Keys(p)
  BY DEF Keys
<1>. QED
  BY <1>1, <1>2

LEMMA AnswersStay ==
    ASSUME NEW ledger, Answers(ledger), UNCHANGED <<imported, last>>,
           \A s \in Source : last[s] # None => cells'[s] = cells[s],
           \A s \in Source : \A i \in Stmt : Saving(s, i)' => Saving(s, i)
    PROVE  Answers(ledger)'
<1>1. \A s : Fresh(last[s])' = Fresh(last[s]) /\ Keys(last[s])' = Keys(last[s])
  BY ValuesMove
<1>. QED
  BY <1>1 DEF Answers, Marked, Present

\* A step that leaves the sessions and the registry alone.
LEMMA QuietLedger ==
    ASSUME NEW ledger, Ledger(ledger), UNCHANGED <<imported, last, cells, registry, nextKey>>,
           Records(ledger)', Schedule', \A s \in Source : \A i \in Stmt : Saving(s, i)' => Saving(s, i)
    PROVE  Ledger(ledger)'
<1>1. Entries(ledger)'
  BY DEF Ledger, Entries, Filed
<1>2. Loaded(ledger)'
  BY DEF Ledger, Loaded
<1>3. Answers(ledger)'
  BY AnswersStay DEF Ledger
<1>. QED
  BY <1>1, <1>2, <1>3 DEF Ledger

LEMMA EditLedger ==
    ASSUME NEW ledger, Ledger(ledger), NEW s \in Source, Edit(s)
    PROVE  Ledger(ledger)'
<1>1. UNCHANGED <<imported, last, cells, registry, nextKey, disk, job>>
  BY DEF Edit, session
<1>2. Records(ledger)' /\ Schedule' /\ \A t \in Source : \A i \in Stmt : Saving(t, i)' => Saving(t, i)
  BY <1>1 DEF Ledger, Records, Schedule, Saving
<1>. QED
  BY <1>1, <1>2, QuietLedger

LEMMA EvictLedger ==
    ASSUME IInv, NEW ledger, Ledger(ledger), NEW s \in Source, Evict(s)
    PROVE  Ledger(ledger)'
<1>. DEFINE gone == Freed(unreachable[s])
<1>1. registry' = Without(gone) /\ UNCHANGED <<imported, last, cells, nextKey, disk, job>>
  BY DEF Evict
<1>2. gone \subseteq unreachable[s] /\ gone \subseteq Filed
  BY FreedIs
<1>. HIDE DEF gone
<1>3. Filed' = Filed \ gone /\ \A k \in Filed \ gone : registry'[k] = registry[k]
  BY <1>1, <1>2, WithoutIs DEF Filed
<1>4. 0 \in Filed /\ 0 \notin gone
  BY <1>2 DEF IInv, Owed, Filing
<1>5. Entries(ledger)'
  BY <1>1, <1>3, <1>4 DEF Ledger, Entries
<1>6. Records(ledger)' /\ Loaded(ledger)' /\ Schedule'
  BY <1>1 DEF Ledger, Records, Loaded, Schedule
<1>7. Answers(ledger)'
  <2>1. \A t \in Source : \A i \in Stmt : Saving(t, i)' => Saving(t, i)
    BY <1>1 DEF Saving
  <2>. QED
    BY <1>1, <2>1, AnswersStay DEF Ledger
<1>. QED
  BY <1>5, <1>6, <1>7 DEF Ledger

LEMMA BeginLedger ==
    ASSUME NEW ledger, Ledger(ledger), NEW s \in Source, Begin(s)
    PROVE  Ledger(ledger)'
<1>1. /\ job' = [pc |-> "load", source |-> s,
                 todo |-> IF last[s] = None THEN {i \in Stmt : disk[s][i] # None} ELSE {}]
      /\ UNCHANGED <<imported, last, cells, registry, nextKey, disk>>
  BY DEF Begin, session
<1>2. job'.pc = "load" /\ job'.source = s /\ (last'[s] # None => job'.todo = {})
  BY <1>1
<1>3. Schedule' /\ \A t \in Source : \A i \in Stmt : Saving(t, i)' => Saving(t, i)
  BY <1>2 DEF Schedule, Saving
<1>4. Records(ledger)'
  BY <1>1 DEF Ledger, Records
<1>. QED
  BY <1>1, <1>3, <1>4, QuietLedger

LEMMA SaveFailsLedger ==
    ASSUME IInv, NEW ledger, Ledger(ledger), SaveFails
    PROVE  Ledger(ledger)'
<1>1. /\ job.pc = "save" /\ job' = [job EXCEPT !.todo = {}]
      /\ UNCHANGED <<imported, last, cells, registry, nextKey, disk>>
  BY DEF SaveFails, session
<1>2. DOMAIN job = {"pc", "source", "todo"}
  BY DEF IInv, Working
<1>3. job'.pc = "save" /\ job'.source = job.source /\ job'.todo = {}
  BY <1>1, <1>2
<1>4. Schedule' /\ \A s \in Source : \A i \in Stmt : Saving(s, i)' => Saving(s, i)
  BY <1>1, <1>3 DEF Ledger, Schedule, Saving
<1>5. Records(ledger)'
  BY <1>1 DEF Ledger, Records
<1>. QED
  BY <1>1, <1>4, <1>5, QuietLedger

LEMMA PruneLedger ==
    ASSUME IInv, NEW ledger, Ledger(ledger), NEW s \in Source, Prune(s)
    PROVE  Ledger(ledger)'
<1>1. /\ disk' = [disk EXCEPT ![s] = [i \in Stmt |-> IF cells[s][i] = None THEN None ELSE @[i]]]
      /\ job' = Idle
      /\ UNCHANGED <<imported, last, cells, registry, nextKey>>
  BY DEF Prune, session
<1>2. \A t \in Source : \A j \in Stmt : disk'[t][j] = disk[t][j] \/ disk'[t][j] = None
  BY <1>1 DEF IInv, Shaped
<1>3. Records(ledger)'
  BY <1>2 DEF Ledger, Records
<1>4. Schedule' /\ \A t \in Source : \A i \in Stmt : Saving(t, i)' => Saving(t, i)
  BY <1>1, IdleIs DEF Schedule, Saving
<1>. QED
  BY <1>1, <1>3, <1>4, QuietLedger

\* What a module answers now is what it says under the version registered.
LEMMA SaidNow ==
    ASSUME IInv, NEW ledger, Entries(ledger), NEW m \in DOMAIN ledger
    PROVE  Said(ledger, m, ContentsOf(ledger)[m])
<1>1. Closed(ledger) /\ 0 \in DOMAIN ledger /\ ledger[0] = ImportArtifact(imported)
  BY DEF Entries, IInv, Filing
<1>. DEFINE B == At(ledger, imported)
<1>2. \A k \in DOMAIN ledger : B[k] = ledger[k]
  BY <1>1 DEF At
<1>3. Closed(B) /\ DOMAIN B = DOMAIN ledger
  BY <1>1, AtIs
<1>. HIDE DEF B
<1>4. ContentsOf(B)[m] = ContentsOf(ledger)[m]
  BY <1>1, <1>2, <1>3, ContentsExtend
<1>5. imported \in Nat
  BY SizeAssumption DEF IInv, Filing
<1>. QED
  BY <1>4, <1>5 DEF Said, B

LEMMA SaveRecordLedger ==
    ASSUME IInv, NEW ledger, Ledger(ledger), NEW s \in Source, NEW i \in Stmt, SaveRecord(s, i)
    PROVE  Ledger(ledger)'
<1>. DEFINE c == cells[s][i]
            r == RecordOf(c)
<1>1. /\ job.pc = "save" /\ job.source = s /\ i \in job.todo
      /\ disk' = IF Storable(c) THEN [disk EXCEPT ![s][i] = r] ELSE disk
      /\ job' = [job EXCEPT !.todo = @ \ {i}]
      /\ UNCHANGED <<imported, last, cells, registry, nextKey>>
  BY DEF SaveRecord, session
<1>2. DOMAIN job = {"pc", "source", "todo"}
  BY DEF IInv, Working
<1>3. job'.pc = "save" /\ job'.source = s /\ job'.todo = job.todo \ {i}
  BY <1>1, <1>2
<1>4. last[s] # None /\ Saving(s, i)
  BY <1>1 DEF Ledger, Schedule, Saving
<1>5. Schedule' /\ \A t \in Source : \A j \in Stmt : Saving(t, j)' => Saving(t, j)
  BY <1>1, <1>3, <1>4 DEF Schedule, Saving
<1>6. CASE ~Storable(c)
  <2>1. Records(ledger)'
    BY <1>1, <1>6 DEF Ledger, Records
  <2>. QED
    BY <1>1, <1>5, <2>1, QuietLedger
<1>7. CASE Storable(c)
  <2>1. c.key # None /\ c.module \in Filed
    BY <1>1, <1>7, IdleIs DEF Storable, IInv, Working
  <2>2. c.key = Keys(last[s])[i] /\ ContentsOf(ledger)[c.module] = Fresh(last[s])[i]
    BY <1>4 DEF Ledger, Answers
  <2>3. last[s] \in Program /\ i \in 0 .. N
    BY <1>4, SizesAre DEF IInv, Shaped, Stmt
  <2>4. c.key = ContentsOf(ledger)[c.module]
    BY <2>1, <2>2, <2>3, KeysFresh
  <2>5. c.module \in DOMAIN ledger /\ ledger[c.module] = registry[c.module]
    BY <2>1 DEF Ledger, Entries
  <2>6. Said(ledger, c.module, c.key)
    BY <2>4, <2>5, SaidNow DEF Ledger
  <2>7. r.module = c.module /\ r.key = c.key /\ r.artifact = registry[c.module]
    BY DEF RecordOf
  <2>. HIDE DEF r, c
  <2>8. \A t \in Source : \A j \in Stmt : disk'[t][j] = disk[t][j] \/ disk'[t][j] = r
    BY <1>1, <1>7 DEF IInv, Shaped
  <2>9. Records(ledger)'
    BY <2>1, <2>5, <2>6, <2>7, <2>8 DEF Ledger, Records
  <2>. QED
    BY <1>1, <1>5, <2>9, QuietLedger
<1>. QED
  BY <1>6, <1>7

LEMMA LoadLedger ==
    ASSUME IInv, NEW ledger, Ledger(ledger), NEW s \in Source, NEW i \in Stmt, LoadRecord(s, i)
    PROVE  Ledger(ledger)'
<1>. DEFINE r == disk[s][i]
            m == r.module
            c == [module |-> m, key |-> r.key]
<1>1. /\ job.pc = "load" /\ job.source = s /\ i \in job.todo
      /\ job' = [job EXCEPT !.todo = @ \ {i}]
      /\ UNCHANGED <<imported, last, disk>>
  BY DEF LoadRecord
<1>2. job # Idle
  BY <1>1, IdleIs
<1>3. DOMAIN job = {"pc", "source", "todo"} /\ \A j \in job.todo : disk[s][j] # None
  BY <1>1, <1>2 DEF IInv, Working
<1>4. last[s] = None
  BY <1>1 DEF Ledger, Schedule
<1>5. job'.pc = "load" /\ job'.source = s
  BY <1>1, <1>3
<1>6. Schedule'
  BY <1>1, <1>4, <1>5 DEF Schedule
<1>7. Records(ledger)'
  BY <1>1 DEF Ledger, Records
<1>8. CASE ~Loads(r)
  <2>1. UNCHANGED <<registry, nextKey, cells>>
    BY <1>8 DEF LoadRecord
  <2>2. \A t \in Source : \A j \in Stmt : Saving(t, j)' => Saving(t, j)
    BY <1>5 DEF Saving
  <2>. QED
    BY <1>1, <1>6, <1>7, <2>1, <2>2, QuietLedger
<1>9. CASE Loads(r)
  <2>1. /\ m \notin Filed
        /\ registry' = [k \in Filed \cup {m} |-> IF k = m THEN r.artifact ELSE registry[k]]
        /\ nextKey' = Reserved(m)
        /\ cells' = [cells EXCEPT ![s][i] = c]
    BY <1>9 DEF LoadRecord, Loads
  <2>2. r # None
    BY <1>1, <1>3
  <2>3. m \in DOMAIN ledger /\ r.artifact = ledger[m] /\ r.key # None /\ Said(ledger, m, r.key)
    BY <2>2 DEF Ledger, Records
  <2>4. c.module = m /\ c.key = r.key
    OBVIOUS
  <2>. HIDE DEF c, m, r
  <2>5. Filed' = Filed \cup {m} /\ registry'[m] = r.artifact
        /\ \A k \in Filed : registry'[k] = registry[k]
    BY <2>1 DEF Filed
  <2>6. /\ cells'[s][i] = c
        /\ \A t \in Source : \A j \in Stmt : t # s \/ j # i => cells'[t][j] = cells[t][j]
        /\ \A t \in Source : t # s => cells'[t] = cells[t]
    BY <2>1 DEF IInv, Shaped
  <2>7. Entries(ledger)'
    <3>1. nextKey \in Nat /\ m \in Nat
      BY <2>3, SizesAre DEF IInv, Filing, Ledger, Entries, Closed
    <3>2. nextKey' \in Nat /\ nextKey' >= nextKey
      BY <2>1, <3>1, ReservedIs
    <3>3. DOMAIN ledger \subseteq 0 .. nextKey'
      BY <3>1, <3>2 DEF Ledger, Entries
    <3>4. 0 \in Filed
      BY DEF IInv, Filing
    <3>. QED
      BY <1>1, <2>3, <2>5, <3>3, <3>4 DEF Ledger, Entries
  <2>8. Loaded(ledger)'
    BY <1>1, <2>3, <2>4, <2>6 DEF Ledger, Loaded
  <2>9. Answers(ledger)'
    <3>1. \A t \in Source : last[t] # None => cells'[t] = cells[t]
      BY <1>4, <2>6
    <3>2. \A t \in Source : \A j \in Stmt : Saving(t, j)' => Saving(t, j)
      BY <1>5 DEF Saving
    <3>. QED
      BY <1>1, <3>1, <3>2, AnswersStay DEF Ledger
  <2>. QED
    BY <1>6, <1>7, <2>7, <2>8, <2>9 DEF Ledger
<1>. QED
  BY <1>8, <1>9

LEMMA ImportLedger ==
    ASSUME IInv, NEW ledger, Ledger(ledger), ImportChanges
    PROVE  \E new : Ledger(new)'
<1>. DEFINE gone == Freed(UNION Range(unreachable))
            left == Without(gone)
<1>. PICK w : w = imported + 1
  OBVIOUS
<1>. PICK after : after = At(ledger, w)
  OBVIOUS
<1>1. /\ imported' = w /\ NoSession /\ job' = Idle
      /\ registry' = [left EXCEPT ![0] = ImportArtifact(w)]
      /\ UNCHANGED <<nextKey, disk>>
  BY DEF ImportChanges
<1>2. gone \subseteq Filed
  BY FreedIs
<1>3. 0 \notin gone
  <2>1. \A x \in Range(unreachable) : 0 \notin x
    BY DEF Range, IInv, Owed, Shaped
  <2>2. gone \subseteq UNION Range(unreachable)
    BY FreedIs
  <2>. QED
    BY <2>1, <2>2
<1>. HIDE DEF gone
<1>4. DOMAIN left = Filed \ gone /\ \A k \in Filed \ gone : left[k] = registry[k]
  BY <1>2, WithoutIs
<1>. HIDE DEF left
<1>5. 0 \in Filed /\ Filed \subseteq DOMAIN ledger /\ Closed(ledger) /\ 0 \in DOMAIN ledger
      /\ \A k \in Filed : ledger[k] = registry[k]
  BY DEF IInv, Filing, Ledger, Entries
<1>6. /\ Filed' = Filed \ gone /\ registry'[0] = ImportArtifact(w)
      /\ \A k \in Filed \ gone : k # 0 => registry'[k] = registry[k]
  BY <1>1, <1>3, <1>4, <1>5 DEF Filed
<1>7. /\ Closed(after) /\ DOMAIN after = DOMAIN ledger /\ after[0] = ImportArtifact(w)
      /\ \A k \in DOMAIN ledger : k # 0 => after[k] = ledger[k]
  BY <1>5, AtIs DEF At
<1>8. \A v : At(after, v) = At(ledger, v)
  BY DEF At
<1>9. Entries(after)'
  BY <1>1, <1>5, <1>6, <1>7 DEF Ledger, Entries
<1>10. Records(after)'
  <2>1. ASSUME NEW s \in Source, NEW i \in Stmt, disk[s][i] # None
        PROVE  /\ disk[s][i].module \in DOMAIN after /\ disk[s][i].artifact = after[disk[s][i].module]
               /\ disk[s][i].key # None /\ Said(after, disk[s][i].module, disk[s][i].key)
    <3>1. /\ disk[s][i].module \in DOMAIN ledger /\ disk[s][i].artifact = ledger[disk[s][i].module]
          /\ disk[s][i].key # None /\ Said(ledger, disk[s][i].module, disk[s][i].key)
      BY <2>1 DEF Ledger, Records
    <3>2. disk[s][i].module # 0
      BY <2>1 DEF IInv, OnDisk, Recorded
    <3>3. Said(after, disk[s][i].module, disk[s][i].key)
      BY <1>8, <3>1 DEF Said
    <3>. QED
      BY <1>7, <3>1, <3>2, <3>3
  <2>. QED
    BY <1>1, <2>1 DEF Records
<1>11. \A s \in Source : \A i \in Stmt : cells'[s][i] = None
  BY <1>1 DEF NoSession, Blank
<1>12. Loaded(after)' /\ Answers(after)'
  BY <1>1, <1>11, IdleIs DEF Loaded, Answers, Saving
<1>13. Schedule'
  BY <1>1, IdleIs DEF Schedule
<1>14. Ledger(after)'
  BY <1>9, <1>10, <1>12, <1>13 DEF Ledger
<1>. QED
  BY <1>14


\* What a module said it says of any registry that files more.
LEMMA SaidExtends ==
    ASSUME NEW old, NEW new, Closed(old), Closed(new), 0 \in DOMAIN old, DOMAIN old \subseteq DOMAIN new,
           \A k \in DOMAIN old : new[k] = old[k], NEW m \in DOMAIN old, NEW key, Said(old, m, key)
    PROVE  Said(new, m, key)
<1>1. PICK v \in Nat : key = ContentsOf(At(old, v))[m]
  BY DEF Said
<1>2. /\ Closed(At(old, v)) /\ DOMAIN At(old, v) = DOMAIN old
      /\ Closed(At(new, v)) /\ DOMAIN At(new, v) = DOMAIN new
  BY AtIs
<1>3. \A k \in DOMAIN old : At(new, v)[k] = At(old, v)[k]
  BY DEF At
<1>4. ContentsOf(At(new, v))[m] = ContentsOf(At(old, v))[m]
  BY <1>2, <1>3, ContentsExtend
<1>. QED
  BY <1>1, <1>4 DEF Said

\* The first compile keeps a loaded cell whose key is the one of the program,
\* and such a key was written under the version of the import registered now.
LEMMA KeptFirst ==
    ASSUME IInv, NEW ledger, Ledger(ledger), NEW s \in Source, last[s] = None, NEW i \in Stmt,
           Kept(s, Misjudged(cells[s], text[s]))[i] # None
    PROVE  ContentsOf(ledger)[cells[s][i].module] = Fresh(text[s])[i]
<1>. DEFINE m == cells[s][i].module
            key == cells[s][i].key
<1>1. i \in Marked(text[s]) /\ cells[s][i] # None /\ i \notin Misjudged(cells[s], text[s])
  BY DEF Kept
<1>2. key # None /\ Said(ledger, m, key)
  BY <1>1 DEF Ledger, Loaded
<1>3. key = Keys(text[s])[i]
  BY <1>1, <1>2 DEF Misjudged
<1>4. text[s] \in Program /\ i \in 0 .. N
  BY SizesAre DEF IInv, Shaped, Stmt
<1>5. key = Fresh(text[s])[i]
  BY <1>2, <1>3, <1>4, KeysFresh
<1>6. PICK v \in Nat : key = ContentsOf(At(ledger, v))[m]
  BY <1>2 DEF Said
<1>7. m \in DOMAIN ledger /\ Closed(ledger) /\ 0 \in DOMAIN ledger /\ ledger[0] = ImportArtifact(imported)
  BY <1>1 DEF Ledger, Entries, IInv, InCells, Filing
<1>. HIDE DEF m, key
<1>8. CASE v = imported
  <2>. DEFINE B == At(ledger, v)
  <2>1. Closed(B) /\ DOMAIN B = DOMAIN ledger
    BY <1>7, AtIs
  <2>2. \A k \in DOMAIN ledger : B[k] = ledger[k]
    BY <1>7, <1>8 DEF At
  <2>. HIDE DEF B
  <2>3. ContentsOf(B)[m] = ContentsOf(ledger)[m]
    BY <1>7, <2>1, <2>2, ContentsExtend
  <2>. QED
    BY <1>5, <1>6, <2>3 DEF B, m
<1>9. CASE v # imported
  <2>1. <<0, v>> \notin ContentsOf(At(ledger, v))[m]
    BY <1>4, <1>5, <1>6, <1>9, FreshVersion
  <2>2. ContentsOf(ledger)[m] = ContentsOf(At(ledger, v))[m]
    BY <1>7, <2>1, ContentsVersion
  <2>. QED
    BY <1>5, <1>6, <2>2 DEF m
<1>. QED
  BY <1>8, <1>9

\* A later compile keeps a cell whose key did not change, or, where a key cannot
\* be written, that nothing edited is behind.
LEMMA KeptAgain ==
    ASSUME IInv, NEW ledger, Ledger(ledger), NEW s \in Source, last[s] # None, NEW i \in Stmt,
           NEW window \in Windows(last[s], text[s]),
           Kept(s, Dirty(last[s], text[s], window))[i] # None
    PROVE  ContentsOf(ledger)[cells[s][i].module] = Fresh(text[s])[i]
<1>. DEFINE old == last[s]
            new == text[s]
<1>1. i \in Marked(new) /\ cells[s][i] # None /\ i \notin Dirty(old, new, window)
  BY DEF Kept
<1>2. i \in Marked(old) /\ ContentsOf(ledger)[cells[s][i].module] = Fresh(old)[i]
  BY <1>1 DEF Ledger, Answers
<1>3. old \in Program /\ new \in Program /\ i \in 0 .. N
  BY SizesAre DEF IInv, Shaped, Stmt
<1>. HIDE DEF old, new
<1>4. CASE Keys(old)[i] # None /\ Keys(new)[i] # None
  <2>1. Keys(old)[i] = Keys(new)[i]
    BY <1>1, <1>2, <1>4 DEF Dirty
  <2>2. Keys(old)[i] = Fresh(old)[i] /\ Keys(new)[i] = Fresh(new)[i]
    BY <1>3, <1>4, KeysFresh
  <2>. QED
    BY <1>2, <2>1, <2>2 DEF new
<1>5. CASE ~(Keys(old)[i] # None /\ Keys(new)[i] # None)
  <2>1. i \notin Propagated(old, new, window)
    BY <1>1, <1>5 DEF Dirty
  <2>2. i \notin Reached(old, window)
    BY <1>2, <2>1 DEF Propagated
  <2>3. Behind(old)[i] \cap window = {}
    BY <1>2, <2>2 DEF Reached, Marked
  <2>4. Changed(old, new) \subseteq window
    BY DEF Windows, old, new
  <2>5. Fresh(new)[i] = Fresh(old)[i]
    BY <1>3, <2>3, <2>4, FreshStays
  <2>. QED
    BY <1>2, <2>5 DEF new
<1>. QED
  BY <1>4, <1>5

LEMMA RebuildLedger ==
    ASSUME IInv, IInv', NEW ledger, Ledger(ledger), NEW s \in Source, Rebuild(s)
    PROVE  \E new : Ledger(new)'
<1>1. PICK dirty \in IF last[s] = None
                       THEN {Misjudged(cells[s], text[s])}
                       ELSE {Dirty(last[s], text[s], w) : w \in Windows(last[s], text[s])} :
        Freeze(s, Kept(s, dirty))
  BY DEF Rebuild
<1>. DEFINE kept == Kept(s, dirty)
            frozen == Frozen(text[s], kept)
            at(i) == FreshKey(frozen, i)
            prog == text[s]
<1>2. /\ job.pc = "load" /\ job.source = s /\ last' = [last EXCEPT ![s] = text[s]]
      /\ UNCHANGED <<imported, text, disk>>
  BY DEF Rebuild
<1>3. Rebuilt(s, kept, frozen)
  BY <1>1, <1>2, RebuildIs
<1>4. job' = [job EXCEPT !.pc = "save", !.todo = frozen]
  BY <1>1 DEF Freeze
<1>5. \A i \in Stmt : kept[i] # None => ContentsOf(ledger)[cells[s][i].module] = Fresh(prog)[i]
  <2>1. CASE last[s] = None
    BY <1>1, <2>1, KeptFirst
  <2>2. CASE last[s] # None
    BY <1>1, <2>2, KeptAgain
  <2>. QED
    BY <2>1, <2>2
<1>6. /\ frozen \subseteq Marked(prog)
      /\ \A i \in Stmt : kept[i] # None => kept[i] = cells[s][i] /\ i \in Marked(prog)
      /\ \A i \in frozen : at(i) \in nextKey + 1 .. nextKey'
      /\ Filed' = Filed \cup {at(i) : i \in frozen}
      /\ \A k \in Filed : registry'[k] = registry[k]
      /\ \A t \in Source : t # s => cells'[t] = cells[t]
      /\ nextKey' = nextKey + Cardinality(frozen)
  BY <1>3 DEF Rebuilt
<1>7. \A i \in Stmt :
        /\ i \in frozen => cells'[s][i] = [module |-> at(i), key |-> Keys(prog)[i]]
        /\ i \notin frozen /\ kept[i] # None =>
             cells'[s][i] = [module |-> cells[s][i].module, key |-> Keys(prog)[i]]
        /\ i \notin frozen /\ kept[i] = None => cells'[s][i] = None
  BY <1>3 DEF Rebuilt
<1>8. \A i \in frozen : registry'[at(i)] =
        [own |-> Lowered(prog, kept)[i].own, refs |-> Lowered(prog, kept)[i].refs, hash |-> 0]
  BY <1>3 DEF Rebuilt
<1>9. prog \in Program /\ prog # None /\ frozen \subseteq Stmt
      /\ \A i \in Marked(prog) : prog[i] # None
  BY <1>6, NoneAssumption DEF IInv, Shaped, Marked, Present
<1>. HIDE DEF kept, frozen, at, prog
<1>10. /\ Closed(ledger) /\ DOMAIN ledger \subseteq 0 .. nextKey /\ Filed \subseteq DOMAIN ledger
       /\ \A k \in Filed : ledger[k] = registry[k]
       /\ registry[0] = ImportArtifact(imported) /\ 0 \in Filed
  BY DEF Ledger, Entries, IInv, Filing
<1>11. nextKey \in Nat /\ nextKey' \in 0 .. MaxKey /\ MaxKey \in Nat /\ nextKey' >= nextKey
  <2>1. frozen \in SUBSET Stmt /\ nextKey \in Nat /\ nextKey' \in 0 .. MaxKey /\ MaxKey \in Nat
    BY <1>9, SizesAre DEF IInv, Filing
  <2>. QED
    BY <1>6, <2>1, FreshKeysAre
<1>12. PICK new : new = [k \in DOMAIN ledger \cup {at(i) : i \in frozen} |->
                           IF k \in DOMAIN ledger THEN ledger[k] ELSE registry'[k]]
  OBVIOUS
<1>13. /\ DOMAIN new = DOMAIN ledger \cup {at(i) : i \in frozen}
       /\ \A k \in DOMAIN ledger : new[k] = ledger[k]
       /\ \A i \in frozen : at(i) \notin DOMAIN ledger /\ new[at(i)] = registry'[at(i)]
  <2>1. \A i \in frozen : at(i) \notin DOMAIN ledger
    BY <1>6, <1>10, <1>11
  <2>. QED
    BY <1>12, <2>1
<1>14. DOMAIN new \subseteq 0 .. nextKey' /\ DOMAIN new \subseteq 0 .. MaxKey
  <2>1. \A k \in DOMAIN ledger : k \in 0 .. nextKey'
    BY <1>10, <1>11
  <2>2. \A i \in frozen : at(i) \in 0 .. nextKey'
    BY <1>6, <1>11
  <2>3. DOMAIN new \subseteq 0 .. nextKey'
    BY <1>13, <2>1, <2>2
  <2>. QED
    BY <1>11, <2>3
<1>15. Filed' \subseteq DOMAIN new /\ \A k \in Filed' : new[k] = registry'[k]
  BY <1>6, <1>10, <1>13
<1>16. Closed(new)
  <2>1. ASSUME NEW k \in DOMAIN new, NEW j \in new[k].refs PROVE j \in DOMAIN new /\ j < k
    <3>1. CASE k \in DOMAIN ledger
      BY <1>10, <1>13, <2>1, <3>1 DEF Closed
    <3>2. CASE k \notin DOMAIN ledger
      <4>1. k \in Filed' /\ new[k] = registry'[k]
        BY <1>6, <1>13, <3>2
      <4>2. j \in Filed' /\ j < k
        BY <2>1, <4>1 DEF IInv, Filing
      <4>. QED
        BY <1>15, <4>2
    <3>. QED
      BY <3>1, <3>2
  <2>. QED
    BY <1>14, <2>1 DEF Closed
<1>17. Entries(new)'
  BY <1>2, <1>6, <1>10, <1>14, <1>15, <1>16 DEF Entries
<1>18. \A m \in DOMAIN ledger : ContentsOf(new)[m] = ContentsOf(ledger)[m]
  BY <1>10, <1>13, <1>16, ContentsExtend
<1>19. Records(new)'
  <2>1. ASSUME NEW t \in Source, NEW i \in Stmt, disk[t][i] # None
        PROVE  /\ disk[t][i].module \in DOMAIN new /\ disk[t][i].artifact = new[disk[t][i].module]
               /\ disk[t][i].key # None /\ Said(new, disk[t][i].module, disk[t][i].key)
    <3>1. /\ disk[t][i].module \in DOMAIN ledger /\ disk[t][i].artifact = ledger[disk[t][i].module]
          /\ disk[t][i].key # None /\ Said(ledger, disk[t][i].module, disk[t][i].key)
      BY <2>1 DEF Ledger, Records
    <3>2. 0 \in DOMAIN ledger
      BY <1>10
    <3>3. Said(new, disk[t][i].module, disk[t][i].key)
      BY <1>10, <1>13, <1>16, <3>1, <3>2, SaidExtends
    <3>. QED
      BY <1>13, <3>1, <3>3
  <2>. QED
    BY <1>2, <2>1 DEF Records
<1>20. last'[s] = prog /\ \A t \in Source : t # s => last'[t] = last[t]
  BY <1>2 DEF IInv, Shaped, prog
<1>21. \A t \in Source : \A i \in Stmt : cells[t][i] # None => cells[t][i].module \in DOMAIN ledger
  BY <1>10 DEF IInv, InCells
<1>22. Loaded(new)'
  <2>1. ASSUME NEW t \in Source, NEW i \in Stmt, cells'[t][i] # None, last'[t] = None
        PROVE  cells'[t][i].key # None /\ Said(new, cells'[t][i].module, cells'[t][i].key)
    <3>1. t # s /\ last[t] = None /\ cells'[t] = cells[t]
      BY <1>6, <1>9, <1>20, <2>1
    <3>2. cells[t][i].key # None /\ Said(ledger, cells[t][i].module, cells[t][i].key)
          /\ cells[t][i].module \in DOMAIN ledger /\ 0 \in DOMAIN ledger
      BY <1>10, <1>21, <2>1, <3>1 DEF Ledger, Loaded
    <3>3. Said(new, cells[t][i].module, cells[t][i].key)
      BY <1>10, <1>13, <1>16, <3>2, SaidExtends
    <3>. QED
      BY <3>1, <3>2, <3>3
  <2>. QED
    BY <2>1 DEF Loaded
<1>23. \A i \in frozen : ContentsOf(new)[at(i)] = Fresh(prog)[i]
  <2>. DEFINE C == ContentsOf(new)
  <2>1. C[0] = {<<0, imported>>}
    <3>1. 0 \in DOMAIN new /\ new[0].own = {<<0, imported>>} /\ new[0].refs = {}
      BY <1>10, <1>13 DEF ImportArtifact
    <3>2. C[0] = new[0].own \cup UNION {C[j] : j \in new[0].refs}
      BY <1>16, <3>1, ClosedIs
    <3>. QED
      BY <3>1, <3>2
  <2>2. \A j \in Stmt : kept[j] # None => prog[j] # None /\ C[kept[j].module] = Fresh(prog)[j]
    BY <1>5, <1>6, <1>9, <1>18, <1>21
  <2>3. ASSUME NEW i \in frozen PROVE C[at(i)] = Fresh(prog)[i]
    <3>1. i \in 0 .. N
      BY <1>9, SizesAre DEF Stmt
    <3>2. at(i) \in DOMAIN new /\ new[at(i)].own = Lowered(prog, kept)[i].own
          /\ new[at(i)].refs = Lowered(prog, kept)[i].refs
      <4>1. registry'[at(i)] =
              [own |-> Lowered(prog, kept)[i].own, refs |-> Lowered(prog, kept)[i].refs, hash |-> 0]
        BY <1>8
      <4>2. registry'[at(i)].own = Lowered(prog, kept)[i].own
        BY <4>1
      <4>3. registry'[at(i)].refs = Lowered(prog, kept)[i].refs
        BY <4>1
      <4>. QED
        BY <1>13, <4>2, <4>3
    <3>3. C[at(i)] = new[at(i)].own \cup UNION {C[j] : j \in new[at(i)].refs}
      BY <1>16, <3>2, ClosedIs
    <3>. HIDE DEF C
    <3>4. Lowered(prog, kept)[i].own \cup UNION {C[r] : r \in Lowered(prog, kept)[i].refs}
            = Fresh(prog)[i]
      BY <1>9, <2>1, <2>2, <3>1, LoweredMeans
    <3>. QED
      BY <3>2, <3>3, <3>4
  <2>. QED
    BY <2>3
<1>24. /\ Fresh(last[s])' = Fresh(prog) /\ Keys(last[s])' = Keys(prog)
       /\ \A t \in Source : t # s => Fresh(last[t])' = Fresh(last[t]) /\ Keys(last[t])' = Keys(last[t])
  BY <1>2, <1>20, ValuesMove
<1>25. job'.pc = "save" /\ job'.source = s /\ job'.todo = frozen
  BY <1>2, <1>4 DEF IInv, Working
<1>26. ASSUME NEW i \in Stmt, cells'[s][i] # None \/ i \in frozen
       PROVE  /\ i \in Marked(prog) /\ cells'[s][i].key = Keys(prog)[i]
              /\ ContentsOf(new)[cells'[s][i].module] = Fresh(prog)[i]
  <2>1. CASE i \in frozen
    <3>1. cells'[s][i] = [module |-> at(i), key |-> Keys(prog)[i]]
      BY <1>7, <2>1
    <3>2. cells'[s][i].module = at(i)
      BY <3>1
    <3>3. cells'[s][i].key = Keys(prog)[i]
      BY <3>1
    <3>. QED
      BY <1>6, <1>23, <2>1, <3>2, <3>3
  <2>2. CASE i \notin frozen
    <3>1. kept[i] # None
      BY <1>7, <1>26, <2>2
    <3>2. cells'[s][i] = [module |-> cells[s][i].module, key |-> Keys(prog)[i]]
      BY <1>7, <2>2, <3>1
    <3>3. cells'[s][i].module = cells[s][i].module
      BY <3>2
    <3>4. cells'[s][i].key = Keys(prog)[i]
      BY <3>2
    <3>5. ContentsOf(new)[cells[s][i].module] = Fresh(prog)[i]
      BY <1>5, <1>6, <1>18, <1>21, <3>1
    <3>. QED
      BY <1>6, <3>1, <3>3, <3>4, <3>5
  <2>. QED
    BY <2>1, <2>2
<1>27. Answers(new)'
  <2>1. ASSUME NEW t \in Source, NEW i \in Stmt, last'[t] # None,
               cells'[t][i] # None \/ Saving(t, i)'
        PROVE  /\ i \in Marked(last'[t]) /\ cells'[t][i].key = Keys(last[t])'[i]
               /\ ContentsOf(new)[cells'[t][i].module] = Fresh(last[t])'[i]
    <3>1. CASE t = s
      <4>1. cells'[s][i] # None \/ i \in frozen
        BY <1>25, <2>1, <3>1 DEF Saving
      <4>. QED
        BY <1>20, <1>24, <1>26, <3>1, <4>1
    <3>2. CASE t # s
      <4>1. cells'[t] = cells[t] /\ last'[t] = last[t] /\ cells[t][i] # None
        BY <1>6, <1>20, <1>25, <2>1, <3>2 DEF Saving
      <4>2. /\ i \in Marked(last[t]) /\ cells[t][i].key = Keys(last[t])[i]
            /\ ContentsOf(ledger)[cells[t][i].module] = Fresh(last[t])[i]
        BY <2>1, <4>1 DEF Ledger, Answers
      <4>3. ContentsOf(new)[cells[t][i].module] = ContentsOf(ledger)[cells[t][i].module]
        BY <1>18, <1>21, <4>1
      <4>. QED
        BY <1>24, <3>2, <4>1, <4>2, <4>3
    <3>. QED
      BY <3>1, <3>2
  <2>. QED
    BY <2>1 DEF Answers, Marked, Present
<1>28. Schedule'
  BY <1>9, <1>20, <1>25 DEF Schedule
<1>29. Ledger(new)'
  BY <1>17, <1>19, <1>22, <1>27, <1>28 DEF Ledger
<1>. QED
  BY <1>29

OneProcess == stops \in Nat /\ (stops = 0 => \E ledger : Ledger(ledger))

LEMMA LedgerStarts == ASSUME Init PROVE OneProcess
<1>1. /\ \A s \in Source : \A i \in Stmt : cells[s][i] = None /\ disk[s][i] = None
      /\ \A s \in Source : last[s] = None
      /\ job = Idle /\ nextKey = 0 /\ imported = 1 /\ stops = 0
  BY DEF Init, Blank
<1>2. Filed = {0} /\ registry[0] = ImportArtifact(1)
  BY DEF Init, Filed, FreshRegistry
<1>3. Entries(registry)
  BY <1>1, <1>2, SizesAre DEF Entries, Closed, Filed, ImportArtifact
<1>4. Records(registry) /\ Loaded(registry) /\ Answers(registry) /\ Schedule
  BY <1>1, IdleIs DEF Records, Loaded, Answers, Schedule
<1>5. PICK ledger : ledger = registry
  OBVIOUS
<1>6. Ledger(ledger)
  BY <1>3, <1>4, <1>5 DEF Ledger
<1>. QED
  BY <1>1, <1>6 DEF OneProcess

LEMMA LedgerKeeps == ASSUME IInv, IInv', OneProcess, [Next]_vars PROVE OneProcess'
<1>1. CASE Stop
  BY <1>1 DEF Stop, OneProcess
<1>2. CASE ~Stop
  <2>1. stops' = stops
    BY <1>2 DEF Next, CompileStep, Edit, Evict, Begin, Rebuild, Prune, LoadRecord, SaveRecord,
                SaveFails, ImportChanges, vars, bounds
  <2>. SUFFICES ASSUME NEW ledger, Ledger(ledger) PROVE \E new : Ledger(new)'
    BY <2>1 DEF OneProcess
  <2>2. CASE UNCHANGED vars
    <3>1. UNCHANGED <<imported, last, cells, registry, nextKey, disk, job>>
      BY <2>2 DEF vars, session
    <3>2. /\ Records(ledger)' /\ Schedule'
          /\ \A s \in Source : \A i \in Stmt : Saving(s, i)' => Saving(s, i)
      BY <3>1 DEF Ledger, Records, Schedule, Saving
    <3>3. Ledger(ledger)'
      BY <3>1, <3>2, QuietLedger
    <3>. QED
      BY <3>3
  <2>3. CASE \E s \in Source : Edit(s)
    BY <2>3, EditLedger
  <2>4. CASE \E s \in Source : Evict(s)
    BY <2>4, EvictLedger
  <2>5. CASE \E s \in Source : Begin(s)
    BY <2>5, BeginLedger
  <2>6. CASE \E s \in Source : Rebuild(s)
    BY <2>6, RebuildLedger
  <2>7. CASE \E s \in Source : Prune(s)
    BY <2>7, PruneLedger
  <2>8. CASE \E s \in Source, i \in Stmt : LoadRecord(s, i)
    BY <2>8, LoadLedger
  <2>9. CASE \E s \in Source, i \in Stmt : SaveRecord(s, i)
    BY <2>9, SaveRecordLedger
  <2>10. CASE SaveFails
    BY <2>10, SaveFailsLedger
  <2>11. CASE ImportChanges
    BY <2>11, ImportLedger
  <2>. QED
    BY <1>2, <2>2, <2>3, <2>4, <2>5, <2>6, <2>7, <2>8, <2>9, <2>10, <2>11 DEF Next, CompileStep
<1>. QED
  BY <1>1, <1>2

\* Until a process ends, a retained cell answers what a fresh compile of the
\* program just built would compute, whatever was edited, dropped, evicted,
\* loaded and stored before, in whichever of the sessions (compile).
THEOREM RetainedAnswersFresh == Spec => [](stops = 0 => RetainedIsFresh)
<1>1. ASSUME IInv, OneProcess, stops = 0 PROVE RetainedIsFresh
  <2>1. PICK ledger : Ledger(ledger)
    BY <1>1 DEF OneProcess
  <2>2. Closed(registry)
    <3>1. Filed \subseteq 0 .. MaxKey
      BY <1>1, SizesAre DEF IInv, Filing
    <3>. QED
      BY <1>1, <3>1 DEF IInv, Filing, Closed, Filed
  <2>3. Closed(ledger) /\ Filed \subseteq DOMAIN ledger /\ \A k \in Filed : ledger[k] = registry[k]
    BY <2>1 DEF Ledger, Entries
  <2>4. \A m \in Filed : ContentsOf(ledger)[m] = ContentsOf(registry)[m]
    BY <2>2, <2>3, ContentsExtend DEF Filed
  <2>5. ASSUME NEW x \in Retained, Compiled(x[1])
        PROVE  Contents[cells[x[1]][x[2]].module] = Fresh(last[x[1]])[x[2]]
    <3>1. x[1] \in Source /\ x[2] \in Stmt /\ cells[x[1]][x[2]] # None /\ last[x[1]] # None
      BY <2>5 DEF Retained, Compiled
    <3>2. cells[x[1]][x[2]].module \in Filed
      BY <1>1, <3>1 DEF IInv, InCells
    <3>3. ContentsOf(ledger)[cells[x[1]][x[2]].module] = Fresh(last[x[1]])[x[2]]
      BY <2>1, <3>1 DEF Ledger, Answers
    <3>. QED
      BY <2>4, <3>2, <3>3 DEF Contents
  <2>. QED
    BY <2>5 DEF RetainedIsFresh
<1>2. Init => OneProcess
  BY LedgerStarts
<1>3. IInv /\ IInv' /\ OneProcess /\ [Next]_vars => OneProcess'
  BY LedgerKeeps
<1>4. Spec => []OneProcess
  BY <1>2, <1>3, Always, PTL DEF Spec
<1>5. IInv /\ OneProcess => (stops = 0 => RetainedIsFresh)
  BY <1>1
<1>. QED
  BY <1>4, <1>5, Always, PTL
=============================================================================
