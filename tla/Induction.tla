----------------------------- MODULE Induction -----------------------------
(***************************************************************************)
(* Induction for the proofs, on sets: the least member of a set of         *)
(* numbers, and a set that holds zero and every successor.                 *)
(***************************************************************************)
EXTENDS Integers, WellFoundedInduction, TLAPS

Less == {ss \in Nat \X Nat : ss[1] < ss[2]}

\* A set of numbers has a least one.
LEMMA LeastNumber ==
    ASSUME NEW T, T \subseteq Nat, T # {}
    PROVE  \E m \in T : \A k \in T : m <= k
<1>1. IsWellFoundedOn(Less, Nat)
  BY NatLessThanWellFounded DEF OpToRel, Less
<1>2. PICK m \in T : \A k \in T : ~(<<k, m>> \in Less)
  BY <1>1, WFMin
<1>3. ASSUME NEW k \in T PROVE m <= k
  <2>1. m \in Nat /\ k \in Nat
    OBVIOUS
  <2>2. <<k, m>> \in Less <=> k < m
    BY <2>1 DEF Less
  <2>. QED
    BY <1>2, <2>1, <2>2
<1>. QED
  BY <1>2, <1>3

\* A set that holds zero and every member's successor holds every number.
LEMMA ByInduction ==
    ASSUME NEW S, 0 \in S, \A n \in Nat : n \in S => n + 1 \in S
    PROVE  Nat \subseteq S
<1>. SUFFICES ASSUME Nat \ S # {} PROVE FALSE
  OBVIOUS
<1>1. PICK m \in Nat \ S : \A k \in Nat \ S : m <= k
  BY LeastNumber
<1>2. m - 1 \in Nat /\ m - 1 \in S
  BY <1>1
<1>. QED
  BY <1>1, <1>2

\* f runs through values in S, each the next step from the one before.
StepIn(n, S, step) == step \in [(1 .. n) \X S -> S]
Iterates(f, n, S, base, step) ==
  /\ f \in [0 .. n -> S] /\ f[0] = base
  /\ \A k \in 1 .. n : f[k] = step[<<k, f[k - 1]>>]

\* A function on 0 .. n can be defined from each value to the next.
LEMMA IterationExists ==
    ASSUME NEW n \in Nat, NEW S, NEW base \in S, NEW step, StepIn(n, S, step)
    PROVE  \E f : Iterates(f, n, S, base, step)
<1>. USE DEF StepIn
<1>. DEFINE Upto(m) == \E f \in [0 .. m -> S] :
                          f[0] = base /\ \A k \in 1 .. m : f[k] = step[<<k, f[k - 1]>>]
            T == {m \in Nat : m <= n => Upto(m)}
<1>1. 0 \in T
  <2>. DEFINE g == [k \in 0 .. 0 |-> base]
  <2>1. g \in [0 .. 0 -> S] /\ g[0] = base /\ \A k \in 1 .. 0 : g[k] = step[<<k, g[k - 1]>>]
    OBVIOUS
  <2>2. Upto(0)
    BY <2>1
  <2>. QED
    BY <2>2
<1>2. ASSUME NEW m \in Nat, m \in T PROVE m + 1 \in T
  <2>. SUFFICES ASSUME m + 1 <= n PROVE Upto(m + 1)
    OBVIOUS
  <2>1. PICK g \in [0 .. m -> S] :
              g[0] = base /\ \A k \in 1 .. m : g[k] = step[<<k, g[k - 1]>>]
    BY <1>2
  <2>. DEFINE x == step[<<m + 1, g[m]>>]
              f == [k \in 0 .. m + 1 |-> IF k \in 0 .. m THEN g[k] ELSE x]
  <2>2. x \in S
    <3>1. g[m] \in S /\ m + 1 \in 1 .. n
      BY <2>1
    <3>. QED
      BY <3>1
  <2>3. f \in [0 .. m + 1 -> S] /\ f[0] = base
    BY <2>1, <2>2
  <2>4. ASSUME NEW k \in 1 .. m + 1 PROVE f[k] = step[<<k, f[k - 1]>>]
    <3>1. CASE k \in 1 .. m
      <4>1. f[k] = g[k] /\ f[k - 1] = g[k - 1]
        BY <3>1
      <4>. QED
        BY <2>1, <3>1, <4>1
    <3>2. CASE k = m + 1
      <4>1. f[k] = x /\ f[k - 1] = g[m]
        BY <3>2
      <4>. QED
        BY <3>2, <4>1
    <3>. QED
      BY <3>1, <3>2
  <2>. QED
    BY <2>3, <2>4
<1>. HIDE DEF T
<1>3. Nat \subseteq T
  BY <1>1, <1>2, ByInduction
<1>4. Upto(n)
  BY <1>3 DEF T
<1>. QED
  BY <1>4 DEF Iterates

\* A set that holds every number all of whose predecessors it holds.
LEMMA ByStrongInduction ==
    ASSUME NEW S, \A n \in Nat : (\A k \in 0 .. n - 1 : k \in S) => n \in S
    PROVE  Nat \subseteq S
<1>. SUFFICES ASSUME Nat \ S # {} PROVE FALSE
  OBVIOUS
<1>1. PICK m \in Nat \ S : \A k \in Nat \ S : m <= k
  BY LeastNumber
<1>2. \A k \in 0 .. m - 1 : k \in S
  BY <1>1
<1>. QED
  BY <1>1, <1>2

\* f has at each place what G makes of the earlier places.
Causal(n, S, G) ==
  /\ G \in [(0 .. n) \X [0 .. n -> S] -> S]
  /\ \A k \in 0 .. n : \A g, h \in [0 .. n -> S] :
       (\A j \in 0 .. k - 1 : g[j] = h[j]) => G[<<k, g>>] = G[<<k, h>>]
Recurs(f, n, S, G) ==
  f \in [0 .. n -> S] /\ \A k \in 0 .. n : f[k] = G[<<k, f>>]

\* A function on 0 .. n can be defined at each place from the earlier ones.
LEMMA RecursionExists ==
    ASSUME NEW n \in Nat, NEW S, NEW base \in S, NEW G, Causal(n, S, G)
    PROVE  \E f : Recurs(f, n, S, G)
<1>. DEFINE T == [0 .. n -> S]
            start == [k \in 0 .. n |-> base]
            Put(k, g) == [g EXCEPT ![k - 1] = G[<<k - 1, g>>]]
            step == [p \in (1 .. n + 1) \X T |-> Put(p[1], p[2])]
<1>1. \A k \in 1 .. n + 1 : \A g \in T : k - 1 \in 0 .. n /\ G[<<k - 1, g>>] \in S
  BY DEF Causal
<1>2. \A k \in 1 .. n + 1 : \A g \in T : Put(k, g) \in T
  BY <1>1
<1>3. start \in T
  OBVIOUS
<1>4. \A k \in 1 .. n + 1 : \A g \in T : step[<<k, g>>] = Put(k, g)
  OBVIOUS
<1>5. StepIn(n + 1, T, step)
  <2>. HIDE DEF Put, T
  <2>. QED
    BY <1>2 DEF StepIn
<1>. HIDE DEF step, start
<1>6. \E at : Iterates(at, n + 1, T, start, step)
  <2>. HIDE DEF T
  <2>. QED
    BY <1>3, <1>5, IterationExists
<1>7. PICK at : Iterates(at, n + 1, T, start, step)
  BY <1>6
<1>8. at \in [0 .. n + 1 -> T] /\ \A k \in 1 .. n + 1 : at[k] = Put(k, at[k - 1])
  <2>1. at \in [0 .. n + 1 -> T] /\ \A k \in 1 .. n + 1 : at[k] = step[<<k, at[k - 1]>>]
    BY <1>7 DEF Iterates
  <2>2. \A k \in 1 .. n + 1 : k - 1 \in 0 .. n + 1
    OBVIOUS
  <2>. HIDE DEF T, Put
  <2>. QED
    BY <1>4, <2>1, <2>2
<1>9. ASSUME NEW m \in 0 .. n
      PROVE  /\ at[m] \in T /\ at[m + 1] \in T /\ at[m + 1][m] = G[<<m, at[m]>>]
             /\ \A j \in 0 .. m - 1 : at[m + 1][j] = at[m][j]
  <2>1. m \in 0 .. n + 1 /\ m + 1 \in 1 .. n + 1 /\ m + 1 \in 0 .. n + 1 /\ (m + 1) - 1 = m
    OBVIOUS
  <2>2. at[m] \in T /\ at[m + 1] \in T
    <3>. HIDE DEF T
    <3>. QED
      BY <1>8, <2>1
  <2>3. at[m + 1] = [at[m] EXCEPT ![m] = G[<<m, at[m]>>]]
    BY <1>8, <2>1
  <2>. QED
    BY <2>2, <2>3
<1>. DEFINE Done(m) == \A j \in 0 .. m - 1 : at[m][j] = G[<<j, at[m]>>]
            U == {m \in Nat : m <= n + 1 => Done(m)}
<1>10. 0 \in U
  OBVIOUS
<1>11. ASSUME NEW m \in Nat, m \in U PROVE m + 1 \in U
  <2>. SUFFICES ASSUME m + 1 <= n + 1, NEW j \in 0 .. m PROVE at[m + 1][j] = G[<<j, at[m + 1]>>]
    OBVIOUS
  <2>1. m \in 0 .. n /\ j \in 0 .. n /\ Done(m)
    BY <1>11
  <2>2. /\ at[m] \in T /\ at[m + 1] \in T /\ at[m + 1][m] = G[<<m, at[m]>>]
        /\ \A i \in 0 .. m - 1 : at[m + 1][i] = at[m][i]
    BY <1>9, <2>1
  <2>3. at[m + 1][j] = G[<<j, at[m]>>]
    <3>1. CASE j = m
      BY <2>2, <3>1
    <3>2. CASE j # m
      BY <2>1, <2>2, <3>2
    <3>. QED
      BY <3>1, <3>2
  <2>4. \A i \in 0 .. j - 1 : at[m][i] = at[m + 1][i]
    BY <2>1, <2>2
  <2>5. G[<<j, at[m]>>] = G[<<j, at[m + 1]>>]
    BY <2>1, <2>2, <2>4 DEF Causal
  <2>. QED
    BY <2>3, <2>5
<1>. HIDE DEF U
<1>12. Nat \subseteq U
  BY <1>10, <1>11, ByInduction
<1>13. Done(n + 1)
  BY <1>12 DEF U
<1>14. at[n + 1] \in T
  <2>1. n \in 0 .. n
    OBVIOUS
  <2>. QED
    BY <1>9, <2>1
<1>15. Recurs(at[n + 1], n, S, G)
  BY <1>13, <1>14 DEF Recurs
<1>. QED
  BY <1>15
=============================================================================
