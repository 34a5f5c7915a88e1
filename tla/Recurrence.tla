------------------------------ MODULE Recurrence ------------------------------
(***************************************************************************)
(* Induction on the numbers up to n, for sets: the property is the set of  *)
(* the numbers that have it, so that no operator has to be given.  And what*)
(* follows for functions that are defined by recursion on a prefix of Nat. *)
(***************************************************************************)
EXTENDS Integers, FiniteSetsExt, WellFoundedInduction, TLAPS

(* A set of numbers that is not empty has a least one.                     *)
LEMMA Moindre ==
  ASSUME NEW S, S \subseteq Nat, S # {}
  PROVE  Min(S) \in S /\ \A n \in S : Min(S) <= n
<1> DEFINE Moins == {ss \in Nat \X Nat : ss[1] < ss[2]}
<1>0. IsWellFoundedOn(Moins, Nat)
  BY NatLessThanWellFounded DEF OpToRel
<1> HIDE DEF Moins
<1>1. \E m \in S : \A n \in S : ~(<<n, m>> \in Moins)
  BY <1>0, WFMin, Zenon
<1> PICK m \in S : \A n \in S : ~(<<n, m>> \in Moins)
  BY <1>1
<1>2. ASSUME NEW n \in S PROVE m <= n
  <2>1. n \in Nat /\ m \in Nat /\ (n < m => <<n, m>> \in Moins)
    BY DEF Moins
  <2> QED
    BY <2>1
<1> QED
  BY <1>2 DEF Min

(* From 0, and from each number to the next one.                           *)
LEMMA ParRecurrence ==
  ASSUME NEW n \in Nat, NEW S, 0 \in S, \A k \in 1 .. n : k - 1 \in S => k \in S
  PROVE  \A k \in 0 .. n : k \in S
<1> DEFINE R == (0 .. n) \ S
<1> SUFFICES ASSUME R # {} PROVE FALSE
  OBVIOUS
<1>1. R \subseteq Nat
  OBVIOUS
<1>2. Min(R) \in R /\ \A k \in R : Min(R) <= k
  BY <1>1, Moindre
<1>3. PICK m : m = Min(R)
  OBVIOUS
<1>4. m \in 1 .. n /\ m \notin S /\ m - 1 \in 0 .. n
  BY <1>2, <1>3
<1>5. m - 1 \in S
  <2>1. ~(m <= m - 1)
    BY <1>4
  <2> QED
    BY <1>2, <1>3, <1>4, <2>1
<1> QED
  BY <1>4, <1>5

(* f is a, then what G makes of its number and of the one before.          *)
Recurrente(f, n, T, a, G) ==
    f \in [0 .. n -> T] /\ f[0] = a /\ \A k \in 1 .. n : f[k] = G[<<k, f[k - 1]>>]

LEMMA RecurrenteExiste ==
  ASSUME NEW n \in Nat, NEW T, NEW a \in T, NEW G,
         \A k \in 1 .. n : \A x \in T : G[<<k, x>>] \in T
  PROVE  \E f : Recurrente(f, n, T, a, G)
<1> DEFINE S == {m \in 0 .. n : \E f : Recurrente(f, m, T, a, G)}
<1>1. 0 \in S
  <2> DEFINE f == [k \in 0 .. 0 |-> a]
  <2>1. Recurrente(f, 0, T, a, G)
    BY DEF Recurrente
  <2> HIDE DEF f
  <2> QED
    BY <2>1
<1>2. ASSUME NEW m \in 1 .. n, m - 1 \in S PROVE m \in S
  <2>1. PICK f : Recurrente(f, m - 1, T, a, G)
    BY <1>2
  <2> DEFINE g == [k \in 0 .. m |-> IF k = m THEN G[<<m, f[m - 1]>>] ELSE f[k]]
  <2>2. f \in [0 .. m - 1 -> T] /\ f[0] = a /\ \A k \in 1 .. m - 1 : f[k] = G[<<k, f[k - 1]>>]
    BY <2>1 DEF Recurrente
  <2>3. f[m - 1] \in T /\ G[<<m, f[m - 1]>>] \in T
    BY <2>2
  <2>4. g[m] = G[<<m, f[m - 1]>>] /\ \A k \in 0 .. m - 1 : g[k] = f[k]
    OBVIOUS
  <2>5. g \in [0 .. m -> T]
    <3>1. \A k \in 0 .. m : (IF k = m THEN G[<<m, f[m - 1]>>] ELSE f[k]) \in T
      BY <2>2, <2>3
    <3> QED
      BY <3>1
  <2> HIDE DEF g
  <2>6. g[0] = a
    BY <2>2, <2>4
  <2>7. ASSUME NEW k \in 1 .. m PROVE g[k] = G[<<k, g[k - 1]>>]
    <3>1. g[k - 1] = f[k - 1]
      BY <2>4
    <3>2. CASE k = m
      BY <2>4, <3>1, <3>2
    <3>3. CASE k # m
      <4>1. k \in 1 .. m - 1 /\ k \in 0 .. m - 1
        BY <3>3
      <4> QED
        BY <2>2, <2>4, <3>1, <4>1
    <3> QED
      BY <3>2, <3>3
  <2>8. Recurrente(g, m, T, a, G)
    BY <2>5, <2>6, <2>7 DEF Recurrente
  <2> QED
    BY <2>8
<1> HIDE DEF S
<1>3. n \in S
  BY <1>1, <1>2, ParRecurrence
<1> QED
  BY <1>3 DEF S

(* Two such functions agree as far as both go.                             *)
LEMMA RecurrenteUnique ==
  ASSUME NEW n \in Nat, NEW f, NEW g, f[0] = g[0],
         \A k \in 1 .. n : f[k - 1] = g[k - 1] => f[k] = g[k]
  PROVE  \A k \in 0 .. n : f[k] = g[k]
<1> DEFINE S == {k \in 0 .. n : f[k] = g[k]}
<1>1. 0 \in S /\ \A k \in 1 .. n : k - 1 \in S => k \in S
  OBVIOUS
<1> HIDE DEF S
<1>2. \A k \in 0 .. n : k \in S
  BY <1>1, ParRecurrence
<1> QED
  BY <1>2 DEF S
=============================================================================
