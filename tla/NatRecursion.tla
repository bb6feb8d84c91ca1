----------------------------- MODULE NatRecursion -----------------------------
(***************************************************************************)
(* Induction over the natural numbers and recursive functions on them, in  *)
(* a form without operator parameters: a property is the set of numbers    *)
(* that have it, and a recursive step is a function.                       *)
(***************************************************************************)
EXTENDS Integers, WellFoundedInduction, TLAPS

\* A set that holds 0, and with a number the next one, holds them all: else the
\* least number outside would have its predecessor inside.
LEMMA SetInduction ==
  ASSUME NEW S, 0 \in S, \A n \in Nat : n \in S => n + 1 \in S
  PROVE  Nat \subseteq S
<1> DEFINE Less == OpToRel(<, Nat)
<1>1. SUFFICES ASSUME Nat \ S # {} PROVE FALSE
  OBVIOUS
<1>2. IsWellFoundedOn(Less, Nat)
  BY NatLessThanWellFounded
<1>3. \A m, n \in Nat : m < n => <<m, n>> \in Less
  BY DEF OpToRel
<1> HIDE DEF Less
<1>4. PICK n \in Nat \ S : \A m \in Nat \ S : <<m, n>> \notin Less
  BY <1>1, <1>2, WFMin, Zenon
<1>5. n # 0 /\ n - 1 \in Nat /\ n - 1 < n
  BY SMT
<1>6. n - 1 \notin S
  BY <1>5, SMT
<1>7. QED
  BY <1>3, <1>4, <1>5, <1>6, Zenon

-----------------------------------------------------------------------------
(* g says what a sequence that starts with c, and goes on by the function  *)
(* step, is up to n.                                                       *)
Unrolls(g, c, step, n) ==
  /\ g[0] = c
  /\ \A i \in 1 .. n : g[i] = step[g[i - 1]]

\* Two such functions agree as far as both go.
LEMMA UnrollsUnique ==
  ASSUME NEW c, NEW step, NEW n \in Nat, NEW g, NEW h,
         Unrolls(g, c, step, n), Unrolls(h, c, step, n)
  PROVE  \A i \in 0 .. n : g[i] = h[i]
<1> DEFINE S == {i \in Nat : i <= n => g[i] = h[i]}
<1>1. 0 \in S
  BY DEF Unrolls
<1>2. ASSUME NEW i \in Nat, i \in S PROVE i + 1 \in S
  <2> SUFFICES ASSUME i + 1 <= n PROVE g[i + 1] = h[i + 1]
    OBVIOUS
  <2>1. g[i] = h[i]
    BY <1>2
  <2>2. i + 1 \in 1 .. n /\ (i + 1) - 1 = i
    OBVIOUS
  <2>3. QED
    BY <2>1, <2>2 DEF Unrolls
<1> HIDE DEF S
<1>3. Nat \subseteq S
  BY <1>1, <1>2, SetInduction
<1>4. QED
  BY <1>3 DEF S

\* One of them goes as far as you like.
LEMMA UnrollsExists ==
  ASSUME NEW T, NEW c \in T, NEW step \in [T -> T], NEW n \in Nat
  PROVE  \E g \in [Nat -> T] : Unrolls(g, c, step, n)
<1> DEFINE S == {m \in Nat : \E g \in [Nat -> T] : Unrolls(g, c, step, m)}
<1>1. 0 \in S
  <2>1. Unrolls([i \in Nat |-> c], c, step, 0)
    BY SMT DEF Unrolls
  <2>2. [i \in Nat |-> c] \in [Nat -> T]
    OBVIOUS
  <2>3. QED
    BY <2>1, <2>2
<1>2. ASSUME NEW m \in Nat, m \in S PROVE m + 1 \in S
  <2>1. PICK g \in [Nat -> T] : Unrolls(g, c, step, m)
    BY <1>2
  <2> DEFINE h == [i \in Nat |-> IF i = m + 1 THEN step[g[m]] ELSE g[i]]
  <2>2. h \in [Nat -> T]
    OBVIOUS
  <2>3. h[0] = c
    BY <2>1, SMT DEF Unrolls
  <2>4. ASSUME NEW i \in 1 .. m + 1 PROVE h[i] = step[h[i - 1]]
    <3>1. i \in Nat /\ i - 1 \in Nat /\ i - 1 # m + 1
      BY SMT
    <3>2. CASE i = m + 1
      <4>1. i - 1 = m
        BY <3>2
      <4>2. QED
        BY <3>1, <3>2, <4>1
    <3>3. CASE i # m + 1
      <4>1. i \in 1 .. m
        BY <3>3
      <4>2. g[i] = step[g[i - 1]]
        BY <2>1, <4>1 DEF Unrolls
      <4>3. QED
        BY <3>1, <3>3, <4>2
    <3>4. QED
      BY <3>2, <3>3
  <2> HIDE DEF h
  <2>5. Unrolls(h, c, step, m + 1)
    BY <2>3, <2>4, Zenon DEF Unrolls
  <2>6. QED
    BY <2>2, <2>5, SMT
<1> HIDE DEF S
<1>3. Nat \subseteq S
  BY <1>1, <1>2, SetInduction
<1>4. QED
  BY <1>3 DEF S

\* f is that sequence, all of it in T.
Follows(f, T, c, step) ==
  /\ f \in [Nat -> T]
  /\ f[0] = c
  /\ \A n \in Nat : f[n + 1] = step[f[n]]

\* So a function defined by recursion on the natural numbers exists.
LEMMA RecursionExists ==
  ASSUME NEW T, NEW c \in T, NEW step \in [T -> T]
  PROVE  \E f : Follows(f, T, c, step)
<1> DEFINE G(n) == CHOOSE g \in [Nat -> T] : Unrolls(g, c, step, n)
           f == [n \in Nat |-> G(n)[n]]
<1>1. ASSUME NEW n \in Nat PROVE G(n) \in [Nat -> T] /\ Unrolls(G(n), c, step, n)
  BY UnrollsExists, Zenon
<1> HIDE DEF G
<1>2. f \in [Nat -> T]
  BY <1>1
<1>3. f[0] = c
  BY <1>1, SMT DEF Unrolls
<1>4. ASSUME NEW n \in Nat, n # 0 PROVE f[n] = step[f[n - 1]]
  <2>1. n - 1 \in Nat /\ n \in 1 .. n /\ n - 1 \in 0 .. n - 1
    BY <1>4
  <2>2. G(n)[n] = step[G(n)[n - 1]]
    BY <1>1, <2>1 DEF Unrolls
  <2>3. Unrolls(G(n), c, step, n - 1)
    BY <1>1, <2>1 DEF Unrolls
  <2>4. Unrolls(G(n - 1), c, step, n - 1)
    BY <1>1, <2>1
  <2>5. \A i \in 0 .. n - 1 : G(n)[i] = G(n - 1)[i]
    BY <2>1, <2>3, <2>4, UnrollsUnique
  <2>6. QED
    BY <2>1, <2>2, <2>5
<1> HIDE DEF f
<1>5. ASSUME NEW n \in Nat PROVE f[n + 1] = step[f[n]]
  <2>1. n + 1 \in Nat /\ n + 1 # 0 /\ (n + 1) - 1 = n
    BY SMT
  <2>2. f[n + 1] = step[f[(n + 1) - 1]]
    BY <1>4, <2>1, Zenon
  <2>3. QED
    BY <2>1, <2>2, Zenon
<1>6. Follows(f, T, c, step)
  BY <1>2, <1>3, <1>5 DEF Follows
<1>7. QED
  BY <1>6

=============================================================================
