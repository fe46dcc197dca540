----------------------------- MODULE Induction -----------------------------
(***************************************************************************)
(* Induction and recursion over the natural numbers, stated of sets and    *)
(* functions, so that a proof can cite them for the set of the numbers     *)
(* that have a property and for the function a definition describes.       *)
(***************************************************************************)
EXTENDS Integers, WellFoundedInduction, TLAPS

(* Every set of numbers that is not empty has a least one.                 *)
LEMMA Least ==
  ASSUME NEW T \in SUBSET Nat, T # {}
  PROVE  \E n \in T : \A m \in T : n <= m
<1>1. IsWellFoundedOn(OpToRel(<, Nat), Nat)
  BY NatLessThanWellFounded
<1>2. PICK n \in T : \A m \in T : ~(<<m, n>> \in OpToRel(<, Nat))
  BY <1>1, WFMin
<1>3. n \in Nat /\ \A m \in T : m \in Nat /\ ~(m < n)
  BY <1>2 DEF OpToRel
<1>4. \A m \in T : n <= m
  BY <1>3
<1> QED BY <1>4

(* A set of numbers with 0 and with the successor of each of its members   *)
(* has them all.                                                           *)
LEMMA ByInduction ==
  ASSUME NEW S, 0 \in S, \A n \in Nat : n \in S => n + 1 \in S
  PROVE  \A n \in Nat : n \in S
<1> SUFFICES ASSUME NEW m \in Nat, m \notin S PROVE FALSE
  OBVIOUS
<1> DEFINE T == {n \in Nat : n \notin S}
<1>1. PICK n \in T : \A k \in T : n <= k
  BY Least
<1>2. n \in Nat /\ n # 0 /\ n \notin S
  BY <1>1
<1>3. n - 1 \in Nat /\ n - 1 \notin T /\ (n - 1) + 1 = n
  BY <1>1, <1>2
<1> QED BY <1>2, <1>3

(* A function over Nat with this value for 0, and the rest step by step.   *)
Follows(f, first, step) ==
  f[0] = first /\ \A n \in Nat : f[n + 1] = step[<<n, f[n]>>]

(* A value for 0 and one for each successor make a function.               *)
LEMMA Recursion ==
  ASSUME NEW V, NEW first \in V, NEW step \in [Nat \X V -> V]
  PROVE  \E f \in [Nat -> V] : Follows(f, first, step)
<1> DEFINE Prefix(n, g) ==
             /\ g \in [0..n -> V]
             /\ g[0] = first
             /\ \A i \in 0..(n - 1) : g[i + 1] = step[<<i, g[i]>>]
           Known == {n \in Nat : \E g : Prefix(n, g)}
<1>1. \A n \in Nat : n \in Known
  <2>1. 0 \in Known
    <3>1. Prefix(0, [i \in 0..0 |-> first])
      OBVIOUS
    <3> QED BY <3>1
  <2>2. ASSUME NEW n \in Nat, n \in Known PROVE n + 1 \in Known
    <3>1. PICK g : Prefix(n, g)
      BY <2>2
    <3> DEFINE h == [i \in 0..(n + 1) |-> IF i <= n THEN g[i] ELSE step[<<n, g[n]>>]]
    <3>2. step[<<n, g[n]>>] \in V
      BY <3>1
    <3>3. h \in [0..(n + 1) -> V] /\ h[0] = first
      BY <3>1, <3>2
    <3>4. ASSUME NEW i \in 0..n PROVE h[i + 1] = step[<<i, h[i]>>]
      <4>1. h[i] = g[i]
        OBVIOUS
      <4>2. CASE i = n
        BY <4>1, <4>2
      <4>3. CASE i # n
        <5>1. i \in 0..(n - 1) /\ i + 1 \in 0..n
          BY <4>3
        <5> QED BY <5>1, <4>1, <3>1
      <4> QED BY <4>2, <4>3
    <3>5. (n + 1) - 1 = n
      OBVIOUS
    <3>6. Prefix(n + 1, h)
      BY <3>3, <3>4, <3>5
    <3> HIDE DEF h, Prefix
    <3>7. \E x : Prefix(n + 1, x)
      BY <3>6
    <3> QED BY <3>7
  <2> HIDE DEF Known
  <2> QED BY <2>1, <2>2, ByInduction
<1>2. ASSUME NEW m \in Nat, NEW n \in Nat, m <= n, NEW g, NEW h, Prefix(m, g), Prefix(n, h)
      PROVE  g[m] = h[m]
  <2> DEFINE Same == {i \in Nat : i <= m => g[i] = h[i]}
  <2>1. 0 \in Same
    BY <1>2
  <2>2. ASSUME NEW i \in Nat, i \in Same PROVE i + 1 \in Same
    <3> SUFFICES ASSUME i + 1 <= m PROVE g[i + 1] = h[i + 1]
      OBVIOUS
    <3>1. i \in 0..(m - 1) /\ i \in 0..(n - 1) /\ g[i] = h[i]
      BY <2>2, <1>2
    <3> QED BY <3>1, <1>2
  <2>3. \A i \in Nat : i \in Same
    <3> HIDE DEF Same
    <3> QED BY <2>1, <2>2, ByInduction
  <2> QED BY <2>3
<1>3. \A n \in Nat : \E g : Prefix(n, g)
  BY <1>1
<1> DEFINE At(n) == CHOOSE g : Prefix(n, g)
           f == [n \in Nat |-> At(n)[n]]
<1>4. ASSUME NEW n \in Nat PROVE Prefix(n, At(n))
  <2> HIDE DEF Prefix
  <2> QED BY <1>3
<1>5. ASSUME NEW n \in Nat
      PROVE  /\ At(n) \in [0..n -> V]
             /\ At(n)[0] = first
             /\ \A i \in 0..(n - 1) : At(n)[i + 1] = step[<<i, At(n)[i]>>]
             /\ f[n] = At(n)[n]
             /\ f[n] \in V
             /\ f[n] = At(n + 1)[n]
  <2>1. n + 1 \in Nat /\ n <= n + 1
    OBVIOUS
  <2>2. Prefix(n, At(n)) /\ Prefix(n + 1, At(n + 1))
    <3> HIDE DEF Prefix, At
    <3> QED BY <1>4, <2>1
  <2>3. f[n] = At(n)[n]
    OBVIOUS
  <2> HIDE DEF At
  <2>4. At(n)[n] = At(n + 1)[n]
    <3> HIDE DEF Prefix
    <3> QED BY <2>2, <2>1, <1>2
  <2> QED BY <2>2, <2>3, <2>4
<1>6. f \in [Nat -> V]
  BY <1>5
<1>7. f[0] = first
  BY <1>5
<1>8. ASSUME NEW n \in Nat PROVE f[n + 1] = step[<<n, f[n]>>]
  <2>1. n + 1 \in Nat /\ n \in 0..((n + 1) - 1)
    OBVIOUS
  <2> HIDE DEF At, f
  <2>2. At(n + 1)[n + 1] = step[<<n, At(n + 1)[n]>>]
    BY <2>1, <1>5
  <2>3. f[n + 1] = At(n + 1)[n + 1]
    BY <2>1, <1>5
  <2>4. f[n] = At(n + 1)[n]
    BY <1>5
  <2> QED BY <2>2, <2>3, <2>4
<1> HIDE DEF f
<1>9. Follows(f, first, step)
  BY <1>7, <1>8 DEF Follows
<1> QED BY <1>6, <1>9

=============================================================================
