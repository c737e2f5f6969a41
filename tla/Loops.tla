------------------------------- MODULE Loops --------------------------------
(***************************************************************************)
(* What the proofs about loops rest on.  A loop of the code is, in the     *)
(* models, a recursive function on 0 .. n: the state after k rounds.  Here *)
(* it is shown that such a function exists and that there is only one, by  *)
(* induction stated with sets, which needs no operator as a parameter.     *)
(***************************************************************************)
EXTENDS Integers, WellFoundedInduction, TLAPS

\* f[k] is the state after k rounds: x0 at first, and g gives the next one
\* from the number of the round and the last one.
IsLoop(f, n, x0, g) == f[0] = x0 /\ \A k \in 1 .. n : f[k] = g[<<k, f[k - 1]>>]

\* A set of natural numbers that is not empty has a least element.
LEMMA LeastNumber ==
    ASSUME NEW T, T \subseteq Nat, T # {}
    PROVE  \E x \in T : \A y \in T : x <= y
<1>1. PICK x \in T : \A y \in T : ~(<<y, x>> \in OpToRel(<, Nat))
  BY NatLessThanWellFounded, WFMin
<1>2. ASSUME NEW y \in T, y < x  PROVE FALSE
  <2>1. <<y, x>> \in OpToRel(<, Nat)  BY <1>2 DEF OpToRel
  <2>2. QED  BY <2>1, <1>1
<1>3. QED  BY <1>2

\* Induction over the natural numbers.
LEMMA Induction ==
    ASSUME NEW S, 0 \in S, \A n \in Nat : n \in S => n + 1 \in S
    PROVE  \A n \in Nat : n \in S
<1> SUFFICES ASSUME Nat \ S # {} PROVE FALSE OBVIOUS
<1>1. PICK x \in Nat \ S : \A y \in Nat \ S : x <= y
  BY LeastNumber
<1>2. x - 1 \in Nat /\ x - 1 \in S
  BY <1>1
<1> QED BY <1>2

\* Induction over the rounds of a loop.
LEMMA BoundedInduction ==
    ASSUME NEW n \in Nat, NEW S, 0 \in S, \A k \in 1 .. n : k - 1 \in S => k \in S
    PROVE  \A k \in 0 .. n : k \in S
<1> DEFINE T == {k \in Nat : k <= n => k \in S}
<1>1. 0 \in T  OBVIOUS
<1>2. ASSUME NEW k \in Nat, k \in T  PROVE k + 1 \in T
  <2>1. SUFFICES ASSUME k + 1 <= n  PROVE k + 1 \in S  OBVIOUS
  <2>2. k \in S  BY <1>2, <2>1
  <2>3. k + 1 \in 1 .. n /\ (k + 1) - 1 = k  BY <2>1
  <2>4. QED  BY <2>2, <2>3
<1>3. \A k \in Nat : k \in T
  <2> HIDE DEF T
  <2>1. QED  BY <1>1, <1>2, Induction
<1>4. QED  BY <1>3

\* Every start and every round define a loop.
LEMMA LoopExists ==
    ASSUME NEW n \in Nat, NEW X, NEW x0 \in X, NEW g \in [(1 .. n) \X X -> X]
    PROVE  \E f \in [0 .. n -> X] : IsLoop(f, n, x0, g)
<1> DEFINE Runs(m, f) == f[0] = x0 /\ \A k \in 1 .. m : f[k] = g[<<k, f[k - 1]>>]
           S == {m \in Nat : m <= n => \E f \in [0 .. m -> X] : Runs(m, f)}
<1>1. 0 \in S
  <2>1. Runs(0, [k \in 0 .. 0 |-> x0])  OBVIOUS
  <2>2. [k \in 0 .. 0 |-> x0] \in [0 .. 0 -> X]  OBVIOUS
  <2>3. QED  BY <2>1, <2>2
<1>2. ASSUME NEW m \in Nat, m \in S  PROVE m + 1 \in S
  <2>1. SUFFICES ASSUME m + 1 <= n  PROVE \E f \in [0 .. m + 1 -> X] : Runs(m + 1, f)
    OBVIOUS
  <2>2. PICK f \in [0 .. m -> X] : Runs(m, f)
    BY <1>2, <2>1
  <2> DEFINE h == [k \in 0 .. m + 1 |-> IF k <= m THEN f[k] ELSE g[<<m + 1, f[m]>>]]
  <2>3. h \in [0 .. m + 1 -> X]
    <3>1. <<m + 1, f[m]>> \in (1 .. n) \X X  BY <2>1
    <3>2. QED  BY <3>1
  <2>4. Runs(m + 1, h)
    <3>1. h[0] = x0  BY <2>2
    <3>2. ASSUME NEW k \in 1 .. m + 1  PROVE h[k] = g[<<k, h[k - 1]>>]
      <4>1. CASE k <= m  BY <4>1, <2>2
      <4>2. CASE k = m + 1
        <5>1. h[k - 1] = f[m]  BY <4>2
        <5>2. h[k] = g[<<m + 1, f[m]>>]  BY <4>2
        <5>3. QED  BY <5>1, <5>2, <4>2
      <4>3. QED  BY <4>1, <4>2
    <3>3. QED  BY <3>1, <3>2
  <2>5. QED  BY <2>3, <2>4
<1>3. n \in S
  <2> HIDE DEF S
  <2>1. QED  BY <1>1, <1>2, Induction
<1>4. QED  BY <1>3 DEF IsLoop

\* Two loops of the same start and the same round agree for as long as both run.
LEMMA LoopUnique ==
    ASSUME NEW n \in Nat, NEW m \in Nat, NEW x0, NEW g, NEW f, NEW h,
           n <= m, IsLoop(f, n, x0, g), IsLoop(h, m, x0, g)
    PROVE  \A k \in 0 .. n : f[k] = h[k]
<1> DEFINE S == {k \in 0 .. n : f[k] = h[k]}
<1>1. 0 \in S  BY DEF IsLoop
<1>2. ASSUME NEW k \in 1 .. n, k - 1 \in S  PROVE k \in S
  <2>1. f[k] = g[<<k, f[k - 1]>>] /\ h[k] = g[<<k, h[k - 1]>>]  BY DEF IsLoop
  <2>2. QED  BY <1>2, <2>1
<1>3. \A k \in 0 .. n : k \in S
  <2> HIDE DEF S
  <2>1. QED  BY <1>1, <1>2, BoundedInduction
<1>4. QED  BY <1>3

\* A loop that never ends has a state after every round.
LEMMA EndlessLoop ==
    ASSUME NEW X, NEW x0 \in X, NEW g \in [(Nat \ {0}) \X X -> X]
    PROVE  \E f \in [Nat -> X] : f[0] = x0 /\ \A k \in Nat \ {0} : f[k] = g[<<k, f[k - 1]>>]
<1> DEFINE Run(n) == CHOOSE s : s \in [0 .. n -> X] /\ IsLoop(s, n, x0, g)
           f == [n \in Nat |-> Run(n)[n]]
<1>1. ASSUME NEW n \in Nat  PROVE Run(n) \in [0 .. n -> X] /\ IsLoop(Run(n), n, x0, g)
  <2> DEFINE h == [p \in (1 .. n) \X X |-> g[p]]
  <2>1. h \in [(1 .. n) \X X -> X]  OBVIOUS
  <2>2. PICK s \in [0 .. n -> X] : IsLoop(s, n, x0, h)
    <3> HIDE DEF h
    <3>1. QED  BY <2>1, LoopExists
  <2>3. IsLoop(s, n, x0, g)
    <3>1. ASSUME NEW k \in 1 .. n  PROVE s[k] = g[<<k, s[k - 1]>>]
      <4>1. s[k] = h[<<k, s[k - 1]>>]  BY <2>2 DEF IsLoop
      <4>2. <<k, s[k - 1]>> \in (1 .. n) \X X  OBVIOUS
      <4>3. QED  BY <4>1, <4>2
    <3>2. QED  BY <2>2, <3>1 DEF IsLoop
  <2>4. QED  BY <2>3
<1>2. f \in [Nat -> X]  
  <2>1. ASSUME NEW n \in Nat PROVE Run(n)[n] \in X
     <3> HIDE DEF Run
     <3>1. QED BY <1>1
  <2>2. QED BY <2>1
<1>3. f[0] = x0
  <2>1. Run(0)[0] = x0
    <3> HIDE DEF Run
    <3>1. QED  BY <1>1 DEF IsLoop
  <2>2. QED  BY <2>1
<1>4. ASSUME NEW k \in Nat \ {0}  PROVE f[k] = g[<<k, f[k - 1]>>]
  <2> HIDE DEF Run
  <2>1. k \in 1 .. k /\ k - 1 \in Nat /\ k - 1 \in 0 .. k - 1 /\ k - 1 <= k /\ k \in Nat  OBVIOUS
  <2>2. Run(k)[k] = g[<<k, Run(k)[k - 1]>>]  BY <1>1, <2>1 DEF IsLoop
  <2>3. Run(k - 1)[k - 1] = Run(k)[k - 1]
    <3>1. IsLoop(Run(k - 1), k - 1, x0, g) /\ IsLoop(Run(k), k, x0, g)  BY <1>1, <2>1
    <3>2. QED  BY <2>1, <3>1, LoopUnique
  <2>4. QED  BY <2>1, <2>2, <2>3
<1> HIDE DEF f
<1>5. QED  BY <1>2, <1>3, <1>4
=============================================================================
