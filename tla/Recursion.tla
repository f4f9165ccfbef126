----------------------------- MODULE Recursion ------------------------------
(***************************************************************************)
(* Induction and recursion over the natural numbers, for the recursive     *)
(* functions of TtsLadder and SplitBlocks.  Both rest on the least element *)
(* of a set of numbers, and are stated with sets and functions instead of  *)
(* predicates and operators.                                               *)
(***************************************************************************)
EXTENDS Integers, WellFoundedInduction, TLAPS

\* A set of natural numbers has a least element.
LEMMA LeastNatural ==
  ASSUME NEW T, T \subseteq Nat, T # {}
  PROVE  \E n \in T : \A m \in T : n <= m
<1>1. PICK n \in T : \A m \in T : ~(<<m, n>> \in OpToRel(<, Nat))
  BY NatLessThanWellFounded, WFMin, Zenon
<1>2. \A m \in T : ~(m < n)
  BY <1>1, Zenon DEF OpToRel
<1>3. \A m \in T : n <= m
  <2> TAKE m \in T
  <2>1. m \in Nat /\ n \in Nat /\ ~(m < n)
    BY <1>2
  <2> QED
    BY <2>1, SMT
<1> QED
  BY <1>3, Zenon

\* A set with 0 and with the successor of each number in it has every number.
THEOREM Induction ==
  ASSUME NEW S, 0 \in S, \A n \in Nat : n \in S => n + 1 \in S
  PROVE  \A n \in Nat : n \in S
<1> SUFFICES ASSUME Nat \ S # {}
             PROVE  FALSE
  BY Zenon
<1>1. PICK n \in Nat \ S : \A m \in Nat \ S : n <= m
  BY LeastNatural, Zenon
<1>2. n # 0
  BY Zenon
<1>3. n - 1 \in Nat /\ ~(n <= n - 1) /\ (n - 1) + 1 = n
  BY <1>2, SMT
<1>4. n - 1 \in S
  BY <1>1, <1>3, Zenon
<1> QED
  BY <1>3, <1>4, Zenon

-----------------------------------------------------------------------------

\* g is what k steps make of v: g[n] is the value after n of them.
IsRun(g, k, v, step, V) ==
  /\ g \in [0 .. k -> V]
  /\ g[0] = v
  /\ \A n \in Nat : n < k => g[n + 1] = step[<<n, g[n]>>]

\* Any number of steps can be taken.
THEOREM RunExists ==
  ASSUME NEW V, NEW v \in V, NEW step \in [Nat \X V -> V]
  PROVE  \A k \in Nat : \E g : IsRun(g, k, v, step, V)
<1> DEFINE S == {k \in Nat : \E g : IsRun(g, k, v, step, V)}
<1>1. 0 \in S
  <2>1. \A n \in Nat : ~(n < 0)
    BY SMT
  <2>2. 0 \in 0 .. 0 /\ 0 \in Nat
    BY SMT
  <2>3. IsRun([n \in 0 .. 0 |-> v], 0, v, step, V)
    BY <2>1, <2>2, Zenon DEF IsRun
  <2> QED
    BY <2>2, <2>3, Zenon
<1>2. ASSUME NEW k \in Nat, k \in S
      PROVE  k + 1 \in S
  <2>1. PICK g : IsRun(g, k, v, step, V)
    BY <1>2, Zenon
  <2> DEFINE last == step[<<k, g[k]>>]
             h == [n \in 0 .. k + 1 |-> IF n = k + 1 THEN last ELSE g[n]]
  <2>2. /\ k \in 0 .. k /\ k + 1 \in Nat /\ k + 1 \in 0 .. k + 1
        /\ 0 \in 0 .. k + 1 /\ 0 # k + 1
        /\ \A n \in 0 .. k + 1 : n # k + 1 => n \in 0 .. k
    BY SMT
  <2>3. \A n \in 0 .. k : g[n] \in V
    BY <2>1, Zenon DEF IsRun
  <2>4. <<k, g[k]>> \in Nat \X V
    BY <2>2, <2>3, Zenon
  <2>5. last \in V
    BY <2>4, Zenon
  <2>6. h \in [0 .. k + 1 -> V]
    <3> HIDE DEF last
    <3> QED
      BY <2>2, <2>3, <2>5, Zenon
  <2>7. h[0] = v
    BY <2>1, <2>2, Zenon DEF IsRun
  <2>8. ASSUME NEW n \in Nat, n < k + 1
        PROVE  h[n + 1] = step[<<n, h[n]>>]
    <3>1. n \in 0 .. k + 1 /\ n + 1 \in 0 .. k + 1 /\ n # k + 1
      BY <2>8, SMT
    <3>2. CASE n = k
      BY <3>1, <3>2, Zenon
    <3>3. CASE n # k
      <4>1. n < k /\ n + 1 # k + 1
        BY <2>8, <3>3, SMT
      <4>2. g[n + 1] = step[<<n, g[n]>>]
        BY <2>1, <4>1, Zenon DEF IsRun
      <4> QED
        BY <3>1, <4>1, <4>2, Zenon
    <3> QED
      BY <3>2, <3>3, Zenon
  <2>9. IsRun(h, k + 1, v, step, V)
    <3> HIDE DEF h
    <3> QED
      BY <2>6, <2>7, <2>8, Zenon DEF IsRun
  <2> HIDE DEF h
  <2> QED
    BY <2>2, <2>9, Zenon
<1> HIDE DEF S
<1>3. \A k \in Nat : k \in S
  BY <1>1, <1>2, Induction, Zenon
<1> QED
  BY <1>3, Zenon DEF S

\* Taking more steps does not change what the first ones do.
THEOREM RunUnique ==
  ASSUME NEW V, NEW v, NEW step, NEW g, NEW h, NEW k \in Nat, NEW l \in Nat,
         IsRun(g, k, v, step, V), IsRun(h, l, v, step, V)
  PROVE  \A n \in Nat : n <= k /\ n <= l => g[n] = h[n]
<1> DEFINE S == {n \in Nat : n <= k /\ n <= l => g[n] = h[n]}
<1>1. 0 \in S
  BY Zenon DEF IsRun
<1>2. ASSUME NEW n \in Nat, n \in S
      PROVE  n + 1 \in S
  <2>1. n + 1 \in Nat
    BY SMT
  <2>2. ASSUME n + 1 <= k, n + 1 <= l
        PROVE  g[n + 1] = h[n + 1]
    <3>1. n < k /\ n < l /\ n <= k /\ n <= l
      BY <2>2, SMT
    <3> QED
      BY <1>2, <3>1, Zenon DEF IsRun
  <2> QED
    BY <2>1, <2>2, Zenon
<1> HIDE DEF S
<1>3. \A n \in Nat : n \in S
  BY <1>1, <1>2, Induction, Zenon
<1> QED
  BY <1>3, Zenon DEF S

\* f has the value v at 0, and step says how the value at n + 1 follows from n and the
\* value at n.
IsRecursive(f, v, step, V) ==
  /\ f \in [Nat -> V]
  /\ f = [n \in Nat |-> IF n = 0 THEN v ELSE step[<<n - 1, f[n - 1]>>]]

\* A function of the natural numbers can be defined this way.
THEOREM PrimitiveRecursion ==
  ASSUME NEW V, NEW v \in V, NEW step \in [Nat \X V -> V]
  PROVE  \E f : IsRecursive(f, v, step, V)
<1> DEFINE G(k) == CHOOSE g : IsRun(g, k, v, step, V)
           f == [n \in Nat |-> G(n)[n]]
<1>1. \A k \in Nat : IsRun(G(k), k, v, step, V)
  BY RunExists, Zenon
<1> HIDE DEF G
<1>2. \A k \in Nat : G(k)[k] \in V
  <2> TAKE k \in Nat
  <2>1. k \in 0 .. k
    BY SMT
  <2> QED
    BY <1>1, <2>1, Zenon DEF IsRun
<1>3. f \in [Nat -> V]
  BY <1>2, Zenon
<1>4. ASSUME NEW n \in Nat
      PROVE  f[n] = IF n = 0 THEN v ELSE step[<<n - 1, f[n - 1]>>]
  <2>1. CASE n = 0
    <3>1. G(0)[0] = v
      BY <1>1, Zenon DEF IsRun
    <3> QED
      BY <2>1, <3>1, Zenon
  <2>2. CASE n # 0
    <3>1. /\ n - 1 \in Nat /\ n - 1 < n /\ (n - 1) + 1 = n
          /\ n - 1 <= n /\ n - 1 <= n - 1
      BY <2>2, SMT
    <3>2. G(n)[n] = step[<<n - 1, G(n)[n - 1]>>]
      BY <1>1, <3>1, Zenon DEF IsRun
    <3>3. ASSUME NEW p \in Nat, p <= n, p <= p
          PROVE  G(n)[p] = G(p)[p]
      <4>1. IsRun(G(n), n, v, step, V) /\ IsRun(G(p), p, v, step, V)
        BY <1>1, Zenon
      <4> QED
        BY <3>3, <4>1, RunUnique, SMT
    <3>4. G(n)[n - 1] = G(n - 1)[n - 1]
      BY <3>1, <3>3, Zenon
    <3> QED
      BY <2>2, <3>1, <3>2, <3>4, Zenon
  <2> QED
    BY <2>1, <2>2, Zenon
<1>5. f = [n \in Nat |-> IF n = 0 THEN v ELSE step[<<n - 1, f[n - 1]>>]]
  BY <1>4, Zenon
<1> HIDE DEF f
<1> QED
  BY <1>3, <1>5, Zenon DEF IsRecursive
=============================================================================
