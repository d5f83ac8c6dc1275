----------------------------- MODULE Induction -----------------------------
(***************************************************************************)
(* What the proofs share: induction for sets of numbers, and that the      *)
(* recursive functions of the models exist.  (The library's theorems of    *)
(* this kind have an operator as a parameter, which no prover supplies.)   *)
(***************************************************************************)
EXTENDS Integers, WellFoundedInduction, TLAPS

\* Every set of naturals that is not empty has a least member.
LEMMA Least == ASSUME NEW T, T \subseteq Nat, T # {}
               PROVE \E x \in T : \A y \in T : x <= y
<1>1. \E x \in T : \A y \in T : ~ (<<y, x>> \in OpToRel(<, Nat))
  BY NatLessThanWellFounded, WFMin
<1>2. \A x \in T, y \in T : y < x => <<y, x>> \in OpToRel(<, Nat)
  BY DEF OpToRel
<1>3. PICK x \in T : \A y \in T : ~(y < x)
  BY <1>1, <1>2
<1>4. \A y \in T : x <= y
  BY <1>3
<1>5. QED BY <1>4

\* A set that holds 0 and with every number the next one holds all of them.
LEMMA Upward == ASSUME NEW T, 0 \in T, \A n \in Nat : n \in T => n + 1 \in T
             PROVE  Nat \subseteq T
<1> SUFFICES ASSUME Nat \ T # {} PROVE FALSE
  OBVIOUS
<1>1. PICK x \in Nat \ T : \A y \in Nat \ T : x <= y
  BY Least
<1>2. x # 0 /\ x - 1 \in Nat /\ x - 1 \in T
  BY <1>1
<1>3. QED BY <1>1, <1>2
\* f solves a recursion in which the value at k comes from the one at down[k].
Recurs(V, c, down, step, f) ==
  f \in [Nat -> V] /\ f[0] = c /\ \A k \in Nat \ {0} : f[k] = step[<<k, f[down[k]]>>]

\* Such a recursion, to smaller numbers, has a solution.
LEMMA Recursions ==
  ASSUME NEW V, NEW c \in V, NEW down \in [Nat \ {0} -> Nat], \A k \in Nat \ {0} : down[k] < k,
         NEW step \in [(Nat \ {0}) \X V -> V]
  PROVE  \E f : Recurs(V, c, down, step, f)
<1> DEFINE G(n) == {g \in [0 .. n -> V] :
                      g[0] = c /\ \A k \in 1 .. n : g[k] = step[<<k, g[down[k]]>>]}
           T == {n \in Nat : G(n) # {}}
<1>0. \A n \in Nat : \A k \in 1 .. n : k \in Nat \ {0} /\ down[k] \in 0 .. n /\ down[k] < k
  OBVIOUS
<1>1. 0 \in T
  <2>1. [i \in 0 .. 0 |-> c] \in G(0)
    OBVIOUS
  <2>2. QED BY <2>1
<1>2. ASSUME NEW n \in Nat, n \in T PROVE n + 1 \in T
  <2>1. PICK g \in G(n) : TRUE
    BY <1>2
  <2> DEFINE d == down[n + 1]
             last == step[<<n + 1, g[d]>>]
             g2 == [i \in 0 .. (n + 1) |-> IF i = n + 1 THEN last ELSE g[i]]
  <2>2. g2 \in G(n + 1)
    <3>1. /\ g \in [0 .. n -> V] /\ g[0] = c /\ n \in 0 .. n
          /\ \A k \in 1 .. n : g[k] = step[<<k, g[down[k]]>>]
      BY <2>1
    <3>2. n + 1 \in Nat \ {0} /\ d \in 0 .. n
      OBVIOUS
    <3>3. last \in V
      BY <3>1, <3>2
    <3>4. g2 \in [0 .. (n + 1) -> V]
      <4>1. ASSUME NEW i \in 0 .. (n + 1), i # n + 1 PROVE i \in 0 .. n
        BY <4>1
      <4> HIDE DEF last
      <4>2. QED BY <3>1, <3>3, <4>1
    <3>5. g2[0] = c
      BY <3>1
    <3>6. ASSUME NEW k \in 1 .. (n + 1) PROVE g2[k] = step[<<k, g2[down[k]]>>]
      <4>1. k \in Nat \ {0} /\ down[k] \in 0 .. (n + 1) /\ down[k] # n + 1
        BY <1>0
      <4>2. g2[down[k]] = g[down[k]]
        BY <4>1
      <4>3. CASE k = n + 1
        <5>1. n + 1 \in 0 .. (n + 1)
          OBVIOUS
        <5>3. g2[n + 1] = last
          <6> HIDE DEF last
          <6>1. QED BY <5>1
        <5> HIDE DEF g2
        <5>2. QED BY <4>2, <4>3, <5>3
      <4>4. CASE k # n + 1
        <5>1. k \in 1 .. n
          BY <4>4
        <5>2. QED BY <3>1, <4>2, <4>4, <5>1
      <4>5. QED BY <4>3, <4>4
    <3> HIDE DEF g2
    <3>7. QED BY <3>4, <3>5, <3>6
  <2> HIDE DEF g2, G
  <2>3. QED BY <2>2
<1>3. Nat \subseteq T
  <2> HIDE DEF T
  <2>1. QED BY <1>1, <1>2, Upward
<1>4. ASSUME NEW m \in Nat, NEW n \in Nat, m <= n, NEW g \in G(m), NEW h \in G(n)
      PROVE  \A k \in 0 .. m : g[k] = h[k]
  <2> DEFINE E == {k \in 0 .. m : g[k] # h[k]}
  <2> SUFFICES ASSUME E # {} PROVE FALSE
    OBVIOUS
  <2>1. E \subseteq Nat
    OBVIOUS
  <2>2. PICK k \in E : \A j \in E : k <= j
    <3> HIDE DEF E
    <3>1. QED BY <2>1, Least
  <2>3. k # 0
    BY <2>2
  <2>4. k \in 1 .. m /\ k \in 1 .. n
    BY <2>2, <2>3, <1>4
  <2>5. down[k] \in 0 .. m /\ down[k] < k /\ down[k] \in Nat
    BY <1>0, <2>4
  <2>6. g[down[k]] = h[down[k]]
    BY <2>2, <2>4, <2>5
  <2>7. g[k] = step[<<k, g[down[k]]>>] /\ h[k] = step[<<k, h[down[k]]>>]
    BY <2>4
  <2>8. QED BY <2>2, <2>6, <2>7
<1> DEFINE pick(n) == CHOOSE g \in G(n) : TRUE
<1>5. ASSUME NEW n \in Nat PROVE pick(n) \in G(n)
  <2>1. G(n) # {}
    BY <1>3
  <2> HIDE DEF G
  <2>2. QED BY <2>1
<1>6. ASSUME NEW n \in Nat
      PROVE  /\ pick(n) \in [0 .. n -> V] /\ pick(n)[0] = c
             /\ \A k \in 1 .. n : pick(n)[k] = step[<<k, pick(n)[down[k]]>>]
  BY <1>5
<1> HIDE DEF pick
<1> DEFINE F == [n \in Nat |-> pick(n)[n]]
<1>7. F \in [Nat -> V]
  BY <1>6
<1>8. F[0] = c
  BY <1>6
<1>9. ASSUME NEW k \in Nat \ {0} PROVE F[k] = step[<<k, F[down[k]]>>]
  <2> DEFINE d == down[k]
  <2>1. d \in Nat /\ d <= k /\ pick(k) \in G(k) /\ pick(d) \in G(d) /\ d \in 0 .. d /\ k \in 1 .. k
    BY <1>5
  <2>2. F[k] = pick(k)[k] /\ F[d] = pick(d)[d]
    BY <2>1
  <2>4. pick(k)[k] = step[<<k, pick(k)[d]>>]
    BY <1>6, <2>1
  <2> HIDE DEF F, G, d
  <2>3. pick(d)[d] = pick(k)[d]
    BY <2>1, <1>4
  <2>5. F[k] = step[<<k, F[d]>>]
    BY <2>2, <2>3, <2>4
  <2>6. QED BY <2>5 DEF d
<1>10. QED
  <2> HIDE DEF F
  <2>1. Recurs(V, c, down, step, F)
    BY <1>7, <1>8, <1>9 DEF Recurs
  <2>2. QED BY <2>1

\* A first value and a step give a function on the naturals.
LEMMA Iterated ==
  ASSUME NEW V, NEW c \in V, NEW step \in [V -> V]
  PROVE  \E f \in [Nat -> V] : f[0] = c /\ \A k \in Nat \ {0} : f[k] = step[f[k - 1]]
<1> DEFINE down == [k \in Nat \ {0} |-> k - 1]
           next == [v \in (Nat \ {0}) \X V |-> step[v[2]]]
<1>1. down \in [Nat \ {0} -> Nat] /\ \A k \in Nat \ {0} : down[k] < k
  OBVIOUS
<1>2. next \in [(Nat \ {0}) \X V -> V]
  OBVIOUS
<1>0. /\ \A k \in Nat \ {0} : down[k] = k - 1
      /\ \A k \in Nat \ {0}, v \in V : next[<<k, v>>] = step[v]
  OBVIOUS
<1> HIDE DEF down, next
<1>3. PICK f : Recurs(V, c, down, next, f)
  BY <1>1, <1>2, Recursions
<1>4. f \in [Nat -> V] /\ f[0] = c /\ \A k \in Nat \ {0} : f[k] = next[<<k, f[down[k]]>>]
  BY <1>3 DEF Recurs
<1>5. ASSUME NEW k \in Nat \ {0} PROVE f[k] = step[f[k - 1]]
  <2>1. k - 1 \in Nat /\ f[k - 1] \in V
    BY <1>4
  <2>2. f[k] = next[<<k, f[k - 1]>>]
    BY <1>0, <1>4
  <2>3. QED BY <1>0, <2>1, <2>2
<1>6. QED BY <1>4, <1>5

\* f runs from c by a step at a time, and it exists.
Runs(V, c, step, f) ==
  f \in [Nat -> V] /\ f[0] = c /\ \A k \in Nat \ {0} : f[k] = step[f[k - 1]]

LEMMA RunsExist == ASSUME NEW V, NEW c \in V, NEW step \in [V -> V] PROVE \E f : Runs(V, c, step, f)
  BY Iterated DEF Runs

\* h goes from c through n values, each from its number and the one before.
Folds(S, c, n, next, h) ==
  h \in [0 .. n -> S] /\ h[0] = c /\ \A k \in 0 .. (n - 1) : h[k + 1] = next[<<k + 1, h[k]>>]

LEMMA FoldsExist ==
  ASSUME NEW S, NEW c \in S, NEW n \in Nat, NEW next \in [(1 .. n) \X S -> S]
  PROVE  \E h : Folds(S, c, n, next, h)
<1> DEFINE V == (0 .. n) \X S
           onward == [v \in V |-> IF v[1] < n THEN <<v[1] + 1, next[<<v[1] + 1, v[2]>>]>> ELSE v]
           z == <<0, c>>
<1>1. onward \in [V -> V]
  <2>1. ASSUME NEW v \in V PROVE onward[v] \in V
    <3>1. v[1] \in 0 .. n /\ v[2] \in S
      OBVIOUS
    <3>2. v[1] < n => <<v[1] + 1, v[2]>> \in (1 .. n) \X S
      BY <3>1
    <3>3. v[1] < n => next[<<v[1] + 1, v[2]>>] \in S
      BY <3>2
    <3>4. QED BY <3>1, <3>3
  <2>2. QED BY <2>1
<1>2. z \in V
  OBVIOUS
<1>3. PICK f : Runs(V, z, onward, f)
  <2> HIDE DEF V, z, onward
  <2>1. QED BY <1>1, <1>2, RunsExist
<1>4. f[0] = z /\ \A k \in Nat : f[k] \in V /\ f[k + 1] = onward[f[k]]
  <2>1. \A k \in Nat : k + 1 \in Nat \ {0} /\ (k + 1) - 1 = k
    OBVIOUS
  <2> HIDE DEF onward, V, z
  <2>2. QED BY <1>3, <2>1 DEF Runs
<1>5. \A k \in Nat : k < n /\ f[k][1] = k => f[k + 1] = <<k + 1, next[<<k + 1, f[k][2]>>]>>
  <2> SUFFICES ASSUME NEW k \in Nat, k < n, f[k][1] = k
               PROVE  f[k + 1] = <<k + 1, next[<<k + 1, f[k][2]>>]>>
    OBVIOUS
  <2>1. f[k] \in V /\ f[k + 1] = onward[f[k]]
    BY <1>4
  <2>2. onward[f[k]] = <<f[k][1] + 1, next[<<f[k][1] + 1, f[k][2]>>]>>
    BY <2>1
  <2> HIDE DEF onward, V
  <2>3. QED BY <2>1, <2>2
<1>6. \A k \in 0 .. n : f[k][1] = k
  <2> DEFINE T == {k \in Nat : k <= n => f[k][1] = k}
  <2>1. 0 \in T
    BY <1>4
  <2>2. ASSUME NEW k \in Nat, k \in T PROVE k + 1 \in T
    <3> SUFFICES ASSUME k + 1 <= n PROVE f[k + 1][1] = k + 1
      OBVIOUS
    <3>1. k < n /\ f[k][1] = k
      BY <2>2
    <3>2. f[k + 1] = <<k + 1, next[<<k + 1, f[k][2]>>]>>
      BY <1>5, <3>1
    <3>3. QED BY <3>2
  <2>3. Nat \subseteq T
    <3> HIDE DEF T
    <3>1. QED BY <2>1, <2>2, Upward
  <2>4. QED BY <2>3
<1> DEFINE h == [k \in 0 .. n |-> f[k][2]]
<1>7. Folds(S, c, n, next, h)
  <2>1. h[0] = c
    BY <1>4
  <2>2. ASSUME NEW k \in 0 .. n PROVE h[k] \in S
    <3>1. k \in Nat
      OBVIOUS
    <3>2. f[k] \in V
      BY <1>4, <3>1, Zenon
    <3>3. QED BY <3>2
  <2>3. ASSUME NEW k \in 0 .. (n - 1) PROVE h[k + 1] = next[<<k + 1, h[k]>>]
    <3>1. k \in Nat /\ k < n /\ k \in 0 .. n /\ k + 1 \in 0 .. n
      OBVIOUS
    <3>2. f[k + 1] = <<k + 1, next[<<k + 1, f[k][2]>>]>>
      BY <1>5, <1>6, <3>1
    <3>3. QED BY <3>1, <3>2
  <2>4. h \in [0 .. n -> S]
    BY <2>2
  <2> HIDE DEF h
  <2>5. QED BY <2>1, <2>3, <2>4 DEF Folds
<1>8. QED BY <1>7
=============================================================================
