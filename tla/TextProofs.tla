----------------------------- MODULE TextProofs -----------------------------
(***************************************************************************)
(* The conversions of Text and the checksum of Crc, for every argument     *)
(* and every size of names, fields and files.                              *)
(***************************************************************************)
EXTENDS Text, Induction, SequenceTheorems, FiniteSetTheorems

----------------------------------------------------------------------------
(***************************************************************************)
(* Loops.                                                                  *)
(***************************************************************************)
\* h has the values of a loop of n turns over S.
Turned(S, n, c, turn, h) ==
  h \in [0 .. n -> S] /\ h[0] = c /\ \A k \in 1 .. n : h[k] = turn[k][h[k - 1]]

\* A loop whose turns stay in S has such values, and its result is the last.
LEMMA Loops ==
  ASSUME NEW S, NEW c \in S, NEW n \in Nat, NEW turn \in [1 .. n -> [S -> S]]
  PROVE  \E h : Turned(S, n, c, turn, h) /\ Loop(n, c, turn) = h[n]
<1> DEFINE down == [k \in Nat \ {0} |-> k - 1]
           step == [v \in (Nat \ {0}) \X S |-> IF v[1] <= n THEN turn[v[1]][v[2]] ELSE v[2]]
           def(g) == [k \in 0 .. n |-> IF k = 0 THEN c ELSE turn[k][g[k - 1]]]
           after == CHOOSE g : g = def(g)
<1>1. down \in [Nat \ {0} -> Nat] /\ \A k \in Nat \ {0} : down[k] < k
  OBVIOUS
<1>2. step \in [(Nat \ {0}) \X S -> S]
  <2>1. ASSUME NEW v \in (Nat \ {0}) \X S PROVE step[v] \in S
    <3>1. v[1] \in Nat \ {0} /\ v[2] \in S
      OBVIOUS
    <3>2. v[1] <= n => v[1] \in 1 .. n /\ turn[v[1]] \in [S -> S]
      BY <3>1
    <3>3. QED BY <3>1, <3>2
  <2>2. QED BY <2>1
<1>3. /\ \A k \in Nat \ {0} : down[k] = k - 1
      /\ \A k \in 1 .. n, v \in S : step[<<k, v>>] = turn[k][v]
  OBVIOUS
<1> HIDE DEF down, step
<1>4. PICK f : Recurs(S, c, down, step, f)
  BY <1>1, <1>2, Recursions
<1>5. f \in [Nat -> S] /\ f[0] = c /\ \A k \in Nat \ {0} : f[k] = step[<<k, f[down[k]]>>]
  BY <1>4 DEF Recurs
<1>6. \A k \in 1 .. n : f[k] = turn[k][f[k - 1]]
  <2> SUFFICES ASSUME NEW k \in 1 .. n PROVE f[k] = turn[k][f[k - 1]]
    OBVIOUS
  <2>1. k \in Nat \ {0} /\ k - 1 \in Nat /\ f[k - 1] \in S
    BY <1>5
  <2>2. f[k] = step[<<k, f[k - 1]>>]
    BY <1>3, <1>5, <2>1
  <2>3. QED BY <1>3, <2>1, <2>2
<1> DEFINE h == [k \in 0 .. n |-> f[k]]
<1>7. h \in [0 .. n -> S] /\ h[0] = c /\ \A k \in 1 .. n : h[k] = turn[k][h[k - 1]]
  <2>1. \A k \in 0 .. n : h[k] = f[k] /\ f[k] \in S
    BY <1>5
  <2>2. \A k \in 1 .. n : k \in 0 .. n /\ k - 1 \in 0 .. n
    OBVIOUS
  <2>3. 0 \in 0 .. n
    OBVIOUS
  <2>4. h \in [0 .. n -> S]
    BY <2>1
  <2> HIDE DEF h
  <2>5. QED BY <1>5, <1>6, <2>1, <2>2, <2>3, <2>4
<1> HIDE DEF h
<1>8. h = def(h)
  <2> DEFINE d == def(h)
  <2>1. ASSUME NEW k \in 0 .. n PROVE h[k] = d[k]
    <3>1. k # 0 => k \in 1 .. n
      OBVIOUS
    <3>2. QED BY <1>7, <3>1
  <2>2. d = [k \in 0 .. n |-> d[k]] /\ h = [k \in 0 .. n |-> h[k]]
    BY <1>7
  <2> HIDE DEF d
  <2>3. h = d
    BY <2>1, <2>2
  <2>4. QED BY <2>3 DEF d
<1>9. after = def(after)
  <2> HIDE DEF def
  <2>1. QED BY <1>8
<1>10. Loop(n, c, turn) = after[n]
  BY DEF Loop
<1> HIDE DEF after
<1>11. after[0] = c /\ \A k \in 1 .. n : after[k] = turn[k][after[k - 1]]
  BY <1>9
<1>12. \A k \in Nat : k <= n => after[k] = h[k]
  <2> DEFINE T == {k \in Nat : k <= n => after[k] = h[k]}
  <2>1. 0 \in T
    BY <1>7, <1>11
  <2>2. ASSUME NEW k \in Nat, k \in T PROVE k + 1 \in T
    <3> SUFFICES ASSUME k + 1 <= n PROVE after[k + 1] = h[k + 1]
      OBVIOUS
    <3>1. k + 1 \in 1 .. n /\ (k + 1) - 1 = k /\ k <= n
      OBVIOUS
    <3>2. after[k + 1] = turn[k + 1][after[k]] /\ h[k + 1] = turn[k + 1][h[k]]
      BY <1>7, <1>11, <3>1
    <3>3. QED BY <2>2, <3>1, <3>2
  <2> HIDE DEF T
  <2>3. Nat \subseteq T
    BY <2>1, <2>2, Upward
  <2>4. QED BY <2>3 DEF T
<1>13. Turned(S, n, c, turn, h)
  BY <1>7 DEF Turned
<1>14. QED BY <1>10, <1>12, <1>13

----------------------------------------------------------------------------
(***************************************************************************)
(* Long division over GF(2).                                               *)
(***************************************************************************)
LEMMA XorIs == ASSUME NEW p, NEW q, NEW e PROVE e \in Xor(p, q) <=> ~(e \in p <=> e \in q)
  BY Zenon DEF Xor

LEMMA ShlIs == ASSUME NEW p, p \subseteq Int, NEW k \in Int, NEW e \in Int
               PROVE  e \in Shl(p, k) <=> e - k \in p
  BY DEF Shl

LEMMA ShlInt == ASSUME NEW p, p \subseteq Nat, NEW k \in Nat PROVE Shl(p, k) \subseteq Nat
  BY DEF Shl

\* Two sets of numbers with the same members.
LEMMA SameBits == ASSUME NEW p, NEW q, p \subseteq Int, q \subseteq Int, \A e \in Int : e \in p <=> e \in q
                  PROVE  p = q
  OBVIOUS

\* The bits of a remainder when the next coefficient has been brought down.
LEMMA BroughtIs ==
  ASSUME NEW r \in Word, NEW one \in BOOLEAN, NEW e \in Int
  PROVE  e \in Brought(r, one) <=>
           /\ e \in 0 .. 31
           /\ ~((31 \in r /\ e \in CRC32_POLYNOMIAL) <=> (e - 1 \in r \/ (e = 0 /\ one)))
<1> DEFINE s == Shl(r, 1) \cup (IF one THEN {0} ELSE {})
<1>1. \A b \in Int : b \in s <=> b - 1 \in r \/ (b = 0 /\ one)
  <2>1. r \subseteq Int
    BY DEF Word
  <2>2. \A b \in Int : b \in Shl(r, 1) <=> b - 1 \in r
    BY <2>1 DEF Shl
  <2>3. CASE one
    BY <2>2, <2>3
  <2>4. CASE ~one
    BY <2>2, <2>4
  <2>5. QED BY <2>3, <2>4
<1>2. s \subseteq 0 .. 32
  BY DEF Shl, Word
<1> HIDE DEF s
<1>3. 32 \in s <=> 31 \in r
  BY <1>1
<1>4. CRC32_POLYNOMIAL \subseteq 0 .. 32 /\ 32 \in CRC32_POLYNOMIAL
  BY DEF CRC32_POLYNOMIAL
<1>5. e \in Xor(s, CRC32_POLYNOMIAL) <=> ~(e \in s <=> e \in CRC32_POLYNOMIAL)
  BY XorIs
<1>6. CASE 31 \in r
  <2>1. Brought(r, one) = Xor(s, CRC32_POLYNOMIAL)
    BY <1>3, <1>6 DEF Brought, Reduced, s
  <2>2. e = 32 => ~(e \in Xor(s, CRC32_POLYNOMIAL))
    BY <1>3, <1>4, <1>5, <1>6
  <2>3. e \notin 0 .. 32 => ~(e \in Xor(s, CRC32_POLYNOMIAL))
    BY <1>2, <1>4, <1>5
  <2>4. QED BY <1>1, <1>5, <1>6, <2>1, <2>2, <2>3
<1>7. CASE 31 \notin r
  <2>1. Brought(r, one) = s
    BY <1>3, <1>7 DEF Brought, Reduced, s
  <2>2. e \in s => e \in 0 .. 31
    BY <1>2, <1>3, <1>7
  <2>3. QED BY <1>1, <1>7, <2>1, <2>2
<1>8. QED BY <1>6, <1>7

LEMMA BroughtWord == ASSUME NEW r \in Word, NEW one \in BOOLEAN PROVE Brought(r, one) \in Word
<1>1. Brought(r, one) \subseteq Int
  BY DEF Brought, Reduced, Shl, Xor, Word, CRC32_POLYNOMIAL
<1>2. \A e \in Int : e \in Brought(r, one) => e \in 0 .. 31
  BY BroughtIs
<1>3. QED BY <1>1, <1>2 DEF Word

LEMMA XorWord == ASSUME NEW p \in Word, NEW q \in Word PROVE Xor(p, q) \in Word
  BY DEF Xor, Word

\* Bringing down is linear.
LEMMA BroughtLinear ==
  ASSUME NEW r \in Word, NEW s \in Word, NEW x \in BOOLEAN, NEW y \in BOOLEAN
  PROVE  Brought(Xor(r, s), ~(x <=> y)) = Xor(Brought(r, x), Brought(s, y))
<1>1. Xor(r, s) \in Word /\ (~(x <=> y)) \in BOOLEAN
  BY XorWord
<1>2. Brought(Xor(r, s), ~(x <=> y)) \in Word /\ Xor(Brought(r, x), Brought(s, y)) \in Word
  BY <1>1, BroughtWord, XorWord
<1>3. ASSUME NEW e \in Int
      PROVE  e \in Brought(Xor(r, s), ~(x <=> y)) <=> e \in Xor(Brought(r, x), Brought(s, y))
  <2> DEFINE P == e \in CRC32_POLYNOMIAL
             R == e - 1 \in r
             S == e - 1 \in s
             Z == e = 0
             A == 31 \in r
             B == 31 \in s
             N == e \in 0 .. 31
  <2>1. e \in Brought(r, x) <=> N /\ ~((A /\ P) <=> (R \/ (Z /\ x)))
    BY BroughtIs
  <2>2. e \in Brought(s, y) <=> N /\ ~((B /\ P) <=> (S \/ (Z /\ y)))
    BY BroughtIs
  <2>3. /\ 31 \in Xor(r, s) <=> ~(A <=> B)
        /\ e - 1 \in Xor(r, s) <=> ~(R <=> S)
    BY XorIs
  <2>4. e \in Brought(Xor(r, s), ~(x <=> y)) <=>
          N /\ ~((~(A <=> B) /\ P) <=> (~(R <=> S) \/ (Z /\ ~(x <=> y))))
    BY <1>1, <2>3, BroughtIs
  <2>5. Z => ~R /\ ~S
    BY DEF Word
  <2>6. e \in Xor(Brought(r, x), Brought(s, y)) <=> ~(e \in Brought(r, x) <=> e \in Brought(s, y))
    BY XorIs
  <2> HIDE DEF P, R, S, Z, A, B, N
  <2>7. QED BY <2>1, <2>2, <2>4, <2>5, <2>6
<1>4. QED BY <1>2, <1>3, SameBits DEF Word

\* h has the remainders of a division of p by the polynomial.
Divides(p, n, h) ==
  h \in [0 .. n -> Word] /\ h[0] = {} /\ \A k \in 1 .. n : h[k] = Brought(h[k - 1], n - k \in p)

LEMMA Divisions ==
  ASSUME NEW p, NEW n \in Nat
  PROVE  \E h : Divides(p, n, h) /\ Remainder(p, n) = h[n]
<1> DEFINE turn == [k \in 1 .. n |-> [r \in Word |-> Brought(r, n - k \in p)]]
<1>1. ASSUME NEW k \in 1 .. n
      PROVE  [r \in Word |-> Brought(r, n - k \in p)] \in [Word -> Word]
  <2>1. (n - k \in p) \in BOOLEAN
    OBVIOUS
  <2>2. \A r \in Word : Brought(r, n - k \in p) \in Word
    BY <2>1, BroughtWord, Zenon
  <2>3. QED BY <2>2
<1>2. turn \in [1 .. n -> [Word -> Word]]
  BY <1>1
<1>3. {} \in Word
  BY DEF Word
<1>4. \A k \in 1 .. n : \A r \in Word : turn[k][r] = Brought(r, n - k \in p)
  OBVIOUS
<1>5. Remainder(p, n) = Loop(n, {}, turn)
  BY DEF Remainder
<1> HIDE DEF turn
<1>6. PICK h : Turned(Word, n, {}, turn, h) /\ Loop(n, {}, turn) = h[n]
  BY <1>2, <1>3, Loops
<1>7. h \in [0 .. n -> Word] /\ h[0] = {} /\ \A k \in 1 .. n : h[k] = turn[k][h[k - 1]]
  BY <1>6 DEF Turned
<1>8. \A k \in 1 .. n : k - 1 \in 0 .. n
  OBVIOUS
<1>9. Divides(p, n, h)
  BY <1>4, <1>7, <1>8 DEF Divides
<1>10. QED BY <1>5, <1>6, <1>9

\* Divisions that bring down the same coefficients have the same remainders.
LEMMA Alike ==
  ASSUME NEW p, NEW q, NEW n \in Nat, NEW m \in Nat, NEW i \in Nat, NEW h, NEW g,
         Divides(p, n, h), Divides(q, m + i, g), g[i] = {}, n <= m,
         \A k \in 1 .. n : (n - k \in p) <=> (m - k \in q)
  PROVE  g[i + n] = h[n]
<1> DEFINE T == {k \in Nat : k <= n => g[i + k] = h[k]}
<1>1. 0 \in T
  <2>1. i + 0 = i /\ h[0] = {}
    BY DEF Divides
  <2>2. g[i + 0] = h[0]
    BY <2>1
  <2>3. QED BY <2>2
<1>2. ASSUME NEW k \in Nat, k \in T PROVE k + 1 \in T
  <2> SUFFICES ASSUME k + 1 <= n PROVE g[i + (k + 1)] = h[k + 1]
    OBVIOUS
  <2>1. k + 1 \in 1 .. n /\ (k + 1) - 1 = k /\ i + (k + 1) \in 1 .. (m + i)
        /\ (i + (k + 1)) - 1 = i + k /\ (m + i) - (i + (k + 1)) = m - (k + 1)
    OBVIOUS
  <2>2. h[k + 1] = Brought(h[k], n - (k + 1) \in p)
    BY <2>1 DEF Divides
  <2>3. g[i + (k + 1)] = Brought(g[i + k], m - (k + 1) \in q)
    BY <2>1 DEF Divides
  <2>4. g[i + k] = h[k]
    BY <1>2
  <2>5. (n - (k + 1) \in p) = (m - (k + 1) \in q)
    BY <2>1
  <2>6. QED BY <2>2, <2>3, <2>4, <2>5
<1> HIDE DEF T
<1>3. Nat \subseteq T
  BY <1>1, <1>2, Upward
<1>4. QED BY <1>3 DEF T

\* The remainder of a sum is the sum of the remainders.
LEMMA Linear ==
  ASSUME NEW p, NEW q, NEW n \in Nat
  PROVE  Remainder(Xor(p, q), n) = Xor(Remainder(p, n), Remainder(q, n))
<1>1. PICK h : Divides(p, n, h) /\ Remainder(p, n) = h[n]
  BY Divisions
<1>2. PICK g : Divides(q, n, g) /\ Remainder(q, n) = g[n]
  BY Divisions
<1>3. PICK f : Divides(Xor(p, q), n, f) /\ Remainder(Xor(p, q), n) = f[n]
  BY Divisions
<1> DEFINE T == {k \in Nat : k <= n => f[k] = Xor(h[k], g[k])}
<1>4. 0 \in T
  BY <1>1, <1>2, <1>3 DEF Divides, Xor
<1>5. ASSUME NEW k \in Nat, k \in T PROVE k + 1 \in T
  <2> SUFFICES ASSUME k + 1 <= n PROVE f[k + 1] = Xor(h[k + 1], g[k + 1])
    OBVIOUS
  <2>1. k + 1 \in 1 .. n /\ (k + 1) - 1 = k /\ k \in 0 .. n
    OBVIOUS
  <2> DEFINE e == n - (k + 1)
             x == e \in p
             y == e \in q
  <2>2. h[k + 1] = Brought(h[k], x) /\ h[k] \in Word
    BY <1>1, <2>1 DEF Divides
  <2>3. g[k + 1] = Brought(g[k], y) /\ g[k] \in Word
    BY <1>2, <2>1 DEF Divides
  <2>4. f[k + 1] = Brought(f[k], e \in Xor(p, q))
    BY <1>3, <2>1 DEF Divides
  <2>5. x \in BOOLEAN /\ y \in BOOLEAN
    OBVIOUS
  <2>6. (e \in Xor(p, q)) = (~(x <=> y))
    BY XorIs
  <2>7. f[k] = Xor(h[k], g[k])
    BY <1>5
  <2> HIDE DEF e, x, y
  <2>8. Brought(Xor(h[k], g[k]), ~(x <=> y)) = Xor(Brought(h[k], x), Brought(g[k], y))
    BY <2>2, <2>3, <2>5, BroughtLinear
  <2>9. QED BY <2>2, <2>3, <2>4, <2>6, <2>7, <2>8
<1> HIDE DEF T
<1>6. Nat \subseteq T
  BY <1>4, <1>5, Upward
<1>7. f[n] = Xor(h[n], g[n])
  BY <1>6 DEF T
<1>8. QED BY <1>1, <1>2, <1>3, <1>7

\* Zeros in front change nothing.
LEMMA Leading ==
  ASSUME NEW p, NEW n \in Nat, NEW i \in Nat, \A e \in Nat : e >= n => e \notin p
  PROVE  Remainder(p, n + i) = Remainder(p, n)
<1>1. PICK h : Divides(p, n, h) /\ Remainder(p, n) = h[n]
  BY Divisions
<1>2. n + i \in Nat
  OBVIOUS
<1>3. PICK g : Divides(p, n + i, g) /\ Remainder(p, n + i) = g[n + i]
  BY <1>2, Divisions
<1> DEFINE T == {k \in Nat : k <= i => g[k] = {}}
<1>4. 0 \in T
  BY <1>3 DEF Divides
<1>5. ASSUME NEW k \in Nat, k \in T PROVE k + 1 \in T
  <2> SUFFICES ASSUME k + 1 <= i PROVE g[k + 1] = {}
    OBVIOUS
  <2>1. k + 1 \in 1 .. (n + i) /\ (k + 1) - 1 = k /\ (n + i) - (k + 1) \in Nat
        /\ (n + i) - (k + 1) >= n
    OBVIOUS
  <2>2. g[k + 1] = Brought(g[k], (n + i) - (k + 1) \in p)
    BY <1>3, <2>1 DEF Divides
  <2>3. g[k] = {} /\ ((n + i) - (k + 1) \in p) = FALSE
    BY <1>5, <2>1
  <2>4. Brought({}, FALSE) = {}
    BY DEF Brought, Reduced, Shl
  <2>5. QED BY <2>2, <2>3, <2>4
<1> HIDE DEF T
<1>6. Nat \subseteq T
  BY <1>4, <1>5, Upward
<1>7. g[i] = {}
  BY <1>6 DEF T
<1>8. g[i + n] = h[n]
  BY <1>1, <1>3, <1>7, Alike
<1>9. QED BY <1>1, <1>3, <1>8

\* A zero behind: one more coefficient is brought down.
LEMMA Behind ==
  ASSUME NEW p, p \subseteq Nat, NEW n \in Nat
  PROVE  /\ Remainder(Shl(p, 1), n + 1) = Brought(Remainder(p, n), FALSE)
         /\ Remainder(p, n) \in Word
<1>1. PICK h : Divides(p, n, h) /\ Remainder(p, n) = h[n]
  BY Divisions
<1>2. n + 1 \in Nat
  OBVIOUS
<1>3. PICK g : Divides(Shl(p, 1), n + 1, g) /\ Remainder(Shl(p, 1), n + 1) = g[n + 1]
  BY <1>2, Divisions
<1>4. \A k \in 1 .. n : (n - k \in p) <=> ((n + 1) - k \in Shl(p, 1))
  BY DEF Shl
<1>5. g[n] = h[n]
  <2>1. g[0] = {} /\ n <= n + 1 /\ (n + 1) + 0 = n + 1 /\ 0 + n = n /\ 0 \in Nat
    BY <1>3 DEF Divides
  <2>2. Divides(Shl(p, 1), (n + 1) + 0, g)
    BY <1>3, <2>1
  <2>3. g[0 + n] = h[n]
    BY <1>1, <1>2, <1>4, <2>1, <2>2, Alike
  <2>4. QED BY <2>1, <2>3
<1>6. n + 1 \in 1 .. (n + 1) /\ (n + 1) - 1 = n /\ (n + 1) - (n + 1) = 0
  OBVIOUS
<1>7. g[n + 1] = Brought(g[n], 0 \in Shl(p, 1))
  BY <1>3, <1>6 DEF Divides
<1>8. (0 \in Shl(p, 1)) = FALSE
  BY DEF Shl
<1>9. h[n] \in Word
  BY <1>1 DEF Divides
<1>10. QED BY <1>1, <1>3, <1>5, <1>7, <1>8, <1>9

\* A polynomial of a degree below 32 is its own remainder.
LEMMA Small == ASSUME NEW p \in Word PROVE Remainder(p, 32) = p
<1>1. PICK h : Divides(p, 32, h) /\ Remainder(p, 32) = h[32]
  BY Divisions
<1> DEFINE top(k) == {e \in 0 .. 31 : e + (32 - k) \in p}
           T == {k \in Nat : k <= 32 => h[k] = top(k)}
<1>2. 0 \in T
  BY <1>1 DEF Divides, Word
<1>3. ASSUME NEW k \in Nat, k \in T PROVE k + 1 \in T
  <2> SUFFICES ASSUME k + 1 <= 32 PROVE h[k + 1] = top(k + 1)
    OBVIOUS
  <2>1. k + 1 \in 1 .. 32 /\ (k + 1) - 1 = k /\ k \in 0 .. 32
    OBVIOUS
  <2>2. h[k + 1] = Brought(h[k], 32 - (k + 1) \in p)
    BY <1>1, <2>1 DEF Divides
  <2>3. h[k] = top(k) /\ top(k) \in Word
    BY <1>3 DEF Word
  <2>4. 31 \notin top(k)
    BY DEF Word
  <2> DEFINE one == 32 - (k + 1) \in p
  <2>5. one \in BOOLEAN
    OBVIOUS
  <2>6. ASSUME NEW e \in Int PROVE e \in Brought(top(k), one) <=> e \in top(k + 1)
    <3>1. e \in Brought(top(k), one) <=> e \in 0 .. 31 /\ (e - 1 \in top(k) \/ (e = 0 /\ one))
      <4> HIDE DEF top, one
      <4>1. QED BY <2>3, <2>4, <2>5, BroughtIs
    <3>2. e \in top(k + 1) <=> e \in 0 .. 31 /\ e + (32 - (k + 1)) \in p
      OBVIOUS
    <3>3. e \in 1 .. 31 => (e - 1 \in top(k) <=> (e - 1) + (32 - k) \in p)
      OBVIOUS
    <3>4. (e - 1) + (32 - k) = e + (32 - (k + 1))
      OBVIOUS
    <3>5. e = 0 => e - 1 \notin top(k) /\ (one <=> e + (32 - (k + 1)) \in p)
      OBVIOUS
    <3> HIDE DEF top, one
    <3>6. QED BY <3>1, <3>2, <3>3, <3>4, <3>5
  <2>7. top(k + 1) \in Word /\ Brought(top(k), one) \in Word
    <3>1. top(k + 1) \in Word
      BY DEF Word
    <3> HIDE DEF top, one
    <3>2. QED BY <2>3, <2>5, <3>1, BroughtWord
  <2>8. Brought(top(k), one) = top(k + 1)
    <3> HIDE DEF top, one
    <3>1. QED BY <2>6, <2>7 DEF Word
  <2>9. QED BY <2>2, <2>3, <2>8
<1>4. Nat \subseteq T
  <2> HIDE DEF T
  <2>1. QED BY <1>2, <1>3, Upward
<1>5. h[32] = top(32)
  BY <1>4
<1>6. top(32) = p
  <2>1. p \subseteq Int /\ top(32) \subseteq Int /\ \A e \in p : e \in 0 .. 31
    BY DEF Word
  <2>2. ASSUME NEW e \in Int PROVE e \in top(32) <=> e \in p
    <3>1. e + (32 - 32) = e
      OBVIOUS
    <3>2. QED BY <2>1, <3>1
  <2> HIDE DEF top
  <2>3. QED BY <2>1, <2>2
<1>7. QED BY <1>1, <1>5, <1>6

----------------------------------------------------------------------------
(***************************************************************************)
(* The table and the checksum.                                             *)
(***************************************************************************)
LEMMA XorShl == ASSUME NEW p, NEW q, p \subseteq Nat, q \subseteq Nat, NEW k \in Nat
                PROVE  Shl(Xor(p, q), k) = Xor(Shl(p, k), Shl(q, k)) /\ Xor(p, q) \subseteq Nat
<1>1. Xor(p, q) \subseteq Nat /\ Xor(Shl(p, k), Shl(q, k)) \subseteq Nat
  BY ShlInt DEF Xor
<1>2. Shl(Xor(p, q), k) \subseteq Nat
  BY <1>1, ShlInt
<1>3. ASSUME NEW e \in Int PROVE e \in Shl(Xor(p, q), k) <=> e \in Xor(Shl(p, k), Shl(q, k))
  <2>1. p \subseteq Int /\ q \subseteq Int /\ Xor(p, q) \subseteq Int /\ k \in Int /\ e - k \in Int
    BY <1>1
  <2>2. e \in Shl(Xor(p, q), k) <=> e - k \in Xor(p, q)
    BY <2>1, ShlIs
  <2>3. (e \in Shl(p, k) <=> e - k \in p) /\ (e \in Shl(q, k) <=> e - k \in q)
    BY <2>1, ShlIs
  <2>4. QED BY <2>2, <2>3, XorIs
<1>4. QED BY <1>1, <1>2, <1>3, SameBits

LEMMA ShlShl == ASSUME NEW p, p \subseteq Nat, NEW i \in Nat, NEW j \in Nat
                PROVE  Shl(Shl(p, i), j) = Shl(p, i + j)
<1>0. i + j \in Nat
  OBVIOUS
<1>1. Shl(p, i) \subseteq Nat /\ Shl(Shl(p, i), j) \subseteq Nat /\ Shl(p, i + j) \subseteq Nat
  BY <1>0, ShlInt, Zenon
<1>2. ASSUME NEW e \in Int PROVE e \in Shl(Shl(p, i), j) <=> e \in Shl(p, i + j)
  <2>1. p \subseteq Int /\ Shl(p, i) \subseteq Int /\ e - j \in Int /\ (e - j) - i = e - (i + j)
        /\ i \in Int /\ j \in Int /\ i + j \in Int
    BY <1>1
  <2>2. e \in Shl(Shl(p, i), j) <=> e - j \in Shl(p, i)
    BY <2>1, ShlIs
  <2>3. e - j \in Shl(p, i) <=> (e - j) - i \in p
    BY <2>1, ShlIs
  <2>4. e \in Shl(p, i + j) <=> e - (i + j) \in p
    BY <2>1, ShlIs
  <2>5. QED BY <2>1, <2>2, <2>3, <2>4
<1>3. QED BY <1>1, <1>2, SameBits

\* Eight zeros behind.
Zero(r) == Brought(r, FALSE)
Eight(r) == Zero(Zero(Zero(Zero(Zero(Zero(Zero(Zero(r))))))))

LEMMA EightBehind ==
  ASSUME NEW p, p \subseteq Nat, NEW n \in Nat
  PROVE  Remainder(Shl(p, 8), n + 8) = Eight(Remainder(p, n))
<1> DEFINE R(i) == Remainder(Shl(p, i), n + i)
<1>1. ASSUME NEW i \in Nat PROVE R(i + 1) = Zero(R(i))
  <2>0. Shl(p, i) \subseteq Nat
    BY ShlInt, Zenon
  <2>1. Shl(p, i) \subseteq Nat /\ n + i \in Nat /\ (n + i) + 1 = n + (i + 1) /\ 1 \in Nat
    BY <2>0
  <2>2. Shl(Shl(p, i), 1) = Shl(p, i + 1)
    BY <2>1, ShlShl, Zenon
  <2>3. Remainder(Shl(Shl(p, i), 1), (n + i) + 1) = Brought(Remainder(Shl(p, i), n + i), FALSE)
    BY <2>1, Behind
  <2>4. QED BY <2>1, <2>2, <2>3 DEF Zero
<1>2. R(0) = Remainder(p, n)
  <2>1. n + 0 = n
    OBVIOUS
  <2>3. Shl(p, 0) \subseteq Int /\ p \subseteq Int
    BY DEF Shl
  <2>4. \A e \in Int : e \in Shl(p, 0) <=> e \in p
    BY DEF Shl
  <2>5. Shl(p, 0) = p
    BY <2>3, <2>4, SameBits
  <2>2. QED BY <2>1, <2>5
<1> HIDE DEF R
<1>3. /\ R(1) = Zero(R(0)) /\ R(2) = Zero(R(1)) /\ R(3) = Zero(R(2)) /\ R(4) = Zero(R(3))
      /\ R(5) = Zero(R(4)) /\ R(6) = Zero(R(5)) /\ R(7) = Zero(R(6)) /\ R(8) = Zero(R(7))
  <2>1. /\ 0 + 1 = 1 /\ 1 + 1 = 2 /\ 2 + 1 = 3 /\ 3 + 1 = 4 /\ 4 + 1 = 5 /\ 5 + 1 = 6
        /\ 6 + 1 = 7 /\ 7 + 1 = 8
    OBVIOUS
  <2>2. /\ R(0 + 1) = Zero(R(0)) /\ R(1 + 1) = Zero(R(1)) /\ R(2 + 1) = Zero(R(2))
        /\ R(3 + 1) = Zero(R(3)) /\ R(4 + 1) = Zero(R(4)) /\ R(5 + 1) = Zero(R(5))
        /\ R(6 + 1) = Zero(R(6)) /\ R(7 + 1) = Zero(R(7))
    BY <1>1
  <2>3. QED BY <2>1, <2>2
<1>4. R(8) = Eight(Remainder(p, n))
  BY <1>2, <1>3 DEF Eight
<1>5. QED BY <1>4 DEF R

LEMMA TableIs == ASSUME NEW b \in Byte
                 PROVE  Table[b] = Remainder(Shl(b, 32), 40) /\ Table[b] \in Word
<1>1. Table[b] = Remainder(Shl(b, 32), 40)
  BY TableAssumption
<1>2. Shl(b, 32) \subseteq Nat
  BY DEF Byte, Shl
<1>3. QED BY <1>1, <1>2, Behind

LEMMA XorAC == ASSUME NEW p, NEW q, NEW r
               PROVE  /\ Xor(p, Xor(q, r)) = Xor(Xor(q, p), r)
                      /\ Xor(Xor(p, q), r) = Xor(p, Xor(q, r))
                      /\ Xor(p, q) = Xor(q, p)
<1>1. \A e : e \in Xor(p, Xor(q, r)) <=> e \in Xor(Xor(q, p), r)
  BY XorIs
<1>2. \A e : e \in Xor(Xor(p, q), r) <=> e \in Xor(p, Xor(q, r))
  BY XorIs
<1>3. \A e : e \in Xor(p, q) <=> e \in Xor(q, p)
  BY XorIs
<1>4. QED BY <1>1, <1>2, <1>3

\* A turn of calculate_crc32: the checksum so far, moved up by a byte, and the
\* byte behind which 32 bits follow.
LEMMA NextIs ==
  ASSUME NEW crc \in Word, NEW byte \in Byte
  PROVE  NextCrc(crc, byte) = Xor(Eight(crc), Table[byte]) /\ NextCrc(crc, byte) \in Word
<1> DEFINE hi == Shr(crc, 24)
           lo == {e \in crc : e < 24}
           up == Shl(lo, 8)
<1>1. crc \subseteq Nat /\ byte \subseteq Nat /\ hi \subseteq Nat /\ lo \subseteq Nat /\ hi \in Byte
  <2>1. crc \subseteq Nat
    BY DEF Word
  <2>2. byte \subseteq Nat
    BY DEF Byte
  <2>3. hi \subseteq 0 .. 7
    BY DEF Word, Shr
  <2>4. lo \subseteq Nat
    BY <2>1
  <2> HIDE DEF hi, lo
  <2>5. hi \subseteq Nat
    BY <2>3
  <2>6. hi \in Byte
    BY <2>3 DEF Byte
  <2>7. QED BY <2>1, <2>2, <2>4, <2>5, <2>6
<1>2. crc = Xor(Shl(hi, 24), lo)
  <2>1. \A e \in Int : e \in hi <=> e + 24 \in crc /\ e >= 0
    BY DEF Shr, Word
  <2>2. \A e \in Int : e \in Shl(hi, 24) <=> e \in crc /\ e >= 24
    <3>1. \A e \in Int : e \in Shl(hi, 24) <=> e - 24 \in hi
      BY <1>1, ShlIs
    <3>2. \A e \in Int : e - 24 \in Int /\ (e - 24) + 24 = e
      OBVIOUS
    <3> HIDE DEF hi
    <3>3. QED BY <2>1, <3>1, <3>2
  <2>3. \A e \in Int : e \in lo <=> e \in crc /\ e < 24
    OBVIOUS
  <2>4. Shl(hi, 24) \subseteq Nat
    BY <1>1, ShlInt
  <2> HIDE DEF hi, lo
  <2>8. Nat \subseteq Int
    OBVIOUS
  <2>5. Xor(Shl(hi, 24), lo) \subseteq Int /\ crc \subseteq Int
    BY <1>1, <2>4, <2>8, Zenon DEF Xor
  <2>6. \A e \in Int : e \in crc <=> e \in Xor(Shl(hi, 24), lo)
    BY <2>2, <2>3, XorIs
  <2>7. QED BY <2>5, <2>6, SameBits
<1>3. up = Shl(crc, 8) \cap 0 .. 31
  BY DEF Shl, Word
<1>4. up \in Word /\ up \subseteq Nat /\ \A e \in Nat : e >= 32 => e \notin up
  BY DEF Shl, Word
<1> HIDE DEF hi, lo, up
<1>5. Shl(crc, 8) = Xor(Shl(hi, 32), up)
  <2>0. 24 + 8 = 32 /\ 24 \in Nat /\ 8 \in Nat
    OBVIOUS
  <2>1. Shl(hi, 24) \subseteq Nat
    BY <1>1, <2>0, ShlInt, Zenon
  <2>2. Shl(Xor(Shl(hi, 24), lo), 8) = Xor(Shl(Shl(hi, 24), 8), Shl(lo, 8))
    <3> DEFINE top == Shl(hi, 24)
    <3>1. top \subseteq Nat /\ lo \subseteq Nat
      BY <1>1, <2>1
    <3>4. 8 \in Nat
      OBVIOUS
    <3> HIDE DEF top
    <3>2. Shl(Xor(top, lo), 8) = Xor(Shl(top, 8), Shl(lo, 8))
      BY <3>1, <3>4, XorShl, Zenon
    <3>3. QED BY <3>2 DEF top
  <2>3. Shl(Shl(hi, 24), 8) = Shl(hi, 24 + 8)
    BY <1>1, <2>0, ShlShl, Zenon
  <2>4. QED BY <1>2, <2>0, <2>2, <2>3 DEF up
<1>6. Eight(crc) = Xor(Table[hi], up)
  <2>1. Eight(Remainder(crc, 32)) = Remainder(Shl(crc, 8), 32 + 8)
    BY <1>1, EightBehind
  <2>2. Remainder(crc, 32) = crc /\ Remainder(up, 32) = up
    BY <1>4, Small
  <2>3. Remainder(up, 32 + 8) = Remainder(up, 32)
    BY <1>4, Leading
  <2>4. Remainder(Xor(Shl(hi, 32), up), 40) = Xor(Remainder(Shl(hi, 32), 40), Remainder(up, 40))
    BY Linear
  <2>5. 32 + 8 = 40
    OBVIOUS
  <2>6. Table[hi] = Remainder(Shl(hi, 32), 40)
    BY <1>1, TableIs
  <2>7. QED BY <1>5, <2>1, <2>2, <2>3, <2>4, <2>5, <2>6
<1>7. Xor(hi, byte) \in Byte
  BY <1>1 DEF Byte, Xor
<1>8. Table[Xor(hi, byte)] = Xor(Table[hi], Table[byte])
  <2>1. Table[Xor(hi, byte)] = Remainder(Shl(Xor(hi, byte), 32), 40)
    BY <1>7, TableIs
  <2>2. Shl(Xor(hi, byte), 32) = Xor(Shl(hi, 32), Shl(byte, 32))
    <3>1. 32 \in Nat
      OBVIOUS
    <3>2. QED BY <1>1, <3>1, XorShl, Zenon
  <2>3. Table[hi] = Remainder(Shl(hi, 32), 40) /\ Table[byte] = Remainder(Shl(byte, 32), 40)
    BY <1>1, TableIs
  <2>4. QED BY <2>1, <2>2, <2>3, Linear
<1>9. NextCrc(crc, byte) = Xor(up, Xor(Table[hi], Table[byte]))
  BY <1>3, <1>8 DEF NextCrc, Index, hi
<1>10. Xor(up, Xor(Table[hi], Table[byte])) = Xor(Xor(Table[hi], up), Table[byte])
  BY XorAC
<1>11. Table[hi] \in Word /\ Table[byte] \in Word
  BY <1>1, TableIs
<1>12. Xor(up, Xor(Table[hi], Table[byte])) \in Word
  BY <1>4, <1>11, XorWord
<1>13. QED BY <1>6, <1>9, <1>10, <1>12

\* A byte more: what is divided moves up by a byte, and the byte is added where
\* 32 bits follow it.
LEMMA Extended ==
  ASSUME NEW p, p \subseteq Nat, NEW b, b \subseteq Nat, NEW f, f \subseteq Nat
  PROVE  Xor(Shl(Xor(Shl(p, 8), b), 32), Shl(f, 8)) = Xor(Shl(Xor(Shl(p, 32), f), 8), Shl(b, 32))
<1> DEFINE p8 == Shl(p, 8)
           q == Xor(p8, b)
           u == Xor(Shl(p, 32), f)
           x == Xor(Shl(q, 32), Shl(f, 8))
           y == Xor(Shl(u, 8), Shl(b, 32))
<1>1. \A z : z \subseteq Nat => Shl(z, 8) \subseteq Nat /\ Shl(z, 32) \subseteq Nat
  BY DEF Shl
<1>2. \A z, w : z \subseteq Nat /\ w \subseteq Nat => Xor(z, w) \subseteq Nat
  BY Zenon DEF Xor
<1>3. p8 \subseteq Nat /\ q \subseteq Nat /\ u \subseteq Nat
  BY <1>1, <1>2, Zenon
<1>4. x \subseteq Nat /\ y \subseteq Nat
  <2> HIDE DEF p8, q, u
  <2>1. Shl(q, 32) \subseteq Nat /\ Shl(f, 8) \subseteq Nat /\ Shl(u, 8) \subseteq Nat /\ Shl(b, 32) \subseteq Nat
    BY <1>1, <1>3, Zenon
  <2>2. QED BY <1>2, <2>1, Zenon
<1>5. \A z : z \subseteq Nat => \A e \in Int : /\ e \in Shl(z, 8) <=> e - 8 \in z
                                               /\ e \in Shl(z, 32) <=> e - 32 \in z
  BY DEF Shl
<1>6. ASSUME NEW e \in Int PROVE e \in x <=> e \in y
  <2>1. e - 8 \in Int /\ e - 32 \in Int /\ (e - 8) - 32 = (e - 32) - 8
    OBVIOUS
  <2>2. e \in x <=> ~(e \in Shl(q, 32) <=> e \in Shl(f, 8))
    BY XorIs
  <2>3. e \in y <=> ~(e \in Shl(u, 8) <=> e \in Shl(b, 32))
    BY XorIs
  <2>4. e - 32 \in q <=> ~(e - 32 \in p8 <=> e - 32 \in b)
    BY XorIs
  <2>5. e - 8 \in u <=> ~(e - 8 \in Shl(p, 32) <=> e - 8 \in f)
    BY XorIs
  <2>6. e - 32 \in p8 <=> (e - 32) - 8 \in p
    BY <1>5, <2>1, Zenon
  <2>7. e - 8 \in Shl(p, 32) <=> (e - 8) - 32 \in p
    BY <1>5, <2>1, Zenon
  <2> HIDE DEF p8, q, u, x, y
  <2>8. /\ e \in Shl(q, 32) <=> e - 32 \in q
        /\ e \in Shl(f, 8) <=> e - 8 \in f
        /\ e \in Shl(u, 8) <=> e - 8 \in u
        /\ e \in Shl(b, 32) <=> e - 32 \in b
    BY <1>3, <1>5, Zenon
  <2>9. QED BY <2>1, <2>2, <2>3, <2>4, <2>5, <2>6, <2>7, <2>8
<1>7. x = y
  <2> HIDE DEF x, y
  <2>1. Nat \subseteq Int
    OBVIOUS
  <2>2. x \subseteq Int /\ y \subseteq Int
    BY <1>4, <2>1, Zenon
  <2>3. QED BY <1>6, <2>2, SameBits, Zenon
<1>8. QED BY <1>7

\* The first k bytes as a polynomial, and what the checksum divides for them.
ReadSoFar(data, k) == UNION {Shl(data[j], 8 * (k - j)) : j \in 1 .. k}
Dividend(data, k) == Xor(Shl(ReadSoFar(data, k), 32), Shl(0 .. 31, 8 * k))

LEMMA ReadSoFarIs ==
  ASSUME NEW data \in Seq(Byte), NEW k \in 0 .. Len(data)
  PROVE  /\ ReadSoFar(data, k) \subseteq Nat
         /\ \A e \in Int : e \in ReadSoFar(data, k) <=> \E j \in 1 .. k : e - 8 * (k - j) \in data[j]
         /\ \A j \in 1 .. k : data[j] \in Byte
<1>1. ASSUME NEW j \in 1 .. k
      PROVE  /\ data[j] \in Byte /\ data[j] \subseteq Nat
             /\ 8 * (k - j) \in Nat
  <2>1. j \in 1 .. Len(data)
    OBVIOUS
  <2>2. data[j] \in Byte
    BY <2>1
  <2>3. data[j] \subseteq Nat
    BY <2>2 DEF Byte
  <2>4. QED BY <2>2, <2>3
<1>2. ASSUME NEW j \in 1 .. k
      PROVE  /\ Shl(data[j], 8 * (k - j)) \subseteq Nat
             /\ \A e \in Int : e \in Shl(data[j], 8 * (k - j)) <=> e - 8 * (k - j) \in data[j]
  <2> DEFINE d == 8 * (k - j)
             b == data[j]
  <2>1. d \in Nat /\ b \subseteq Nat
    BY <1>1
  <2> HIDE DEF d, b
  <2>2. Shl(b, d) \subseteq Nat /\ \A e \in Int : e \in Shl(b, d) <=> e - d \in b
    BY <2>1 DEF Shl
  <2>3. QED BY <2>2 DEF d, b
<1>3. ReadSoFar(data, k) \subseteq Nat
  BY <1>2, Zenon DEF ReadSoFar
<1>4. \A e : e \in ReadSoFar(data, k) <=> \E j \in 1 .. k : e \in Shl(data[j], 8 * (k - j))
  BY Zenon DEF ReadSoFar
<1>5. QED BY <1>1, <1>2, <1>3, <1>4, Zenon

LEMMA ReadSoFarNext ==
  ASSUME NEW data \in Seq(Byte), NEW k \in 0 .. (Len(data) - 1)
  PROVE  ReadSoFar(data, k + 1) = Xor(Shl(ReadSoFar(data, k), 8), data[k + 1])
<1> DEFINE p == ReadSoFar(data, k)
           q == ReadSoFar(data, k + 1)
           b == data[k + 1]
<1>0. k \in 0 .. Len(data) /\ k + 1 \in 0 .. Len(data) /\ k + 1 \in 1 .. (k + 1)
  OBVIOUS
<1>1. /\ p \subseteq Nat
      /\ \A e \in Int : e \in p <=> \E j \in 1 .. k : e - 8 * (k - j) \in data[j]
  BY <1>0, ReadSoFarIs
<1>2. /\ q \subseteq Nat
      /\ \A e \in Int : e \in q <=> \E j \in 1 .. (k + 1) : e - 8 * ((k + 1) - j) \in data[j]
      /\ b \in Byte
  BY <1>0, ReadSoFarIs
<1>3. b \subseteq 0 .. 7
  BY <1>2 DEF Byte
<1> HIDE DEF p, q
<1>4. /\ Shl(p, 8) \subseteq Nat
      /\ \A e \in Int : e \in Shl(p, 8) <=> e - 8 \in p
  <2>1. p \subseteq Nat /\ p \subseteq Int
    BY <1>1
  <2>2. 8 \in Nat /\ 8 \in Int
    OBVIOUS
  <2>3. Shl(p, 8) \subseteq Nat
    BY <2>1, <2>2, ShlInt
  <2>4. \A e \in Int : e \in Shl(p, 8) <=> e - 8 \in p
    BY <2>1, <2>2, ShlIs
  <2>5. QED BY <2>3, <2>4
<1>5. ASSUME NEW e \in Int PROVE e \in q <=> e \in Shl(p, 8) \/ e \in b
  <2>1. \A j \in 1 .. k : (e - 8) - 8 * (k - j) = e - 8 * ((k + 1) - j) /\ j \in 1 .. (k + 1)
    OBVIOUS
  <2>2. e - 8 * ((k + 1) - (k + 1)) = e /\ e - 8 \in Int
    OBVIOUS
  <2>3. \A j \in 1 .. (k + 1) : j = k + 1 \/ j \in 1 .. k
    OBVIOUS
  <2>4. e - 8 \in p <=> \E j \in 1 .. k : e - 8 * ((k + 1) - j) \in data[j]
    BY <1>1, <2>1, <2>2
  <2>5. (\E j \in 1 .. (k + 1) : e - 8 * ((k + 1) - j) \in data[j]) <=>
          (e \in b \/ \E j \in 1 .. k : e - 8 * ((k + 1) - j) \in data[j])
    BY <1>0, <2>1, <2>2, <2>3
  <2>6. QED BY <1>2, <1>4, <2>4, <2>5
<1>6. ASSUME NEW e \in Int PROVE ~(e \in Shl(p, 8) /\ e \in b)
  <2>1. e \in Shl(p, 8) => e - 8 \in Nat
    BY <1>1, <1>4, Zenon
  <2>2. e \in b => e \in 0 .. 7
    BY <1>3, Zenon
  <2>3. QED BY <2>1, <2>2
<1> HIDE DEF b
<1>7. \A e \in Int : e \in q <=> e \in Xor(Shl(p, 8), b)
  BY <1>5, <1>6, XorIs
<1>8. q \subseteq Int /\ b \subseteq Int /\ Shl(p, 8) \subseteq Int
  BY <1>2, <1>3, <1>4
<1>9. Xor(Shl(p, 8), b) \subseteq Int
  BY <1>8, Zenon DEF Xor
<1>10. q = Xor(Shl(p, 8), b)
  BY <1>7, <1>8, <1>9, SameBits
<1>11. QED BY <1>10 DEF p, q, b

\* The checksum so far is the remainder of what has been read.
LEMMA DividendNext ==
  ASSUME NEW data \in Seq(Byte), NEW k \in 0 .. (Len(data) - 1)
  PROVE  Remainder(Dividend(data, k + 1), 8 * (k + 1) + 32) =
           Xor(Eight(Remainder(Dividend(data, k), 8 * k + 32)), Table[data[k + 1]])
<1> DEFINE p == ReadSoFar(data, k)
           b == data[k + 1]
           f == Shl(0 .. 31, 8 * k)
           d == Xor(Shl(p, 32), f)
           n == 8 * k + 32
<1>1. /\ k \in 0 .. Len(data) /\ k + 1 \in 1 .. (k + 1) /\ k + 1 \in 0 .. Len(data) /\ n \in Nat
      /\ n + 8 = 8 * (k + 1) + 32 /\ 8 * k \in Nat /\ 8 \in Nat /\ 32 \in Nat
      /\ 8 * k + 8 = 8 * (k + 1) /\ 40 + 8 * k = n + 8 /\ 40 \in Nat
  OBVIOUS
<1>2. p \subseteq Nat /\ b \in Byte
  BY <1>1, ReadSoFarIs
<1>3. 0 .. 31 \subseteq Nat
  OBVIOUS
<1>4. b \subseteq Nat
  BY <1>2 DEF Byte
<1>5. f \subseteq Nat /\ Shl(f, 8) = Shl(0 .. 31, 8 * (k + 1))
  <2>1. f \subseteq Nat
    BY <1>1, <1>3, ShlInt, Zenon
  <2>2. Shl(f, 8) = Shl(0 .. 31, 8 * k + 8)
    BY <1>1, <1>3, ShlShl, Zenon
  <2>3. QED BY <1>1, <2>1, <2>2
<1>6. ReadSoFar(data, k + 1) = Xor(Shl(p, 8), b)
  BY ReadSoFarNext
<1>7. Dividend(data, k + 1) = Xor(Shl(Xor(Shl(p, 8), b), 32), Shl(f, 8))
  <2> HIDE DEF p, b, f
  <2>1. QED BY <1>5, <1>6 DEF Dividend
<1>8. Dividend(data, k) = d
  BY DEF Dividend
<1> HIDE DEF p, b, f
<1>9. Dividend(data, k + 1) = Xor(Shl(d, 8), Shl(b, 32))
  BY <1>2, <1>4, <1>5, <1>7, Extended
<1>10. d \subseteq Nat
  <2>1. Shl(p, 32) \subseteq Nat
    BY <1>1, <1>2, ShlInt, Zenon
  <2>2. QED BY <1>5, <2>1, Zenon DEF Xor
<1> HIDE DEF d, n
<1>11. Remainder(Shl(d, 8), n + 8) = Eight(Remainder(d, n))
  BY <1>1, <1>10, EightBehind, Zenon
<1>12. Remainder(Shl(b, 32), n + 8) = Table[b]
  <2>1. \A e \in Nat : e >= 40 => e \notin Shl(b, 32)
    BY <1>2 DEF Shl, Byte
  <2>2. Remainder(Shl(b, 32), 40 + 8 * k) = Remainder(Shl(b, 32), 40)
    BY <1>1, <2>1, Leading, Zenon
  <2>3. Table[b] = Remainder(Shl(b, 32), 40)
    BY <1>2, TableIs, Zenon
  <2>4. QED BY <1>1, <2>2, <2>3
<1>13. n + 8 \in Nat
  BY <1>1
<1>14. Remainder(Xor(Shl(d, 8), Shl(b, 32)), n + 8) = Xor(Remainder(Shl(d, 8), n + 8), Remainder(Shl(b, 32), n + 8))
  BY <1>13, Linear, Zenon
<1>15. Remainder(Dividend(data, k + 1), n + 8) = Xor(Eight(Remainder(d, n)), Table[b])
  BY <1>9, <1>11, <1>12, <1>14
<1>16. QED BY <1>1, <1>8, <1>15 DEF n, b

\* calculate_crc32 computes the remainder.
LEMMA CrcIs ==
  ASSUME NEW data \in Seq(Byte)
  PROVE  /\ calculate_crc32(data) = Remainder(Dividend(data, Len(data)), 8 * Len(data) + 32)
         /\ calculate_crc32(data) \in Word
<1> DEFINE n == Len(data)
           turn == [k \in 1 .. n |-> [crc \in Word |-> NextCrc(crc, data[k])]]
<1>0. n \in Nat /\ \A k \in 1 .. n : data[k] \in Byte
  OBVIOUS
<1>1. turn \in [1 .. n -> [Word -> Word]]
  <2>1. ASSUME NEW k \in 1 .. n PROVE [crc \in Word |-> NextCrc(crc, data[k])] \in [Word -> Word]
    <3>1. \A crc \in Word : NextCrc(crc, data[k]) \in Word
      BY <1>0, NextIs, Zenon
    <3>2. QED BY <3>1
  <2>2. QED BY <2>1
<1>2. \A k \in 1 .. n : \A crc \in Word : turn[k][crc] = NextCrc(crc, data[k])
  OBVIOUS
<1>3. calculate_crc32(data) = Loop(n, 0 .. 31, turn)
  BY DEF calculate_crc32
<1>4. 0 .. 31 \in Word
  BY DEF Word
<1> HIDE DEF turn, n
<1>5. PICK h : Turned(Word, n, 0 .. 31, turn, h) /\ Loop(n, 0 .. 31, turn) = h[n]
  BY <1>0, <1>1, <1>4, Loops
<1>6. h \in [0 .. n -> Word] /\ h[0] = 0 .. 31 /\ \A k \in 1 .. n : h[k] = turn[k][h[k - 1]]
  BY <1>5 DEF Turned
<1> DEFINE R(k) == Remainder(Dividend(data, k), 8 * k + 32)
           T == {k \in Nat : k <= n => h[k] = R(k)}
<1>7. 0 \in T
  <2>1. ReadSoFar(data, 0) = {}
    BY DEF ReadSoFar
  <2>2. Shl(0 .. 31, 8 * 0) = 0 .. 31
    <3>0. 8 * 0 = 0 /\ 0 .. 31 \subseteq Int
      OBVIOUS
    <3>4. 0 .. 31 \subseteq Nat /\ 0 \in Nat /\ Nat \subseteq Int
      OBVIOUS
    <3>1. Shl(0 .. 31, 0) \subseteq Int
      BY <3>4, ShlInt, Zenon
    <3>2. \A e \in Int : e \in Shl(0 .. 31, 0) <=> e \in 0 .. 31
      BY DEF Shl
    <3>3. QED BY <3>0, <3>1, <3>2, SameBits
  <2>3. Shl({}, 32) = {}
    BY DEF Shl
  <2>4. Dividend(data, 0) = 0 .. 31
    BY <2>1, <2>2, <2>3 DEF Dividend, Xor
  <2>5. 8 * 0 + 32 = 32
    OBVIOUS
  <2>6. R(0) = 0 .. 31
    BY <1>4, <2>4, <2>5, Small
  <2> HIDE DEF R
  <2>7. QED BY <1>6, <2>6
<1>8. ASSUME NEW k \in Nat, k \in T PROVE k + 1 \in T
  <2> SUFFICES ASSUME k + 1 <= n PROVE h[k + 1] = R(k + 1)
    OBVIOUS
  <2>1. k \in 0 .. (n - 1) /\ k + 1 \in 1 .. n /\ (k + 1) - 1 = k /\ k \in 0 .. n
    BY <1>0
  <2>2. h[k] = R(k) /\ h[k] \in Word
    BY <1>6, <1>8, <2>1
  <2>3. h[k + 1] = NextCrc(h[k], data[k + 1])
    BY <1>2, <1>6, <2>1, <2>2
  <2>4. NextCrc(h[k], data[k + 1]) = Xor(Eight(h[k]), Table[data[k + 1]])
    BY <1>0, <2>1, <2>2, NextIs
  <2>5. R(k + 1) = Xor(Eight(R(k)), Table[data[k + 1]])
    BY <2>1, DividendNext DEF n
  <2> HIDE DEF R
  <2>6. QED BY <2>2, <2>3, <2>4, <2>5
<1>9. Nat \subseteq T
  <2> HIDE DEF T
  <2>1. QED BY <1>7, <1>8, Upward
<1>10. h[n] = R(n) /\ h[n] \in Word
  BY <1>0, <1>6, <1>9
<1>11. QED BY <1>3, <1>5, <1>10 DEF n

\* The four bytes of a word, lowest first, and read back.
LEMMA BytesIs ==
  ASSUME NEW w \in Word, NEW out, out = [j \in 1 .. 4 |-> Shr(w, 8 * (j - 1)) \cap 0 .. 7]
  PROVE  Polynomial(Reverse(out)) = w
<1> DEFINE back == Reverse(out)
<1>1. Len(out) = 4
  OBVIOUS
<1>2. back = [j \in 1 .. 4 |-> out[(4 - j) + 1]]
  BY <1>1 DEF Reverse
<1>3. Len(back) = 4 /\ DOMAIN back = 1 .. 4
  BY <1>2
<1>4. ASSUME NEW j \in 1 .. 4
      PROVE  Shl(back[j], 8 * (4 - j)) = {e \in w : 8 * (4 - j) <= e /\ e < 8 * (4 - j) + 8}
  <2> DEFINE d == 8 * (4 - j)
             b == back[j]
  <2>1. (4 - j) + 1 \in 1 .. 4 /\ 8 * (((4 - j) + 1) - 1) = d /\ d \in Nat
    OBVIOUS
  <2>2. b = Shr(w, d) \cap 0 .. 7
    BY <1>2, <2>1
  <2> HIDE DEF d, b
  <2>3. \A e \in Int : e \in Shr(w, d) <=> e + d \in w /\ e >= 0
    BY <2>1 DEF Shr, Word
  <2>4. b \subseteq Int /\ \A e \in Int : e \in b <=> e + d \in w /\ e \in 0 .. 7
    BY <2>2, <2>3
  <2>5. \A e \in Int : e \in Shl(b, d) <=> e - d \in b
    BY <2>1, <2>4 DEF Shl
  <2>6. Shl(b, d) \subseteq Int
    BY <2>1, <2>4 DEF Shl
  <2>7. {e \in w : d <= e /\ e < d + 8} \subseteq Int
    <3>1. w \subseteq Int
      BY DEF Word
    <3>2. QED BY <3>1, Zenon
  <2>8. ASSUME NEW e \in Int PROVE e \in Shl(b, d) <=> e \in w /\ d <= e /\ e < d + 8
    <3>1. e - d \in Int /\ (e - d) + d = e /\ (e - d \in 0 .. 7 <=> d <= e /\ e < d + 8)
      BY <2>1
    <3>2. QED BY <2>4, <2>5, <3>1
  <2>9. Shl(b, d) = {e \in w : d <= e /\ e < d + 8}
    BY <2>6, <2>7, <2>8, SameBits
  <2>10. QED BY <2>9 DEF b, d
<1>5. Polynomial(back) = UNION {Shl(back[j], 8 * (4 - j)) : j \in 1 .. 4}
  BY <1>3 DEF Polynomial
<1> HIDE DEF back
<1>6. \A e : e \in Polynomial(back) <=> \E j \in 1 .. 4 : e \in Shl(back[j], 8 * (4 - j))
  BY <1>5, Zenon
<1>7. \A e : e \in Polynomial(back) => e \in w
  BY <1>4, <1>6
<1>8. ASSUME NEW e \in w PROVE e \in Polynomial(back)
  <2>1. e \in 0 .. 31
    BY DEF Word
  <2>2. \E j \in 1 .. 4 : 8 * (4 - j) <= e /\ e < 8 * (4 - j) + 8
    <3>1. CASE e < 8
      <4>1. 4 \in 1 .. 4 /\ 8 * (4 - 4) <= e /\ e < 8 * (4 - 4) + 8
        BY <2>1, <3>1
      <4>2. QED BY <4>1, Zenon
    <3>2. CASE 8 <= e /\ e < 16
      <4>1. 3 \in 1 .. 4 /\ 8 * (4 - 3) <= e /\ e < 8 * (4 - 3) + 8
        BY <2>1, <3>2
      <4>2. QED BY <4>1, Zenon
    <3>3. CASE 16 <= e /\ e < 24
      <4>1. 2 \in 1 .. 4 /\ 8 * (4 - 2) <= e /\ e < 8 * (4 - 2) + 8
        BY <2>1, <3>3
      <4>2. QED BY <4>1, Zenon
    <3>4. CASE 24 <= e
      <4>1. 1 \in 1 .. 4 /\ 8 * (4 - 1) <= e /\ e < 8 * (4 - 1) + 8
        BY <2>1, <3>4
      <4>2. QED BY <4>1, Zenon
    <3>5. QED BY <2>1, <3>1, <3>2, <3>3, <3>4
  <2>3. QED BY <1>4, <1>6, <2>2
<1>9. Polynomial(back) = w
  BY <1>7, <1>8, Zenon
<1>10. QED BY <1>9 DEF back

----------------------------------------------------------------------------
(***************************************************************************)
(* The calls.                                                              *)
(***************************************************************************)
LEMMA Kinds ==
  /\ Format => call'.fn = "digits"
  /\ CompareShort => call'.fn = "short"
  /\ ReadLong => call'.fn = "long"
  /\ Seal => call'.fn = "crc"
<1>1. Format => call'.fn = "digits"
  BY DEF Format
<1>2. CompareShort => call'.fn = "short"
  BY DEF CompareShort
<1>3. ReadLong => call'.fn = "long"
  BY DEF ReadLong
<1>4. Seal => call'.fn = "crc"
  BY DEF Seal
<1>5. QED BY <1>1, <1>2, <1>3, <1>4

\* A step ends without a call's result, or is one of the calls, or changes nothing.
LEMMA Steps ==
  ASSUME [Next]_call
  PROVE  (call' = None \/ call' = call) \/ Format \/ CompareShort \/ ReadLong \/ Seal
  BY DEF Next, Return

LEMMA NoneIs == None.fn = "none"
  BY DEF None

\* The checksum behind the boot stage is CRC-32 for every stage that has room.
THEOREM ChecksumRight == Spec => []CrcRight
<1>1. Init => CrcRight
  BY NoneIs DEF Init, CrcRight
<1>2. CrcRight /\ [Next]_call => CrcRight'
  <2> SUFFICES ASSUME CrcRight, [Next]_call PROVE CrcRight'
    OBVIOUS
  <2>1. CASE call' = None
    BY <2>1, NoneIs DEF CrcRight
  <2>2. CASE call' = call
    BY <2>2 DEF CrcRight
  <2>3. CASE Format \/ CompareShort \/ ReadLong
    BY <2>3, Kinds DEF CrcRight
  <2>4. CASE Seal
    <3> SUFFICES ASSUME Len(call'.of) <= MAX_FILE_SIZE
                 PROVE  Polynomial(Reverse(call'.out)) =
                          Remainder(Xor(Shl(Polynomial(call'.of), 32), Shl(0 .. 31, 8 * Len(call'.of))),
                                    8 * Len(call'.of) + 32)
      BY DEF CrcRight
    <3>1. PICK data \in Images : call' = [fn |-> "crc", of |-> data, out |-> CrcBytes(data)]
      BY <2>4 DEF Seal
    <3>2. call'.of = data /\ call'.out = CrcBytes(data)
      BY <3>1
    <3>3. data \in Seq(Byte)
      BY TextAssumption
    <3>4. Len(data) \in Nat /\ MAX_FILE_SIZE \in Nat
      BY <3>3, TextAssumption
    <3>5. CrcBytes(data) = [j \in 1 .. 4 |-> Shr(calculate_crc32(data), 8 * (j - 1)) \cap 0 .. 7]
      BY <3>2, <3>4 DEF CrcBytes
    <3>6. Polynomial(Reverse(CrcBytes(data))) = calculate_crc32(data)
      BY <3>3, <3>5, CrcIs, BytesIs
    <3>7. Polynomial(data) = ReadSoFar(data, Len(data))
      <4>1. DOMAIN data = 1 .. Len(data)
        BY <3>3
      <4>2. QED BY <4>1 DEF Polynomial, ReadSoFar
    <3>8. QED BY <3>2, <3>3, <3>6, <3>7, CrcIs DEF Dividend
  <2>5. QED BY <2>1, <2>2, <2>3, <2>4, Steps
<1>3. QED BY <1>1, <1>2, PTL DEF Spec

----------------------------------------------------------------------------
(***************************************************************************)
(* Numbers.                                                                *)
(***************************************************************************)
\* h has the numbers that the first digits denote.
Reads(digits, base, h) ==
  h \in [0 .. Len(digits) -> Nat] /\ h[0] = 0
  /\ \A k \in 1 .. Len(digits) : h[k] = h[k - 1] * base + digits[k]

LEMMA Readings ==
  ASSUME NEW digits \in Seq(Nat), NEW base \in Nat
  PROVE  \E h : Reads(digits, base, h) /\ Value(digits, base) = h[Len(digits)]
<1> DEFINE n == Len(digits)
           turn == [k \in 1 .. n |-> [v \in Nat |-> v * base + digits[k]]]
<1>0. n \in Nat /\ \A k \in 1 .. n : digits[k] \in Nat
  OBVIOUS
<1>1. turn \in [1 .. n -> [Nat -> Nat]]
  <2>1. ASSUME NEW k \in 1 .. n, NEW v \in Nat PROVE v * base + digits[k] \in Nat
    <3>1. v * base \in Nat /\ digits[k] \in Nat
      BY <1>0
    <3>2. QED BY <3>1
  <2>2. QED BY <2>1
<1>2. \A k \in 1 .. n : \A v \in Nat : turn[k][v] = v * base + digits[k]
  OBVIOUS
<1>3. Value(digits, base) = Loop(n, 0, turn)
  BY DEF Value
<1>9. 0 \in Nat /\ n \in Nat
  OBVIOUS
<1> HIDE DEF turn, n
<1>4. PICK h : Turned(Nat, n, 0, turn, h) /\ Loop(n, 0, turn) = h[n]
  BY <1>1, <1>9, Loops, Zenon
<1>5. h \in [0 .. n -> Nat] /\ h[0] = 0 /\ \A k \in 1 .. n : h[k] = turn[k][h[k - 1]]
  BY <1>4 DEF Turned
<1>6. \A k \in 1 .. n : k - 1 \in 0 .. n
  BY <1>9
<1>7. Reads(digits, base, h)
  BY <1>2, <1>5, <1>6 DEF Reads, n
<1>8. QED BY <1>3, <1>4, <1>7 DEF n

\* A digit behind.
LEMMA ValueAppend ==
  ASSUME NEW s \in Seq(Nat), NEW d \in Nat, NEW base \in Nat
  PROVE  Value(Append(s, d), base) = Value(s, base) * base + d
<1> DEFINE t == Append(s, d)
           n == Len(s)
<1>1. t \in Seq(Nat) /\ Len(t) = n + 1 /\ t[n + 1] = d /\ n \in Nat /\ \A k \in 1 .. n : t[k] = s[k]
  OBVIOUS
<1> HIDE DEF t, n
<1>2. PICK h : Reads(s, base, h) /\ Value(s, base) = h[n]
  BY Readings DEF n
<1>3. PICK g : Reads(t, base, g) /\ Value(t, base) = g[n + 1]
  BY <1>1, Readings
<1> DEFINE T == {k \in Nat : k <= n => g[k] = h[k]}
<1>4. 0 \in T
  BY <1>2, <1>3 DEF Reads
<1>5. ASSUME NEW k \in Nat, k \in T PROVE k + 1 \in T
  <2> SUFFICES ASSUME k + 1 <= n PROVE g[k + 1] = h[k + 1]
    OBVIOUS
  <2>1. k + 1 \in 1 .. n /\ k + 1 \in 1 .. (n + 1) /\ (k + 1) - 1 = k /\ k <= n
    BY <1>1
  <2>2. g[k + 1] = g[k] * base + t[k + 1]
    BY <1>1, <1>3, <2>1 DEF Reads
  <2>3. h[k + 1] = h[k] * base + s[k + 1]
    BY <1>2, <2>1 DEF Reads, n
  <2>4. QED BY <1>1, <1>5, <2>1, <2>2, <2>3
<1> HIDE DEF T
<1>6. Nat \subseteq T
  BY <1>4, <1>5, Upward
<1>7. g[n] = h[n]
  BY <1>1, <1>6 DEF T
<1>8. n + 1 \in 1 .. (n + 1) /\ (n + 1) - 1 = n
  BY <1>1
<1>9. g[n + 1] = g[n] * base + d
  BY <1>1, <1>3, <1>8 DEF Reads
<1>10. Value(t, base) = Value(s, base) * base + d
  BY <1>2, <1>3, <1>7, <1>9
<1>11. QED BY <1>10 DEF t

\* What intToDec collects: the digits of the tenth, and the last digit.
LEMMA DigitsIs ==
  /\ Digits[0] = <<>>
  /\ \A m \in Nat \ {0} : Digits[m] = Append(Digits[m \div 10], m % 10)
<1> DEFINE V == Seq(0 .. 9)
           down == [k \in Nat \ {0} |-> k \div 10]
           step == [v \in (Nat \ {0}) \X V |-> Append(v[2], v[1] % 10)]
           def(g) == [m \in Nat |-> IF MoreDigits(m) THEN Append(g[m \div 10], m % 10) ELSE <<>>]
<1>1. down \in [Nat \ {0} -> Nat] /\ \A k \in Nat \ {0} : down[k] < k
  OBVIOUS
<1>2. step \in [(Nat \ {0}) \X V -> V]
  <2>1. ASSUME NEW v \in (Nat \ {0}) \X V PROVE step[v] \in V
    <3>1. v[1] % 10 \in 0 .. 9 /\ v[2] \in V
      OBVIOUS
    <3>2. Append(v[2], v[1] % 10) \in V
      BY <3>1
    <3>3. QED BY <3>2
  <2>2. QED BY <2>1
<1>3. <<>> \in V
  OBVIOUS
<1>4. /\ \A k \in Nat \ {0} : down[k] = k \div 10
      /\ \A k \in Nat \ {0}, v \in V : step[<<k, v>>] = Append(v, k % 10)
  OBVIOUS
<1> HIDE DEF down, step, V
<1>5. PICK f : Recurs(V, <<>>, down, step, f)
  BY <1>1, <1>2, <1>3, Recursions
<1>6. f \in [Nat -> V] /\ f[0] = <<>> /\ \A k \in Nat \ {0} : f[k] = step[<<k, f[down[k]]>>]
  BY <1>5 DEF Recurs
<1>7. \A k \in Nat \ {0} : f[k] = Append(f[k \div 10], k % 10)
  <2> SUFFICES ASSUME NEW k \in Nat \ {0} PROVE f[k] = Append(f[k \div 10], k % 10)
    OBVIOUS
  <2>1. k \div 10 \in Nat
    OBVIOUS
  <2>2. f[k \div 10] \in V /\ f[k] = step[<<k, f[k \div 10]>>]
    BY <1>4, <1>6, <2>1
  <2>3. QED BY <1>4, <2>2
<1>8. f = def(f)
  <2> DEFINE d == def(f)
  <2>1. ASSUME NEW k \in Nat PROVE f[k] = d[k]
    <3>1. d[k] = IF MoreDigits(k) THEN Append(f[k \div 10], k % 10) ELSE <<>>
      BY Zenon
    <3> HIDE DEF d
    <3>2. CASE k = 0
      BY <1>6, <3>1, <3>2 DEF MoreDigits
    <3>3. CASE k # 0
      <4>1. MoreDigits(k) /\ k \in Nat \ {0}
        BY <3>3 DEF MoreDigits
      <4>2. QED BY <1>7, <3>1, <4>1, Zenon
    <3>4. QED BY <3>2, <3>3
  <2>2. f = [k \in Nat |-> f[k]] /\ d = [k \in Nat |-> d[k]]
    BY <1>6
  <2> HIDE DEF d
  <2>3. f = d
    BY <2>1, <2>2
  <2>4. QED BY <2>3 DEF d
<1>9. Digits = CHOOSE g : g = def(g)
  BY DEF Digits
<1>10. Digits = def(Digits)
  <2> HIDE DEF def
  <2>1. QED BY <1>8, <1>9
<1>11. \A m \in Nat : Digits[m] = IF MoreDigits(m) THEN Append(Digits[m \div 10], m % 10) ELSE <<>>
  <2> SUFFICES ASSUME NEW m \in Nat
               PROVE  Digits[m] = IF MoreDigits(m) THEN Append(Digits[m \div 10], m % 10) ELSE <<>>
    BY Zenon
  <2> DEFINE d == def(Digits)
  <2>1. d[m] = IF MoreDigits(m) THEN Append(Digits[m \div 10], m % 10) ELSE <<>>
    BY Zenon
  <2>2. Digits = d
    BY <1>10
  <2> HIDE DEF d
  <2>3. QED BY <2>1, <2>2, Zenon
<1>12. 0 \in Nat /\ ~MoreDigits(0) /\ \A m \in Nat \ {0} : m \in Nat /\ MoreDigits(m)
  BY DEF MoreDigits
<1>13. QED BY <1>11, <1>12, Zenon

LEMMA DigitsValue ==
  ASSUME NEW m \in Nat
  PROVE  Digits[m] \in Seq(0 .. 9) /\ Value(Digits[m], 10) = m
<1> DEFINE Right(k) == Digits[k] \in Seq(0 .. 9) /\ Value(Digits[k], 10) = k
           Wrong == {k \in Nat : ~Right(k)}
<1> SUFFICES ASSUME Wrong # {} PROVE FALSE
  OBVIOUS
<1>1. PICK k \in Wrong : \A j \in Wrong : k <= j
  <2>1. Wrong \subseteq Nat
    OBVIOUS
  <2> HIDE DEF Wrong
  <2>2. QED BY <2>1, Least
<1>2. CASE k = 0
  <2>1. Digits[0] \in Seq(0 .. 9) /\ Digits[0] \in Seq(Nat) /\ Len(Digits[0]) = 0
    BY DigitsIs
  <2>2. Value(Digits[0], 10) = 0
    BY <2>1, Readings DEF Reads
  <2>3. QED BY <1>1, <1>2, <2>1, <2>2
<1>3. CASE k # 0
  <2> DEFINE t == k \div 10
             d == k % 10
             s == Digits[t]
  <2>1. t \in Nat /\ t < k /\ d \in 0 .. 9 /\ k = t * 10 + d /\ k \in Nat \ {0}
    BY <1>3
  <2>2. Right(t)
    BY <1>1, <2>1
  <2>3. Digits[k] = Append(s, d)
    BY <2>1, DigitsIs
  <2> HIDE DEF t, d
  <2>4. s \in Seq(0 .. 9) /\ Value(s, 10) = t
    BY <2>2
  <2> HIDE DEF s
  <2>5. s \in Seq(Nat) /\ d \in Nat /\ Append(s, d) \in Seq(0 .. 9)
    BY <2>1, <2>4
  <2>6. Value(Append(s, d), 10) = t * 10 + d
    BY <2>4, <2>5, ValueAppend
  <2>7. Right(k)
    BY <2>1, <2>3, <2>5, <2>6
  <2>8. QED BY <1>1, <2>7
<1>4. QED BY <1>2, <1>3

\* A factor of ten is a digit.
LEMMA DigitsLonger ==
  ASSUME NEW k \in Nat, NEW c \in Nat, \A m \in Nat : m < c => Len(Digits[m]) <= k
  PROVE  \A m \in Nat : m < 10 * c => Len(Digits[m]) <= k + 1
<1> SUFFICES ASSUME NEW m \in Nat, m < 10 * c PROVE Len(Digits[m]) <= k + 1
  OBVIOUS
<1>1. CASE m = 0
  BY <1>1, DigitsIs
<1>2. CASE m # 0
  <2> DEFINE t == m \div 10
             d == m % 10
  <2>1. t \in Nat /\ t < c /\ m \in Nat \ {0}
    BY <1>2
  <2>2. Digits[m] = Append(Digits[t], d)
    BY <2>1, DigitsIs
  <2> HIDE DEF t, d
  <2>3. Digits[t] \in Seq(0 .. 9)
    BY <2>1, DigitsValue
  <2>4. Len(Append(Digits[t], d)) = Len(Digits[t]) + 1 /\ Len(Digits[t]) \in Nat
    BY <2>3
  <2>5. Len(Digits[t]) <= k
    BY <2>1
  <2>6. QED BY <2>2, <2>4, <2>5
<1>3. QED BY <1>1, <1>2

LEMMA DigitsFit == \A m \in Nat : m < 10000000000 => Len(Digits[m]) <= 10
<1> DEFINE Fit(c, k) == \A m \in Nat : m < c => Len(Digits[m]) <= k
           Ten(c) == 10 * c
           Ten5(c) == Ten(Ten(Ten(Ten(Ten(c)))))
<1>1. ASSUME NEW c, c \in Nat, NEW k \in Nat, Fit(c, k) PROVE Fit(Ten(c), k + 1) /\ Ten(c) \in Nat
  <2>1. Fit(Ten(c), k + 1)
    BY <1>1, DigitsLonger, Zenon
  <2>2. Ten(c) \in Nat
    BY <1>1
  <2>3. QED BY <2>1, <2>2
<1>2. Fit(1, 0) /\ 1 \in Nat
  <2>1. \A m \in Nat : m < 1 => m = 0
    OBVIOUS
  <2>2. Len(Digits[0]) = 0
    BY DigitsIs
  <2>3. QED BY <2>1, <2>2
<1>3. Ten5(Ten5(1)) = 10000000000
  BY SMT
<1> HIDE DEF Fit, Ten
<1>4. ASSUME NEW c, c \in Nat, NEW k \in Nat, Fit(c, k) PROVE Fit(Ten5(c), k + 5) /\ Ten5(c) \in Nat
  <2>1. /\ k + 1 \in Nat /\ k + 2 \in Nat /\ k + 3 \in Nat /\ k + 4 \in Nat
        /\ (k + 1) + 1 = k + 2 /\ (k + 2) + 1 = k + 3 /\ (k + 3) + 1 = k + 4 /\ (k + 4) + 1 = k + 5
    OBVIOUS
  <2>2. Fit(Ten(c), k + 1) /\ Ten(c) \in Nat
    BY <1>1, <1>4, Zenon
  <2>3. Fit(Ten(Ten(c)), k + 2) /\ Ten(Ten(c)) \in Nat
    BY <1>1, <2>1, <2>2
  <2>4. Fit(Ten(Ten(Ten(c))), k + 3) /\ Ten(Ten(Ten(c))) \in Nat
    BY <1>1, <2>1, <2>3
  <2>5. Fit(Ten(Ten(Ten(Ten(c)))), k + 4) /\ Ten(Ten(Ten(Ten(c)))) \in Nat
    BY <1>1, <2>1, <2>4
  <2>6. QED BY <1>1, <2>1, <2>5
<1> HIDE DEF Ten5
<1>5. Fit(Ten5(1), 5) /\ Ten5(1) \in Nat
  <2>1. 0 \in Nat /\ 0 + 5 = 5
    OBVIOUS
  <2>2. QED BY <1>2, <1>4, <2>1
<1>6. Fit(Ten5(Ten5(1)), 10)
  <2>1. 5 \in Nat /\ 5 + 5 = 10
    OBVIOUS
  <2>2. QED BY <1>4, <1>5, <2>1
<1>7. Fit(10000000000, 10)
  BY <1>3, <1>6, SMT
<1>8. QED BY <1>7, SMT DEF Fit

\* A number of 32 bits.
Of32(n) == n \div 65536 < 65536

\* Digits that denote a number, and how many they are.
Denotes(digits, base, n, room) ==
  /\ Value(digits, base) = n
  /\ \A j \in DOMAIN digits : digits[j] \in 0 .. (base - 1)
  /\ Len(digits) < room

LEMMA intToDecIs == ASSUME NEW n \in Nat, Of32(n) PROVE Denotes(intToDec(n), 10, n, 11)
<1>1. CASE n = 0
  <2> DEFINE t == << 0 >>
  <2>1. intToDec(n) = t
    BY <1>1 DEF intToDec
  <2>2. /\ t \in Seq(Nat) /\ Len(t) = 1 /\ t[1] = 0 /\ DOMAIN t = 1 .. 1 /\ 1 \in 1 .. 1
        /\ 1 - 1 = 0 /\ 10 \in Nat /\ 10 - 1 = 9
    OBVIOUS
  <2> HIDE DEF t
  <2>3. PICK h : Reads(t, 10, h) /\ Value(t, 10) = h[1]
    BY <2>2, Readings, Zenon
  <2>4. h[1] = h[0] * 10 + 0 /\ h[0] = 0
    BY <2>2, <2>3 DEF Reads
  <2>5. Value(t, 10) = 0
    BY <2>3, <2>4
  <2>6. \A j \in DOMAIN t : t[j] \in 0 .. (10 - 1)
    <3>1. \A j \in 1 .. 1 : j = 1
      OBVIOUS
    <3>2. 0 \in 0 .. (10 - 1)
      OBVIOUS
    <3>3. QED BY <2>2, <3>1, <3>2, Zenon
  <2>7. Len(t) < 11
    BY <2>2
  <2>8. QED BY <1>1, <2>1, <2>5, <2>6, <2>7 DEF Denotes
<1>2. CASE n # 0
  <2> DEFINE t == Digits[n]
  <2>1. intToDec(n) = t
    BY <1>2 DEF intToDec
  <2>2. t \in Seq(0 .. 9) /\ Value(t, 10) = n
    BY DigitsValue
  <2>4. Len(t) <= 10
    <3>1. n < 10000000000
      BY SMT DEF Of32
    <3>2. QED BY <3>1, DigitsFit, SMT
  <2> HIDE DEF t
  <2>5. Len(t) \in Nat /\ 10 - 1 = 9 /\ \A j \in DOMAIN t : t[j] \in 0 .. 9
    BY <2>2
  <2>6. QED BY <2>1, <2>2, <2>4, <2>5 DEF Denotes
<1>3. QED BY <1>1, <1>2

LEMMA byteToDecIs == ASSUME NEW n \in Nat, n < 256 PROVE Denotes(byteToDec(n), 10, n, 4)
<1> DEFINE t == byteToDec(n)
           a == (n \div 100) % 10
           b == (n \div 10) % 10
           c == n % 10
<1>1. a \in 0 .. 9 /\ b \in 0 .. 9 /\ c \in 0 .. 9 /\ (a * 10 + b) * 10 + c = n
  OBVIOUS
<1>0. t = <<a, b, c>>
  BY DEF byteToDec
<1> HIDE DEF t, a, b, c
<1>2. t \in Seq(0 .. 9) /\ t \in Seq(Nat) /\ Len(t) = 3 /\ t[1] = a /\ t[2] = b /\ t[3] = c
  BY <1>0, <1>1
<1>3. PICK h : Reads(t, 10, h) /\ Value(t, 10) = h[3]
  BY <1>2, Readings
<1>4. /\ h[0] = 0 /\ \A k \in 1 .. 3 : h[k] = h[k - 1] * 10 + t[k]
  BY <1>2, <1>3 DEF Reads
<1>5. h[1] = h[0] * 10 + a
  BY <1>2, <1>4
<1>6. h[2] = h[1] * 10 + b
  BY <1>2, <1>4
<1>7. h[3] = h[2] * 10 + c
  BY <1>2, <1>4
<1>8. h[3] = n
  BY <1>1, <1>4, <1>5, <1>6, <1>7
<1>9. 10 - 1 = 9 /\ \A j \in DOMAIN t : t[j] \in 0 .. 9
  <2>1. DOMAIN t = 1 .. 3
    BY <1>0
  <2>2. QED BY <1>1, <1>2, <2>1
<1>10. QED BY <1>2, <1>3, <1>8, <1>9 DEF Denotes, t

LEMMA byteToStrIs == ASSUME NEW n \in Nat, n < 256 PROVE Denotes(byteToStr(n), 16, n, 3)
<1> DEFINE t == byteToStr(n)
           a == (n \div 16) % 16
           b == n % 16
<1>1. a \in 0 .. 15 /\ b \in 0 .. 15 /\ a * 16 + b = n
  OBVIOUS
<1>0. t = <<a, b>>
  BY DEF byteToStr
<1> HIDE DEF t, a, b
<1>2. t \in Seq(0 .. 15) /\ t \in Seq(Nat) /\ Len(t) = 2 /\ t[1] = a /\ t[2] = b
  BY <1>0, <1>1
<1>3. PICK h : Reads(t, 16, h) /\ Value(t, 16) = h[2]
  BY <1>2, Readings
<1>4. /\ h[0] = 0 /\ \A k \in 1 .. 2 : h[k] = h[k - 1] * 16 + t[k]
  BY <1>2, <1>3 DEF Reads
<1>5. h[1] = h[0] * 16 + a
  BY <1>2, <1>4
<1>6. h[2] = h[1] * 16 + b
  BY <1>2, <1>4
<1>8. h[2] = n
  BY <1>1, <1>4, <1>5, <1>6
<1>9. 16 - 1 = 15 /\ \A j \in DOMAIN t : t[j] \in 0 .. 15
  <2>1. DOMAIN t = 1 .. 2
    BY <1>0
  <2>2. QED BY <1>1, <1>2, <2>1
<1>10. QED BY <1>2, <1>3, <1>8, <1>9 DEF Denotes, t

\* Each digit of hexToStr takes the number so far a sixteenth further down.
LEMMA hexToStrIs == ASSUME NEW n \in Nat, Of32(n) PROVE Denotes(hexToStr(n), 16, n, 9)
<1> DEFINE t == hexToStr(n)
<1>1. /\ Sixteens[1] = 268435456 /\ Sixteens[2] = 16777216 /\ Sixteens[3] = 1048576
      /\ Sixteens[4] = 65536 /\ Sixteens[5] = 4096 /\ Sixteens[6] = 256
      /\ Sixteens[7] = 16 /\ Sixteens[8] = 1
  BY DEF Sixteens
<1>2. t = [j \in 1 .. 8 |-> (n \div Sixteens[j]) % 16]
  BY DEF hexToStr
<1>3. /\ t[1] = (n \div 268435456) % 16 /\ t[2] = (n \div 16777216) % 16
      /\ t[3] = (n \div 1048576) % 16 /\ t[4] = (n \div 65536) % 16
      /\ t[5] = (n \div 4096) % 16 /\ t[6] = (n \div 256) % 16
      /\ t[7] = (n \div 16) % 16 /\ t[8] = (n \div 1) % 16
  <2> HIDE DEF t
  <2>1. 1 \in 1 .. 8 /\ 2 \in 1 .. 8 /\ 3 \in 1 .. 8 /\ 4 \in 1 .. 8 /\ 5 \in 1 .. 8
        /\ 6 \in 1 .. 8 /\ 7 \in 1 .. 8 /\ 8 \in 1 .. 8
    BY SMT
  <2>2. \A j \in 1 .. 8 : t[j] = (n \div Sixteens[j]) % 16
    BY <1>2, SMT
  <2>3. QED BY <1>1, <2>1, <2>2, SMT
<1>4. \A j \in 1 .. 8 : t[j] \in 0 .. 15
  <2> HIDE DEF t
  <2>1. \A j \in 1 .. 8 : j = 1 \/ j = 2 \/ j = 3 \/ j = 4 \/ j = 5 \/ j = 6 \/ j = 7 \/ j = 8
    BY SMT
  <2>2. \A m \in Nat : m % 16 \in 0 .. 15
    BY SMT
  <2>3. /\ n \div 268435456 \in Nat /\ n \div 16777216 \in Nat /\ n \div 1048576 \in Nat
        /\ n \div 65536 \in Nat /\ n \div 4096 \in Nat /\ n \div 256 \in Nat
        /\ n \div 16 \in Nat /\ n \div 1 \in Nat
    BY SMT
  <2>4. QED BY <1>3, <2>1, <2>2, <2>3, SMT
<1>5. Len(t) = 8 /\ DOMAIN t = 1 .. 8
  BY <1>2, SMT
<1>6. t \in Seq(Nat)
  <2>1. t \in [1 .. 8 -> Nat]
    BY <1>2, <1>4, SMT
  <2>3. 8 \in Nat
    BY SMT
  <2> HIDE DEF t
  <2>2. QED BY <2>1, <2>3, SeqDef, Zenon
<1> HIDE DEF t
<1>7. PICK h : Reads(t, 16, h) /\ Value(t, 16) = h[8]
  <2>1. 16 \in Nat
    BY SMT
  <2>2. QED BY <1>5, <1>6, <2>1, Readings, Zenon
<1>8. h[0] = 0 /\ \A k \in 1 .. 8 : h[k] = h[k - 1] * 16 + t[k]
  BY <1>5, <1>7, SMT DEF Reads
<1>9. h[1] = n \div 268435456
  <2>1. h[1] = h[0] * 16 + t[1]
    BY <1>8, SMT
  <2>2. (n \div 268435456) % 16 = n \div 268435456
    BY SMT DEF Of32
  <2>3. QED BY <1>3, <1>8, <2>1, <2>2, SMT
<1>10. h[2] = n \div 16777216
  <2>1. h[2] = h[1] * 16 + t[2]
    BY <1>8, SMT
  <2>2. QED BY <1>3, <1>9, <2>1, SMT
<1>11. h[3] = n \div 1048576
  <2>1. h[3] = h[2] * 16 + t[3]
    BY <1>8, SMT
  <2>2. QED BY <1>3, <1>10, <2>1, SMT
<1>12. h[4] = n \div 65536
  <2>1. h[4] = h[3] * 16 + t[4]
    BY <1>8, SMT
  <2>2. QED BY <1>3, <1>11, <2>1, SMT
<1>13. h[5] = n \div 4096
  <2>1. h[5] = h[4] * 16 + t[5]
    BY <1>8, SMT
  <2>2. QED BY <1>3, <1>12, <2>1, SMT
<1>14. h[6] = n \div 256
  <2>1. h[6] = h[5] * 16 + t[6]
    BY <1>8, SMT
  <2>2. QED BY <1>3, <1>13, <2>1, SMT
<1>15. h[7] = n \div 16
  <2>1. h[7] = h[6] * 16 + t[7]
    BY <1>8, SMT
  <2>2. QED BY <1>3, <1>14, <2>1, SMT
<1>16. h[8] = n
  <2>1. h[8] = h[7] * 16 + t[8]
    BY <1>8, SMT
  <2>2. QED BY <1>3, <1>15, <2>1, SMT
<1>17. 16 - 1 = 15
  BY SMT
<1>18. QED BY <1>4, <1>5, <1>7, <1>16, <1>17, SMT DEF Denotes, t

\* The digits denote the number and fit, for every number of 32 bits.
THEOREM NumbersCorrect == Spec => []NumbersRight
<1>1. Init => NumbersRight
  BY NoneIs DEF Init, NumbersRight
<1>2. NumbersRight /\ [Next]_call => NumbersRight'
  <2> SUFFICES ASSUME NumbersRight, [Next]_call PROVE NumbersRight'
    OBVIOUS
  <2>1. CASE call' = None
    BY <2>1, NoneIs DEF NumbersRight
  <2>2. CASE call' = call
    BY <2>2 DEF NumbersRight
  <2>3. CASE CompareShort \/ ReadLong \/ Seal
    BY <2>3, Kinds DEF NumbersRight
  <2>4. CASE Format
    <3>0. ASSUME NEW n, NEW base, NEW out, NEW room, Denotes(out, base, n, room),
                 call' = [fn |-> "digits", of |-> n, base |-> base, out |-> out, room |-> room]
          PROVE  NumbersRight'
      <4>1. call'.of = n /\ call'.base = base /\ call'.out = out /\ call'.room = room
        BY <3>0
      <4>2. QED BY <3>0, <4>1 DEF NumbersRight, Denotes
    <3>1. PICK n \in Words :
            \/ call' = [fn |-> "digits", of |-> n, base |-> 16, out |-> hexToStr(n), room |-> 9]
            \/ n < 256 /\ call' = [fn |-> "digits", of |-> n, base |-> 16, out |-> byteToStr(n), room |-> 3]
            \/ n < 256 /\ call' = [fn |-> "digits", of |-> n, base |-> 10, out |-> byteToDec(n), room |-> 4]
            \/ call' = [fn |-> "digits", of |-> n, base |-> 10, out |-> intToDec(n), room |-> 11]
      BY <2>4 DEF Format
    <3>2. n \in Nat /\ Of32(n)
      BY TextAssumption, SMT DEF Of32
    <3>3. /\ Denotes(hexToStr(n), 16, n, 9) /\ Denotes(intToDec(n), 10, n, 11)
          /\ n < 256 => Denotes(byteToStr(n), 16, n, 3) /\ Denotes(byteToDec(n), 10, n, 4)
      BY <3>2, hexToStrIs, intToDecIs, byteToStrIs, byteToDecIs
    <3>4. QED BY <3>0, <3>1, <3>3, Zenon
  <2>5. QED BY <2>1, <2>2, <2>3, <2>4, Steps
<1>3. QED BY <1>1, <1>2, PTL DEF Spec

----------------------------------------------------------------------------
(***************************************************************************)
(* The checksum of a short name.                                           *)
(***************************************************************************)
\* The numbers of a byte, and their sum.
Octets == 0 .. 255
Plus(r, b) == (r + b) % 256

\* h has the sums over the first bytes of a name.
Sums(name, n, h) ==
  h \in [0 .. n -> Octets] /\ h[0] = 0
  /\ \A k \in 1 .. n : h[k] = Plus(Rotated(h[k - 1]), name[k])

LEMMA RotatedByte == ASSUME NEW x \in Octets PROVE Rotated(x) \in Octets
  BY DEF Rotated, Octets

LEMMA PlusByte == ASSUME NEW x \in Octets, NEW y \in Octets PROVE Plus(x, y) \in Octets
  BY DEF Plus, Octets

LEMMA Summed ==
  ASSUME NEW n \in Nat, NEW name \in [1 .. n -> Octets]
  PROVE  \E h : Sums(name, n, h) /\ fat_sfn_checksum(name) = h[n]
<1> DEFINE turn == [k \in 1 .. n |-> [sum \in Octets |-> Plus(Rotated(sum), name[k])]]
<1>1. turn \in [1 .. n -> [Octets -> Octets]]
  <2>1. ASSUME NEW k \in 1 .. n, NEW v \in Octets PROVE Plus(Rotated(v), name[k]) \in Octets
    <3>1. Rotated(v) \in Octets /\ name[k] \in Octets
      BY RotatedByte
    <3>2. QED BY <3>1, PlusByte
  <2>2. QED BY <2>1
<1>2. \A k \in 1 .. n : \A v \in Octets : turn[k][v] = Plus(Rotated(v), name[k])
  OBVIOUS
<1>3. fat_sfn_checksum(name) = Loop(n, 0, turn)
  <2>1. Len(name) = n
    OBVIOUS
  <2>2. QED BY <2>1 DEF fat_sfn_checksum, Plus, Octets
<1>4. 0 \in Octets
  BY DEF Octets
<1> HIDE DEF turn
<1>5. PICK h : Turned(Octets, n, 0, turn, h) /\ Loop(n, 0, turn) = h[n]
  BY <1>1, <1>4, Loops, Zenon
<1>6. h \in [0 .. n -> Octets] /\ h[0] = 0 /\ \A k \in 1 .. n : h[k] = turn[k][h[k - 1]]
  BY <1>5 DEF Turned
<1>7. \A k \in 1 .. n : k - 1 \in 0 .. n
  OBVIOUS
<1>8. Sums(name, n, h)
  BY <1>2, <1>6, <1>7 DEF Sums
<1>9. QED BY <1>3, <1>5, <1>8

LEMMA BytesApart ==
  ASSUME NEW r \in Octets, NEW x \in Octets, NEW y \in Octets, x # y
  PROVE  Plus(r, x) # Plus(r, y) /\ Plus(x, r) # Plus(y, r)
  BY DEF Plus, Octets

\* No two sums rotate to the same.
LEMMA RotatedApart ==
  ASSUME NEW x \in Octets, NEW y \in Octets, x # y
  PROVE  Rotated(x) # Rotated(y)
  BY DEF Rotated, Octets

LEMMA SumApart ==
  ASSUME NEW n \in Nat, NEW a \in [1 .. n -> Octets], NEW b \in [1 .. n -> Octets],
         NEW i \in 1 .. n, a[i] # b[i], \A j \in 1 .. n : j # i => a[j] = b[j]
  PROVE  fat_sfn_checksum(a) # fat_sfn_checksum(b)
<1>1. PICK g : Sums(a, n, g) /\ fat_sfn_checksum(a) = g[n]
  BY Summed
<1>2. PICK h : Sums(b, n, h) /\ fat_sfn_checksum(b) = h[n]
  BY Summed
<1>3. \A k \in 0 .. n : g[k] \in Octets /\ h[k] \in Octets
  BY <1>1, <1>2 DEF Sums
<1> DEFINE T == {k \in Nat : k <= n => (k < i <=> g[k] = h[k])}
<1>4. 0 \in T
  BY <1>1, <1>2 DEF Sums
<1>5. ASSUME NEW k \in Nat, k \in T PROVE k + 1 \in T
  <2> SUFFICES ASSUME k + 1 <= n PROVE k + 1 < i <=> g[k + 1] = h[k + 1]
    OBVIOUS
  <2>1. k + 1 \in 1 .. n /\ (k + 1) - 1 = k /\ k \in 0 .. n
    OBVIOUS
  <2>2. /\ g[k + 1] = Plus(Rotated(g[k]), a[k + 1])
        /\ h[k + 1] = Plus(Rotated(h[k]), b[k + 1])
    BY <1>1, <1>2, <2>1 DEF Sums
  <2>3. k < i <=> g[k] = h[k]
    BY <1>5, <2>1
  <2>4. g[k] \in Octets /\ h[k] \in Octets /\ a[k + 1] \in Octets /\ b[k + 1] \in Octets
    BY <1>3, <2>1
  <2>5. Rotated(g[k]) \in Octets /\ Rotated(h[k]) \in Octets
    BY <2>4, RotatedByte
  <2>6. CASE k + 1 < i
    <3>1. g[k] = h[k] /\ a[k + 1] = b[k + 1]
      BY <2>1, <2>3, <2>6
    <3>2. QED BY <2>2, <2>6, <3>1
  <2>7. CASE k + 1 = i
    <3>1. g[k] = h[k] /\ a[k + 1] # b[k + 1]
      BY <2>1, <2>3, <2>7
    <3>2. g[k + 1] # h[k + 1]
      BY <2>2, <2>4, <2>5, <3>1, BytesApart
    <3>3. QED BY <2>7, <3>2
  <2>8. CASE k + 1 > i
    <3>1. g[k] # h[k] /\ a[k + 1] = b[k + 1]
      BY <2>1, <2>3, <2>8
    <3>2. Rotated(g[k]) # Rotated(h[k])
      BY <2>4, <3>1, RotatedApart
    <3>3. g[k + 1] # h[k + 1]
      BY <2>2, <2>4, <2>5, <3>1, <3>2, BytesApart
    <3>4. QED BY <2>8, <3>3
  <2>9. QED BY <2>6, <2>7, <2>8
<1> HIDE DEF T
<1>6. Nat \subseteq T
  BY <1>4, <1>5, Upward
<1>7. g[n] # h[n]
  BY <1>6 DEF T
<1>8. QED BY <1>1, <1>2, <1>7

\* Every change of one byte of a short name changes its checksum.
THEOREM ChecksumDetects == Spec => []SumDetects
<1>1. Init => SumDetects
  BY NoneIs DEF Init, SumDetects
<1>2. SumDetects /\ [Next]_call => SumDetects'
  <2> SUFFICES ASSUME SumDetects, [Next]_call PROVE SumDetects'
    OBVIOUS
  <2>1. CASE call' = None
    BY <2>1, NoneIs DEF SumDetects
  <2>2. CASE call' = call
    BY <2>2 DEF SumDetects
  <2>3. CASE Format \/ ReadLong \/ Seal
    BY <2>3, Kinds DEF SumDetects
  <2>4. CASE CompareShort
    <3>1. PICK a \in ShortNames, b \in ShortNames :
            call' = [fn |-> "short", a |-> a, b |-> b,
                     order |-> strcmp(fat_sfn_to_string(a), fat_sfn_to_string(b)),
                     sums |-> <<fat_sfn_checksum(a), fat_sfn_checksum(b)>>]
      BY <2>4 DEF CompareShort
    <3>2. call'.a = a /\ call'.b = b /\ call'.sums = <<fat_sfn_checksum(a), fat_sfn_checksum(b)>>
      BY <3>1
    <3> DEFINE n == Base + Ext
               D == {j \in DOMAIN a : a[j] # b[j]}
    <3>3. n \in Nat /\ a \in [1 .. n -> Octets] /\ b \in [1 .. n -> Octets]
      BY TextAssumption DEF Octets
    <3> HIDE DEF n
    <3> SUFFICES ASSUME Cardinality(D) = 1 PROVE fat_sfn_checksum(a) # fat_sfn_checksum(b)
      BY <3>2 DEF SumDetects
    <3>4. D \subseteq 1 .. n
      BY <3>3
    <3>5. IsFiniteSet(D)
      <4>1. IsFiniteSet(1 .. n)
        BY <3>3, FS_Interval
      <4> HIDE DEF D
      <4>2. QED BY <3>4, <4>1, FS_Subset
    <3>6. PICK i : D = {i}
      <4> HIDE DEF D
      <4>1. QED BY <3>5, FS_Singleton
    <3>7. i \in 1 .. n /\ a[i] # b[i] /\ \A j \in 1 .. n : j # i => a[j] = b[j]
      BY <3>3, <3>6
    <3>8. QED BY <3>3, <3>7, SumApart
  <2>5. QED BY <2>1, <2>2, <2>3, <2>4, Steps
<1>3. QED BY <1>1, <1>2, PTL DEF Spec

----------------------------------------------------------------------------
(***************************************************************************)
(* Strings.                                                                *)
(***************************************************************************)
LEMMA MaxIs ==
  ASSUME NEW A, A \subseteq Nat, A # {}, NEW n \in Nat, \A x \in A : x <= n
  PROVE  Max(A) \in A /\ \A x \in A : x <= Max(A)
<1> DEFINE B == {y \in Nat : \A x \in A : x <= y}
<1>1. B \subseteq Nat /\ n \in B
  OBVIOUS
<1>2. PICK m \in B : \A y \in B : m <= y
  <2> HIDE DEF B
  <2>1. QED BY <1>1, Least
<1>3. m \in A
  <2> SUFFICES ASSUME m \notin A PROVE FALSE
    OBVIOUS
  <2>1. m \in Nat /\ \A x \in A : x \in Nat /\ x <= m /\ x # m
    BY <1>2
  <2>2. m # 0
    <3>1. PICK x \in A : TRUE
      OBVIOUS
    <3>2. x \in Nat /\ x <= m /\ x # m
      BY <2>1
    <3>3. QED BY <2>1, <3>2
  <2>3. m - 1 \in B
    BY <2>1, <2>2
  <2>4. QED BY <1>2, <2>1, <2>3
<1>4. \A x \in A : m >= x
  BY <1>2
<1>5. Max(A) \in A /\ \A y \in A : Max(A) >= y
  <2> DEFINE P(x) == \A y \in A : x >= y
  <2>1. P(m)
    BY <1>4
  <2>2. Max(A) = CHOOSE x \in A : P(x)
    BY DEF Max
  <2> HIDE DEF P
  <2>3. Max(A) \in A /\ P(Max(A))
    BY <1>3, <2>1, <2>2, Zenon
  <2>4. QED BY <2>3 DEF P
<1>6. \A y \in A : Max(A) \in Nat /\ y \in Nat
  BY <1>5
<1>7. QED BY <1>5, <1>6

LEMMA MinIs ==
  ASSUME NEW A, A \subseteq Nat, A # {}
  PROVE  Min(A) \in A /\ \A x \in A : Min(A) <= x
<1>1. PICK m \in A : \A y \in A : m <= y
  BY Least
<1> DEFINE P(x) == \A y \in A : x <= y
<1>2. P(m)
  BY <1>1
<1>3. Min(A) = CHOOSE x \in A : P(x)
  BY DEF Min
<1> HIDE DEF P
<1>4. Min(A) \in A /\ P(Min(A))
  BY <1>2, <1>3, Zenon
<1>5. QED BY <1>4 DEF P

\* The part in front of the first stop.
LEMMA BeforeIs ==
  ASSUME NEW S, NEW s \in Seq(S), NEW stop
  PROVE  LET t == Before(s, stop)
         IN  /\ t \in Seq(S) /\ Len(t) \in 0 .. Len(s)
             /\ \A j \in 1 .. Len(t) : t[j] = s[j] /\ s[j] \notin stop
             /\ Len(t) < Len(s) => s[Len(t) + 1] \in stop
<1> DEFINE A == {n \in 0 .. Len(s) : \A j \in 1 .. n : s[j] \notin stop}
           m == Max(A)
<1>1. Len(s) \in Nat
  OBVIOUS
<1>2. 0 \in A
  BY <1>1
<1>3. A \subseteq Nat /\ \A x \in A : x <= Len(s)
  BY <1>1
<1>4. m \in A /\ \A x \in A : x <= m
  <2> HIDE DEF A
  <2>1. QED BY <1>1, <1>2, <1>3, MaxIs
<1>5. m \in 0 .. Len(s) /\ \A j \in 1 .. m : s[j] \notin stop
  BY <1>4
<1>6. m < Len(s) => s[m + 1] \in stop
  <2> SUFFICES ASSUME m < Len(s), s[m + 1] \notin stop PROVE FALSE
    OBVIOUS
  <2> HIDE DEF m
  <2>1. m + 1 \in 0 .. Len(s) /\ \A j \in 1 .. (m + 1) : j = m + 1 \/ j \in 1 .. m
    BY <1>1, <1>5
  <2>2. m + 1 \in A
    BY <1>5, <2>1
  <2>3. m + 1 <= m
    BY <1>4, <2>2
  <2>4. QED BY <1>5, <2>3
<1>7. Before(s, stop) = SubSeq(s, 1, m)
  BY DEF Before
<1> HIDE DEF m, A
<1>8. SubSeq(s, 1, m) \in Seq(S) /\ Len(SubSeq(s, 1, m)) = m
      /\ \A j \in 1 .. m : SubSeq(s, 1, m)[j] = s[j]
  BY <1>1, <1>5
<1>9. QED BY <1>5, <1>6, <1>7, <1>8

\* strcmp finds no difference exactly between equal strings.
LEMMA strcmpIs ==
  ASSUME NEW s \in Seq(Octets \ {0}), NEW t \in Seq(Octets \ {0})
  PROVE  strcmp(s, t) = 0 <=> s = t
<1> DEFINE x == Append(s, 0)
           y == Append(t, 0)
           A == {j \in 1 .. Len(x) : j <= Len(y) /\ (x[j] = 0 \/ y[j] = 0 \/ x[j] # y[j])}
           at == Min(A)
<1>1. Len(s) \in Nat /\ Len(t) \in Nat
  OBVIOUS
<1>2. /\ Len(x) = Len(s) + 1 /\ x[Len(s) + 1] = 0
      /\ \A j \in 1 .. Len(s) : x[j] = s[j] /\ x[j] # 0 /\ x[j] \in Int
  <2>1. \A j \in 1 .. Len(s) : s[j] \in Octets \ {0}
    OBVIOUS
  <2>2. \A c \in Octets \ {0} : c \in Int /\ c # 0
    BY DEF Octets
  <2>3. \A j \in 1 .. Len(s) : s[j] \in Int /\ s[j] # 0
    BY <2>1, <2>2, Zenon
  <2>4. QED BY <2>3
<1>3. /\ Len(y) = Len(t) + 1 /\ y[Len(t) + 1] = 0
      /\ \A j \in 1 .. Len(t) : y[j] = t[j] /\ y[j] # 0 /\ y[j] \in Int
  <2>1. \A j \in 1 .. Len(t) : t[j] \in Octets \ {0}
    OBVIOUS
  <2>2. \A c \in Octets \ {0} : c \in Int /\ c # 0
    BY DEF Octets
  <2>3. \A j \in 1 .. Len(t) : t[j] \in Int /\ t[j] # 0
    BY <2>1, <2>2, Zenon
  <2>4. QED BY <2>3
<1>4. strcmp(s, t) = x[at] - y[at]
  BY DEF strcmp
<1> HIDE DEF x, y
<1>5. \A j \in 1 .. Len(x) : x[j] \in Int
  <2>1. \A j \in 1 .. Len(x) : j = Len(s) + 1 \/ j \in 1 .. Len(s)
    BY <1>1, <1>2
  <2>2. QED BY <1>2, <2>1
<1>6. \A j \in 1 .. Len(y) : y[j] \in Int
  <2>1. \A j \in 1 .. Len(y) : j = Len(t) + 1 \/ j \in 1 .. Len(t)
    BY <1>1, <1>3
  <2>2. QED BY <1>3, <2>1
<1>7. A \subseteq Nat
  BY <1>1, <1>2
<1>8. A # {}
  <2>1. CASE Len(s) <= Len(t)
    <3>1. Len(s) + 1 \in A
      BY <1>1, <1>2, <1>3, <2>1
    <3>2. QED BY <3>1
  <2>2. CASE Len(t) < Len(s)
    <3>1. Len(t) + 1 \in A
      BY <1>1, <1>2, <1>3, <2>2
    <3>2. QED BY <3>1
  <2>3. QED BY <1>1, <2>1, <2>2
<1>9. at \in A /\ \A j \in A : at <= j
  <2> HIDE DEF A
  <2>1. QED BY <1>7, <1>8, MinIs
<1>10. /\ at \in 1 .. Len(x) /\ at \in 1 .. Len(y)
       /\ x[at] = 0 \/ y[at] = 0 \/ x[at] # y[at]
  BY <1>1, <1>2, <1>3, <1>9
<1> HIDE DEF at
<1>11. ASSUME s = t PROVE strcmp(s, t) = 0
  <2>1. x[at] = y[at]
    BY <1>11 DEF x, y
  <2>2. QED BY <1>4, <1>5, <1>10, <2>1
<1>12. ASSUME strcmp(s, t) = 0 PROVE s = t
  <2>0. x[at] = y[at]
    BY <1>4, <1>5, <1>6, <1>10, <1>12
  <2>1. x[at] = 0 /\ y[at] = 0
    BY <1>10, <2>0
  <2>2. at = Len(s) + 1
    BY <1>1, <1>2, <1>10, <2>1
  <2>3. at = Len(t) + 1
    <3>1. at \in 1 .. (Len(t) + 1) /\ at \notin 1 .. Len(t)
      BY <1>3, <1>10, <2>1
    <3>2. QED BY <1>1, <3>1
  <2>4. Len(s) = Len(t)
    BY <1>1, <2>2, <2>3
  <2>5. \A j \in 1 .. Len(s) : s[j] = t[j]
    <3> SUFFICES ASSUME NEW j \in 1 .. Len(s), x[j] # y[j] PROVE FALSE
      BY <1>2, <1>3, <2>4
    <3>1. j \in A
      BY <1>1, <1>2, <1>3, <2>4
    <3>2. at <= j
      BY <1>9, <3>1
    <3>3. QED BY <1>1, <2>2, <3>2
  <2>6. QED BY <2>4, <2>5, SeqEqual
<1>13. QED BY <1>11, <1>12

----------------------------------------------------------------------------
(***************************************************************************)
(* Short names.                                                            *)
(***************************************************************************)
Letters == Octets \ {0, Dot}

\* A field is its text and spaces.
LEMMA ProperIs ==
  ASSUME NEW f \in Seq(Octets), Proper(f)
  PROVE  LET t == Before(f, {Space})
         IN  /\ t \in Seq(Letters) /\ Len(t) \in 0 .. Len(f)
             /\ \A j \in 1 .. Len(t) : f[j] = t[j]
             /\ \A j \in (Len(t) + 1) .. Len(f) : f[j] = Space
             /\ Len(f) # 0 => (t = <<>> <=> f[1] = Space)
<1> DEFINE t == Before(f, {Space})
<1>1. /\ t \in Seq(Octets) /\ Len(t) \in 0 .. Len(f)
      /\ \A j \in 1 .. Len(t) : t[j] = f[j] /\ f[j] \notin {Space}
  BY BeforeIs
<1>2. /\ \A j \in (Len(t) + 1) .. Len(f) : f[j] = Space
      /\ \A j \in 1 .. Len(f) : f[j] \notin {Dot, 0}
  <2>1. DOMAIN f = 1 .. Len(f)
    OBVIOUS
  <2>2. QED BY <2>1 DEF Proper
<1> HIDE DEF t
<1>3. \A j \in 1 .. Len(t) : t[j] \in Letters
  <2>1. \A j \in 1 .. Len(t) : j \in 1 .. Len(f) /\ t[j] \in Octets
    BY <1>1
  <2>2. QED BY <1>1, <1>2, <2>1 DEF Letters
<1>4. t \in Seq(Letters)
  <2>1. Len(t) \in Nat /\ t \in [1 .. Len(t) -> Octets]
    BY <1>1, LenProperties
  <2>2. t \in [1 .. Len(t) -> Letters]
    BY <1>3, <2>1
  <2>3. QED BY <2>1, <2>2, SeqDef, Zenon
<1>5. Len(f) # 0 => (t = <<>> <=> f[1] = Space)
  <2>1. t = <<>> <=> Len(t) = 0
    BY <1>1
  <2>2. Len(f) \in Nat /\ Len(t) \in Nat
    BY <1>1
  <2>3. Len(f) # 0 /\ Len(t) = 0 => f[1] = Space
    BY <1>2, <2>2
  <2>4. Len(t) # 0 => f[1] # Space
    BY <1>1, <2>2
  <2>5. QED BY <2>1, <2>3, <2>4
<1>6. QED BY <1>1, <1>2, <1>4, <1>5 DEF t

\* The text decides the field.
LEMMA FieldIs ==
  ASSUME NEW f \in Seq(Octets), NEW g \in Seq(Octets), Len(f) = Len(g), Proper(f), Proper(g),
         Before(f, {Space}) = Before(g, {Space})
  PROVE  f = g
<1> DEFINE t == Before(f, {Space})
<1>1. /\ t \in Seq(Letters) /\ Len(t) \in 0 .. Len(f)
      /\ \A j \in 1 .. Len(t) : f[j] = t[j]
      /\ \A j \in (Len(t) + 1) .. Len(f) : f[j] = Space
  BY ProperIs
<1>2. /\ \A j \in 1 .. Len(t) : g[j] = t[j]
      /\ \A j \in (Len(t) + 1) .. Len(f) : g[j] = Space
  BY ProperIs
<1> HIDE DEF t
<1>3. \A j \in 1 .. Len(f) : j \in 1 .. Len(t) \/ j \in (Len(t) + 1) .. Len(f)
  BY <1>1
<1>4. \A j \in 1 .. Len(f) : f[j] = g[j]
  BY <1>1, <1>2, <1>3
<1>5. QED BY <1>4, SeqEqual

\* A text without dots, and a dot and an extension behind it if there is one.
Dotted(t, x) == t \o (IF x = <<>> THEN <<>> ELSE <<Dot>> \o x)

\* The only dot parts the text from the extension.
LEMMA DottedApart ==
  ASSUME NEW t \in Seq(Letters), NEW x \in Seq(Letters), NEW u \in Seq(Letters), NEW y \in Seq(Letters),
         Dotted(t, x) = Dotted(u, y)
  PROVE  t = u /\ x = y
<1> DEFINE tail(z) == IF z = <<>> THEN <<>> ELSE <<Dot>> \o z
           a == Dotted(t, x)
<1>0. Dot \in Int /\ Letters \subseteq Int
  BY DEF Dot, Letters, Octets
<1>1. ASSUME NEW z \in Seq(Letters)
      PROVE  /\ tail(z) \in Seq(Int) /\ Len(tail(z)) = (IF z = <<>> THEN 0 ELSE Len(z) + 1)
             /\ z # <<>> => tail(z)[1] = Dot /\ \A j \in 1 .. Len(z) : tail(z)[j + 1] = z[j]
             /\ z \in Seq(Int) /\ \A j \in 1 .. Len(z) : z[j] # Dot
             /\ Len(z) \in Nat
  <2>0. z \in Seq(Int)
    BY <1>0, SeqMonotonic
  <2>1. z \in Seq(Int) /\ <<Dot>> \in Seq(Int) /\ Len(<<Dot>>) = 1 /\ <<Dot>>[1] = Dot
    BY <1>0, <2>0
  <2>2. \A j \in 1 .. Len(z) : z[j] # Dot
    <3>1. \A j \in 1 .. Len(z) : z[j] \in Letters
      OBVIOUS
    <3>2. QED BY <3>1 DEF Letters
  <2> DEFINE d == <<Dot>>
             w == d \o z
  <2> HIDE DEF d
  <2>3. w \in Seq(Int) /\ Len(w) = Len(z) + 1 /\ w[1] = Dot /\ \A j \in 1 .. Len(z) : w[j + 1] = z[j]
    BY <2>1 DEF d
  <2> HIDE DEF w
  <2>4. tail(z) = IF z = <<>> THEN <<>> ELSE w
    BY DEF w, d
  <2>5. QED BY <2>1, <2>2, <2>3, <2>4
<1>2. a = t \o tail(x) /\ a = u \o tail(y)
  BY DEF Dotted
<1> HIDE DEF tail, a
<1>15. t \in Seq(Int) /\ u \in Seq(Int) /\ tail(x) \in Seq(Int) /\ tail(y) \in Seq(Int)
  BY <1>1
<1>16. \A p, q \in Seq(Int) : /\ Len(p \o q) = Len(p) + Len(q)
                              /\ \A j \in 1 .. Len(p) : (p \o q)[j] = p[j]
                              /\ \A j \in 1 .. Len(q) : (p \o q)[Len(p) + j] = q[j]
  OBVIOUS
<1>3. /\ Len(a) = Len(t) + Len(tail(x)) /\ \A j \in 1 .. Len(t) : a[j] = t[j]
      /\ \A j \in 1 .. Len(tail(x)) : a[Len(t) + j] = tail(x)[j]
  <2>1. a = t \o tail(x)
    BY <1>2
  <2>2. QED BY <1>15, <1>16, <2>1, Zenon
<1>4. /\ Len(a) = Len(u) + Len(tail(y)) /\ \A j \in 1 .. Len(u) : a[j] = u[j]
      /\ \A j \in 1 .. Len(tail(y)) : a[Len(u) + j] = tail(y)[j]
  BY <1>2, <1>15, <1>16
<1>5. /\ Len(t) \in Nat /\ Len(u) \in Nat /\ Len(x) \in Nat /\ Len(y) \in Nat
      /\ Len(tail(x)) \in Nat /\ Len(tail(y)) \in Nat
  BY <1>1
<1>6. ~(Len(t) < Len(u))
  <2> SUFFICES ASSUME Len(t) < Len(u) PROVE FALSE
    OBVIOUS
  <2>1. Len(tail(x)) # 0 /\ Len(t) + 1 \in 1 .. Len(u) /\ 1 \in 1 .. Len(tail(x))
    BY <1>3, <1>4, <1>5
  <2>2. x # <<>>
    BY <1>1, <2>1
  <2>3. a[Len(t) + 1] = Dot
    BY <1>1, <1>3, <2>1, <2>2
  <2>4. a[Len(t) + 1] = u[Len(t) + 1]
    BY <1>4, <2>1
  <2>5. QED BY <1>1, <2>1, <2>3, <2>4
<1>7. ~(Len(u) < Len(t))
  <2> SUFFICES ASSUME Len(u) < Len(t) PROVE FALSE
    OBVIOUS
  <2>1. Len(tail(y)) # 0 /\ Len(u) + 1 \in 1 .. Len(t) /\ 1 \in 1 .. Len(tail(y))
    BY <1>3, <1>4, <1>5
  <2>2. y # <<>>
    BY <1>1, <2>1
  <2>3. a[Len(u) + 1] = Dot
    BY <1>1, <1>4, <2>1, <2>2
  <2>4. a[Len(u) + 1] = t[Len(u) + 1]
    BY <1>3, <2>1
  <2>5. QED BY <1>1, <2>1, <2>3, <2>4
<1>8. Len(t) = Len(u) /\ Len(tail(x)) = Len(tail(y))
  BY <1>3, <1>4, <1>5, <1>6, <1>7
<1>9. t = u
  BY <1>3, <1>4, <1>8, SeqEqual
<1>10. \A j \in 1 .. Len(tail(x)) : tail(x)[j] = tail(y)[j]
  BY <1>3, <1>4, <1>8
<1>11. Len(x) = Len(y)
  <2>1. (x = <<>> <=> Len(x) = 0) /\ (y = <<>> <=> Len(y) = 0)
    OBVIOUS
  <2>2. /\ x = <<>> => Len(tail(x)) = 0
        /\ x # <<>> => Len(tail(x)) = Len(x) + 1
        /\ y = <<>> => Len(tail(y)) = 0
        /\ y # <<>> => Len(tail(y)) = Len(y) + 1
    BY <1>1, Zenon
  <2>3. CASE x = <<>>
    <3>1. Len(tail(x)) = 0
      BY <2>2, <2>3, Zenon
    <3>2. Len(tail(y)) = 0
      BY <1>8, <3>1, Zenon
    <3>3. y = <<>>
      <4>1. Len(tail(y)) # Len(y) + 1
        BY <1>5, <3>2
      <4>2. QED BY <2>2, <4>1, Zenon
    <3>4. QED BY <2>1, <2>3, <3>3, Zenon
  <2>4. CASE x # <<>>
    BY <1>5, <1>8, <2>1, <2>2, <2>4
  <2>5. QED BY <2>3, <2>4
<1>12. \A j \in 1 .. Len(x) : x[j] = y[j]
  <2> SUFFICES ASSUME NEW j \in 1 .. Len(x) PROVE x[j] = y[j]
    OBVIOUS
  <2>1. x # <<>> /\ y # <<>>
    BY <1>5, <1>11
  <2>2. j \in 1 .. Len(y) /\ j + 1 \in 1 .. Len(tail(x))
    BY <1>1, <1>5, <1>11, <2>1
  <2>3. tail(x)[j + 1] = x[j] /\ tail(y)[j + 1] = y[j]
    BY <1>1, <2>1, <2>2
  <2>4. QED BY <1>10, <2>2, <2>3
<1>13. x = y
  BY <1>11, <1>12, SeqEqual
<1>14. QED BY <1>9, <1>13

LEMMA ShortIs ==
  ASSUME NEW n \in ShortNames
  PROVE  LET f == First(n, Base)
             x == SubSeq(n, Base + 1, Base + Ext)
         IN  /\ f \in Seq(Octets) /\ Len(f) = Base /\ \A j \in 1 .. Base : f[j] = n[j]
             /\ x \in Seq(Octets) /\ Len(x) = Ext /\ \A j \in 1 .. Ext : x[j] = n[Base + j]
<1>1. Base \in Nat /\ Ext \in Nat /\ Ext # 0 /\ n \in [1 .. (Base + Ext) -> Octets]
  BY TextAssumption DEF Octets
<1>2. Len(n) = Base + Ext
  BY <1>1
<1>3. First(n, Base) = SubSeq(n, 1, Base)
  BY <1>1, <1>2 DEF First
<1>4. \A j \in 1 .. Base : n[j] \in Octets
  BY <1>1
<1>5. \A j \in (Base + 1) .. (Base + Ext) : n[j] \in Octets
  BY <1>1
<1>6. SubSeq(n, 1, Base) \in Seq(Octets) /\ Len(SubSeq(n, 1, Base)) = Base
      /\ \A j \in 1 .. Base : SubSeq(n, 1, Base)[j] = n[j]
  <2>1. /\ SubSeq(n, 1, Base) \in Seq(Octets)
        /\ Len(SubSeq(n, 1, Base)) = IF 1 <= Base THEN Base - 1 + 1 ELSE 0
        /\ \A j \in 1 .. Base - 1 + 1 : SubSeq(n, 1, Base)[j] = n[1 + j - 1]
    BY <1>1, <1>4, SubSeqProperties
  <2>2. Base - 1 + 1 = Base /\ \A j \in 1 .. Base : 1 + j - 1 = j
    BY <1>1
  <2>3. QED BY <1>1, <2>1, <2>2
<1>7. LET x == SubSeq(n, Base + 1, Base + Ext)
      IN  x \in Seq(Octets) /\ Len(x) = Ext /\ \A j \in 1 .. Ext : x[j] = n[Base + j]
  <2> DEFINE x == SubSeq(n, Base + 1, Base + Ext)
  <2>0. Base + 1 \in Int /\ Base + Ext \in Int /\ Base + 1 <= Base + Ext
        /\ (Base + Ext) - (Base + 1) + 1 = Ext /\ \A j \in 1 .. Ext : (Base + 1) + j - 1 = Base + j
    BY <1>1
  <2>1. /\ x \in Seq(Octets)
        /\ Len(x) = IF Base + 1 <= Base + Ext THEN (Base + Ext) - (Base + 1) + 1 ELSE 0
        /\ \A j \in 1 .. (Base + Ext) - (Base + 1) + 1 : x[j] = n[(Base + 1) + j - 1]
    BY <1>5, <2>0, SubSeqProperties
  <2> HIDE DEF x
  <2>2. x \in Seq(Octets) /\ Len(x) = Ext /\ \A j \in 1 .. Ext : x[j] = n[Base + j]
    BY <2>0, <2>1
  <2>3. QED BY <2>2 DEF x
<1>8. QED BY <1>3, <1>6, <1>7

\* The string of a proper name, and its parts.
LEMMA StringIs ==
  ASSUME NEW n \in ShortNames, ProperName(n)
  PROVE  LET t == Before(First(n, Base), {Space})
             x == Before(SubSeq(n, Base + 1, Base + Ext), {Space})
         IN  /\ fat_sfn_to_string(n) = Dotted(t, x)
             /\ t \in Seq(Letters) /\ x \in Seq(Letters)
             /\ fat_sfn_to_string(n) \in Seq(Octets \ {0})
<1> DEFINE f == First(n, Base)
           e == SubSeq(n, Base + 1, Base + Ext)
           t == Before(f, {Space})
           x == Before(e, {Space})
<1>1. f \in Seq(Octets) /\ e \in Seq(Octets) /\ Len(e) = Ext
  BY ShortIs
<1>2. Proper(f) /\ Proper(e) /\ Ext # 0
  BY TextAssumption DEF ProperName
<1>0. fat_sfn_to_string(n) = t \o Extension(e)
  BY DEF fat_sfn_to_string
<1> HIDE DEF f, e
<1>3. t \in Seq(Letters)
  BY <1>1, <1>2, ProperIs
<1>4. x \in Seq(Letters) /\ (x = <<>> <=> e[1] = Space)
  BY <1>1, <1>2, ProperIs
<1>5. Extension(e) = IF x = <<>> THEN <<>> ELSE <<Dot>> \o x
  BY <1>4 DEF Extension
<1>6. fat_sfn_to_string(n) = Dotted(t, x)
  BY <1>0, <1>5 DEF Dotted
<1> HIDE DEF t, x
<1>7. Dotted(t, x) \in Seq(Octets \ {0})
  <2>1. Dot \in Octets \ {0} /\ Letters \subseteq Octets \ {0}
    BY DEF Dot, Octets, Letters
  <2> DEFINE C == Octets \ {0}
  <2> HIDE DEF C
  <2>2. t \in Seq(C) /\ x \in Seq(C)
    BY <1>3, <1>4, <2>1, SeqMonotonic DEF C
  <2>3. <<Dot>> \in Seq(C) /\ <<>> \in Seq(C)
    BY <2>1 DEF C
  <2>4. <<Dot>> \o x \in Seq(C)
    BY <2>2, <2>3, ConcatProperties
  <2>5. Dotted(t, x) \in Seq(C)
    BY <2>2, <2>3, <2>4, ConcatProperties DEF Dotted
  <2>6. QED BY <2>5 DEF C
<1>8. QED BY <1>3, <1>4, <1>6, <1>7 DEF t, x, f, e

LEMMA NamesApart ==
  ASSUME NEW a \in ShortNames, NEW b \in ShortNames, ProperName(a), ProperName(b)
  PROVE  strcmp(fat_sfn_to_string(a), fat_sfn_to_string(b)) = 0 <=> a = b
<1> DEFINE fa == First(a, Base)
           fb == First(b, Base)
           ea == SubSeq(a, Base + 1, Base + Ext)
           eb == SubSeq(b, Base + 1, Base + Ext)
           s(n) == fat_sfn_to_string(n)
<1>1. strcmp(s(a), s(b)) = 0 <=> s(a) = s(b)
  BY StringIs, strcmpIs
<1>2. ASSUME s(a) = s(b) PROVE a = b
  <2>1. Before(fa, {Space}) = Before(fb, {Space}) /\ Before(ea, {Space}) = Before(eb, {Space})
    <3> DEFINE ta == Before(fa, {Space})
               tb == Before(fb, {Space})
               xa == Before(ea, {Space})
               xb == Before(eb, {Space})
    <3>1. s(a) = Dotted(ta, xa) /\ ta \in Seq(Letters) /\ xa \in Seq(Letters)
      BY StringIs
    <3>2. s(b) = Dotted(tb, xb) /\ tb \in Seq(Letters) /\ xb \in Seq(Letters)
      BY StringIs
    <3> HIDE DEF ta, tb, xa, xb
    <3>3. ta = tb /\ xa = xb
      BY <1>2, <3>1, <3>2, DottedApart
    <3>4. QED BY <3>3 DEF ta, tb, xa, xb
  <2>2. /\ fa \in Seq(Octets) /\ Len(fa) = Base /\ \A j \in 1 .. Base : fa[j] = a[j]
        /\ ea \in Seq(Octets) /\ Len(ea) = Ext /\ \A j \in 1 .. Ext : ea[j] = a[Base + j]
    BY ShortIs
  <2>3. /\ fb \in Seq(Octets) /\ Len(fb) = Base /\ \A j \in 1 .. Base : fb[j] = b[j]
        /\ eb \in Seq(Octets) /\ Len(eb) = Ext /\ \A j \in 1 .. Ext : eb[j] = b[Base + j]
    BY ShortIs
  <2>4. Proper(fa) /\ Proper(fb) /\ Proper(ea) /\ Proper(eb)
    BY DEF ProperName
  <2> HIDE DEF fa, fb, ea, eb
  <2>5. fa = fb
    BY <2>1, <2>2, <2>3, <2>4, FieldIs
  <2>6. ea = eb
    BY <2>1, <2>2, <2>3, <2>4, FieldIs
  <2>7. Base \in Nat /\ Ext \in Nat /\ a \in [1 .. (Base + Ext) -> Octets] /\ b \in [1 .. (Base + Ext) -> Octets]
    BY TextAssumption DEF Octets
  <2>8. ASSUME NEW j \in 1 .. (Base + Ext) PROVE a[j] = b[j]
    <3>1. CASE j \in 1 .. Base
      BY <2>2, <2>3, <2>5, <3>1
    <3>2. CASE j \notin 1 .. Base
      <4>1. j - Base \in 1 .. Ext /\ Base + (j - Base) = j
        BY <2>7, <3>2
      <4>2. ea[j - Base] = a[j] /\ eb[j - Base] = b[j]
        BY <2>2, <2>3, <4>1
      <4>3. QED BY <2>6, <4>2
    <3>3. QED BY <3>1, <3>2
  <2>9. QED BY <2>7, <2>8
<1>3. QED BY <1>1, <1>2

\* Strings tell short names apart as the fields do, for every size of the fields.
THEOREM NamesApartAlways == Spec => []NamesTellApart
<1>1. Init => NamesTellApart
  BY NoneIs DEF Init, NamesTellApart
<1>2. NamesTellApart /\ [Next]_call => NamesTellApart'
  <2> SUFFICES ASSUME NamesTellApart, [Next]_call PROVE NamesTellApart'
    OBVIOUS
  <2>1. CASE call' = None
    BY <2>1, NoneIs DEF NamesTellApart
  <2>2. CASE call' = call
    BY <2>2 DEF NamesTellApart
  <2>3. CASE Format \/ ReadLong \/ Seal
    BY <2>3, Kinds DEF NamesTellApart
  <2>4. CASE CompareShort
    <3>1. PICK a \in ShortNames, b \in ShortNames :
            call' = [fn |-> "short", a |-> a, b |-> b,
                     order |-> strcmp(fat_sfn_to_string(a), fat_sfn_to_string(b)),
                     sums |-> <<fat_sfn_checksum(a), fat_sfn_checksum(b)>>]
      BY <2>4 DEF CompareShort
    <3>2. call'.a = a /\ call'.b = b /\ call'.order = strcmp(fat_sfn_to_string(a), fat_sfn_to_string(b))
      BY <3>1
    <3>3. QED BY <3>2, NamesApart DEF NamesTellApart
  <2>5. QED BY <2>1, <2>2, <2>3, <2>4, Steps
<1>3. QED BY <1>1, <1>2, PTL DEF Spec

----------------------------------------------------------------------------
(***************************************************************************)
(* Long names.                                                             *)
(***************************************************************************)
Least2(a, b) == IF a < b THEN a ELSE b

\* How many of len places behind the first o are among the first n.
Held(n, o, len) == IF n <= o THEN 0 ELSE Least2(n - o, len)

\* What g has in the len places behind the first o.
Part(g, o, len) == [j \in 1 .. Held(Len(g), o, len) |-> g[o + j]]

\* What the lemmas say of parts, as predicates so that a proof can name an instance.
HeldJoins(n, o, a, b) ==
  /\ Held(n, o, a + b) = Held(n, o, a) + Held(n, o + a, b)
  /\ Held(n, o + a, b) # 0 => Held(n, o, a) = a

LEMMA HeldJoin ==
  ASSUME NEW n \in Nat, NEW o \in Nat, NEW a \in Nat, NEW b \in Nat
  PROVE  HeldJoins(n, o, a, b)
<1>1. CASE n <= o
  BY <1>1 DEF Held, HeldJoins
<1>2. CASE o < n /\ n <= o + a
  BY <1>2 DEF Held, Least2, HeldJoins
<1>3. CASE o + a < n
  BY <1>3 DEF Held, Least2, HeldJoins
<1>4. QED BY <1>1, <1>2, <1>3

LEMMA SeqIs == ASSUME NEW S, NEW n \in Nat, NEW p \in [1 .. n -> S] PROVE p \in Seq(S)
  BY SeqDef, Zenon

Concats(S, p, q) ==
  /\ p \o q \in Seq(S) /\ Len(p \o q) = Len(p) + Len(q)
  /\ \A j \in 1 .. Len(p) : (p \o q)[j] = p[j]
  /\ \A j \in 1 .. Len(q) : (p \o q)[Len(p) + j] = q[j]

LEMMA ConcatIs == ASSUME NEW S, NEW p \in Seq(S), NEW q \in Seq(S) PROVE Concats(S, p, q)
  BY DEF Concats

Parts(S, g, o, len) ==
  /\ Held(Len(g), o, len) \in 0 .. len
  /\ Part(g, o, len) \in Seq(S) /\ Len(Part(g, o, len)) = Held(Len(g), o, len)
  /\ \A j \in 1 .. Held(Len(g), o, len) : Part(g, o, len)[j] = g[o + j] /\ o + j \in 1 .. Len(g)

LEMMA PartIs ==
  ASSUME NEW S, NEW g \in Seq(S), NEW o \in Nat, NEW len \in Nat
  PROVE  Parts(S, g, o, len)
<1> DEFINE n == Held(Len(g), o, len)
           p == Part(g, o, len)
<1>1. n \in Nat /\ n \in 0 .. len /\ \A j \in 1 .. n : o + j \in 1 .. Len(g)
  BY DEF Held, Least2
<1>2. p = [j \in 1 .. n |-> g[o + j]]
  BY DEF Part
<1> HIDE DEF n, p
<1>3. n \in Nat
  BY <1>1
<1>4. \A j \in 1 .. n : g[o + j] \in S
  BY <1>1, ElementOfSeq, Zenon
<1>5. p \in [1 .. n -> S]
  BY <1>2, <1>4
<1>6. p \in Seq(S)
  BY <1>3, <1>5, SeqIs
<1>7. Len(p) = n
  BY <1>1, <1>2
<1>8. QED BY <1>1, <1>2, <1>6, <1>7 DEF n, p, Parts

PartsJoin(g, o, a, b) == Part(g, o, a) \o Part(g, o + a, b) = Part(g, o, a + b)

LEMMA PartJoin ==
  ASSUME NEW S, NEW g \in Seq(S), NEW o \in Nat, NEW a \in Nat, NEW b \in Nat
  PROVE  PartsJoin(g, o, a, b)
<1> DEFINE x == Part(g, o, a)
           y == Part(g, o + a, b)
           z == Part(g, o, a + b)
           l == Held(Len(g), o, a)
           m == Held(Len(g), o + a, b)
           n == Held(Len(g), o, a + b)
<1>0. o + a \in Nat /\ a + b \in Nat /\ Len(g) \in Nat
  OBVIOUS
<1>1. /\ l \in 0 .. a /\ x \in Seq(S) /\ Len(x) = l
      /\ \A j \in 1 .. l : x[j] = g[o + j]
  <2>1. Parts(S, g, o, a)
    BY PartIs
  <2>2. QED BY <2>1 DEF Parts
<1>2. /\ m \in 0 .. b /\ y \in Seq(S) /\ Len(y) = m
      /\ \A j \in 1 .. m : y[j] = g[(o + a) + j]
  <2>1. Parts(S, g, o + a, b)
    BY <1>0, PartIs
  <2>2. QED BY <2>1 DEF Parts
<1>3. /\ n \in 0 .. (a + b) /\ z \in Seq(S) /\ Len(z) = n
      /\ \A j \in 1 .. n : z[j] = g[o + j]
  <2>1. Parts(S, g, o, a + b)
    BY <1>0, PartIs
  <2>2. QED BY <2>1 DEF Parts
<1>4. n = l + m /\ (m # 0 => l = a)
  <2>1. HeldJoins(Len(g), o, a, b)
    BY <1>0, HeldJoin
  <2>2. QED BY <2>1 DEF HeldJoins
<1> HIDE DEF x, y, z, l, m, n
<1>5. /\ x \o y \in Seq(S) /\ Len(x \o y) = l + m
      /\ \A j \in 1 .. l : (x \o y)[j] = x[j]
      /\ \A j \in 1 .. m : (x \o y)[l + j] = y[j]
  <2>1. Concats(S, x, y)
    BY <1>1, <1>2, ConcatIs
  <2>2. QED BY <1>1, <1>2, <2>1 DEF Concats
<1>6. ASSUME NEW j \in 1 .. n PROVE (x \o y)[j] = z[j]
  <2>1. CASE j \in 1 .. l
    BY <1>1, <1>3, <1>5, <2>1
  <2>2. CASE j \notin 1 .. l
    <3>1. j - l \in 1 .. m /\ l + (j - l) = j /\ l = a /\ (o + a) + (j - l) = o + j
      BY <1>0, <1>1, <1>2, <1>4, <2>2
    <3>2. (x \o y)[l + (j - l)] = y[j - l]
      BY <1>5, <3>1
    <3>3. y[j - l] = g[(o + a) + (j - l)]
      BY <1>2, <3>1
    <3>4. QED BY <1>3, <3>1, <3>2, <3>3
  <2>3. QED BY <2>1, <2>2
<1>7. x \o y = z
  BY <1>3, <1>4, <1>5, <1>6, SeqEqual
<1>8. QED BY <1>7 DEF x, y, z, PartsJoin

LEMMA PartFirst ==
  ASSUME NEW S, NEW g \in Seq(S), NEW o \in Nat, NEW a \in Nat, NEW m \in Nat
  PROVE  First(Part(g, o, a), m) = Part(g, o, Least2(a, m))
<1> DEFINE x == Part(g, o, a)
           c == Least2(a, m)
           z == Part(g, o, c)
           l == Held(Len(g), o, a)
           n == Held(Len(g), o, c)
<1>0. c \in Nat /\ Len(g) \in Nat
  BY DEF Least2
<1>1. l \in 0 .. a /\ x \in Seq(S) /\ Len(x) = l /\ \A j \in 1 .. l : x[j] = g[o + j]
  <2>1. Parts(S, g, o, a)
    BY PartIs
  <2>2. QED BY <2>1 DEF Parts
<1>2. n \in 0 .. c /\ z \in Seq(S) /\ Len(z) = n /\ \A j \in 1 .. n : z[j] = g[o + j]
  <2> HIDE DEF c
  <2>1. Parts(S, g, o, c)
    BY <1>0, PartIs
  <2>2. QED BY <2>1 DEF Parts
<1>3. n = (IF m < l THEN m ELSE l) /\ n <= l
  BY <1>0 DEF Held, Least2
<1> HIDE DEF x, z, l, n
<1>4. First(x, m) = SubSeq(x, 1, n)
  BY <1>1, <1>3 DEF First
<1>5. SubSeq(x, 1, n) \in Seq(S) /\ Len(SubSeq(x, 1, n)) = n /\ \A j \in 1 .. n : SubSeq(x, 1, n)[j] = x[j]
  BY <1>1, <1>2, <1>3
<1>6. \A j \in 1 .. n : SubSeq(x, 1, n)[j] = z[j]
  BY <1>1, <1>2, <1>3, <1>5
<1>7. SubSeq(x, 1, n) = z
  BY <1>2, <1>5, <1>6, SeqEqual
<1>8. QED BY <1>4, <1>7 DEF x, z

\* How a row is joined to the name so far.
LEMMA JoinedIs ==
  ASSUME NEW S, NEW g \in Seq(S), NEW p \in Nat, NEW u \in Nat, NEW m \in Nat, m = MAX_FILENAME_LEN - 1
  PROVE  Joined(Part(g, 0, Least2(p, m)), Part(g, p, u)) = Part(g, 0, Least2(p + u, m))
<1> DEFINE w == Least2(p, m)
           s == Part(g, 0, w)
           row == Part(g, p, u)
           v == Least2(p + u, m)
<1>0. w \in Nat /\ v \in Nat /\ Len(g) \in Nat /\ 0 \in Nat
  BY DEF Least2
<1>1. s \in Seq(S) /\ Len(s) = Held(Len(g), 0, w)
  <2> HIDE DEF w
  <2>1. Parts(S, g, 0, w)
    BY <1>0, PartIs
  <2>2. QED BY <2>1 DEF Parts
<1>2. row \in Seq(S) /\ Len(row) = Held(Len(g), p, u)
  <2>1. Parts(S, g, p, u)
    BY PartIs
  <2>2. QED BY <2>1 DEF Parts
<1>3. row = <<>> <=> Held(Len(g), p, u) = 0
  BY <1>2
<1>4. CASE Held(Len(g), p, u) = 0
  <2>1. Joined(s, row) = s
    BY <1>3, <1>4 DEF Joined
  <2>2. Held(Len(g), 0, w) = Held(Len(g), 0, v)
    BY <1>0, <1>4 DEF Held, Least2
  <2>3. s = Part(g, 0, v)
    BY <2>2 DEF Part
  <2>4. QED BY <2>1, <2>3
<1>5. CASE Held(Len(g), p, u) # 0
  <2> DEFINE r == m - w
  <2>1. p < Len(g) /\ Len(s) = w /\ r \in Nat /\ (r # 0 => w = p)
    BY <1>0, <1>1, <1>5 DEF Held, Least2
  <2>2. Joined(s, row) = s \o First(row, r)
    <3>1. row # <<>>
      BY <1>3, <1>5
    <3>2. MAX_FILENAME_LEN - 1 - Len(s) = r
      BY <2>1
    <3> HIDE DEF s, row, r, w
    <3>3. QED BY <3>1, <3>2 DEF Joined, strncat
  <2>3. First(row, r) = Part(g, p, Least2(u, r))
    <3> HIDE DEF r
    <3>1. QED BY <2>1, PartFirst
  <2> DEFINE q == Least2(u, r)
  <2>4. q \in Nat /\ (q # 0 => w = p) /\ w + q = v
    BY <1>0, <2>1 DEF Least2
  <2>5. CASE q = 0
    <3>1. Part(g, p, q) = <<>>
      <4>1. Held(Len(g), p, q) = 0
        BY <1>0, <2>1, <2>5 DEF Held, Least2
      <4> HIDE DEF q
      <4>2. Len(Part(g, p, q)) = 0 /\ Part(g, p, q) \in Seq(S)
        <5>1. Parts(S, g, p, q)
          BY <2>4, PartIs
        <5>2. QED BY <4>1, <5>1 DEF Parts
      <4>3. QED BY <4>2
    <3>2. w = v
      BY <1>0, <2>4, <2>5
    <3> HIDE DEF w, v, q, r, row
    <3>3. s \o <<>> = s
      BY <1>1
    <3>4. Joined(s, row) = s
      BY <2>2, <2>3, <3>1, <3>3 DEF q
    <3>5. QED BY <3>2, <3>4, Zenon DEF w, v, row
  <2>6. CASE q # 0
    <3>1. w = p /\ 0 + w = w
      BY <1>0, <2>4, <2>6
    <3> HIDE DEF w, v, q, r, row
    <3>2. Part(g, 0, w) \o Part(g, 0 + w, q) = Part(g, 0, w + q)
      <4>1. PartsJoin(g, 0, w, q)
        BY <1>0, <2>4, PartJoin
      <4>2. QED BY <4>1 DEF PartsJoin
    <3>3. Part(g, 0, w) \o Part(g, p, q) = Part(g, 0, v)
      BY <2>4, <3>1, <3>2
    <3>4. Joined(s, row) = Part(g, 0, v)
      BY <2>2, <2>3, <3>3 DEF q
    <3>5. QED BY <3>4, Zenon DEF w, v, row
  <2>7. QED BY <2>5, <2>6
<1>6. QED BY <1>4, <1>5

\* The units of names, what is shown of one, and the characters shown.
Chars == (0 .. PadUnit) \ {0, PadUnit}
Shown(c) == IF c < 128 THEN c ELSE Question
ShownAll(s) == [j \in DOMAIN s |-> Shown(s[j])]
Ascii == 0 .. 127

\* The unit that a volume has at place j of a name's entries.
Unit(name, j) == IF j <= Len(name) THEN name[j] ELSE IF j = Len(name) + 1 THEN 0 ELSE PadUnit

LEMMA ShownIs ==
  ASSUME NEW name \in Seq(Chars)
  PROVE  /\ ShownAll(name) \in Seq(Ascii) /\ Len(ShownAll(name)) = Len(name)
         /\ \A j \in 1 .. Len(name) : ShownAll(name)[j] = Shown(name[j])
<1> DEFINE n == Len(name)
           g == ShownAll(name)
<1>1. n \in Nat /\ DOMAIN name = 1 .. n /\ \A j \in 1 .. n : name[j] \in Chars
  OBVIOUS
<1>2. \A c \in Chars : Shown(c) \in Ascii
  BY DEF Chars, Shown, Ascii, Question
<1>3. g = [j \in 1 .. n |-> Shown(name[j])]
  BY <1>1 DEF ShownAll
<1> HIDE DEF g, n
<1>4. g \in [1 .. n -> Ascii]
  BY <1>1, <1>2, <1>3
<1>5. g \in Seq(Ascii)
  BY <1>1, <1>4, SeqIs
<1>6. Len(g) = n
  BY <1>1, <1>3
<1>7. QED BY <1>3, <1>5, <1>6 DEF n, g

\* What fat_lfn_to_utf8 makes of a field: the part of the name that is in it.
FieldReads(name, o, len, s, max) ==
  fat_lfn_to_utf8([j \in 1 .. len |-> Unit(name, o + j)], s, max) = s \o Part(ShownAll(name), o, len)

LEMMA FieldReadIs ==
  ASSUME NEW name \in Seq(Chars), NEW o \in Nat, NEW len \in Nat,
         NEW s \in Seq(Ascii), NEW max \in Nat, Len(s) + len < max
  PROVE  FieldReads(name, o, len, s, max)
<1> DEFINE units == [j \in 1 .. len |-> Unit(name, o + j)]
<1>0. units = [j \in 1 .. len |-> Unit(name, o + j)]
  OBVIOUS
<1> HIDE DEF units
<1> DEFINE L == Len(name)
           g == ShownAll(name)
           h == Held(L, o, len)
           p == Part(g, o, len)
           m == Len(Before(units, StopUnits))
           shown == ShownAll(units)
           q == SubSeq(shown, 1, m)
<1>1. L \in Nat /\ Len(s) \in Nat /\ Len(g) = L /\ g \in Seq(Ascii) /\ \A j \in 1 .. L : name[j] \in Chars
  BY ShownIs
<1>2. \A j \in 1 .. len : units[j] = Unit(name, o + j)
  BY <1>0
<1>3. \A j \in 1 .. len : o + j <= L => o + j \in 1 .. L /\ units[j] = name[o + j] /\ units[j] \notin StopUnits
  <2> SUFFICES ASSUME NEW j \in 1 .. len, o + j <= L
               PROVE  o + j \in 1 .. L /\ units[j] = name[o + j] /\ units[j] \notin StopUnits
    OBVIOUS
  <2>1. o + j \in 1 .. L
    BY <1>1
  <2>2. units[j] = name[o + j]
    BY <1>2 DEF Unit
  <2>3. name[o + j] \in Chars
    BY <1>1, <2>1
  <2>4. QED BY <2>1, <2>2, <2>3 DEF Chars, StopUnits
<1>4. \A j \in 1 .. len : ~(o + j <= L) => units[j] \in StopUnits
  BY <1>1, <1>2 DEF Unit, StopUnits
<1>5. units \in Seq(Chars \cup StopUnits) /\ Len(units) = len /\ DOMAIN units = 1 .. len
  <2>1. \A j \in 1 .. len : units[j] \in Chars \cup StopUnits
    BY <1>1, <1>3, <1>4
  <2>2. units \in [1 .. len -> Chars \cup StopUnits]
    BY <1>0, <2>1
  <2>3. units \in Seq(Chars \cup StopUnits)
    BY <2>2, SeqIs
  <2>4. QED BY <1>0, <2>3
<1>6. /\ m \in 0 .. len
      /\ \A j \in 1 .. m : units[j] \notin StopUnits
      /\ m < len => units[m + 1] \in StopUnits
  <2>1. /\ m \in 0 .. Len(units)
        /\ \A j \in 1 .. m : units[j] \notin StopUnits
        /\ m < Len(units) => units[m + 1] \in StopUnits
    BY <1>5, BeforeIs
  <2> HIDE DEF m
  <2>2. QED BY <1>5, <2>1
<1> HIDE DEF m
<1>7. m = h
  <2>1. m # 0 => o + m <= L
    <3>1. m # 0 => m \in 1 .. m /\ m \in 1 .. len
      BY <1>6
    <3>2. QED BY <1>4, <1>6, <3>1, Zenon
  <2>2. m < len => ~(o + (m + 1) <= L)
    <3>1. m < len => m + 1 \in 1 .. len
      BY <1>6
    <3>2. QED BY <1>3, <1>6, <3>1, Zenon
  <2>3. QED BY <1>1, <1>6, <2>1, <2>2 DEF Held, Least2
<1>8. p \in Seq(Ascii) /\ Len(p) = h /\ \A j \in 1 .. h : p[j] = g[o + j] /\ o + j \in 1 .. L
  <2>1. Parts(Ascii, g, o, len)
    BY <1>1, PartIs
  <2>2. QED BY <1>1, <2>1 DEF Parts
<1>9. \A j \in 1 .. len : shown[j] = Shown(units[j])
  BY <1>5 DEF ShownAll
<1>10. \A j \in 1 .. m : shown[j] = p[j]
  <2> SUFFICES ASSUME NEW j \in 1 .. m PROVE shown[j] = p[j]
    OBVIOUS
  <2>1. j \in 1 .. len /\ j \in 1 .. h
    BY <1>6, <1>7
  <2>2. p[j] = g[o + j] /\ o + j \in 1 .. L
    BY <1>8, <2>1
  <2>3. g[o + j] = Shown(name[o + j])
    BY <2>2, ShownIs
  <2>4. units[j] = name[o + j]
    <3>1. o + j <= L
      BY <1>1, <2>2
    <3>2. QED BY <1>3, <2>1, <3>1, Zenon
  <2>5. QED BY <1>9, <2>1, <2>2, <2>3, <2>4
<1> HIDE DEF p, g, h, shown
<1>11. q \in Seq(Ascii) /\ Len(q) = m /\ \A j \in 1 .. m : q[j] = shown[j]
  <2>1. m \in Nat /\ 1 \in Int /\ m \in Int
    BY <1>6
  <2>2. \A j \in 1 .. m : shown[j] \in Ascii
    BY <1>7, <1>8, <1>10
  <2>3. /\ q \in Seq(Ascii)
        /\ Len(q) = IF 1 <= m THEN m - 1 + 1 ELSE 0
        /\ \A j \in 1 .. m - 1 + 1 : q[j] = shown[1 + j - 1]
    BY <2>1, <2>2, SubSeqProperties
  <2>4. m - 1 + 1 = m /\ \A j \in 1 .. m : 1 + j - 1 = j
    BY <2>1
  <2> HIDE DEF q
  <2>5. QED BY <2>1, <2>3, <2>4
<1>12. q = p
  <2> HIDE DEF q
  <2>1. QED BY <1>7, <1>8, <1>10, <1>11, SeqEqual
<1>13. First(p, max - 1 - Len(s)) = p
  <2>1. Len(p) <= max - 1 - Len(s) /\ Len(p) \in Nat /\ max - 1 - Len(s) \in Nat
    BY <1>1, <1>6, <1>7, <1>8
  <2>2. First(p, max - 1 - Len(s)) = SubSeq(p, 1, Len(p))
    BY <2>1 DEF First
  <2>3. QED BY <1>8, <2>2, SubSeqFull
<1>14. fat_lfn_to_utf8(units, s, max) = s \o First(q, max - 1 - Len(s))
  BY DEF fat_lfn_to_utf8, m, shown, ShownAll, Shown
<1>15. fat_lfn_to_utf8(units, s, max) = s \o p
  <2> HIDE DEF q
  <2>1. QED BY <1>12, <1>13, <1>14
<1>16. QED BY <1>15 DEF p, g, units, FieldReads

\* As many entries as hold a name.
LEMMA Rounded ==
  ASSUME NEW n \in Nat, NEW u \in Nat \ {0}
  PROVE  (n + u - 1) \div u \in Nat /\ ((n + u - 1) \div u) * u >= n
<1> DEFINE x == n + u - 1
<1>1. x \in Nat /\ x - u = n - 1
  OBVIOUS
<1> HIDE DEF x
<1>2. x \div u \in Nat
  BY <1>1
<1>3. (x \div u) * u > x - u
  BY <1>1
<1>4. (x \div u) * u \in Nat
  BY <1>2
<1>5. (x \div u) * u >= n
  BY <1>1, <1>3, <1>4
<1>6. QED BY <1>2, <1>5 DEF x

\* A row: the part of the name in the three fields of its entry.
LEMMA RowIs ==
  ASSUME NEW name \in Seq(Chars), NEW e \in DOMAIN Entries(name)
  PROVE  /\ DOMAIN Entries(name) = 1 .. Len(Entries(name))
         /\ (e - 1) * Units \in Nat
         /\ Row(Entries(name)[e]) = Part(ShownAll(name), (e - 1) * Units, Units)
<1> DEFINE n == (Len(name) + Units - 1) \div Units
           o == (e - 1) * Units
           a == Fields[1]
           b == Fields[2]
           c == Fields[3]
           f1 == [j \in 1 .. a |-> Unit(name, o + j)]
           f2 == [j \in 1 .. b |-> Unit(name, (o + a) + j)]
           f3 == [j \in 1 .. c |-> Unit(name, (o + (a + b)) + j)]
           g == ShownAll(name)
           M == MAX_FILENAME_LEN
<1>1. a \in Nat /\ b \in Nat /\ c \in Nat /\ Units = a + b + c /\ Units \in Nat /\ Units # 0 /\ Units < M /\ M \in Nat
  <2>1. Fields \in [1 .. 3 -> Nat] /\ Units # 0 /\ Units < M /\ M \in Nat
    BY TextAssumption
  <2>2. QED BY <2>1 DEF Units
<1>2. Entries(name) = [k \in 1 .. n |->
         << [j \in 1 .. a |-> Unit(name, (k - 1) * Units + 0 + j)],
            [j \in 1 .. b |-> Unit(name, (k - 1) * Units + a + j)],
            [j \in 1 .. c |-> Unit(name, (k - 1) * Units + (a + b) + j)] >>]
  BY DEF Entries, Unit
<1> HIDE DEF n
<1>3. DOMAIN Entries(name) = 1 .. n /\ e \in 1 .. n
  BY <1>2
<1>4. n \in Nat /\ Len(name) \in Nat
  <2>1. Len(name) \in Nat /\ Units \in Nat \ {0}
    BY <1>1
  <2>2. QED BY <2>1, Rounded, Zenon DEF n
<1>5. Len(Entries(name)) = n
  BY <1>2, <1>4
<1>6. o \in Nat
  BY <1>1, <1>3, <1>4
<1> HIDE DEF a, b, c, o
<1>7. Entries(name)[e] = <<f1, f2, f3>>
  <2>1. \A j \in Nat : /\ (e - 1) * Units + 0 + j = o + j
                       /\ (e - 1) * Units + a + j = (o + a) + j
                       /\ (e - 1) * Units + (a + b) + j = (o + (a + b)) + j
    BY <1>1, <1>6 DEF o
  <2>2. Entries(name)[e] = << [j \in 1 .. a |-> Unit(name, (e - 1) * Units + 0 + j)],
                              [j \in 1 .. b |-> Unit(name, (e - 1) * Units + a + j)],
                              [j \in 1 .. c |-> Unit(name, (e - 1) * Units + (a + b) + j)] >>
    BY <1>2, <1>3, Zenon
  <2>3. [j \in 1 .. a |-> Unit(name, (e - 1) * Units + 0 + j)] = f1
    BY <1>1, <2>1
  <2>4. [j \in 1 .. b |-> Unit(name, (e - 1) * Units + a + j)] = f2
    BY <1>1, <2>1
  <2>5. [j \in 1 .. c |-> Unit(name, (e - 1) * Units + (a + b) + j)] = f3
    BY <1>1, <2>1
  <2>6. QED BY <2>2, <2>3, <2>4, <2>5
<1>8. g \in Seq(Ascii)
  BY ShownIs
<1>9. /\ o + a \in Nat /\ a + b \in Nat /\ o + (a + b) \in Nat /\ (a + b) + c = Units
      /\ o + a + b = o + (a + b)
  BY <1>1, <1>6
<1> DEFINE p1 == Part(g, o, a)
           p2 == Part(g, o, a + b)
<1>10. p1 \in Seq(Ascii) /\ Len(p1) \in 0 .. a
  <2>1. Parts(Ascii, g, o, a)
    BY <1>1, <1>6, <1>8, PartIs
  <2>2. QED BY <2>1 DEF Parts
<1>11. p2 \in Seq(Ascii) /\ Len(p2) \in 0 .. (a + b)
  <2>1. Parts(Ascii, g, o, a + b)
    BY <1>6, <1>8, <1>9, PartIs
  <2>2. QED BY <2>1 DEF Parts
<1>12. fat_lfn_to_utf8(f1, <<>>, M) = p1
  <2>1. <<>> \in Seq(Ascii) /\ Len(<<>>) + a < M
    BY <1>1
  <2>2. fat_lfn_to_utf8(f1, <<>>, M) = <<>> \o p1
    <3>1. FieldReads(name, o, a, <<>>, M)
      BY <1>1, <1>6, <2>1, FieldReadIs
    <3>2. QED BY <3>1 DEF FieldReads
  <2> HIDE DEF p1, f1
  <2>3. QED BY <1>10, <2>2
<1>13. fat_lfn_to_utf8(f2, p1, M) = p2
  <2>1. Len(p1) + b < M
    BY <1>1, <1>10
  <2>2. fat_lfn_to_utf8(f2, p1, M) = p1 \o Part(g, o + a, b)
    <3> HIDE DEF p1
    <3>1. FieldReads(name, o + a, b, p1, M)
      BY <1>1, <1>9, <1>10, <2>1, FieldReadIs
    <3>2. QED BY <3>1 DEF FieldReads
  <2>3. PartsJoin(g, o, a, b)
    BY <1>1, <1>6, <1>8, PartJoin
  <2>4. QED BY <2>2, <2>3 DEF PartsJoin
<1>14. fat_lfn_to_utf8(f3, p2, M) = Part(g, o, Units)
  <2>1. Len(p2) + c < M
    BY <1>1, <1>11
  <2>2. fat_lfn_to_utf8(f3, p2, M) = p2 \o Part(g, o + (a + b), c)
    <3> HIDE DEF p2
    <3>1. FieldReads(name, o + (a + b), c, p2, M)
      BY <1>1, <1>9, <1>11, <2>1, FieldReadIs
    <3>2. QED BY <3>1 DEF FieldReads
  <2>3. PartsJoin(g, o, a + b, c)
    BY <1>1, <1>6, <1>8, <1>9, PartJoin
  <2>4. QED BY <1>9, <2>2, <2>3 DEF PartsJoin
<1>15. Row(Entries(name)[e]) = Part(g, o, Units)
  <2> HIDE DEF f1, f2, f3, g, p1, p2
  <2>1. QED BY <1>7, <1>12, <1>13, <1>14 DEF Row
<1>16. QED BY <1>3, <1>5, <1>6, <1>15 DEF o

LEMMA JoinedAscii ==
  ASSUME NEW s \in Seq(Ascii), NEW row \in Seq(Ascii)
  PROVE  Joined(s, row) \in Seq(Ascii)
<1> DEFINE x == MAX_FILENAME_LEN - 1 - Len(s)
           m == IF x < Len(row) THEN x ELSE Len(row)
           q == SubSeq(row, 1, m)
<1>1. x \in Int /\ m \in Int /\ m <= Len(row) /\ 1 \in Int
  BY TextAssumption
<1>2. \A j \in 1 .. m : j \in 1 .. Len(row)
  BY <1>1
<1>3. Joined(s, row) = IF row = <<>> THEN s ELSE s \o q
  BY DEF Joined, strncat, First
<1> HIDE DEF x, m
<1>4. \A j \in 1 .. m : row[j] \in Ascii
  BY <1>2
<1>5. q \in Seq(Ascii)
  BY <1>1, <1>4, SubSeqProperties
<1> HIDE DEF q
<1>6. Concats(Ascii, s, q)
  BY <1>5, ConcatIs
<1>7. QED BY <1>3, <1>6 DEF Concats

\* Of none and some, none is the least.
LEMMA LeastNone == \A x \in Nat : Least2(0, x) = 0
  BY DEF Least2

\* The rows of a name become the name, as far as there is room.
LEMMA AssembledIs ==
  ASSUME NEW name \in Seq(Chars), NEW rows, NEW n \in Nat, NEW u \in Nat, n * u >= Len(name),
         rows \in [1 .. n -> Seq(Ascii)],
         \A k \in 1 .. n : (k - 1) * u \in Nat /\ rows[k] = Part(ShownAll(name), (k - 1) * u, u)
  PROVE  Assembled(rows) = First(ShownAll(name), MAX_FILENAME_LEN - 1)
<1> DEFINE g == ShownAll(name)
           m == MAX_FILENAME_LEN - 1
           A == Seq(Ascii)
           turn == [k \in 1 .. n |-> [s \in A |-> Joined(s, rows[k])]]
<1>1. m \in Nat /\ m = MAX_FILENAME_LEN - 1
  <2>1. MAX_FILENAME_LEN \in Nat /\ Units < MAX_FILENAME_LEN /\ Units \in Nat
    BY TextAssumption DEF Units
  <2>2. QED BY <2>1
<1>2. turn \in [1 .. n -> [A -> A]]
  BY JoinedAscii
<1>3. \A k \in 1 .. n : \A s \in A : turn[k][s] = Joined(s, rows[k])
  OBVIOUS
<1>4. Assembled(rows) = Loop(n, <<>>, turn)
  <2>1. Len(rows) = n
    OBVIOUS
  <2>2. QED BY <2>1 DEF Assembled, Ascii
<1>5. <<>> \in A
  OBVIOUS
<1> HIDE DEF turn, A
<1>6. PICK h : Turned(A, n, <<>>, turn, h) /\ Loop(n, <<>>, turn) = h[n]
  BY <1>2, <1>5, Loops
<1>7. h \in [0 .. n -> A] /\ h[0] = <<>> /\ \A k \in 1 .. n : h[k] = turn[k][h[k - 1]]
  BY <1>6 DEF Turned
<1>8. g \in Seq(Ascii) /\ Len(g) = Len(name) /\ Len(g) \in Nat
  BY ShownIs
<1> HIDE DEF g, m
<1> DEFINE T == {k \in Nat : k <= n => h[k] = Part(g, 0, Least2(k * u, m))}
<1>9. 0 \in T
  <2>1. Least2(0 * u, m) = 0
    <3>1. 0 * u = 0
      OBVIOUS
    <3>2. Least2(0, m) = 0
      BY <1>1, LeastNone
    <3>3. QED BY <3>1, <3>2
  <2>2. Part(g, 0, 0) = <<>>
    <3>1. Parts(Ascii, g, 0, 0)
      BY <1>8, PartIs
    <3>2. Part(g, 0, 0) \in Seq(Ascii) /\ Len(Part(g, 0, 0)) = 0
      BY <3>1 DEF Parts
    <3>3. QED BY <3>2
  <2>3. QED BY <1>7, <2>1, <2>2
<1>10. ASSUME NEW k \in Nat, k \in T PROVE k + 1 \in T
  <2> SUFFICES ASSUME k + 1 <= n PROVE h[k + 1] = Part(g, 0, Least2((k + 1) * u, m))
    OBVIOUS
  <2>1. k + 1 \in 1 .. n /\ (k + 1) - 1 = k /\ k \in 0 .. n
    OBVIOUS
  <2> DEFINE p == k * u
  <2>2. p \in Nat /\ (k + 1) * u = p + u
    OBVIOUS
  <2>3. h[k] = Part(g, 0, Least2(p, m)) /\ h[k] \in A
    <3>1. k \in T /\ k <= n
      BY <1>10, <2>1
    <3>2. h[k] = Part(g, 0, Least2(k * u, m))
      BY <3>1, Zenon
    <3>3. h[k] \in A
      BY <1>7, <2>1
    <3>4. QED BY <3>2, <3>3
  <2>4. h[k + 1] = Joined(h[k], rows[k + 1])
    BY <1>3, <1>7, <2>1, <2>3
  <2>5. rows[k + 1] = Part(g, p, u)
    <3>1. rows[k + 1] = Part(g, ((k + 1) - 1) * u, u)
      BY <2>1 DEF g
    <3>2. QED BY <2>1, <3>1
  <2> HIDE DEF p
  <2>6. Joined(Part(g, 0, Least2(p, m)), Part(g, p, u)) = Part(g, 0, Least2(p + u, m))
    BY <1>1, <1>8, <2>2, JoinedIs
  <2>7. QED BY <2>2, <2>3, <2>4, <2>5, <2>6
<1> HIDE DEF T
<1>11. Nat \subseteq T
  BY <1>9, <1>10, Upward
<1>12. h[n] = Part(g, 0, Least2(n * u, m))
  BY <1>11 DEF T
<1>13. Part(g, 0, Least2(n * u, m)) = First(g, m)
  <2> DEFINE p == n * u
             c == Least2(p, m)
             d == IF m < Len(g) THEN m ELSE Len(g)
             q == SubSeq(g, 1, d)
  <2>1. p \in Nat /\ p >= Len(g)
    BY <1>8
  <2> HIDE DEF p
  <2>2. c \in Nat /\ Held(Len(g), 0, c) = d /\ d \in 0 .. Len(g)
    BY <1>1, <1>8, <2>1 DEF Held, Least2
  <2> HIDE DEF c, d
  <2>3. Parts(Ascii, g, 0, c)
    BY <1>8, <2>2, PartIs
  <2>4. /\ Part(g, 0, c) \in Seq(Ascii) /\ Len(Part(g, 0, c)) = d
        /\ \A j \in 1 .. d : Part(g, 0, c)[j] = g[0 + j]
    BY <2>2, <2>3 DEF Parts
  <2>5. q \in Seq(Ascii) /\ Len(q) = d /\ \A j \in 1 .. d : q[j] = g[j]
    BY <1>8, <2>2
  <2>6. \A j \in 1 .. d : 0 + j = j
    OBVIOUS
  <2> HIDE DEF q
  <2>7. \A j \in 1 .. d : Part(g, 0, c)[j] = q[j]
    BY <2>4, <2>5, <2>6
  <2>8. Part(g, 0, c) = q
    BY <2>4, <2>5, <2>7, SeqEqual
  <2>9. QED BY <2>8 DEF First, q, d, c, p
<1>14. QED BY <1>4, <1>6, <1>12, <1>13 DEF g, m

\* A long name comes back from its entries, whatever the sizes of the fields, the
\* rows and the names, as long as an entry fits a row and a name.
THEOREM LongNamesRight == Spec => []LongNameRight
<1>1. Init => LongNameRight
  BY NoneIs DEF Init, LongNameRight
<1>2. LongNameRight /\ [Next]_call => LongNameRight'
  <2> SUFFICES ASSUME LongNameRight, [Next]_call PROVE LongNameRight'
    OBVIOUS
  <2>1. CASE call' = None
    BY <2>1, NoneIs DEF LongNameRight
  <2>2. CASE call' = call
    BY <2>2 DEF LongNameRight
  <2>3. CASE Format \/ CompareShort \/ Seal
    BY <2>3, Kinds DEF LongNameRight
  <2>4. CASE ReadLong
    <3> DEFINE R(name) == [e \in DOMAIN Entries(name) |-> Row(Entries(name)[e])]
    <3>1. PICK name \in LongTexts :
            call' = [fn |-> "long", of |-> name, rows |-> R(name), out |-> Assembled(R(name))]
      BY <2>4 DEF ReadLong
    <3> DEFINE rows == R(name)
               g == ShownAll(name)
               n == (Len(name) + Units - 1) \div Units
    <3>2. call'.of = name /\ call'.rows = rows /\ call'.out = Assembled(rows)
      BY <3>1
    <3>3. name \in Seq(Chars)
      BY TextAssumption DEF Chars
    <3>4. Units \in Nat /\ Units # 0 /\ RowSize \in Nat /\ Units < RowSize
      BY TextAssumption DEF Units
    <3>5. n \in Nat /\ n * Units >= Len(name)
      <4>1. Len(name) \in Nat /\ Units \in Nat \ {0}
        BY <3>3, <3>4
      <4>2. QED BY <4>1, Rounded, Zenon
    <3>6. DOMAIN Entries(name) = 1 .. n
      BY DEF Entries
    <3>7. DOMAIN rows = 1 .. n /\ \A e \in 1 .. n : rows[e] = Row(Entries(name)[e])
      BY <3>6
    <3>14. rows = [e \in 1 .. n |-> rows[e]]
      BY <3>6
    <3> HIDE DEF rows, n
    <3>8. \A e \in 1 .. n : (e - 1) * Units \in Nat /\ rows[e] = Part(g, (e - 1) * Units, Units)
      BY <3>3, <3>6, <3>7, RowIs
    <3>9. g \in Seq(Ascii)
      BY <3>3, ShownIs
    <3>10. \A e \in 1 .. n : rows[e] \in Seq(Ascii) /\ Len(rows[e]) < RowSize
      <4> SUFFICES ASSUME NEW e \in 1 .. n PROVE rows[e] \in Seq(Ascii) /\ Len(rows[e]) < RowSize
        OBVIOUS
      <4> DEFINE o == (e - 1) * Units
      <4>1. o \in Nat /\ rows[e] = Part(g, o, Units)
        BY <3>8
      <4> HIDE DEF o, g
      <4>2. Parts(Ascii, g, o, Units)
        BY <3>4, <3>9, <4>1, PartIs
      <4>3. Part(g, o, Units) \in Seq(Ascii) /\ Len(Part(g, o, Units)) \in 0 .. Units
        BY <4>2 DEF Parts
      <4>4. QED BY <3>4, <4>1, <4>3
    <3>11. rows \in [1 .. n -> Seq(Ascii)]
      BY <3>10, <3>14
    <3>12. Assembled(rows) = First(g, MAX_FILENAME_LEN - 1)
      BY <3>3, <3>4, <3>5, <3>8, <3>11, AssembledIs
    <3>13. g = [j \in DOMAIN name |-> IF name[j] < 128 THEN name[j] ELSE Question]
      BY DEF ShownAll, Shown
    <3>15. QED BY <3>2, <3>7, <3>10, <3>12, <3>13 DEF LongNameRight
  <2>5. QED BY <2>1, <2>2, <2>3, <2>4, Steps
<1>3. QED BY <1>1, <1>2, PTL DEF Spec
=============================================================================
