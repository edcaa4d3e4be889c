---------------------------- MODULE EnergyProofs ----------------------------
(***************************************************************************)
(* Facts about the sums of Energy.tla, for any number of entries.          *)
(***************************************************************************)
EXTENDS Energy, WellFoundedInduction, TLAPS

(* Every non-empty set of naturals has a least element.                    *)
LEMMA LeastElement ==
  ASSUME NEW T \in SUBSET Nat, T # {}
  PROVE  \E n \in T : \A m \in T : n <= m
<1>1. PICK n \in T : \A m \in T : ~(<<m, n>> \in OpToRel(<, Nat))
  BY WFMin, NatLessThanWellFounded
<1>2. \A m \in T : ~(m < n)
  BY <1>1 DEF OpToRel
<1> QED
  BY <1>2

(* Induction up to N, on the set of the numbers that have the property.    *)
LEMMA UpTo ==
  ASSUME NEW N \in Nat, NEW P \in SUBSET (0..N), 0 \in P,
         \A k \in 1..N : k - 1 \in P => k \in P
  PROVE  P = 0..N
<1> DEFINE T == (0..N) \ P
<1>1. SUFFICES ASSUME T # {} PROVE FALSE
  OBVIOUS
<1>2. T \in SUBSET Nat
  OBVIOUS
<1>3. PICK k \in T : \A m \in T : k <= m
  BY <1>1, <1>2, LeastElement
<1>4. k \in 1..N /\ k \notin P
  OBVIOUS
<1>5. k - 1 \in 0..N /\ ~(k <= k - 1)
  BY <1>4
<1>6. k - 1 \notin T
  BY ONLY <1>3, <1>5
<1> QED
  BY <1>4, <1>5, <1>6

(* f holds the partial sums of the first n entries.                        *)
Partial(order, v, n, f) ==
  /\ f \in [0..n -> Int]
  /\ f[0] = 0
  /\ \A k \in 1..n : f[k] = f[k - 1] + v[order[k]]

(* The partial sums exist: the recursive definition of SumOver is sound.   *)
LEMMA PartialExists ==
  ASSUME NEW S, NEW order \in Seq(S), NEW v \in [S -> Int]
  PROVE  \E f : Partial(order, v, Len(order), f)
<1> DEFINE P == {n \in 0..Len(order) : \E f : Partial(order, v, n, f)}
<1>0. Len(order) \in Nat
  OBVIOUS
<1>1. 0 \in P
  <2>1. Partial(order, v, 0, [k \in 0..0 |-> 0])
    BY DEF Partial
  <2> QED
    BY <1>0, <2>1
<1>2. ASSUME NEW n \in 1..Len(order), n - 1 \in P PROVE n \in P
  <2>1. PICK f : Partial(order, v, n - 1, f)
    BY <1>2
  <2> DEFINE g == [k \in 0..n |-> IF k = n THEN f[n - 1] + v[order[n]] ELSE f[k]]
  <2>2. order[n] \in S /\ f[n - 1] \in Int
    BY <2>1 DEF Partial
  <2>3. g \in [0..n -> Int]
    BY <2>1, <2>2 DEF Partial
  <2>4. Partial(order, v, n, g)
    BY <2>1, <2>2, <2>3 DEF Partial
  <2> QED
    BY <2>4
<1>3. P = 0..Len(order)
  <2>1. P \in SUBSET (0..Len(order))
    OBVIOUS
  <2> HIDE DEF P
  <2> QED
    BY <1>0, <1>1, <1>2, <2>1, UpTo
<1> QED
  BY <1>0, <1>3

(* SumOver is the last partial sum.                                        *)
LEMMA SumIsPartial ==
  ASSUME NEW S, NEW order \in Seq(S), NEW v \in [S -> Int]
  PROVE  \E f : Partial(order, v, Len(order), f) /\ SumOver(order, v) = f[Len(order)]
<1> DEFINE N == Len(order)
<1> DEFINE Body(s) == [k \in 0..N |-> IF k = 0 THEN 0 ELSE s[k - 1] + v[order[k]]]
<1> DEFINE s == CHOOSE s : s = Body(s)
<1>1. N \in Nat
  OBVIOUS
<1>2. PICK f : Partial(order, v, N, f)
  BY PartialExists
<1>3. f = Body(f)
  BY <1>1, <1>2 DEF Partial
<1>4. s = Body(s)
  BY <1>3
<1>5. SumOver(order, v) = s[N]
  BY DEF SumOver
<1> HIDE DEF s
<1> DEFINE P == {k \in 0..N : s[k] = f[k]}
<1>6. 0 \in P
  BY <1>1, <1>2, <1>4 DEF Partial
<1>7. ASSUME NEW k \in 1..N, k - 1 \in P PROVE k \in P
  <2>1. s[k] = s[k - 1] + v[order[k]]
    BY <1>1, <1>4
  <2>2. f[k] = f[k - 1] + v[order[k]]
    BY <1>2 DEF Partial
  <2> QED
    BY <1>7, <2>1, <2>2
<1>8. P = 0..N
  <2>1. P \in SUBSET (0..N)
    OBVIOUS
  <2> HIDE DEF P
  <2> QED
    BY <1>1, <1>6, <1>7, <2>1, UpTo
<1>9. SumOver(order, v) = f[N]
  BY <1>1, <1>5, <1>8
<1> QED
  BY <1>2, <1>9

LEMMA SumInt ==
  ASSUME NEW S, NEW order \in Seq(S), NEW v \in [S -> Int]
  PROVE  SumOver(order, v) \in Int
<1>1. PICK f : Partial(order, v, Len(order), f) /\ SumOver(order, v) = f[Len(order)]
  BY SumIsPartial
<1> QED
  BY <1>1 DEF Partial

(* w is the sum of u and v, entry by entry.                                *)
Adds(S, order, u, v, w) ==
  /\ order \in Seq(S)
  /\ u \in [S -> Int] /\ v \in [S -> Int] /\ w \in [S -> Int]
  /\ \A a \in S : w[a] = u[a] + v[a]

(* Sums add up.                                                            *)
LEMMA SumAdd ==
  ASSUME NEW S, NEW order, NEW u, NEW v, NEW w, Adds(S, order, u, v, w)
  PROVE  SumOver(order, w) = SumOver(order, u) + SumOver(order, v)
<1> DEFINE N == Len(order)
<1>0. /\ N \in Nat /\ order \in Seq(S)
      /\ u \in [S -> Int] /\ v \in [S -> Int] /\ w \in [S -> Int]
  BY DEF Adds
<1>1. PICK f : Partial(order, u, N, f) /\ SumOver(order, u) = f[N]
  BY <1>0, SumIsPartial
<1>2. PICK g : Partial(order, v, N, g) /\ SumOver(order, v) = g[N]
  BY <1>0, SumIsPartial
<1>3. PICK h : Partial(order, w, N, h) /\ SumOver(order, w) = h[N]
  BY <1>0, SumIsPartial
<1> DEFINE P == {k \in 0..N : h[k] = f[k] + g[k]}
<1>4. 0 \in P
  BY <1>0, <1>1, <1>2, <1>3 DEF Partial
<1>5. ASSUME NEW k \in 1..N, k - 1 \in P PROVE k \in P
  <2>1. /\ f[k] = f[k - 1] + u[order[k]]
        /\ g[k] = g[k - 1] + v[order[k]]
        /\ h[k] = h[k - 1] + w[order[k]]
        /\ f[k - 1] \in Int /\ g[k - 1] \in Int
    <3>1. k - 1 \in 0..N
      BY <1>0
    <3>2. f[k] = f[k - 1] + u[order[k]] /\ f[k - 1] \in Int
      BY <1>1, <3>1 DEF Partial
    <3>3. g[k] = g[k - 1] + v[order[k]] /\ g[k - 1] \in Int
      BY <1>2, <3>1 DEF Partial
    <3>4. h[k] = h[k - 1] + w[order[k]]
      BY <1>3 DEF Partial
    <3> QED
      BY <3>2, <3>3, <3>4
  <2>2. /\ w[order[k]] = u[order[k]] + v[order[k]]
        /\ u[order[k]] \in Int /\ v[order[k]] \in Int
    BY <1>0 DEF Adds
  <2>3. h[k - 1] = f[k - 1] + g[k - 1]
    BY <1>5
  <2>4. \A i, j, p, q \in Int : (i + j) + (p + q) = (i + p) + (j + q)
    OBVIOUS
  <2>5. h[k] = f[k] + g[k]
    BY ONLY <2>1, <2>2, <2>3, <2>4
  <2> QED
    BY <2>5
<1>6. P = 0..N
  <2>1. P \in SUBSET (0..N)
    OBVIOUS
  <2> HIDE DEF P
  <2> QED
    BY <1>0, <1>4, <1>5, <2>1, UpTo
<1> QED
  BY <1>0, <1>1, <1>2, <1>3, <1>6

NonNegative(S, v) == \A a \in S : v[a] >= 0

(* A sum of non-negative entries is at least each of them, and never       *)
(* negative.                                                               *)
LEMMA SumDominates ==
  ASSUME NEW S, NEW order \in Seq(S), NEW v \in [S -> Int], NonNegative(S, v)
  PROVE  /\ SumOver(order, v) >= 0
         /\ \A a \in Keys(order) : SumOver(order, v) >= v[a]
<1> DEFINE N == Len(order)
<1>0. N \in Nat
  OBVIOUS
<1>1. PICK f : Partial(order, v, N, f) /\ SumOver(order, v) = f[N]
  BY SumIsPartial
<1> DEFINE Dominates(k) == f[k] >= 0 /\ \A l \in 1..k : f[k] >= v[order[l]]
<1> DEFINE P == {k \in 0..N : Dominates(k)}
<1>2. 0 \in P
  BY <1>0, <1>1 DEF Partial
<1>3. ASSUME NEW k \in 1..N, k - 1 \in P PROVE k \in P
  <2>1. f[k] = f[k - 1] + v[order[k]] /\ f[k - 1] \in Int
    <3>1. k - 1 \in 0..N
      BY <1>0
    <3> QED
      BY <1>1, <3>1 DEF Partial
  <2>2. \A l \in 1..N : v[order[l]] \in Int /\ v[order[l]] >= 0
    BY DEF NonNegative
  <2>3. f[k - 1] >= 0 /\ \A l \in 1..(k - 1) : f[k - 1] >= v[order[l]]
    BY <1>3
  <2>4. f[k] \in Int /\ f[k] >= 0 /\ f[k] >= f[k - 1] /\ f[k] >= v[order[k]]
    BY ONLY <2>1, <2>2, <2>3, k \in 1..N
  <2>5. ASSUME NEW l \in 1..k PROVE f[k] >= v[order[l]]
    <3>1. CASE l = k
      BY <3>1, <2>4
    <3>2. CASE l # k
      <4>1. l \in 1..(k - 1) /\ v[order[l]] \in Int
        BY <1>0, <2>2, <3>2
      <4>2. f[k - 1] >= v[order[l]]
        BY <4>1, <2>3
      <4> QED
        BY ONLY <4>1, <4>2, <2>1, <2>4
    <3> QED
      BY <3>1, <3>2
  <2> QED
    BY <2>4, <2>5
<1>4. P = 0..N
  <2>1. P \in SUBSET (0..N)
    OBVIOUS
  <2> HIDE DEF P
  <2> QED
    BY <1>0, <1>2, <1>3, <2>1, UpTo
<1> QED
  BY <1>0, <1>1, <1>4 DEF Keys

Once(order) == \A k, l \in 1..Len(order) : order[k] = order[l] => k = l

(* w is v with x more at a.                                                *)
Raised(S, v, w, a, x) == \A b \in S : w[b] = v[b] + (IF b = a THEN x ELSE 0)

(* Changing the entry of one key, which occurs once, changes the sum by    *)
(* as much.                                                                *)
LEMMA SumChange ==
  ASSUME NEW S, NEW order \in Seq(S), NEW v \in [S -> Int], NEW w \in [S -> Int],
         Once(order), NEW a \in Keys(order), NEW x \in Int, Raised(S, v, w, a, x)
  PROVE  SumOver(order, w) = SumOver(order, v) + x
<1> DEFINE N == Len(order)
<1>0. N \in Nat
  OBVIOUS
<1>1. PICK p \in 1..N : order[p] = a
  BY DEF Keys
<1>2. \A k \in 1..N : /\ w[order[k]] = v[order[k]] + (IF k = p THEN x ELSE 0)
                      /\ v[order[k]] \in Int
  BY <1>1 DEF Raised, Once
<1>3. PICK f : Partial(order, v, N, f) /\ SumOver(order, v) = f[N]
  BY SumIsPartial
<1>4. PICK g : Partial(order, w, N, g) /\ SumOver(order, w) = g[N]
  BY SumIsPartial
<1> DEFINE P == {k \in 0..N : g[k] = f[k] + (IF p <= k THEN x ELSE 0)}
<1>5. 0 \in P
  BY <1>0, <1>1, <1>3, <1>4 DEF Partial
<1>6. ASSUME NEW k \in 1..N, k - 1 \in P PROVE k \in P
  <2>1. /\ f[k] = f[k - 1] + v[order[k]]
        /\ g[k] = g[k - 1] + w[order[k]]
        /\ f[k - 1] \in Int
    <3>1. k - 1 \in 0..N
      BY <1>0
    <3>2. f[k] = f[k - 1] + v[order[k]] /\ f[k - 1] \in Int
      BY <1>3, <3>1 DEF Partial
    <3>3. g[k] = g[k - 1] + w[order[k]]
      BY <1>4 DEF Partial
    <3> QED
      BY <3>2, <3>3
  <2>2. g[k - 1] = f[k - 1] + (IF p <= k - 1 THEN x ELSE 0)
    BY <1>6
  <2>3. /\ w[order[k]] = v[order[k]] + (IF k = p THEN x ELSE 0)
        /\ v[order[k]] \in Int
    BY <1>2
  <2>4. g[k] = f[k] + (IF p <= k THEN x ELSE 0)
    <3>1. CASE k < p
      BY ONLY <2>1, <2>2, <2>3, <3>1, p \in Nat, k \in Nat, x \in Int
    <3>2. CASE k = p
      BY ONLY <2>1, <2>2, <2>3, <3>2, p \in Nat, k \in Nat, x \in Int
    <3>3. CASE k > p
      BY ONLY <2>1, <2>2, <2>3, <3>3, p \in Nat, k \in Nat, x \in Int
    <3> QED
      BY <3>1, <3>2, <3>3, <1>0
  <2> QED
    BY <2>4
<1>7. P = 0..N
  <2>1. P \in SUBSET (0..N)
    OBVIOUS
  <2> HIDE DEF P
  <2> QED
    BY <1>0, <1>5, <1>6, <2>1, UpTo
<1>8. g[N] = f[N] + x
  BY <1>0, <1>1, <1>7
<1> QED
  BY <1>3, <1>4, <1>8

(* w is v with x moved from a to b.                                        *)
Moved(S, order, v, w, a, b, x) ==
  /\ order \in Seq(S) /\ Once(order)
  /\ v \in [S -> Int] /\ x \in Int
  /\ a \in Keys(order) /\ b \in Keys(order) /\ a # b
  /\ w = [v EXCEPT ![a] = @ - x, ![b] = @ + x]

(* Moving an amount between two different entries leaves the sum alone.    *)
LEMMA SumTransfer ==
  ASSUME NEW S, NEW order, NEW v, NEW w, NEW a, NEW b, NEW x,
         Moved(S, order, v, w, a, b, x)
  PROVE  SumOver(order, w) = SumOver(order, v)
<1> DEFINE u == [v EXCEPT ![a] = @ - x]
<1>0. /\ order \in Seq(S) /\ Once(order)
      /\ v \in [S -> Int] /\ x \in Int
      /\ a \in Keys(order) /\ b \in Keys(order) /\ a # b
  BY DEF Moved
<1>w. w = [v EXCEPT ![a] = @ - x, ![b] = @ + x]
  BY DEF Moved
<1>1. a \in S /\ b \in S
  BY <1>0 DEF Keys
<1>2. u \in [S -> Int] /\ w \in [S -> Int] /\ -x \in Int
  BY <1>0, <1>w, <1>1
<1>3. Raised(S, v, u, a, -x)
  BY <1>0, <1>w, <1>1 DEF Raised
<1>4. Raised(S, u, w, b, x)
  BY <1>0, <1>w, <1>1 DEF Raised
<1> HIDE DEF u
<1>5. SumOver(order, u) = SumOver(order, v) + (-x)
  BY <1>0, <1>2, <1>3, SumChange
<1>6. SumOver(order, w) = SumOver(order, u) + x
  BY <1>0, <1>2, <1>4, SumChange
<1>7. SumOver(order, v) \in Int
  BY <1>0, SumInt
<1> QED
  BY <1>0, <1>5, <1>6, <1>7

(* What is produced is never negative, what is consumed never positive,    *)
(* each is at least any member's part, and together they are the total.    *)
LEMMA Sides ==
  ASSUME NEW S, NEW order \in Seq(S), NEW v \in [S -> Int]
  PROVE  /\ Produced(order, v) \in Nat
         /\ Consumed(order, v) \in Int /\ Consumed(order, v) <= 0
         /\ \A a \in Keys(order) :
              v[a] <= Produced(order, v) /\ Consumed(order, v) <= v[a]
         /\ Produced(order, v) + Consumed(order, v) = SumOver(order, v)
<1>1. PICK p \in [S -> Int], c \in [S -> Int], n \in [S -> Int], z \in [S -> Int] :
        /\ p = [a \in S |-> Positive(v[a])]
        /\ c = [a \in S |-> Negative(v[a])]
        /\ n = [a \in S |-> -Negative(v[a])]
        /\ z = [a \in S |-> 0]
  <2> DEFINE p == [a \in S |-> Positive(v[a])]
             c == [a \in S |-> Negative(v[a])]
             n == [a \in S |-> -Negative(v[a])]
             z == [a \in S |-> 0]
  <2>1. p \in [S -> Int] /\ c \in [S -> Int] /\ n \in [S -> Int] /\ z \in [S -> Int]
    BY DEF Positive, Negative
  <2> QED
    BY <2>1
<1>t. p \in [S -> Int] /\ c \in [S -> Int] /\ n \in [S -> Int] /\ z \in [S -> Int]
  BY <1>1
<1>2. Produced(order, v) = SumOver(order, p) /\ Consumed(order, v) = SumOver(order, c)
  BY <1>1 DEF Produced, Consumed
<1>3. /\ NonNegative(S, p) /\ NonNegative(S, n)
      /\ Adds(S, order, p, c, v) /\ Adds(S, order, n, c, z) /\ Adds(S, order, z, c, c)
  BY <1>1, <1>t DEF Positive, Negative, NonNegative, Adds
<1>4. /\ \A a \in S : v[a] <= p[a] /\ -v[a] <= n[a]
      /\ \A a \in Keys(order) : a \in S
  BY <1>1 DEF Positive, Negative, Keys
<1>5. /\ SumOver(order, p) \in Int /\ SumOver(order, c) \in Int
      /\ SumOver(order, n) \in Int /\ SumOver(order, z) \in Int
  BY <1>t, SumInt
<1>6. SumOver(order, v) = SumOver(order, p) + SumOver(order, c)
  BY <1>3, SumAdd
<1>7. SumOver(order, z) = SumOver(order, n) + SumOver(order, c)
  BY <1>3, SumAdd
<1>8. SumOver(order, c) = SumOver(order, z) + SumOver(order, c)
  BY <1>3, SumAdd
<1>9. /\ SumOver(order, p) >= 0
      /\ \A a \in Keys(order) : SumOver(order, p) >= p[a]
  BY <1>t, <1>3, SumDominates
<1>10. /\ SumOver(order, n) >= 0
       /\ \A a \in Keys(order) : SumOver(order, n) >= n[a]
  BY <1>t, <1>3, SumDominates
<1>11. SumOver(order, c) = -SumOver(order, n)
  <2>1. \A i, j, k \in Int : i = j + k /\ k = i + k => k = -j
    OBVIOUS
  <2> QED
    BY <2>1, <1>5, <1>7, <1>8
<1>12. ASSUME NEW a \in Keys(order)
       PROVE  v[a] <= SumOver(order, p) /\ SumOver(order, c) <= v[a]
  <2>1. a \in S /\ v[a] \in Int /\ p[a] \in Int /\ n[a] \in Int
    BY <1>t, <1>4
  <2>2. v[a] <= p[a] /\ -v[a] <= n[a] /\ p[a] <= SumOver(order, p) /\ n[a] <= SumOver(order, n)
    BY <2>1, <1>4, <1>9, <1>10, <1>5
  <2>3. \A i, j, k \in Int : i <= j /\ j <= k => i <= k
    OBVIOUS
  <2>4. -v[a] <= SumOver(order, n) /\ v[a] <= SumOver(order, p)
    BY <2>1, <2>2, <2>3, <1>5
  <2> QED
    BY <2>1, <2>4, <1>5, <1>11
<1> QED
  BY <1>2, <1>5, <1>6, <1>9, <1>10, <1>11, <1>12
=============================================================================
