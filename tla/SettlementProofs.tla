-------------------------- MODULE SettlementProofs ---------------------------
(***************************************************************************)
(* SettlementCheck.tla, for any households and reports.  The way of the    *)
(* hashes: the filters, the arguments, the slots.  What the program makes  *)
(* of an honest settlement: how far _transferRest may push a household,    *)
(* and what the program's sums are in its field.                           *)
(***************************************************************************)
EXTENDS SettlementCheck, NettingProofs, SequenceTheorems

(* f holds what is left of the first n entries.                            *)
Sifted(E, list, S, n, f) ==
  /\ f \in [0..n -> Seq(E)]
  /\ f[0] = <<>>
  /\ \A k \in 1..n : list[k] \in S => f[k] = Append(f[k - 1], list[k])
  /\ \A k \in 1..n : list[k] \notin S => f[k] = f[k - 1]

LEMMA SiftedExists ==
  ASSUME NEW E, NEW list \in Seq(E), NEW S
  PROVE  \E f : Sifted(E, list, S, Len(list), f)
<1> DEFINE P == {n \in 0..Len(list) : \E f : Sifted(E, list, S, n, f)}
<1>0. Len(list) \in Nat
  OBVIOUS
<1>1. 0 \in P
  <2>1. Sifted(E, list, S, 0, [k \in 0..0 |-> <<>>])
    BY DEF Sifted
  <2> QED
    BY <1>0, <2>1
<1>2. ASSUME NEW n \in 1..Len(list), n - 1 \in P PROVE n \in P
  <2>1. PICK f : Sifted(E, list, S, n - 1, f)
    BY <1>2
  <2>2. f \in [0..(n - 1) -> Seq(E)] /\ list[n] \in E /\ n \in Nat
    BY <2>1 DEF Sifted
  <2>3. PICK last \in Seq(E) :
          /\ list[n] \in S => last = Append(f[n - 1], list[n])
          /\ list[n] \notin S => last = f[n - 1]
    <3>1. f[n - 1] \in Seq(E)
      BY <2>2
    <3>2. Append(f[n - 1], list[n]) \in Seq(E)
      BY <2>2, <3>1
    <3> QED
      BY <3>1, <3>2
  <2> DEFINE g == [k \in 0..n |-> IF k = n THEN last ELSE f[k]]
  <2>4. g \in [0..n -> Seq(E)]
    BY <2>2, <2>3
  <2>5. g[n] = last /\ \A k \in 0..(n - 1) : g[k] = f[k]
    BY <2>2
  <2> HIDE DEF g
  <2>6. \A k \in 1..n : k = n \/ (k \in 1..(n - 1) /\ k - 1 \in 0..(n - 1) /\ k \in 0..(n - 1))
    BY <2>2
  <2>7. n - 1 \in 0..(n - 1) /\ 0 \in 0..(n - 1)
    BY <2>2
  <2>8. Sifted(E, list, S, n, g)
    BY <2>1, <2>3, <2>4, <2>5, <2>6, <2>7 DEF Sifted
  <2> QED
    BY <2>8
<1>3. P = 0..Len(list)
  <2>1. P \in SUBSET (0..Len(list))
    OBVIOUS
  <2> HIDE DEF P
  <2> QED
    BY <1>0, <1>1, <1>2, <2>1, UpTo
<1> QED
  BY <1>0, <1>3

LEMMA FilteredIsSifted ==
  ASSUME NEW E, NEW list \in Seq(E), NEW S
  PROVE  \E f : Sifted(E, list, S, Len(list), f) /\ Filtered(list, S) = f[Len(list)]
<1> DEFINE N == Len(list)
           Body(s) == [k \in 0..N |->
                         IF k = 0 THEN <<>>
                         ELSE IF list[k] \in S THEN Append(s[k - 1], list[k])
                              ELSE s[k - 1]]
           s == CHOOSE s : s = Body(s)
<1>1. N \in Nat
  OBVIOUS
<1>2. PICK f : Sifted(E, list, S, N, f)
  BY SiftedExists
<1>3. f = Body(f)
  <2>1. f = [k \in 0..N |-> f[k]]
    BY <1>2 DEF Sifted
  <2>2. ASSUME NEW k \in 0..N PROVE f[k] = Body(f)[k]
    BY <1>1, <1>2 DEF Sifted
  <2> QED
    BY <2>1, <2>2
<1>4. s = Body(s)
  BY <1>3
<1>5. Filtered(list, S) = s[N]
  BY DEF Filtered
<1> HIDE DEF s
<1>6. /\ s[0] = <<>>
      /\ \A k \in 1..N : list[k] \in S => s[k] = Append(s[k - 1], list[k])
      /\ \A k \in 1..N : list[k] \notin S => s[k] = s[k - 1]
  <2>1. ASSUME NEW k \in 0..N
        PROVE  s[k] = IF k = 0 THEN <<>>
                      ELSE IF list[k] \in S THEN Append(s[k - 1], list[k])
                           ELSE s[k - 1]
    <3>1. s[k] = Body(s)[k]
      BY <1>4, Zenon
    <3> QED
      BY <3>1, Zenon
  <2>2. 0 \in 0..N /\ \A k \in 1..N : k \in 0..N /\ k # 0
    BY <1>1
  <2> HIDE DEF Body
  <2> QED
    BY <2>1, <2>2, Zenon
<1> DEFINE P == {k \in 0..N : s[k] = f[k]}
<1>7. 0 \in P
  BY <1>1, <1>2, <1>6 DEF Sifted
<1>8. ASSUME NEW k \in 1..N, k - 1 \in P PROVE k \in P
  <2>1. s[k - 1] = f[k - 1] /\ k \in 0..N
    BY <1>1, <1>8
  <2>2. CASE list[k] \in S
    BY <1>2, <1>6, <2>1, <2>2 DEF Sifted
  <2>3. CASE list[k] \notin S
    BY <1>2, <1>6, <2>1, <2>3 DEF Sifted
  <2> QED
    BY <2>2, <2>3
<1>9. P = 0..N
  <2>1. P \in SUBSET (0..N)
    OBVIOUS
  <2> HIDE DEF P
  <2> QED
    BY <1>1, <1>7, <1>8, <2>1, UpTo
<1> QED
  BY <1>1, <1>2, <1>5, <1>9

(* A filter leaves members of S.                                           *)
LEMMA FilteredMembers ==
  ASSUME NEW E, NEW list \in Seq(E), NEW S
  PROVE  /\ Filtered(list, S) \in Seq(E)
         /\ \A k \in 1..Len(Filtered(list, S)) : Filtered(list, S)[k] \in S
<1> DEFINE N == Len(list)
<1>1. N \in Nat
  OBVIOUS
<1>2. PICK f : Sifted(E, list, S, N, f) /\ Filtered(list, S) = f[N]
  BY FilteredIsSifted
<1>3. f \in [0..N -> Seq(E)] /\ f[0] = <<>>
  BY <1>2 DEF Sifted
<1> DEFINE In(s) == \A k \in 1..Len(s) : s[k] \in S
           P == {n \in 0..N : In(f[n])}
<1>4. 0 \in P
  BY <1>1, <1>3
<1>5. ASSUME NEW n \in 1..N, n - 1 \in P PROVE n \in P
  <2>1. PICK s \in Seq(E) : s = f[n - 1] /\ In(s)
    BY <1>3, <1>5
  <2>2. CASE list[n] \in S
    <3>0. list[n] \in E /\ Append(s, list[n]) \in Seq(E)
      BY <1>1
    <3>1. PICK t \in Seq(E) : t = Append(s, list[n]) /\ f[n] = t
      BY <1>2, <2>1, <2>2, <3>0 DEF Sifted
    <3>2. /\ Len(t) = Len(s) + 1 /\ t[Len(s) + 1] = list[n]
          /\ \A k \in 1..Len(s) : t[k] = s[k]
          /\ Len(s) \in Nat
      BY <3>0, <3>1
    <3>3. \A k \in 1..(Len(s) + 1) : k = Len(s) + 1 \/ k \in 1..Len(s)
      BY <3>2
    <3>4. In(t)
      BY <2>1, <2>2, <3>2, <3>3
    <3> QED
      BY <3>1, <3>4
  <2>3. CASE list[n] \notin S
    BY <1>2, <2>1, <2>3 DEF Sifted
  <2> QED
    BY <2>2, <2>3
<1>6. P = 0..N
  <2>1. P \in SUBSET (0..N)
    OBVIOUS
  <2> HIDE DEF P
  <2> QED
    BY <1>1, <1>4, <1>5, <2>1, UpTo
<1> QED
  BY <1>1, <1>2, <1>3, <1>6

(* What a filter leaves begins with the entries before the first that it   *)
(* takes out.                                                              *)
LEMMA FilteredPrefix ==
  ASSUME NEW E, NEW list \in Seq(E), NEW S, NEW m \in 0..Len(list),
         \A k \in 1..m : list[k] \in S
  PROVE  /\ m <= Len(Filtered(list, S))
         /\ \A k \in 1..m : Filtered(list, S)[k] = list[k]
<1> DEFINE N == Len(list)
<1>1. N \in Nat /\ m \in 0..N
  OBVIOUS
<1>2. PICK f : Sifted(E, list, S, N, f) /\ Filtered(list, S) = f[N]
  BY FilteredIsSifted
<1>3. f \in [0..N -> Seq(E)] /\ f[0] = <<>>
  BY <1>2 DEF Sifted
<1> DEFINE Begins(s, n) == n <= Len(s) /\ \A k \in 1..n : s[k] = list[k]
           P == {n \in 0..N : /\ n <= m => Len(f[n]) = n /\ Begins(f[n], n)
                              /\ m <= n => Begins(f[n], m)}
<1>4. 0 \in P
  BY <1>1, <1>3
<1>5. ASSUME NEW n \in 1..N, n - 1 \in P PROVE n \in P
  <2>1. PICK s \in Seq(E) : s = f[n - 1]
    BY <1>3
  <2>2. /\ n - 1 <= m => Len(s) = n - 1 /\ Begins(s, n - 1)
        /\ m <= n - 1 => Begins(s, m)
    BY <1>5, <2>1
  <2>3. n \in Nat /\ m \in Nat /\ Len(s) \in Nat /\ list[n] \in E
    BY <1>1
  <2>4. CASE list[n] \in S
    <3>0. Append(s, list[n]) \in Seq(E)
      BY <2>3
    <3>1. PICK t \in Seq(E) : t = Append(s, list[n]) /\ f[n] = t
      BY <1>2, <2>1, <2>4, <3>0 DEF Sifted
    <3>2. /\ Len(t) = Len(s) + 1 /\ t[Len(s) + 1] = list[n]
          /\ \A k \in 1..Len(s) : t[k] = s[k]
      BY <2>3, <3>1
    <3>3. CASE n <= m
      <4>1. n - 1 <= m /\ Len(s) = n - 1 /\ Begins(s, n - 1)
        BY <2>2, <2>3, <3>3
      <4>2. Len(t) = n /\ Begins(t, n)
        BY <2>3, <3>2, <4>1
      <4>3. m <= n => Begins(t, m)
        <5>1. m <= n => m = n
          BY <2>3, <3>3
        <5> QED
          BY <4>2, <5>1
      <4>4. n \in 0..N
        OBVIOUS
      <4>5. Len(f[n]) = n /\ Begins(f[n], n) /\ (m <= n => Begins(f[n], m))
        BY <3>1, <4>2, <4>3, Zenon
      <4> HIDE DEF Begins
      <4> QED
        BY <4>4, <4>5
    <3>4. CASE ~(n <= m)
      <4>1. m <= n - 1 /\ Begins(s, m)
        BY <2>2, <2>3, <3>4
      <4>2. Begins(t, m)
        BY <2>3, <3>2, <4>1
      <4> QED
        BY <3>1, <3>4, <4>2
    <3> QED
      BY <3>3, <3>4
  <2>5. CASE list[n] \notin S
    <3>1. f[n] = s
      BY <1>2, <2>1, <2>5 DEF Sifted
    <3>2. ~(n <= m) /\ m <= n - 1
      BY <2>3, <2>5
    <3> QED
      BY <2>2, <3>1, <3>2
  <2> QED
    BY <2>4, <2>5
<1>6. P = 0..N
  <2>1. P \in SUBSET (0..N)
    OBVIOUS
  <2> HIDE DEF P
  <2> QED
    BY <1>1, <1>4, <1>5, <2>1, UpTo
<1>7. N \in P /\ m <= N
  BY <1>1, <1>6
<1> QED
  BY <1>2, <1>7

(* Every entry that a filter leaves in has its place, and the last of them *)
(* is last.                                                                *)
LEMMA FilteredPlaces ==
  ASSUME NEW E, NEW list \in Seq(E), NEW S
  PROVE  LET s == Filtered(list, S)
         IN  /\ \A k \in 1..Len(list) : list[k] \in S => \E i \in 1..Len(s) : s[i] = list[k]
             /\ Len(s) > 0 =>
                  \E j \in 1..Len(list) :
                    /\ s[Len(s)] = list[j]
                    /\ \A k \in 1..Len(list) : list[k] \in S => k <= j
<1> DEFINE N == Len(list)
<1>1. N \in Nat
  OBVIOUS
<1>2. PICK f : Sifted(E, list, S, N, f) /\ Filtered(list, S) = f[N]
  BY FilteredIsSifted
<1>3. f \in [0..N -> Seq(E)] /\ f[0] = <<>>
  BY <1>2 DEF Sifted
<1> DEFINE Has(s, n) == \A k \in 1..n : list[k] \in S => \E i \in 1..Len(s) : s[i] = list[k]
           EndsAt(s, n) == Len(s) > 0 =>
                             \E j \in 1..n : /\ s[Len(s)] = list[j]
                                             /\ \A k \in 1..n : list[k] \in S => k <= j
           P == {n \in 0..N : Has(f[n], n) /\ EndsAt(f[n], n)}
<1>4. 0 \in P
  BY <1>1, <1>3
<1>5. ASSUME NEW n \in 1..N, n - 1 \in P PROVE n \in P
  <2>1. PICK s \in Seq(E) : s = f[n - 1]
    BY <1>3
  <2>2. Has(s, n - 1) /\ EndsAt(s, n - 1)
    BY <1>5, <2>1
  <2>3. n \in Nat /\ Len(s) \in Nat /\ list[n] \in E
    BY <1>1
  <2>4. \A k \in 1..n : k = n \/ k \in 1..(n - 1)
    BY <2>3
  <2>5. CASE list[n] \in S
    <3>0. Append(s, list[n]) \in Seq(E)
      BY <2>3
    <3>1. PICK t \in Seq(E) : t = Append(s, list[n]) /\ f[n] = t
      BY <1>2, <2>1, <2>5, <3>0 DEF Sifted
    <3>2. /\ Len(t) = Len(s) + 1 /\ t[Len(s) + 1] = list[n]
          /\ \A k \in 1..Len(s) : t[k] = s[k] /\ k \in 1..Len(t)
          /\ Len(t) \in 1..Len(t)
      BY <2>3, <3>0, <3>1
    <3>3. Has(t, n)
      BY <2>2, <2>4, <3>2
    <3>4. EndsAt(t, n)
      BY <2>3, <3>2
    <3> QED
      BY <3>1, <3>3, <3>4
  <2>6. CASE list[n] \notin S
    <3>1. f[n] = s
      BY <1>2, <2>1, <2>6 DEF Sifted
    <3>2. Has(s, n)
      BY <2>2, <2>4, <2>6
    <3>3. EndsAt(s, n)
      <4>1. SUFFICES ASSUME Len(s) > 0
                     PROVE  \E j \in 1..n : /\ s[Len(s)] = list[j]
                                            /\ \A k \in 1..n : list[k] \in S => k <= j
        OBVIOUS
      <4>2. PICK j \in 1..(n - 1) : /\ s[Len(s)] = list[j]
                                    /\ \A k \in 1..(n - 1) : list[k] \in S => k <= j
        BY <2>2, <4>1
      <4> QED
        BY <2>3, <2>4, <2>6, <4>2
    <3> QED
      BY <3>1, <3>2, <3>3
  <2> QED
    BY <2>5, <2>6
<1>6. P = 0..N
  <2>1. P \in SUBSET (0..N)
    OBVIOUS
  <2> HIDE DEF P
  <2> QED
    BY <1>1, <1>4, <1>5, <2>1, UpTo
<1>7. N \in P
  BY <1>1, <1>6
<1> QED
  BY <1>2, <1>7

(* w has the entries of v in S, and nothing for the rest.                  *)
Restricts(E, list, S, v, w) ==
  /\ list \in Seq(E) /\ v \in [E -> Int] /\ w \in [E -> Int]
  /\ \A a \in E : w[a] = IF a \in S THEN v[a] ELSE 0

(* The sum over what a filter leaves in is the sum over all, with nothing  *)
(* for the rest.                                                           *)
LEMMA FilteredSum ==
  ASSUME NEW E, NEW list, NEW S, NEW v, NEW w, Restricts(E, list, S, v, w)
  PROVE  SumOver(Filtered(list, S), v) = SumOver(list, w)
<1> DEFINE N == Len(list)
<1>0. /\ list \in Seq(E) /\ v \in [E -> Int] /\ w \in [E -> Int]
      /\ \A a \in E : w[a] = IF a \in S THEN v[a] ELSE 0
  BY DEF Restricts
<1> USE <1>0
<1>1. N \in Nat
  OBVIOUS
<1>2. PICK f : Sifted(E, list, S, N, f) /\ Filtered(list, S) = f[N]
  BY FilteredIsSifted
<1>3. f \in [0..N -> Seq(E)] /\ f[0] = <<>>
  BY <1>2 DEF Sifted
<1>4. PICK g : Partial(list, w, N, g) /\ SumOver(list, w) = g[N]
  BY SumIsPartial
<1> DEFINE P == {n \in 0..N : SumOver(f[n], v) = g[n]}
<1>5. 0 \in P
  <2>1. PICK s \in Seq(E) : s = f[0] /\ Len(s) = 0
    BY <1>1, <1>3
  <2>2. PICK h : Partial(s, v, Len(s), h) /\ SumOver(s, v) = h[Len(s)]
    BY SumIsPartial
  <2>3. SumOver(s, v) = 0
    BY <2>1, <2>2 DEF Partial
  <2> QED
    BY <1>1, <1>4, <2>1, <2>3 DEF Partial
<1>6. ASSUME NEW n \in 1..N, n - 1 \in P PROVE n \in P
  <2>1. PICK s \in Seq(E) : s = f[n - 1] /\ SumOver(s, v) = g[n - 1]
    BY <1>3, <1>6
  <2>2. n \in Nat /\ list[n] \in E
    BY <1>1
  <2>3. g[n] = g[n - 1] + w[list[n]]
    BY <1>4 DEF Partial
  <2>4. CASE list[n] \in S
    <3>0. Append(s, list[n]) \in Seq(E)
      BY <2>2
    <3>1. PICK t \in Seq(E) : t = Append(s, list[n]) /\ f[n] = t
      BY <1>2, <2>1, <2>4, <3>0 DEF Sifted
    <3>2. Extends(E, s, t) /\ t[Len(t)] = list[n]
      BY <2>2, <3>1 DEF Extends
    <3>3. SumOver(t, v) = SumOver(s, v) + v[list[n]]
      BY <3>2, SumExtended
    <3>4. w[list[n]] = v[list[n]]
      BY <2>2, <2>4
    <3>5. n \in 0..N /\ SumOver(f[n], v) = g[n]
      BY <1>1, <2>1, <2>3, <3>1, <3>3, <3>4
    <3> QED
      BY <3>5
  <2>5. CASE list[n] \notin S
    <3>1. f[n] = s
      BY <1>2, <2>1, <2>5 DEF Sifted
    <3>2. w[list[n]] = 0 /\ g[n - 1] \in Int
      <4>1. n - 1 \in 0..N
        BY <1>1
      <4>2. g[n - 1] \in Int
        BY <1>4, <4>1 DEF Partial
      <4>3. w[list[n]] = 0
        BY <2>2, <2>5
      <4> QED
        BY <4>2, <4>3
    <3>3. n \in 0..N /\ SumOver(f[n], v) = g[n]
      BY <1>1, <2>1, <2>3, <3>1, <3>2
    <3> QED
      BY <3>3
  <2> QED
    BY <2>4, <2>5
<1>7. P = 0..N
  <2>1. P \in SUBSET (0..N)
    OBVIOUS
  <2> HIDE DEF P
  <2> QED
    BY <1>1, <1>5, <1>6, <2>1, UpTo
<1>8. N \in P
  BY <1>1, <1>7
<1> QED
  BY <1>2, <1>4, <1>8

(* Lists of the same entries, read in different ways, have the same sum.   *)
SameEntries(S, T, order, v, list, w) ==
  /\ order \in Seq(S) /\ v \in [S -> Int]
  /\ list \in Seq(T) /\ w \in [T -> Int]
  /\ Len(list) = Len(order)
  /\ \A k \in 1..Len(order) : v[order[k]] = w[list[k]]

LEMMA SumReread ==
  ASSUME NEW S, NEW T, NEW order, NEW v, NEW list, NEW w,
         SameEntries(S, T, order, v, list, w)
  PROVE  SumOver(order, v) = SumOver(list, w)
<1> DEFINE N == Len(order)
<1>0. /\ N \in Nat /\ order \in Seq(S) /\ v \in [S -> Int]
      /\ list \in Seq(T) /\ w \in [T -> Int] /\ Len(list) = N
      /\ \A k \in 1..N : v[order[k]] = w[list[k]]
  BY DEF SameEntries
<1>1. PICK f : Partial(order, v, N, f) /\ SumOver(order, v) = f[N]
  BY <1>0, SumIsPartial
<1>2. PICK g : Partial(list, w, N, g) /\ SumOver(list, w) = g[N]
  BY <1>0, SumIsPartial
<1> DEFINE P == {k \in 0..N : f[k] = g[k]}
<1>3. 0 \in P
  BY <1>0, <1>1, <1>2 DEF Partial
<1>4. ASSUME NEW k \in 1..N, k - 1 \in P PROVE k \in P
  <2>1. f[k] = f[k - 1] + v[order[k]]
    BY <1>1 DEF Partial
  <2>2. g[k] = g[k - 1] + w[list[k]]
    BY <1>2 DEF Partial
  <2> QED
    BY <1>0, <1>4, <2>1, <2>2
<1>5. P = 0..N
  <2>1. P \in SUBSET (0..N)
    OBVIOUS
  <2> HIDE DEF P
  <2> QED
    BY <1>0, <1>3, <1>4, <2>1, UpTo
<1> QED
  BY <1>0, <1>1, <1>2, <1>5

-----------------------------------------------------------------------------
LEMMA EntryOf ==
  ASSUME NEW T, NEW s \in Seq(T), NEW k \in 1..Len(s)
  PROVE  s[k] \in T
OBVIOUS

LEMMA ListOf ==
  ASSUME NEW n \in Nat, NEW f \in [1..n -> Int]
  PROVE  f \in Seq(Int) /\ Len(f) = n
OBVIOUS

LEMMA Joined ==
  ASSUME NEW s \in Seq(Int), NEW t \in Seq(Int)
  PROVE  /\ s \o t \in Seq(Int) /\ Len(s \o t) = Len(s) + Len(t)
         /\ \A k \in 1..Len(s) : (s \o t)[k] = s[k]
         /\ \A k \in 1..Len(t) : (s \o t)[Len(s) + k] = t[k]
OBVIOUS

LEMMA Grouped ==
  ASSUME NEW order \in Seq(Address), NEW b \in [Address -> Int]
  PROVE  LET p == ProducerAddresses(order, b)
             c == ConsumerAddresses(order, b)
             hhs == hhAddresses(order, b)
         IN  /\ p \in Seq(Address) /\ c \in Seq(Address) /\ hhs \in Seq(Address)
             /\ Len(p) \in Nat /\ Len(c) \in Nat /\ Len(hhs) = Len(p) + Len(c)
             /\ \A n \in 1..Len(p) : b[p[n]] >= 0 /\ hhs[n] = p[n]
             /\ \A n \in 1..Len(c) : b[c[n]] < 0 /\ hhs[Len(p) + n] = c[n]
<1> DEFINE p == ProducerAddresses(order, b)
           c == ConsumerAddresses(order, b)
           hhs == hhAddresses(order, b)
<1>1. /\ p \in Seq(Address) /\ \A n \in 1..Len(p) : p[n] \in {a \in Keys(order) : b[a] >= 0}
      /\ c \in Seq(Address) /\ \A n \in 1..Len(c) : c[n] \in {a \in Keys(order) : b[a] < 0}
  BY FilteredMembers DEF ProducerAddresses, ConsumerAddresses
<1>2. hhs = p \o c
  BY DEF hhAddresses
<1> HIDE DEF p, c, hhs
<1>3. ASSUME NEW s \in Seq(Address), NEW t \in Seq(Address)
      PROVE  /\ s \o t \in Seq(Address) /\ Len(s \o t) = Len(s) + Len(t)
             /\ Len(s) \in Nat /\ Len(t) \in Nat
             /\ \A k \in 1..Len(s) : (s \o t)[k] = s[k]
             /\ \A k \in 1..Len(t) : (s \o t)[Len(s) + k] = t[k]
  OBVIOUS
<1>4. /\ p \o c \in Seq(Address) /\ Len(p \o c) = Len(p) + Len(c)
      /\ Len(p) \in Nat /\ Len(c) \in Nat
      /\ \A k \in 1..Len(p) : (p \o c)[k] = p[k]
      /\ \A k \in 1..Len(c) : (p \o c)[Len(p) + k] = c[k]
  BY <1>1, <1>3
<1>5. /\ hhs \in Seq(Address) /\ Len(hhs) = Len(p) + Len(c)
      /\ \A k \in 1..Len(p) : hhs[k] = p[k]
      /\ \A k \in 1..Len(c) : hhs[Len(p) + k] = c[k]
  BY <1>2, <1>4, Zenon
<1>6. /\ \A n \in 1..Len(p) : b[p[n]] >= 0
      /\ \A n \in 1..Len(c) : b[c[n]] < 0
  BY <1>1
<1> QED
  BY <1>1, <1>4, <1>5, <1>6 DEF p, c, hhs

(* One half of the arguments: the deltas v in the order of b's groups.     *)
Half(order, b, v) ==
  LET producers == ProducerAddresses(order, b)
      consumers == ConsumerAddresses(order, b)
  IN  [k \in 1..Len(producers) |-> v[producers[k]]]
        \o [k \in 1..Len(consumers) |-> Magnitude(v[consumers[k]])]

LEMMA Halves ==
  ASSUME NEW order, NEW b, NEW a
  PROVE  Arguments(order, b, a) = Half(order, b, b) \o Half(order, b, a)
BY DEF Arguments, Half

LEMMA HalfEntries ==
  ASSUME NEW order \in Seq(Address), NEW b \in [Address -> Int],
         NEW v \in [Address -> Int]
  PROVE  LET p == ProducerAddresses(order, b)
             c == ConsumerAddresses(order, b)
             h == Half(order, b, v)
         IN  /\ h \in Seq(Int) /\ Len(h) = Len(p) + Len(c)
             /\ \A k \in 1..Len(p) : h[k] = v[p[k]]
             /\ \A k \in 1..Len(c) : h[Len(p) + k] = Magnitude(v[c[k]])
<1> DEFINE p == ProducerAddresses(order, b)
           c == ConsumerAddresses(order, b)
           h == Half(order, b, v)
           u == [k \in 1..Len(p) |-> v[p[k]]]
           w == [k \in 1..Len(c) |-> Magnitude(v[c[k]])]
<1>1. /\ p \in Seq(Address) /\ c \in Seq(Address)
      /\ Len(p) \in Nat /\ Len(c) \in Nat
  BY Grouped
<1>2. h = u \o w
  BY DEF Half
<1> HIDE DEF p, c, h
<1>3. \A x \in Int : Magnitude(x) \in Int
  BY DEF Magnitude
<1>4. /\ u \in Seq(Int) /\ Len(u) = Len(p) /\ \A k \in 1..Len(p) : u[k] = v[p[k]]
      /\ w \in Seq(Int) /\ Len(w) = Len(c) /\ \A k \in 1..Len(c) : w[k] = Magnitude(v[c[k]])
  <2>1. /\ \A k \in 1..Len(p) : p[k] \in Address
        /\ \A k \in 1..Len(c) : c[k] \in Address
    BY <1>1, EntryOf
  <2>2. /\ \A k \in 1..Len(p) : v[p[k]] \in Int
        /\ \A k \in 1..Len(c) : Magnitude(v[c[k]]) \in Int
    BY <1>3, <2>1
  <2>3. /\ u \in [1..Len(p) -> Int] /\ \A k \in 1..Len(p) : u[k] = v[p[k]]
        /\ w \in [1..Len(c) -> Int] /\ \A k \in 1..Len(c) : w[k] = Magnitude(v[c[k]])
    BY <2>2
  <2> HIDE DEF u, w
  <2> QED
    BY <1>1, <2>3, ListOf
<1> HIDE DEF u, w
<1>5. /\ u \o w \in Seq(Int) /\ Len(u \o w) = Len(u) + Len(w)
      /\ \A k \in 1..Len(u) : (u \o w)[k] = u[k]
      /\ \A k \in 1..Len(w) : (u \o w)[Len(u) + k] = w[k]
  BY <1>4, Joined
<1>6. /\ h \in Seq(Int) /\ Len(h) = Len(u) + Len(w)
      /\ \A k \in 1..Len(u) : h[k] = u[k]
      /\ \A k \in 1..Len(w) : h[Len(u) + k] = w[k]
  BY <1>2, <1>5, Zenon
<1> QED
  BY <1>4, <1>6 DEF p, c, h

(* The arguments, producers and consumers before, then after.              *)
LEMMA ArgumentEntries ==
  ASSUME NEW order \in Seq(Address), NEW b \in [Address -> Int],
         NEW d \in [Address -> Int]
  PROVE  LET p == ProducerAddresses(order, b)
             c == ConsumerAddresses(order, b)
             all == Len(p) + Len(c)
             args == Arguments(order, b, d)
         IN  /\ args \in Seq(Int) /\ Len(args) = all + all
             /\ \A k \in 1..Len(p) : args[k] = b[p[k]]
             /\ \A k \in 1..Len(c) : args[Len(p) + k] = Magnitude(b[c[k]])
             /\ \A k \in 1..Len(p) : args[all + k] = d[p[k]]
             /\ \A k \in 1..Len(c) : args[all + (Len(p) + k)] = Magnitude(d[c[k]])
<1> DEFINE p == ProducerAddresses(order, b)
           c == ConsumerAddresses(order, b)
           args == Arguments(order, b, d)
           u == Half(order, b, b)
           w == Half(order, b, d)
<1>1. /\ u \in Seq(Int) /\ Len(u) = Len(p) + Len(c)
      /\ \A k \in 1..Len(p) : u[k] = b[p[k]]
      /\ \A k \in 1..Len(c) : u[Len(p) + k] = Magnitude(b[c[k]])
      /\ w \in Seq(Int) /\ Len(w) = Len(p) + Len(c)
      /\ \A k \in 1..Len(p) : w[k] = d[p[k]]
      /\ \A k \in 1..Len(c) : w[Len(p) + k] = Magnitude(d[c[k]])
      /\ Len(p) \in Nat /\ Len(c) \in Nat
  BY HalfEntries, Grouped
<1>2. args = u \o w
  BY Halves
<1> HIDE DEF p, c, args, u, w
<1>3. /\ u \o w \in Seq(Int) /\ Len(u \o w) = Len(u) + Len(w)
      /\ \A k \in 1..Len(u) : (u \o w)[k] = u[k]
      /\ \A k \in 1..Len(w) : (u \o w)[Len(u) + k] = w[k]
  BY <1>1, Joined
<1>4. /\ args \in Seq(Int) /\ Len(args) = Len(u) + Len(w)
      /\ \A k \in 1..Len(u) : args[k] = u[k]
      /\ \A k \in 1..Len(w) : args[Len(u) + k] = w[k]
  BY <1>2, <1>3, Zenon
<1>5. /\ \A k \in 1..Len(p) : k \in 1..(Len(p) + Len(c))
      /\ \A k \in 1..Len(c) : Len(p) + k \in 1..(Len(p) + Len(c))
  BY <1>1
<1> QED
  BY <1>1, <1>4, <1>5 DEF p, c, args

(* The same by the list of both, for who ends within its report.           *)
LEMMA ArgumentsAre ==
  ASSUME NEW order \in Seq(Address), NEW b \in [Address -> Int],
         NEW d \in [Address -> Int]
  PROVE  LET hhs == hhAddresses(order, b)
             args == Arguments(order, b, d)
         IN  /\ hhs \in Seq(Address) /\ args \in Seq(Int) /\ Len(args) = Len(hhs) + Len(hhs)
             /\ \A n \in 1..Len(hhs) : args[n] = Magnitude(b[hhs[n]])
             /\ \A n \in 1..Len(hhs) :
                  Within(d[hhs[n]], b[hhs[n]]) => args[Len(hhs) + n] = Magnitude(d[hhs[n]])
<1> DEFINE p == ProducerAddresses(order, b)
           c == ConsumerAddresses(order, b)
           hhs == hhAddresses(order, b)
           args == Arguments(order, b, d)
<1>1. /\ p \in Seq(Address) /\ c \in Seq(Address) /\ hhs \in Seq(Address)
      /\ Len(p) \in Nat /\ Len(c) \in Nat /\ Len(hhs) = Len(p) + Len(c)
      /\ \A n \in 1..Len(p) : b[p[n]] >= 0 /\ hhs[n] = p[n]
      /\ \A n \in 1..Len(c) : b[c[n]] < 0 /\ hhs[Len(p) + n] = c[n]
  BY Grouped
<1>2. LET all == Len(p) + Len(c)
      IN  /\ args \in Seq(Int) /\ Len(args) = all + all
          /\ \A k \in 1..Len(p) : args[k] = b[p[k]] /\ args[all + k] = d[p[k]]
          /\ \A k \in 1..Len(c) : /\ args[Len(p) + k] = Magnitude(b[c[k]])
                                  /\ args[all + (Len(p) + k)] = Magnitude(d[c[k]])
  BY ArgumentEntries
<1> HIDE DEF p, c, hhs, args
<1>3. ASSUME NEW n \in 1..Len(hhs)
      PROVE  /\ args[n] = Magnitude(b[hhs[n]])
             /\ Within(d[hhs[n]], b[hhs[n]]) => args[Len(hhs) + n] = Magnitude(d[hhs[n]])
  <2>1. n \in 1..Len(p) \/ \E k \in 1..Len(c) : n = Len(p) + k
    <3>1. n \in 1..Len(p) \/ (n - Len(p) \in 1..Len(c) /\ n = Len(p) + (n - Len(p)))
      BY <1>1
    <3> QED
      BY <3>1
  <2>2. CASE n \in 1..Len(p)
    <3>1. p[n] \in Address /\ d[p[n]] \in Int /\ b[p[n]] \in Int
      BY <1>1, <2>2, EntryOf
    <3>2. PICK x \in Int, y \in Int : x = d[p[n]] /\ y = b[p[n]]
      BY <3>1
    <3>3. /\ y >= 0 /\ hhs[n] = p[n] /\ args[n] = y
          /\ args[Len(p) + Len(c) + n] = x
      BY <1>1, <1>2, <2>2, <3>2
    <3>4. Magnitude(y) = y /\ (Within(x, y) => Magnitude(x) = x)
      BY <3>3 DEF Within, Magnitude
    <3> QED
      BY <1>1, <3>2, <3>3, <3>4, Zenon
  <2>3. CASE \E k \in 1..Len(c) : n = Len(p) + k
    <3>1. PICK k \in 1..Len(c) : n = Len(p) + k
      BY <2>3
    <3>2. /\ hhs[Len(p) + k] = c[k] /\ args[Len(p) + k] = Magnitude(b[c[k]])
          /\ args[Len(p) + Len(c) + (Len(p) + k)] = Magnitude(d[c[k]])
      BY <1>1, <1>2
    <3> QED
      BY <1>1, <3>1, <3>2, Zenon
  <2> QED
    BY <2>1, <2>2, <2>3
<1> QED
  BY <1>1, <1>2, <1>3 DEF hhs, args
-----------------------------------------------------------------------------
(* A packed delta is empty only for zero, and never the hash of zero.      *)
LEMMA PackedIs ==
  ASSUME NEW x \in Int
  PROVE  /\ Packed(x) # <<>> <=> x # 0
         /\ x # 0 => Packed(x) = <<x>>
         /\ Packed(x) # <<0>>
<1>1. <<x>> # <<>> /\ <<>> # <<0>> /\ (<<x>> = <<0>> => x = 0)
  OBVIOUS
<1> QED
  BY <1>1 DEF Packed

(* The slots of a list of 2L hashes.                                       *)
LEMMA SlotsAre ==
  ASSUME NEW L \in Nat, NEW hashes, Len(hashes) = L + L
  PROVE  LET slots == NonZeroSlots(hashes)
         IN  /\ slots \in Seq(1..L)
             /\ \A n \in 1..Len(slots) : hashes[slots[n]] # <<>>
             /\ \A m \in 0..L :
                  (\A k \in 1..m : hashes[k] # <<>>) =>
                    m <= Len(slots) /\ \A k \in 1..m : slots[k] = k
<1> DEFINE slots == NonZeroSlots(hashes)
           list == [k \in 1..L |-> k]
           S == {k \in 1..L : hashes[k] # <<>>}
<1>1. Len(hashes) \div 2 = L
  OBVIOUS
<1>2. slots = Filtered(list, S)
  BY <1>1 DEF NonZeroSlots
<1>3. list \in Seq(1..L) /\ Len(list) = L /\ \A k \in 1..L : list[k] = k
  OBVIOUS
<1> HIDE DEF list, slots
<1>4. slots \in Seq(1..L) /\ \A k \in 1..Len(slots) : slots[k] \in S
  BY <1>2, <1>3, FilteredMembers
<1>5. ASSUME NEW m \in 0..L, \A k \in 1..m : hashes[k] # <<>>
      PROVE  m <= Len(slots) /\ \A k \in 1..m : slots[k] = k
  <2>1. m \in 0..Len(list)
    BY <1>3
  <2>2. \A k \in 1..m : k \in 1..L
    OBVIOUS
  <2>3. \A k \in 1..m : list[k] \in S
    BY <1>3, <1>5, <2>2
  <2> HIDE DEF S
  <2>4. m <= Len(Filtered(list, S)) /\ \A k \in 1..m : Filtered(list, S)[k] = list[k]
    BY <1>3, <2>1, <2>3, FilteredPrefix
  <2> QED
    BY <1>2, <1>3, <2>2, <2>4
<1> QED
  BY <1>4, <1>5 DEF slots

(* The property, of any households and any deltas before and after.        *)
LEMMA HashesMeet ==
  ASSUME NEW order \in Seq(Address), NEW b \in [Address -> Int],
         NEW d \in [Address -> Int]
  PROVE  LET hhs    == hhAddresses(order, b)
             hashes == Outputs(Arguments(order, b, d))
             registered == [a \in Address |-> packAndHash(b[a])]
         IN  \A m \in 1..Len(hhs) :
               LET listed == SubSeq(hhs, 1, m)
               IN  /\ _checkHashes(listed, registered, hashes)
                        <=> \A n \in 1..m : b[hhs[n]] # 0
                   /\ _checkHashes(listed, registered, hashes) =>
                        \A n \in 1..m :
                          Within(d[hhs[n]], b[hhs[n]]) =>
                            AfterNettingDelta(hashes, n) = Packed(Magnitude(d[hhs[n]]))
<1> DEFINE hhs == hhAddresses(order, b)
           args == Arguments(order, b, d)
           hashes == Outputs(args)
           registered == [a \in Address |-> packAndHash(b[a])]
           L == Len(hhs)
           slots == NonZeroSlots(hashes)
<1>1. /\ hhs \in Seq(Address) /\ args \in Seq(Int) /\ Len(args) = L + L
      /\ \A n \in 1..L : args[n] = Magnitude(b[hhs[n]])
      /\ \A n \in 1..L : Within(d[hhs[n]], b[hhs[n]]) => args[L + n] = Magnitude(d[hhs[n]])
  BY ArgumentsAre
<1>2. L \in Nat
  BY <1>1
<1>3. Len(hashes) = L + L /\ \A k \in 1..(L + L) : hashes[k] = Packed(args[k])
  BY <1>1, <1>2 DEF Outputs
<1>4. Len(hashes) \div 2 = L
  BY <1>2, <1>3
<1> HIDE DEF hhs, args, hashes, L
<1>5. \A n \in 1..L : hhs[n] \in Address /\ b[hhs[n]] \in Int
  BY <1>1, EntryOf DEF L
<1>6. \A x \in Int : Magnitude(x) \in Int /\ (Magnitude(x) = 0 <=> x = 0)
  BY DEF Magnitude
<1>7. ASSUME NEW n \in 1..L
      PROVE  /\ hashes[n] # <<>> <=> b[hhs[n]] # 0
             /\ b[hhs[n]] # 0 => hashes[n] = <<Magnitude(b[hhs[n]])>>
             /\ registered[hhs[n]] = <<Magnitude(b[hhs[n]])>>
  <2>1. n \in 1..(L + L)
    BY <1>2
  <2>2. hashes[n] = Packed(Magnitude(b[hhs[n]]))
    BY <1>1, <1>3, <2>1
  <2>3. Magnitude(b[hhs[n]]) \in Int /\ (Magnitude(b[hhs[n]]) = 0 <=> b[hhs[n]] = 0)
    BY <1>5, <1>6
  <2>4. registered[hhs[n]] = <<Magnitude(b[hhs[n]])>>
    BY <1>5 DEF packAndHash
  <2> QED
    BY <2>2, <2>3, <2>4, PackedIs
<1>8. \A k \in 1..L : hashes[k] # <<0>>
  <2> TAKE k \in 1..L
  <2>1. k \in 1..(L + L)
    BY <1>2
  <2>2. args[k] \in Int
    BY <1>1, <1>5, <1>6
  <2> QED
    BY <1>3, <2>1, <2>2, PackedIs
<1>9. /\ slots \in Seq(1..L)
      /\ \A m \in 0..L :
           (\A k \in 1..m : hashes[k] # <<>>) =>
             m <= Len(slots) /\ \A k \in 1..m : slots[k] = k
  BY <1>2, <1>3, SlotsAre
<1> HIDE DEF slots, registered
<1>10. ASSUME NEW m \in 1..L
       PROVE  LET listed == SubSeq(hhs, 1, m)
              IN  /\ _checkHashes(listed, registered, hashes)
                       <=> \A n \in 1..m : b[hhs[n]] # 0
                  /\ _checkHashes(listed, registered, hashes) =>
                       \A n \in 1..m :
                         Within(d[hhs[n]], b[hhs[n]]) =>
                           AfterNettingDelta(hashes, n) = Packed(Magnitude(d[hhs[n]]))
  <2> DEFINE listed == SubSeq(hhs, 1, m)
             Passes == _checkHashes(listed, registered, hashes)
  <2>1. Len(listed) = m /\ \A n \in 1..m : listed[n] = hhs[n]
    BY <1>1, <1>2 DEF L
  <2>2. m \in 0..L /\ \A n \in 1..m : n \in 1..L
    BY <1>2
  <2>3. Passes <=> /\ m <= Len(slots)
                   /\ \A n \in 1..m : registered[hhs[n]] = hashes[slots[n]]
    BY <2>1 DEF _checkHashes, slots
  <2>4. ASSUME Passes, NEW n \in 1..m PROVE b[hhs[n]] # 0
    <3>1. slots[n] \in 1..L
      <4>1. n \in 1..Len(slots)
        BY <1>9, <2>3, <2>4
      <4> QED
        BY <1>9, <4>1, EntryOf
    <3>2. registered[hhs[n]] # <<0>>
      BY <1>8, <2>3, <2>4, <3>1
    <3>3. registered[hhs[n]] = <<Magnitude(b[hhs[n]])>>
      BY <1>7, <2>2
    <3> QED
      BY <3>2, <3>3 DEF Magnitude
  <2>5. ASSUME \A n \in 1..m : b[hhs[n]] # 0
        PROVE  /\ m <= Len(slots) /\ \A n \in 1..m : slots[n] = n
               /\ Passes
    <3>1. \A n \in 1..m : hashes[n] # <<>> /\ registered[hhs[n]] = hashes[n]
      BY <1>7, <2>2, <2>5
    <3>2. m <= Len(slots) /\ \A n \in 1..m : slots[n] = n
      BY <1>9, <2>2, <3>1
    <3> QED
      BY <2>3, <3>1, <3>2
  <2>6. ASSUME Passes, NEW n \in 1..m, Within(d[hhs[n]], b[hhs[n]])
        PROVE  AfterNettingDelta(hashes, n) = Packed(Magnitude(d[hhs[n]]))
    <3>1. slots[n] = n
      BY <2>4, <2>5, <2>6
    <3>2. AfterNettingDelta(hashes, n) = hashes[n + L]
      BY <1>4, <3>1 DEF AfterNettingDelta, slots
    <3>3. n \in 1..L /\ n + L = L + n /\ L + n \in 1..(L + L)
      BY <1>2, <2>2
    <3> QED
      BY <1>1, <1>3, <2>6, <3>2, <3>3
  <2> HIDE DEF Passes
  <2>7. Passes <=> \A n \in 1..m : b[hhs[n]] # 0
    BY <2>4, <2>5
  <2>8. Passes => \A n \in 1..m :
          Within(d[hhs[n]], b[hhs[n]]) =>
            AfterNettingDelta(hashes, n) = Packed(Magnitude(d[hhs[n]]))
    BY <2>6
  <2> QED
    BY <2>7, <2>8 DEF Passes
<1> QED
  BY <1>10 DEF hhs, args, hashes, registered, L

(* Whatever a settlement does, its hashes meet the households they belong  *)
(* to: in the order of generateProof (zk-handler.js), through the zeros    *)
(* that the generated contract skips (_concatNextHash), for any number of  *)
(* households and any reports.                                             *)
THEOREM HashesAlways == Spec => []HashesMeetHouseholds
<1>1. TypeOK => HashesMeetHouseholds
  BY HashesMeet DEF TypeOK, HashesMeetHouseholds
<1> QED
  BY <1>1, TypeCorrect, PTL
-----------------------------------------------------------------------------
(* The program accepts what is fair: the settlement                        *)

N == Cardinality(Household)

(* The field has room for twice N deltas of x's size.                      *)
Fits(x) == 2 * N * Magnitude(x) < Prime

Last(l) == l \in split.hTo /\ \A c \in split.hTo : Position(c) <= Position(l)

(* What a receiver may get in _transferRest.  If it is pushed past zero,   *)
(* then with units of the rest, which is small.  The last of several       *)
(* receivers is drawn at most once, while all indices are there, and has a *)
(* unit to lose.                                                           *)
PushInv ==
  pc = "rest" =>
    /\ \A a \in Address \ (split.hFrom \cup split.hTo) : meterDelta[a] = 0
    /\ \A a \in split.hTo : -Given(meterDelta[a]) <= -Given(before[a])
    /\ \A a \in split.hTo :
         0 <= -Given(meterDelta[a])
           \/ 2 * (Given(meterDelta[a]) + Left) <= Cardinality(Receivers)
    /\ indices <= Cardinality(split.hTo)
    /\ \A l \in split.hTo :
         Last(l) /\ split.hTo # {l} =>
           /\ 0 <= -Given(meterDelta[l])
           /\ indices = Cardinality(split.hTo) => 1 <= -Given(meterDelta[l])

LEMMA GivenInt ==
  ASSUME NEW x \in Int, split.more \in BOOLEAN
  PROVE  Given(x) \in Int
BY DEF Given

(* The last of several receivers is nobody's target once an index is gone. *)
LEMMA LastDrawn ==
  ASSUME Inv, pc = "rest", NEW l \in RestTargets, Last(l), split.hTo # {l},
         indices <= Cardinality(split.hTo)
  PROVE  indices = Cardinality(split.hTo) /\ indices # 0
<1> DEFINE T == split.hTo
           Lower == {b \in T : Position(b) < Position(l)}
<1>1. /\ households \in Seq(Address) /\ T \in SUBSET Keys(households)
      /\ indices \in Nat /\ l \in T /\ Last(l)
      /\ \A c \in T : Position(c) <= Position(l)
  BY Types DEF Inv, LoopInv, TypeOK, RestTargets, Last
<1>2. IsFiniteSet(T) /\ Cardinality(T) \in Nat
  BY <1>1, KeysCounted
<1>3. \A a \in T : Position(a) \in Nat /\ households[Position(a)] = a
  <2>1. Len(households) \in Nat
    BY <1>1
  <2> QED
    BY <1>1, <2>1, PositionOf
<1>4. Lower = T \ {l}
  <2>1. ASSUME NEW c \in T, c # l PROVE Position(c) < Position(l)
    <3>1. Position(c) # Position(l)
      BY <1>1, <1>3, <2>1
    <3> QED
      BY <1>1, <1>3, <2>1, <3>1
  <2>2. ~(Position(l) < Position(l))
    BY <1>1, <1>3
  <2> QED
    BY <2>1, <2>2
<1>5. Cardinality(Lower) = Cardinality(T) - 1
  <2> HIDE DEF T, Lower
  <2>1. Cardinality(T \ {l}) = Cardinality(T) - 1
    BY <1>1, <1>2, FS_RemoveElement
  <2> QED
    BY <1>4, <2>1
<1>6. l # First(T)
  <2>1. PICK c \in T : c # l
    BY <1>1
  <2>2. Position(c) # Position(l) /\ Position(c) <= Position(l)
    BY <1>1, <1>3, <2>1
  <2>3. \E a \in T : \A b \in T : Position(a) <= Position(b)
    <3> DEFINE P == {Position(a) : a \in T}
    <3>1. P \in SUBSET Nat /\ P # {}
      BY <1>1, <1>3
    <3>2. PICK n \in P : \A m \in P : n <= m
      BY <3>1, LeastElement
    <3> QED
      BY <3>2
  <2>4. First(T) \in T /\ \A b \in T : Position(First(T)) <= Position(b)
    BY <2>3 DEF First
  <2>5. Position(First(T)) <= Position(c)
    BY <2>4
  <2> QED
    BY <1>1, <1>3, <2>2, <2>5
<1>7. Cardinality(Lower) < indices
  BY <1>6 DEF RestTargets
<1>8. indices <= Cardinality(T)
  OBVIOUS
<1> HIDE DEF T, Lower
<1>9. PICK t \in Nat, n \in Nat, p \in Int :
        t = Cardinality(T) /\ n = indices /\ p = Cardinality(Lower)
  <2>1. Cardinality(T) \in Nat /\ indices \in Nat
    BY <1>1, <1>2
  <2>2. Cardinality(Lower) \in Int
    BY <1>5, <2>1
  <2> QED
    BY <2>1, <2>2, Zenon
<1>10. p = t - 1 /\ p < n /\ n <= t
  BY <1>5, <1>7, <1>8, <1>9
<1>11. n = t /\ n # 0
  <2>1. \A u, v \in Nat : u - 1 < v /\ v <= u => v = u
    OBVIOUS
  <2>2. l \in T => t # 0
    BY <1>2, <1>9, FS_EmptySet
  <2> QED
    BY <1>1, <1>10, <2>1, <2>2
<1> QED
  BY <1>9, <1>11 DEF T

LEMMA ResplitPush ==
  ASSUME Inv, FairWhileDistributing, Resplit
  PROVE  PushInv'
<1> DEFINE s == SplitOf(households, meterDelta)
<1>1. /\ pc = "distribute" /\ pc' = "rest" /\ split' = s /\ indices' = Cardinality(s.hTo)
      /\ UNCHANGED <<households, meterDelta, before>>
  BY DEF Resplit, store
<1>2. /\ households \in Seq(Address) /\ Keys(households) \subseteq Address
      /\ meterDelta \in [Address -> Int] /\ before \in [Address -> Int]
      /\ \A a \in Address : meterDelta[a] # 0 => a \in Keys(households)
  BY Types DEF Inv, TypeOK
<1>3. /\ s \in Split /\ s.hTo \subseteq Keys(households)
      /\ s.more => /\ s.hFrom = {a \in Keys(households) : meterDelta[a] < 0}
                   /\ s.hTo = {a \in Keys(households) : meterDelta[a] > 0}
      /\ ~s.more => /\ s.hFrom = {a \in Keys(households) : meterDelta[a] > 0}
                    /\ s.hTo = {a \in Keys(households) : meterDelta[a] < 0}
  BY <1>2, SplitFacts
<1> HIDE DEF s
<1>4. s.more \in BOOLEAN
  BY <1>3 DEF Split
<1>5. \A a \in Address : Within(meterDelta[a], before[a])
  BY <1>1 DEF FairWhileDistributing
<1>6. ASSUME NEW a \in Address \ (s.hFrom \cup s.hTo) PROVE meterDelta[a] = 0
  <2>1. meterDelta[a] \in Int
    BY <1>2
  <2>2. a \in Keys(households) => ~(meterDelta[a] < 0) /\ ~(meterDelta[a] > 0)
    BY <1>3, <1>4, <1>6
  <2> QED
    BY <1>2, <2>1, <2>2
<1>7. ASSUME NEW a \in s.hTo
      PROVE  /\ a \in Address
             /\ (-Given(meterDelta[a]))' <= (-Given(before[a]))'
             /\ (1 <= -Given(meterDelta[a]))'
  <2>1. a \in Address /\ meterDelta[a] \in Int /\ before[a] \in Int
    BY <1>2, <1>3, <1>7
  <2>2. IF s.more THEN meterDelta[a] > 0 ELSE meterDelta[a] < 0
    BY <1>3, <1>4, <1>7
  <2>3. Within(meterDelta[a], before[a])
    BY <1>5, <2>1
  <2>4. IF s.more THEN meterDelta[a] <= before[a] ELSE before[a] <= meterDelta[a]
    BY <2>1, <2>2, <2>3 DEF Within
  <2> QED
    BY <1>1, <2>1, <2>2, <2>4 DEF Given
<1>8. \A a \in s.hTo : (Given(meterDelta[a]))' \in Int
  BY <1>1, <1>2, <1>3 DEF Given
<1>9. Cardinality(s.hTo) \in Nat
  BY <1>2, <1>3, KeysCounted
<1>10. \A x \in Int : 1 <= -x => 0 <= -x
  OBVIOUS
<1> QED
  BY <1>1, <1>6, <1>7, <1>8, <1>9, <1>10 DEF PushInv

LEMMA TransferRestPush ==
  ASSUME Inv, SmallInv, PushInv, TransferRest
  PROVE  PushInv'
<1>1. /\ pc = "rest" /\ pc' = "rest"
      /\ indices' = IF indices = 0 THEN 0 ELSE indices - 1
      /\ UNCHANGED <<households, split, before>>
  BY DEF TransferRest
<1>2. PICK b \in RestTargets :
        /\ b \in split.hTo /\ b \in Address
        /\ Given(meterDelta'[b]) = Given(meterDelta[b]) + 1
        /\ \A c \in Address \ split.hFrom : c # b => meterDelta'[c] = meterDelta[c]
        /\ Left' = Left - 1
  BY RestStep
<1>3. /\ meterDelta \in [Address -> Int] /\ before \in [Address -> Int]
      /\ split.more \in BOOLEAN /\ Left \in Int /\ indices \in Nat
      /\ split.hTo \subseteq Address /\ split.hTo \subseteq Keys(households)
      /\ split.hFrom \cap split.hTo = {} /\ households \in Seq(Address)
  BY <1>1, SmallTypes DEF Inv, TypeOK, LoopInv
<1>4. /\ Cardinality(split.hTo) \in Nat /\ Cardinality(Receivers) \in Nat
      /\ 2 * Left <= Cardinality(Receivers)
  BY <1>1, <1>3, KeysCounted DEF SmallInv
<1>5. /\ \A a \in Address \ (split.hFrom \cup split.hTo) : meterDelta'[a] = 0
  BY <1>1, <1>2, <1>3 DEF PushInv
<1>6. \A a \in split.hTo : a # b => meterDelta'[a] = meterDelta[a]
  BY <1>2, <1>3
<1>7. \A a \in split.hTo : Given(meterDelta[a]) \in Int /\ Given(before[a]) \in Int
  BY <1>3, GivenInt
<1>8. ASSUME NEW a \in split.hTo
      PROVE  /\ -Given(meterDelta'[a]) <= -Given(before[a])
             /\ \/ 0 <= -Given(meterDelta'[a])
                \/ 2 * (Given(meterDelta'[a]) + (Left - 1)) <= Cardinality(Receivers)
  <2>1. PICK x \in Int, y \in Int, z \in Int, n \in Nat :
          /\ x = Given(meterDelta[a]) /\ y = Given(before[a])
          /\ z = Left /\ n = Cardinality(Receivers)
    BY <1>3, <1>4, <1>7
  <2>2. -x <= -y /\ (0 <= -x \/ 2 * (x + z) <= n) /\ 2 * z <= n
    BY <1>1, <1>4, <2>1 DEF PushInv
  <2>3. CASE a = b
    <3>1. Given(meterDelta'[a]) = x + 1
      BY <1>2, <2>1, <2>3
    <3>2. -(x + 1) <= -y /\ (0 <= -(x + 1) \/ 2 * ((x + 1) + (z - 1)) <= n)
      BY <2>2
    <3> QED
      BY <2>1, <3>1, <3>2
  <2>4. CASE a # b
    <3>1. Given(meterDelta'[a]) = x
      BY <1>6, <2>1, <2>4
    <3>2. 0 <= -x \/ 2 * (x + (z - 1)) <= n
      BY <2>2
    <3> QED
      BY <2>1, <2>2, <3>1, <3>2
  <2> QED
    BY <2>3, <2>4
<1>9. indices <= Cardinality(split.hTo)
  BY <1>1 DEF PushInv
<1>10. indices' \in Nat /\ indices' <= indices /\ (indices # 0 => indices' < indices)
  BY <1>1, <1>3
<1>11. ASSUME NEW l \in split.hTo, Last(l), split.hTo # {l}
       PROVE  /\ 0 <= -Given(meterDelta'[l])
              /\ indices' = Cardinality(split.hTo) => 1 <= -Given(meterDelta'[l])
  <2>1. PICK x \in Int, n \in Nat : x = Given(meterDelta[l]) /\ n = Cardinality(split.hTo)
    BY <1>4, <1>7
  <2>2. 0 <= -x /\ (indices = n => 1 <= -x) /\ indices <= n
    BY <1>1, <1>9, <1>11, <2>1 DEF PushInv
  <2>3. CASE l = b
    <3>1. indices = n /\ indices # 0
      BY <1>1, <1>2, <1>9, <1>11, <2>1, <2>3, LastDrawn
    <3>2. Given(meterDelta'[l]) = x + 1 /\ 0 <= -(x + 1) /\ indices' # n
      BY <1>2, <1>3, <1>10, <2>1, <2>2, <2>3, <3>1
    <3> QED
      BY <2>1, <3>2
  <2>4. CASE l # b
    <3>1. Given(meterDelta'[l]) = x
      BY <1>6, <2>1, <2>4
    <3>2. indices' = n => indices = n
      BY <1>3, <1>10, <2>2
    <3> QED
      BY <2>1, <2>2, <3>1, <3>2
  <2> QED
    BY <2>3, <2>4
<1>12. indices' <= Cardinality(split.hTo)
  BY <1>3, <1>4, <1>9, <1>10
<1>13. \A a \in split.hTo : /\ Given(meterDelta[a])' = Given(meterDelta'[a])
                            /\ Given(before[a])' = Given(before[a])
  BY <1>1 DEF Given
<1>14. Cardinality(Receivers)' = Cardinality(Receivers)
  BY <1>1 DEF Receivers
<1>15. \A l : Last(l)' <=> Last(l)
  BY <1>1 DEF Last, Position
<1> QED
  BY <1>1, <1>2, <1>5, <1>8, <1>11, <1>12, <1>13, <1>14, <1>15 DEF PushInv

LEMMA NextPush ==
  ASSUME Inv, FairWhileDistributing, SmallInv, PushInv, [Next]_vars
  PROVE  PushInv'
<1>1. CASE pc' # "rest"
  BY <1>1 DEF PushInv
<1>2. CASE \E a \in Address : addHousehold(a)
  BY <1>1, <1>2 DEF addHousehold
<1>3. CASE \E a \in Address, d \in Deltas : updateMeterDelta(a, d)
  BY <1>1, <1>3 DEF updateMeterDelta
<1>4. CASE getHouseholdAddressesProducers
  BY <1>1, <1>4 DEF getHouseholdAddressesProducers
<1>5. CASE settle
  BY <1>1, <1>5 DEF settle
<1>6. CASE Settling
  <2>1. CASE Allocate \/ Give \/ Return
    BY <1>1, <2>1 DEF Allocate, Give, Return
  <2> QED
    BY <1>6, <2>1, ResplitPush, TransferRestPush DEF Settling
<1>7. CASE UNCHANGED vars
  <2>1. UNCHANGED <<households, meterDelta, pc, split, indices, before>>
    BY <1>7 DEF vars, store, locals
  <2> QED
    BY <2>1 DEF PushInv, Left, Given, Held, Receivers, Last, Position
<1> QED
  BY <1>2, <1>3, <1>4, <1>5, <1>6, <1>7 DEF Next

(* What households hold between settlements, and what they held before the *)
(* one under way, fits the field; the placeholder held nothing.            *)
FieldInv ==
  /\ \A a \in Address : Fits(IF pc = "idle" THEN meterDelta[a] ELSE before[a])
  /\ pc # "idle" => before[Zero] = 0

LEMMA FieldNumbers ==
  /\ IsFiniteSet(Household) /\ N \in Nat /\ Prime \in Nat /\ Prime > 0 /\ N * N < Prime
  /\ Fits(0) /\ \A x \in Deltas : Fits(x)
<1>1. IsFiniteSet(Household) /\ N \in Nat /\ Prime \in Nat /\ N * N < Prime
  BY FieldAssumption, SettlementAssumption, FS_CardinalityType DEF N
<1>2. Prime > 0
  <2>1. \A n \in Nat : 0 <= n * n
    OBVIOUS
  <2> QED
    BY <1>1, <2>1
<1>3. Fits(0)
  BY <1>1, <1>2 DEF Fits, Magnitude
<1>4. \A x \in Deltas : Fits(x)
  BY FieldAssumption DEF Fits, N
<1> QED
  BY <1>1, <1>2, <1>3, <1>4

LEMMA FitsBelow ==
  ASSUME NEW x \in Int, NEW y \in Int, Magnitude(x) <= Magnitude(y), Fits(y)
  PROVE  Fits(x)
<1>1. PICK u \in Nat, v \in Nat : u = Magnitude(x) /\ v = Magnitude(y)
  BY DEF Magnitude
<1>2. u <= v /\ 2 * N * v < Prime
  BY <1>1 DEF Fits
<1>3. \A n, i, j \in Nat : i <= j => 2 * n * i <= 2 * n * j
  OBVIOUS
<1>4. N \in Nat /\ Prime \in Nat
  BY FieldNumbers
<1>5. PICK i \in Int, j \in Int : i = 2 * N * u /\ j = 2 * N * v
  BY <1>4
<1>6. i <= j
  BY <1>2, <1>3, <1>4, <1>5
<1>7. i < Prime
  BY <1>2, <1>4, <1>5, <1>6
<1> QED
  BY <1>1, <1>5, <1>7 DEF Fits

LEMMA FitsWithin ==
  ASSUME NEW x \in Int, NEW y \in Int, Within(x, y), Fits(y)
  PROVE  Fits(x)
<1>1. Magnitude(x) <= Magnitude(y)
  BY DEF Within, Magnitude
<1> QED
  BY <1>1, FitsBelow

LEMMA FitsHalf ==
  ASSUME NEW x \in Int, 2 * Magnitude(x) <= N
  PROVE  Fits(x)
<1>1. PICK u \in Nat : u = Magnitude(x)
  BY DEF Magnitude
<1>2. N \in Nat /\ Prime \in Nat /\ N * N < Prime
  BY FieldNumbers
<1>3. \A n, i \in Nat : 2 * i <= n => 2 * n * i <= n * n
  <2> TAKE n, i \in Nat
  <2> HAVE 2 * i <= n
  <2>1. PICK k \in Nat : k = n - 2 * i
    OBVIOUS
  <2>2. n * n = 2 * n * i + n * k
    BY <2>1
  <2>3. 0 <= n * k
    OBVIOUS
  <2> QED
    BY <2>2, <2>3
<1>4. PICK i \in Int, j \in Int : i = 2 * N * u /\ j = N * N
  BY <1>2
<1>5. i <= j
  BY <1>1, <1>2, <1>3, <1>4
<1> QED
  BY <1>1, <1>2, <1>4, <1>5 DEF Fits

(* What is left is not negative, and no more households receive than there *)
(* are.                                                                    *)
LEMMA RestNumbers ==
  ASSUME Inv, FieldInv, pc = "rest"
  PROVE  /\ Left \in Int /\ 0 <= Left
         /\ Cardinality(Receivers) \in Nat /\ Cardinality(Receivers) <= N
<1>1. /\ households \in Seq(Address) /\ meterDelta \in [Address -> Int]
      /\ split.more \in BOOLEAN /\ Left \in Int
  BY SmallTypes
<1>2. 0 <= Left
  <2>1. \A a \in split.hFrom \cap Address : 0 <= Given(meterDelta[a])
    BY DEF Inv, LoopInv
  <2>2. PICK i \in Int : i = SumOver(households, Held(split.hFrom, meterDelta))
    BY <1>1, HeldInt
  <2>3. 0 <= Given(i)
    BY <1>1, <2>1, <2>2, GivenSum
  <2> QED
    BY <2>2, <2>3 DEF Left
<1>3. Receivers \subseteq Household
  <2>1. Zero \notin Receivers
    BY <1>1 DEF FieldInv, Receivers
  <2> QED
    BY <2>1 DEF Receivers, Address
<1> QED
  BY <1>1, <1>2, <1>3, FieldNumbers, FS_Subset, FS_CardinalityType DEF N

(* Everything held at any time fits the field.                             *)
LEMMA AllFits ==
  ASSUME Inv, FairWhileDistributing, SmallInv, PushInv, FieldInv
  PROVE  \A a \in Address : Fits(meterDelta[a])
<1> SUFFICES ASSUME NEW a \in Address PROVE Fits(meterDelta[a])
  OBVIOUS
<1>1. /\ meterDelta[a] \in Int /\ before[a] \in Int
      /\ pc \in {"idle", "distribute", "rest"}
  BY Types DEF Inv, TypeOK
<1>2. CASE pc = "idle"
  BY <1>2 DEF FieldInv
<1>3. CASE pc = "distribute"
  <2>1. Within(meterDelta[a], before[a]) /\ Fits(before[a])
    BY <1>3 DEF FieldInv, FairWhileDistributing
  <2> QED
    BY <1>1, <2>1, FitsWithin
<1>4. CASE pc = "rest"
  <2>0. Fits(before[a]) /\ split.more \in BOOLEAN
    BY <1>4, SmallTypes DEF FieldInv
  <2>1. CASE a \in split.hFrom
    <3>1. Within(meterDelta[a], before[a])
      BY <1>4, <2>1 DEF FairWhileDistributing
    <3> QED
      BY <1>1, <2>0, <3>1, FitsWithin
  <2>2. CASE a \notin split.hFrom \cup split.hTo
    <3>1. meterDelta[a] = 0
      BY <1>4, <2>2 DEF PushInv
    <3> QED
      BY <3>1, FieldNumbers
  <2>3. CASE a \in split.hTo
    <3>1. PICK x \in Int, y \in Int : x = Given(meterDelta[a]) /\ y = Given(before[a])
      BY <1>1, <2>0, GivenInt
    <3>2. -x <= -y /\ (0 <= -x \/ 2 * (x + Left) <= Cardinality(Receivers))
      BY <1>4, <2>3, <3>1 DEF PushInv
    <3>3. CASE 0 <= -x
      <4>1. Within(meterDelta[a], before[a])
        BY <1>1, <2>0, <3>1, <3>2, <3>3 DEF Within, Given
      <4> QED
        BY <1>1, <2>0, <4>1, FitsWithin
    <3>4. CASE ~(0 <= -x)
      <4>1. 2 * x <= N
        BY <1>4, <3>2, <3>4, RestNumbers, FieldNumbers
      <4>2. Magnitude(meterDelta[a]) = x
        BY <1>1, <2>0, <3>1, <3>4 DEF Magnitude, Given
      <4> QED
        BY <1>1, <4>1, <4>2, FitsHalf
    <3> QED
      BY <3>3, <3>4
  <2> QED
    BY <2>1, <2>2, <2>3
<1> QED
  BY <1>1, <1>2, <1>3, <1>4

LEMMA NextField ==
  ASSUME Inv, FairWhileDistributing, SmallInv, PushInv, FieldInv, [Next]_vars
  PROVE  FieldInv'
<1>1. /\ meterDelta \in [Address -> Int] /\ before \in [Address -> Int] /\ Zero \in Address
      /\ \A a \in Address : Fits(meterDelta[a])
  BY Types, AllFits DEF Inv
<1>2. ASSUME NEW a \in Address, addHousehold(a) PROVE FieldInv'
  BY <1>1, <1>2, FieldNumbers DEF addHousehold, FieldInv
<1>3. ASSUME NEW a \in Address, NEW d \in Deltas, updateMeterDelta(a, d) PROVE FieldInv'
  BY <1>1, <1>3, FieldNumbers DEF updateMeterDelta, FieldInv
<1>4. CASE getHouseholdAddressesProducers
  BY <1>1, <1>4, FieldNumbers DEF getHouseholdAddressesProducers, FieldInv
<1>5. CASE settle
  <2>1. pc' = "distribute" /\ before' = [meterDelta EXCEPT ![Zero] = 0]
    BY <1>5 DEF settle
  <2> QED
    BY <1>1, <2>1, FieldNumbers DEF FieldInv
<1>6. CASE Return
  BY <1>1, <1>6 DEF Return, FieldInv, store
<1>7. CASE Allocate \/ Give \/ Resplit \/ TransferRest
  <2>1. pc # "idle" /\ pc' # "idle" /\ before' = before
    BY <1>7 DEF Allocate, Give, Resplit, TransferRest
  <2> QED
    BY <2>1 DEF FieldInv
<1>8. CASE UNCHANGED vars
  BY <1>8 DEF vars, store, FieldInv
<1> QED
  BY <1>2, <1>3, <1>4, <1>5, <1>6, <1>7, <1>8 DEF Next, Settling

LEMMA AlwaysPush ==
  Spec => [](PushInv /\ FieldInv /\ SmallInv /\ FairWhileDistributing)
<1>1. Init => PushInv /\ FieldInv /\ SmallInv
  <2>1. Init => PushInv /\ SmallInv
    BY DEF Init, PushInv, SmallInv
  <2>2. Init => FieldInv
    BY FieldNumbers DEF Init, FieldInv, NoDeltas
  <2> QED
    BY <2>1, <2>2
<1> QED
  BY <1>1, NextPush, NextField, NextSmall, AlwaysInv, AlwaysSplit, LoopsAreFair, PTL DEF Spec
-----------------------------------------------------------------------------
(* The program accepts what is fair: the program                           *)

(* Deltas as elements of the field, and without sign.                      *)
Field(v) == [a \in Address |-> v[a] % Prime]
Size(v) == [a \in Address |-> Magnitude(v[a])]
Gap(x, y) == IF x > y THEN x - y ELSE y - x

LEMMA Residue ==
  ASSUME NEW x \in Int
  PROVE  /\ x % Prime \in Int /\ 0 <= x % Prime
         /\ 0 <= x /\ x < Prime => x % Prime = x
         /\ x < 0 /\ -x < Prime => x % Prime = x + Prime
<1>1. PICK m \in Nat : m = Prime /\ m > 0
  BY FieldNumbers
<1>2. /\ x = m * (x \div m) + (x % m) /\ 0 <= x % m /\ x % m < m
      /\ x \div m \in Int /\ x % m \in Int
  BY <1>1
<1>3. PICK q \in Int, r \in Int : q = x \div m /\ r = x % m
  BY <1>2
<1>4. x = m * q + r /\ 0 <= r /\ r < m
  BY <1>2, <1>3
<1>5. /\ q >= 1 => m * q >= m
      /\ q <= -1 => m * q <= -m
      /\ q <= -2 => m * q <= -m - m
      /\ q = 0 => m * q = 0
      /\ q = -1 => m * q = -m
  BY <1>1
<1>6. PICK z \in Int : z = m * q
  BY <1>1
<1>7. x = z + r
  BY <1>4, <1>6
<1>8. 0 <= x /\ x < m => r = x
  BY <1>1, <1>4, <1>5, <1>6, <1>7
<1>9. x < 0 /\ -x < m => r = x + m
  BY <1>1, <1>4, <1>5, <1>6, <1>7
<1>10. x % Prime \in Int /\ 0 <= x % Prime
  BY <1>1, <1>2
<1> QED
  BY <1>1, <1>2, <1>3, <1>8, <1>9, <1>10

LEMMA Piece ==
  ASSUME NEW s \in Seq(Int), NEW m \in Nat, NEW n \in Nat, m + n <= Len(s)
  PROVE  /\ SubSeq(s, m + 1, m + n) \in Seq(Int) /\ Len(SubSeq(s, m + 1, m + n)) = n
         /\ \A k \in 1..n : SubSeq(s, m + 1, m + n)[k] = s[m + k]
<1>1. PICK i \in Int, j \in Int : i = m + 1 /\ j = m + n
  OBVIOUS
<1>2. \A k \in i..j : s[k] \in Int
  <2>1. \A k \in i..j : k \in 1..Len(s)
    BY <1>1
  <2> QED
    BY <2>1, EntryOf
<1>3. /\ SubSeq(s, i, j) \in Seq(Int)
      /\ Len(SubSeq(s, i, j)) = IF i <= j THEN j - i + 1 ELSE 0
      /\ \A k \in 1..(j - i + 1) : SubSeq(s, i, j)[k] = s[i + k - 1]
  BY <1>2, SubSeqProperties
<1>4. /\ j - i + 1 = n /\ (~(i <= j) => n = 0)
      /\ \A k \in 1..n : i + k - 1 = m + k
  BY <1>1
<1>5. /\ SubSeq(s, i, j) \in Seq(Int) /\ Len(SubSeq(s, i, j)) = n
      /\ \A k \in 1..n : SubSeq(s, i, j)[k] = s[m + k]
  BY <1>3, <1>4
<1> QED
  BY <1>1, <1>5

(* The sums of the program are those of the utility, in the field.         *)
LEMMA TotalIs ==
  ASSUME NEW hh \in Seq(Int), NEW list \in Seq(Address), Len(list) = Len(hh),
         NEW v \in [Address -> Int], \A k \in 1..Len(hh) : hh[k] = v[list[k]]
  PROVE  Total(hh) = SumOver(list, v) % Prime
<1> DEFINE places == [i \in 1..Len(hh) |-> i]
<1>1. /\ Len(hh) \in Nat /\ hh \in [1..Len(hh) -> Int]
      /\ places \in Seq(1..Len(hh)) /\ Len(places) = Len(hh)
      /\ \A k \in 1..Len(hh) : places[k] = k
  OBVIOUS
<1>2. Total(hh) = SumOver(places, hh) % Prime
  BY DEF Total
<1> HIDE DEF places
<1>3. SameEntries(1..Len(hh), Address, places, hh, list, v)
  BY <1>1 DEF SameEntries
<1> QED
  BY <1>2, <1>3, SumReread

LEMMA CountsNothing ==
  ASSUME NEW m \in Int, NEW S \in SUBSET (1..m)
  PROVE  Cardinality(S) = 0 <=> S = {}
<1>1. 1 \in Int /\ IsFiniteSet(1..m)
  BY FS_Interval
<1> QED
  BY <1>1, FS_Subset, FS_EmptySet

(* What main asserts of a settlement.                                      *)
LEMMA MainIs ==
  ASSUME NEW order \in Seq(Address), NEW b \in [Address -> Int],
         NEW d \in [Address -> Int]
  PROVE  LET p == ProducerAddresses(order, b)
             c == ConsumerAddresses(order, b)
             PB == SumOver(p, Field(b)) % Prime
             CB == SumOver(c, Field(Size(b))) % Prime
             PA == SumOver(p, Field(d)) % Prime
             CA == SumOver(c, Field(Size(d))) % Prime
             epsilon == Len(c) + Len(p) - 1
         IN  main(Len(p), Len(c), Arguments(order, b, d)) <=>
               /\ Gap(PB, CB) = Gap(PA, CA)
               /\ \A k \in 1..(Len(p) - 1) : ~(Field(d)[p[k]] > Field(b)[p[k]])
               /\ \A k \in 1..Len(c) : ~(Field(Size(d))[c[k]] > Field(Size(b))[c[k]])
               /\ PA <= CA => \A k \in 1..Len(p) : ~(Field(d)[p[k]] > epsilon)
               /\ ~(PA <= CA) => \A k \in 1..Len(c) : ~(Field(Size(d))[c[k]] > epsilon)
<1> DEFINE p == ProducerAddresses(order, b)
           c == ConsumerAddresses(order, b)
           args == Arguments(order, b, d)
           field == [k \in 1..Len(args) |-> args[k] % Prime]
<1>1. /\ p \in Seq(Address) /\ c \in Seq(Address)
      /\ Len(p) \in Nat /\ Len(c) \in Nat
  BY Grouped
<1>2. LET all == Len(p) + Len(c)
      IN  /\ args \in Seq(Int) /\ Len(args) = all + all
          /\ \A k \in 1..Len(p) : args[k] = b[p[k]] /\ args[all + k] = d[p[k]]
          /\ \A k \in 1..Len(c) : /\ args[Len(p) + k] = Magnitude(b[c[k]])
                                  /\ args[all + (Len(p) + k)] = Magnitude(d[c[k]])
  BY ArgumentEntries
<1>3. PICK w \in Nat, n \in Nat : w = Len(p) /\ n = Len(c)
  BY <1>1
<1> HIDE DEF p, c, args
<1>4. /\ field \in Seq(Int) /\ Len(field) = w + n + (w + n)
      /\ \A k \in 1..(w + n + (w + n)) : field[k] = args[k] % Prime
  <2>1. Len(args) = w + n + (w + n) /\ Len(args) \in Nat
    BY <1>2, <1>3
  <2>2. \A k \in 1..Len(args) : args[k] % Prime \in Int
    BY <1>2, EntryOf, Residue
  <2>3. field \in [1..Len(args) -> Int]
    BY <2>2
  <2>4. field \in Seq(Int) /\ Len(field) = Len(args)
    <3> HIDE DEF field
    <3> QED
      BY <2>1, <2>3, ListOf
  <2> QED
    BY <2>1, <2>4
<1> DEFINE u == SubSeq(field, 1, w)
           v == SubSeq(field, w + 1, w + n)
           x == SubSeq(field, w + n + 1, 2 * w + n)
           y == SubSeq(field, 2 * w + n + 1, 2 * (w + n))
           eps == n + w - 1
<1>5. main(w, n, args) <=>
        /\ calculateTotalDelta(u, v) = calculateTotalDelta(x, y)
        /\ validateFairnessProducers(u, x) = 0
        /\ validateFairnessConsumers(v, y) = 0
        /\ ZeroNet(x, y, eps)
  <2>1. Len(args) = 2 * (w + n)
    BY <1>2, <1>3
  <2> QED
    BY <2>1 DEF main
<1> HIDE DEF field
<1>6. /\ u \in Seq(Int) /\ Len(u) = w /\ \A k \in 1..w : u[k] = field[0 + k]
      /\ v \in Seq(Int) /\ Len(v) = n /\ \A k \in 1..n : v[k] = field[w + k]
      /\ x \in Seq(Int) /\ Len(x) = w /\ \A k \in 1..w : x[k] = field[w + n + k]
      /\ y \in Seq(Int) /\ Len(y) = n /\ \A k \in 1..n : y[k] = field[w + n + w + k]
  <2>1. /\ 0 + w <= Len(field) /\ w + n <= Len(field) /\ w + n + w <= Len(field)
        /\ (w + n + w) + n <= Len(field) /\ w + n \in Nat /\ w + n + w \in Nat
    BY <1>4
  <2>2. /\ u = SubSeq(field, 0 + 1, 0 + w) /\ x = SubSeq(field, w + n + 1, w + n + w)
        /\ y = SubSeq(field, w + n + w + 1, w + n + w + n)
    <3>1. /\ 0 + w = w /\ 2 * w + n = w + n + w /\ 2 * (w + n) = w + n + w + n
      OBVIOUS
    <3> QED
      BY <3>1
  <2> HIDE DEF u, v, x, y
  <2>3. u \in Seq(Int) /\ Len(u) = w /\ \A k \in 1..w : u[k] = field[0 + k]
    BY <1>4, <2>1, <2>2, Piece
  <2>4. v \in Seq(Int) /\ Len(v) = n /\ \A k \in 1..n : v[k] = field[w + k]
    BY <1>4, <2>1, Piece DEF v
  <2>5. x \in Seq(Int) /\ Len(x) = w /\ \A k \in 1..w : x[k] = field[w + n + k]
    BY <1>4, <2>1, <2>2, Piece
  <2>6. y \in Seq(Int) /\ Len(y) = n /\ \A k \in 1..n : y[k] = field[w + n + w + k]
    BY <1>4, <2>1, <2>2, Piece
  <2> QED
    BY <2>3, <2>4, <2>5, <2>6
<1> HIDE DEF u, v, x, y, eps
<1>7. /\ Field(b) \in [Address -> Int] /\ Field(d) \in [Address -> Int]
      /\ Field(Size(b)) \in [Address -> Int] /\ Field(Size(d)) \in [Address -> Int]
  <2>1. \A z \in Int : Magnitude(z) \in Int
    BY DEF Magnitude
  <2>2. Size(b) \in [Address -> Int] /\ Size(d) \in [Address -> Int]
    BY <2>1 DEF Size
  <2>3. ASSUME NEW g \in [Address -> Int] PROVE Field(g) \in [Address -> Int]
    <3>1. \A a \in Address : g[a] % Prime \in Int
      BY Residue
    <3> QED
      BY <3>1 DEF Field
  <2> QED
    BY <2>2, <2>3
<1>8. ASSUME NEW k \in 1..w PROVE u[k] = Field(b)[p[k]] /\ x[k] = Field(d)[p[k]]
  <2>1. p[k] \in Address
    BY <1>1, <1>3, EntryOf
  <2>2. /\ 0 + k = k /\ k \in 1..(w + n + (w + n)) /\ w + n + k \in 1..(w + n + (w + n))
    OBVIOUS
  <2>3. u[k] = args[k] % Prime /\ x[k] = args[w + n + k] % Prime
    BY <1>4, <1>6, <2>2
  <2>4. args[k] = b[p[k]] /\ args[w + n + k] = d[p[k]]
    BY <1>2, <1>3
  <2> QED
    BY <2>1, <2>3, <2>4 DEF Field
<1>9. ASSUME NEW k \in 1..n
      PROVE  v[k] = Field(Size(b))[c[k]] /\ y[k] = Field(Size(d))[c[k]]
  <2>1. c[k] \in Address
    BY <1>1, <1>3, EntryOf
  <2>2. /\ w + k \in 1..(w + n + (w + n)) /\ w + n + w + k \in 1..(w + n + (w + n))
        /\ w + n + w + k = w + n + (w + k)
    OBVIOUS
  <2>3. v[k] = args[w + k] % Prime /\ y[k] = args[w + n + (w + k)] % Prime
    BY <1>4, <1>6, <2>2
  <2>4. args[w + k] = Magnitude(b[c[k]]) /\ args[w + n + (w + k)] = Magnitude(d[c[k]])
    BY <1>2, <1>3
  <2> QED
    BY <2>1, <2>3, <2>4 DEF Field, Size
<1>10. /\ Total(u) = SumOver(p, Field(b)) % Prime
       /\ Total(x) = SumOver(p, Field(d)) % Prime
  <2>1. /\ Len(p) = Len(u) /\ \A k \in 1..Len(u) : u[k] = Field(b)[p[k]]
        /\ Len(p) = Len(x) /\ \A k \in 1..Len(x) : x[k] = Field(d)[p[k]]
    BY <1>3, <1>6, <1>8
  <2> QED
    BY <1>1, <1>6, <1>7, <2>1, TotalIs
<1>11. /\ Total(v) = SumOver(c, Field(Size(b))) % Prime
       /\ Total(y) = SumOver(c, Field(Size(d))) % Prime
  <2>1. /\ Len(c) = Len(v) /\ \A k \in 1..Len(v) : v[k] = Field(Size(b))[c[k]]
        /\ Len(c) = Len(y) /\ \A k \in 1..Len(y) : y[k] = Field(Size(d))[c[k]]
    BY <1>3, <1>6, <1>9
  <2> QED
    BY <1>1, <1>6, <1>7, <2>1, TotalIs
<1>12. /\ calculateTotalDelta(u, v) = Gap(Total(u), Total(v))
       /\ calculateTotalDelta(x, y) = Gap(Total(x), Total(y))
  BY DEF calculateTotalDelta, deltaProducers, deltaConsumers, Gap
<1>13. validateFairnessProducers(u, x) = 0
         <=> \A k \in 1..(w - 1) : ~(Field(d)[p[k]] > Field(b)[p[k]])
  <2> DEFINE S == {k \in 1..(w - 1) : x[k] > u[k]}
  <2>1. validateFairnessProducers(u, x) = Cardinality(S)
    BY <1>6 DEF validateFairnessProducers
  <2>2. Cardinality(S) = 0 <=> S = {}
    <3>1. S \in SUBSET (1..(w - 1)) /\ w - 1 \in Int
      OBVIOUS
    <3> HIDE DEF S
    <3> QED
      BY <3>1, CountsNothing
  <2>3. \A k \in 1..(w - 1) : k \in 1..w
    OBVIOUS
  <2>4. S = {} <=> \A k \in 1..(w - 1) : ~(x[k] > u[k])
    OBVIOUS
  <2> HIDE DEF S
  <2> QED
    BY <1>8, <2>1, <2>2, <2>3, <2>4
<1>14. validateFairnessConsumers(v, y) = 0
         <=> \A k \in 1..n : ~(Field(Size(d))[c[k]] > Field(Size(b))[c[k]])
  <2> DEFINE S == {k \in 1..n : y[k] > v[k]}
  <2>1. validateFairnessConsumers(v, y) = Cardinality(S)
    BY <1>6 DEF validateFairnessConsumers
  <2>2. Cardinality(S) = 0 <=> S = {}
    <3>1. S \in SUBSET (1..n) /\ n \in Int
      OBVIOUS
    <3> HIDE DEF S
    <3> QED
      BY <3>1, CountsNothing
  <2>3. S = {} <=> \A k \in 1..n : ~(y[k] > v[k])
    OBVIOUS
  <2> HIDE DEF S
  <2> QED
    BY <1>9, <2>1, <2>2, <2>3
<1>15. ZeroNet(x, y, eps)
         <=> /\ Total(x) <= Total(y) => \A k \in 1..w : ~(Field(d)[p[k]] > eps)
             /\ ~(Total(x) <= Total(y)) => \A k \in 1..n : ~(Field(Size(d))[c[k]] > eps)
  <2> DEFINE S == {k \in 1..w : x[k] > eps}
             R == {k \in 1..n : y[k] > eps}
  <2>1. /\ validateZeroNetProducers(x, eps) = Cardinality(S)
        /\ validateZeroNetConsumers(y, eps) = Cardinality(R)
    BY <1>6 DEF validateZeroNetProducers, validateZeroNetConsumers
  <2>2. (Cardinality(S) = 0 <=> S = {}) /\ (Cardinality(R) = 0 <=> R = {})
    <3>1. S \in SUBSET (1..w) /\ w \in Int /\ R \in SUBSET (1..n) /\ n \in Int
      OBVIOUS
    <3> HIDE DEF S, R
    <3> QED
      BY <3>1, CountsNothing
  <2>3. S = {} <=> \A k \in 1..w : ~(Field(d)[p[k]] > eps)
    BY <1>8
  <2>4. R = {} <=> \A k \in 1..n : ~(Field(Size(d))[c[k]] > eps)
    BY <1>9
  <2> HIDE DEF S, R
  <2>5. ZeroNet(x, y, eps) <=> IF Total(x) <= Total(y) THEN Cardinality(S) = 0
                                                        ELSE Cardinality(R) = 0
    BY <2>1, Zenon DEF ZeroNet, sumProducers, sumConsumers
  <2> QED
    BY <2>2, <2>3, <2>4, <2>5, Zenon
<1>16. eps = Len(c) + Len(p) - 1
  BY <1>3 DEF eps
<1>17. main(Len(p), Len(c), args) <=> main(w, n, args)
  BY <1>3
<1> QED
  BY <1>3, <1>5, <1>10, <1>11, <1>12, <1>13, <1>14, <1>15, <1>16, <1>17, Zenon
     DEF p, c, args
-----------------------------------------------------------------------------
(* The program accepts what is fair: the sums                              *)

ProducerSet(b) == {a \in Keys(households) : b[a] >= 0}
ConsumerSet(b) == {a \in Keys(households) : b[a] < 0}

(* A settlement as the program gets to see it.                             *)
Seen(b, d) ==
  /\ households \in Seq(Address) /\ Once(households)
  /\ Keys(households) \subseteq Household /\ Keys(households) # {}
  /\ b \in [Address -> Int] /\ d \in [Address -> Int]
  /\ \A a \in Address : Fits(b[a]) /\ Fits(d[a])
  /\ SumOver(households, d) = SumOver(households, b)

(* Twice anything that fits N times is less than the field's order.        *)
LEMMA FitsField ==
  ASSUME NEW x \in Int, Fits(x), N > 0
  PROVE  2 * Magnitude(x) < Prime
<1>1. PICK u \in Nat : u = Magnitude(x)
  BY DEF Magnitude
<1>2. N \in Nat /\ Prime \in Nat
  BY FieldNumbers
<1>3. \A n, i \in Nat : n > 0 => 2 * i <= 2 * n * i
  <2> TAKE n, i \in Nat
  <2> HAVE n > 0
  <2>1. PICK k \in Nat : n = k + 1
    <3>1. n - 1 \in Nat /\ n = (n - 1) + 1
      OBVIOUS
    <3> QED
      BY <3>1
  <2>2. 2 * n * i = 2 * i + 2 * k * i /\ 0 <= k * i
    BY <2>1
  <2> QED
    BY <2>2
<1>4. PICK i \in Int : i = 2 * N * u
  BY <1>2
<1>5. 2 * u <= i /\ i < Prime
  BY <1>1, <1>2, <1>3, <1>4 DEF Fits
<1> QED
  BY <1>1, <1>2, <1>5

LEMMA KeysAtMost ==
  ASSUME NEW order \in Seq(Address), Once(order), Keys(order) \subseteq Household
  PROVE  Len(order) <= N
<1> DEFINE n == Len(order)
           f == [k \in 1..n |-> order[k]]
<1>1. n \in Nat
  OBVIOUS
<1>2. f \in Injection(1..n, Household)
  BY DEF Injection, IsInjective, Once, Keys
<1>3. Cardinality(1..n) <= N
  BY <1>2, FieldNumbers, FS_Injection DEF N
<1>4. Cardinality(1..n) = n
  <2>1. 1 \in Int /\ n \in Int
    BY <1>1
  <2> HIDE DEF n
  <2>2. Cardinality(1..n) = IF 1 > n THEN 0 ELSE n - 1 + 1
    BY <2>1, FS_Interval
  <2> QED
    BY <1>1, <2>2 DEF n
<1> QED
  BY <1>3, <1>4

LEMMA Scaled ==
  ASSUME NEW M \in Int, NEW x \in Int, NEW y \in Int, NEW k \in Int, NEW q \in Int,
         M * x <= (k - 1) * q, M * y <= q
  PROVE  M * (x + y) <= k * q
<1>1. PICK i \in Int, j \in Int, l \in Int : i = M * x /\ j = M * y /\ l = (k - 1) * q
  OBVIOUS
<1>2. i <= l /\ j <= q
  BY <1>1
<1>3. M * (x + y) = i + j /\ k * q = l + q
  BY <1>1
<1> QED
  BY <1>2, <1>3

LEMMA HalfOf ==
  ASSUME NEW n \in Int, NEW g \in Nat, NEW p \in Int, NEW s \in Int, 0 < n, 0 < p,
         2 * (n + g) * s <= n * (p - 1)
  PROVE  2 * s < p
<1> SUFFICES ASSUME 2 * s >= p PROVE FALSE
  OBVIOUS
<1>1. PICK e \in Nat : 2 * s = p + e
  <2>1. 2 * s - p \in Nat /\ 2 * s = p + (2 * s - p)
    OBVIOUS
  <2> QED
    BY <2>1
<1>2. 2 * (n + g) * s = (n + g) * (2 * s)
  OBVIOUS
<1>3. (n + g) * (p + e) = n * (p - 1) + n + n * e + g * p + g * e
  OBVIOUS
<1>4. PICK i \in Int, j \in Int, k \in Int, l \in Int :
        i = n * e /\ j = g * p /\ k = g * e /\ l = n * (p - 1)
  OBVIOUS
<1>5. 0 <= i /\ 0 <= j /\ 0 <= k
  BY <1>4
<1>6. (n + g) * (2 * s) <= l
  BY <1>2, <1>4
<1>7. (n + g) * (2 * s) = l + n + i + j + k
  BY <1>1, <1>3, <1>4
<1> QED
  BY <1>5, <1>6, <1>7

(* A sum of entries that fit is less than half the field's order.          *)
LEMMA SumFits ==
  ASSUME NEW order \in Seq(Address), Once(order), Keys(order) \subseteq Household,
         Keys(order) # {}, NEW v \in [Address -> Int],
         \A a \in Address : 0 <= v[a] /\ Fits(v[a])
  PROVE  /\ SumOver(order, v) \in Int /\ 0 <= SumOver(order, v)
         /\ 2 * SumOver(order, v) < Prime
<1>0. PICK M \in Nat, p \in Nat : M = 2 * N /\ p = Prime /\ p > 0
  BY FieldNumbers
<1>1. PICK n \in Nat, g \in Nat : n = Len(order) /\ N = n + g /\ n > 0
  <2>1. Len(order) \in Nat /\ Len(order) # 0
    BY DEF Keys
  <2>2. Len(order) <= N /\ N \in Nat
    BY KeysAtMost, FieldNumbers
  <2>3. N - Len(order) \in Nat /\ N = Len(order) + (N - Len(order))
    BY <2>1, <2>2
  <2> QED
    BY <2>1, <2>3
<1>2. PICK f : Partial(order, v, Len(order), f) /\ SumOver(order, v) = f[Len(order)]
  BY SumIsPartial
<1>3. /\ f \in [0..n -> Int] /\ f[0] = 0 /\ SumOver(order, v) = f[n]
      /\ \A k \in 1..n : f[k] = f[k - 1] + v[order[k]]
  BY <1>1, <1>2 DEF Partial
<1>4. \A k \in 1..n : v[order[k]] \in Int /\ M * v[order[k]] <= p - 1
  <2> TAKE k \in 1..n
  <2>1. PICK x \in Int : x = v[order[k]] /\ 0 <= x /\ Fits(x)
    BY <1>1, EntryOf
  <2>2. M * x < p
    <3>1. Magnitude(x) = x
      BY <2>1 DEF Magnitude
    <3> QED
      BY <1>0, <2>1, <3>1 DEF Fits
  <2>3. M * x \in Int
    BY <1>0
  <2> QED
    BY <1>0, <2>1, <2>2, <2>3
<1> DEFINE P == {k \in 0..n : M * f[k] <= k * (p - 1)}
<1>5. 0 \in P
  BY <1>0, <1>1, <1>3
<1>6. ASSUME NEW k \in 1..n, k - 1 \in P PROVE k \in P
  <2>0. k - 1 \in 0..n /\ k \in 0..n
    BY <1>1
  <2>1. PICK x \in Int, y \in Int : x = f[k - 1] /\ y = v[order[k]]
    BY <1>3, <1>4, <2>0
  <2>2. M * x <= (k - 1) * (p - 1)
    BY <1>6, <2>1
  <2>3. M * y <= p - 1
    BY <1>4, <2>1
  <2>4. M * (x + y) <= k * (p - 1)
    <3>1. p - 1 \in Int /\ M \in Int /\ k \in Int
      BY <1>0
    <3>2. PICK q \in Int : q = p - 1
      BY <3>1
    <3>3. M * x <= (k - 1) * q /\ M * y <= q
      BY <2>2, <2>3, <3>2
    <3>4. M * (x + y) <= k * q
      BY <3>1, <3>3, Scaled
    <3> QED
      BY <3>2, <3>4
  <2>5. f[k] = x + y
    BY <1>3, <2>1
  <2> QED
    BY <2>0, <2>4, <2>5
<1>7. n \in P
  <2>1. P \in SUBSET (0..n) /\ n \in 0..n
    BY <1>1
  <2> HIDE DEF P
  <2>2. P = 0..n
    BY <1>1, <1>5, <1>6, <2>1, UpTo
  <2> QED
    BY <2>1, <2>2
<1>8. PICK s \in Int : s = f[n] /\ s = SumOver(order, v)
  <2>1. n \in 0..n
    BY <1>1
  <2> QED
    BY <1>3, <2>1
<1>9. 0 <= s
  <2>1. NonNegative(Address, v)
    BY DEF NonNegative
  <2> QED
    BY <1>8, <2>1, SumDominates
<1>10. M * s <= n * (p - 1)
  <2>1. M * f[n] <= n * (p - 1)
    BY <1>7
  <2> QED
    BY <1>8, <2>1
<1>11. 2 * s < p
  <2>1. 2 * (n + g) * s <= n * (p - 1)
    BY <1>0, <1>1, <1>10
  <2> HIDE DEF P
  <2>2. n \in Int /\ p \in Int /\ 0 < n /\ 0 < p
    BY <1>0, <1>1
  <2> QED
    BY <2>1, <2>2, HalfOf
<1> QED
  BY <1>0, <1>8, <1>9, <1>11

(* Where nobody is negative, a sum in the field is the sum.                *)
LEMMA FieldSum ==
  ASSUME NEW order \in Seq(Address), Once(order), Keys(order) \subseteq Household,
         Keys(order) # {}, NEW S \in SUBSET Address, NEW v \in [Address -> Int],
         \A a \in Address : Fits(v[a]), \A a \in S : v[a] >= 0
  PROVE  /\ SumOver(Filtered(order, S), Field(v)) % Prime = SumOver(order, Held(S, v))
         /\ SumOver(order, Held(S, v)) \in Nat
         /\ 2 * SumOver(order, Held(S, v)) < Prime
         /\ \A a \in S : Field(v)[a] = v[a]
<1>1. Prime \in Nat /\ N > 0
  <2>1. \E a : a \in Household
    BY DEF Keys
  <2>2. N # 0
    BY <2>1, FieldNumbers, FS_EmptySet DEF N
  <2> QED
    BY <2>2, FieldNumbers
<1>2. ASSUME NEW a \in S PROVE Field(v)[a] = v[a]
  <2>1. PICK x \in Int : x = v[a] /\ x >= 0 /\ Fits(x)
    OBVIOUS
  <2>2. Magnitude(x) = x
    BY <2>1 DEF Magnitude
  <2>3. 2 * x < Prime
    BY <1>1, <2>1, <2>2, FitsField
  <2>4. x % Prime = x
    BY <1>1, <2>1, <2>3, Residue
  <2> QED
    BY <2>1, <2>4 DEF Field
<1>3. PICK f \in [Address -> Int] : f = Field(v)
  <2>1. \A a \in Address : v[a] % Prime \in Int
    BY Residue
  <2> QED
    BY <2>1 DEF Field
<1>4. PICK w \in [Address -> Int] : w = Held(S, v)
  BY HeldInt
<1>5. /\ \A a \in Address : w[a] = IF a \in S THEN f[a] ELSE 0
      /\ \A a \in Address : 0 <= w[a] /\ Fits(w[a])
  BY <1>2, <1>3, <1>4, FieldNumbers DEF Held
<1>6. SumOver(Filtered(order, S), f) = SumOver(order, w)
  <2>1. Restricts(Address, order, S, f, w)
    BY <1>5 DEF Restricts
  <2> QED
    BY <2>1, FilteredSum
<1>7. PICK t \in Int : t = SumOver(order, w) /\ 0 <= t /\ 2 * t < Prime
  BY <1>5, SumFits
<1>8. t % Prime = t /\ t \in Nat
  BY <1>1, <1>7, Residue
<1> QED
  BY <1>2, <1>3, <1>4, <1>6, <1>7, <1>8

LEMMA SizeFits ==
  ASSUME NEW v \in [Address -> Int], \A a \in Address : Fits(v[a])
  PROVE  /\ Size(v) \in [Address -> Int]
         /\ \A a \in Address : Size(v)[a] = Magnitude(v[a])
         /\ \A a \in Address : Fits(Size(v)[a]) /\ Size(v)[a] >= 0
<1>1. \A x \in Int : Magnitude(x) \in Int /\ Magnitude(x) >= 0 /\ Magnitude(Magnitude(x)) = Magnitude(x)
  BY DEF Magnitude
<1>2. \A a \in Address : Size(v)[a] = Magnitude(v[a])
  BY DEF Size
<1>3. Size(v) \in [Address -> Int]
  BY <1>1 DEF Size
<1>4. \A a \in Address : Fits(Size(v)[a])
  <2> TAKE a \in Address
  <2>1. Fits(v[a]) /\ v[a] \in Int
    OBVIOUS
  <2> QED
    BY <1>1, <1>2, <2>1 DEF Fits
<1> QED
  BY <1>1, <1>2, <1>3, <1>4

(* The two groups of the program: who is in them, and what they reported.  *)
LEMMA Reported ==
  ASSUME NEW b, NEW d, Seen(b, d)
  PROVE  LET p == ProducerAddresses(households, b)
             c == ConsumerAddresses(households, b)
             P == SumOver(households, Held(ProducerSet(b), b))
             C == SumOver(households, Held(ConsumerSet(b), Size(b)))
         IN  /\ p \in Seq(Address) /\ c \in Seq(Address)
             /\ \A k \in 1..Len(p) : p[k] \in ProducerSet(b)
             /\ \A k \in 1..Len(c) : c[k] \in ConsumerSet(b)
             /\ \A a \in ProducerSet(b) : \E k \in 1..Len(p) : p[k] = a
             /\ \A a \in ConsumerSet(b) : \E k \in 1..Len(c) : c[k] = a
             /\ SumOver(p, Field(b)) % Prime = P
             /\ SumOver(c, Field(Size(b))) % Prime = C
             /\ P \in Nat /\ C \in Nat /\ P - C = SumOver(households, b)
             /\ \A a \in ProducerSet(b) : Field(b)[a] = b[a]
             /\ \A a \in ConsumerSet(b) : Field(Size(b))[a] = -b[a]
<1> DEFINE S == ProducerSet(b)
           T == ConsumerSet(b)
           p == Filtered(households, S)
           c == Filtered(households, T)
           m == Size(b)
           P == SumOver(households, Held(S, b))
           C == SumOver(households, Held(T, m))
<1>1. /\ households \in Seq(Address) /\ Once(households)
      /\ Keys(households) \subseteq Household /\ Keys(households) # {}
      /\ b \in [Address -> Int] /\ \A a \in Address : Fits(b[a])
  BY DEF Seen
<1>2. /\ S \in SUBSET Address /\ T \in SUBSET Address
      /\ S \in SUBSET Keys(households) /\ T \in SUBSET Keys(households)
      /\ \A a \in S : b[a] >= 0
      /\ \A a \in Keys(households) : a \in S <=> ~(a \in T)
  <2>1. \A a \in Keys(households) : b[a] \in Int
    BY <1>1 DEF Address
  <2> QED
    BY <1>1, <2>1 DEF ProducerSet, ConsumerSet, Address
<1>t. ASSUME NEW a \in T
      PROVE  /\ a \in Address /\ a \in Keys(households) /\ a \notin S
             /\ b[a] \in Int /\ b[a] < 0
  <2>1. a \in Address /\ a \in Keys(households) /\ b[a] < 0
    BY <1>2 DEF ConsumerSet
  <2> QED
    BY <1>1, <1>2, <2>1
<1>3. /\ m \in [Address -> Int] /\ \A a \in Address : m[a] = Magnitude(b[a])
      /\ \A a \in Address : Fits(m[a]) /\ m[a] >= 0
  BY <1>1, SizeFits
<1>4. ProducerAddresses(households, b) = p /\ ConsumerAddresses(households, b) = c
  BY DEF ProducerAddresses, ConsumerAddresses, ProducerSet, ConsumerSet
<1> HIDE DEF S, T, m
<1>5. /\ p \in Seq(Address) /\ \A k \in 1..Len(p) : p[k] \in S
      /\ c \in Seq(Address) /\ \A k \in 1..Len(c) : c[k] \in T
  BY <1>1, FilteredMembers
<1>6. /\ \A k \in 1..Len(households) : households[k] \in S => \E i \in 1..Len(p) : p[i] = households[k]
      /\ \A k \in 1..Len(households) : households[k] \in T => \E i \in 1..Len(c) : c[i] = households[k]
  BY <1>1, FilteredPlaces
<1>7. /\ \A a \in S : \E k \in 1..Len(p) : p[k] = a
      /\ \A a \in T : \E k \in 1..Len(c) : c[k] = a
  BY <1>2, <1>6 DEF Keys
<1>8. /\ SumOver(p, Field(b)) % Prime = P /\ P \in Nat
      /\ \A a \in S : Field(b)[a] = b[a]
  BY <1>1, <1>2, FieldSum
<1>9. /\ SumOver(c, Field(m)) % Prime = C /\ C \in Nat
      /\ \A a \in T : Field(m)[a] = m[a]
  BY <1>1, <1>2, <1>3, FieldSum
<1>10. P - C = SumOver(households, b)
  <2>1. PICK u \in [Address -> Int], v \in [Address -> Int], w \in [Address -> Int] :
          /\ u = Held(Keys(households), b) /\ v = Held(T, m) /\ w = Held(S, b)
    BY <1>1, <1>3, HeldInt
  <2>2. \A a \in Address : w[a] = u[a] + v[a]
    <3> TAKE a \in Address
    <3>1. b[a] \in Int /\ m[a] = Magnitude(b[a])
      BY <1>1, <1>3
    <3>2. CASE a \in S
      <4>1. a \in Keys(households) /\ a \notin T
        BY <1>2, <3>2
      <4> QED
        BY <2>1, <3>1, <3>2, <4>1 DEF Held
    <3>3. CASE a \in T
      <4>1. a \in Keys(households) /\ a \notin S /\ b[a] < 0
        BY <1>t, <3>3
      <4> QED
        BY <2>1, <3>1, <3>3, <4>1 DEF Held, Magnitude
    <3>4. CASE a \notin S /\ a \notin T
      <4>1. a \notin Keys(households)
        BY <1>2, <3>4
      <4> QED
        BY <2>1, <3>4, <4>1 DEF Held
    <3> QED
      BY <3>2, <3>3, <3>4
  <2>3. Adds(Address, households, u, v, w)
    BY <1>1, <2>2 DEF Adds
  <2>4. SumOver(households, w) = SumOver(households, u) + SumOver(households, v)
    BY <2>3, SumAdd
  <2>5. SameOn(Address, Address, households, b, u)
    BY <1>1, <2>1 DEF SameOn, Held, Address
  <2>6. SumOver(households, b) = SumOver(households, u) /\ SumOver(households, u) \in Int
    BY <1>1, <2>5, SumOnKeys, SumInt
  <2>7. P = SumOver(households, w) /\ C = SumOver(households, v)
    BY <2>1
  <2> HIDE DEF P, C
  <2> QED
    BY <1>8, <1>9, <2>4, <2>6, <2>7
<1>11. \A a \in T : Field(m)[a] = -b[a]
  <2> TAKE a \in T
  <2>1. b[a] < 0 /\ b[a] \in Int /\ a \in Address
    BY <1>t
  <2> QED
    BY <1>3, <1>9, <2>1 DEF Magnitude
<1> HIDE DEF p, c, P, C
<1> QED
  BY <1>4, <1>5, <1>7, <1>8, <1>9, <1>10, <1>11 DEF P, C, S, T, m

(* A settlement in which producers had more than consumers: the consumers  *)
(* are left with nothing, and a producer with too little rather than too   *)
(* much, but not the last one.                                             *)
ProducersLeft(b, d) ==
  /\ SumOver(households, b) > 0
  /\ \A a \in Address : /\ b[a] <= 0 => d[a] = 0
                        /\ b[a] > 0 => d[a] <= b[a]
  /\ \A j \in 1..Len(households) :
       /\ b[households[j]] >= 0
       /\ \A k \in 1..Len(households) : b[households[k]] >= 0 => k <= j
       => d[households[j]] >= 0

(* What the program sums up of the consumers, when they have nothing left. *)
LEMMA NothingLeft ==
  ASSUME NEW b, NEW d, Seen(b, d), \A a \in ConsumerSet(b) : d[a] = 0
  PROVE  LET c == ConsumerAddresses(households, b)
         IN  /\ SumOver(c, Field(Size(d))) % Prime = 0
             /\ \A a \in ConsumerSet(b) : Field(Size(d))[a] = 0
<1> DEFINE T == ConsumerSet(b)
<1>1. /\ households \in Seq(Address) /\ Once(households)
      /\ Keys(households) \subseteq Household /\ Keys(households) # {}
      /\ d \in [Address -> Int] /\ \A a \in Address : Fits(d[a])
      /\ T \in SUBSET Address
  BY DEF Seen, ConsumerSet, Address
<1>2. PICK m \in [Address -> Int] :
        /\ m = Size(d) /\ \A a \in Address : m[a] = Magnitude(d[a])
        /\ \A a \in Address : Fits(m[a]) /\ m[a] >= 0
  BY <1>1, SizeFits
<1>3. ConsumerAddresses(households, b) = Filtered(households, T)
  BY DEF ConsumerAddresses, ConsumerSet
<1>4. \A a \in T : a \in Address /\ d[a] = 0
  BY <1>1
<1> HIDE DEF T
<1>5. \A a \in T : m[a] = 0
  BY <1>2, <1>4 DEF Magnitude
<1>6. /\ SumOver(Filtered(households, T), Field(m)) % Prime = SumOver(households, Held(T, m))
      /\ \A a \in T : Field(m)[a] = m[a]
  BY <1>1, <1>2, FieldSum
<1>7. SumOver(households, Held(T, m)) = 0
  BY <1>1, <1>5, HeldNone
<1> QED
  BY <1>2, <1>3, <1>5, <1>6, <1>7 DEF T

LEMMA HonestProducers ==
  ASSUME NEW b, NEW d, Seen(b, d), ProducersLeft(b, d),
         Len(ProducerAddresses(households, b)) > 0,
         Len(ConsumerAddresses(households, b)) > 0
  PROVE  main(Len(ProducerAddresses(households, b)), Len(ConsumerAddresses(households, b)),
              Arguments(households, b, d))
           <=> \A a \in Keys(households) : Within(d[a], b[a])
<1> DEFINE p == ProducerAddresses(households, b)
           c == ConsumerAddresses(households, b)
           S == ProducerSet(b)
           T == ConsumerSet(b)
<1>1. /\ households \in Seq(Address) /\ Once(households)
      /\ Keys(households) \subseteq Household /\ Keys(households) # {}
      /\ b \in [Address -> Int] /\ d \in [Address -> Int]
      /\ \A a \in Address : Fits(b[a]) /\ Fits(d[a])
      /\ SumOver(households, d) = SumOver(households, b)
  BY DEF Seen
<1>2. ASSUME NEW a \in Keys(households)
      PROVE  /\ a \in Address /\ b[a] \in Int /\ d[a] \in Int
             /\ a \in S <=> b[a] >= 0
             /\ a \in T <=> b[a] < 0
  BY <1>1 DEF Address, ProducerSet, ConsumerSet
<1>3. /\ S \in SUBSET Keys(households) /\ T \in SUBSET Keys(households)
      /\ S \in SUBSET Address
  BY <1>1 DEF Address, ProducerSet, ConsumerSet
<1>4. /\ \A a \in Address : b[a] <= 0 => d[a] = 0
      /\ \A a \in Address : b[a] > 0 => d[a] <= b[a]
      /\ SumOver(households, b) > 0
  BY DEF ProducersLeft
<1>5. PICK P \in Nat, C \in Nat :
        /\ SumOver(p, Field(b)) % Prime = P /\ SumOver(c, Field(Size(b))) % Prime = C
        /\ P - C = SumOver(households, b)
        /\ p \in Seq(Address) /\ c \in Seq(Address)
        /\ \A k \in 1..Len(p) : p[k] \in S
        /\ \A k \in 1..Len(c) : c[k] \in T
        /\ \A a \in S : \E k \in 1..Len(p) : p[k] = a
        /\ \A a \in S : Field(b)[a] = b[a]
        /\ \A a \in T : Field(Size(b))[a] = -b[a]
  BY Reported
<1>6. /\ SumOver(c, Field(Size(d))) % Prime = 0
      /\ \A a \in T : Field(Size(d))[a] = 0
  <2>1. \A a \in T : d[a] = 0
    BY <1>2, <1>3, <1>4
  <2> QED
    BY <2>1, NothingLeft
<1>7. PICK PA \in Int, eps \in Int : /\ PA = SumOver(p, Field(d)) % Prime
                                     /\ eps = Len(c) + Len(p) - 1 /\ eps >= 0
  <2>1. Field(d) \in [Address -> Int]
    <3>1. \A a \in Address : d[a] % Prime \in Int
      BY <1>1, Residue
    <3> QED
      BY <3>1 DEF Field
  <2> HIDE DEF p, c
  <2>2. SumOver(p, Field(d)) % Prime \in Int
    BY <1>5, <2>1, SumInt, Residue
  <2>3. Len(c) + Len(p) - 1 \in Int /\ Len(c) + Len(p) - 1 >= 0
    <3>1. Len(p) \in Nat /\ Len(c) \in Nat /\ Len(p) > 0 /\ Len(c) > 0
      BY <1>5 DEF p, c
    <3> QED
      BY <3>1
  <2> QED
    BY <2>2, <2>3
<1>8. main(Len(p), Len(c), Arguments(households, b, d)) <=>
        /\ Gap(P, C) = Gap(PA, 0)
        /\ \A k \in 1..(Len(p) - 1) : ~(Field(d)[p[k]] > Field(b)[p[k]])
        /\ \A k \in 1..Len(c) : ~(Field(Size(d))[c[k]] > Field(Size(b))[c[k]])
        /\ PA <= 0 => \A k \in 1..Len(p) : ~(Field(d)[p[k]] > eps)
        /\ ~(PA <= 0) => \A k \in 1..Len(c) : ~(Field(Size(d))[c[k]] > eps)
  <2>1. main(Len(p), Len(c), Arguments(households, b, d)) <=>
          /\ Gap(SumOver(p, Field(b)) % Prime, SumOver(c, Field(Size(b))) % Prime)
               = Gap(SumOver(p, Field(d)) % Prime, SumOver(c, Field(Size(d))) % Prime)
          /\ \A k \in 1..(Len(p) - 1) : ~(Field(d)[p[k]] > Field(b)[p[k]])
          /\ \A k \in 1..Len(c) : ~(Field(Size(d))[c[k]] > Field(Size(b))[c[k]])
          /\ SumOver(p, Field(d)) % Prime <= SumOver(c, Field(Size(d))) % Prime
               => \A k \in 1..Len(p) : ~(Field(d)[p[k]] > Len(c) + Len(p) - 1)
          /\ ~(SumOver(p, Field(d)) % Prime <= SumOver(c, Field(Size(d))) % Prime)
               => \A k \in 1..Len(c) : ~(Field(Size(d))[c[k]] > Len(c) + Len(p) - 1)
    BY <1>1, MainIs, Zenon
  <2> HIDE DEF p, c
  <2> QED
    BY <1>5, <1>6, <1>7, <2>1, Zenon
<1>9. \E j \in 1..Len(households) :
        /\ p[Len(p)] = households[j]
        /\ \A k \in 1..Len(households) : households[k] \in S => k <= j
  BY <1>1, FilteredPlaces DEF ProducerAddresses, ProducerSet
<1>10. Len(p) \in Nat /\ Len(p) > 0 /\ Len(c) \in Nat
  BY <1>5
<1> HIDE DEF p, c, S, T
<1>11. ASSUME \A a \in Keys(households) : Within(d[a], b[a])
       PROVE  main(Len(p), Len(c), Arguments(households, b, d))
  <2>1. \A a \in S : d[a] >= 0 /\ d[a] <= b[a]
    <3> TAKE a \in S
    <3>1. a \in Keys(households) /\ b[a] >= 0 /\ b[a] \in Int /\ d[a] \in Int
      BY <1>2, <1>3
    <3>2. Within(d[a], b[a])
      BY <1>11, <3>1
    <3> QED
      BY <3>1, <3>2 DEF Within
  <2>2. /\ SumOver(Filtered(households, S), Field(d)) % Prime = SumOver(households, Held(S, d))
        /\ \A a \in S : Field(d)[a] = d[a]
    BY <1>1, <1>3, <2>1, FieldSum
  <2>3. p = Filtered(households, S)
    BY DEF p, S, ProducerAddresses, ProducerSet
  <2>4. PICK w \in [Address -> Int] : w = Held(S, d)
    BY <1>1, HeldInt
  <2>5. SameOn(Address, Address, households, d, w)
    <3>1. ASSUME NEW a \in Keys(households) PROVE d[a] = w[a]
      BY <1>2, <1>4, <2>4 DEF Held
    <3> QED
      BY <1>1, <3>1 DEF SameOn
  <2>6. PA = P - C /\ PA > 0
    <3>1. SumOver(households, d) = SumOver(households, w)
      BY <2>5, SumOnKeys
    <3> QED
      BY <1>1, <1>4, <1>5, <1>7, <2>2, <2>3, <2>4, <3>1
  <2>7. Gap(P, C) = Gap(PA, 0)
    BY <2>6 DEF Gap
  <2>8. \A k \in 1..(Len(p) - 1) : ~(Field(d)[p[k]] > Field(b)[p[k]])
    <3> TAKE k \in 1..(Len(p) - 1)
    <3>1. k \in 1..Len(p)
      BY <1>10
    <3>2. PICK a \in S : a = p[k]
      BY <1>5, <3>1
    <3>3. /\ Field(d)[a] = d[a] /\ Field(b)[a] = b[a] /\ d[a] <= b[a]
          /\ d[a] \in Int /\ b[a] \in Int
      BY <1>2, <1>3, <1>5, <2>1, <2>2
    <3> QED
      BY <3>2, <3>3
  <2>9. ASSUME NEW k \in 1..Len(c)
        PROVE  /\ ~(Field(Size(d))[c[k]] > Field(Size(b))[c[k]])
               /\ ~(Field(Size(d))[c[k]] > eps)
    <3>1. PICK a \in T : a = c[k]
      BY <1>5
    <3>2. Field(Size(d))[a] = 0 /\ Field(Size(b))[a] = -b[a] /\ b[a] < 0 /\ b[a] \in Int
      BY <1>2, <1>3, <1>5, <1>6
    <3> QED
      BY <1>7, <3>1, <3>2
  <2>10. ~(PA <= 0)
    BY <2>6
  <2> QED
    BY <1>8, <2>7, <2>8, <2>9, <2>10, Zenon
<1>12. ASSUME main(Len(p), Len(c), Arguments(households, b, d)),
              NEW a \in Keys(households)
       PROVE  Within(d[a], b[a])
  <2>0. /\ a \in Address /\ b[a] \in Int /\ d[a] \in Int
        /\ b[a] <= 0 => d[a] = 0
        /\ b[a] > 0 => d[a] <= b[a]
    BY <1>2, <1>4
  <2>1. CASE b[a] <= 0 \/ d[a] >= 0
    BY <2>0, <2>1 DEF Within
  <2>2. CASE b[a] > 0 /\ d[a] < 0
    <3>1. a \in S
      BY <1>2, <2>2
    <3>2. PICK k \in 1..Len(p) : p[k] = a
      BY <1>5, <3>1
    <3>3. CASE k = Len(p)
      <4>1. PICK j \in 1..Len(households) :
              /\ a = households[j]
              /\ \A l \in 1..Len(households) : households[l] \in S => l <= j
        BY <1>9, <3>2, <3>3
      <4>2. \A l \in 1..Len(households) : b[households[l]] >= 0 => l <= j
        <5> TAKE l \in 1..Len(households)
        <5>1. households[l] \in Keys(households)
          BY DEF Keys
        <5>2. b[households[l]] >= 0 => households[l] \in S
          BY <1>2, <5>1
        <5> QED
          BY <4>1, <5>2
      <4>3. d[a] >= 0
        <5>1. b[households[j]] >= 0
          BY <2>0, <2>2, <4>1
        <5> QED
          BY <4>1, <4>2, <5>1 DEF ProducersLeft
      <4> QED
        BY <2>0, <2>2, <4>3
    <3>4. CASE k # Len(p)
      <4>1. k \in 1..(Len(p) - 1)
        BY <1>10, <3>4
      <4>2. ~(Field(d)[a] > Field(b)[a])
        BY <1>8, <1>12, <3>2, <4>1
      <4>3. PICK x \in Int, y \in Int : x = d[a] /\ y = b[a] /\ x < 0 /\ y > 0
        BY <2>0, <2>2
      <4>4. Fits(x) /\ Fits(y) /\ N > 0
        <5>1. N # 0
          BY <1>1, FieldNumbers, FS_EmptySet DEF N
        <5> QED
          BY <1>1, <2>0, <4>3, <5>1, FieldNumbers
      <4>5. 2 * (-x) < Prime /\ 2 * y < Prime
        <5>1. Magnitude(x) = -x /\ Magnitude(y) = y
          BY <4>3 DEF Magnitude
        <5>2. 2 * Magnitude(x) < Prime /\ 2 * Magnitude(y) < Prime
          BY <4>4, FitsField
        <5> QED
          BY <5>1, <5>2
      <4>6. x % Prime = x + Prime
        <5>1. x < 0 /\ -x < Prime
          BY <4>3, <4>5, FieldNumbers
        <5> QED
          BY <5>1, Residue
      <4>7. Field(d)[a] = x + Prime /\ Field(b)[a] = y
        BY <1>5, <2>0, <3>1, <4>3, <4>6 DEF Field
      <4> QED
        BY <4>2, <4>3, <4>5, <4>7, FieldNumbers
    <3> QED
      BY <3>3, <3>4
  <2> QED
    BY <2>0, <2>1, <2>2
<1> QED
  BY <1>11, <1>12 DEF p, c

(* A settlement in which producers had no more than consumers: they are    *)
(* left with nothing, and a consumer with too much rather than too little. *)
ConsumersLeft(b, d) ==
  /\ SumOver(households, b) <= 0
  /\ \A a \in Address : /\ b[a] >= 0 => d[a] = 0
                        /\ b[a] < 0 => b[a] <= d[a]

(* The sizes of what the consumers are left with make up the shortage only *)
(* if none of them has changed sides.                                      *)
LEMMA Shortage ==
  ASSUME NEW b, NEW d, Seen(b, d), ConsumersLeft(b, d)
  PROVE  SumOver(households, Held(ConsumerSet(b), Size(d))) = -SumOver(households, b)
           <=> \A a \in ConsumerSet(b) : d[a] <= 0
<1> DEFINE T == ConsumerSet(b)
<1>1. /\ households \in Seq(Address) /\ Keys(households) \subseteq Address
      /\ b \in [Address -> Int] /\ d \in [Address -> Int]
      /\ \A a \in Address : Fits(d[a])
      /\ SumOver(households, d) = SumOver(households, b)
      /\ T \in SUBSET Keys(households)
      /\ \A a \in Keys(households) : a \notin T => d[a] = 0
  <2>1. \A a \in Keys(households) : a \notin T => b[a] >= 0
    BY DEF Seen, ConsumerSet, Address
  <2> QED
    BY <2>1 DEF Seen, ConsumersLeft, ConsumerSet, Address
<1>2. PICK m \in [Address -> Int] :
        m = Size(d) /\ \A a \in Address : m[a] = Magnitude(d[a])
  BY <1>1, SizeFits
<1> HIDE DEF T
<1>3. PICK u \in [Address -> Int], v \in [Address -> Int], w \in [Address -> Int] :
        /\ u = Held(Keys(households), d) /\ v = Held(T, m)
        /\ w = [a \in Address |-> u[a] + v[a]]
  <2>1. PICK u \in [Address -> Int], v \in [Address -> Int] :
          u = Held(Keys(households), d) /\ v = Held(T, m)
    BY <1>1, HeldInt
  <2>2. [a \in Address |-> u[a] + v[a]] \in [Address -> Int]
    OBVIOUS
  <2> QED
    BY <2>1, <2>2
<1>4. ASSUME NEW a \in Address
      PROVE  /\ w[a] >= 0
             /\ a \in T => (w[a] = 0 <=> d[a] <= 0)
             /\ a \notin T => w[a] = 0
  <2>0. /\ d[a] \in Int /\ m[a] = Magnitude(d[a]) /\ w[a] = u[a] + v[a]
        /\ u[a] \in Int /\ v[a] \in Int
    BY <1>1, <1>2, <1>3
  <2>1. CASE a \in T
    <3>1. u[a] = d[a] /\ v[a] = m[a]
      BY <1>1, <1>3, <2>1 DEF Held
    <3> QED
      BY <2>0, <2>1, <3>1 DEF Magnitude
  <2>2. CASE a \notin T
    <3>1. u[a] = 0 /\ v[a] = 0
      BY <1>1, <1>3, <2>2 DEF Held
    <3> QED
      BY <2>0, <2>2, <3>1
  <2> QED
    BY <2>1, <2>2
<1>5. SumOver(households, w) = SumOver(households, u) + SumOver(households, v)
  <2>1. Adds(Address, households, u, v, w)
    BY <1>1, <1>3 DEF Adds
  <2> QED
    BY <2>1, SumAdd
<1>6. SumOver(households, u) = SumOver(households, d)
  <2>1. SameOn(Address, Address, households, d, u)
    BY <1>1, <1>3 DEF SameOn, Held
  <2> QED
    BY <2>1, SumOnKeys
<1>7. /\ SumOver(households, w) \in Int /\ SumOver(households, u) \in Int
      /\ SumOver(households, v) \in Int
  BY <1>1, SumInt
<1>8. ASSUME SumOver(households, w) = 0, NEW a \in T PROVE d[a] <= 0
  <2>1. \A x \in Address : w[x] >= 0
    BY <1>4
  <2>2. w[a] = 0 /\ a \in Address
    BY <1>1, <1>8, <2>1, OneSided
  <2> QED
    BY <1>4, <2>2
<1>9. ASSUME \A a \in T : d[a] <= 0 PROVE SumOver(households, w) = 0
  <2>1. \A a \in Address : w[a] = 0
    BY <1>4, <1>9
  <2>2. w = Held({}, w)
    BY <2>1 DEF Held
  <2>3. SumOver(households, Held({}, w)) = 0
    BY <1>1, HeldNone
  <2> QED
    BY <2>2, <2>3
<1>10. SumOver(households, v) = -SumOver(households, b) <=> SumOver(households, w) = 0
  BY <1>1, <1>5, <1>6, <1>7
<1> QED
  BY <1>2, <1>3, <1>8, <1>9, <1>10 DEF T

LEMMA HonestConsumers ==
  ASSUME NEW b, NEW d, Seen(b, d), ConsumersLeft(b, d),
         Len(ProducerAddresses(households, b)) > 0,
         Len(ConsumerAddresses(households, b)) > 0
  PROVE  main(Len(ProducerAddresses(households, b)), Len(ConsumerAddresses(households, b)),
              Arguments(households, b, d))
           <=> \A a \in Keys(households) : Within(d[a], b[a])
<1> DEFINE p == ProducerAddresses(households, b)
           c == ConsumerAddresses(households, b)
           S == ProducerSet(b)
           T == ConsumerSet(b)
<1>1. /\ households \in Seq(Address) /\ Once(households)
      /\ Keys(households) \subseteq Household /\ Keys(households) # {}
      /\ b \in [Address -> Int] /\ d \in [Address -> Int]
      /\ \A a \in Address : Fits(b[a]) /\ Fits(d[a])
      /\ SumOver(households, d) = SumOver(households, b)
  BY DEF Seen
<1>2. ASSUME NEW a \in Keys(households)
      PROVE  /\ a \in Address /\ b[a] \in Int /\ d[a] \in Int
             /\ a \in S <=> b[a] >= 0
             /\ a \in T <=> b[a] < 0
  BY <1>1 DEF Address, ProducerSet, ConsumerSet
<1>3. /\ S \in SUBSET Keys(households) /\ T \in SUBSET Keys(households)
      /\ S \in SUBSET Address /\ T \in SUBSET Address
  BY <1>1 DEF Address, ProducerSet, ConsumerSet
<1>4. /\ \A a \in Address : b[a] >= 0 => d[a] = 0
      /\ \A a \in Address : b[a] < 0 => b[a] <= d[a]
      /\ SumOver(households, b) <= 0
  BY DEF ConsumersLeft
<1>5. PICK P \in Nat, C \in Nat :
        /\ SumOver(p, Field(b)) % Prime = P /\ SumOver(c, Field(Size(b))) % Prime = C
        /\ P - C = SumOver(households, b)
        /\ p \in Seq(Address) /\ c \in Seq(Address)
        /\ \A k \in 1..Len(p) : p[k] \in S
        /\ \A k \in 1..Len(c) : c[k] \in T
        /\ \A a \in T : \E k \in 1..Len(c) : c[k] = a
        /\ \A a \in S : Field(b)[a] = b[a]
        /\ \A a \in T : Field(Size(b))[a] = -b[a]
  BY Reported
<1>6. /\ SumOver(p, Field(d)) % Prime = 0
      /\ \A a \in S : Field(d)[a] = 0
  <2>0. \A a \in S : d[a] = 0
    BY <1>2, <1>3, <1>4
  <2>1. \A a \in S : d[a] >= 0
    BY <2>0
  <2>2. p = Filtered(households, S)
    BY DEF ProducerAddresses, ProducerSet
  <2> HIDE DEF p, S
  <2>3. /\ SumOver(Filtered(households, S), Field(d)) % Prime = SumOver(households, Held(S, d))
        /\ \A a \in S : Field(d)[a] = d[a]
    BY <1>1, <1>3, <2>1, FieldSum
  <2>4. SumOver(households, Held(S, d)) = 0
    BY <1>1, <2>0, HeldNone
  <2> QED
    BY <2>0, <2>2, <2>3, <2>4
<1>7. PICK M \in Nat :
        /\ M = SumOver(c, Field(Size(d))) % Prime
        /\ M = SumOver(households, Held(T, Size(d)))
        /\ \A a \in T : Field(Size(d))[a] = Magnitude(d[a])
  <2>1. PICK m \in [Address -> Int] :
          /\ m = Size(d) /\ \A a \in Address : m[a] = Magnitude(d[a])
          /\ \A a \in Address : Fits(m[a]) /\ m[a] >= 0
    BY <1>1, SizeFits
  <2>2. c = Filtered(households, T)
    BY DEF ConsumerAddresses, ConsumerSet
  <2> HIDE DEF c, T
  <2>3. /\ SumOver(Filtered(households, T), Field(m)) % Prime = SumOver(households, Held(T, m))
        /\ SumOver(households, Held(T, m)) \in Nat
        /\ \A a \in T : Field(m)[a] = m[a]
    BY <1>1, <1>3, <2>1, FieldSum
  <2> QED
    BY <1>3, <2>1, <2>2, <2>3
<1>8. PICK eps \in Int : eps = Len(c) + Len(p) - 1 /\ eps >= 0
  <2>1. Len(p) \in Nat /\ Len(c) \in Nat /\ Len(p) > 0 /\ Len(c) > 0
    BY <1>5
  <2> HIDE DEF p, c
  <2>2. Len(c) + Len(p) - 1 \in Int /\ Len(c) + Len(p) - 1 >= 0
    BY <2>1
  <2> QED
    BY <2>2
<1>9. main(Len(p), Len(c), Arguments(households, b, d)) <=>
        /\ Gap(P, C) = Gap(0, M)
        /\ \A k \in 1..(Len(p) - 1) : ~(Field(d)[p[k]] > Field(b)[p[k]])
        /\ \A k \in 1..Len(c) : ~(Field(Size(d))[c[k]] > Field(Size(b))[c[k]])
        /\ 0 <= M => \A k \in 1..Len(p) : ~(Field(d)[p[k]] > eps)
        /\ ~(0 <= M) => \A k \in 1..Len(c) : ~(Field(Size(d))[c[k]] > eps)
  <2>1. main(Len(p), Len(c), Arguments(households, b, d)) <=>
          /\ Gap(SumOver(p, Field(b)) % Prime, SumOver(c, Field(Size(b))) % Prime)
               = Gap(SumOver(p, Field(d)) % Prime, SumOver(c, Field(Size(d))) % Prime)
          /\ \A k \in 1..(Len(p) - 1) : ~(Field(d)[p[k]] > Field(b)[p[k]])
          /\ \A k \in 1..Len(c) : ~(Field(Size(d))[c[k]] > Field(Size(b))[c[k]])
          /\ SumOver(p, Field(d)) % Prime <= SumOver(c, Field(Size(d))) % Prime
               => \A k \in 1..Len(p) : ~(Field(d)[p[k]] > Len(c) + Len(p) - 1)
          /\ ~(SumOver(p, Field(d)) % Prime <= SumOver(c, Field(Size(d))) % Prime)
               => \A k \in 1..Len(c) : ~(Field(Size(d))[c[k]] > Len(c) + Len(p) - 1)
    BY <1>1, MainIs, Zenon
  <2> HIDE DEF p, c
  <2> QED
    BY <1>5, <1>6, <1>7, <1>8, <2>1, Zenon
<1>10. Len(p) \in Nat /\ Len(c) \in Nat
  BY <1>5
<1>11. M = -SumOver(households, b) <=> \A a \in T : d[a] <= 0
  BY <1>7, Shortage
<1> HIDE DEF p, c, S, T
<1>12. Gap(P, C) = Gap(0, M) <=> M = -SumOver(households, b)
  <2>1. P <= C
    BY <1>4, <1>5
  <2>2. Gap(P, C) = C - P /\ Gap(0, M) = M
    BY <2>1 DEF Gap
  <2>3. -SumOver(households, b) = C - P
    BY <1>5
  <2> QED
    BY <2>2, <2>3
<1>13. \A k \in 1..Len(p) : /\ ~(Field(d)[p[k]] > eps)
                            /\ ~(Field(d)[p[k]] > Field(b)[p[k]])
  <2> TAKE k \in 1..Len(p)
  <2>1. PICK a \in S : a = p[k]
    BY <1>5
  <2>2. Field(d)[a] = 0 /\ Field(b)[a] = b[a] /\ b[a] >= 0 /\ b[a] \in Int
    BY <1>2, <1>3, <1>5, <1>6
  <2> QED
    BY <1>8, <2>1, <2>2
<1>14. \A k \in 1..(Len(p) - 1) : k \in 1..Len(p)
  BY <1>10
<1>15. ASSUME \A a \in T : d[a] <= 0, NEW k \in 1..Len(c)
       PROVE  ~(Field(Size(d))[c[k]] > Field(Size(b))[c[k]])
  <2>1. PICK a \in T : a = c[k]
    BY <1>5
  <2>2. /\ Field(Size(d))[a] = Magnitude(d[a]) /\ Field(Size(b))[a] = -b[a]
        /\ b[a] <= d[a] /\ d[a] <= 0 /\ b[a] \in Int /\ d[a] \in Int
    BY <1>2, <1>3, <1>4, <1>5, <1>7, <1>15
  <2>3. Magnitude(d[a]) <= -b[a] /\ Magnitude(d[a]) \in Int
    BY <2>2 DEF Magnitude
  <2> QED
    BY <2>1, <2>2, <2>3
<1>16. main(Len(p), Len(c), Arguments(households, b, d)) <=> \A a \in T : d[a] <= 0
  <2>1. 0 <= M
    OBVIOUS
  <2> QED
    BY <1>9, <1>11, <1>12, <1>13, <1>14, <1>15, <2>1, Zenon
<1>17. (\A a \in T : d[a] <= 0) <=> \A a \in Keys(households) : Within(d[a], b[a])
  <2>1. ASSUME NEW a \in Keys(households)
        PROVE  Within(d[a], b[a]) <=> (a \in T => d[a] <= 0)
    <3>1. /\ b[a] \in Int /\ d[a] \in Int /\ (a \in T <=> b[a] < 0)
          /\ b[a] >= 0 => d[a] = 0
          /\ b[a] < 0 => b[a] <= d[a]
      BY <1>2, <1>4
    <3> QED
      BY <3>1 DEF Within
  <2> QED
    BY <1>3, <2>1
<1> QED
  BY <1>16, <1>17 DEF p, c

(* At the end of a settlement only receivers hold something.               *)
LEMMA ReceiversHold ==
  ASSUME Inv, SplitInv, PushInv, Settled
  PROVE  /\ households \in Seq(Address) /\ Once(households)
         /\ before \in [Address -> Int] /\ meterDelta \in [Address -> Int]
         /\ split.hTo \subseteq Keys(households) /\ split.hTo \subseteq Address
         /\ \A a \in Address \ split.hTo : meterDelta[a] = 0
         /\ split.more => /\ SumOver(households, before) > 0
                          /\ \A a \in split.hTo : before[a] > 0 /\ meterDelta[a] <= before[a]
         /\ ~split.more => /\ SumOver(households, before) <= 0
                           /\ \A a \in split.hTo : before[a] < 0 /\ before[a] <= meterDelta[a]
<1>1. /\ households \in Seq(Address) /\ Once(households) /\ Keys(households) \subseteq Address
      /\ before \in [Address -> Int] /\ meterDelta \in [Address -> Int]
      /\ split.hFrom \subseteq Keys(households) /\ split.hTo \subseteq Keys(households)
      /\ pc = "rest" /\ Sources = {}
  BY Types DEF Inv, LoopInv, Settled
<1>2. \A a \in split.hFrom : meterDelta[a] = 0
  BY <1>1 DEF Sources
<1>3. \A a \in Address \ split.hTo : meterDelta[a] = 0
  BY <1>1, <1>2 DEF PushInv
<1>4. PICK s : s = SplitOf(households, before)
  OBVIOUS
<1>5. split.more = s.more /\ split.hTo \subseteq s.hTo
  BY <1>1, <1>4 DEF SplitInv, SameSides
<1>6. /\ s.more => s.hTo = {a \in Keys(households) : before[a] > 0}
      /\ ~s.more => s.hTo = {a \in Keys(households) : before[a] < 0}
  BY <1>1, <1>4, SplitFacts
<1>7. SumOver(households, before) \in Int /\ (s.more <=> SumOver(households, before) > 0)
  BY <1>1, <1>4, SplitSums
<1>8. ASSUME NEW a \in split.hTo
      PROVE  /\ before[a] \in Int /\ meterDelta[a] \in Int
             /\ -Given(meterDelta[a]) <= -Given(before[a])
  BY <1>1 DEF PushInv
<1>9. ASSUME split.more, NEW a \in split.hTo
      PROVE  before[a] > 0 /\ meterDelta[a] <= before[a]
  <2>1. before[a] > 0
    BY <1>5, <1>6, <1>9
  <2>2. Given(meterDelta[a]) = -meterDelta[a] /\ Given(before[a]) = -before[a]
    BY <1>9 DEF Given
  <2> QED
    BY <1>8, <2>1, <2>2
<1>10. ASSUME ~split.more, NEW a \in split.hTo
       PROVE  before[a] < 0 /\ before[a] <= meterDelta[a]
  <2>1. before[a] < 0
    BY <1>5, <1>6, <1>10
  <2>2. Given(meterDelta[a]) = meterDelta[a] /\ Given(before[a]) = before[a]
    BY <1>10 DEF Given
  <2> QED
    BY <1>8, <2>1, <2>2
<1>11. /\ split.more => SumOver(households, before) > 0
       /\ ~split.more => SumOver(households, before) <= 0
  BY <1>5, <1>7
<1> QED
  BY <1>1, <1>3, <1>9, <1>10, <1>11

(* The last producer is not pushed past zero: either there are other       *)
(* receivers, or it has the whole surplus.                                 *)
LEMMA LastKeeps ==
  ASSUME Inv, SplitInv, PushInv, Settled, split.more,
         NEW j \in 1..Len(households),
         \A k \in 1..Len(households) : before[households[k]] >= 0 => k <= j
  PROVE  meterDelta[households[j]] >= 0
<1>1. /\ households \in Seq(Address) /\ Once(households)
      /\ before \in [Address -> Int] /\ meterDelta \in [Address -> Int]
      /\ split.hTo \subseteq Keys(households) /\ split.hTo \subseteq Address
      /\ \A a \in Address \ split.hTo : meterDelta[a] = 0
      /\ SumOver(households, before) > 0
      /\ \A a \in split.hTo : before[a] > 0
  BY ReceiversHold
<1>2. PICK a \in Address : a = households[j]
  BY <1>1, EntryOf
<1>3. a \in Keys(households) /\ meterDelta[a] \in Int
  BY <1>1, <1>2 DEF Keys
<1>4. CASE a \notin split.hTo
  <2>1. meterDelta[a] = 0
    BY <1>1, <1>4
  <2> QED
    BY <1>2, <2>1
<1>5. CASE split.hTo = {a}
  <2>0. PICK i \in Int : i = meterDelta[a]
    BY <1>3
  <2>1. PICK z \in [Address -> Int] : z = Held({}, meterDelta)
    BY <1>1, HeldInt
  <2>2. Raised(Address, z, meterDelta, a, i)
    <3>1. ASSUME NEW x \in Address
          PROVE  meterDelta[x] = z[x] + (IF x = a THEN meterDelta[a] ELSE 0)
      <4>1. z[x] = 0
        BY <2>1 DEF Held
      <4>2. CASE x = a
        BY <1>3, <4>1, <4>2
      <4>3. CASE x # a
        <5>1. meterDelta[x] = 0
          BY <1>1, <1>5, <4>3
        <5> QED
          BY <4>1, <4>3, <5>1
      <4> QED
        BY <4>2, <4>3
    <3> QED
      BY <2>0, <3>1 DEF Raised
  <2>3. SumOver(households, meterDelta) = SumOver(households, z) + i
    BY <1>1, <1>3, <2>2, SumChange
  <2>4. SumOver(households, z) = 0
    BY <1>1, <2>1, HeldNone
  <2>5. SumOver(households, meterDelta) = SumOver(households, before)
    BY DEF Inv, Consistency, Settled
  <2> QED
    BY <1>1, <1>2, <2>0, <2>3, <2>4, <2>5
<1>6. CASE a \in split.hTo /\ split.hTo # {a}
  <2>1. ASSUME NEW x \in split.hTo PROVE Position(x) <= j
    <3>1. Position(x) \in 1..Len(households) /\ households[Position(x)] = x
      BY <1>1, PositionOf
    <3>2. before[households[Position(x)]] >= 0
      <4>1. before[x] > 0 /\ before[x] \in Int
        BY <1>1
      <4> QED
        BY <3>1, <4>1
    <3> QED
      BY <3>1, <3>2
  <2>2. Position(a) = j
    <3>1. Position(a) \in 1..Len(households) /\ households[Position(a)] = a
      BY <1>1, <1>3, PositionOf
    <3> QED
      BY <1>1, <1>2, <3>1 DEF Once
  <2>3. Last(a)
    BY <1>6, <2>1, <2>2 DEF Last
  <2>4. 0 <= -Given(meterDelta[a])
    BY <1>6, <2>3 DEF PushInv, Settled
  <2>5. Given(meterDelta[a]) = -meterDelta[a]
    BY DEF Given
  <2> QED
    BY <1>2, <1>3, <2>4, <2>5
<1> QED
  BY <1>4, <1>5, <1>6

LEMMA SettledHonest ==
  ASSUME Inv, SplitInv, SmallInv, FairWhileDistributing, PushInv, FieldInv
  PROVE  HonestCheck
<1> SUFFICES ASSUME Settled, Generated
             PROVE  main(Producers, Consumers, Arguments(households, before, meterDelta))
                      <=> \A a \in Keys(households) : Within(meterDelta[a], before[a])
  BY DEF HonestCheck
<1>1. /\ households \in Seq(Address) /\ Once(households)
      /\ before \in [Address -> Int] /\ meterDelta \in [Address -> Int]
      /\ split.hTo \subseteq Address
      /\ \A a \in Address \ split.hTo : meterDelta[a] = 0
      /\ split.more => /\ SumOver(households, before) > 0
                       /\ \A a \in split.hTo : before[a] > 0 /\ meterDelta[a] <= before[a]
      /\ ~split.more => /\ SumOver(households, before) <= 0
                        /\ \A a \in split.hTo : before[a] < 0 /\ before[a] <= meterDelta[a]
  BY ReceiversHold
<1>2. Seen(before, meterDelta)
  <2>1. Keys(households) \subseteq Household
    <3>1. Zero \notin Keys(households)
      BY DEF SplitInv, Settled
    <3> QED
      BY <1>1, <3>1 DEF Keys, Address
  <2>2. Keys(households) # {}
    <3>1. PICK p \in Seq(Address) :
            /\ p = ProducerAddresses(households, before)
            /\ \A k \in 1..Len(p) : p[k] \in Keys(households)
      <4>1. /\ ProducerAddresses(households, before) \in Seq(Address)
            /\ \A k \in 1..Len(ProducerAddresses(households, before)) :
                 ProducerAddresses(households, before)[k]
                   \in {a \in Keys(households) : before[a] >= 0}
        BY <1>1, FilteredMembers DEF ProducerAddresses
      <4> QED
        BY <4>1
    <3>2. 1 \in 1..Len(p)
      BY <3>1 DEF Generated, Producers
    <3> QED
      BY <3>1, <3>2
  <2>3. \A a \in Address : Fits(before[a]) /\ Fits(meterDelta[a])
    BY AllFits DEF FieldInv, Settled
  <2>4. SumOver(households, meterDelta) = SumOver(households, before)
    BY DEF Inv, Consistency, Settled
  <2> QED
    BY <1>1, <2>1, <2>2, <2>3, <2>4 DEF Seen
<1>3. /\ Len(ProducerAddresses(households, before)) > 0
      /\ Len(ConsumerAddresses(households, before)) > 0
  BY DEF Generated, Producers, Consumers
<1>4. CASE split.more
  <2>1. ASSUME NEW a \in Address
        PROVE  /\ before[a] <= 0 => meterDelta[a] = 0
               /\ before[a] > 0 => meterDelta[a] <= before[a]
    <3>1. before[a] \in Int
      BY <1>1
    <3> QED
      BY <1>1, <1>4, <3>1
  <2>2. ProducersLeft(before, meterDelta)
    BY <1>1, <1>4, <2>1, LastKeeps DEF ProducersLeft
  <2> QED
    BY <1>2, <1>3, <2>2, HonestProducers DEF Producers, Consumers
<1>5. CASE ~split.more
  <2>1. ASSUME NEW a \in Address
        PROVE  /\ before[a] >= 0 => meterDelta[a] = 0
               /\ before[a] < 0 => before[a] <= meterDelta[a]
    <3>1. before[a] \in Int
      BY <1>1
    <3> QED
      BY <1>1, <1>5, <3>1
  <2>2. ConsumersLeft(before, meterDelta)
    BY <1>1, <1>5, <2>1 DEF ConsumersLeft
  <2> QED
    BY <1>2, <1>3, <2>2, HonestConsumers DEF Producers, Consumers
<1> QED
  BY <1>4, <1>5

(* The generated program accepts the netting entity's own settlement just  *)
(* when it leaves every household between its report and zero, whichever   *)
(* way the shares were rounded and the rest was drawn, for any number of   *)
(* households.  That the program (validateFairnessProducers of             *)
(* zoKratesCodeGenerator.js) does not compare the last producer makes no   *)
(* difference, because _transferRest (utility.js) never pushes it past     *)
(* zero, and no sum wraps around in the program's field.                   *)
THEOREM HonestAlways == Spec => []HonestCheck
<1> QED
  BY SettledHonest, AlwaysInv, AlwaysSplit, LoopsAreFair, AlwaysPush, PTL
=============================================================================
