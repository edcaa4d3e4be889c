---------------------------- MODULE NettingProofs ---------------------------
(***************************************************************************)
(* The second split of settle() agrees with the first, the rounding leaves *)
(* half a unit per receiver, the log of transfers accounts for the deltas, *)
(* and the utility implements the one-step Netting, for any households and *)
(* reports.                                                                *)
(***************************************************************************)
EXTENDS UtilityProofs

-----------------------------------------------------------------------------
(* v and w, on different sets, have the same entries at the keys.          *)
SameOn(S, T, order, v, w) ==
  /\ order \in Seq(S) /\ order \in Seq(T)
  /\ v \in [S -> Int] /\ w \in [T -> Int]
  /\ \A a \in Keys(order) : v[a] = w[a]

(* A sum depends on the entries of the keys only.                          *)
LEMMA SumOnKeys ==
  ASSUME NEW S, NEW T, NEW order, NEW v, NEW w, SameOn(S, T, order, v, w)
  PROVE  SumOver(order, v) = SumOver(order, w)
<1> DEFINE N == Len(order)
<1>0. /\ N \in Nat /\ order \in Seq(S) /\ order \in Seq(T)
      /\ v \in [S -> Int] /\ w \in [T -> Int]
      /\ \A a \in Keys(order) : v[a] = w[a]
  BY DEF SameOn
<1>1. PICK f : Partial(order, v, N, f) /\ SumOver(order, v) = f[N]
  BY <1>0, SumIsPartial
<1>2. PICK g : Partial(order, w, N, g) /\ SumOver(order, w) = g[N]
  BY <1>0, SumIsPartial
<1> DEFINE P == {k \in 0..N : f[k] = g[k]}
<1>3. 0 \in P
  BY <1>0, <1>1, <1>2 DEF Partial
<1>4. ASSUME NEW k \in 1..N, k - 1 \in P PROVE k \in P
  <2>1. f[k] = f[k - 1] + v[order[k]]
    BY <1>1 DEF Partial
  <2>2. g[k] = g[k - 1] + w[order[k]]
    BY <1>2 DEF Partial
  <2>3. v[order[k]] = w[order[k]]
    BY <1>0 DEF Keys
  <2> QED
    BY <1>4, <2>1, <2>2, <2>3
<1>5. P = 0..N
  <2>1. P \in SUBSET (0..N)
    OBVIOUS
  <2> HIDE DEF P
  <2> QED
    BY <1>0, <1>3, <1>4, <2>1, UpTo
<1> QED
  BY <1>0, <1>1, <1>2, <1>5

(* A sum of entries that are not positive is at most each of them.         *)
LEMMA SumBelow ==
  ASSUME NEW S, NEW order \in Seq(S), NEW v \in [S -> Int],
         \A a \in S : v[a] <= 0
  PROVE  /\ SumOver(order, v) <= 0
         /\ \A a \in Keys(order) : SumOver(order, v) <= v[a]
<1>1. PICK n \in [S -> Int], z \in [S -> Int] :
        n = [a \in S |-> -v[a]] /\ z = [a \in S |-> 0]
  <2> DEFINE n == [a \in S |-> -v[a]]
             z == [a \in S |-> 0]
  <2>1. n \in [S -> Int] /\ z \in [S -> Int]
    OBVIOUS
  <2> QED
    BY <2>1
<1>2. /\ NonNegative(S, n) /\ Adds(S, order, n, v, z) /\ Adds(S, order, z, v, v)
  BY <1>1 DEF NonNegative, Adds
<1>3. /\ SumOver(order, n) \in Int /\ SumOver(order, v) \in Int
      /\ SumOver(order, z) \in Int
  BY SumInt
<1>4. /\ SumOver(order, z) = SumOver(order, n) + SumOver(order, v)
      /\ SumOver(order, v) = SumOver(order, z) + SumOver(order, v)
  BY <1>2, SumAdd
<1>5. SumOver(order, v) = -SumOver(order, n)
  <2>1. \A i, j, k \in Int : i = j + k /\ k = i + k => k = -j
    OBVIOUS
  <2> QED
    BY <2>1, <1>3, <1>4
<1>6. SumOver(order, n) >= 0 /\ \A a \in Keys(order) : SumOver(order, n) >= n[a]
  BY <1>2, SumDominates
<1>7. ASSUME NEW a \in Keys(order) PROVE SumOver(order, v) <= v[a]
  <2>1. a \in S
    BY DEF Keys
  <2>2. n[a] = -v[a] /\ v[a] \in Int /\ SumOver(order, n) >= n[a]
    BY <1>1, <1>6, <2>1
  <2> QED
    BY <1>3, <1>5, <2>2
<1> QED
  BY <1>3, <1>5, <1>6, <1>7

(* A sum of entries of one sign is zero only if each of them is.           *)
LEMMA OneSided ==
  ASSUME NEW S, NEW order \in Seq(S), NEW v \in [S -> Int],
         (\A a \in S : v[a] <= 0) \/ (\A a \in S : v[a] >= 0),
         SumOver(order, v) = 0
  PROVE  \A a \in Keys(order) : v[a] = 0
<1>1. SUFFICES ASSUME NEW a \in Keys(order) PROVE v[a] = 0
  OBVIOUS
<1>2. a \in S /\ v[a] \in Int
  BY DEF Keys
<1>3. CASE \A b \in S : v[b] <= 0
  <2>1. SumOver(order, v) <= v[a]
    BY <1>3, SumBelow
  <2> QED
    BY <1>2, <1>3, <2>1
<1>4. CASE \A b \in S : v[b] >= 0
  <2>1. SumOver(order, v) >= v[a]
    BY <1>4, SumDominates DEF NonNegative
  <2> QED
    BY <1>2, <1>4, <2>1
<1> QED
  BY <1>3, <1>4

(* The two sides of a split: their energy adds up to the total, whose sign *)
(* decides which side gives, and production and shortage can be read off.  *)
LEMMA SplitSums ==
  ASSUME NEW order \in Seq(Address), NEW delta \in [Address -> Int]
  PROVE  LET s == SplitOf(order, delta)
             e == SumOver(order, delta)
         IN  /\ e \in Int
             /\ s.more <=> e > 0
             /\ s.eFrom + s.eTo = e
             /\ (IF s.more THEN s.eTo ELSE s.eFrom) = Produced(order, delta)
             /\ (IF s.more THEN 0 ELSE Magnitude(s.eFrom + s.eTo)) = Positive(-e)
<1> DEFINE p == Produced(order, delta)
           c == Consumed(order, delta)
           e == SumOver(order, delta)
<1>1. p \in Nat /\ c \in Int /\ c <= 0 /\ p + c = e
  BY Sides
<1>2. CASE p > Magnitude(c)
  <2>1. /\ SplitOf(order, delta).more = TRUE
        /\ SplitOf(order, delta).eFrom = c /\ SplitOf(order, delta).eTo = p
    BY <1>2 DEF SplitOf
  <2> HIDE DEF p, c, e
  <2>2. e \in Int /\ e > 0 /\ c + p = e /\ Positive(-e) = 0
    BY <1>1, <1>2 DEF Magnitude, Positive
  <2> QED
    BY <2>1, <2>2 DEF p, e
<1>3. CASE ~(p > Magnitude(c))
  <2>1. /\ SplitOf(order, delta).more = FALSE
        /\ SplitOf(order, delta).eFrom = p /\ SplitOf(order, delta).eTo = c
    BY <1>3 DEF SplitOf
  <2> HIDE DEF p, c, e
  <2>2. e \in Int /\ ~(e > 0) /\ p + c = e /\ Positive(-e) = Magnitude(p + c)
    BY <1>1, <1>3 DEF Magnitude, Positive
  <2> QED
    BY <2>1, <2>2 DEF p, e
<1> QED
  BY <1>2, <1>3

-----------------------------------------------------------------------------
(* What holds of the two splits of a settlement and of the balances, on    *)
(* top of Inv.  The first split is that of the reports.  If production and *)
(* consumption are equal, every share is exact: a receiver that had its    *)
(* turn lacks just what is still to be moved to it.  The second split has  *)
(* the same sides; whoever is served in full, or reported zero, holds      *)
(* energy only as a member of the side that is being emptied.              *)
Exact ==
  SumOver(households, before) = 0 =>
    \A a \in split.hTo \ todo :
      meterDelta[a] = 0 \/ (a = to /\ meterDelta[a] = -eAlloc)

SameSides ==
  LET first == SplitOf(households, before)
  IN  /\ split.more = first.more
      /\ split.hFrom \subseteq first.hFrom
      /\ split.hTo \subseteq first.hTo
      /\ \A a \in first.hFrom : meterDelta[a] # 0 => a \in split.hFrom

Emptying ==
  /\ SumOver(households, before) = 0 => \A a \in Keys(households) : meterDelta[a] = 0
  /\ \A a \in Keys(households) : before[a] = 0 => meterDelta[a] = 0
  /\ Sources # {} => split.hTo # {}

SplitInv ==
  /\ pc # "idle" => Zero \notin Keys(households)
  /\ pc = "distribute" => split = SplitOf(households, before) /\ Exact
  /\ pc = "rest" => SameSides /\ Emptying

LEMMA SettleSplit ==
  ASSUME Inv, settle
  PROVE  SplitInv'
<1>1. /\ pc' = "distribute" /\ households' = WithoutPlaceholder
      /\ meterDelta' = before' /\ split' = SplitOf(households', before')
      /\ todo' = split'.hTo
  BY DEF settle
<1>2. Keys(households') = Keys(households) \ {Zero}
  BY <1>1, Types, WithoutPlaceholderFacts DEF Inv
<1>3. (Zero \notin Keys(households))'
  BY <1>2 DEF Keys
<1>4. Exact'
  BY <1>1 DEF Exact
<1> QED
  BY <1>1, <1>3, <1>4 DEF SplitInv

(* While the loops run the givers have one sign and the receivers the      *)
(* other; the rest is as it was reported, and those that are keys are 0.   *)
LEMMA Signs ==
  ASSUME Inv, SplitInv, pc = "distribute"
  PROVE  /\ split.more \in BOOLEAN
         /\ split.more =>
              /\ \A a \in split.hFrom : meterDelta[a] <= 0
              /\ \A a \in split.hTo : meterDelta[a] >= 0
         /\ ~split.more =>
              /\ \A a \in split.hFrom : meterDelta[a] >= 0
              /\ \A a \in split.hTo : meterDelta[a] <= 0
         /\ \A a \in Address : a \notin split.hFrom /\ a \notin split.hTo =>
              meterDelta[a] = 0
         /\ \A a \in Keys(households) : before[a] = 0 => meterDelta[a] = 0
<1>1. /\ households \in Seq(Address) /\ Keys(households) \subseteq Address
      /\ meterDelta \in [Address -> Int] /\ before \in [Address -> Int]
  BY Types DEF Inv
<1>2. /\ split.more \in BOOLEAN
      /\ split.hFrom \subseteq Keys(households) /\ split.hTo \subseteq Keys(households)
  BY DEF Inv, TypeOK, Split, LoopInv
<1>3. /\ \A a \in split.hFrom :
           0 <= Given(meterDelta[a]) /\ Given(meterDelta[a]) <= Given(before[a])
      /\ \A a \in split.hTo :
           0 <= -Given(meterDelta[a]) /\ -Given(meterDelta[a]) <= -Given(before[a])
      /\ \A a \in Address \ (split.hFrom \cup split.hTo) : meterDelta[a] = before[a]
  BY DEF Inv, LoopInv
<1>4. split = SplitOf(households, before)
  BY DEF SplitInv
<1>5. /\ split.more =>
           /\ split.hFrom = {a \in Keys(households) : before[a] < 0}
           /\ split.hTo = {a \in Keys(households) : before[a] > 0}
      /\ ~split.more =>
           /\ split.hFrom = {a \in Keys(households) : before[a] > 0}
           /\ split.hTo = {a \in Keys(households) : before[a] < 0}
  BY <1>1, <1>4, SplitFacts
<1>6. \A a \in Keys(households) : meterDelta[a] \in Int /\ before[a] \in Int
  BY <1>1
<1>7. \A a \in Address : a \notin Keys(households) => meterDelta[a] = 0
  BY DEF Inv, TypeOK
<1>8. \A a \in Address : a \notin split.hFrom /\ a \notin split.hTo => meterDelta[a] = 0
  BY <1>2, <1>3, <1>5, <1>6, <1>7
<1>9. \A a \in Keys(households) : before[a] = 0 => meterDelta[a] = 0
  BY <1>1, <1>2, <1>5, <1>8
<1>10. /\ split.more =>
            /\ \A a \in split.hFrom : meterDelta[a] <= 0
            /\ \A a \in split.hTo : meterDelta[a] >= 0
       /\ ~split.more =>
            /\ \A a \in split.hFrom : meterDelta[a] >= 0
            /\ \A a \in split.hTo : meterDelta[a] <= 0
  BY <1>2, <1>3, <1>6 DEF Given
<1> QED
  BY <1>2, <1>8, <1>9, <1>10

(* With nothing missing and nothing left over, a side without energy means *)
(* that the other has none either.                                         *)
LEMMA BothEmpty ==
  ASSUME Inv, SplitInv, pc = "distribute", SumOver(households, before) = 0,
         (\A a \in split.hFrom : meterDelta[a] = 0)
           \/ (\A a \in split.hTo : meterDelta[a] = 0)
  PROVE  \A a \in Keys(households) : meterDelta[a] = 0
<1>1. households \in Seq(Address) /\ meterDelta \in [Address -> Int]
  BY Types DEF Inv
<1>2. SumOver(households, meterDelta) = 0
  BY DEF Inv, Consistency
<1>3. (\A a \in Address : meterDelta[a] <= 0) \/ (\A a \in Address : meterDelta[a] >= 0)
  BY <1>1, Signs
<1> QED
  BY <1>1, <1>2, <1>3, OneSided

(* A share of everything there is, of a receiver that lacks m: exactly m.  *)
LEMMA ExactShare ==
  ASSUME NEW q \in Int \ {0}, NEW m \in Int, NEW r \in JsRound((-q) * m, q)
  PROVE  r = -m
<1> DEFINE d == Magnitude(q)
           n == IF q < 0 THEN -((-q) * m) ELSE (-q) * m
           k == (2 * n + d) \div (2 * d)
<1>1. d \in Nat \ {0} /\ n = d * (-m)
  BY DEF Magnitude
<1>2. r = k \/ (2 * d * k = 2 * n + d /\ r = k - 1)
  BY DEF JsRound
<1> HIDE DEF d, n
<1>3. 2 * n + d = 2 * d * (-m) + d
  BY <1>1
<1>4. k \in Int /\ 2 * d * k <= 2 * n + d /\ 2 * n + d < 2 * d * (k + 1)
  BY <1>1
<1>5. k = -m
  BY <1>1, <1>3, <1>4
<1>6. 2 * d * k # 2 * n + d
  BY <1>1, <1>3, <1>5
<1> QED
  BY <1>2, <1>5, <1>6

LEMMA AllocateSplit ==
  ASSUME Inv, SplitInv, Allocate
  PROVE  SplitInv'
<1> DEFINE a == First(todo)
           e == eAlloc'
<1>1. /\ pc = "distribute" /\ pc' = pc /\ ShareDone /\ todo # {}
      /\ to' = a /\ todo' = todo \ {a}
      /\ e \in JsRound(split.eFrom * meterDelta[a], split.eTo)
      /\ UNCHANGED <<households, meterDelta, split, before>>
  BY DEF Allocate, store
<1>2. a \in todo
  <2>1. todo \in SUBSET Keys(households)
    BY <1>1 DEF Inv, LoopInv, TypeOK
  <2> QED
    BY <1>1, <2>1, Types, FirstIn DEF Inv
<1> HIDE DEF a, e
<1>3. ASSUME SumOver(households, before) = 0
      PROVE  Exact'
  <2>1. \A b \in split.hTo \ todo : meterDelta[b] = 0
    <3>1. CASE eAlloc = 0
      BY <1>1, <1>3, <3>1 DEF SplitInv, Exact
    <3>2. CASE Sources = {}
      <4>1. \A b \in split.hFrom : meterDelta[b] = 0
        BY <3>2 DEF Sources
      <4> QED
        BY <1>1, <1>3, <4>1, BothEmpty DEF Inv, LoopInv
    <3> QED
      BY <1>1, <3>1, <3>2 DEF ShareDone
  <2>2. /\ a \in Address /\ meterDelta[a] \in Int /\ meterDelta[a] # 0
        /\ split.eFrom \in Int /\ split.eTo \in Int
    BY <1>1, <1>2 DEF Inv, TypeOK, Split, LoopInv
  <2>3. split.eFrom = -split.eTo
    <3>1. split.eFrom + split.eTo = 0
      BY <1>1, <1>3, SplitSums, Types DEF Inv, SplitInv
    <3> QED
      BY <2>2, <3>1
  <2>4. split.eTo # 0
    <3>1. /\ split.more \in BOOLEAN
          /\ -Given(meterDelta[a]) <= -Given(split.eTo)
          /\ 0 <= -Given(meterDelta[a])
      BY <1>1, <1>2 DEF Inv, TypeOK, Split, LoopInv
    <3> QED
      BY <2>2, <3>1 DEF Given
  <2>5. e = -meterDelta[a]
    <3> DEFINE q == split.eTo
               m == meterDelta[a]
    <3>1. e \in JsRound((-q) * m, q) /\ q \in Int /\ q # 0 /\ m \in Int
      BY <1>1, <2>2, <2>3, <2>4
    <3> HIDE DEF q, m
    <3> QED
      BY <3>1, ExactShare DEF m
  <2>6. ASSUME NEW b \in split.hTo \ (todo \ {a})
        PROVE  meterDelta[b] = 0 \/ (b = a /\ meterDelta[b] = -e)
    BY <2>1, <2>2, <2>5, <2>6
  <2> QED
    BY <1>1, <2>6 DEF Exact, e
<1>4. Exact'
  BY <1>1, <1>3 DEF Exact
<1> QED
  BY <1>1, <1>4 DEF SplitInv

(* A source gives what its receiver lacks: the rest of the share shrinks   *)
(* with the deficit.                                                       *)
LEMMA GiveSplit ==
  ASSUME Inv, SplitInv, Give
  PROVE  SplitInv'
<1> DEFINE a == First(Sources)
           x == Amount(eAlloc, meterDelta[a])
<1>1. /\ pc = "distribute" /\ pc' = pc /\ eAlloc # 0 /\ Sources # {}
      /\ _transfer(a, to, x) /\ eAlloc' = eAlloc - x
      /\ UNCHANGED <<households, split, todo, to, before>>
  BY DEF Give, ShareDone
<1>2. a \in Sources
  <2>1. Sources \in SUBSET Keys(households)
    BY <1>1 DEF Inv, LoopInv, Sources
  <2> QED
    BY <1>1, <2>1, Types, FirstIn DEF Inv
<1> HIDE DEF a
<1>3. /\ a \in split.hFrom /\ a \in Keys(households)
      /\ to \in split.hTo \ todo /\ to \in Keys(households) /\ a # to
      /\ a \in Address /\ to \in Address
      /\ meterDelta[a] \in Int /\ meterDelta[to] \in Int /\ eAlloc \in Int
      /\ split.more \in BOOLEAN
      /\ Given(eAlloc) <= -Given(meterDelta[to]) /\ 0 <= Given(eAlloc)
  BY <1>1, <1>2 DEF Inv, LoopInv, TypeOK, Split, Sources
<1>4. x \in Int
  BY <1>3 DEF Amount
<1> HIDE DEF x
<1>5. /\ meterDelta'[to] = meterDelta[to] + x
      /\ \A c \in Address : c # a /\ c # to => meterDelta'[c] = meterDelta[c]
  BY <1>1, <1>3, <1>4, TransferFacts DEF Inv
<1>6. split.hTo \subseteq Address /\ a \notin split.hTo
  BY <1>1, <1>3 DEF Inv, LoopInv, TypeOK, Split
<1>7. ASSUME SumOver(households, before) = 0
      PROVE  Exact'
  <2>1. /\ \A b \in split.hTo \ todo :
             meterDelta[b] = 0 \/ (b = to /\ meterDelta[b] = -eAlloc)
    BY <1>1, <1>7 DEF SplitInv, Exact
  <2>2. meterDelta[to] = -eAlloc
    <3>1. meterDelta[to] # 0
      BY <1>1, <1>3 DEF Given
    <3> QED
      BY <1>3, <2>1, <3>1
  <2>3. meterDelta'[to] = -eAlloc'
    BY <1>1, <1>3, <1>4, <1>5, <2>2
  <2>4. \A b \in split.hTo \ todo :
          meterDelta'[b] = 0 \/ (b = to /\ meterDelta'[b] = -eAlloc')
    BY <1>5, <1>6, <2>1, <2>3
  <2> QED
    BY <1>1, <2>4 DEF Exact
<1>8. Exact'
  BY <1>1, <1>7 DEF Exact
<1> QED
  BY <1>1, <1>8 DEF SplitInv

(* The loops have not changed any sign, and the total is what it was: the  *)
(* sides are the same and, if anything is left, there is a receiver.       *)
LEMMA ResplitSplit ==
  ASSUME Inv, SplitInv, Resplit
  PROVE  SplitInv'
<1> DEFINE b == SplitOf(households, before)
           s == SplitOf(households, meterDelta)
<1>1. /\ pc = "distribute" /\ pc' = "rest" /\ ShareDone /\ todo = {}
      /\ split' = s /\ UNCHANGED <<households, meterDelta, before>>
  BY DEF Resplit, store
<1>2. /\ households \in Seq(Address) /\ Keys(households) \subseteq Address
      /\ meterDelta \in [Address -> Int] /\ before \in [Address -> Int]
  BY Types DEF Inv
<1>3. split = b
  BY <1>1 DEF SplitInv
<1>4. SumOver(households, meterDelta) = SumOver(households, before)
  BY <1>1 DEF Inv, Consistency
<1>5. /\ s.more \in BOOLEAN /\ b.more \in BOOLEAN
      /\ s.more <=> SumOver(households, meterDelta) > 0
      /\ b.more <=> SumOver(households, before) > 0
  BY <1>2, SplitSums, SplitFacts DEF Split
<1>6. s.more = b.more
  BY <1>4, <1>5
<1>7. /\ s.hFrom \subseteq Keys(households) /\ s.hTo \subseteq Keys(households)
      /\ s.more =>
           /\ s.hFrom = {a \in Keys(households) : meterDelta[a] < 0}
           /\ s.hTo = {a \in Keys(households) : meterDelta[a] > 0}
      /\ ~s.more =>
           /\ s.hFrom = {a \in Keys(households) : meterDelta[a] > 0}
           /\ s.hTo = {a \in Keys(households) : meterDelta[a] < 0}
  BY <1>2, SplitFacts
<1>8. b.hFrom \subseteq Keys(households) /\ b.hTo \subseteq Keys(households)
  BY <1>2, SplitFacts
<1> HIDE DEF b, s
<1>9. \A a \in Keys(households) : meterDelta[a] \in Int
  BY <1>2
<1>10. /\ b.more =>
            /\ \A a \in b.hFrom : meterDelta[a] <= 0
            /\ \A a \in b.hTo : meterDelta[a] >= 0
       /\ ~b.more =>
            /\ \A a \in b.hFrom : meterDelta[a] >= 0
            /\ \A a \in b.hTo : meterDelta[a] <= 0
       /\ \A a \in Keys(households) : a \notin b.hFrom /\ a \notin b.hTo =>
            meterDelta[a] = 0
       /\ \A a \in Keys(households) : before[a] = 0 => meterDelta[a] = 0
  BY <1>1, <1>2, <1>3, Signs
<1>11. /\ s.hFrom \subseteq b.hFrom /\ s.hTo \subseteq b.hTo
       /\ \A a \in b.hFrom : meterDelta[a] # 0 => a \in s.hFrom
  <2>1. CASE b.more
    BY <1>6, <1>7, <1>8, <1>9, <1>10, <2>1
  <2>2. CASE ~b.more
    BY <1>6, <1>7, <1>8, <1>9, <1>10, <2>2
  <2> QED
    BY <2>1, <2>2
<1>12. SumOver(households, before) = 0 => \A a \in Keys(households) : meterDelta[a] = 0
  <2>1. SUFFICES ASSUME SumOver(households, before) = 0
                 PROVE  \A a \in Keys(households) : meterDelta[a] = 0
    OBVIOUS
  <2>2. CASE eAlloc = 0
    <3>1. \A a \in split.hTo : meterDelta[a] = 0
      BY <1>1, <2>1, <2>2 DEF SplitInv, Exact
    <3> QED
      BY <1>1, <2>1, <3>1, BothEmpty
  <2>3. CASE Sources = {}
    <3>1. \A a \in split.hFrom : meterDelta[a] = 0
      BY <2>3 DEF Sources
    <3> QED
      BY <1>1, <2>1, <3>1, BothEmpty
  <2> QED
    BY <1>1, <2>2, <2>3 DEF ShareDone
<1>13. ASSUME NEW a \in s.hFrom, meterDelta[a] # 0, s.hTo = {}
       PROVE  FALSE
  <2>1. \A c \in Address : c \notin Keys(households) => meterDelta[c] = 0
    BY DEF Inv, TypeOK
  <2>2. CASE s.more
    <3>1. \A c \in Address : meterDelta[c] <= 0
      BY <1>2, <1>7, <1>13, <2>1, <2>2
    <3>2. SumOver(households, meterDelta) <= 0
      BY <1>2, <3>1, SumBelow
    <3> QED
      BY <1>5, <2>2, <3>2, <1>2, SumInt
  <2>3. CASE ~s.more
    <3>1. \A c \in Address : meterDelta[c] >= 0
      BY <1>2, <1>7, <1>13, <2>1, <2>3
    <3>2. SumOver(households, meterDelta) >= meterDelta[a] /\ a \in Keys(households)
      BY <1>2, <1>7, <3>1, SumDominates DEF NonNegative
    <3>3. meterDelta[a] > 0 /\ meterDelta[a] \in Int
      BY <1>7, <1>9, <1>13, <2>3
    <3> QED
      BY <1>2, <1>5, <2>3, <3>2, <3>3, SumInt
  <2> QED
    BY <1>5, <2>2, <2>3
<1>14. SameSides'
  BY <1>1, <1>6, <1>11 DEF SameSides, b
<1>15. Emptying'
  BY <1>1, <1>10, <1>12, <1>13 DEF Emptying, Sources
<1>16. (Zero \notin Keys(households))'
  BY <1>1 DEF SplitInv, Keys
<1> QED
  BY <1>1, <1>14, <1>15, <1>16 DEF SplitInv

(* A unit moves from the emptied side to the other one.                    *)
LEMMA TransferRestSplit ==
  ASSUME Inv, SplitInv, TransferRest
  PROVE  SplitInv'
<1> DEFINE a == First(Sources)
           x == IF split.more THEN -1 ELSE 1
           first == SplitOf(households, before)
<1>1. /\ pc = "rest" /\ pc' = pc /\ Sources # {}
      /\ UNCHANGED <<households, split, before>>
  BY DEF TransferRest
<1>2. PICK b \in RestTargets : _transfer(a, b, x)
  BY DEF TransferRest
<1>3. a \in Sources
  <2>1. Sources \in SUBSET Keys(households)
    BY <1>1 DEF Inv, LoopInv, Sources
  <2> QED
    BY <1>1, <2>1, Types, FirstIn DEF Inv
<1> HIDE DEF a
<1>4. /\ a \in split.hFrom /\ meterDelta[a] # 0 /\ a \in Keys(households)
      /\ b \in split.hTo /\ b \in Keys(households) /\ a # b
      /\ split.hFrom \cap split.hTo = {}
  BY <1>1, <1>2, <1>3 DEF Inv, LoopInv, Sources, RestTargets
<1>5. x \in Int
  OBVIOUS
<1> HIDE DEF x
<1>6. \A c \in Address : c # a /\ c # b => meterDelta'[c] = meterDelta[c]
  BY <1>2, <1>4, <1>5, TransferFacts DEF Inv
<1>7. SameSides /\ Emptying
  BY <1>1 DEF SplitInv
<1>8. /\ Keys(households) \subseteq Address /\ split.hFrom \subseteq Keys(households)
      /\ split.hTo \subseteq Keys(households)
      /\ households \in Seq(Address) /\ before \in [Address -> Int]
  BY <1>1, Types DEF Inv, LoopInv
<1>9. /\ first.hTo = {c \in Keys(households) : IF first.more THEN before[c] > 0
                                               ELSE before[c] < 0}
      /\ first.hFrom = {c \in Keys(households) : IF first.more THEN before[c] < 0
                                                 ELSE before[c] > 0}
  <2>1. first.more \in BOOLEAN
    BY <1>8, SplitFacts DEF Split
  <2> QED
    BY <1>8, <2>1, SplitFacts
<1> HIDE DEF first
<1>10. /\ b \notin first.hFrom /\ before[a] # 0 /\ before[b] # 0
       /\ split.hTo \subseteq first.hTo /\ split.hFrom \subseteq first.hFrom
       /\ split.more = first.more
       /\ first.hFrom \subseteq Keys(households)
       /\ \A c \in first.hFrom : meterDelta[c] # 0 => c \in split.hFrom
  <2>1. /\ split.hTo \subseteq first.hTo /\ split.hFrom \subseteq first.hFrom
        /\ split.more = first.more
        /\ \A c \in first.hFrom : meterDelta[c] # 0 => c \in split.hFrom
    BY <1>7 DEF SameSides, first
  <2>2. before[a] \in Int /\ before[b] \in Int
    BY <1>4, <1>8
  <2> QED
    BY <1>4, <1>9, <2>1, <2>2
<1>11. SameSides'
  <2>1. \A c \in first.hFrom : meterDelta'[c] # 0 => c \in split.hFrom
    BY <1>4, <1>6, <1>8, <1>10
  <2> QED
    BY <1>1, <1>10, <2>1 DEF SameSides, first
<1>12. Emptying'
  <2>1. SumOver(households, before) # 0
    BY <1>4, <1>7 DEF Emptying
  <2>2. \A c \in Keys(households) : before[c] = 0 => meterDelta'[c] = 0
    BY <1>6, <1>7, <1>8, <1>10 DEF Emptying
  <2>3. Keys(households') = Keys(households) /\ split'.hTo # {}
    BY <1>1, <1>4
  <2> QED
    BY <1>1, <2>1, <2>2, <2>3 DEF Emptying
<1>13. (Zero \notin Keys(households))'
  BY <1>1 DEF SplitInv, Keys
<1> QED
  BY <1>1, <1>11, <1>12, <1>13 DEF SplitInv

LEMMA NextSplit ==
  ASSUME Inv, SplitInv, [Next]_vars
  PROVE  SplitInv'
<1>1. CASE pc' = "idle"
  BY <1>1 DEF SplitInv
<1>2. CASE \E a \in Address : addHousehold(a)
  BY <1>1, <1>2 DEF addHousehold
<1>3. CASE \E a \in Address, d \in Deltas : updateMeterDelta(a, d)
  BY <1>1, <1>3 DEF updateMeterDelta
<1>4. CASE getHouseholdAddressesProducers
  BY <1>1, <1>4 DEF getHouseholdAddressesProducers
<1>5. CASE settle
  BY <1>5, SettleSplit
<1>6. CASE Settling
  <2>1. CASE Return
    BY <1>1, <2>1 DEF Return
  <2> QED
    BY <1>6, <2>1, AllocateSplit, GiveSplit, ResplitSplit, TransferRestSplit DEF Settling
<1>7. CASE UNCHANGED vars
  <2>1. UNCHANGED <<households, meterDelta, pc, split, todo, to, eAlloc, before>>
    BY <1>7 DEF vars, store, locals
  <2> QED
    BY <2>1 DEF SplitInv, Exact, SameSides, Emptying, Sources
<1> QED
  BY <1>2, <1>3, <1>4, <1>5, <1>6, <1>7 DEF Next

LEMMA AlwaysSplit == Spec => []SplitInv
<1>1. Init => SplitInv
  BY DEF Init, SplitInv
<1> QED
  BY <1>1, NextSplit, AlwaysInv, PTL DEF Spec

(* The invariant of the loops that everything else rests on: the givers    *)
(* stay between zero and their report, no share exceeds what its receiver  *)
(* still lacks, and a receiver that waits for its turn is untouched.       *)
THEOREM LoopsAlways == Spec => []LoopInv
<1>1. Inv => LoopInv
  BY DEF Inv
<1> QED
  BY <1>1, AlwaysInv, PTL

(* The split that settle() (utility.js:106) computes from the deltas its   *)
(* own loops have changed has the sides of the first split, and a receiver *)
(* as long as energy is left: the while loop of _transferRest has          *)
(* somewhere to put every unit.                                            *)
THEOREM SplitsAgree == Spec => []ResplitAgrees
<1>1. SplitInv => ResplitAgrees
  BY DEF SplitInv, SameSides, Emptying, ResplitAgrees
<1> QED
  BY <1>1, AlwaysSplit, PTL

-----------------------------------------------------------------------------
(* How much _proportionalDistribution leaves behind                        *)

(* What the members of S hold, and nothing elsewhere.                      *)
Held(S, d) == [a \in Address |-> IF a \in S THEN d[a] ELSE 0]

LEMMA HeldInt ==
  ASSUME NEW order \in Seq(Address), NEW S, NEW d \in [Address -> Int]
  PROVE  Held(S, d) \in [Address -> Int] /\ SumOver(order, Held(S, d)) \in Int
<1>1. Held(S, d) \in [Address -> Int]
  BY DEF Held
<1> QED
  BY <1>1, SumInt

(* Only what the members of S hold matters.                                *)
LEMMA HeldSame ==
  ASSUME NEW S \in SUBSET Address, NEW d \in [Address -> Int], NEW c \in [Address -> Int],
         \A a \in S : d[a] = c[a]
  PROVE  Held(S, d) = Held(S, c)
BY DEF Held

(* a lies in S and there gives x; the other members keep what they hold.   *)
Gives(order, S, d, c, a, x) ==
  /\ order \in Seq(Address) /\ Once(order) /\ S \subseteq Address
  /\ d \in [Address -> Int] /\ c \in [Address -> Int] /\ x \in Int
  /\ a \in S /\ a \in Keys(order)
  /\ c[a] = d[a] - x /\ \A b \in S : b # a => c[b] = d[b]

LEMMA HeldGives ==
  ASSUME NEW order, NEW S, NEW d, NEW c, NEW a, NEW x, Gives(order, S, d, c, a, x)
  PROVE  SumOver(order, Held(S, c)) = SumOver(order, Held(S, d)) - x
<1>1. /\ order \in Seq(Address) /\ Once(order) /\ S \subseteq Address
      /\ d \in [Address -> Int] /\ c \in [Address -> Int] /\ x \in Int
      /\ a \in S /\ a \in Keys(order)
      /\ c[a] = d[a] - x /\ \A b \in S : b # a => c[b] = d[b]
  BY DEF Gives
<1>2. PICK v, w : v = Held(S, d) /\ w = Held(S, c)
  OBVIOUS
<1>3. PICK y \in Int : y = -x
  BY <1>1
<1>4. v \in [Address -> Int] /\ w \in [Address -> Int]
  BY <1>1, <1>2, HeldInt
<1>5. Raised(Address, v, w, a, y)
  BY <1>1, <1>2, <1>3 DEF Raised, Held
<1>6. SumOver(order, w) = SumOver(order, v) + y
  BY <1>1, <1>3, <1>4, <1>5, SumChange
<1>7. SumOver(order, v) \in Int
  BY <1>1, <1>4, SumInt
<1> QED
  BY <1>1, <1>2, <1>3, <1>6, <1>7

(* Without a, S holds what a held less.                                    *)
LEMMA HeldWithout ==
  ASSUME NEW order \in Seq(Address), Once(order), NEW S \in SUBSET Address,
         NEW d \in [Address -> Int], NEW a \in S, a \in Keys(order)
  PROVE  SumOver(order, Held(S \ {a}, d)) = SumOver(order, Held(S, d)) - d[a]
<1>1. PICK c : c = [d EXCEPT ![a] = 0]
  OBVIOUS
<1>2. PICK x \in Int : x = d[a]
  OBVIOUS
<1>3. Gives(order, S, d, c, a, x)
  BY <1>1, <1>2 DEF Gives
<1>4. SumOver(order, Held(S, c)) = SumOver(order, Held(S, d)) - x
  BY <1>3, HeldGives
<1>5. Held(S, c) = Held(S \ {a}, d)
  BY <1>1 DEF Held
<1> QED
  BY <1>2, <1>4, <1>5

(* Nobody holds anything.                                                  *)
LEMMA HeldNone ==
  ASSUME NEW order \in Seq(Address), NEW S, NEW d \in [Address -> Int],
         \A a \in S : d[a] = 0
  PROVE  SumOver(order, Held(S, d)) = 0
<1>1. PICK z : z = Held(S, d)
  OBVIOUS
<1>2. z \in [Address -> Int] /\ \A a \in Address : z[a] = z[a] + z[a]
  BY <1>1 DEF Held
<1>3. Adds(Address, order, z, z, z)
  BY <1>2 DEF Adds
<1>4. SumOver(order, z) = SumOver(order, z) + SumOver(order, z) /\ SumOver(order, z) \in Int
  BY <1>2, <1>3, SumAdd, SumInt
<1> QED
  BY <1>1, <1>4

(* The two sides of a split hold what it says they do.                     *)
LEMMA SplitHolds ==
  ASSUME NEW order \in Seq(Address), NEW d \in [Address -> Int]
  PROVE  LET s == SplitOf(order, d)
         IN  /\ SumOver(order, Held(s.hFrom, d)) = s.eFrom
             /\ SumOver(order, Held(s.hTo, d)) = s.eTo
<1> DEFINE up == {a \in Keys(order) : d[a] > 0}
           down == {a \in Keys(order) : d[a] < 0}
           p == [a \in Address |-> Positive(d[a])]
           n == [a \in Address |-> Negative(d[a])]
<1>1. Keys(order) \subseteq Address /\ DOMAIN d = Address
  BY DEF Keys
<1>2. SumOver(order, Held(up, d)) = Produced(order, d)
  <2>1. /\ p \in [Address -> Int] /\ Held(up, d) \in [Address -> Int]
        /\ \A a \in Keys(order) : Held(up, d)[a] = p[a]
    BY <1>1 DEF Held, Positive
  <2>2. SameOn(Address, Address, order, Held(up, d), p)
    BY <2>1 DEF SameOn
  <2>3. Produced(order, d) = SumOver(order, p)
    BY <1>1 DEF Produced
  <2> HIDE DEF p, up
  <2> QED
    BY <2>2, <2>3, SumOnKeys
<1>3. SumOver(order, Held(down, d)) = Consumed(order, d)
  <2>1. /\ n \in [Address -> Int] /\ Held(down, d) \in [Address -> Int]
        /\ \A a \in Keys(order) : Held(down, d)[a] = n[a]
    BY <1>1 DEF Held, Negative
  <2>2. SameOn(Address, Address, order, Held(down, d), n)
    BY <2>1 DEF SameOn
  <2>3. Consumed(order, d) = SumOver(order, n)
    BY <1>1 DEF Consumed
  <2> HIDE DEF n, down
  <2> QED
    BY <2>2, <2>3, SumOnKeys
<1>4. CASE Produced(order, d) > Magnitude(Consumed(order, d))
  <2>1. SplitOf(order, d) = [hFrom |-> down, eFrom |-> Consumed(order, d),
                             hTo |-> up, eTo |-> Produced(order, d), more |-> TRUE]
    BY <1>4 DEF SplitOf
  <2> HIDE DEF up, down
  <2> QED
    BY <1>2, <1>3, <2>1
<1>5. CASE ~(Produced(order, d) > Magnitude(Consumed(order, d)))
  <2>1. SplitOf(order, d) = [hFrom |-> up, eFrom |-> Produced(order, d),
                             hTo |-> down, eTo |-> Consumed(order, d), more |-> FALSE]
    BY <1>5 DEF SplitOf
  <2> HIDE DEF up, down
  <2> QED
    BY <1>2, <1>3, <2>1
<1> QED
  BY <1>4, <1>5

(* A rounded share is off by half a unit at most, whichever way a half is  *)
(* rounded.                                                                *)
LEMMA ShareClose ==
  ASSUME NEW p \in Int, NEW q \in Int \ {0}, NEW r \in JsRound(p, q)
  PROVE  /\ r \in Int
         /\ 2 * (q * r) - 2 * p <= Magnitude(q)
         /\ 2 * p - 2 * (q * r) <= Magnitude(q)
<1> DEFINE n == IF q < 0 THEN -p ELSE p
           d == Magnitude(q)
           k == (2 * n + d) \div (2 * d)
<1>1. d \in Nat \ {0} /\ n \in Int
  BY DEF Magnitude
<1>2. r = k \/ (2 * d * k = 2 * n + d /\ r = k - 1)
  BY DEF JsRound
<1>3. (q < 0 /\ q = -d /\ p = -n) \/ (~(q < 0) /\ q = d /\ p = n)
  BY DEF Magnitude
<1> HIDE DEF d, n
<1>4. k \in Int /\ 2 * d * k <= 2 * n + d /\ 2 * n + d < 2 * d * (k + 1)
  BY <1>1
<1> HIDE DEF k
<1>5. 2 * d * k = 2 * (d * k) /\ 2 * d * (k + 1) = 2 * (d * k) + 2 * d
      /\ d * (k - 1) = d * k - d
  BY <1>1, <1>4
<1>6. r \in Int /\ 2 * (d * r) - 2 * n <= d /\ 2 * n - 2 * (d * r) <= d
  <2>1. PICK z \in Int : z = d * k
    BY <1>1, <1>4
  <2>2. CASE r = k
    BY <1>1, <1>4, <1>5, <2>1, <2>2
  <2>3. CASE 2 * d * k = 2 * n + d /\ r = k - 1
    <3>1. d * r = z - d /\ 2 * z = 2 * n + d
      BY <1>5, <2>1, <2>3
    <3> QED
      BY <1>1, <1>4, <2>1, <2>3, <3>1
  <2> QED
    BY <1>2, <2>2, <2>3
<1>7. q = -d => q * r = -(d * r)
  BY <1>1, <1>6
<1>8. d * r \in Int
  BY <1>1, <1>6
<1> QED
  BY <1>1, <1>3, <1>6, <1>7, <1>8 DEF d

(* What is left on the giving side, what the receivers whose turn is still *)
(* to come lack, and how many have had theirs.                             *)
Left == Given(SumOver(households, Held(split.hFrom, meterDelta)))
Due == -Given(SumOver(households, Held(todo, meterDelta)))
Turns == Cardinality(split.hTo \ todo)

(* Whoever has had its turn has taken its part but for half a unit:        *)
(* Left <= F * Due / T + Turns / 2 + what is on its way.                   *)
Bounded(left, due, alloc, f, t, turns) ==
  /\ 0 <= left /\ left <= f /\ f <= t /\ 0 <= alloc /\ 0 <= due
  /\ 2 * (t * (left - alloc)) - 2 * (f * due) <= t * turns

SmallInv ==
  /\ pc = "distribute" =>
       Bounded(Left, Due, Given(eAlloc), Given(split.eFrom), -Given(split.eTo), Turns)
  /\ pc = "rest" => Cardinality(Receivers) \in Nat /\ 2 * Left <= Cardinality(Receivers)

LEMMA GivenNothing ==
  ASSUME NEW x \in Int, x <= 0, 0 <= x
  PROVE  Given(x) = 0 /\ Given(x)' = 0
BY DEF Given

(* The numbers the invariant speaks of.                                    *)
LEMMA SmallTypes ==
  ASSUME Inv, pc # "idle"
  PROVE  /\ households \in Seq(Address) /\ Once(households)
         /\ Keys(households) \subseteq Address
         /\ meterDelta \in [Address -> Int]
         /\ split.more \in BOOLEAN /\ split.eFrom \in Int /\ split.eTo \in Int
         /\ split.hFrom \subseteq Keys(households) /\ split.hTo \subseteq Keys(households)
         /\ todo \subseteq split.hTo /\ eAlloc \in Int
         /\ Left \in Int /\ Due \in Int
         /\ IsFiniteSet(split.hTo \ todo) /\ Turns \in Nat
<1>1. /\ households \in Seq(Address) /\ Once(households)
      /\ Keys(households) \subseteq Address /\ meterDelta \in [Address -> Int]
      /\ split.more \in BOOLEAN /\ split.eFrom \in Int /\ split.eTo \in Int
      /\ split.hFrom \subseteq Keys(households) /\ split.hTo \subseteq Keys(households)
      /\ todo \subseteq split.hTo /\ eAlloc \in Int
  BY Types DEF Inv, TypeOK, Split, LoopInv
<1>2. Left \in Int /\ Due \in Int
  <2>1. PICK i \in Int, j \in Int :
          /\ i = SumOver(households, Held(split.hFrom, meterDelta))
          /\ j = SumOver(households, Held(todo, meterDelta))
    BY <1>1, HeldInt
  <2>2. Left = Given(i) /\ Due = -Given(j)
    BY <2>1 DEF Left, Due
  <2> QED
    BY <1>1, <2>1, <2>2 DEF Given
<1>3. IsFiniteSet(split.hTo \ todo) /\ Turns \in Nat
  BY <1>1, KeysCounted DEF Turns
<1> QED
  BY <1>1, <1>2, <1>3

(* A sum over members whose entries, turned into givers' terms, are not    *)
(* negative, is not negative in these terms.                               *)
LEMMA GivenSum ==
  ASSUME NEW order \in Seq(Address), NEW d \in [Address -> Int], NEW S,
         split.more \in BOOLEAN
  PROVE  /\ (\A a \in S \cap Address : 0 <= Given(d[a]))
              => 0 <= Given(SumOver(order, Held(S, d)))
         /\ (\A a \in S \cap Address : 0 <= -Given(d[a]))
              => 0 <= -Given(SumOver(order, Held(S, d)))
<1>1. PICK v \in [Address -> Int] : v = Held(S, d)
  BY HeldInt
<1>2. PICK t \in Int : t = SumOver(order, v)
  BY SumInt
<1>3. /\ (\A a \in Address : v[a] <= 0) => t <= 0
      /\ (\A a \in Address : v[a] >= 0) => t >= 0
  BY <1>2, SumBelow, SumDominates DEF NonNegative
<1>4. ASSUME NEW a \in Address
      PROVE  /\ d[a] \in Int
             /\ a \in S => v[a] = d[a]
             /\ a \notin S => v[a] = 0
  <2>1. d[a] \in Int
    OBVIOUS
  <2>2. Held(S, d)[a] = IF a \in S THEN d[a] ELSE 0
    BY Zenon DEF Held
  <2> QED
    BY <1>1, <2>1, <2>2, Zenon
<1>g. ASSUME NEW x \in Int
      PROVE  /\ split.more => Given(x) = -x
             /\ ~split.more => Given(x) = x
  BY DEF Given
<1>5. ASSUME \A a \in S \cap Address : 0 <= Given(d[a]) PROVE 0 <= Given(t)
  <2>1. CASE split.more
    <3>1. ASSUME NEW a \in Address PROVE v[a] <= 0
      <4>1. a \in S => 0 <= Given(d[a])
        BY <1>5
      <4> QED
        BY <1>4, <1>g, <2>1, <4>1
    <3> QED
      BY <1>2, <1>3, <1>g, <2>1, <3>1
  <2>2. CASE ~split.more
    <3>1. ASSUME NEW a \in Address PROVE v[a] >= 0
      <4>1. a \in S => 0 <= Given(d[a])
        BY <1>5
      <4> QED
        BY <1>4, <1>g, <2>2, <4>1
    <3> QED
      BY <1>2, <1>3, <1>g, <2>2, <3>1
  <2> QED
    BY <2>1, <2>2
<1>6. ASSUME \A a \in S \cap Address : 0 <= -Given(d[a]) PROVE 0 <= -Given(t)
  <2>1. CASE split.more
    <3>1. ASSUME NEW a \in Address PROVE v[a] >= 0
      <4>1. a \in S => 0 <= -Given(d[a])
        BY <1>6
      <4> QED
        BY <1>4, <1>g, <2>1, <4>1
    <3> QED
      BY <1>2, <1>3, <1>g, <2>1, <3>1
  <2>2. CASE ~split.more
    <3>1. ASSUME NEW a \in Address PROVE v[a] <= 0
      <4>1. a \in S => 0 <= -Given(d[a])
        BY <1>6
      <4> QED
        BY <1>4, <1>g, <2>2, <4>1
    <3> QED
      BY <1>2, <1>3, <1>g, <2>2, <3>1
  <2> QED
    BY <2>1, <2>2
<1> QED
  BY <1>1, <1>2, <1>5, <1>6

LEMMA SettleSmall ==
  ASSUME Inv, settle
  PROVE  SmallInv'
<1>1. Inv' /\ SplitInv' /\ pc' = "distribute" /\ meterDelta' = before'
  BY SettleInv, SettleSplit DEF settle
<1>2. PICK f \in Int, t \in Int : f = split'.eFrom /\ t = split'.eTo
  BY <1>1 DEF Inv, TypeOK, Split
<1>3. /\ households' \in Seq(Address) /\ meterDelta' \in [Address -> Int]
      /\ split'.more \in BOOLEAN
      /\ 0 <= Given(f)' /\ Given(f)' <= -Given(t)'
  BY <1>1, <1>2 DEF Inv, TypeOK, Split, LoopInv, Given
<1>4. todo' = split'.hTo /\ eAlloc' = 0
  BY DEF settle, Inv, LoopInv
<1>5. /\ SumOver(households', Held(split'.hFrom, meterDelta')) = f
      /\ SumOver(households', Held(split'.hTo, meterDelta')) = t
  <2>1. split' = SplitOf(households', meterDelta')
    BY <1>1 DEF SplitInv
  <2> QED
    BY <1>2, <1>3, <2>1, SplitHolds
<1>6. Left' = Given(f)' /\ Due' = -Given(t)'
  BY <1>4, <1>5 DEF Left, Due, Given, Held
<1>7. Turns' = 0
  <2>1. split'.hTo \ todo' = {}
    BY <1>4
  <2> QED
    BY <2>1, FS_EmptySet DEF Turns
<1>8. PICK g \in Nat, h \in Nat : g = Given(f)' /\ h = -Given(t)'
  BY <1>2, <1>3 DEF Given
<1>9. Bounded(g, h, 0, g, h, 0)
  <2>1. h * (g - 0) = g * h /\ h * 0 = 0 /\ g <= h
    BY <1>3, <1>8
  <2>2. PICK y \in Int : y = g * h
    OBVIOUS
  <2> QED
    BY <2>1, <2>2 DEF Bounded
<1>10. Given(eAlloc)' = 0
  <2>1. PICK x \in Int : x = eAlloc' /\ x <= 0 /\ 0 <= x
    BY <1>4
  <2>2. Given(x)' = 0
    BY <2>1, GivenNothing
  <2>3. Given(eAlloc)' = Given(x)'
    BY <2>1 DEF Given
  <2> QED
    BY <2>2, <2>3
<1>11. Given(split.eFrom)' = g /\ (-Given(split.eTo))' = h
  BY <1>2, <1>8 DEF Given
<1> QED
  BY <1>1, <1>6, <1>7, <1>8, <1>9, <1>10, <1>11 DEF SmallInv

(* A turn: the share of a receiver that lacks m.                           *)
LEMMA BoundedTurn ==
  ASSUME NEW left \in Int, NEW due \in Int, NEW alloc \in Int, NEW f \in Int, NEW t \in Int,
         NEW n \in Nat, NEW m \in Int, NEW share \in Int,
         Bounded(left, due, alloc, f, t, n), alloc = 0 \/ left = 0,
         0 <= share, 0 <= due - m, 2 * (f * m) - 2 * (t * share) <= t
  PROVE  Bounded(left, due - m, share, f, t, n + 1)
<1>1. /\ 0 <= left /\ left <= f /\ f <= t /\ 0 <= alloc /\ 0 <= due
      /\ 2 * (t * (left - alloc)) - 2 * (f * due) <= t * n
  BY DEF Bounded
<1>2. PICK a \in Int, b \in Int, c \in Int, d \in Int, e \in Int :
        a = t * left /\ b = t * share /\ c = f * due /\ d = f * m /\ e = t * n
  OBVIOUS
<1>3. /\ t * (left - share) = a - b /\ f * (due - m) = c - d /\ t * (n + 1) = e + t
  BY <1>2
<1>4. CASE alloc = 0
  <2>1. t * (left - alloc) = a
    BY <1>2, <1>4
  <2>2. 2 * (a - b) - 2 * (c - d) <= e + t
    BY <1>1, <1>2, <2>1
  <2> QED
    BY <1>1, <1>3, <2>2 DEF Bounded
<1>5. CASE left = 0
  <2>1. a = 0 /\ b >= 0 /\ c - d >= 0 /\ e >= 0 /\ t >= 0
    <3>1. t * 0 = 0
      OBVIOUS
    <3>2. t >= 0 /\ f >= 0
      BY <1>1
    <3>3. t * share >= 0 /\ t * n >= 0 /\ f * (due - m) >= 0
      BY <3>2
    <3> QED
      BY <1>2, <1>3, <1>5, <3>1, <3>2, <3>3
  <2>2. 2 * (a - b) - 2 * (c - d) <= e + t
    BY <1>2, <2>1
  <2> QED
    BY <1>1, <1>3, <2>2 DEF Bounded
<1> QED
  BY <1>4, <1>5

LEMMA AllocateSmall ==
  ASSUME Inv, SplitInv, SmallInv, Allocate
  PROVE  SmallInv'
<1> DEFINE a == First(todo)
<1>1. /\ pc = "distribute" /\ pc' = pc /\ ShareDone /\ todo # {}
      /\ todo' = todo \ {a}
      /\ eAlloc' \in JsRound(split.eFrom * meterDelta[a], split.eTo)
      /\ UNCHANGED <<households, meterDelta, split, before>>
  BY DEF Allocate, store
<1>2. /\ households \in Seq(Address) /\ Once(households)
      /\ Keys(households) \subseteq Address
      /\ meterDelta \in [Address -> Int]
      /\ split.more \in BOOLEAN /\ split.eFrom \in Int /\ split.eTo \in Int
      /\ split.hFrom \subseteq Keys(households) /\ split.hTo \subseteq Keys(households)
      /\ todo \subseteq split.hTo /\ eAlloc \in Int
      /\ Left \in Int /\ Due \in Int
      /\ IsFiniteSet(split.hTo \ todo) /\ Turns \in Nat
  BY <1>1, SmallTypes
<1>3. a \in todo
  BY <1>1, <1>2, FirstIn
<1> HIDE DEF a
<1>4. /\ a \in Keys(households) /\ a \in Address /\ meterDelta[a] \in Int
      /\ meterDelta[a] # 0 /\ 0 <= -Given(meterDelta[a])
      /\ -Given(meterDelta[a]) <= -Given(split.eTo)
      /\ \A b \in todo : 0 <= -Given(meterDelta[b])
  BY <1>1, <1>2, <1>3 DEF Inv, LoopInv
<1>5. split.eTo # 0
  BY <1>2, <1>4 DEF Given
<1>6. Bounded(Left, Due, Given(eAlloc), Given(split.eFrom), -Given(split.eTo), Turns)
  BY <1>1 DEF SmallInv
<1>7. PICK m \in Int, share \in Int, f \in Int, t \in Int :
        /\ m = -Given(meterDelta[a]) /\ share = Given(eAlloc')
        /\ f = Given(split.eFrom) /\ t = -Given(split.eTo)
  <2>1. eAlloc' \in Int
    <3>1. split.eFrom * meterDelta[a] \in Int
      BY <1>2, <1>4
    <3> QED
      BY <1>1, <1>2, <1>5, <3>1, ShareClose
  <2>2. /\ -Given(meterDelta[a]) \in Int /\ Given(eAlloc') \in Int
        /\ Given(split.eFrom) \in Int /\ -Given(split.eTo) \in Int
    BY <1>2, <1>4, <2>1 DEF Given
  <2> QED
    BY <2>2
<1>8. 2 * (f * m) - 2 * (t * share) <= t
  <2>1. PICK p \in Int, q \in Int, r \in Int, e \in Int :
          p = split.eFrom * meterDelta[a] /\ q = split.eTo /\ r = eAlloc' /\ e = split.eFrom
    BY <1>1, <1>2, <1>4, <1>5, ShareClose
  <2>2. /\ 2 * (q * r) - 2 * p <= Magnitude(q) /\ 2 * p - 2 * (q * r) <= Magnitude(q)
    BY <1>1, <1>4, <1>5, <2>1, ShareClose
  <2>3. PICK d \in Int : d = meterDelta[a]
    BY <1>4
  <2>4. p = e * d
    BY <2>1, <2>3
  <2>5. CASE split.more
    <3>0. /\ Given(d) = -d /\ Given(r) = -r /\ Given(e) = -e /\ Given(q) = -q
      BY <2>5 DEF Given
    <3>1. m = d /\ share = -r /\ f = -e /\ t = q
      BY <1>7, <2>1, <2>3, <3>0
    <3>2. q > 0
      BY <1>4, <1>5, <1>7, <2>1, <3>1
    <3>3. Magnitude(q) = q
      BY <3>2 DEF Magnitude
    <3>4. f * m = -p /\ t * share = -(q * r)
      BY <2>4, <3>1
    <3>5. q * r \in Int
      OBVIOUS
    <3> QED
      BY <2>2, <3>1, <3>3, <3>4, <3>5
  <2>6. CASE ~split.more
    <3>0. /\ Given(d) = d /\ Given(r) = r /\ Given(e) = e /\ Given(q) = q
      BY <2>6 DEF Given
    <3>1. m = -d /\ share = r /\ f = e /\ t = -q
      BY <1>7, <2>1, <2>3, <3>0
    <3>2. q < 0
      BY <1>4, <1>5, <1>7, <2>1, <3>1
    <3>3. Magnitude(q) = -q
      BY <3>2 DEF Magnitude
    <3>4. f * m = -p /\ t * share = -(q * r)
      BY <2>4, <3>1
    <3>5. q * r \in Int
      OBVIOUS
    <3> QED
      BY <2>2, <3>1, <3>3, <3>4, <3>5
  <2> QED
    BY <1>2, <2>5, <2>6
<1>9. Left' = Left
  BY <1>1 DEF Left, Given, Held
<1>10. Due' = Due - m /\ 0 <= Due - m
  <2>1. PICK i \in Int, j \in Int :
          /\ i = SumOver(households, Held(todo, meterDelta))
          /\ j = SumOver(households, Held(todo \ {a}, meterDelta))
    BY <1>2, HeldInt
  <2>2. j = i - meterDelta[a]
    <3>1. todo \in SUBSET Address
      BY <1>2
    <3> QED
      BY <1>2, <1>3, <1>4, <2>1, <3>1, HeldWithout
  <2>3. Due = -Given(i) /\ Due' = -Given(j)
    BY <1>1, <2>1 DEF Due, Given, Held
  <2>4. Due' = Due - m
    BY <1>2, <1>4, <1>7, <2>2, <2>3 DEF Given
  <2>5. 0 <= -Given(j)
    BY <1>2, <1>4, <2>1, GivenSum
  <2> QED
    BY <2>3, <2>4, <2>5
<1>11. Turns' = Turns + 1
  <2>1. split.hTo \ (todo \ {a}) = (split.hTo \ todo) \cup {a} /\ a \notin split.hTo \ todo
    BY <1>2, <1>3
  <2>2. Turns' = Cardinality(split.hTo \ (todo \ {a}))
    BY <1>1 DEF Turns
  <2> QED
    BY <1>2, <2>1, <2>2, FS_AddElement DEF Turns
<1>12. Given(eAlloc) = 0 \/ Left = 0
  <2>1. CASE eAlloc = 0
    BY <1>2, <2>1, GivenNothing
  <2>2. CASE Sources = {}
    <3>1. SumOver(households, Held(split.hFrom, meterDelta)) = 0
      <4>1. \A b \in split.hFrom : meterDelta[b] = 0
        BY <2>2 DEF Sources
      <4> QED
        BY <1>2, <4>1, HeldNone
    <3>2. PICK x \in Int : x = SumOver(households, Held(split.hFrom, meterDelta))
      BY <3>1
    <3>3. x <= 0 /\ 0 <= x
      BY <3>1, <3>2
    <3>4. Given(x) = 0
      BY <3>3, GivenNothing
    <3> QED
      BY <3>2, <3>4 DEF Left
  <2> QED
    BY <1>1, <2>1, <2>2 DEF ShareDone
<1>13. 0 <= share
  <2>1. Inv' /\ pc' = "distribute"
    BY <1>1, AllocateInv
  <2>2. 0 <= Given(eAlloc)'
    BY <2>1 DEF Inv, LoopInv
  <2> QED
    BY <1>1, <1>7, <2>2 DEF Given
<1>14. Bounded(Left, Due - m, share, f, t, Turns + 1)
  <2>1. PICK al \in Int : al = Given(eAlloc)
    BY <1>2 DEF Given
  <2>2. Bounded(Left, Due, al, f, t, Turns) /\ (al = 0 \/ Left = 0)
    BY <1>6, <1>7, <1>12, <2>1
  <2> QED
    BY <1>2, <1>8, <1>10, <1>13, <2>2, BoundedTurn
<1>15. /\ Given(eAlloc)' = share /\ Given(split.eFrom)' = f /\ (-Given(split.eTo))' = t
  BY <1>1, <1>7 DEF Given
<1> QED
  BY <1>1, <1>9, <1>10, <1>11, <1>14, <1>15 DEF SmallInv

(* What is given is no longer on its way.                                  *)
LEMMA BoundedMove ==
  ASSUME NEW left \in Int, NEW due \in Int, NEW alloc \in Int, NEW f \in Int, NEW t \in Int,
         NEW n \in Nat, NEW g \in Int, Bounded(left, due, alloc, f, t, n),
         0 <= g, 0 <= left - g, 0 <= alloc - g
  PROVE  Bounded(left - g, due, alloc - g, f, t, n)
<1>1. (left - g) - (alloc - g) = left - alloc
  OBVIOUS
<1>2. 2 * (t * ((left - g) - (alloc - g))) - 2 * (f * due) <= t * n
  BY <1>1 DEF Bounded
<1>3. left - g <= f
  BY DEF Bounded
<1> QED
  BY <1>2, <1>3 DEF Bounded

(* What a source gives is on its way no more.                              *)
LEMMA GiveSmall ==
  ASSUME Inv, SmallInv, Give
  PROVE  SmallInv'
<1> DEFINE a == First(Sources)
           x == Amount(eAlloc, meterDelta[a])
<1>1. /\ pc = "distribute" /\ pc' = pc /\ eAlloc # 0 /\ Sources # {}
      /\ _transfer(a, to, x) /\ eAlloc' = eAlloc - x
      /\ UNCHANGED <<households, split, todo, to, before>>
  BY DEF Give, ShareDone
<1>2. /\ households \in Seq(Address) /\ Once(households)
      /\ Keys(households) \subseteq Address
      /\ meterDelta \in [Address -> Int]
      /\ split.more \in BOOLEAN /\ split.eFrom \in Int /\ split.eTo \in Int
      /\ split.hFrom \subseteq Keys(households) /\ split.hTo \subseteq Keys(households)
      /\ todo \subseteq split.hTo /\ eAlloc \in Int
      /\ Left \in Int /\ Due \in Int /\ Turns \in Nat
  BY <1>1, SmallTypes
<1>3. a \in Sources
  <2>1. Sources \in SUBSET Keys(households)
    BY <1>2 DEF Sources
  <2> QED
    BY <1>1, <1>2, <2>1, FirstIn
<1> HIDE DEF a
<1>4. /\ a \in split.hFrom /\ a \in Keys(households) /\ a \in Address
      /\ to \in split.hTo /\ to \notin todo /\ to \in Keys(households) /\ a # to
      /\ split.hFrom \cap split.hTo = {} /\ meterDelta[a] \in Int
  BY <1>1, <1>2, <1>3 DEF Inv, LoopInv, Sources
<1>5. x \in Int
  BY <1>2, <1>4 DEF Amount
<1> HIDE DEF x
<1>6. /\ meterDelta' \in [Address -> Int] /\ meterDelta'[a] = meterDelta[a] - x
      /\ \A c \in Address : c # a /\ c # to => meterDelta'[c] = meterDelta[c]
  BY <1>1, <1>4, <1>5, TransferFacts DEF Inv
<1>7. Inv' /\ pc' = "distribute"
  BY <1>1, GiveInv
<1>8. PICK g \in Int, al \in Int, f \in Int, t \in Int :
        /\ g = Given(x) /\ al = Given(eAlloc)
        /\ f = Given(split.eFrom) /\ t = -Given(split.eTo)
  <2>1. /\ Given(x) \in Int /\ Given(eAlloc) \in Int
        /\ Given(split.eFrom) \in Int /\ -Given(split.eTo) \in Int
    BY <1>2, <1>5 DEF Given
  <2> QED
    BY <2>1
<1>9. Left' = Left - g /\ 0 <= Left - g
  <2>1. PICK i \in Int, j \in Int :
          /\ i = SumOver(households, Held(split.hFrom, meterDelta))
          /\ j = SumOver(households, Held(split.hFrom, meterDelta'))
    BY <1>2, <1>6, HeldInt
  <2>2. j = i - x
    <3>1. Gives(households, split.hFrom, meterDelta, meterDelta', a, x)
      BY <1>2, <1>4, <1>5, <1>6 DEF Gives
    <3> QED
      BY <2>1, <3>1, HeldGives
  <2>3. Left = Given(i) /\ Left' = Given(j)
    BY <1>1, <2>1 DEF Left, Given, Held
  <2>4. Left' = Left - g
    BY <1>2, <1>5, <1>8, <2>2, <2>3 DEF Given
  <2>5. \A b \in split.hFrom : 0 <= Given(meterDelta'[b])
    BY <1>1, <1>7 DEF Inv, LoopInv, Given
  <2>6. 0 <= Given(j)
    <3>1. PICK d \in [Address -> Int] : d = meterDelta'
      BY <1>6
    <3>2. \A b \in split.hFrom \cap Address : 0 <= Given(d[b])
      BY <2>5, <3>1
    <3>3. 0 <= Given(SumOver(households, Held(split.hFrom, d)))
      BY <1>2, <3>2, GivenSum
    <3> QED
      BY <2>1, <3>1, <3>3
  <2> QED
    BY <2>3, <2>4, <2>6
<1>10. Due' = Due
  <2>1. \A b \in todo : b \in Address /\ b # a /\ b # to
    BY <1>2, <1>4
  <2>2. todo \in SUBSET Address
    BY <2>1
  <2>3. Held(todo, meterDelta') = Held(todo, meterDelta)
    BY <1>2, <1>6, <2>1, <2>2, HeldSame
  <2>4. Due' = -Given(SumOver(households, Held(todo, meterDelta')))
    BY <1>1 DEF Due, Given, Held
  <2> QED
    BY <2>3, <2>4 DEF Due
<1>11. Turns' = Turns
  BY <1>1 DEF Turns
<1>12. Given(eAlloc)' = al - g /\ 0 <= al - g
  <2>1. 0 <= Given(eAlloc)'
    BY <1>7 DEF Inv, LoopInv
  <2>2. Given(eAlloc)' = al - g
    BY <1>1, <1>2, <1>5, <1>8 DEF Given
  <2> QED
    BY <2>1, <2>2
<1>13. 0 <= g
  BY <1>1, <1>2, <1>4, <1>8 DEF Given, Amount, Magnitude, Inv, LoopInv, x
<1>14. Bounded(Left - g, Due, al - g, f, t, Turns)
  <2>1. Bounded(Left, Due, al, f, t, Turns)
    BY <1>1, <1>8 DEF SmallInv
  <2>2. 0 <= g /\ 0 <= Left - g /\ 0 <= al - g
    BY <1>9, <1>12, <1>13
  <2> QED
    BY <1>2, <1>8, <2>1, <2>2, BoundedMove
<1>15. Given(split.eFrom)' = f /\ (-Given(split.eTo))' = t
  BY <1>1, <1>8 DEF Given
<1> QED
  BY <1>1, <1>9, <1>10, <1>11, <1>12, <1>14, <1>15 DEF SmallInv

(* Everybody has had its turn and nothing is on its way: half a unit each. *)
LEMMA ResplitSmall ==
  ASSUME Inv, SplitInv, SmallInv, Resplit
  PROVE  SmallInv'
<1> DEFINE first == SplitOf(households, before)
<1>1. /\ pc = "distribute" /\ pc' = "rest" /\ ShareDone /\ todo = {}
      /\ UNCHANGED <<households, meterDelta, before>>
  BY DEF Resplit, store
<1>2. /\ households \in Seq(Address) /\ Keys(households) \subseteq Address
      /\ meterDelta \in [Address -> Int] /\ before \in [Address -> Int]
      /\ split.more \in BOOLEAN /\ split.eFrom \in Int /\ split.eTo \in Int
      /\ split.hFrom \subseteq Keys(households) /\ split.hTo \subseteq Keys(households)
      /\ eAlloc \in Int /\ Left \in Int /\ Turns \in Nat
  BY <1>1, SmallTypes, Types DEF Inv
<1>3. split = first
  BY <1>1 DEF SplitInv
<1>4. /\ split'.more = first.more /\ split'.hFrom \subseteq first.hFrom
      /\ \A a \in first.hFrom : meterDelta[a] # 0 => a \in split'.hFrom
  <2>1. SplitInv' /\ pc' = "rest"
    BY <1>1, ResplitSplit
  <2> QED
    BY <1>1, <2>1 DEF SplitInv, SameSides
<1>5. Receivers' = split.hTo
  <2>1. \A a \in Address : a \notin Keys(households) => before[a] = 0
    <3>1. \A a \in Address : a \notin Keys(households) =>
            meterDelta[a] = 0 /\ meterDelta[a] = before[a]
      BY <1>1, <1>2 DEF Inv, TypeOK, LoopInv
    <3> QED
      BY <3>1
  <2>2. split.hTo = {a \in Keys(households) : IF split.more THEN before[a] > 0
                                              ELSE before[a] < 0}
    <3> HIDE DEF first
    <3>1. /\ first.more =>
               first.hTo = {a \in Keys(households) : before[a] > 0}
          /\ ~first.more =>
               first.hTo = {a \in Keys(households) : before[a] < 0}
      BY <1>2, SplitFacts DEF first
    <3> QED
      BY <1>2, <1>3, <3>1
  <2>3. Receivers' = {a \in Address : IF split.more THEN before[a] > 0
                                      ELSE before[a] < 0}
    BY <1>1, <1>3, <1>4 DEF Receivers
  <2> QED
    BY <1>2, <2>1, <2>2, <2>3
<1>6. Left' = Left
  <2> HIDE DEF first
  <2>1. Held(split'.hFrom, meterDelta) = Held(split.hFrom, meterDelta)
    BY <1>2, <1>3, <1>4 DEF Held
  <2>2. Left' = Given(SumOver(households, Held(split'.hFrom, meterDelta)))
    BY <1>1, <1>3, <1>4 DEF Left, Given, Held
  <2> QED
    BY <2>1, <2>2 DEF Left
<1>7. 2 * Left <= Turns
  <2>1. PICK al \in Int, f \in Int, t \in Int :
          al = Given(eAlloc) /\ f = Given(split.eFrom) /\ t = -Given(split.eTo)
    <3>1. /\ Given(eAlloc) \in Int
          /\ Given(split.eFrom) \in Int /\ -Given(split.eTo) \in Int
      BY <1>2 DEF Given
    <3> QED
      BY <3>1
  <2>2. Due = 0
    <3>1. PICK i : i = SumOver(households, Held(todo, meterDelta))
      OBVIOUS
    <3>2. i \in Int /\ i <= 0 /\ 0 <= i
      BY <1>1, <1>2, <3>1, HeldNone
    <3>3. Given(i) = 0 /\ Due = -Given(i)
      BY <3>1, <3>2, GivenNothing DEF Due
    <3>4. Given(-i) = 0 /\ Given(-i) = -Given(i)
      BY <3>2 DEF Given
    <3> QED
      BY <3>3, <3>4
  <2>3. Bounded(Left, 0, al, f, t, Turns)
    BY <1>1, <2>1, <2>2 DEF SmallInv
  <2>4. al = 0 \/ Left = 0
    <3>1. CASE eAlloc = 0
      BY <1>2, <2>1, <3>1, GivenNothing
    <3>2. CASE Sources = {}
      <4>1. SumOver(households, Held(split.hFrom, meterDelta)) = 0
        BY <1>2, <3>2, HeldNone DEF Sources
      <4>2. PICK y \in Int : y = SumOver(households, Held(split.hFrom, meterDelta))
        BY <4>1
      <4>3. y <= 0 /\ 0 <= y
        BY <4>1, <4>2
      <4>4. Given(y) = 0
        BY <4>3, GivenNothing
      <4> QED
        BY <4>2, <4>4 DEF Left
    <3> QED
      BY <1>1, <3>1, <3>2 DEF ShareDone
  <2>5. CASE Left = 0
    BY <1>2, <2>5
  <2>6. CASE al = 0
    <3>1. /\ 2 * (t * (Left - al)) - 2 * (f * 0) <= t * Turns
          /\ 0 <= Left /\ Left <= f /\ f <= t
      BY <2>3 DEF Bounded
    <3>2. Left - al = Left /\ f * 0 = 0
      BY <1>2, <2>6
    <3>3. PICK y \in Int, z \in Int : y = t * Left /\ z = t * Turns
      BY <1>2
    <3>4. 2 * y <= z
      BY <3>1, <3>2, <3>3
    <3>5. CASE t > 0
      <4>1. \A i, j, k \in Int : k > 0 /\ 2 * (k * i) <= k * j => 2 * i <= j
        OBVIOUS
      <4> QED
        BY <1>2, <3>3, <3>4, <3>5, <4>1
    <3>6. CASE ~(t > 0)
      BY <1>2, <3>1, <3>6
    <3> QED
      BY <3>5, <3>6
  <2> QED
    BY <2>4, <2>5, <2>6
<1>8. Turns = Cardinality(split.hTo)
  <2>1. split.hTo \ todo = split.hTo
    BY <1>1
  <2> QED
    BY <2>1 DEF Turns
<1> QED
  BY <1>1, <1>2, <1>5, <1>6, <1>7, <1>8 DEF SmallInv

(* One unit of the rest: whoever draws it gets it, the givers have one     *)
(* less.                                                                   *)
LEMMA RestStep ==
  ASSUME Inv, TransferRest
  PROVE  \E b \in RestTargets :
           /\ b \in split.hTo /\ b \in Address
           /\ Given(meterDelta'[b]) = Given(meterDelta[b]) + 1
           /\ \A c \in Address \ split.hFrom : c # b => meterDelta'[c] = meterDelta[c]
           /\ Left' = Left - 1
<1> DEFINE a == First(Sources)
           x == IF split.more THEN -1 ELSE 1
<1>1. /\ pc = "rest" /\ pc' = pc /\ Sources # {}
      /\ UNCHANGED <<households, split, before>>
  BY DEF TransferRest
<1>2. PICK b \in RestTargets : _transfer(a, b, x)
  BY DEF TransferRest
<1>3. /\ households \in Seq(Address) /\ Once(households)
      /\ Keys(households) \subseteq Address
      /\ meterDelta \in [Address -> Int] /\ split.more \in BOOLEAN
      /\ split.hFrom \subseteq Keys(households) /\ split.hTo \subseteq Keys(households)
      /\ Left \in Int
  BY <1>1, SmallTypes
<1>4. a \in Sources
  <2>1. Sources \in SUBSET Keys(households)
    BY <1>3 DEF Sources
  <2> QED
    BY <1>1, <1>3, <2>1, FirstIn
<1> HIDE DEF a
<1>5. /\ a \in split.hFrom /\ a \in Keys(households)
      /\ b \in split.hTo /\ b \in Keys(households) /\ a # b
      /\ split.hFrom \cap split.hTo = {}
  BY <1>1, <1>2, <1>3, <1>4 DEF Inv, LoopInv, Sources, RestTargets
<1>6. x \in Int /\ Given(x) = 1
  <2>1. PICK y \in Int : y = x
    OBVIOUS
  <2>2. IF split.more THEN y <= -1 /\ -1 <= y ELSE y = 1
    BY <1>3, <2>1
  <2> HIDE DEF x
  <2>3. Given(y) = 1
    BY <1>3, <2>2 DEF Given
  <2> QED
    BY <2>1, <2>3
<1> HIDE DEF x
<1>7. /\ meterDelta' \in [Address -> Int] /\ meterDelta'[a] = meterDelta[a] - x
      /\ \A c \in Address : c # a /\ c # b => meterDelta'[c] = meterDelta[c]
  BY <1>2, <1>5, <1>6, TransferFacts DEF Inv
<1>8. Left' = Left - 1
  <2>1. PICK i \in Int, j \in Int :
          /\ i = SumOver(households, Held(split.hFrom, meterDelta))
          /\ j = SumOver(households, Held(split.hFrom, meterDelta'))
    BY <1>3, <1>7, HeldInt
  <2>2. j = i - x
    <3>1. Gives(households, split.hFrom, meterDelta, meterDelta', a, x)
      BY <1>3, <1>5, <1>6, <1>7 DEF Gives
    <3> QED
      BY <2>1, <3>1, HeldGives
  <2>3. Left = Given(i) /\ Left' = Given(j)
    BY <1>1, <2>1 DEF Left, Given, Held
  <2> QED
    BY <1>3, <1>6, <2>2, <2>3 DEF Given
<1>9. Given(meterDelta'[b]) = Given(meterDelta[b]) + 1
  <2>1. /\ meterDelta'[b] = meterDelta[b] + x
        /\ meterDelta[b] \in Int
    BY <1>2, <1>3, <1>5, <1>6, TransferFacts DEF Inv
  <2> QED
    BY <1>3, <1>6, <2>1 DEF Given
<1> QED
  BY <1>3, <1>5, <1>7, <1>8, <1>9

LEMMA TransferRestSmall ==
  ASSUME Inv, SmallInv, TransferRest
  PROVE  SmallInv'
<1>1. pc = "rest" /\ pc' = pc /\ UNCHANGED <<split, before>>
  BY DEF TransferRest
<1>2. Left' = Left - 1 /\ Left \in Int
  BY <1>1, RestStep, SmallTypes
<1>3. /\ 2 * Left <= Cardinality(Receivers) /\ Cardinality(Receivers) \in Nat
      /\ Receivers' = Receivers
  BY <1>1 DEF SmallInv, Receivers
<1> QED
  BY <1>1, <1>2, <1>3 DEF SmallInv

LEMMA NextSmall ==
  ASSUME Inv, SplitInv, SmallInv, [Next]_vars
  PROVE  SmallInv'
<1>1. CASE pc' = "idle"
  BY <1>1 DEF SmallInv
<1>2. CASE \E a \in Address : addHousehold(a)
  BY <1>1, <1>2 DEF addHousehold
<1>3. CASE \E a \in Address, d \in Deltas : updateMeterDelta(a, d)
  BY <1>1, <1>3 DEF updateMeterDelta
<1>4. CASE getHouseholdAddressesProducers
  BY <1>1, <1>4 DEF getHouseholdAddressesProducers
<1>5. CASE settle
  BY <1>5, SettleSmall
<1>6. CASE Settling
  <2>1. CASE Return
    BY <1>1, <2>1 DEF Return
  <2> QED
    BY <1>6, <2>1, AllocateSmall, GiveSmall, ResplitSmall, TransferRestSmall DEF Settling
<1>7. CASE UNCHANGED vars
  <2>1. UNCHANGED <<households, meterDelta, pc, split, todo, eAlloc, before>>
    BY <1>7 DEF vars, store, locals
  <2> QED
    BY <2>1 DEF SmallInv, Left, Due, Turns, Given, Held, Receivers
<1> QED
  BY <1>2, <1>3, <1>4, <1>5, <1>6, <1>7 DEF Next

LEMMA SmallRest ==
  ASSUME Inv, SmallInv
  PROVE  RestIsSmall
<1> SUFFICES ASSUME pc = "rest"
             PROVE  2 * Magnitude(SumOver(households, Held(split.hFrom, meterDelta)))
                      <= Cardinality(Receivers)
  BY DEF RestIsSmall, Held
<1>1. /\ households \in Seq(Address) /\ meterDelta \in [Address -> Int]
      /\ split.more \in BOOLEAN
  BY SmallTypes
<1>2. PICK i \in Int : i = SumOver(households, Held(split.hFrom, meterDelta))
  BY <1>1, HeldInt
<1>3. 0 <= Given(i) /\ Left = Given(i)
  <2>1. \A a \in split.hFrom \cap Address : 0 <= Given(meterDelta[a])
    BY DEF Inv, LoopInv
  <2> QED
    BY <1>1, <1>2, <2>1, GivenSum DEF Left
<1>4. Magnitude(i) = Given(i)
  BY <1>1, <1>2, <1>3 DEF Magnitude, Given
<1> QED
  BY <1>2, <1>3, <1>4 DEF SmallInv

(* What rounding leaves to _transferRest (utility.js:204) is at most half  *)
(* a unit for each household that receives: its loop, which draws one unit *)
(* at a time, is short however much energy is netted.                      *)
THEOREM RestAlwaysSmall == Spec => []RestIsSmall
<1>1. Init => SmallInv
  BY DEF Init, SmallInv
<1> QED
  BY <1>1, NextSmall, SmallRest, AlwaysInv, AlwaysSplit, PTL DEF Spec

-----------------------------------------------------------------------------
(* The log of the transfers                                                *)

(* One key more at the end adds its entry.                                 *)
Extends(S, order, longer) ==
  /\ order \in Seq(S) /\ longer \in Seq(S)
  /\ Len(longer) = Len(order) + 1
  /\ \A k \in 1..Len(order) : longer[k] = order[k]

LEMMA SumExtended ==
  ASSUME NEW S, NEW order, NEW longer, Extends(S, order, longer), NEW v \in [S -> Int]
  PROVE  SumOver(longer, v) = SumOver(order, v) + v[longer[Len(longer)]]
<1> DEFINE N == Len(order)
<1>0. /\ N \in Nat /\ order \in Seq(S) /\ longer \in Seq(S) /\ Len(longer) = N + 1
      /\ \A k \in 1..N : longer[k] = order[k]
  BY DEF Extends
<1>1. PICK f : Partial(order, v, N, f) /\ SumOver(order, v) = f[N]
  BY <1>0, SumIsPartial
<1>2. PICK g : Partial(longer, v, N + 1, g) /\ SumOver(longer, v) = g[N + 1]
  BY <1>0, SumIsPartial
<1> DEFINE P == {k \in 0..N : f[k] = g[k]}
<1>3. 0 \in P
  BY <1>0, <1>1, <1>2 DEF Partial
<1>4. ASSUME NEW k \in 1..N, k - 1 \in P PROVE k \in P
  <2>1. f[k] = f[k - 1] + v[order[k]]
    BY <1>1 DEF Partial
  <2>2. k \in 1..(N + 1)
    BY <1>0
  <2>3. g[k] = g[k - 1] + v[longer[k]]
    BY <1>2, <2>2 DEF Partial
  <2> QED
    BY <1>0, <1>4, <2>1, <2>3
<1>5. P = 0..N
  <2>1. P \in SUBSET (0..N)
    OBVIOUS
  <2> HIDE DEF P
  <2> QED
    BY <1>0, <1>3, <1>4, <2>1, UpTo
<1>6. f[N] = g[N]
  BY <1>0, <1>5
<1>7. g[N + 1] = g[N] + v[longer[N + 1]]
  <2>1. N + 1 \in 1..(N + 1) /\ (N + 1) - 1 = N
    BY <1>0
  <2>2. g[N + 1] = g[(N + 1) - 1] + v[longer[N + 1]]
    BY <1>2, <2>1 DEF Partial
  <2> QED
    BY <2>1, <2>2
<1> QED
  BY <1>0, <1>1, <1>2, <1>6, <1>7

Transferred == [from : Address, to : Address, amount : Nat]
Log == Seq(Transferred)
Ends == {"from", "to"}

(* Recorded, of any log.                                                   *)
Since(log, n) == [k \in 1..(Len(log) - n) |-> n + k]
Parts(log, end, a) == [k \in 1..Len(log) |-> IF log[k][end] = a THEN log[k].amount ELSE 0]

LEMMA LogTypes ==
  ASSUME NEW log \in Log, NEW n \in Nat, n <= Len(log), NEW end \in Ends, NEW a
  PROVE  /\ Since(log, n) \in Seq(1..Len(log)) /\ Len(Since(log, n)) = Len(log) - n
         /\ Parts(log, end, a) \in [1..Len(log) -> Int]
<1>1. Len(log) \in Nat /\ Len(log) - n \in Nat
  BY DEF Log
<1>2. \A k \in 1..Len(log) : log[k].amount \in Int
  <2>1. \A k \in 1..Len(log) : log[k] \in Transferred
    BY DEF Log
  <2> QED
    BY <2>1 DEF Transferred
<1>3. Since(log, n) \in [1..(Len(log) - n) -> 1..Len(log)]
  BY <1>1 DEF Since
<1>4. Since(log, n) \in Seq(1..Len(log)) /\ Len(Since(log, n)) = Len(log) - n
  BY <1>1, <1>3
<1> QED
  BY <1>2, <1>4 DEF Parts

(* Nothing has been recorded since the end of the log.                     *)
LEMMA NothingRecorded ==
  ASSUME NEW log \in Log, NEW end \in Ends, NEW a
  PROVE  SumOver(Since(log, Len(log)), Parts(log, end, a)) = 0
<1> DEFINE n == Len(log)
           o == Since(log, n)
           v == Parts(log, end, a)
<1>1. n \in Nat /\ n <= n
  BY DEF Log
<1>2. o \in Seq(1..n) /\ Len(o) = 0 /\ v \in [1..n -> Int]
  BY <1>1, LogTypes
<1> HIDE DEF n, o, v
<1>3. PICK f : Partial(o, v, 0, f) /\ SumOver(o, v) = f[0]
  BY <1>2, SumIsPartial
<1> QED
  BY <1>3 DEF Partial, n, o, v

(* One transfer more counts at its two ends.                               *)
LEMMA OneRecorded ==
  ASSUME NEW log \in Log, NEW n \in Nat, n <= Len(log), NEW end \in Ends, NEW a,
         NEW t \in Transferred
  PROVE  LET more == Append(log, t)
         IN  SumOver(Since(more, n), Parts(more, end, a))
               = SumOver(Since(log, n), Parts(log, end, a))
                   + (IF t[end] = a THEN t.amount ELSE 0)
<1>0. PICK more : more = Append(log, t)
  OBVIOUS
<1> DEFINE N == Len(log)
           o == Since(log, n)
           p == Since(more, n)
           v == Parts(log, end, a)
           w == Parts(more, end, a)
<1>1. /\ N \in Nat /\ more \in Log /\ Len(more) = N + 1 /\ more[N + 1] = t
      /\ \A k \in 1..N : more[k] = log[k]
  BY <1>0 DEF Log
<1>2. o \in Seq(1..N) /\ Len(o) = N - n /\ v \in [1..N -> Int]
  BY LogTypes
<1>3. p \in Seq(1..(N + 1)) /\ Len(p) = N + 1 - n /\ w \in [1..(N + 1) -> Int]
  <2>1. n <= Len(more)
    BY <1>1
  <2>2. /\ Since(more, n) \in Seq(1..Len(more)) /\ Len(Since(more, n)) = Len(more) - n
        /\ Parts(more, end, a) \in [1..Len(more) -> Int]
    BY <1>1, <2>1, LogTypes
  <2> QED
    BY <1>1, <2>2
<1>4. o \in Seq(1..(N + 1))
  BY <1>1, <1>2
<1>5. \A k \in 1..(N - n) : p[k] = o[k] /\ o[k] = n + k
  BY <1>1 DEF Since
<1>6. p[N + 1 - n] = N + 1
  BY <1>1 DEF Since
<1>7. \A k \in 1..N : w[k] = v[k]
  BY <1>1 DEF Parts
<1>8. w[N + 1] = IF t[end] = a THEN t.amount ELSE 0
  BY <1>1 DEF Parts
<1> HIDE DEF o, p, v, w
<1>9. SumOver(o, w) = SumOver(o, v)
  <2>1. \A k \in Keys(o) : w[k] = v[k]
    BY <1>1, <1>2, <1>5, <1>7 DEF Keys
  <2>2. SameOn(1..(N + 1), 1..N, o, w, v)
    BY <1>2, <1>3, <1>4, <2>1 DEF SameOn
  <2> QED
    BY <2>2, SumOnKeys
<1>10. SumOver(p, w) = SumOver(o, w) + w[N + 1]
  <2>1. Extends(1..(N + 1), o, p)
    BY <1>1, <1>2, <1>3, <1>4, <1>5 DEF Extends
  <2> DEFINE S == 1..(N + 1)
  <2>2. Extends(S, o, p) /\ w \in [S -> Int]
    BY <1>3, <2>1
  <2> HIDE DEF S
  <2>3. SumOver(p, w) = SumOver(o, w) + w[p[Len(p)]]
    BY <2>2, SumExtended
  <2> QED
    BY <1>3, <1>6, <2>3
<1> QED
  BY <1>0, <1>8, <1>9, <1>10 DEF o, p, v, w

(* The log, from its nth entry on, accounts for the way from b to d.       *)
Explains(b, d, log, n) ==
  \A a \in Address :
    Magnitude(b[a]) - Magnitude(d[a]) =
      SumOver(Since(log, n), Parts(log, "from", a))
        + SumOver(Since(log, n), Parts(log, "to", a))

ExplainInv ==
  pc = "distribute" =>
    mark <= Len(transfers) /\ Explains(before, meterDelta, transfers, mark)

LEMMA ExplainsTransfers ==
  ASSUME ExplainInv
  PROVE  TransfersExplain
BY DEF ExplainInv, TransfersExplain, Explains, Recorded, Since, Parts

LEMMA SettleExplain ==
  ASSUME Inv, settle
  PROVE  ExplainInv'
<1>1. /\ pc' = "distribute" /\ meterDelta' = before' /\ transfers' = transfers
      /\ mark' = Len(transfers) /\ transfers \in Log /\ before' \in [Address -> Int]
  BY Types DEF settle, Inv, TypeOK, Log, Transferred
<1>2. Len(transfers) \in Nat
  BY <1>1 DEF Log
<1>3. Explains(before', before', transfers, Len(transfers))
  <2>1. \A a \in Address : Magnitude(before'[a]) - Magnitude(before'[a]) = 0
    BY <1>1 DEF Magnitude
  <2>2. \A a \in Address :
          /\ SumOver(Since(transfers, Len(transfers)), Parts(transfers, "from", a)) = 0
          /\ SumOver(Since(transfers, Len(transfers)), Parts(transfers, "to", a)) = 0
    BY <1>1, NothingRecorded DEF Ends
  <2> QED
    BY <2>1, <2>2 DEF Explains
<1> QED
  BY <1>1, <1>2, <1>3 DEF ExplainInv

(* What a source gives is what it holds less, what its receiver lacks      *)
(* less, and what is recorded of both.                                     *)
LEMMA GiveExplain ==
  ASSUME Inv, ExplainInv, Give
  PROVE  ExplainInv'
<1> DEFINE a == First(Sources)
           x == Amount(eAlloc, meterDelta[a])
           t == [from |-> to, to |-> a, amount |-> Magnitude(x)]
<1>1. /\ pc = "distribute" /\ pc' = pc /\ eAlloc # 0 /\ Sources # {}
      /\ _transfer(a, to, x) /\ transfers' = Append(transfers, t)
      /\ UNCHANGED <<households, split, before, mark>>
  BY DEF Give, ShareDone, _addTransfer
<1>2. a \in Sources
  <2>1. Sources \in SUBSET Keys(households)
    BY <1>1 DEF Inv, LoopInv, Sources
  <2> QED
    BY <1>1, <2>1, Types, FirstIn DEF Inv
<1> HIDE DEF a
<1>3. /\ a \in split.hFrom /\ a \in Keys(households) /\ a \in Address
      /\ to \in split.hTo /\ to \in Keys(households) /\ to \in Address /\ a # to
      /\ meterDelta \in [Address -> Int] /\ before \in [Address -> Int]
      /\ eAlloc \in Int /\ split.more \in BOOLEAN
      /\ transfers \in Log /\ mark \in Nat /\ mark <= Len(transfers)
  BY <1>1, <1>2, Types DEF Inv, LoopInv, TypeOK, Split, Sources, Log, Transferred, ExplainInv
<1>4. x \in Int /\ Magnitude(x) \in Nat
  BY <1>3 DEF Amount, Magnitude
<1> HIDE DEF x
<1>5. /\ meterDelta' \in [Address -> Int]
      /\ meterDelta'[a] = meterDelta[a] - x /\ meterDelta'[to] = meterDelta[to] + x
      /\ \A c \in Address : c # a /\ c # to => meterDelta'[c] = meterDelta[c]
  BY <1>1, <1>3, <1>4, TransferFacts DEF Inv
<1>6. /\ Magnitude(meterDelta'[a]) = Magnitude(meterDelta[a]) - Magnitude(x)
      /\ Magnitude(meterDelta'[to]) = Magnitude(meterDelta[to]) - Magnitude(x)
  <2>1. Inv' /\ pc' = "distribute"
    BY <1>1, GiveInv
  <2>2. /\ 0 <= Given(meterDelta[a]) /\ 0 <= -Given(meterDelta[to])
        /\ 0 <= Given(eAlloc)
    BY <1>1, <1>3 DEF Inv, LoopInv
  <2>3. 0 <= Given(meterDelta'[a]) /\ 0 <= -Given(meterDelta'[to])
    BY <1>1, <1>3, <2>1 DEF Inv, LoopInv, Given
  <2>4. 0 <= Given(x)
    BY <1>3, <2>2 DEF Given, x, Amount
  <2>5. PICK i \in Int, j \in Int, k \in Int, l \in Int :
          /\ i = meterDelta[a] /\ j = meterDelta[to]
          /\ k = meterDelta'[a] /\ l = meterDelta'[to]
    BY <1>3, <1>5
  <2>6. k = i - x /\ l = j + x
    BY <1>5, <2>5
  <2>7. CASE split.more
    <3>1. i <= 0 /\ k <= 0 /\ x <= 0 /\ 0 <= j /\ 0 <= l
      BY <1>4, <2>2, <2>3, <2>4, <2>5, <2>7 DEF Given
    <3>2. Magnitude(i) - Magnitude(x) = Magnitude(k)
      BY <1>4, <2>6, <3>1 DEF Magnitude
    <3>3. Magnitude(j) - Magnitude(x) = Magnitude(l)
      BY <1>4, <2>6, <3>1 DEF Magnitude
    <3> QED
      BY <2>5, <3>2, <3>3
  <2>8. CASE ~split.more
    <3>1. 0 <= i /\ 0 <= k /\ 0 <= x /\ j <= 0 /\ l <= 0
      BY <1>4, <2>2, <2>3, <2>4, <2>5, <2>8 DEF Given
    <3>2. Magnitude(i) - Magnitude(x) = Magnitude(k)
      BY <1>4, <2>6, <3>1 DEF Magnitude
    <3>3. Magnitude(j) - Magnitude(x) = Magnitude(l)
      BY <1>4, <2>6, <3>1 DEF Magnitude
    <3> QED
      BY <2>5, <3>2, <3>3
  <2> QED
    BY <1>3, <2>7, <2>8
<1>7. t \in Transferred /\ t.from = to /\ t.to = a /\ t.amount = Magnitude(x)
  BY <1>3, <1>4 DEF Transferred
<1>7a. t["from"] = to /\ t["to"] = a
  BY <1>7
<1> HIDE DEF t
<1>8. ASSUME NEW c \in Address
      PROVE  Magnitude(before[c]) - Magnitude(meterDelta'[c]) =
               SumOver(Since(transfers', mark), Parts(transfers', "from", c))
                 + SumOver(Since(transfers', mark), Parts(transfers', "to", c))
  <2>1. PICK i \in Int, j \in Int, m \in Nat, old \in Int, new \in Int, b \in Int :
          /\ i = SumOver(Since(transfers, mark), Parts(transfers, "from", c))
          /\ j = SumOver(Since(transfers, mark), Parts(transfers, "to", c))
          /\ m = Magnitude(x)
          /\ old = Magnitude(meterDelta[c]) /\ new = Magnitude(meterDelta'[c])
          /\ b = Magnitude(before[c])
    <3>1. /\ SumOver(Since(transfers, mark), Parts(transfers, "from", c)) \in Int
          /\ SumOver(Since(transfers, mark), Parts(transfers, "to", c)) \in Int
      BY <1>3, LogTypes, SumInt DEF Ends
    <3>2. \A v \in [Address -> Int] : Magnitude(v[c]) \in Int
      BY DEF Magnitude
    <3> QED
      BY <1>3, <1>4, <1>5, <3>1, <3>2
  <2>2. b - old = i + j
    BY <1>1, <2>1 DEF ExplainInv, Explains
  <2>3. new = old - (IF c = a \/ c = to THEN m ELSE 0)
    <3>1. CASE c = a
      BY <1>6, <2>1, <3>1
    <3>2. CASE c = to
      BY <1>6, <2>1, <3>2
    <3>3. CASE c # a /\ c # to
      <4>1. new = old
        BY <1>5, <2>1, <3>3
      <4> QED
        BY <2>1, <3>3, <4>1
    <3> QED
      BY <3>1, <3>2, <3>3
  <2>4. /\ SumOver(Since(transfers', mark), Parts(transfers', "from", c))
             = i + (IF to = c THEN m ELSE 0)
        /\ SumOver(Since(transfers', mark), Parts(transfers', "to", c))
             = j + (IF a = c THEN m ELSE 0)
    <3>1. "from" \in Ends /\ "to" \in Ends
      BY DEF Ends
    <3>2. PICK more : more = transfers' /\ more = Append(transfers, t)
      BY <1>1
    <3>3. transfers \in Log /\ mark \in Nat /\ mark <= Len(transfers) /\ t \in Transferred
      BY <1>3, <1>7
    <3>4. SumOver(Since(more, mark), Parts(more, "from", c))
            = i + (IF t["from"] = c THEN t.amount ELSE 0)
      BY <2>1, <3>1, <3>2, <3>3, OneRecorded
    <3>5. SumOver(Since(more, mark), Parts(more, "to", c))
            = j + (IF t["to"] = c THEN t.amount ELSE 0)
      BY <2>1, <3>1, <3>2, <3>3, OneRecorded
    <3> QED
      BY <1>7, <1>7a, <2>1, <3>2, <3>4, <3>5, Zenon
  <2>5. PICK f \in Int, g \in Int :
          /\ f = i + (IF to = c THEN m ELSE 0) /\ g = j + (IF a = c THEN m ELSE 0)
    BY <2>1
  <2>6. b - new = f + g
    <3>1. CASE c = a
      <4>1. new = old - m /\ f = i /\ g = j + m
        <5>1. to # c /\ a = c
          BY <1>3, <3>1
        <5>2. i + 0 = i
          OBVIOUS
        <5> QED
          BY <2>3, <2>5, <3>1, <5>1, <5>2
      <4> QED
        BY <2>1, <2>2, <4>1
    <3>2. CASE c = to
      <4>1. new = old - m /\ f = i + m /\ g = j
        <5>1. to = c /\ a # c
          BY <1>3, <3>2
        <5>2. j + 0 = j
          OBVIOUS
        <5> QED
          BY <2>3, <2>5, <3>2, <5>1, <5>2
      <4> QED
        BY <2>1, <2>2, <4>1
    <3>3. CASE c # a /\ c # to
      BY <2>1, <2>2, <2>3, <2>5, <3>3
    <3> QED
      BY <3>1, <3>2, <3>3
  <2> QED
    BY <2>1, <2>4, <2>5, <2>6
<1>9. mark <= Len(transfers')
  BY <1>1, <1>3, <1>7 DEF Log
<1> QED
  BY <1>1, <1>8, <1>9 DEF ExplainInv, Explains

LEMMA NextExplain ==
  ASSUME Inv, ExplainInv, [Next]_vars
  PROVE  ExplainInv'
<1>1. CASE pc' # "distribute"
  BY <1>1 DEF ExplainInv
<1>2. CASE \E a \in Address : addHousehold(a)
  BY <1>1, <1>2 DEF addHousehold
<1>3. CASE \E a \in Address, d \in Deltas : updateMeterDelta(a, d)
  BY <1>1, <1>3 DEF updateMeterDelta
<1>4. CASE getHouseholdAddressesProducers
  BY <1>1, <1>4 DEF getHouseholdAddressesProducers
<1>5. CASE settle
  BY <1>5, SettleExplain
<1>6. CASE Give
  BY <1>6, GiveExplain
<1>7. CASE Allocate
  BY <1>7 DEF Allocate, store, ExplainInv
<1>8. CASE Resplit \/ TransferRest \/ Return
  BY <1>1, <1>8 DEF Resplit, TransferRest, Return
<1>9. CASE UNCHANGED vars
  BY <1>9 DEF vars, store, ExplainInv
<1> QED
  BY <1>2, <1>3, <1>4, <1>5, <1>6, <1>7, <1>8, <1>9 DEF Next, Settling

(* Until the rest is drawn, the log that a settlement has written          *)
(* (_addTransfer, utility.js:233) accounts for what it has done to every   *)
(* household: each transfer is the same amount at both of its ends.        *)
THEOREM LogAlwaysExplains == Spec => []TransfersExplain
<1>1. Init => ExplainInv
  BY DEF Init, ExplainInv
<1> QED
  BY <1>1, NextExplain, ExplainsTransfers, AlwaysInv, PTL DEF Spec

-----------------------------------------------------------------------------
(***************************************************************************)
(* The refinement                                                          *)
(***************************************************************************)

LEMMA ListsEqual ==
  ASSUME NEW S, NEW s \in Seq(S), NEW t \in Seq(S), Len(s) = Len(t),
         \A k \in 1..Len(s) : s[k] = t[k]
  PROVE  s = t
OBVIOUS

(* WithoutPlaceholder for any list of keys.                                *)
Spot(order) == CHOOSE k \in 1..Len(order) : order[k] = Zero
Strip(order) ==
  IF Zero \in Keys(order)
  THEN [k \in 1..(Len(order) - 1) |->
          IF k < Spot(order) THEN order[k] ELSE order[k + 1]]
  ELSE order

LEMMA Stripped ==
  WithoutPlaceholder = Strip(households) /\ WithoutPlaceholder' = Strip(households')
BY DEF WithoutPlaceholder, Strip, Spot, Position, _householdExists, Keys

(* A household that joins comes last, with or without the placeholder.     *)
LEMMA StripJoin ==
  ASSUME NEW order \in Seq(Address), Once(order), NEW a \in Household,
         a \notin Keys(order)
  PROVE  Strip(Append(order, a)) = Append(Strip(order), a)
<1> DEFINE N == Len(order)
           more == Append(order, a)
<1>1. /\ N \in Nat /\ Len(more) = N + 1 /\ more[N + 1] = a /\ a # Zero
      /\ \A k \in 1..N : more[k] = order[k]
      /\ more \in Seq(Address)
  BY UtilityAssumption DEF Address
<1> HIDE DEF more
<1>2. Zero \in Keys(more) <=> Zero \in Keys(order)
  BY <1>1 DEF Keys
<1>3. CASE Zero \notin Keys(order)
  BY <1>2, <1>3 DEF Strip, more
<1>4. CASE Zero \in Keys(order)
  <2> DEFINE p == Spot(order)
             w == [k \in 1..(N - 1) |-> IF k < p THEN order[k] ELSE order[k + 1]]
             u == [k \in 1..N |-> IF k < p THEN more[k] ELSE more[k + 1]]
  <2>1. p \in 1..N /\ order[p] = Zero
    BY <1>4 DEF Keys, Spot
  <2>2. \A k \in 1..N : order[k] = Zero => k = p
    BY <2>1 DEF Once
  <2>3. Spot(more) = p
    <3>1. \A k \in 1..(N + 1) : more[k] = Zero <=> k = p
      BY <1>1, <2>1, <2>2
    <3>2. p \in 1..(N + 1)
      BY <1>1, <2>1
    <3> HIDE DEF p
    <3> QED
      BY <1>1, <3>1, <3>2 DEF Spot
  <2>4. Strip(order) = w
    BY <1>4 DEF Strip
  <2>5. Strip(more) = u
    <3>1. Strip(more) = [k \in 1..(Len(more) - 1) |->
                           IF k < Spot(more) THEN more[k] ELSE more[k + 1]]
      BY <1>2, <1>4 DEF Strip
    <3>2. 1..(Len(more) - 1) = 1..N
      BY <1>1
    <3> QED
      BY <2>3, <3>1, <3>2
  <2> HIDE DEF p
  <2>6. w \in Seq(Address) /\ Len(w) = N - 1
    BY <1>1, <2>1
  <2>7. u \in Seq(Address) /\ Len(u) = N
    BY <1>1, <2>1 DEF Address
  <2>8. /\ Append(w, a) \in Seq(Address) /\ Len(Append(w, a)) = N
        /\ Append(w, a)[N] = a /\ \A k \in 1..(N - 1) : Append(w, a)[k] = w[k]
    <3> HIDE DEF w
    <3> QED
      BY <1>1, <2>1, <2>6 DEF Address
  <2>9. \A k \in 1..N : u[k] = Append(w, a)[k]
    <3>1. u[N] = a
      BY <1>1, <2>1
    <3>2. \A k \in 1..(N - 1) : u[k] = w[k]
      BY <1>1, <2>1
    <3> QED
      BY <1>1, <2>8, <3>1, <3>2
  <2> HIDE DEF u, w
  <2>10. u = Append(w, a)
    BY <2>7, <2>8, <2>9, ListsEqual
  <2> QED
    BY <2>4, <2>5, <2>10 DEF more
<1> QED
  BY <1>3, <1>4

(* The placeholder itself may be registered; it comes last and is dropped. *)
LEMMA StripZero ==
  ASSUME NEW order \in Seq(Address), Zero \notin Keys(order)
  PROVE  Strip(Append(order, Zero)) = order
<1> DEFINE N == Len(order)
           more == Append(order, Zero)
           u == [k \in 1..N |-> IF k < N + 1 THEN more[k] ELSE more[k + 1]]
<1>1. /\ N \in Nat /\ Len(more) = N + 1 /\ more[N + 1] = Zero
      /\ \A k \in 1..N : more[k] = order[k] /\ order[k] # Zero
  BY DEF Keys, Address
<1> HIDE DEF more
<1>2. Spot(more) = N + 1 /\ Zero \in Keys(more)
  <2>1. \A k \in 1..(N + 1) : more[k] = Zero <=> k = N + 1
    BY <1>1
  <2>2. N + 1 \in 1..(N + 1)
    BY <1>1
  <2> QED
    BY <1>1, <2>1, <2>2 DEF Spot, Keys
<1>3. Strip(more) = u
  <2>1. 1..(Len(more) - 1) = 1..N
    BY <1>1
  <2> QED
    BY <1>2, <2>1 DEF Strip
<1>4. \A k \in 1..N : u[k] = order[k]
  BY <1>1
<1>5. u \in Seq(Address) /\ Len(u) = N
  BY <1>1, <1>4
<1> HIDE DEF u
<1>6. u = order
  BY <1>4, <1>5, ListsEqual
<1> QED
  BY <1>3, <1>6 DEF more

(* The state of Netting that a state of the utility shows.                 *)
Roll == WithoutPlaceholder
Balance == [a \in Household |-> IF pc = "idle" THEN meterDelta[a] ELSE before[a]]
Renewable == IF pc = "idle" THEN renewableEnergy
             ELSE renewableEnergy - Produced(households, before)
NonRenewable == IF pc = "idle" THEN nonRenewableEnergy
                ELSE nonRenewableEnergy - Positive(-SumOver(households, before))

(* Netting's operators are Energy's.                                       *)
LEMMA SameEnergy ==
  /\ \A o, v : Promise!SumOver(o, v) = SumOver(o, v)
  /\ \A x : Promise!Positive(x) = Positive(x) /\ Promise!Negative(x) = Negative(x)
  /\ \A o, v : /\ Promise!Produced(o, v) = Produced(o, v)
               /\ Promise!Consumed(o, v) = Consumed(o, v)
  /\ \A o : Promise!Keys(o) = Keys(o)
  /\ \A o, v, w : Promise!Nets(o, v, w) <=> Nets(o, v, w)
<1>1. \A o, v : Promise!SumOver(o, v) = SumOver(o, v)
  BY DEF Promise!SumOver, SumOver
<1>2. \A x : Promise!Positive(x) = Positive(x) /\ Promise!Negative(x) = Negative(x)
  BY DEF Promise!Positive, Positive, Promise!Negative, Negative
<1>3. \A o, v : /\ Promise!Produced(o, v) = Produced(o, v)
                /\ Promise!Consumed(o, v) = Consumed(o, v)
  BY <1>1, <1>2 DEF Promise!Produced, Produced, Promise!Consumed, Consumed
<1>4. \A o : Promise!Keys(o) = Keys(o)
  BY DEF Promise!Keys, Keys
<1>5. \A o, v, w : Promise!Nets(o, v, w) <=> Nets(o, v, w)
  BY <1>1, <1>3, <1>4 DEF Promise!Nets, Nets, Promise!Served, Served
<1> QED
  BY <1>1, <1>2, <1>3, <1>4, <1>5

LEMMA InitPromise == Init => Promise!Init
<1> SUFFICES ASSUME Init PROVE Promise!Init
  OBVIOUS
<1>1. WithoutPlaceholder = <<>>
  <2>1. Append(<<>>, Zero) = <<Zero>> /\ << >> \in Seq(Address) /\ Zero \notin Keys(<<>>)
    BY DEF Keys
  <2> QED
    BY <2>1, StripZero, Stripped DEF Init
<1>2. /\ pc = "idle" /\ renewableEnergy = 0 /\ nonRenewableEnergy = 0
      /\ meterDelta = [a \in Address |-> 0]
  BY DEF Init, NoDeltas
<1>3. [a \in Household |-> IF pc = "idle" THEN meterDelta[a] ELSE before[a]]
        = [a \in Household |-> 0]
  BY <1>2 DEF Address
<1> QED
  BY <1>1, <1>2, <1>3 DEF Promise!Init

LEMMA AddPromise ==
  ASSUME Inv, NEW a \in Address, addHousehold(a)
  PROVE  Promise!Next \/ UNCHANGED Promise!vars
<1>1. /\ pc = "idle" /\ pc' = "idle" /\ a \notin Keys(households)
      /\ households' = Append(households, a)
      /\ meterDelta' = [meterDelta EXCEPT ![a] = 0]
      /\ UNCHANGED <<renewableEnergy, nonRenewableEnergy>>
  BY DEF addHousehold, _householdExists
<1>2. /\ households \in Seq(Address) /\ Once(households)
      /\ meterDelta \in [Address -> Int]
  BY Types DEF Inv
<1>3. meterDelta[a] = 0
  BY <1>1 DEF Inv, TypeOK
<1>4. meterDelta' = meterDelta
  BY <1>1, <1>2, <1>3
<1>5. UNCHANGED <<Balance, Renewable, NonRenewable>>
  BY <1>1, <1>4 DEF Balance, Renewable, NonRenewable
<1>6. CASE a = Zero
  <2>1. UNCHANGED Roll
    <3>1. Strip(households) = households
      BY <1>1, <1>6 DEF Strip
    <3>2. Strip(households') = households
      BY <1>1, <1>2, <1>6, StripZero
    <3> QED
      BY <3>1, <3>2, Stripped DEF Roll
  <2> QED
    BY <1>5, <2>1 DEF Promise!vars, Roll, Balance, Renewable, NonRenewable
<1>7. CASE a \in Household
  <2>1. Roll' = Append(Roll, a)
    BY <1>1, <1>2, <1>7, StripJoin, Stripped DEF Roll
  <2>2. a \notin Promise!Keys(Roll)
    BY <1>1, <1>2, SameEnergy, WithoutPlaceholderFacts DEF Roll
  <2>3. Promise!Join(a)
    BY <1>5, <2>1, <2>2 DEF Promise!Join, Roll, Balance, Renewable, NonRenewable
  <2> QED
    BY <1>7, <2>3 DEF Promise!Next
<1> QED
  BY <1>6, <1>7 DEF Address

LEMMA UpdatePromise ==
  ASSUME Inv, NEW a \in Address, NEW d \in Deltas, updateMeterDelta(a, d)
  PROVE  Promise!Next \/ UNCHANGED Promise!vars
<1>1. /\ pc = "idle" /\ pc' = "idle" /\ a \in Keys(households)
      /\ meterDelta' = [meterDelta EXCEPT ![a] = d]
      /\ UNCHANGED <<households, renewableEnergy, nonRenewableEnergy>>
  BY DEF updateMeterDelta, _householdExists
<1>2. /\ households \in Seq(Address) /\ Once(households)
      /\ meterDelta \in [Address -> Int]
  BY Types DEF Inv
<1>3. UNCHANGED <<Roll, Renewable, NonRenewable>>
  BY <1>1, Stripped DEF Roll, Renewable, NonRenewable
<1>4. CASE a = Zero
  <2>1. UNCHANGED Balance
    BY <1>1, <1>2, <1>4, UtilityAssumption DEF Balance, Address
  <2> QED
    BY <1>3, <2>1 DEF Promise!vars, Roll, Balance, Renewable, NonRenewable
<1>5. CASE a \in Household
  <2>1. Balance' = [Balance EXCEPT ![a] = d]
    BY <1>1, <1>2, <1>5 DEF Balance, Address
  <2>2. a \in Promise!Keys(Roll)
    BY <1>1, <1>2, <1>5, SameEnergy, WithoutPlaceholderFacts, UtilityAssumption DEF Roll
  <2>3. Promise!Report(a, d)
    BY <1>3, <2>1, <2>2 DEF Promise!Report, Roll, Balance, Renewable, NonRenewable
  <2> QED
    BY <1>5, <2>3 DEF Promise!Next
<1> QED
  BY <1>4, <1>5 DEF Address

LEMMA ProducersPromise ==
  ASSUME Inv, getHouseholdAddressesProducers
  PROVE  UNCHANGED Promise!vars
<1>1. /\ pc = "idle" /\ pc' = "idle" /\ households' = WithoutPlaceholder
      /\ meterDelta' = [meterDelta EXCEPT ![Zero] = 0]
      /\ UNCHANGED <<renewableEnergy, nonRenewableEnergy>>
  BY DEF getHouseholdAddressesProducers
<1>2. /\ households \in Seq(Address) /\ Once(households)
      /\ meterDelta \in [Address -> Int]
  BY Types DEF Inv
<1>3. UNCHANGED Roll
  <2>1. Zero \notin Keys(households')
    BY <1>1, <1>2, WithoutPlaceholderFacts
  <2>2. Strip(households') = households'
    BY <2>1 DEF Strip
  <2> QED
    BY <1>1, <2>2, Stripped DEF Roll
<1>4. UNCHANGED <<Balance, Renewable, NonRenewable>>
  BY <1>1, <1>2, UtilityAssumption DEF Balance, Renewable, NonRenewable, Address
<1> QED
  BY <1>3, <1>4 DEF Promise!vars, Roll, Balance, Renewable, NonRenewable

(* The counters grow when settle() is called, before the deltas change:    *)
(* until it returns the mapping takes the growth back.                     *)
LEMMA SettlePromise ==
  ASSUME Inv, settle
  PROVE  UNCHANGED Promise!vars
<1> DEFINE order == WithoutPlaceholder
           delta == [meterDelta EXCEPT ![Zero] = 0]
           s == SplitOf(order, delta)
<1>1. /\ pc = "idle" /\ pc' = "distribute" /\ households' = order /\ before' = delta
      /\ renewableEnergy' = renewableEnergy + (IF s.more THEN s.eTo ELSE s.eFrom)
      /\ nonRenewableEnergy' =
           nonRenewableEnergy + (IF s.more THEN 0 ELSE Magnitude(s.eFrom + s.eTo))
  BY DEF settle
<1>2. /\ households \in Seq(Address) /\ Once(households)
      /\ meterDelta \in [Address -> Int] /\ delta \in [Address -> Int]
      /\ renewableEnergy \in Nat /\ nonRenewableEnergy \in Nat
  BY Types DEF Inv, TypeOK
<1>3. order \in Seq(Address) /\ Keys(order) = Keys(households) \ {Zero}
  BY <1>2, WithoutPlaceholderFacts
<1>4. UNCHANGED Roll
  <2>1. Strip(households') = households'
    BY <1>1, <1>3 DEF Strip
  <2> QED
    BY <1>1, <2>1, Stripped DEF Roll
<1>5. UNCHANGED Balance
  BY <1>1, <1>2, UtilityAssumption DEF Balance, Address
<1>6. /\ (IF s.more THEN s.eTo ELSE s.eFrom) = Produced(order, delta)
      /\ (IF s.more THEN 0 ELSE Magnitude(s.eFrom + s.eTo)) = Positive(-SumOver(order, delta))
      /\ SumOver(order, delta) \in Int /\ Produced(order, delta) \in Nat
  BY <1>2, <1>3, SplitSums, Sides
<1> HIDE DEF order, delta, s
<1>7. Positive(-SumOver(order, delta)) \in Int
  BY <1>6 DEF Positive
<1>8. UNCHANGED <<Renewable, NonRenewable>>
  BY <1>1, <1>2, <1>6, <1>7 DEF Renewable, NonRenewable
<1> QED
  BY <1>4, <1>5, <1>8 DEF Promise!vars, Roll, Balance, Renewable, NonRenewable

(* The steps on the way show nothing.                                      *)
LEMMA LoopPromise ==
  ASSUME Inv, Allocate \/ Give \/ Resplit \/ TransferRest
  PROVE  UNCHANGED Promise!vars
<1>1. /\ pc # "idle" /\ pc' # "idle"
      /\ UNCHANGED <<households, before, renewableEnergy, nonRenewableEnergy>>
  BY DEF Allocate, Give, Resplit, TransferRest, store
<1>2. UNCHANGED <<Roll, Balance, Renewable, NonRenewable>>
  BY <1>1, Stripped DEF Roll, Balance, Renewable, NonRenewable
<1> QED
  BY <1>2 DEF Promise!vars, Roll, Balance, Renewable, NonRenewable

(* When settle() returns, everybody who could be served holds nothing.     *)
LEMMA ReturnPromise ==
  ASSUME Inv, SplitInv, Return
  PROVE  Promise!Settle
<1> DEFINE first == SplitOf(households, before)
<1>1. /\ pc = "rest" /\ pc' = "idle" /\ Sources = {}
      /\ UNCHANGED <<households, meterDelta, renewableEnergy, nonRenewableEnergy>>
  BY DEF Return, store
<1>2. /\ households \in Seq(Address) /\ meterDelta \in [Address -> Int]
      /\ before \in [Address -> Int] /\ renewableEnergy \in Nat
      /\ nonRenewableEnergy \in Nat
  BY Types DEF Inv, TypeOK
<1>3. Zero \notin Keys(households) /\ SameSides /\ Emptying
  BY <1>1 DEF SplitInv
<1>4. Roll = households /\ Roll' = Roll
  BY <1>1, <1>3, Stripped DEF Roll, Strip
<1>5. households \in Seq(Household) /\ Keys(households) \subseteq Household
  <2>1. Keys(households) \subseteq Household
    BY <1>2, <1>3 DEF Keys, Address
  <2>2. \A k \in 1..Len(households) : households[k] \in Household
    BY <2>1 DEF Keys
  <2>3. Len(households) \in Nat /\ households \in [1..Len(households) -> Household]
    BY <1>2, <2>2
  <2> QED
    BY <2>1, <2>3
<1>6. /\ Balance \in [Household -> Int] /\ Balance' \in [Household -> Int]
      /\ \A a \in Household : Balance[a] = before[a] /\ Balance'[a] = meterDelta[a]
  BY <1>1, <1>2 DEF Balance, Address
<1> HIDE DEF first
<1>7. /\ SumOver(Roll, Balance) = SumOver(households, before)
      /\ SumOver(Roll, Balance') = SumOver(households, meterDelta)
      /\ Produced(Roll, Balance) = Produced(households, before)
      /\ Consumed(Roll, Balance) = Consumed(households, before)
  <2>1. SumOver(households, Balance) = SumOver(households, before)
    <3>1. SameOn(Household, Address, households, Balance, before)
      BY <1>2, <1>5, <1>6 DEF SameOn
    <3> QED
      BY <3>1, SumOnKeys
  <2>2. SumOver(households, Balance') = SumOver(households, meterDelta)
    <3> DEFINE w == Balance'
    <3>1. /\ w \in [Household -> Int]
          /\ \A a \in Keys(households) : w[a] = meterDelta[a]
      BY <1>5, <1>6
    <3> HIDE DEF w
    <3>2. SameOn(Household, Address, households, w, meterDelta)
      BY <1>2, <1>5, <3>1 DEF SameOn
    <3>3. SumOver(households, w) = SumOver(households, meterDelta)
      BY <3>2, SumOnKeys
    <3> QED
      BY <3>3 DEF w
  <2>3. Produced(households, Balance) = Produced(households, before)
    <3> DEFINE v == [a \in Household |-> Positive(Balance[a])]
               w == [a \in Address |-> Positive(before[a])]
    <3>1. /\ v \in [Household -> Int] /\ w \in [Address -> Int]
          /\ \A a \in Keys(households) : v[a] = w[a]
      BY <1>2, <1>5, <1>6 DEF Positive, Address
    <3>2. /\ Produced(households, Balance) = SumOver(households, v)
          /\ Produced(households, before) = SumOver(households, w)
      BY <1>2, <1>6 DEF Produced
    <3> HIDE DEF v, w
    <3>3. SameOn(Household, Address, households, v, w)
      BY <1>2, <1>5, <3>1 DEF SameOn
    <3>4. SumOver(households, v) = SumOver(households, w)
      BY <3>3, SumOnKeys
    <3> QED
      BY <3>2, <3>4
  <2>4. Consumed(households, Balance) = Consumed(households, before)
    <3> DEFINE v == [a \in Household |-> Negative(Balance[a])]
               w == [a \in Address |-> Negative(before[a])]
    <3>1. /\ v \in [Household -> Int] /\ w \in [Address -> Int]
          /\ \A a \in Keys(households) : v[a] = w[a]
      BY <1>2, <1>5, <1>6 DEF Negative, Address
    <3>2. /\ Consumed(households, Balance) = SumOver(households, v)
          /\ Consumed(households, before) = SumOver(households, w)
      BY <1>2, <1>6 DEF Consumed
    <3> HIDE DEF v, w
    <3>3. SameOn(Household, Address, households, v, w)
      BY <1>2, <1>5, <3>1 DEF SameOn
    <3>4. SumOver(households, v) = SumOver(households, w)
      BY <3>3, SumOnKeys
    <3> QED
      BY <3>2, <3>4
  <2> QED
    BY <1>4, <2>1, <2>2, <2>3, <2>4
<1>8. /\ Produced(households, before) \in Nat /\ Consumed(households, before) \in Int
      /\ Produced(households, before) + Consumed(households, before)
           = SumOver(households, before)
      /\ SumOver(households, before) \in Int
      /\ first.more <=> SumOver(households, before) > 0
      /\ first.more \in BOOLEAN
  BY <1>2, Sides, SumInt, SplitSums, SplitFacts DEF first, Split
<1>9. ASSUME NEW a \in Keys(households),
             Served(Roll, Balance, a) \/ Balance[a] = 0
      PROVE  meterDelta[a] = 0
  <2>1. a \in Household /\ Balance[a] = before[a] /\ before[a] \in Int
    BY <1>2, <1>5, <1>6 DEF Address
  <2>2. CASE before[a] = 0
    BY <1>3, <2>2 DEF Emptying
  <2>3. CASE SumOver(households, before) = 0
    BY <1>3, <2>3 DEF Emptying
  <2>4. CASE before[a] # 0 /\ SumOver(households, before) # 0
    <3>1. Served(Roll, Balance, a)
      BY <1>9, <2>1, <2>4
    <3>2. \/ before[a] > 0 /\ ~first.more
          \/ before[a] < 0 /\ first.more
      BY <1>7, <1>8, <2>1, <2>4, <3>1 DEF Served
    <3>3. a \in first.hFrom
      BY <1>2, <3>2, SplitFacts DEF first
    <3>4. meterDelta[a] # 0 => a \in split.hFrom
      BY <1>3, <3>3 DEF SameSides, first
    <3> QED
      BY <1>1, <3>4 DEF Sources
  <2> QED
    BY <2>2, <2>3, <2>4
<1>10. Nets(Roll, Balance, Balance')
  <2>1. SumOver(Roll, Balance') = SumOver(Roll, Balance)
    BY <1>1, <1>7 DEF Inv, Consistency
  <2>2. \A a \in Keys(Roll) :
          Served(Roll, Balance, a) \/ Balance[a] = 0 => Balance'[a] = 0
    BY <1>4, <1>5, <1>6, <1>9
  <2>3. DOMAIN Balance' = DOMAIN Balance
    BY <1>6
  <2> QED
    BY <2>1, <2>2, <2>3 DEF Nets
<1>11. /\ Renewable' = Renewable + Produced(Roll, Balance)
       /\ NonRenewable' = NonRenewable
            + Positive(-Consumed(Roll, Balance) - Produced(Roll, Balance))
  <2>1. -Consumed(Roll, Balance) - Produced(Roll, Balance) = -SumOver(households, before)
    BY <1>7, <1>8
  <2>2. Positive(-SumOver(households, before)) \in Int
    BY <1>8 DEF Positive
  <2>3. /\ Renewable = renewableEnergy - Produced(households, before)
        /\ Renewable' = renewableEnergy
        /\ NonRenewable = nonRenewableEnergy - Positive(-SumOver(households, before))
        /\ NonRenewable' = nonRenewableEnergy
    BY <1>1 DEF Renewable, NonRenewable
  <2>4. Renewable' = Renewable + Produced(Roll, Balance)
    BY <1>2, <1>7, <1>8, <2>3
  <2>5. NonRenewable' = NonRenewable + Positive(-SumOver(households, before))
    BY <1>2, <2>2, <2>3
  <2> QED
    BY <2>1, <2>4, <2>5
<1> QED
  BY <1>4, <1>10, <1>11, SameEnergy
     DEF Promise!Settle, Roll, Balance, Renewable, NonRenewable

(* Seen from outside, where the deltas of an unfinished settlement are not *)
(* visible, the utility (utility.js) is a Netting: whatever is rounded,    *)
(* capped and drawn at random, a settlement conserves the total, leaves    *)
(* nothing to the side that can be served in full and nothing new to those *)
(* who reported zero, and counts production and shortage.                  *)
THEOREM UtilityImplementsNetting == Spec => ImplementsNetting
<1>1. ASSUME Inv, SplitInv, [Next]_vars
      PROVE  [Promise!Next]_Promise!vars
  <2>1. CASE settle
    BY <1>1, <2>1, SettlePromise
  <2>2. CASE Settling
    BY <1>1, <2>2, LoopPromise, ReturnPromise DEF Settling, Promise!Next
  <2>3. CASE UNCHANGED vars
    <3>1. UNCHANGED <<households, meterDelta, pc, before, renewableEnergy,
                      nonRenewableEnergy>>
      BY <2>3 DEF vars, store
    <3>2. UNCHANGED <<Roll, Balance, Renewable, NonRenewable>>
      BY <3>1, Stripped DEF Roll, Balance, Renewable, NonRenewable
    <3> QED
      BY <3>2 DEF Promise!vars, Roll, Balance, Renewable, NonRenewable
  <2>4. CASE \E a \in Address : addHousehold(a)
    BY <1>1, <2>4, AddPromise
  <2>5. CASE \E a \in Address, d \in Deltas : updateMeterDelta(a, d)
    BY <1>1, <2>5, UpdatePromise
  <2>6. CASE getHouseholdAddressesProducers
    BY <1>1, <2>6, ProducersPromise
  <2> QED
    BY <1>1, <2>1, <2>2, <2>3, <2>4, <2>5, <2>6 DEF Next
<1> QED
  BY <1>1, InitPromise, AlwaysInv, AlwaysSplit, PTL DEF Spec, ImplementsNetting, Promise!Spec
=============================================================================
