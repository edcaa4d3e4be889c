---------------------------- MODULE UtilityProofs ---------------------------
(***************************************************************************)
(* Utility.tla keeps its types, its loop invariant and the total energy,   *)
(* for any set of households, any deltas and any number of nettings.       *)
(***************************************************************************)
EXTENDS Utility, EnergyProofs, FiniteSetTheorems

USE UtilityAssumption

-----------------------------------------------------------------------------
(* A key has a position, and the first of a non-empty set of keys is one   *)
(* of them.                                                                *)
LEMMA PositionOf ==
  ASSUME households \in Seq(Address), NEW a \in Keys(households)
  PROVE  Position(a) \in 1..Len(households) /\ households[Position(a)] = a
BY DEF Keys, Position

LEMMA FirstIn ==
  ASSUME households \in Seq(Address), NEW S \in SUBSET Keys(households), S # {}
  PROVE  First(S) \in S
<1> DEFINE T == {Position(a) : a \in S}
<1>1. T \in SUBSET Nat /\ T # {}
  BY PositionOf
<1>2. PICK n \in T : \A m \in T : n <= m
  BY <1>1, LeastElement
<1>3. PICK a \in S : n = Position(a)
  BY <1>2
<1>4. \A b \in S : Position(a) <= Position(b)
  BY <1>2, <1>3
<1> QED
  BY <1>4 DEF First

(* Math.round of a share whose divisor is at least as large as what is     *)
(* shared lies between zero and the share's base.                          *)
LEMMA Quotient ==
  ASSUME NEW n \in Nat, NEW d \in Nat \ {0}, NEW m \in Nat, n <= d * m
  PROVE  LET r == (2 * n + d) \div (2 * d)
         IN  /\ r \in 0..m
             /\ 2 * d * r = 2 * n + d => r - 1 \in 0..m
<1> DEFINE r == (2 * n + d) \div (2 * d)
<1>1. r \in Int /\ 2 * d * r <= 2 * n + d /\ 2 * n + d < 2 * d * (r + 1)
  OBVIOUS
<1>2. r >= 0
  BY <1>1
<1>3. r <= m
  BY <1>1
<1> QED
  BY <1>1, <1>2, <1>3

LEMMA ShareInt ==
  ASSUME NEW p \in Int, NEW q \in Int \ {0}, NEW r \in JsRound(p, q)
  PROVE  r \in Int
BY DEF JsRound, Magnitude

(* Over-production: e <= 0 of the consumers is shared by producers.        *)
LEMMA ShareOver ==
  ASSUME NEW e \in Int, NEW q \in Int \ {0}, NEW m \in Int,
         0 <= -e, -e <= q, 0 <= m, NEW r \in JsRound(e * m, q)
  PROVE  0 <= -r /\ -r <= m
<1> DEFINE r0 == (2 * (e * m) + q) \div (2 * q)
<1>1. q > 0 /\ Magnitude(q) = q /\ ~(q < 0)
  BY DEF Magnitude
<1>2. r = r0 \/ (2 * q * r0 = 2 * (e * m) + q /\ r = r0 - 1)
  BY <1>1 DEF JsRound
<1>3. e * m \in Int /\ 0 <= -(e * m) /\ -(e * m) <= q * m
  OBVIOUS
<1>4. r0 \in Int /\ 2 * q * r0 <= 2 * (e * m) + q /\ 2 * (e * m) + q < 2 * q * (r0 + 1)
  BY <1>1, <1>3
<1>5. 0 <= -r0
  BY <1>1, <1>3, <1>4
<1>6. -r0 <= m
  BY <1>1, <1>3, <1>4
<1>7. 2 * q * r0 = 2 * (e * m) + q => -(r0 - 1) <= m
  BY <1>1, <1>3, <1>4
<1> QED
  BY <1>2, <1>4, <1>5, <1>6, <1>7

(* Under-production: e >= 0 of the producers is shared by consumers.       *)
LEMMA ShareUnder ==
  ASSUME NEW e \in Int, NEW q \in Int \ {0}, NEW m \in Int,
         0 <= e, e <= -q, m <= 0, NEW r \in JsRound(e * m, q)
  PROVE  0 <= r /\ r <= -m
<1> DEFINE d == -q
           n == -(e * m)
           r0 == (2 * n + d) \div (2 * d)
<1>1. q < 0 /\ Magnitude(q) = d /\ d \in Nat \ {0}
  BY DEF Magnitude
<1>2. r = r0 \/ (2 * d * r0 = 2 * n + d /\ r = r0 - 1)
  BY <1>1 DEF JsRound
<1>3. n \in Nat /\ n <= d * (-m) /\ -m \in Nat
  OBVIOUS
<1>4. /\ r0 \in 0..(-m)
      /\ 2 * d * r0 = 2 * n + d => r0 - 1 \in 0..(-m)
  <2> HIDE DEF n, d
  <2> QED
    BY <1>1, <1>3, Quotient
<1> QED
  BY <1>2, <1>3, <1>4

-----------------------------------------------------------------------------
(* What _getProducersConsumers returns for any households.                 *)
LEMMA SplitFacts ==
  ASSUME NEW order \in Seq(Address), NEW delta \in [Address -> Int]
  PROVE  LET s == SplitOf(order, delta) IN
         /\ s \in Split
         /\ s.hFrom \subseteq Keys(order) /\ s.hTo \subseteq Keys(order)
         /\ s.more =>
              /\ s.hFrom = {a \in Keys(order) : delta[a] < 0}
              /\ s.hTo = {a \in Keys(order) : delta[a] > 0}
              /\ s.eFrom <= 0 /\ -s.eFrom <= s.eTo
              /\ \A a \in Keys(order) : delta[a] <= s.eTo
         /\ ~s.more =>
              /\ s.hFrom = {a \in Keys(order) : delta[a] > 0}
              /\ s.hTo = {a \in Keys(order) : delta[a] < 0}
              /\ s.eFrom >= 0 /\ s.eFrom <= -s.eTo
              /\ \A a \in Keys(order) : s.eTo <= delta[a]
<1>1. Keys(order) \subseteq Address
  BY DEF Keys
<1> DEFINE p == Produced(order, delta)
           c == Consumed(order, delta)
<1>2. p \in Nat /\ c \in Int /\ c <= 0
  BY Sides
<1>3. \A a \in Keys(order) : delta[a] <= p /\ c <= delta[a]
  BY Sides
<1> HIDE DEF p, c
<1>4. CASE p > Magnitude(c)
  <2>1. SplitOf(order, delta) =
          [hFrom |-> {a \in Keys(order) : delta[a] < 0}, eFrom |-> c,
           hTo |-> {a \in Keys(order) : delta[a] > 0}, eTo |-> p, more |-> TRUE]
    BY <1>4 DEF SplitOf, p, c
  <2> QED
    BY <1>1, <1>2, <1>3, <1>4, <2>1 DEF Split, Magnitude
<1>5. CASE ~(p > Magnitude(c))
  <2>1. SplitOf(order, delta) =
          [hFrom |-> {a \in Keys(order) : delta[a] > 0}, eFrom |-> p,
           hTo |-> {a \in Keys(order) : delta[a] < 0}, eTo |-> c, more |-> FALSE]
    BY <1>5 DEF SplitOf, p, c
  <2> QED
    BY <1>1, <1>2, <1>3, <1>5, <2>1 DEF Split, Magnitude
<1> QED
  BY <1>4, <1>5

(* Deleting the placeholder keeps the other keys, each once.               *)
LEMMA WithoutPlaceholderFacts ==
  ASSUME households \in Seq(Address), Once(households)
  PROVE  /\ WithoutPlaceholder \in Seq(Address)
         /\ Once(WithoutPlaceholder)
         /\ Keys(WithoutPlaceholder) = Keys(households) \ {Zero}
<1>1. CASE Zero \notin Keys(households)
  BY <1>1 DEF WithoutPlaceholder, _householdExists
<1>2. CASE Zero \in Keys(households)
  <2> DEFINE p == Position(Zero)
             N == Len(households)
             w == [k \in 1..(N - 1) |-> IF k < p THEN households[k] ELSE households[k + 1]]
  <2>1. p \in 1..N /\ households[p] = Zero /\ N \in Nat
    BY <1>2, PositionOf
  <2>2. WithoutPlaceholder = w
    BY <1>2 DEF WithoutPlaceholder, _householdExists
  <2> HIDE DEF p
  <2>3. w \in Seq(Address) /\ Len(w) = N - 1
    BY <2>1
  <2>4. \A k \in 1..N : households[k] = Zero => k = p
    BY <2>1 DEF Once
  <2>5. Once(w)
    BY <2>1, <2>3 DEF Once
  <2>6. \A k \in 1..(N - 1) : w[k] \in Keys(households) /\ w[k] # Zero
    BY <2>1, <2>4 DEF Keys
  <2>7. ASSUME NEW k \in 1..N, k # p PROVE households[k] \in Keys(w)
    <3>1. CASE k < p
      <4>1. k \in 1..(N - 1) /\ w[k] = households[k]
        BY <2>1, <3>1
      <4> QED
        BY <4>1, <2>3 DEF Keys
    <3>2. CASE k > p
      <4>1. k - 1 \in 1..(N - 1) /\ w[k - 1] = households[k]
        BY <2>1, <3>2
      <4> QED
        BY <4>1, <2>3 DEF Keys
    <3> QED
      BY <2>1, <2>7, <3>1, <3>2
  <2>8. Keys(w) = Keys(households) \ {Zero}
    BY <2>1, <2>3, <2>4, <2>6, <2>7 DEF Keys
  <2> QED
    BY <2>2, <2>3, <2>5, <2>8
<1> QED
  BY <1>1, <1>2
-----------------------------------------------------------------------------
(* The inductive invariant.                                                *)
Inv == TypeOK /\ LoopInv /\ Consistency

(* TypeOK in the terms of the lemmas above.                                *)
LEMMA Types ==
  ASSUME TypeOK
  PROVE  /\ households \in Seq(Address) /\ Once(households)
         /\ Keys(households) \subseteq Address
         /\ meterDelta \in [Address -> Int] /\ before \in [Address -> Int]
         /\ Zero \in Address
BY DEF TypeOK, Once, Keys, Address

LEMMA InitInv == Init => Inv
<1> SUFFICES ASSUME Init PROVE Inv
  OBVIOUS
<1>1. TypeOK
  BY DEF Init, TypeOK, NoDeltas, NoSplit, Split, Address
<1>2. LoopInv /\ Consistency
  BY DEF Init, LoopInv, Consistency
<1> QED
  BY <1>1, <1>2 DEF Inv

LEMMA AddInv ==
  ASSUME Inv, NEW a \in Address, addHousehold(a)
  PROVE  Inv'
<1> USE DEF Inv
<1>1. TypeOK'
  <2>1. households' \in Seq(Address) /\ Keys(households) \subseteq Keys(households')
    BY DEF addHousehold, TypeOK, Keys
  <2>2. Once(households')
    <3>1. /\ households' = Append(households, a) /\ a \notin Keys(households)
          /\ households \in Seq(Address) /\ Once(households)
      BY Types DEF addHousehold, _householdExists
    <3>2. \A k \in 1..Len(households) : households[k] # a
      BY <3>1 DEF Keys
    <3> QED
      BY <3>1, <3>2 DEF Once
  <2>3. /\ meterDelta' \in [Address -> Int]
        /\ \A b \in Address : meterDelta'[b] # 0 => meterDelta[b] # 0
    BY DEF addHousehold, TypeOK
  <2>4. \A b \in Address : meterDelta'[b] # 0 => b \in Keys(households')
    BY <2>1, <2>3 DEF TypeOK
  <2>5. Keys(households)' = Keys(households')
    BY DEF Keys
  <2>6. UNCHANGED <<renewableEnergy, nonRenewableEnergy, transfers, pc, split,
                    todo, to, eAlloc, indices, before, mark, nettings>>
    BY DEF addHousehold, locals
  <2> QED
    BY <2>1, <2>2, <2>3, <2>4, <2>5, <2>6 DEF TypeOK, Once
<1>2. LoopInv' /\ Consistency'
  BY DEF addHousehold, LoopInv, Consistency, TypeOK, locals
<1> QED
  BY <1>1, <1>2

LEMMA UpdateInv ==
  ASSUME Inv, NEW a \in Address, NEW d \in Deltas, updateMeterDelta(a, d)
  PROVE  Inv'
<1> USE DEF Inv
<1>1. TypeOK'
  BY DEF updateMeterDelta, TypeOK, locals, _householdExists
<1>2. LoopInv' /\ Consistency'
  BY DEF updateMeterDelta, LoopInv, Consistency, locals
<1> QED
  BY <1>1, <1>2

LEMMA ProducersInv ==
  ASSUME Inv, getHouseholdAddressesProducers
  PROVE  Inv'
<1> USE DEF Inv
<1>0. /\ households' \in Seq(Address) /\ Once(households')
      /\ Keys(households)' = Keys(households) \ {Zero}
  BY Types, WithoutPlaceholderFacts DEF getHouseholdAddressesProducers, Keys
<1>1. TypeOK'
  BY <1>0, Types DEF getHouseholdAddressesProducers, TypeOK, locals, Once
<1>2. LoopInv' /\ Consistency'
  BY DEF getHouseholdAddressesProducers, LoopInv, Consistency, TypeOK, locals
<1> QED
  BY <1>1, <1>2

LEMMA SettleInv ==
  ASSUME Inv, settle
  PROVE  Inv'
<1> USE DEF Inv
<1> DEFINE delta == [meterDelta EXCEPT ![Zero] = 0]
           s == SplitOf(WithoutPlaceholder, delta)
<1>0. /\ households' \in Seq(Address) /\ Once(households')
      /\ Keys(households)' = Keys(households) \ {Zero}
      /\ households' = WithoutPlaceholder
  BY Types, WithoutPlaceholderFacts DEF settle, Keys
<1>1. delta \in [Address -> Int] /\ meterDelta' = delta /\ before' = delta
  BY Types DEF settle
<1>2. s \in Split /\ split' = s /\ todo' = s.hTo /\ pc' = "distribute"
  BY <1>0, <1>1, SplitFacts DEF settle
<1>3. /\ s.hFrom \subseteq Keys(households)' /\ s.hTo \subseteq Keys(households)'
      /\ s.more =>
           /\ s.hFrom = {a \in Keys(households)' : delta[a] < 0}
           /\ s.hTo = {a \in Keys(households)' : delta[a] > 0}
           /\ s.eFrom <= 0 /\ -s.eFrom <= s.eTo
           /\ \A a \in Keys(households)' : delta[a] <= s.eTo
      /\ ~s.more =>
           /\ s.hFrom = {a \in Keys(households)' : delta[a] > 0}
           /\ s.hTo = {a \in Keys(households)' : delta[a] < 0}
           /\ s.eFrom >= 0 /\ s.eFrom <= -s.eTo
           /\ \A a \in Keys(households)' : s.eTo <= delta[a]
  BY <1>0, <1>1, SplitFacts DEF Keys
<1>4. eAlloc = 0
  BY DEF settle, LoopInv
<1>5. TypeOK'
  <2>1. households' \in Seq(Address) /\ Once(households')
    BY <1>0
  <2>2. \A a \in Address : delta[a] # 0 => a \in Keys(households)'
    BY <1>0, Types DEF TypeOK
  <2>3. renewableEnergy' \in Nat /\ nonRenewableEnergy' \in Nat
    <3>1. /\ s.eTo \in Int /\ s.eFrom \in Int /\ s.more \in BOOLEAN
          /\ renewableEnergy \in Nat /\ nonRenewableEnergy \in Nat
      BY <1>2 DEF Split, TypeOK
    <3>2. /\ renewableEnergy' = renewableEnergy + (IF s.more THEN s.eTo ELSE s.eFrom)
          /\ nonRenewableEnergy' =
               nonRenewableEnergy + (IF s.more THEN 0 ELSE Magnitude(s.eFrom + s.eTo))
      BY <1>0 DEF settle
    <3> HIDE DEF s, delta
    <3>3. CASE s.more
      BY <1>3, <3>1, <3>2, <3>3
    <3>4. CASE ~s.more
      <4> DEFINE x == s.eFrom + s.eTo
      <4>1. x \in Int /\ s.eFrom \in Nat
        BY <1>3, <3>1, <3>4
      <4>2. Magnitude(x) \in Nat
        BY <4>1 DEF Magnitude
      <4> QED
        BY <3>1, <3>2, <3>4, <4>1, <4>2
    <3> QED
      BY <3>3, <3>4
  <2>4. todo' \subseteq split'.hTo /\ split' \in Split
    BY <1>2
  <2>5. mark' \in Nat /\ nettings' \in 0..MaxNettings /\ pc' = "distribute"
    BY DEF settle, TypeOK
  <2>6. /\ transfers' \in Seq([from : Address, to : Address, amount : Nat])
        /\ to' \in Address /\ eAlloc' \in Int /\ indices' \in Nat
    BY DEF settle, TypeOK
  <2> QED
    BY <1>1, <2>1, <2>2, <2>3, <2>4, <2>5, <2>6 DEF TypeOK, Once
<1>6. LoopInv'
  <2>1. eAlloc' = 0
    BY <1>4 DEF settle
  <2>3. \A a \in Keys(households)' : delta[a] \in Int
    BY <1>0, <1>1, Types
  <2>4. s.more \in BOOLEAN /\ s.eTo \in Int /\ s.eFrom \in Int
    BY <1>2 DEF Split
  <2> HIDE DEF s, delta
  <2>2. s.hFrom \cap s.hTo = {}
    BY <1>3, <2>3, <2>4
  <2>5. CASE s.more
    BY <1>1, <1>2, <1>3, <2>1, <2>2, <2>3, <2>4, <2>5 DEF LoopInv, Given
  <2>6. CASE ~s.more
    BY <1>1, <1>2, <1>3, <2>1, <2>2, <2>3, <2>4, <2>6 DEF LoopInv, Given
  <2> QED
    BY <2>5, <2>6
<1>7. Consistency'
  BY <1>0, <1>1 DEF Consistency
<1> QED
  BY <1>5, <1>6, <1>7

LEMMA AllocateInv ==
  ASSUME Inv, Allocate
  PROVE  Inv'
<1> USE DEF Inv
<1> DEFINE a == First(todo)
<1>1. /\ pc = "distribute" /\ todo # {} /\ to' = a /\ todo' = todo \ {a}
      /\ eAlloc' \in JsRound(split.eFrom * meterDelta[a], split.eTo)
      /\ UNCHANGED <<households, meterDelta, renewableEnergy, nonRenewableEnergy,
                     transfers, pc, split, indices, before, mark, nettings>>
  BY DEF Allocate, store
<1>2. todo \in SUBSET Keys(households)
  BY <1>1 DEF LoopInv, TypeOK
<1>3. a \in todo
  BY <1>1, <1>2, Types, FirstIn
<1> HIDE DEF a
<1>4. a \in Address /\ a \in split.hTo /\ meterDelta[a] \in Int /\ meterDelta[a] # 0
  BY <1>1, <1>2, <1>3, Types DEF LoopInv, TypeOK
<1>5. split.eFrom \in Int /\ split.eTo \in Int /\ split.more \in BOOLEAN
  BY DEF TypeOK, Split
<1>6. /\ 0 <= -Given(meterDelta[a]) /\ -Given(meterDelta[a]) <= -Given(split.eTo)
      /\ 0 <= Given(split.eFrom) /\ Given(split.eFrom) <= -Given(split.eTo)
  BY <1>1, <1>3, <1>4 DEF LoopInv
<1>7. split.eTo # 0
  BY <1>4, <1>5, <1>6 DEF Given
<1>8. eAlloc' \in Int /\ 0 <= Given(eAlloc') /\ Given(eAlloc') <= -Given(meterDelta[a])
  <2>1. eAlloc' \in Int
    BY <1>1, <1>4, <1>5, <1>7, ShareInt
  <2>2. CASE split.more
    <3>1. /\ 0 <= -split.eFrom /\ -split.eFrom <= split.eTo /\ 0 <= meterDelta[a]
      BY <1>4, <1>5, <1>6, <2>2 DEF Given
    <3>2. 0 <= -eAlloc' /\ -eAlloc' <= meterDelta[a]
      BY <1>1, <1>4, <1>5, <1>7, <3>1, ShareOver
    <3>3. Given(eAlloc') = -eAlloc' /\ Given(meterDelta[a]) = -meterDelta[a]
      BY <1>5, <2>2 DEF Given
    <3>4. -Given(meterDelta[a]) = meterDelta[a]
      BY <1>4, <3>3
    <3>5. 0 <= Given(eAlloc')
      BY ONLY <3>2, <3>3
    <3>6. Given(eAlloc') <= -Given(meterDelta[a])
      BY ONLY <3>2, <3>3, <3>4
    <3> QED
      BY ONLY <2>1, <3>5, <3>6
  <2>3. CASE ~split.more
    <3>1. /\ 0 <= split.eFrom /\ split.eFrom <= -split.eTo /\ meterDelta[a] <= 0
      BY <1>4, <1>5, <1>6, <2>3 DEF Given
    <3>2. 0 <= eAlloc' /\ eAlloc' <= -meterDelta[a]
      BY <1>1, <1>4, <1>5, <1>7, <3>1, ShareUnder
    <3> QED
      BY <1>4, <2>1, <2>3, <3>2 DEF Given
  <2> QED
    BY <2>2, <2>3, <2>1
<1>9. TypeOK'
  BY <1>1, <1>4, <1>8 DEF TypeOK
<1>10. LoopInv'
  BY <1>1, <1>3, <1>4, <1>8 DEF LoopInv, Given
<1>11. Consistency'
  BY <1>1 DEF Consistency
<1> QED
  BY <1>9, <1>10, <1>11

(* One transfer between two keys, as seen by the types and by the sum.     *)
LEMMA TransferFacts ==
  ASSUME TypeOK, NEW a \in Keys(households), NEW b \in Keys(households), a # b,
         NEW x \in Int, _transfer(a, b, x)
  PROVE  /\ meterDelta' \in [Address -> Int]
         /\ meterDelta'[a] = meterDelta[a] - x
         /\ meterDelta'[b] = meterDelta[b] + x
         /\ \A c \in Address : c # a /\ c # b => meterDelta'[c] = meterDelta[c]
         /\ \A c \in Address : meterDelta'[c] # 0 => c \in Keys(households)
         /\ SumOver(households, meterDelta') = SumOver(households, meterDelta)
<1>1. /\ households \in Seq(Address) /\ Once(households)
      /\ meterDelta \in [Address -> Int] /\ a \in Address /\ b \in Address
  BY Types
<1>2. meterDelta' = [meterDelta EXCEPT ![a] = @ - x, ![b] = @ + x]
  BY DEF _transfer
<1>3. SumOver(households, meterDelta') = SumOver(households, meterDelta)
  <2>1. Moved(Address, households, meterDelta, meterDelta', a, b, x)
    BY <1>1, <1>2 DEF Moved
  <2> QED
    BY <2>1, SumTransfer
<1>4. /\ meterDelta' \in [Address -> Int]
      /\ meterDelta'[a] = meterDelta[a] - x /\ meterDelta'[b] = meterDelta[b] + x
      /\ \A c \in Address : c # a /\ c # b => meterDelta'[c] = meterDelta[c]
  BY <1>1, <1>2
<1>5. \A c \in Address : meterDelta'[c] # 0 => c \in Keys(households)
  BY <1>4 DEF TypeOK
<1> QED
  BY <1>3, <1>4, <1>5

LEMMA GiveInv ==
  ASSUME Inv, Give
  PROVE  Inv'
<1> USE DEF Inv
<1> DEFINE a == First(Sources)
           x == Amount(eAlloc, meterDelta[a])
<1>1. /\ pc = "distribute" /\ eAlloc # 0 /\ Sources # {}
      /\ _transfer(a, to, x) /\ _addTransfer(a, to, x) /\ eAlloc' = eAlloc - x
      /\ UNCHANGED <<households, renewableEnergy, nonRenewableEnergy, pc, split,
                     todo, to, indices, before, mark, nettings>>
  BY DEF Give, ShareDone
<1>2. Sources \in SUBSET Keys(households)
  BY <1>1 DEF LoopInv, Sources
<1>3. a \in Sources
  BY <1>1, <1>2, Types, FirstIn
<1> HIDE DEF a
<1>4. /\ a \in split.hFrom /\ a \in Keys(households) /\ a \in Address
      /\ to \in split.hTo /\ to \in Keys(households) /\ to \in Address
      /\ to \notin todo /\ a # to
      /\ meterDelta[a] \in Int /\ meterDelta[to] \in Int /\ eAlloc \in Int
      /\ split.more \in BOOLEAN
  BY <1>1, <1>3, Types DEF LoopInv, Sources, TypeOK, Split
<1>5. /\ 0 <= Given(eAlloc) /\ Given(eAlloc) <= -Given(meterDelta[to])
      /\ 0 <= Given(meterDelta[a])
  BY <1>1, <1>4 DEF LoopInv
<1>6. /\ x \in Int /\ 0 <= Given(x)
      /\ Given(x) <= Given(eAlloc) /\ Given(x) <= Given(meterDelta[a])
  BY <1>4, <1>5 DEF Given, Magnitude, Amount
<1> HIDE DEF x
<1>7. /\ meterDelta' \in [Address -> Int]
      /\ meterDelta'[a] = meterDelta[a] - x
      /\ meterDelta'[to] = meterDelta[to] + x
      /\ \A c \in Address : c # a /\ c # to => meterDelta'[c] = meterDelta[c]
      /\ \A c \in Address : meterDelta'[c] # 0 => c \in Keys(households)
      /\ SumOver(households, meterDelta') = SumOver(households, meterDelta)
  BY <1>1, <1>4, <1>6, TransferFacts
<1>8. TypeOK'
  <2>1. transfers' \in Seq([from : Address, to : Address, amount : Nat])
    <3>1. Magnitude(x) \in Nat
      BY <1>6 DEF Magnitude
    <3> QED
      BY <1>1, <1>4, <3>1 DEF _addTransfer, TypeOK
  <2>2. eAlloc' \in Int
    BY <1>1, <1>4, <1>6
  <2>3. Keys(households)' = Keys(households)
    BY <1>1 DEF Keys
  <2> QED
    BY <1>1, <1>7, <2>1, <2>2, <2>3 DEF TypeOK
<1>9. LoopInv'
  <2>1. \A b \in split.hFrom :
          /\ 0 <= Given(meterDelta'[b]) /\ Given(meterDelta'[b]) <= Given(before[b])
    <3> SUFFICES ASSUME NEW b \in split.hFrom
                 PROVE  0 <= Given(meterDelta'[b]) /\ Given(meterDelta'[b]) <= Given(before[b])
      OBVIOUS
    <3>1. b \in Address /\ b # to /\ before[b] \in Int /\ meterDelta[b] \in Int
      BY <1>1, <1>4, Types DEF LoopInv, TypeOK
    <3>2. 0 <= Given(meterDelta[b]) /\ Given(meterDelta[b]) <= Given(before[b])
      BY <1>1 DEF LoopInv
    <3>3. CASE b = a
      BY <1>4, <1>6, <1>7, <3>1, <3>2, <3>3 DEF Given
    <3>4. CASE b # a
      BY <1>7, <3>1, <3>2, <3>4 DEF Given
    <3> QED
      BY <3>3, <3>4
  <2>2. \A b \in split.hTo :
          /\ 0 <= -Given(meterDelta'[b]) /\ -Given(meterDelta'[b]) <= -Given(before[b])
    <3> SUFFICES ASSUME NEW b \in split.hTo
                 PROVE  0 <= -Given(meterDelta'[b]) /\ -Given(meterDelta'[b]) <= -Given(before[b])
      OBVIOUS
    <3>1. b \in Address /\ b # a /\ before[b] \in Int /\ meterDelta[b] \in Int
      BY <1>1, <1>4, Types DEF LoopInv, TypeOK
    <3>2. 0 <= -Given(meterDelta[b]) /\ -Given(meterDelta[b]) <= -Given(before[b])
      BY <1>1 DEF LoopInv
    <3>3. CASE b = to
      BY <1>4, <1>5, <1>6, <1>7, <3>1, <3>2, <3>3 DEF Given
    <3>4. CASE b # to
      BY <1>7, <3>1, <3>2, <3>4 DEF Given
    <3> QED
      BY <3>3, <3>4
  <2>3. \A b \in Address \ (split.hFrom \cup split.hTo) : meterDelta'[b] = before[b]
    BY <1>1, <1>4, <1>7 DEF LoopInv
  <2>4. \A b \in todo : b \in Address /\ b # a /\ b # to
    BY <1>1, <1>4 DEF LoopInv, TypeOK, Split
  <2>5. \A b \in todo : meterDelta'[b] # 0 /\ -Given(meterDelta'[b]) <= -Given(split.eTo)
    BY <1>1, <1>7, <2>4 DEF LoopInv, Given
  <2>6. 0 <= Given(eAlloc') /\ (eAlloc' # 0 => Given(eAlloc') <= -Given(meterDelta'[to]))
    BY <1>1, <1>4, <1>5, <1>6, <1>7 DEF Given
  <2>7. /\ split.hFrom \subseteq Keys(households) /\ split.hTo \subseteq Keys(households)
        /\ split.hFrom \cap split.hTo = {}
        /\ 0 <= Given(split.eFrom) /\ Given(split.eFrom) <= -Given(split.eTo)
    BY <1>1 DEF LoopInv
  <2>8. Keys(households)' = Keys(households)
    BY <1>1 DEF Keys
  <2> QED
    BY <1>1, <1>4, <2>1, <2>2, <2>3, <2>5, <2>6, <2>7, <2>8 DEF LoopInv, Given
<1>10. Consistency'
  BY <1>1, <1>7 DEF Consistency
<1> QED
  BY <1>8, <1>9, <1>10

(* While the loops run no delta leaves the interval from zero to what the  *)
(* household had reported.                                                 *)
LEMMA LoopsStayWithin ==
  ASSUME Inv, pc = "distribute"
  PROVE  \A a \in Address : Within(meterDelta[a], before[a])
<1> USE DEF Inv
<1> SUFFICES ASSUME NEW a \in Address PROVE Within(meterDelta[a], before[a])
  OBVIOUS
<1>1. meterDelta[a] \in Int /\ before[a] \in Int /\ split.more \in BOOLEAN
  BY DEF TypeOK, Split
<1>2. CASE a \in split.hFrom
  <2>1. 0 <= Given(meterDelta[a]) /\ Given(meterDelta[a]) <= Given(before[a])
    BY <1>2 DEF LoopInv
  <2> QED
    BY <1>1, <2>1 DEF Given, Within
<1>3. CASE a \in split.hTo
  <2>1. 0 <= -Given(meterDelta[a]) /\ -Given(meterDelta[a]) <= -Given(before[a])
    BY <1>3 DEF LoopInv
  <2> QED
    BY <1>1, <2>1 DEF Given, Within
<1>4. CASE a \in Address \ (split.hFrom \cup split.hTo)
  <2>1. meterDelta[a] = before[a]
    BY <1>4 DEF LoopInv
  <2> QED
    BY <1>1, <2>1 DEF Within
<1> QED
  BY <1>2, <1>3, <1>4

(* The keys are finitely many, so a part of them has a size.               *)
LEMMA KeysCounted ==
  ASSUME households \in Seq(Address), NEW S \in SUBSET Keys(households)
  PROVE  IsFiniteSet(S) /\ Cardinality(S) \in Nat
<1> DEFINE N == Len(households)
<1>1. N \in Nat /\ 1 \in Int
  OBVIOUS
<1>2. IsFiniteSet(1..N)
  BY <1>1, FS_Interval
<1>3. IsFiniteSet(Keys(households))
  <2>1. households \in Surjection(1..N, Keys(households))
    BY DEF Keys, Surjection
  <2> QED
    BY <1>2, <2>1, FS_Surjection
<1>4. IsFiniteSet(S)
  BY <1>3, FS_Subset
<1> QED
  BY <1>4, FS_CardinalityType

LEMMA ResplitInv ==
  ASSUME Inv, Resplit
  PROVE  Inv'
<1> USE DEF Inv
<1> DEFINE s == SplitOf(households, meterDelta)
<1>1. /\ pc = "distribute" /\ pc' = "rest" /\ todo = {} /\ todo' = {}
      /\ split' = s /\ indices' = Cardinality(s.hTo) /\ to' = Zero /\ eAlloc' = 0
      /\ UNCHANGED <<households, meterDelta, renewableEnergy, nonRenewableEnergy,
                     transfers, before, mark, nettings>>
  BY DEF Resplit, store
<1>2. /\ s \in Split /\ s.more \in BOOLEAN
      /\ s.hFrom \subseteq Keys(households) /\ s.hTo \subseteq Keys(households)
      /\ s.more => /\ s.hFrom = {a \in Keys(households) : meterDelta[a] < 0}
                   /\ s.hTo = {a \in Keys(households) : meterDelta[a] > 0}
      /\ ~s.more => /\ s.hFrom = {a \in Keys(households) : meterDelta[a] > 0}
                    /\ s.hTo = {a \in Keys(households) : meterDelta[a] < 0}
  BY Types, SplitFacts DEF Split
<1> HIDE DEF s
<1>3. indices' \in Nat
  BY <1>1, <1>2, Types, KeysCounted
<1>4. Keys(households)' = Keys(households)
  BY <1>1 DEF Keys
<1>5. TypeOK'
  BY <1>1, <1>2, <1>3, <1>4, Types DEF TypeOK
<1>6. LoopInv'
  <2>1. \A a \in Keys(households) : meterDelta[a] \in Int /\ before[a] \in Int
    BY Types
  <2>2. s.hFrom \cap s.hTo = {}
    BY <1>2, <2>1
  <2>3. ASSUME NEW a \in s.hFrom
        PROVE  LET given(x) == IF s.more THEN -x ELSE x
               IN  0 <= given(meterDelta[a]) /\ given(meterDelta[a]) <= given(before[a])
    <3>1. Within(meterDelta[a], before[a]) /\ meterDelta[a] \in Int /\ before[a] \in Int
      BY <1>1, <1>2, <2>1, Types, LoopsStayWithin
    <3>2. CASE s.more
      <4>1. meterDelta[a] < 0
        BY <1>2, <3>2
      <4> QED
        BY <3>1, <3>2, <4>1 DEF Within
    <3>3. CASE ~s.more
      <4>1. meterDelta[a] > 0
        BY <1>2, <3>3
      <4> QED
        BY <3>1, <3>3, <4>1 DEF Within
    <3> QED
      BY <3>2, <3>3
  <2> QED
    BY <1>1, <1>2, <1>4, <2>2, <2>3 DEF LoopInv, Given
<1>7. Consistency'
  BY <1>1 DEF Consistency
<1> QED
  BY <1>5, <1>6, <1>7

LEMMA TransferRestInv ==
  ASSUME Inv, TransferRest
  PROVE  Inv'
<1> USE DEF Inv
<1> DEFINE a == First(Sources)
           x == IF split.more THEN -1 ELSE 1
<1>1. /\ pc = "rest" /\ Sources # {}
      /\ indices' = IF indices = 0 THEN 0 ELSE indices - 1
      /\ UNCHANGED <<households, renewableEnergy, nonRenewableEnergy, transfers, pc,
                     split, todo, to, eAlloc, before, mark, nettings>>
  BY DEF TransferRest
<1>2. PICK b \in RestTargets : _transfer(a, b, x)
  BY DEF TransferRest
<1>3. a \in Sources
  <2>1. Sources \in SUBSET Keys(households)
    BY <1>1 DEF LoopInv, Sources
  <2> QED
    BY <1>1, <2>1, Types, FirstIn
<1> HIDE DEF a
<1>4. /\ a \in split.hFrom /\ a \in Keys(households) /\ a \in Address
      /\ b \in split.hTo /\ b \in Keys(households) /\ a # b
      /\ meterDelta[a] \in Int /\ meterDelta[a] # 0
      /\ split.more \in BOOLEAN /\ x \in Int
  BY <1>1, <1>2, <1>3, Types DEF LoopInv, Sources, RestTargets, TypeOK, Split
<1>5. /\ meterDelta' \in [Address -> Int]
      /\ meterDelta'[a] = meterDelta[a] - x
      /\ \A c \in Address : c # a /\ c # b => meterDelta'[c] = meterDelta[c]
      /\ \A c \in Address : meterDelta'[c] # 0 => c \in Keys(households)
      /\ SumOver(households, meterDelta') = SumOver(households, meterDelta)
  <2> HIDE DEF x
  <2> QED
    BY <1>2, <1>4, TransferFacts
<1>6. Keys(households)' = Keys(households)
  BY <1>1 DEF Keys
<1>7. TypeOK'
  <2>1. indices' \in Nat
    BY <1>1 DEF TypeOK
  <2> QED
    BY <1>1, <1>5, <1>6, <2>1 DEF TypeOK
<1>8. LoopInv'
  <2>1. ASSUME NEW c \in split.hFrom
        PROVE  0 <= Given(meterDelta'[c]) /\ Given(meterDelta'[c]) <= Given(before[c])
    <3>1. c \in Address /\ c # b /\ before[c] \in Int /\ meterDelta[c] \in Int
      BY <1>1, <1>4, Types DEF LoopInv, TypeOK
    <3>2. 0 <= Given(meterDelta[c]) /\ Given(meterDelta[c]) <= Given(before[c])
      BY <1>1 DEF LoopInv
    <3>3. CASE c = a
      BY <1>4, <1>5, <3>1, <3>2, <3>3 DEF Given
    <3>4. CASE c # a
      BY <1>5, <3>1, <3>2, <3>4 DEF Given
    <3> QED
      BY <3>3, <3>4
  <2> QED
    BY <1>1, <1>6, <2>1 DEF LoopInv, Given
<1>9. Consistency'
  BY <1>1, <1>5 DEF Consistency
<1> QED
  BY <1>7, <1>8, <1>9

LEMMA ReturnInv ==
  ASSUME Inv, Return
  PROVE  Inv'
<1> USE DEF Inv
<1>1. /\ pc = "rest" /\ pc' = "idle" /\ split' = NoSplit /\ indices' = 0
      /\ before' = NoDeltas /\ mark' = 0
      /\ UNCHANGED <<households, meterDelta, renewableEnergy, nonRenewableEnergy,
                     transfers, todo, to, eAlloc, nettings>>
  BY DEF Return, store
<1>2. todo = {} /\ eAlloc = 0
  BY <1>1 DEF LoopInv
<1>3. NoSplit \in Split /\ NoDeltas \in [Address -> Int]
  BY DEF NoSplit, NoDeltas, Split
<1>4. Keys(households)' = Keys(households)
  BY <1>1 DEF Keys
<1>5. TypeOK'
  BY <1>1, <1>2, <1>3, <1>4 DEF TypeOK
<1>6. LoopInv' /\ Consistency'
  BY <1>1, <1>2 DEF LoopInv, Consistency
<1> QED
  BY <1>5, <1>6

-----------------------------------------------------------------------------
LEMMA NextInv == Inv /\ [Next]_vars => Inv'
<1> SUFFICES ASSUME Inv, [Next]_vars PROVE Inv'
  OBVIOUS
<1>1. ASSUME NEW a \in Address, addHousehold(a) PROVE Inv'
  BY <1>1, AddInv
<1>2. ASSUME NEW a \in Address, NEW d \in Deltas, updateMeterDelta(a, d) PROVE Inv'
  BY <1>2, UpdateInv
<1>3. CASE getHouseholdAddressesProducers
  BY <1>3, ProducersInv
<1>4. CASE settle
  BY <1>4, SettleInv
<1>5. CASE Settling
  BY <1>5, AllocateInv, GiveInv, ResplitInv, TransferRestInv, ReturnInv DEF Settling
<1>6. CASE UNCHANGED vars
  BY <1>6 DEF vars, store, locals, Inv, TypeOK, LoopInv, Consistency, Given
<1> QED
  BY <1>1, <1>2, <1>3, <1>4, <1>5, <1>6 DEF Next

(* The inductive invariant holds in every reachable state.                 *)
LEMMA AlwaysInv == Spec => []Inv
<1> QED
  BY InitInv, NextInv, PTL DEF Spec

(* Whatever households join and report, and however often they are netted, *)
(* the state of the utility (utility.js) keeps its type.                   *)
THEOREM TypeCorrect == Spec => []TypeOK
<1>1. Inv => TypeOK
  BY DEF Inv
<1> QED
  BY <1>1, AlwaysInv, PTL

(* What settle() finds is what it leaves, at every step on the way: the    *)
(* loops of _proportionalDistribution and the random rest of _transferRest *)
(* move energy and neither create nor lose any.                            *)
THEOREM EnergyConserved == Spec => []Consistency
<1>1. Inv => Consistency
  BY DEF Inv
<1> QED
  BY <1>1, AlwaysInv, PTL

(* The loops move no household past zero or past what it reported, and     *)
(* _transferRest keeps this for the side it empties.                       *)
THEOREM LoopsAreFair == Spec => []FairWhileDistributing
<1>1. ASSUME Inv PROVE FairWhileDistributing
  <2>1. pc = "distribute" => \A a \in Address : Within(meterDelta[a], before[a])
    BY <1>1, LoopsStayWithin
  <2>2. ASSUME pc = "rest", NEW a \in split.hFrom
        PROVE  Within(meterDelta[a], before[a])
    <3>1. 0 <= Given(meterDelta[a]) /\ Given(meterDelta[a]) <= Given(before[a])
      BY <1>1, <2>2 DEF Inv, LoopInv
    <3>2. /\ meterDelta[a] \in Int /\ before[a] \in Int /\ split.more \in BOOLEAN
      BY <1>1, <2>2 DEF Inv, TypeOK, Split
    <3> QED
      BY <3>1, <3>2 DEF Given, Within
  <2> QED
    BY <2>1, <2>2 DEF FairWhileDistributing
<1> QED
  BY <1>1, AlwaysInv, PTL
=============================================================================
