------------------------------- MODULE Utility ------------------------------
(***************************************************************************)
(* The off-chain utility of the netting entity, netting-entity/utility.js. *)
(* The class is a mutable object; its settle() method is modelled loop by  *)
(* loop (variable pc), so that the invariants of the loops can be stated.  *)
(* Households are added and report only between settlements, because       *)
(* JavaScript runs settle() to its end before any other handler.           *)
(***************************************************************************)
EXTENDS Energy, FiniteSets

CONSTANTS Household,    \* addresses of real households
          Zero,         \* ZERO_ADDRESS, the placeholder key
          Deltas,       \* the meter deltas a household may report
          MaxNettings   \* bound: settlements in one behaviour

ASSUME UtilityAssumption ==
  /\ Zero \notin Household
  /\ Deltas \subseteq Int
  /\ MaxNettings \in Nat

Address == Household \cup {Zero}

VARIABLES households,       \* the keys of this.households, in insertion order
          meterDelta,       \* [Address -> Int], 0 for absent addresses
          renewableEnergy, nonRenewableEnergy,
          transfers,        \* this.transfers
          pc,               \* "idle" | "distribute" | "rest"
          split,            \* the result of _getProducersConsumers
          todo,             \* hTo[i..], the receivers the outer loop has left
          to, eAlloc,       \* hTo[i] and what is still to be moved to it
          indices,          \* indices.length in _transferRest
          before,           \* utilityBeforeNetting's deltas (index.js)
          mark,             \* number of transfers when settle() was called
          nettings          \* number of settlements started

store  == <<households, meterDelta, renewableEnergy, nonRenewableEnergy, transfers>>
locals == <<split, todo, to, eAlloc, indices>>
vars   == <<store, pc, locals, before, mark, nettings>>

-----------------------------------------------------------------------------
NoDeltas == [a \in Address |-> 0]
NoSplit  == [hFrom |-> {}, eFrom |-> 0, hTo |-> {}, eTo |-> 0, more |-> FALSE]

_householdExists(a) == a \in Keys(households)

(* A variant, not the code: the sides compared without Math.abs.           *)
SplitOfSigned(order, delta) ==
  [hFrom |-> {a \in Keys(order) : delta[a] < 0}, eFrom |-> Consumed(order, delta),
   hTo |-> {a \in Keys(order) : delta[a] > 0}, eTo |-> Produced(order, delta),
   more |-> Produced(order, delta) > Consumed(order, delta)]

(* _getProducersConsumers: the side with less energy is hFrom, it is       *)
(* emptied; hTo receives.  Members are kept as sets: their order is that   *)
(* of `households`.                                                        *)
SplitOf(order, delta) ==
  LET producers == {a \in Keys(order) : delta[a] > 0}
      consumers == {a \in Keys(order) : delta[a] < 0}
      deltaProducers == Produced(order, delta)
      deltaConsumers == Consumed(order, delta)
  IN  IF deltaProducers > Magnitude(deltaConsumers)
      THEN [hFrom |-> consumers, eFrom |-> deltaConsumers,
            hTo |-> producers, eTo |-> deltaProducers, more |-> TRUE]
      ELSE [hFrom |-> producers, eFrom |-> deltaProducers,
            hTo |-> consumers, eTo |-> deltaConsumers, more |-> FALSE]

Position(a) == CHOOSE k \in 1..Len(households) : households[k] = a
First(S) == CHOOSE a \in S : \A b \in S : Position(a) <= Position(b)

(* `delete this.households[ZERO_ADDRESS]`                                  *)
WithoutPlaceholder ==
  IF _householdExists(Zero)
  THEN [k \in 1..(Len(households) - 1) |->
          IF k < Position(Zero) THEN households[k] ELSE households[k + 1]]
  ELSE households

(* A variant, not the code: Math.floor for Math.round.                     *)
JsFloor(p, q) == {(IF q < 0 THEN -p ELSE p) \div Magnitude(q)}

(* Math.round(eFrom * (m / eTo)) with p = eFrom * m and q = eTo: the        *)
(* nearest integer, halves up.  The quotient is a double: when it is not   *)
(* exact (the divisor is no power of two) a half may come out just below   *)
(* and be rounded down.                                                    *)
JsRound(p, q) ==
  LET n == IF q < 0 THEN -p ELSE p
      d == Magnitude(q)
      r == (2 * n + d) \div (2 * d)
      inexactHalf == 2 * d * r = 2 * n + d /\ d \notin {2^k : k \in 0..30}
  IN  {r} \cup (IF inexactHalf THEN {r - 1} ELSE {})

(* A variant, not the code: the receiver is forgotten.                     *)
_transferNowhere(from, dest, amount) ==
  meterDelta' = [meterDelta EXCEPT ![from] = @ - amount]

_transfer(from, dest, amount) ==
  meterDelta' = [meterDelta EXCEPT ![from] = @ - amount, ![dest] = @ + amount]

(* A variant, not the code: the share is recorded, not what was given.     *)
_addTransferOfShare(from, dest, amount) ==
  transfers' = Append(transfers,
                 [from |-> dest, to |-> from, amount |-> Magnitude(eAlloc)])

(* _addTransfer with mode = false, the only way settle() calls it.         *)
_addTransfer(from, dest, amount) ==
  transfers' = Append(transfers,
                 [from |-> dest, to |-> from, amount |-> Magnitude(amount)])

(* Members of the giving side that still hold energy.                      *)
Sources == {a \in split.hFrom : meterDelta[a] # 0}
-----------------------------------------------------------------------------
Init ==
  /\ households = <<Zero>>
  /\ meterDelta = NoDeltas
  /\ renewableEnergy = 0
  /\ nonRenewableEnergy = 0
  /\ transfers = <<>>
  /\ pc = "idle"
  /\ split = NoSplit
  /\ todo = {} /\ to = Zero /\ eAlloc = 0 /\ indices = 0
  /\ before = NoDeltas /\ mark = 0
  /\ nettings = 0

(* A variant, not the code: the address may be registered already.         *)
addHouseholdAgain(a) ==
  /\ pc = "idle"
  /\ households' = Append(households, a)
  /\ meterDelta' = [meterDelta EXCEPT ![a] = 0]
  /\ UNCHANGED <<renewableEnergy, nonRenewableEnergy, transfers, pc, locals,
                 before, mark, nettings>>

addHousehold(a) ==
  /\ pc = "idle"
  /\ ~_householdExists(a)
  /\ households' = Append(households, a)
  /\ meterDelta' = [meterDelta EXCEPT ![a] = 0]
  /\ UNCHANGED <<renewableEnergy, nonRenewableEnergy, transfers, pc, locals,
                 before, mark, nettings>>

updateMeterDelta(a, d) ==
  /\ pc = "idle"
  /\ _householdExists(a)
  /\ meterDelta' = [meterDelta EXCEPT ![a] = d]
  /\ UNCHANGED <<households, renewableEnergy, nonRenewableEnergy, transfers,
                 pc, locals, before, mark, nettings>>

(* The getter that zk-handler calls deletes the placeholder as well.       *)
getHouseholdAddressesProducers ==
  /\ pc = "idle"
  /\ _householdExists(Zero)
  /\ households' = WithoutPlaceholder
  /\ meterDelta' = [meterDelta EXCEPT ![Zero] = 0]
  /\ UNCHANGED <<renewableEnergy, nonRenewableEnergy, transfers, pc, locals,
                 before, mark, nettings>>

(* settle(), up to the first loop: drop the placeholder, split the         *)
(* households, update the statistics, enter _proportionalDistribution.     *)
settle ==
  LET order == WithoutPlaceholder
      delta == [meterDelta EXCEPT ![Zero] = 0]
      s     == SplitOf(order, delta)
  IN  /\ pc = "idle"
      /\ nettings < MaxNettings
      /\ households' = order
      /\ meterDelta' = delta
      /\ before' = delta
      /\ mark' = Len(transfers)
      /\ split' = s
      /\ renewableEnergy' = renewableEnergy + (IF s.more THEN s.eTo ELSE s.eFrom)
      /\ nonRenewableEnergy' =
           nonRenewableEnergy + (IF s.more THEN 0 ELSE Magnitude(s.eFrom + s.eTo))
      /\ todo' = s.hTo
      /\ pc' = "distribute"
      /\ nettings' = nettings + 1
      /\ UNCHANGED <<transfers, to, eAlloc, indices>>

(* The inner loop ends when the share is placed or every source is empty.  *)
ShareDone == eAlloc = 0 \/ Sources = {}

(* A variant, not the code: the outer loop does not advance.               *)
AllocateAgain ==
  /\ pc = "distribute"
  /\ ShareDone
  /\ todo # {}
  /\ to' = First(todo)
  /\ eAlloc' \in JsRound(split.eFrom * meterDelta[First(todo)], split.eTo)
  /\ UNCHANGED <<store, pc, split, todo, indices, before, mark, nettings>>

(* Outer loop: the next receiver and its rounded share.                    *)
Allocate ==
  /\ pc = "distribute"
  /\ ShareDone
  /\ todo # {}
  /\ to' = First(todo)
  /\ todo' = todo \ {First(todo)}
  /\ eAlloc' \in JsRound(split.eFrom * meterDelta[First(todo)], split.eTo)
  /\ UNCHANGED <<store, pc, split, indices, before, mark, nettings>>

(* A variant, not the code: whatever is asked is given.                    *)
AmountAsked(asked, available) == asked

(* All that is asked, or all there is.                                     *)
Amount(asked, available) ==
  IF Magnitude(asked) <= Magnitude(available) THEN asked ELSE available

(* Inner loop: the next source with energy gives.                          *)
Give ==
  LET from   == First(Sources)
      amount == Amount(eAlloc, meterDelta[from])
  IN  /\ pc = "distribute"
      /\ ~ShareDone
      /\ _transfer(from, to, amount)
      /\ _addTransfer(from, to, amount)
      /\ eAlloc' = eAlloc - amount
      /\ UNCHANGED <<households, renewableEnergy, nonRenewableEnergy, pc, split,
                     todo, to, indices, before, mark, nettings>>

(* _proportionalDistribution has returned: split again for _transferRest.  *)
Resplit ==
  LET s == SplitOf(households, meterDelta)
  IN  /\ pc = "distribute"
      /\ ShareDone
      /\ todo = {}
      /\ pc' = "rest"
      /\ split' = s
      /\ indices' = Cardinality(s.hTo)
      /\ to' = Zero
      /\ eAlloc' = 0
      /\ UNCHANGED <<store, todo, before, mark, nettings>>

(* hTo[randomIndice] for randomIndice in 0..indices.length-1 (0 when the   *)
(* list is exhausted): one of the first members of hTo, not of the ones    *)
(* that have not been drawn yet.                                           *)
RestTargets ==
  {a \in split.hTo :
     \/ Cardinality({b \in split.hTo : Position(b) < Position(a)}) < indices
     \/ a = First(split.hTo)}

TransferRest ==
  /\ pc = "rest"
  /\ Sources # {}
  /\ \E a \in RestTargets :
       _transfer(First(Sources), a, IF split.more THEN -1 ELSE 1)
  /\ indices' = IF indices = 0 THEN 0 ELSE indices - 1
  /\ UNCHANGED <<households, renewableEnergy, nonRenewableEnergy, transfers, pc,
                 split, todo, to, eAlloc, before, mark, nettings>>

Return ==
  /\ pc = "rest"
  /\ Sources = {}
  /\ pc' = "idle"
  /\ split' = NoSplit
  /\ indices' = 0
  /\ before' = NoDeltas
  /\ mark' = 0
  /\ UNCHANGED <<store, todo, to, eAlloc, nettings>>

Settling == Allocate \/ Give \/ Resplit \/ TransferRest \/ Return

Next ==
  \/ \E a \in Address : addHousehold(a)
  \/ \E a \in Address, d \in Deltas : updateMeterDelta(a, d)
  \/ getHouseholdAddressesProducers
  \/ settle
  \/ Settling

Spec == Init /\ [][Next]_vars

(* settle() is synchronous code: once called it runs.                      *)
FairSpec == Spec /\ WF_vars(Settling)
-----------------------------------------------------------------------------
(***************************************************************************)
(* Properties                                                              *)
(***************************************************************************)
Split == [hFrom : SUBSET Address, eFrom : Int, hTo : SUBSET Address, eTo : Int,
          more : BOOLEAN]

(* Every variable has its type; no key is twice in the households object,  *)
(* and only what is a key can carry energy.                                *)
TypeOK ==
  /\ households \in Seq(Address)
  /\ \A k, l \in 1..Len(households) : households[k] = households[l] => k = l
  /\ meterDelta \in [Address -> Int]
  /\ \A a \in Address : meterDelta[a] # 0 => a \in Keys(households)
  /\ renewableEnergy \in Nat /\ nonRenewableEnergy \in Nat
  /\ transfers \in Seq([from : Address, to : Address, amount : Nat])
  /\ pc \in {"idle", "distribute", "rest"}
  /\ split \in Split
  /\ todo \subseteq split.hTo
  /\ to \in Address /\ eAlloc \in Int /\ indices \in Nat
  /\ before \in [Address -> Int] /\ mark \in Nat /\ nettings \in 0..MaxNettings

(* Consistency (zokrates-code/README.md): whatever the rounding and the    *)
(* random rest do, the sum of all deltas never moves during settle().      *)
Consistency ==
  pc # "idle" => SumOver(households, meterDelta) = SumOver(households, before)

(* a lies between 0 and b.                                                 *)
Within(x, b) == (0 <= x /\ x <= b) \/ (b <= x /\ x <= 0)

(* Weak fairness of the proportional loops: while they run no household    *)
(* changes sides or ends with more than it reported, although rounded      *)
(* shares may add up to more than the givers have.  The side that is       *)
(* emptied keeps this through _transferRest.                               *)
FairWhileDistributing ==
  /\ pc = "distribute" => \A a \in Address : Within(meterDelta[a], before[a])
  /\ pc = "rest" => \A a \in split.hFrom : Within(meterDelta[a], before[a])

(* What rounding leaves for _transferRest is at most half a unit for each  *)
(* household that received, so its unit-by-unit loop is short.             *)
Receivers == {a \in Address : IF split.more THEN before[a] > 0 ELSE before[a] < 0}
RestIsSmall ==
  pc = "rest" =>
    2 * Magnitude(SumOver(households,
          [a \in Address |-> IF a \in split.hFrom THEN meterDelta[a] ELSE 0]))
      <= Cardinality(Receivers)

(* settle() splits the households a second time, after the loops have      *)
(* changed the deltas: the roles of the two sides must not have swapped,   *)
(* and while energy is left there is a household to give it to (else the   *)
(* while loop of _transferRest would never end).                           *)
ResplitAgrees ==
  pc = "rest" =>
    /\ split.more = SplitOf(households, before).more
    /\ split.hFrom \subseteq SplitOf(households, before).hFrom
    /\ split.hTo \subseteq SplitOf(households, before).hTo
    /\ Sources # {} => split.hTo # {}

(* Until the rest is drawn, the transfers recorded by this settlement      *)
(* account for every change of every delta.                                *)
Recorded(end, a) ==
  SumOver([k \in 1..(Len(transfers) - mark) |-> mark + k],
          [k \in 1..Len(transfers) |->
             IF transfers[k][end] = a THEN transfers[k].amount ELSE 0])
TransfersExplain ==
  pc = "distribute" =>
    \A a \in Address :
      Magnitude(before[a]) - Magnitude(meterDelta[a]) =
        Recorded("from", a) + Recorded("to", a)

(* The loop invariant behind the properties above.  Given(x) turns a       *)
(* delta of the giving side, and an amount on its way, into a natural.     *)
Given(x) == IF split.more THEN -x ELSE x

LoopInv ==
  /\ pc # "idle" =>
       /\ split.hFrom \subseteq Keys(households)
       /\ split.hTo \subseteq Keys(households)
       /\ split.hFrom \cap split.hTo = {}
       /\ \A a \in split.hFrom :
            0 <= Given(meterDelta[a]) /\ Given(meterDelta[a]) <= Given(before[a])
  /\ pc = "distribute" =>
       /\ \A a \in split.hTo :
            0 <= -Given(meterDelta[a]) /\ -Given(meterDelta[a]) <= -Given(before[a])
       /\ \A a \in Address \ (split.hFrom \cup split.hTo) : meterDelta[a] = before[a]
       /\ 0 <= Given(split.eFrom) /\ Given(split.eFrom) <= -Given(split.eTo)
       /\ \A a \in todo : /\ meterDelta[a] # 0
                          /\ -Given(meterDelta[a]) <= -Given(split.eTo)
       /\ 0 <= Given(eAlloc)
       /\ eAlloc # 0 => /\ to \in split.hTo \ todo
                        /\ Given(eAlloc) <= -Given(meterDelta[to])
  /\ pc # "distribute" => todo = {} /\ eAlloc = 0

(* settle() returns: the while loop of _transferRest and the loops of      *)
(* _proportionalDistribution end.                                          *)
SettleReturns == pc # "idle" ~> pc = "idle"

(* settle(), seen as one step at its return, is a netting: the deltas of   *)
(* an unfinished settlement are not visible to any other handler.          *)
Promise == INSTANCE Netting WITH
  Address      <- Household,
  Deltas       <- Deltas,
  roll         <- WithoutPlaceholder,
  balance      <- [a \in Household |-> IF pc = "idle" THEN meterDelta[a] ELSE before[a]],
  renewable    <- IF pc = "idle" THEN renewableEnergy
                  ELSE renewableEnergy - Produced(households, before),
  nonRenewable <- IF pc = "idle" THEN nonRenewableEnergy
                  ELSE nonRenewableEnergy
                       - Positive(-SumOver(households, before))
ImplementsNetting == Promise!Spec

(* "Simply, a settlement never makes things worse"                         *)
(* (zokrates-code/README.md:51): no household ends with a larger balance,  *)
(* of either sign, than it reported.                                       *)
NeverWorse ==
  pc = "rest" =>
    \A a \in Keys(households) : Magnitude(meterDelta[a]) <= Magnitude(before[a])
=============================================================================
