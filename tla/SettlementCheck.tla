--------------------------- MODULE SettlementCheck ---------------------------
(***************************************************************************)
(* What becomes of a settlement outside the netting entity: zk-handler.js  *)
(* turns the deltas into the arguments of a ZoKrates program, the program  *)
(* written by zokrates-code/zoKratesCodeGenerator.js checks them and       *)
(* returns their hashes, and the contract of the same generator compares   *)
(* the hashes with those the households registered.  All of it is pure:    *)
(* predicates on the deltas before and after a run of Utility's settle().  *)
(* A hash is modelled by what is hashed, in a sequence of one; the empty   *)
(* sequence is the [0, 0] that stands for no energy.                       *)
(***************************************************************************)
EXTENDS Utility

CONSTANTS Prime,      \* the order of the program's field
          MaxClaim    \* bound: the largest delta claimed after a settlement

ASSUME SettlementAssumption == {Prime, MaxClaim} \subseteq Nat

(* The field has room for the sums of a neighbourhood: its order has 254   *)
(* bits, a delta is metered in watt-seconds (helpers/conversion.js), and   *)
(* the registry of households is finite.                                   *)
ASSUME FieldAssumption ==
  LET N == Cardinality(Household)
  IN  /\ IsFiniteSet(Household)
      /\ N * N < Prime
      /\ \A x \in Deltas : 2 * N * Magnitude(x) < Prime

-----------------------------------------------------------------------------
(* zk-handler.js: generateProof.                                           *)

(* Array.filter: the entries that are in S, in their order.  A recursive   *)
(* function like SumOver, so that it can be unrolled in a proof.           *)
Filtered(list, S) ==
  LET s[k \in 0..Len(list)] ==
        IF k = 0 THEN <<>>
        ELSE IF list[k] \in S THEN Append(s[k - 1], list[k]) ELSE s[k - 1]
  IN  s[Len(list)]

(* A household that reported nothing counts as a producer.                 *)
ProducerAddresses(order, d) == Filtered(order, {a \in Keys(order) : d[a] >= 0})
ConsumerAddresses(order, d) == Filtered(order, {a \in Keys(order) : d[a] < 0})

hhAddresses(order, d) == ProducerAddresses(order, d) \o ConsumerAddresses(order, d)

(* A variant, not the code: consumers are selected again after netting.    *)
ArgumentsRegrouped(order, b, a) ==
  LET Deltas2(hhs, d) == [k \in 1..Len(hhs) |-> Magnitude(d[hhs[k]])]
  IN  Deltas2(hhAddresses(order, b), b) \o Deltas2(hhAddresses(order, a), a)

(* Before and after: producers as they are, consumers without sign, both   *)
(* grouped by what they were before.                                       *)
Arguments(order, b, a) ==
  LET producers == ProducerAddresses(order, b)
      consumers == ConsumerAddresses(order, b)
      deltas(d) == [k \in 1..Len(producers) |-> d[producers[k]]]
                     \o [k \in 1..Len(consumers) |-> Magnitude(d[consumers[k]])]
  IN  deltas(b) \o deltas(a)

-----------------------------------------------------------------------------
(* The program generated for wE producers and nE consumers.  Its values    *)
(* are elements of a prime field.                                          *)

Total(hh) == SumOver([i \in 1..Len(hh) |-> i], hh) % Prime
deltaProducers(hh) == Total(hh)
deltaConsumers(hh) == Total(hh)
sumProducers(hh)   == Total(hh)
sumConsumers(hh)   == Total(hh)

calculateTotalDelta(producers, consumers) ==
  LET p == deltaProducers(producers)
      c == deltaConsumers(consumers)
  IN  IF p > c THEN p - c ELSE c - p

(* Violations of weak fairness.  The loop of the producers ends before the *)
(* last one.                                                               *)
validateFairnessProducers(hh, hhNet) ==
  Cardinality({i \in 1..(Len(hh) - 1) : hhNet[i] > hh[i]})

validateFairnessConsumers(hh, hhNet) ==
  Cardinality({i \in 1..Len(hh) : hhNet[i] > hh[i]})

validateZeroNetProducers(hh, epsilon) == Cardinality({i \in 1..Len(hh) : hh[i] > epsilon})
validateZeroNetConsumers(hh, epsilon) == Cardinality({i \in 1..Len(hh) : hh[i] > epsilon})

(* The side with less energy has none left, up to epsilon.                 *)
ZeroNet(producersAfterNet, consumersAfterNet, epsilon) ==
  IF sumProducers(producersAfterNet) <= sumConsumers(consumersAfterNet)
  THEN validateZeroNetProducers(producersAfterNet, epsilon) = 0
  ELSE validateZeroNetConsumers(consumersAfterNet, epsilon) = 0

(* main: the assertions a witness has to satisfy.  The program has a fixed *)
(* number of arguments.                                                    *)
main(wE, nE, args) ==
  LET field == [k \in 1..Len(args) |-> args[k] % Prime]
      producersBeforeNet == SubSeq(field, 1, wE)
      consumersBeforeNet == SubSeq(field, wE + 1, wE + nE)
      producersAfterNet  == SubSeq(field, wE + nE + 1, 2 * wE + nE)
      consumersAfterNet  == SubSeq(field, 2 * wE + nE + 1, 2 * (wE + nE))
  IN  /\ Len(args) = 2 * (wE + nE)
      /\ calculateTotalDelta(producersBeforeNet, consumersBeforeNet)
           = calculateTotalDelta(producersAfterNet, consumersAfterNet)
      /\ validateFairnessProducers(producersBeforeNet, producersAfterNet) = 0
      /\ validateFairnessConsumers(consumersBeforeNet, consumersAfterNet) = 0
      /\ ZeroNet(producersAfterNet, consumersAfterNet, nE + wE - 1)

(* A variant, not the code: zero is hashed like any other delta.           *)
PackedAlways(delta) == <<delta>>
Packed(delta) == IF delta = 0 THEN <<>> ELSE <<delta>>

(* What main returns: the hashes in the order of the arguments.            *)
Outputs(args) == [k \in 1..Len(args) |-> Packed(args[k])]

-----------------------------------------------------------------------------
(* The generated contract, on the hashes that the proof makes public.      *)

(* The slots _concatNextHash stops at, one call after the other.           *)
NonZeroSlots(hashes) ==
  LET half == 1..(Len(hashes) \div 2)
  IN  Filtered([k \in half |-> k], {k \in half : hashes[k] # <<>>})

(* _checkHashes against the hashes the households registered.              *)
_checkHashes(hhs, registered, hashes) ==
  LET slots == NonZeroSlots(hashes)
  IN  /\ Len(hhs) <= Len(slots)
      /\ \A n \in 1..Len(hhs) : registered[hhs[n]] = hashes[slots[n]]

(* A variant, not the code: the slot of the n-th household, not of the     *)
(* n-th hash that is not zero.                                             *)
AfterNettingDeltaByRank(hashes, n) == hashes[n]

(* _updateAfterNettingDelta: what is stored for the n-th household.        *)
AfterNettingDelta(hashes, n) ==
  hashes[NonZeroSlots(hashes)[n] + Len(hashes) \div 2]

(* packAndHash: what a household registers of its delta.                   *)
packAndHash(delta) == <<Magnitude(delta)>>

-----------------------------------------------------------------------------
(***************************************************************************)
(* Properties                                                              *)
(***************************************************************************)
(* settle() is about to return: meterDelta is utilityAfterNetting's.       *)
Settled == pc = "rest" /\ Sources = {}

(* The sizes of a program that is generated for the households.            *)
Producers == Len(ProducerAddresses(households, before))
Consumers == Len(ConsumerAddresses(households, before))
Generated == Producers > 0 /\ Consumers > 0

(* An honest settlement that leaves every household between what it        *)
(* reported and zero is never refused, whatever the rounding left, and one *)
(* whose random rest pushed a household past zero always is.  The program  *)
(* does not compare the last producer: that no settlement slips through    *)
(* there rests on _transferRest, which never draws the last receiver a     *)
(* second time.  A negative argument is read modulo the field's order.     *)
HonestCheck ==
  Settled /\ Generated =>
    (main(Producers, Consumers, Arguments(households, before, meterDelta))
       <=> \A a \in Keys(households) : Within(meterDelta[a], before[a]))

(* The hashes, through the program's order and the contract's skipping of  *)
(* zeros, meet the households they belong to: the contract accepts a list  *)
(* cut off at any length as long as nobody on it reported zero, refuses it *)
(* otherwise (a household without energy blocks the netting), and stores   *)
(* for each household the hash of its own delta after the netting, or the  *)
(* zero that stands for none.                                              *)
HashesMeetHouseholds ==
  LET hhs    == hhAddresses(households, before)
      hashes == Outputs(Arguments(households, before, meterDelta))
      registered == [a \in Address |-> packAndHash(before[a])]
  IN  Settled =>
        \A m \in 1..Len(hhs) :
          LET listed == SubSeq(hhs, 1, m)
          IN  /\ _checkHashes(listed, registered, hashes)
                   <=> \A n \in 1..m : before[hhs[n]] # 0
              /\ _checkHashes(listed, registered, hashes) =>
                   \A n \in 1..m :
                     Within(meterDelta[hhs[n]], before[hhs[n]]) =>
                       AfterNettingDelta(hashes, n) = Packed(Magnitude(meterDelta[hhs[n]]))

(* "Consistency: After a successful settlement the total energy balance of *)
(* the system remains unchanged" (zokrates-code/README.md:43): no claim    *)
(* about the deltas after netting passes the check unless producers minus  *)
(* consumers stay what they were.                                          *)
AcceptedConserves ==
  LET all == Producers + Consumers
      b == SubSeq(Arguments(households, before, before), 1, all)
      balance(s) == Total(SubSeq(s, 1, Producers)) - Total(SubSeq(s, Producers + 1, all))
  IN  pc = "distribute" /\ todo = split.hTo /\ Generated =>
        \A claim \in [1..all -> 0..MaxClaim] :
          main(Producers, Consumers, b \o claim) => balance(claim) = balance(b)
=============================================================================
