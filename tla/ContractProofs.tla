--------------------------- MODULE ContractProofs ---------------------------
(***************************************************************************)
(* The contracts for any accounts, hashes, number of slots and calls:      *)
(* first DUtility.tla, then OwnedSet.tla, which keeps its index.           *)
(***************************************************************************)
EXTENDS OwnedSet, FiniteSetTheorems, SequenceTheorems, TLAPS

USE DUtilityAssumption

(* Every non-empty set of naturals has a least element.                    *)
LEMMA Least ==
  ASSUME NEW S \in SUBSET Nat, S # {}
  PROVE  \E k \in S : \A m \in S : k <= m
<1>1. PICK k \in S : \A m \in S : ~(<<m, k>> \in OpToRel(<, Nat))
  BY NatLessThanWellFounded, WFMin
<1>2. \A m \in S : ~(m < k)
  BY <1>1 DEF OpToRel
<1> QED
  BY <1>2

(* Every n up to the number of the hashes seen has its slot.               *)
LEMMA SlotExists ==
  ASSUME NEW before, NEW n \in 1..Cardinality(Seen(before))
  PROVE  SlotOf(before, n) \in Seen(before)
<1> DEFINE S == Seen(before)
           Upto(i) == {l \in S : l <= i}
           C(i) == Cardinality(Upto(i))
           Enough == {i \in 0..Slots : n <= C(i)}
<1>1. S \subseteq 1..Slots /\ \A l \in S : l \in Int /\ 1 <= l /\ l <= Slots
  BY DEF Seen
<1> HIDE DEF S
<1>2. \A i \in 0..Slots : IsFiniteSet(Upto(i)) /\ C(i) \in Nat
  <2>1. IsFiniteSet(1..Slots)
    BY FS_Interval
  <2>2. \A i \in 0..Slots : Upto(i) \in SUBSET (1..Slots)
    BY <1>1
  <2> HIDE DEF Upto
  <2> QED
    BY <2>1, <2>2, FS_Subset, FS_CardinalityType
<1>3. C(0) = 0
  <2>1. \A l \in S : ~(l <= 0)
    BY <1>1
  <2>2. Upto(0) = {}
    BY <2>1
  <2> QED
    BY <2>2, FS_EmptySet
<1>4. C(Slots) = Cardinality(S)
  <2>1. Upto(Slots) = S
    BY <1>1
  <2> QED
    BY <2>1
<1>5. ASSUME NEW i \in 1..Slots PROVE C(i) = IF i \in S THEN C(i - 1) + 1 ELSE C(i - 1)
  <2>1. i - 1 \in 0..Slots /\ i \notin Upto(i - 1)
    OBVIOUS
  <2>2. \A l \in S : l <= i <=> l <= i - 1 \/ l = i
    BY <1>1
  <2>3. CASE i \in S
    <3>1. Upto(i) = Upto(i - 1) \cup {i}
      BY <2>3, <2>2, Zenon
    <3> QED
      BY <1>2, <2>1, <2>3, <3>1, FS_AddElement
  <2>4. CASE i \notin S
    <3>1. Upto(i) = Upto(i - 1)
      BY <2>4, <2>2, Zenon
    <3> QED
      BY <2>4, <3>1
  <2> QED
    BY <2>3, <2>4
<1> HIDE DEF C
<1>6. Slots \in Enough /\ Enough \in SUBSET Nat
  BY <1>4 DEF S
<1>7. PICK i \in Enough : \A m \in Enough : i <= m
  <2> HIDE DEF Enough
  <2> QED
    BY <1>6, Least
<1>8. n \in Nat \ {0} /\ i \in 1..Slots
  BY <1>3
<1>9. i - 1 \in 0..Slots /\ i - 1 \notin Enough
  BY <1>7, <1>8
<1>10. C(i - 1) < n
  <2>1. C(i - 1) \in Nat
    BY <1>2, <1>9 DEF C
  <2>2. ~(n <= C(i - 1))
    BY <1>9
  <2> QED
    BY <1>8, <2>1, <2>2
<1>11. i \in S /\ C(i) = n
  <2>1. C(i) \in Nat /\ C(i - 1) \in Nat
    BY <1>2, <1>8, <1>9 DEF C
  <2> QED
    BY <1>5, <1>7, <1>8, <1>10, <2>1
<1>12. \E k \in Seen(before) : Cardinality({l \in Seen(before) : l <= k}) = n
  BY <1>11 DEF S, C
<1> QED
  BY <1>12 DEF SlotOf

(* A household that is listed is listed last somewhere.                    *)
LEMMA LastExists ==
  ASSUME NEW hhs \in Seq(Account), NEW a, \E n \in 1..Len(hhs) : hhs[n] = a
  PROVE  LastListing(hhs, a) \in 1..Len(hhs) /\ hhs[LastListing(hhs, a)] = a
<1> DEFINE N == Len(hhs)
           K == {N - n : n \in {m \in 1..N : hhs[m] = a}}
<1>1. N \in Nat
  OBVIOUS
<1>2. K \in SUBSET Nat /\ K # {}
  BY <1>1
<1>3. PICK k \in K : \A m \in K : k <= m
  <2> HIDE DEF K
  <2> QED
    BY <1>2, Least
<1>4. PICK n \in 1..N : hhs[n] = a /\ k = N - n
  OBVIOUS
<1>5. \A m \in (n + 1)..N : hhs[m] # a
  <2> SUFFICES ASSUME NEW m \in (n + 1)..N, hhs[m] = a PROVE FALSE
    OBVIOUS
  <2>1. m \in 1..N /\ N - m \in K
    BY <1>1
  <2>2. N - n <= N - m
    BY <1>3, <1>4, <2>1
  <2> QED
    BY <1>1, <2>2
<1> QED
  BY <1>4, <1>5 DEF LastListing
-----------------------------------------------------------------------------
duInv == duTypeOK /\ CleanSlate

LEMMA HouseholdTypes ==
  /\ NoHousehold \in Household /\ NoHousehold.initialized = FALSE
  /\ \A hh \in Household : Registered(hh) \in Household /\ Registered(hh).initialized = TRUE
  /\ \A hh \in Household, h \in AnyHash :
       /\ [hh EXCEPT !.renewableEnergy = h] \in Household
       /\ [hh EXCEPT !.nonRenewableEnergy = h] \in Household
       /\ [hh EXCEPT !.afterNettingDelta = h] \in Household
       /\ [hh EXCEPT !.renewableEnergy = h].initialized = hh.initialized
       /\ [hh EXCEPT !.nonRenewableEnergy = h].initialized = hh.initialized
       /\ [hh EXCEPT !.afterNettingDelta = h].initialized = hh.initialized
BY DEF NoHousehold, Household, Registered, AnyHash

LEMMA duInitInv == duInit => duInv
<1> SUFFICES ASSUME duInit PROVE duInv
  OBVIOUS
<1>1. households = [a \in Account |-> NoHousehold]
  BY DEF duInit
<1>2. households \in [Account -> Household] /\ CleanSlate
  BY <1>1, HouseholdTypes DEF CleanSlate
<1>3. owner \in Account \cup {NoAddress} /\ alive \in BOOLEAN /\ oversized \in BOOLEAN
  BY DEF duInit
<1>4. verifier \in Account \cup {NoAddress} /\ transfers \in Nat
  BY DEF duInit
<1> QED
  BY <1>2, <1>3, <1>4 DEF duInv, duTypeOK

(* What the steps that change one household's entry have in common.        *)
LEMMA EntryInv ==
  ASSUME duInv, NEW a \in Account, NEW hh \in Household,
         households' = [households EXCEPT ![a] = hh],
         hh.initialized \/ hh = NoHousehold,
         UNCHANGED <<owner, alive, verifier, transfers, oversized>>
  PROVE  duInv'
<1>1. households' \in [Account -> Household]
  BY DEF duInv, duTypeOK
<1>2. \A b \in Account : households'[b] = IF b = a THEN hh ELSE households[b]
  BY DEF duInv, duTypeOK
<1> QED
  BY <1>1, <1>2 DEF duInv, duTypeOK, CleanSlate, householdExists

LEMMA HouseholdCallInv ==
  ASSUME duInv, NEW sender \in Account, householdCall(sender)
  PROVE  duInv'
<1>1. households[sender] \in Household
  BY DEF duInv, duTypeOK
<1>2. ASSUME NEW h \in AnyHash, updateRenewableEnergy(sender, h) PROVE duInv'
  <2>1. PICK hh : hh = [households[sender] EXCEPT !.renewableEnergy = h]
    OBVIOUS
  <2>2. hh \in Household /\ hh.initialized
    BY <1>1, <1>2, <2>1, HouseholdTypes DEF updateRenewableEnergy, householdExists
  <2>3. households' = [households EXCEPT ![sender] = hh]
    BY <1>2, <2>1 DEF updateRenewableEnergy
  <2>4. UNCHANGED <<owner, alive, verifier, transfers, oversized>>
    BY <1>2 DEF updateRenewableEnergy
  <2> QED
    BY <2>2, <2>3, <2>4, EntryInv
<1>3. ASSUME NEW h \in AnyHash, updateNonRenewableEnergy(sender, h) PROVE duInv'
  <2>1. PICK hh : hh = [households[sender] EXCEPT !.nonRenewableEnergy = h]
    OBVIOUS
  <2>2. hh \in Household /\ hh.initialized
    BY <1>1, <1>3, <2>1, HouseholdTypes DEF updateNonRenewableEnergy, householdExists
  <2>3. households' = [households EXCEPT ![sender] = hh]
    BY <1>3, <2>1 DEF updateNonRenewableEnergy
  <2>4. UNCHANGED <<owner, alive, verifier, transfers, oversized>>
    BY <1>3 DEF updateNonRenewableEnergy
  <2> QED
    BY <2>2, <2>3, <2>4, EntryInv
<1> QED
  BY <1>2, <1>3 DEF householdCall

LEMMA OwnerCallInv ==
  ASSUME duInv, NEW sender \in Account, ownerCall(sender)
  PROVE  duInv'
<1>1. ASSUME NEW a \in Account, addHousehold(sender, a) PROVE duInv'
  <2>1. households[a] \in Household
    BY DEF duInv, duTypeOK
  <2> QED
    BY <1>1, <2>1, HouseholdTypes, EntryInv DEF addHousehold
<1>2. ASSUME NEW a \in Account, removeHousehold(sender, a) PROVE duInv'
  BY <1>2, HouseholdTypes, EntryInv DEF removeHousehold, Removed
<1>3. ASSUME NEW v \in Account, setVerifier(sender, v) PROVE duInv'
  BY <1>3 DEF setVerifier, duInv, duTypeOK, CleanSlate, householdExists
<1>4. ASSUME NEW a \in Account, transferOwnership(sender, a) PROVE duInv'
  BY <1>4 DEF transferOwnership, duInv, duTypeOK, CleanSlate, householdExists
<1>5. CASE renounceOwnership(sender)
  BY <1>5 DEF renounceOwnership, duInv, duTypeOK, CleanSlate, householdExists
<1>6. CASE close(sender)
  <2>1. /\ alive' = FALSE /\ owner' = NoAddress /\ verifier' = NoAddress /\ transfers' = 0
        /\ households' = [a \in Account |-> NoHousehold] /\ oversized' = oversized
    BY <1>6 DEF close
  <2> QED
    BY <2>1, HouseholdTypes DEF duInv, duTypeOK, CleanSlate, householdExists
<1> QED
  BY <1>1, <1>2, <1>3, <1>4, <1>5, <1>6 DEF ownerCall

(* A verified netting writes only into entries that exist, from a slot of  *)
(* the second half.                                                        *)
LEMMA NettingInv ==
  ASSUME duInv, NEW hhs \in Listings, NEW before \in [1..Slots -> Slot],
         NEW after \in [1..Slots -> AnyHash], checkNetting(hhs, before, after)
  PROVE  /\ duInv'
         /\ \A a \in Account :
              /\ householdExists(a)' = householdExists(a)
              /\ households'[a] # households[a] =>
                   households[a].renewableEnergy \in Hash \ LeadingZero \/ oversized'
<1> DEFINE Listed(a) == \E n \in 1..Len(hhs) : hhs[n] = a
           Result(a) == after[SlotOf(before, LastListing(hhs, a))]
<1>1. hhs \in Seq(Account)
  BY DEF Listings
<1>2. ASSUME NEW a \in Account, Listed(a)
      PROVE  /\ Result(a) \in AnyHash /\ householdExists(a)
             /\ households[a].renewableEnergy \in Hash \ LeadingZero \/ oversized'
  <2>1. PICK n \in 1..Len(hhs) : n = LastListing(hhs, a) /\ hhs[n] = a
    BY <1>1, <1>2, LastExists
  <2>2. /\ Len(hhs) <= Cardinality(Seen(before))
        /\ households[a].renewableEnergy = before[SlotOf(before, n)].hash /\ householdExists(a)
    BY <2>1 DEF checkNetting, HashesMatch
  <2>3. n \in 1..Cardinality(Seen(before))
    <3>1. IsFiniteSet(Seen(before))
      <4>1. Seen(before) \subseteq 1..Slots /\ 1 \in Int /\ Slots \in Int
        BY DUtilityAssumption DEF Seen
      <4>2. IsFiniteSet(1..Slots)
        BY <4>1, FS_Interval
      <4> QED
        BY <4>1, <4>2, FS_Subset
    <3> QED
      BY <1>1, <2>2, <3>1, FS_CardinalityType
  <2>4. SlotOf(before, n) \in Seen(before)
    BY <2>3, SlotExists
  <2>5. before[SlotOf(before, n)] \in Slot /\ before[SlotOf(before, n)].seen
    BY <2>4 DEF Seen
  <2>6. before[SlotOf(before, n)].hash \in Hash \ LeadingZero \/ before[SlotOf(before, n)].long
    BY <2>5 DEF Slot
  <2>7. before[SlotOf(before, n)].long => oversized'
    BY <2>1 DEF checkNetting
  <2>8. Result(a) \in AnyHash
    BY <2>1, <2>4 DEF Seen
  <2> QED
    BY <2>2, <2>6, <2>7, <2>8
<1> HIDE DEF Listed, Result
<1>3. households' = [a \in Account |->
                       IF Listed(a) THEN [households[a] EXCEPT !.afterNettingDelta = Result(a)]
                       ELSE households[a]]
  BY DEF checkNetting, Listed, Result
<1>4. /\ transfers' = transfers + 1 /\ oversized' \in BOOLEAN
      /\ UNCHANGED <<owner, alive, verifier>>
  BY DEF checkNetting
<1>5. \A a \in Account : households[a] \in Household
  BY DEF duInv, duTypeOK
<1>6. \A a \in Account :
        households'[a] \in Household /\ householdExists(a)' = householdExists(a)
  BY <1>2, <1>3, <1>5, HouseholdTypes DEF householdExists
<1>7. duTypeOK'
  BY <1>1, <1>3, <1>4, <1>6 DEF duInv, duTypeOK
<1>8. CleanSlate'
  BY <1>2, <1>3, <1>6 DEF duInv, CleanSlate
<1> QED
  BY <1>2, <1>3, <1>6, <1>7, <1>8 DEF duInv

LEMMA duNextInv == duInv /\ [duNext]_duVars => duInv'
<1> SUFFICES ASSUME duInv, [duNext]_duVars PROVE duInv'
  OBVIOUS
<1>1. CASE UNCHANGED duVars
  BY <1>1 DEF duVars, duInv, duTypeOK, CleanSlate, householdExists
<1>2. CASE anyoneCalls
  BY <1>2, NettingInv DEF anyoneCalls
<1> QED
  BY <1>1, <1>2, HouseholdCallInv, OwnerCallInv DEF duNext

LEMMA duAlwaysInv == duSpec => []duInv
<1> QED
  BY duInitInv, duNextInv, PTL DEF duSpec

(* Storage keeps its type.                                                 *)
THEOREM duTypeAlways == duSpec => []duTypeOK
<1>1. duInv => duTypeOK
  BY DEF duInv
<1> QED
  BY <1>1, duAlwaysInv, PTL

(* A household that is removed and added again does not show the netting   *)
(* result of its former life, although _addHousehold does not clear it.    *)
THEOREM CleanSlateAlways == duSpec => []CleanSlate
<1>1. duInv => CleanSlate
  BY DEF duInv
<1> QED
  BY <1>1, duAlwaysInv, PTL

LEMMA DisownedStep ==
  ASSUME duInv, [duNext]_duVars, owner = NoAddress
  PROVE  /\ owner' = NoAddress /\ verifier' = verifier
         /\ \A a \in Account : householdExists(a)' = householdExists(a)
<1>1. CASE UNCHANGED duVars
  BY <1>1 DEF duVars, householdExists
<1>2. ASSUME NEW sender \in Account, ownerCall(sender) PROVE FALSE
  BY <1>2 DEF ownerCall, addHousehold, removeHousehold, setVerifier, transferOwnership,
              renounceOwnership, close, onlyOwner
<1>3. ASSUME NEW sender \in Account, householdCall(sender)
      PROVE  /\ owner' = NoAddress /\ verifier' = verifier
             /\ \A a \in Account : householdExists(a)' = householdExists(a)
  <2>1. PICK h \in AnyHash :
          updateRenewableEnergy(sender, h) \/ updateNonRenewableEnergy(sender, h)
    BY <1>3 DEF householdCall
  <2>2. households \in [Account -> Household]
    BY DEF duInv, duTypeOK
  <2>3. owner' = owner /\ verifier' = verifier
    BY <2>1 DEF updateRenewableEnergy, updateNonRenewableEnergy
  <2>4. \/ households' = [households EXCEPT ![sender].renewableEnergy = h]
        \/ households' = [households EXCEPT ![sender].nonRenewableEnergy = h]
    BY <2>1 DEF updateRenewableEnergy, updateNonRenewableEnergy
  <2>5. \A hh \in Household :
          /\ [hh EXCEPT !.renewableEnergy = h].initialized = hh.initialized
          /\ [hh EXCEPT !.nonRenewableEnergy = h].initialized = hh.initialized
    BY HouseholdTypes
  <2>6. ASSUME NEW a \in Account
        PROVE  households'[a].initialized = households[a].initialized
    <3>1. \/ households'[a] = households[a]
          \/ households'[a] = [households[a] EXCEPT !.renewableEnergy = h]
          \/ households'[a] = [households[a] EXCEPT !.nonRenewableEnergy = h]
      BY <2>2, <2>4
    <3>2. households[a] \in Household
      BY <2>2
    <3>3. /\ [households[a] EXCEPT !.renewableEnergy = h].initialized = households[a].initialized
          /\ [households[a] EXCEPT !.nonRenewableEnergy = h].initialized = households[a].initialized
      BY <2>5, <3>2
    <3>4. CASE households'[a] = households[a]
      BY <3>4
    <3>5. CASE households'[a] = [households[a] EXCEPT !.renewableEnergy = h]
      BY <3>3, <3>5
    <3>6. CASE households'[a] = [households[a] EXCEPT !.nonRenewableEnergy = h]
      BY <3>3, <3>6
    <3> QED
      BY <3>1, <3>4, <3>5, <3>6
  <2> QED
    BY <2>3, <2>6 DEF householdExists
<1>4. CASE anyoneCalls
  <2>1. PICK hhs \in Listings, before \in [1..Slots -> Slot],
             after \in [1..Slots -> AnyHash] : checkNetting(hhs, before, after)
    BY <1>4 DEF anyoneCalls
  <2>2. owner' = owner /\ verifier' = verifier
    BY <2>1 DEF checkNetting
  <2> QED
    BY <2>1, <2>2, NettingInv
<1> QED
  BY <1>1, <1>2, <1>3, <1>4 DEF duNext

(* Once the owner has renounced or destroyed it, nobody administrates the  *)
(* contract.                                                               *)
THEOREM DisownedAlways == duSpec => DisownedIsFrozen
<1>1. duInv /\ [duNext]_duVars =>
        [owner = NoAddress =>
           /\ owner' = NoAddress /\ verifier' = verifier
           /\ \A a \in Account : householdExists(a)' = householdExists(a)]_duVars
  BY DisownedStep
<1> QED
  BY <1>1, duAlwaysInv, PTL DEF duSpec, DisownedIsFrozen

LEMMA ResultStep ==
  ASSUME duInv, [duNext]_duVars, NEW a \in Account,
         households'[a].afterNettingDelta # households[a].afterNettingDelta
  PROVE  \/ ~householdExists(a)'
         \/ households[a].renewableEnergy \in Hash \ LeadingZero
         \/ oversized'
<1>0. households \in [Account -> Household]
  BY DEF duInv, duTypeOK
<1>1. CASE UNCHANGED duVars
  BY <1>1 DEF duVars
<1>2. ASSUME NEW sender \in Account, ownerCall(sender) PROVE ~householdExists(a)'
  <2>1. ASSUME NEW b \in Account, addHousehold(sender, b) PROVE FALSE
    <3>1. households' = [households EXCEPT ![b] = Registered(@)]
      BY <2>1 DEF addHousehold
    <3>2. \A hh \in Household : Registered(hh).afterNettingDelta = hh.afterNettingDelta
      BY DEF Registered, Household
    <3> QED
      BY <1>0, <3>1, <3>2
  <2>2. ASSUME NEW b \in Account, removeHousehold(sender, b) PROVE ~householdExists(a)'
    BY <1>0, <2>2, HouseholdTypes DEF removeHousehold, Removed, householdExists
  <2>3. CASE close(sender)
    BY <2>3, HouseholdTypes DEF close, householdExists
  <2> QED
    BY <1>2, <2>1, <2>2, <2>3
       DEF ownerCall, setVerifier, transferOwnership, renounceOwnership
<1>3. ASSUME NEW sender \in Account, householdCall(sender) PROVE FALSE
  <2>1. PICK h \in AnyHash :
          updateRenewableEnergy(sender, h) \/ updateNonRenewableEnergy(sender, h)
    BY <1>3 DEF householdCall
  <2>2. \A hh \in Household :
          /\ [hh EXCEPT !.renewableEnergy = h].afterNettingDelta = hh.afterNettingDelta
          /\ [hh EXCEPT !.nonRenewableEnergy = h].afterNettingDelta = hh.afterNettingDelta
    BY DEF Household
  <2>3. \/ households' = [households EXCEPT ![sender].renewableEnergy = h]
        \/ households' = [households EXCEPT ![sender].nonRenewableEnergy = h]
    BY <2>1 DEF updateRenewableEnergy, updateNonRenewableEnergy
  <2> QED
    BY <1>0, <2>2, <2>3
<1>4. CASE anyoneCalls
  <2>1. PICK hhs \in Listings, before \in [1..Slots -> Slot],
             after \in [1..Slots -> AnyHash] : checkNetting(hhs, before, after)
    BY <1>4 DEF anyoneCalls
  <2> QED
    BY <2>1, NettingInv
<1> QED
  BY <1>1, <1>2, <1>3, <1>4 DEF duNext

(* The result of a netting is given only to a household whose published    *)
(* reading was compared, unless a word of the input is longer than 128     *)
(* bits.                                                                   *)
THEOREM ResultAlways == duSpec => ResultNeedsReading
<1>1. duInv /\ [duNext]_duVars =>
        [\A a \in Account :
           households'[a].afterNettingDelta # households[a].afterNettingDelta =>
             \/ ~householdExists(a)'
             \/ households[a].renewableEnergy \in Hash \ LeadingZero
             \/ oversized']_duVars
  BY ResultStep
<1> QED
  BY <1>1, duAlwaysInv, PTL DEF duSpec, ResultNeedsReading

-----------------------------------------------------------------------------
USE OwnedSetAssumption

(* The types that the index needs.                                         *)
SetTypes ==
  /\ validators \in Seq(Account)
  /\ pending \in Seq(Account)
  /\ status \in [Account -> AddressStatus]
  /\ finalized \in BOOLEAN

(* The two lists have no address twice, and agree once finalized.          *)
Inv ==
  /\ SetTypes
  /\ StatusIndexesPending
  /\ FinalizedAgrees
  /\ ValidatorsDistinct

LEMMA InitInv == Init => Inv
<1> SUFFICES ASSUME Init PROVE Inv
  OBVIOUS
<1>0. /\ Initial \in Seq(Account) /\ pending = Initial /\ validators = Initial
      /\ finalized = FALSE
      /\ \A k, l \in 1..Len(Initial) : Initial[k] = Initial[l] => k = l
  BY DEF Init, setInit
<1> DEFINE Place(a) == CHOOSE k \in 1..Len(Initial) : Initial[k] = a
<1>1. status = [a \in Account |-> IF \E k \in 1..Len(Initial) : Initial[k] = a
                                  THEN [isIn |-> TRUE, index |-> Place(a)]
                                  ELSE Unlisted]
  BY DEF Init, setInit
<1>2. \A a \in Account : (\E k \in 1..Len(Initial) : Initial[k] = a) =>
        Place(a) \in 1..Len(Initial) /\ Initial[Place(a)] = a
  OBVIOUS
<1> HIDE DEF Place
<1>3. SetTypes
  <2>1. Len(Initial) \in Nat
    BY <1>0
  <2>2. Unlisted \in AddressStatus
    BY DEF Unlisted, AddressStatus
  <2>3. ASSUME NEW a \in Account, \E k \in 1..Len(Initial) : Initial[k] = a
        PROVE  [isIn |-> TRUE, index |-> Place(a)] \in AddressStatus
    <3>1. Place(a) \in Nat
      BY <1>2, <2>1, <2>3
    <3> QED
      BY <3>1 DEF AddressStatus
  <2>4. status \in [Account -> AddressStatus]
    BY <1>1, <2>2, <2>3
  <2> QED
    BY <1>0, <2>4 DEF SetTypes
<1>4. StatusIndexesPending
  <2>1. ASSUME NEW a \in Account, status[a].isIn
        PROVE  status[a].index \in 1..Len(pending) /\ pending[status[a].index] = a
    BY <1>0, <1>1, <1>2, <2>1 DEF Unlisted
  <2>2. ASSUME NEW k \in 1..Len(pending)
        PROVE  status[pending[k]].isIn /\ status[pending[k]].index = k
    <3>1. pending[k] \in Account /\ Initial[k] = pending[k]
      BY <1>0
    <3>2. Place(pending[k]) = k
      BY <1>0, <1>2, <3>1
    <3> QED
      BY <1>0, <1>1, <3>1, <3>2
  <2> QED
    BY <2>1, <2>2 DEF StatusIndexesPending
<1>5. FinalizedAgrees /\ ValidatorsDistinct
  BY <1>0 DEF FinalizedAgrees, ValidatorsDistinct
<1> QED
  BY <1>3, <1>4, <1>5 DEF Inv

(* The pending list holds no address twice: the index tells them apart.    *)
LEMMA PendingDistinct ==
  ASSUME StatusIndexesPending
  PROVE  \A k, l \in 1..Len(pending) : pending[k] = pending[l] => k = l
BY DEF StatusIndexesPending

LEMMA AddInv ==
  ASSUME Inv, NEW sender, NEW a \in Account, addValidator(sender, a)
  PROVE  Inv'
<1>1. /\ ~status[a].isIn
      /\ status' = [status EXCEPT ![a] = [isIn |-> TRUE, index |-> Len(pending) + 1]]
      /\ pending' = Append(pending, a)
      /\ finalized' = FALSE /\ validators' = validators
  BY DEF addValidator, Enlist
<1>2. SetTypes /\ StatusIndexesPending /\ ValidatorsDistinct
  BY DEF Inv
<1>3. SetTypes'
  <2>1. pending' \in Seq(Account) /\ Len(pending) + 1 \in Nat
    BY <1>1, <1>2 DEF SetTypes
  <2>2. [isIn |-> TRUE, index |-> Len(pending) + 1] \in AddressStatus
    BY <2>1 DEF AddressStatus
  <2>3. status' \in [Account -> AddressStatus]
    BY <1>1, <1>2, <2>2 DEF SetTypes
  <2> QED
    BY <1>1, <1>2, <2>1, <2>3 DEF SetTypes
<1>4. StatusIndexesPending'
  <2>0. /\ pending \in Seq(Account) /\ Len(pending) \in Nat
        /\ Len(pending') = Len(pending) + 1 /\ pending'[Len(pending) + 1] = a
        /\ \A k \in 1..Len(pending) : pending'[k] = pending[k] /\ pending[k] \in Account
    BY <1>1, <1>2 DEF SetTypes
  <2>1. ASSUME NEW b \in Account, status'[b].isIn
        PROVE  status'[b].index \in 1..Len(pending') /\ pending'[status'[b].index] = b
    <3>1. CASE b = a
      BY <1>1, <1>2, <2>0, <3>1 DEF SetTypes
    <3>2. CASE b # a
      <4>1. status'[b] = status[b]
        BY <1>1, <1>2, <3>2 DEF SetTypes
      <4>2. status[b].index \in 1..Len(pending) /\ pending[status[b].index] = b
        BY <1>2, <2>1, <4>1 DEF StatusIndexesPending
      <4> QED
        BY <2>0, <4>1, <4>2
    <3> QED
      BY <3>1, <3>2
  <2>2. ASSUME NEW k \in 1..Len(pending')
        PROVE  status'[pending'[k]].isIn /\ status'[pending'[k]].index = k
    <3>1. CASE k = Len(pending) + 1
      BY <1>1, <1>2, <2>0, <3>1 DEF SetTypes
    <3>2. CASE k \in 1..Len(pending)
      <4>1. /\ pending'[k] = pending[k] /\ pending[k] \in Account
            /\ status[pending[k]].isIn /\ status[pending[k]].index = k
        BY <1>2, <2>0, <3>2 DEF StatusIndexesPending
      <4>2. pending[k] # a
        BY <1>1, <4>1
      <4> QED
        BY <1>1, <1>2, <4>1, <4>2 DEF SetTypes
    <3> QED
      BY <2>0, <3>1, <3>2
  <2> QED
    BY <2>1, <2>2 DEF StatusIndexesPending
<1>5. FinalizedAgrees' /\ ValidatorsDistinct'
  BY <1>1, <1>2 DEF FinalizedAgrees, ValidatorsDistinct
<1> QED
  BY <1>3, <1>4, <1>5 DEF Inv

LEMMA RemoveInv ==
  ASSUME Inv, NEW sender, NEW a \in Account, removeValidator(sender, a)
  PROVE  Inv'
<1> DEFINE i == status[a].index
           N == Len(pending)
           last == pending[N]
<1>1. /\ status[a].isIn /\ i \in 1..N
      /\ pending' = SubSeq([pending EXCEPT ![i] = last], 1, N - 1)
      /\ status' = [[status EXCEPT ![last].index = i] EXCEPT ![a] = Unlisted]
      /\ finalized' = FALSE /\ validators' = validators
  BY DEF removeValidator, isValidator, Without, Reindexed
<1>2. SetTypes /\ StatusIndexesPending /\ ValidatorsDistinct
  BY DEF Inv
<1>3. /\ pending \in Seq(Account) /\ N \in Nat /\ N >= 1
      /\ status \in [Account -> AddressStatus]
      /\ last \in Account /\ pending[i] = a
      /\ status[last].isIn /\ status[last].index = N
      /\ i \in Nat
  BY <1>1, <1>2 DEF SetTypes, StatusIndexesPending
<1>4. /\ pending' \in Seq(Account) /\ Len(pending') = N - 1
      /\ \A k \in 1..(N - 1) : pending'[k] = IF k = i THEN last ELSE pending[k]
  <2> DEFINE p == [pending EXCEPT ![i] = last]
  <2>1. /\ p \in Seq(Account) /\ Len(p) = N
        /\ \A k \in 1..N : p[k] = IF k = i THEN last ELSE pending[k]
    BY <1>1, <1>3
  <2>2. pending' = SubSeq(p, 1, N - 1)
    BY <1>1
  <2> HIDE DEF p
  <2> QED
    BY <1>3, <2>1, <2>2
<1>5. /\ status' \in [Account -> AddressStatus]
      /\ status'[a] = Unlisted
      /\ last # a => status'[last].isIn /\ status'[last].index = i
      /\ \A b \in Account : b # a /\ b # last => status'[b] = status[b]
  BY <1>1, <1>3 DEF AddressStatus, Unlisted
<1> HIDE DEF i, N, last
<1>6. SetTypes'
  BY <1>1, <1>2, <1>4, <1>5 DEF SetTypes
<1>7. StatusIndexesPending'
  <2>1. ASSUME NEW b \in Account, status'[b].isIn
        PROVE  status'[b].index \in 1..Len(pending') /\ pending'[status'[b].index] = b
    <3>1. b # a
      BY <1>5, <2>1 DEF Unlisted
    <3>2. CASE b = last
      <4>1. i # N
        BY <1>3, <3>1, <3>2 DEF last
      <4> QED
        BY <1>1, <1>3, <1>4, <1>5, <3>1, <3>2, <4>1
    <3>3. CASE b # last
      <4>1. status'[b] = status[b]
        BY <1>5, <3>1, <3>3
      <4>2. status[b].index \in 1..N /\ pending[status[b].index] = b
        BY <1>2, <2>1, <4>1 DEF StatusIndexesPending, N
      <4>3. status[b].index # N /\ status[b].index # i
        BY <1>3, <3>1, <3>3, <4>2 DEF last
      <4> QED
        BY <1>3, <1>4, <4>1, <4>2, <4>3
    <3> QED
      BY <3>2, <3>3
  <2>2. ASSUME NEW k \in 1..Len(pending')
        PROVE  status'[pending'[k]].isIn /\ status'[pending'[k]].index = k
    <3>0. k \in 1..(N - 1) /\ k \in 1..N /\ k # N
      BY <1>3, <1>4
    <3>1. CASE k = i
      <4>1. last # a
        BY <1>3, <3>0, <3>1 DEF i
      <4> QED
        BY <1>4, <1>5, <3>0, <3>1, <4>1
    <3>2. CASE k # i
      <4>1. /\ pending'[k] = pending[k] /\ pending[k] \in Account
            /\ status[pending[k]].isIn /\ status[pending[k]].index = k
        BY <1>2, <1>3, <1>4, <3>0, <3>2 DEF StatusIndexesPending, N
      <4>2. pending[k] # a /\ pending[k] # last
        BY <1>3, <3>0, <3>2, <4>1 DEF i
      <4> QED
        BY <1>5, <4>1, <4>2
    <3> QED
      BY <3>1, <3>2
  <2> QED
    BY <2>1, <2>2 DEF StatusIndexesPending
<1>8. FinalizedAgrees' /\ ValidatorsDistinct'
  BY <1>1, <1>2 DEF FinalizedAgrees, ValidatorsDistinct
<1> QED
  BY <1>6, <1>7, <1>8 DEF Inv

LEMMA FinalizeInv ==
  ASSUME Inv, NEW sender, finalizeChange(sender)
  PROVE  Inv'
<1>1. /\ validators' = pending /\ finalized' = TRUE
      /\ pending' = pending /\ status' = status
  BY DEF finalizeChange
<1> QED
  BY <1>1, PendingDistinct
     DEF Inv, SetTypes, StatusIndexesPending, FinalizedAgrees, ValidatorsDistinct

(* Whatever leaves the lists and the index alone leaves the invariant.     *)
LEMMA UntouchedInv ==
  ASSUME Inv, UNCHANGED <<finalized, validators, pending, status>>
  PROVE  Inv'
BY DEF Inv, SetTypes, StatusIndexesPending, FinalizedAgrees, ValidatorsDistinct

LEMMA NextInv == Inv /\ [Next]_vars => Inv'
<1> SUFFICES ASSUME Inv, [Next]_vars PROVE Inv'
  OBVIOUS
<1>1. ASSUME NEW sender \in External, adminCall(sender) PROVE Inv'
  <2>1. ASSUME NEW a \in Account, addValidator(sender, a) PROVE Inv'
    BY <2>1, AddInv
  <2>2. ASSUME NEW a \in Account, removeValidator(sender, a) PROVE Inv'
    BY <2>2, RemoveInv
  <2>3. CASE finalizeChange(sender)
    BY <2>3, FinalizeInv
  <2>4. ASSUME NEW a \in Account, transferSetOwnership(sender, a) PROVE Inv'
    BY <2>4, UntouchedInv DEF transferSetOwnership
  <2>5. CASE renounceSetOwnership(sender)
    BY <2>5, UntouchedInv DEF renounceSetOwnership
  <2> QED
    BY <1>1, <2>1, <2>2, <2>3, <2>4, <2>5 DEF adminCall
<1>2. ASSUME UNCHANGED setVars PROVE Inv'
  BY <1>2, UntouchedInv DEF setVars
<1> QED
  BY <1>1, <1>2 DEF Next, utilityCall, vars

LEMMA AlwaysInv == Spec => []Inv
<1> QED
  BY InitInv, NextInv, PTL DEF Spec

(* After any calls the mapping of BaseOwnedSet.sol is an exact index of    *)
(* the pending list: swap-with-last removal never leaves a stale slot.     *)
THEOREM IndexedAlways == Spec => []StatusIndexesPending
<1>1. Inv => StatusIndexesPending
  BY DEF Inv
<1> QED
  BY <1>1, AlwaysInv, PTL

(* "finalized [...] implies validators == pending" (BaseOwnedSet.sol:22).  *)
THEOREM FinalizedAlways == Spec => []FinalizedAgrees
<1>1. Inv => FinalizedAgrees
  BY DEF Inv
<1> QED
  BY <1>1, AlwaysInv, PTL

(* No address is ever active twice, although dUtility's households can be  *)
(* removed and validators added again behind the set's back.               *)
THEOREM DistinctAlways == Spec => []ValidatorsDistinct
<1>1. Inv => ValidatorsDistinct
  BY DEF Inv
<1> QED
  BY <1>1, AlwaysInv, PTL

(* Once a change is finalized every active validator passes the modifier   *)
(* isValidator, so it can be removed again.                                *)
THEOREM FinalizedPassAlways == Spec => []FinalizedValidatorsPass
<1>1. ASSUME Inv PROVE FinalizedValidatorsPass
  BY <1>1 DEF Inv, FinalizedAgrees, StatusIndexesPending, SetTypes,
              FinalizedValidatorsPass, isValidator
<1> QED
  BY <1>1, AlwaysInv, PTL
-----------------------------------------------------------------------------
(* Every call of the validator set is a call of dUtility as well, or does  *)
(* not touch it.                                                           *)
LEMMA StepOfUtility ==
  ASSUME [Next]_vars PROVE [duNext]_duVars
<1>1. ASSUME NEW sender, adminCall(sender) PROVE [duNext]_duVars
  <2>1. ASSUME NEW a \in Account, addValidator(sender, a) PROVE duNext
    BY <2>1 DEF addValidator, duNext, ownerCall
  <2>2. ASSUME NEW a \in Account, removeValidator(sender, a) PROVE duNext
    BY <2>2 DEF removeValidator, duNext, ownerCall
  <2> QED
    BY <1>1, <2>1, <2>2 DEF adminCall, finalizeChange, transferSetOwnership,
                            renounceSetOwnership
<1>2. ASSUME NEW sender \in External, utilityCall(sender) PROVE duNext
  BY <1>2 DEF utilityCall, External, duNext
<1> QED
  BY <1>1, <1>2 DEF Next, duNext, vars

LEMMA OwnerType ==
  ASSUME setOwner \in Account \cup {NoAddress}, [Next]_vars
  PROVE  setOwner' \in Account \cup {NoAddress}
BY DEF Next, adminCall, addValidator, removeValidator, finalizeChange, transferSetOwnership,
       renounceSetOwnership, utilityCall, vars, setVars

(* Both contracts' storage keeps its type, whoever calls which of them.    *)
THEOREM SetTypeAlways == Spec => []TypeOK
<1> DEFINE Typed == Inv /\ duInv /\ setOwner \in Account \cup {NoAddress}
<1>1. Init => Typed
  BY InitInv, duInitInv DEF Init, setInit
<1>2. Typed /\ [Next]_vars => Typed'
  BY NextInv, duNextInv, StepOfUtility, OwnerType
<1>3. Typed => TypeOK
  BY DEF TypeOK, Inv, SetTypes, duInv
<1> QED
  BY <1>1, <1>2, <1>3, PTL DEF Spec
=============================================================================
