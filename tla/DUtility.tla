------------------------------ MODULE DUtility ------------------------------
(***************************************************************************)
(* contracts/dUtility.sol with Mortal.sol and Ownable.sol: the on-chain    *)
(* registry of households and of the hashes of their readings.  A call is  *)
(* a transaction: it happens as a whole or, when a require fails, not at   *)
(* all, so every action is one external function and its guard the         *)
(* conjunction of the requires on its path.  Return values and events are  *)
(* left out.                                                               *)
(***************************************************************************)
EXTENDS Integers, Sequences, FiniteSets

CONSTANTS Account,      \* addresses, contracts included
          NoAddress,    \* address(0)
          Deployer,     \* msg.sender of the constructor
          Hash,         \* non-zero hashes a household may publish
          LeadingZero,  \* those whose upper 128 bits are zero
          NoHash,       \* bytes32(0)
          Slots,        \* hashes in each half of checkNetting's _input
          MaxTransfers  \* bound: verified nettings in one behaviour

ASSUME DUtilityAssumption ==
  /\ NoAddress \notin Account /\ Deployer \in Account
  /\ NoHash \notin Hash /\ LeadingZero \subseteq Hash
  /\ Slots \in Nat /\ MaxTransfers \in Nat

VARIABLES owner,       \* Ownable._owner
          alive,       \* FALSE once close() has destroyed the contract
          households,  \* the mapping, on all addresses
          verifier,    \* the verifier contract, or NoAddress
          transfers,   \* transfers.length
          oversized    \* history: did the last checkNetting count a long slot

duVars == <<owner, alive, households, verifier, transfers, oversized>>

AnyHash == Hash \cup {NoHash}
Household == [initialized : BOOLEAN, renewableEnergy : AnyHash,
              nonRenewableEnergy : AnyHash, afterNettingDelta : AnyHash]
NoHousehold == [initialized |-> FALSE, renewableEnergy |-> NoHash,
                nonRenewableEnergy |-> NoHash, afterNettingDelta |-> NoHash]

duInit ==
  /\ owner = Deployer
  /\ alive = TRUE
  /\ households = [a \in Account |-> NoHousehold]
  /\ verifier = NoAddress
  /\ transfers = 0
  /\ oversized = FALSE

(* A variant, not the code: the modifier does not look at the sender.      *)
onlyAlive(sender) == alive

onlyOwner(sender) == alive /\ sender = owner
householdExists(a) == households[a].initialized
-----------------------------------------------------------------------------
(* Ownable and Mortal.                                                     *)
transferOwnership(sender, new) ==
  /\ onlyOwner(sender)
  /\ new # NoAddress
  /\ owner' = new
  /\ UNCHANGED <<alive, households, verifier, transfers, oversized>>

renounceOwnership(sender) ==
  /\ onlyOwner(sender)
  /\ owner' = NoAddress
  /\ UNCHANGED <<alive, households, verifier, transfers, oversized>>

(* selfdestruct: storage is gone and no later call to the contract can     *)
(* succeed.                                                                *)
close(sender) ==
  /\ onlyOwner(sender)
  /\ alive' = FALSE
  /\ owner' = NoAddress
  /\ households' = [a \in Account |-> NoHousehold]
  /\ verifier' = NoAddress
  /\ transfers' = 0
  /\ UNCHANGED oversized

setVerifier(sender, v) ==
  /\ onlyOwner(sender)
  /\ verifier' = v
  /\ UNCHANGED <<owner, alive, households, transfers, oversized>>

(* _addHousehold's assignments; afterNettingDelta is not reset, see        *)
(* CleanSlate.                                                             *)
Registered(hh) == [hh EXCEPT !.initialized = TRUE, !.renewableEnergy = NoHash,
                             !.nonRenewableEnergy = NoHash]

(* A variant, not the code: without onlyIfNotExists in _addHousehold.      *)
addHouseholdAgain(sender, a) ==
  /\ onlyOwner(sender)
  /\ households' = [households EXCEPT ![a] = Registered(@)]
  /\ UNCHANGED <<owner, alive, verifier, transfers, oversized>>

addHousehold(sender, a) ==
  /\ onlyOwner(sender)
  /\ ~householdExists(a)
  /\ households' = [households EXCEPT ![a] = Registered(@)]
  /\ UNCHANGED <<owner, alive, verifier, transfers, oversized>>

(* Variants, not the code: the entry is taken out of the mapping; only its *)
(* flag is reset.                                                          *)
RemovedKey(a) == [b \in DOMAIN households \ {a} |-> households[b]]
RemovedFlag(a) == [households EXCEPT ![a].initialized = FALSE]

(* delete households[_household]                                           *)
Removed(a) == [households EXCEPT ![a] = NoHousehold]

removeHousehold(sender, a) ==
  /\ onlyOwner(sender)
  /\ householdExists(a)
  /\ households' = Removed(a)
  /\ UNCHANGED <<owner, alive, verifier, transfers, oversized>>

(* onlyHousehold: the sender is the household itself.                      *)
updateRenewableEnergy(sender, h) ==
  /\ alive
  /\ householdExists(sender)
  /\ households' = [households EXCEPT ![sender].renewableEnergy = h]
  /\ UNCHANGED <<owner, alive, verifier, transfers, oversized>>

updateNonRenewableEnergy(sender, h) ==
  /\ alive
  /\ householdExists(sender)
  /\ households' = [households EXCEPT ![sender].nonRenewableEnergy = h]
  /\ UNCHANGED <<owner, alive, verifier, transfers, oversized>>
-----------------------------------------------------------------------------
(* Two words (uint256) of _input, hashes[i] << 128 | hashes[i + 1], make   *)
(* up one hash.  _concatNextHash passes over a slot whose first word is    *)
(* zero: an empty one, or a hash with a zero upper half.  When a word is   *)
(* longer than 128 bits the shift truncates it or the two overlap, and a   *)
(* slot that is seen can stand for any hash, the empty one included.       *)
Slot ==
  {s \in [seen : BOOLEAN, long : BOOLEAN, hash : AnyHash] :
     IF s.long THEN s.seen \/ s.hash \in Hash \ LeadingZero
               ELSE s.seen <=> s.hash \in Hash \ LeadingZero}

Seen(before) == {k \in 1..Slots : before[k].seen}

(* The slot that the n-th call of _concatNextHash returns.                 *)
SlotOf(before, n) ==
  CHOOSE k \in Seen(before) : Cardinality({l \in Seen(before) : l <= k}) = n

(* The last household wins when an address is listed twice.                *)
LastListing(hhs, a) ==
  CHOOSE n \in 1..Len(hhs) :
    hhs[n] = a /\ \A m \in (n + 1)..Len(hhs) : hhs[m] # a

(* A variant, not the code: the hashes are counted and not compared.       *)
HashesCounted(hhs, before) ==
  /\ Len(hhs) <= Cardinality(Seen(before))
  /\ \A n \in 1..Len(hhs) : householdExists(hhs[n])

(* _checkHashes: the n-th household against the n-th hash of the first     *)
(* half.  Running out of hashes makes nonZeroHashes differ from the number *)
(* of households and reverts.                                              *)
HashesMatch(hhs, before) ==
  /\ Len(hhs) <= Cardinality(Seen(before))
  /\ \A n \in 1..Len(hhs) :
       /\ households[hhs[n]].renewableEnergy = before[SlotOf(before, n)].hash
       /\ householdExists(hhs[n])

(* checkNetting, open to any sender.  Whether the external verifier        *)
(* accepts the proof is not determined by the contract: a rejected proof   *)
(* reverts.                                                                *)
checkNetting(hhs, before, after) ==
  /\ alive
  /\ verifier # NoAddress
  /\ transfers < MaxTransfers
  /\ HashesMatch(hhs, before)
  /\ households' =
       [a \in Account |->
          IF \E n \in 1..Len(hhs) : hhs[n] = a
          THEN [households[a] EXCEPT !.afterNettingDelta =
                  after[SlotOf(before, LastListing(hhs, a))]]
          ELSE households[a]]
  /\ transfers' = transfers + 1
  /\ oversized' = \E n \in 1..Len(hhs) : before[SlotOf(before, n)].long
  /\ UNCHANGED <<owner, alive, verifier>>

Listings == UNION {[1..n -> Account] : n \in 0..Slots}

(* What any account may call at any time.                                  *)
householdCall(sender) ==
  \/ \E h \in AnyHash : updateRenewableEnergy(sender, h)
  \/ \E h \in AnyHash : updateNonRenewableEnergy(sender, h)

anyoneCalls ==
  \E hhs \in Listings, before \in [1..Slots -> Slot], after \in [1..Slots -> AnyHash] :
    checkNetting(hhs, before, after)

(* What only the owner can call with success.                              *)
ownerCall(sender) ==
  \/ \E a \in Account : addHousehold(sender, a)
  \/ \E a \in Account : removeHousehold(sender, a)
  \/ \E v \in Account : setVerifier(sender, v)
  \/ \E a \in Account : transferOwnership(sender, a)
  \/ renounceOwnership(sender)
  \/ close(sender)

duNext ==
  \/ \E sender \in Account : householdCall(sender) \/ ownerCall(sender)
  \/ anyoneCalls

duSpec == duInit /\ [][duNext]_duVars
-----------------------------------------------------------------------------
(***************************************************************************)
(* Properties                                                              *)
(***************************************************************************)
(* The contract's storage and the history variable keep their types.       *)
duTypeOK ==
  /\ owner \in Account \cup {NoAddress}
  /\ alive \in BOOLEAN
  /\ households \in [Account -> Household]
  /\ verifier \in Account \cup {NoAddress}
  /\ transfers \in Nat
  /\ oversized \in BOOLEAN

(* A household that is not registered has no hash at all.  _addHousehold   *)
(* clears two of the three hashes only: that a household removed and added *)
(* again does not show the netting result of its former life rests on      *)
(* removeHousehold and on _updateAfterNettingDelta's guard.                *)
CleanSlate ==
  \A a \in Account : ~householdExists(a) => households[a] = NoHousehold

(* A destroyed or disowned contract can no longer be administrated: its    *)
(* verifier and its registry only change through the owner.                *)
DisownedIsFrozen ==
  [][owner = NoAddress =>
       /\ owner' = NoAddress
       /\ verifier' = verifier
       /\ \A a \in Account : householdExists(a)' = householdExists(a)]_duVars

(* The netting result of a household is never set without its having a     *)
(* published reading at that moment, as long as the caller sends words of  *)
(* 128 bits: a longer one makes an empty hash count, and a household that  *)
(* has published nothing match it.                                         *)
ResultNeedsReading ==
  [][\A a \in Account :
       households'[a].afterNettingDelta # households[a].afterNettingDelta =>
         \/ ~householdExists(a)'
         \/ households[a].renewableEnergy \in Hash \ LeadingZero
         \/ oversized']_duVars
=============================================================================
