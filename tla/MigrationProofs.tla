-------------------------- MODULE MigrationProofs ---------------------------
(***************************************************************************)
(* The handover of Migration.tla for any accounts, list of authorities,    *)
(* number of crashes and reruns, and whatever is called meanwhile; and the *)
(* order of its script: what a run has reached, and which never ends.      *)
(***************************************************************************)
EXTENDS Migration, ContractProofs

USE DUtilityAssumption, OwnedSetAssumption, MigrationAssumption

(* The transactions a script can hold.                                     *)
Steps ==
  {[call |-> c] : c \in {"setVerifier", "addHousehold", "transferOwnership",
                         "finalizeChange"}}
    \cup {[call |-> c, who |-> a] : c \in {"addValidator", "removeValidator"}, a \in Account}

LEMMA ScriptType ==
  /\ Script \in Seq(Steps)
  /\ Len(Script) \in Nat /\ Len(Script) >= 3
  /\ Script[1].call = "setVerifier" /\ Script[2].call = "addHousehold"
<1>1. /\ Prepare \in Seq(Steps) /\ Len(Prepare) = 2
      /\ Prepare[1].call = "setVerifier" /\ Prepare[2].call = "addHousehold"
  BY DEF Prepare, Steps
<1>2. HandOver \in Seq(Steps) /\ Len(HandOver) = 1
  BY DEF HandOver, Steps
<1>3. AddOthers \in Seq(Steps)
  <2>1. Len(Others) \in Nat /\ \A k \in 1..Len(Others) : Others[k] \in Account
    OBVIOUS
  <2>2. \A k \in 1..Len(Others) : [call |-> "addValidator", who |-> Others[k]] \in Steps
    BY <2>1 DEF Steps
  <2> QED
    BY <2>1, <2>2 DEF AddOthers
<1>4. AddFake \in Seq(Steps) /\ DropFake \in Seq(Steps) /\ Finalize \in Seq(Steps)
  BY DEF AddFake, DropFake, Finalize, Steps
<1> HIDE DEF Steps
<1>5. ASSUME NEW s \in Seq(Steps), NEW t \in Seq(Steps)
      PROVE  /\ s \o t \in Seq(Steps) /\ Len(s \o t) = Len(s) + Len(t)
             /\ Len(s) \in Nat /\ Len(t) \in Nat
             /\ \A k \in 1..Len(s) : (s \o t)[k] = s[k]
  OBVIOUS
<1>6. ASSUME NEW s \in Seq(Steps), NEW t \in Seq(Steps), Len(s) >= 2,
             s[1].call = "setVerifier", s[2].call = "addHousehold"
      PROVE  /\ s \o t \in Seq(Steps) /\ Len(s \o t) >= Len(s)
             /\ (s \o t)[1].call = "setVerifier" /\ (s \o t)[2].call = "addHousehold"
  BY <1>5, <1>6
<1> DEFINE s1 == Prepare \o HandOver
           s2 == s1 \o AddOthers
           s3 == s2 \o AddFake
           s4 == s3 \o Finalize
           s5 == s4 \o DropFake
           Good(s) == /\ s \in Seq(Steps) /\ Len(s) \in Nat /\ Len(s) >= 3
                      /\ s[1].call = "setVerifier" /\ s[2].call = "addHousehold"
<1>7. ASSUME NEW s, Good(s), NEW t \in Seq(Steps) PROVE Good(s \o t)
  BY <1>5, <1>6, <1>7
<1>8. Good(s1)
  <2>1. Len(s1) = 3
    <3>1. Len(Prepare \o HandOver) = Len(Prepare) + Len(HandOver)
      BY ONLY <1>1, <1>2, <1>5
    <3> QED
      BY <1>1, <1>2, <3>1
  <2>2. s1[1].call = "setVerifier" /\ s1[2].call = "addHousehold" /\ s1 \in Seq(Steps)
    <3> HIDE DEF s2, s3, s4, s5, Good
    <3>1. Len(Prepare) >= 2
      BY <1>1
    <3> QED
      BY <1>1, <1>2, <1>6, <3>1
  <2> QED
    BY <2>1, <2>2
<1> HIDE DEF Good
<1>9. Good(s5 \o Finalize)
  BY <1>3, <1>4, <1>7, <1>8
<1> QED
  BY <1>9 DEF Script, Good

-----------------------------------------------------------------------------
(* What holds whatever is done by hand.                                    *)
Counted == byHand \in [utility : Nat, set : Nat]
Basics ==
  /\ Inv /\ duInv /\ Counted /\ pc \in Nat \ {0}
  /\ ~alive => owner = NoAddress

(* A count that does not end at zero did not start there.                  *)
LEMMA ByHandGrows ==
  ASSUME Counted, [mNext]_mVars
  PROVE  /\ Counted'
         /\ byHand'.utility = 0 => byHand.utility = 0
         /\ byHand' = Untouched => byHand = Untouched
<1>1. \/ byHand' = byHand
      \/ byHand' = [byHand EXCEPT !.utility = @ + 1]
      \/ byHand' = [byHand EXCEPT !.set = @ + 1]
  <2>1. CASE Administrate
    BY <2>1 DEF Administrate
  <2>2. CASE UseUtility
    BY <2>2 DEF UseUtility, script
  <2>3. CASE UNCHANGED mVars
    BY <2>3 DEF mVars, script
  <2>4. CASE Step \/ Abort \/ Crash \/ Rerun \/ Verify
    BY <2>4 DEF Step, Abort, Crash, Rerun, Verify, script
  <2> QED
    BY <2>1, <2>2, <2>3, <2>4 DEF mNext
<1>2. CASE byHand' = byHand
  BY <1>2 DEF Counted
<1>3. CASE byHand' = [byHand EXCEPT !.utility = @ + 1]
  <2>1. byHand'.utility = byHand.utility + 1 /\ byHand'.set = byHand.set
    BY <1>3 DEF Counted
  <2>2. byHand.utility \in Nat
    BY DEF Counted
  <2> QED
    BY <1>3, <2>1, <2>2 DEF Counted, Untouched
<1>4. CASE byHand' = [byHand EXCEPT !.set = @ + 1]
  <2>1. byHand'.utility = byHand.utility /\ byHand'.set = byHand.set + 1
    BY <1>4 DEF Counted
  <2>2. byHand.set \in Nat
    BY DEF Counted
  <2> QED
    BY <1>4, <2>1, <2>2 DEF Counted, Untouched
<1> QED
  BY <1>1, <1>2, <1>3, <1>4

(* Who leaves a count at zero did not call as the owner.                   *)
LEMMA HouseholdOnly ==
  ASSUME Counted, UseUtility, byHand'.utility = 0
  PROVE  /\ \E sender \in External : householdCall(sender)
         /\ UNCHANGED <<setVars, script>>
<1>1. ASSUME byHand' = [byHand EXCEPT !.utility = @ + 1] PROVE FALSE
  <2>1. byHand'.utility = byHand.utility + 1 /\ byHand.utility \in Nat
    BY <1>1 DEF Counted
  <2> QED
    BY <2>1
<1> QED
  BY <1>1 DEF UseUtility

LEMMA FinishedOnly ==
  ASSUME Counted, Administrate, byHand' = Untouched
  PROVE  Finished
<1>1. ASSUME byHand' = [byHand EXCEPT !.set = @ + 1] PROVE FALSE
  <2>1. byHand'.set = byHand.set + 1 /\ byHand.set \in Nat
    BY <1>1 DEF Counted
  <2>2. byHand'.set = 0
    BY DEF Untouched
  <2> QED
    BY <2>1, <2>2
<1> QED
  BY <1>1 DEF Administrate

-----------------------------------------------------------------------------
(* The two registries: they are changed together after the handover; and   *)
(* before it, by nobody but the script.                                    *)
Registries ==
  /\ Inv /\ duInv /\ alive
  /\ owner \in {Deployer, OwnedSetAddress}
  /\ HandedOver => \A a \in Account : status[a].isIn <=> householdExists(a)
  /\ ~HandedOver =>
       /\ \A a \in Account : status[a].isIn <=> a = Deployer
       /\ \A a \in Account : householdExists(a) => a = Deployer

(* The handover finds the deployer in both.                                *)
mInv ==
  /\ Registries
  /\ pc \in Nat \ {0}
  /\ ~HandedOver /\ pc >= 3 => householdExists(Deployer)

LEMMA mInitInv ==
  ASSUME mInit PROVE mInv
<1>1. Inv /\ duInv
  BY InitInv, duInitInv DEF mInit, Init
<1>2. alive /\ owner = Deployer /\ pc = 1
  BY DEF mInit, Init, duInit
<1>3. \A a \in Account : ~householdExists(a)
  BY HouseholdTypes DEF mInit, Init, duInit, householdExists
<1>4. \A a \in Account : status[a].isIn <=> a = Deployer
  <2>1. Len(Initial) = 1 /\ Initial[1] = Deployer
    OBVIOUS
  <2>2. \A a \in Account : (\E k \in 1..Len(Initial) : Initial[k] = a) <=> a = Deployer
    BY <2>1
  <2> QED
    BY <2>2 DEF mInit, Init, setInit, Unlisted
<1> QED
  BY <1>1, <1>2, <1>3, <1>4 DEF mInv, Registries, HandedOver

(* What every step keeps, whoever takes it.                                *)
Kept ==
  /\ Registries'
  /\ HandedOver => HandedOver' /\ verifier' = verifier
  /\ ~HandedOver' /\ householdExists(Deployer) => householdExists(Deployer)'

LEMMA Unregistered ==
  ASSUME Registries, Inv', duInv', UNCHANGED <<owner, alive, verifier, status>>,
         \A a \in Account : householdExists(a)' <=> householdExists(a)
  PROVE  Kept
<1>1. HandedOver' <=> HandedOver
  BY DEF HandedOver
<1>2. \A a \in Account : status'[a].isIn <=> status[a].isIn
  OBVIOUS
<1>3. Deployer \in Account
  OBVIOUS
<1> QED
  BY <1>1, <1>2, <1>3 DEF Registries, Kept

LEMMA AdminKeeps ==
  ASSUME Registries, Inv', duInv', NEW sender, adminCall(sender)
  PROVE  Kept
<1>0. /\ households \in [Account -> Household]
      /\ status \in [Account -> AddressStatus]
  BY DEF Registries, duInv, duTypeOK, Inv, SetTypes
<1>1. ASSUME NEW a \in Account, addValidator(sender, a) PROVE Kept
  <2>1. /\ HandedOver /\ UNCHANGED <<owner, alive, verifier>>
        /\ households' = [households EXCEPT ![a] = Registered(@)]
        /\ status' = [status EXCEPT ![a] = [isIn |-> TRUE, index |-> Len(pending) + 1]]
    BY <1>1 DEF addValidator, Enlist, addHousehold, onlyOwner, HandedOver
  <2>2. \A b \in Account : status'[b].isIn <=> b = a \/ status[b].isIn
    BY <1>0, <2>1
  <2>3. \A b \in Account : households'[b].initialized <=> b = a \/ households[b].initialized
    BY <1>0, <2>1, HouseholdTypes
  <2> QED
    BY <2>1, <2>2, <2>3 DEF Kept, Registries, HandedOver, householdExists
<1>2. ASSUME NEW a \in Account, removeValidator(sender, a) PROVE Kept
  <2>1. /\ HandedOver /\ UNCHANGED <<owner, alive, verifier>>
        /\ households' = [households EXCEPT ![a] = NoHousehold]
        /\ status' = Reindexed(a)
    BY <1>2 DEF removeValidator, removeHousehold, Removed, onlyOwner, HandedOver
  <2>2. \A b \in Account : status'[b].isIn <=> b # a /\ status[b].isIn
    <3> DEFINE last == pending[Len(pending)]
               moved == [status EXCEPT ![last].index = status[a].index]
    <3>1. status' = [moved EXCEPT ![a] = Unlisted]
      BY <2>1 DEF Reindexed
    <3>2. moved \in [Account -> AddressStatus]
      <4>1. status[a].index \in Nat
        BY <1>0 DEF AddressStatus
      <4>2. \A r \in AddressStatus : [r EXCEPT !.index = status[a].index] \in AddressStatus
        BY <4>1 DEF AddressStatus
      <4> QED
        BY <1>0, <4>2
    <3>3. ASSUME NEW b \in Account PROVE moved[b].isIn <=> status[b].isIn
      <4>1. status[b] \in AddressStatus
        BY <1>0
      <4>2. CASE b = last
        <5>1. moved[b] = [status[b] EXCEPT !.index = status[a].index]
          BY <1>0, <4>2
        <5> QED
          BY <4>1, <5>1 DEF AddressStatus
      <4>3. CASE b # last
        BY <1>0, <4>3
      <4> QED
        BY <4>2, <4>3
    <3>4. Unlisted.isIn = FALSE
      BY DEF Unlisted
    <3> HIDE DEF moved
    <3>5. \A b \in Account : status'[b] = IF b = a THEN Unlisted ELSE moved[b]
      BY <3>1, <3>2
    <3> QED
      BY <3>3, <3>4, <3>5
  <2>3. \A b \in Account : households'[b].initialized <=> b # a /\ households[b].initialized
    BY <1>0, <2>1, HouseholdTypes
  <2> QED
    BY <2>1, <2>2, <2>3 DEF Kept, Registries, HandedOver, householdExists
<1>3. ASSUME UNCHANGED <<duVars, status>> PROVE Kept
  BY <1>3, Unregistered DEF duVars, householdExists
<1>4. CASE finalizeChange(sender) \/ renounceSetOwnership(sender)
  BY <1>3, <1>4 DEF finalizeChange, renounceSetOwnership
<1>5. ASSUME NEW a \in Account, transferSetOwnership(sender, a) PROVE Kept
  BY <1>3, <1>5 DEF transferSetOwnership
<1> QED
  BY <1>1, <1>2, <1>4, <1>5 DEF adminCall

LEMMA NettingKeeps ==
  ASSUME Registries, Inv', duInv', anyoneCalls, UNCHANGED setVars
  PROVE  Kept
<1>1. PICK hhs \in Listings, before \in [1..Slots -> Slot],
           after \in [1..Slots -> AnyHash] : checkNetting(hhs, before, after)
  BY DEF anyoneCalls
<1>2. UNCHANGED <<owner, alive, verifier>>
  BY <1>1 DEF checkNetting
<1>3. \A a \in Account : householdExists(a)' <=> householdExists(a)
  BY <1>1, NettingInv DEF Registries
<1> QED
  BY <1>2, <1>3, Unregistered DEF setVars

LEMMA HouseholdCallKeeps ==
  ASSUME Registries, NEW sender \in Account, householdCall(sender)
  PROVE  /\ UNCHANGED <<owner, alive, verifier>>
         /\ \A a \in Account : householdExists(a)' <=> householdExists(a)
<1>1. PICK h \in AnyHash :
        updateRenewableEnergy(sender, h) \/ updateNonRenewableEnergy(sender, h)
  BY DEF householdCall
<1>2. UNCHANGED <<owner, alive, verifier>> /\ households \in [Account -> Household]
      /\ householdExists(sender)
  BY <1>1 DEF updateRenewableEnergy, updateNonRenewableEnergy, Registries, duInv, duTypeOK
<1>3. households'[sender].initialized
  <2>1. CASE households' = [households EXCEPT ![sender].renewableEnergy = h]
    BY <1>2, <2>1, HouseholdTypes DEF householdExists
  <2>2. CASE households' = [households EXCEPT ![sender].nonRenewableEnergy = h]
    BY <1>2, <2>2, HouseholdTypes DEF householdExists
  <2> QED
    BY <1>1, <2>1, <2>2 DEF updateRenewableEnergy, updateNonRenewableEnergy
<1>4. \A a \in Account : a # sender => households'[a] = households[a]
  BY <1>1, <1>2 DEF updateRenewableEnergy, updateNonRenewableEnergy
<1> QED
  BY <1>2, <1>3, <1>4 DEF householdExists

LEMMA HouseholdKeeps ==
  ASSUME Registries, Inv', duInv', NEW sender \in Account, householdCall(sender),
         UNCHANGED setVars
  PROVE  Kept
BY HouseholdCallKeeps, Unregistered DEF setVars

(* A transaction of the script is one of the calls that OwnedSet.tla       *)
(* allows.                                                                 *)
LEMMA TransactionCalls ==
  ASSUME NEW step \in Steps, Transaction(step)
  PROVE  \/ adminCall(Deployer)
         \/ UNCHANGED setVars /\ ownerCall(Deployer)
<1>1. CASE step.call = "setVerifier"
  BY <1>1 DEF Transaction, ownerCall
<1>2. CASE step.call = "addHousehold"
  BY <1>2 DEF Transaction, ownerCall
<1>3. CASE step.call = "transferOwnership"
  BY <1>3 DEF Transaction, ownerCall
<1>4. CASE step.call = "addValidator"
  <2>1. step.who \in Account
    BY <1>4 DEF Steps
  <2> QED
    BY <1>4, <2>1 DEF Transaction, adminCall
<1>5. CASE step.call = "removeValidator"
  <2>1. step.who \in Account
    BY <1>5 DEF Steps
  <2> QED
    BY <1>5, <2>1 DEF Transaction, adminCall
<1>6. CASE step.call = "finalizeChange"
  BY <1>6 DEF Transaction, adminCall
<1> QED
  BY <1>1, <1>2, <1>3, <1>4, <1>5, <1>6 DEF Steps

LEMMA TransactionKeeps ==
  ASSUME Registries, NEW step \in Steps, Transaction(step),
         step.call = "transferOwnership" /\ ~HandedOver => householdExists(Deployer)
  PROVE  Kept /\ (step.call = "addHousehold" => householdExists(Deployer)')
<1>1. [Next]_vars
  BY TransactionCalls DEF Next, utilityCall, External
<1>2. Inv' /\ duInv'
  BY <1>1, NextInv, duNextInv, StepOfUtility DEF Registries
<1>3. households \in [Account -> Household]
  BY DEF Registries, duInv, duTypeOK
<1>4. CASE step.call = "setVerifier"
  <2>1. ~HandedOver /\ UNCHANGED <<owner, alive, households, status>>
    BY <1>4 DEF Transaction, setVerifier, onlyOwner, HandedOver, setVars
  <2> QED
    BY <1>2, <1>4, <2>1 DEF Kept, Registries, HandedOver, householdExists
<1>5. CASE step.call = "addHousehold"
  <2>1. /\ ~HandedOver /\ UNCHANGED <<owner, alive, verifier, status>>
        /\ households' = [households EXCEPT ![Deployer] = Registered(@)]
    BY <1>5 DEF Transaction, addHousehold, onlyOwner, HandedOver, setVars
  <2>2. \A a \in Account :
          households'[a].initialized <=> a = Deployer \/ households[a].initialized
    BY <1>3, <2>1, HouseholdTypes
  <2> QED
    BY <1>2, <2>1, <2>2 DEF Kept, Registries, HandedOver, householdExists
<1>6. CASE step.call = "transferOwnership"
  <2>1. /\ ~HandedOver /\ HandedOver' /\ UNCHANGED <<alive, households, status>>
        /\ owner' = OwnedSetAddress
    BY <1>6 DEF Transaction, transferOwnership, onlyOwner, HandedOver, setVars
  <2>2. householdExists(Deployer)
    BY <1>6, <2>1
  <2>3. ASSUME NEW a \in Account PROVE status[a].isIn <=> householdExists(a)
    <3>1. (status[a].isIn <=> a = Deployer) /\ (householdExists(a) => a = Deployer)
      BY <2>1 DEF Registries
    <3>2. a = Deployer => householdExists(a)
      BY <2>2, Zenon
    <3> QED
      BY <3>1, <3>2, Zenon
  <2>4. \A a \in Account : status'[a].isIn <=> householdExists(a)'
    BY <2>1, <2>3 DEF householdExists
  <2>5. alive' /\ owner' \in {Deployer, OwnedSetAddress}
    BY <2>1 DEF Registries
  <2> QED
    BY <1>2, <1>6, <2>1, <2>4, <2>5 DEF Kept, Registries
<1>7. CASE step.call \in {"addValidator", "removeValidator", "finalizeChange"}
  <2>1. adminCall(Deployer)
    <3>1. step.call \in {"addValidator", "removeValidator"} => step.who \in Account
      BY <1>7 DEF Steps
    <3>2. CASE step.call = "addValidator"
      BY <3>1, <3>2 DEF Transaction, adminCall
    <3>3. CASE step.call = "removeValidator"
      BY <3>1, <3>3 DEF Transaction, adminCall
    <3>4. CASE step.call = "finalizeChange"
      BY <3>4 DEF Transaction, adminCall
    <3> QED
      BY <1>7, <3>2, <3>3, <3>4
  <2> QED
    BY <1>2, <1>7, <2>1, AdminKeeps
<1> QED
  BY <1>4, <1>5, <1>6, <1>7 DEF Steps

LEMMA ScriptKeeps ==
  ASSUME mInv, pc <= Len(Script), Transaction(Script[pc])
  PROVE  Kept /\ (~HandedOver' /\ pc >= 2 => householdExists(Deployer)')
<1>1. Script[pc] \in Steps
  BY ScriptType DEF mInv
<1>2. Script[pc].call = "transferOwnership" => pc >= 3
  BY ScriptType DEF mInv
<1>3. /\ Kept
      /\ Script[pc].call = "addHousehold" => householdExists(Deployer)'
  BY <1>1, <1>2, TransactionKeeps DEF mInv
<1>4. pc >= 2 => pc = 2 \/ pc >= 3
  BY DEF mInv
<1>5. pc = 2 => Script[pc].call = "addHousehold"
  BY ScriptType
<1> QED
  BY <1>3, <1>4, <1>5 DEF mInv, Kept

LEMMA mNextKeeps ==
  ASSUME mInv, [mNext]_mVars, Counted, byHand'.utility = 0
  PROVE  mInv' /\ Kept
<1>0. Registries /\ pc \in Nat \ {0}
  BY DEF mInv
<1>1. ASSUME UNCHANGED vars PROVE Kept
  <2>1. Inv' /\ duInv'
    BY <1>0, <1>1, NextInv, duNextInv DEF Registries, vars
  <2> QED
    BY <1>0, <1>1, <2>1, Unregistered DEF vars, duVars, setVars, householdExists
<1>2. ASSUME Kept, pc' \in Nat \ {0},
             ~HandedOver' /\ pc' >= 3 => householdExists(Deployer)'
      PROVE  mInv' /\ Kept
  BY <1>2 DEF Kept, mInv
<1>3. ASSUME Kept, pc' = pc PROVE mInv' /\ Kept
  BY <1>0, <1>2, <1>3 DEF Kept, mInv
<1>4. CASE Step
  <2>1. pc <= Len(Script) /\ Transaction(Script[pc]) /\ pc' = pc + 1
    BY <1>0, <1>4, ScriptType DEF Step, Finished
  <2>2. Kept /\ (~HandedOver' /\ pc >= 2 => householdExists(Deployer)')
    BY <2>1, ScriptKeeps
  <2> QED
    BY <1>0, <1>2, <2>1, <2>2
<1>5. CASE Abort
  BY <1>1, <1>3, <1>5 DEF Abort
<1>6. CASE Crash
  <2>1. pc <= Len(Script) /\ pc' = pc
    BY <1>0, <1>6, ScriptType DEF Crash, Finished
  <2>2. CASE Transaction(Script[pc])
    BY <1>3, <2>1, <2>2, ScriptKeeps
  <2>3. CASE UNCHANGED vars
    BY <1>1, <1>3, <2>1, <2>3
  <2> QED
    BY <1>6, <2>2, <2>3 DEF Crash
<1>7. CASE Rerun
  <2>1. UNCHANGED vars /\ pc' = 1
    BY <1>7 DEF Rerun
  <2> QED
    BY <1>1, <1>2, <2>1
<1>8. CASE Administrate
  <2>1. PICK sender \in External : adminCall(sender)
    BY <1>8 DEF Administrate
  <2>2. Inv' /\ duInv'
    BY <1>0, <2>1, NextInv, duNextInv, StepOfUtility DEF Registries, Next
  <2> QED
    BY <1>0, <1>3, <1>8, <2>1, <2>2, AdminKeeps DEF Administrate
<1>9. CASE UseUtility
  <2>1. PICK sender \in External : householdCall(sender)
    BY <1>9, HouseholdOnly
  <2>2. UNCHANGED setVars /\ pc' = pc
    BY <1>9, HouseholdOnly DEF script
  <2>3. Inv' /\ duInv'
    BY <1>0, <2>1, <2>2, NextInv, duNextInv, StepOfUtility DEF Registries, Next, utilityCall
  <2> QED
    BY <1>0, <1>3, <2>1, <2>2, <2>3, HouseholdKeeps DEF External
<1>10. CASE Verify
  <2>1. Inv' /\ duInv'
    BY <1>0, <1>10, NextInv, duNextInv, StepOfUtility DEF Registries, Next, Verify
  <2> QED
    BY <1>0, <1>3, <1>10, <2>1, NettingKeeps DEF Verify, script
<1>11. CASE UNCHANGED mVars
  BY <1>1, <1>3, <1>11 DEF mVars, script
<1> QED
  BY <1>4, <1>5, <1>6, <1>7, <1>8, <1>9, <1>10, <1>11 DEF mNext

(* Every step is a call that OwnedSet.tla allows, or none.                 *)
LEMMA mNextCalls ==
  ASSUME Basics, [mNext]_mVars
  PROVE  [Next]_vars /\ pc' \in Nat \ {0}
<1>1. ASSUME ~Finished, Transaction(Script[pc]) PROVE [Next]_vars
  <2>1. Script[pc] \in Steps
    BY <1>1, ScriptType DEF Basics, Finished
  <2> QED
    BY <1>1, <2>1, TransactionCalls DEF Next, utilityCall, External
<1>2. CASE Step
  BY <1>1, <1>2 DEF Step, Basics
<1>3. CASE Abort
  BY <1>3 DEF Abort, Basics
<1>4. CASE Crash
  BY <1>1, <1>4 DEF Crash, Basics
<1>5. CASE Rerun
  BY <1>5 DEF Rerun
<1>6. CASE Administrate
  BY <1>6 DEF Administrate, Next, Basics
<1>7. CASE UseUtility
  BY <1>7 DEF UseUtility, Next, utilityCall, script, Basics
<1>8. CASE Verify
  BY <1>8 DEF Verify, Next, script, Basics
<1>9. CASE UNCHANGED mVars
  BY <1>9 DEF mVars, script, Basics
<1> QED
  BY <1>2, <1>3, <1>4, <1>5, <1>6, <1>7, <1>8, <1>9 DEF mNext

LEMMA BasicsKept ==
  ASSUME Basics, [mNext]_mVars PROVE Basics'
<1>1. [Next]_vars /\ [duNext]_duVars /\ pc' \in Nat \ {0}
  BY mNextCalls, StepOfUtility
<1>2. Inv' /\ duInv' /\ Counted'
  BY <1>1, NextInv, duNextInv, ByHandGrows DEF Basics
<1>3. owner = NoAddress => owner' = NoAddress
  BY <1>1, DisownedStep DEF Basics
<1>4. alive => alive' \/ owner' = NoAddress
  <2>1. CASE UNCHANGED duVars
    BY <2>1 DEF duVars
  <2>2. ASSUME NEW sender \in Account, householdCall(sender) PROVE alive' = alive
    BY <2>2 DEF householdCall, updateRenewableEnergy, updateNonRenewableEnergy
  <2>3. ASSUME NEW sender \in Account, ownerCall(sender)
        PROVE  alive' = alive \/ owner' = NoAddress
    BY <2>3 DEF ownerCall, addHousehold, removeHousehold, setVerifier, transferOwnership,
                renounceOwnership, close
  <2>4. CASE anyoneCalls
    BY <2>4 DEF anyoneCalls, checkNetting
  <2> QED
    BY <1>1, <2>1, <2>2, <2>3, <2>4 DEF duNext
<1> QED
  BY <1>1, <1>2, <1>3, <1>4 DEF Basics

(* The invariant: the registries as long as nobody has called as the       *)
(* owner of dUtility.                                                      *)
Guarded == Basics /\ (byHand.utility = 0 => mInv)

LEMMA GuardedInit ==
  ASSUME mInit PROVE Guarded
<1>1. Inv /\ duInv
  BY InitInv, duInitInv DEF mInit, Init
<1>2. Counted /\ pc = 1 /\ alive
  BY DEF mInit, Init, duInit, Untouched, Counted
<1> QED
  BY <1>1, <1>2, mInitInv DEF Guarded, Basics

LEMMA GuardedKept ==
  ASSUME Guarded, [mNext]_mVars PROVE Guarded'
BY BasicsKept, ByHandGrows, mNextKeeps DEF Guarded, Basics

LEMMA mAlwaysInv == mSpec => []Guarded
<1>1. Guarded /\ [mNext]_mVars => Guarded'
  BY GuardedKept
<1> QED
  BY <1>1, GuardedInit, PTL DEF mSpec

(* From the handover on the two contracts hold the same registry, wherever *)
(* the script of 2_deploy_contracts.js died on the way, if nobody called   *)
(* dUtility as its owner before.                                           *)
THEOREM RegistriesAlways == mSpec => []RegistriesAgree
<1>1. Guarded => RegistriesAgree
  BY DEF Guarded, mInv, Registries, RegistriesAgree
<1> QED
  BY <1>1, mAlwaysInv, PTL

(* So OwnedSet can remove every validator it knows: removeValidator never  *)
(* reverts in its second half.                                             *)
THEOREM RemovableAlways == mSpec => []ValidatorsRemovable
<1>1. Guarded => ValidatorsRemovable
  BY DEF Guarded, mInv, Registries, ValidatorsRemovable, Inv, StatusIndexesPending, isValidator
<1> QED
  BY <1>1, mAlwaysInv, PTL

(* A call that is not dUtility's owner's leaves owner and verifier.        *)
LEMMA NotTheOwners ==
  ASSUME HandedOver, [mNext]_mVars, Basics
  PROVE  UNCHANGED <<owner, alive, verifier>>
<1>1. ASSUME NEW sender \in External PROVE ~ownerCall(sender)
  BY DEF ownerCall, addHousehold, removeHousehold, setVerifier, transferOwnership,
         renounceOwnership, close, onlyOwner, HandedOver, External
<1>2. ASSUME NEW sender, adminCall(sender) PROVE UNCHANGED <<owner, alive, verifier>>
  BY <1>2 DEF adminCall, addValidator, addHousehold, removeValidator, removeHousehold,
              finalizeChange, transferSetOwnership, renounceSetOwnership, duVars
<1>3. ASSUME NEW sender, householdCall(sender) PROVE UNCHANGED <<owner, alive, verifier>>
  BY <1>3 DEF householdCall, updateRenewableEnergy, updateNonRenewableEnergy
<1>4. ASSUME anyoneCalls PROVE UNCHANGED <<owner, alive, verifier>>
  BY <1>4 DEF anyoneCalls, checkNetting
<1>5. [Next]_vars
  BY mNextCalls
<1> QED
  BY <1>1, <1>2, <1>3, <1>4, <1>5 DEF Next, utilityCall, vars, duVars

(* OwnedSet has no way to give dUtility back, to destroy it or to change   *)
(* its verifier.                                                           *)
THEOREM HandoverAlways == mSpec => HandoverIsFinal
<1>1. ASSUME Guarded, [mNext]_mVars, HandedOver
      PROVE  HandedOver' /\ alive' /\ verifier' = verifier
  <2>1. UNCHANGED <<owner, alive, verifier>>
    BY <1>1, NotTheOwners DEF Guarded
  <2>2. alive
    BY <1>1 DEF Guarded, Basics, HandedOver
  <2> QED
    BY <1>1, <2>1, <2>2 DEF HandedOver
<1>2. Guarded /\ [mNext]_mVars =>
        [HandedOver => HandedOver' /\ alive' /\ verifier' = verifier]_mVars
  BY <1>1
<1> QED
  BY <1>2, mAlwaysInv, PTL DEF mSpec, HandoverIsFinal
-----------------------------------------------------------------------------
(* What the script lists, in its order: Planned.                           *)
Planned == Initial \o Others \o <<Fake>>

LEMMA PlannedFacts ==
  LET N == Len(Others)
  IN  /\ N \in Nat
      /\ Planned \in Seq(Account) /\ Len(Planned) = N + 2
      /\ Len(Initial) = 1 /\ Initial[1] = Planned[1]
      /\ \A k \in 1..N : Planned[k + 1] = Others[k]
      /\ Planned[N + 2] = Fake
<1> DEFINE N == Len(Others)
           s == Initial \o Others
           f == <<Fake>>
<1>0. PICK one \in Nat : one = 1
  OBVIOUS
<1>1. /\ N \in Nat /\ Initial \in Seq(Account) /\ Others \in Seq(Account)
      /\ Len(Initial) = one /\ f \in Seq(Account) /\ Len(f) = one
      /\ f[one] = Fake
  BY <1>0
<1> HIDE DEF f, N
<1>2. /\ s \in Seq(Account) /\ Len(s) = one + N /\ \A k \in 1..one : s[k] = Initial[k]
      /\ \A k \in 1..N : s[one + k] = Others[k]
  BY <1>1 DEF N
<1> HIDE DEF s
<1>3. /\ s \o f \in Seq(Account) /\ Len(s \o f) = one + N + one
      /\ \A k \in 1..(one + N) : (s \o f)[k] = s[k]
      /\ \A k \in 1..one : (s \o f)[one + N + k] = f[k]
  BY <1>1, <1>2
<1>4. Planned = s \o f
  BY DEF Planned, s, f
<1>5. /\ one \in 1..(one + N) /\ one \in 1..one /\ one + N + one = N + 2
      /\ \A k \in 1..N : one + k \in 1..(one + N) /\ one + k = k + 1
  BY <1>0, <1>1
<1>6. /\ Planned \in Seq(Account) /\ Len(Planned) = one + N + one
      /\ \A k \in 1..(one + N) : Planned[k] = s[k]
      /\ \A k \in 1..one : Planned[one + N + k] = f[k]
  BY <1>3, <1>4, Zenon
<1>7. Len(Planned) = N + 2 /\ Planned[N + 2] = Fake
  BY <1>1, <1>5, <1>6
<1>8. Len(Initial) = 1 /\ Initial[1] = Planned[1]
  <2>1. Planned[one] = s[one] /\ s[one] = Initial[one]
    BY <1>2, <1>5, <1>6
  <2> QED
    BY <1>0, <1>1, <2>1
<1>9. \A k \in 1..N : Planned[k + 1] = Others[k]
  BY <1>2, <1>5, <1>6
<1> QED
  BY <1>1, <1>6, <1>7, <1>8, <1>9 DEF N

LEMMA ScriptOrder ==
  LET N == Len(Others)
  IN  /\ Len(Script) = N + 7
      /\ Script[3].call = "transferOwnership"
      /\ \A k \in 4..(N + 4) :
           Script[k].call = "addValidator" /\ Script[k].who = Planned[k - 2]
      /\ Script[N + 5].call = "finalizeChange"
      /\ Script[N + 6].call = "removeValidator" /\ Script[N + 6].who = Fake
      /\ Script[N + 7].call = "finalizeChange"
<1> DEFINE N == Len(Others)
           s1 == Prepare \o HandOver
           s2 == s1 \o AddOthers
           s3 == s2 \o AddFake
           s4 == s3 \o Finalize
           s5 == s4 \o DropFake
           s6 == s5 \o Finalize
<1>1. /\ Prepare \in Seq(Steps) /\ Len(Prepare) = 2
      /\ HandOver \in Seq(Steps) /\ Len(HandOver) = 1
      /\ HandOver[1].call = "transferOwnership"
  BY DEF Prepare, HandOver, Steps
<1>2. /\ N \in Nat /\ AddOthers \in Seq(Steps) /\ Len(AddOthers) = N
      /\ \A k \in 1..N :
           AddOthers[k].call = "addValidator" /\ AddOthers[k].who = Others[k]
  <2>1. N \in Nat /\ \A k \in 1..N : Others[k] \in Account
    OBVIOUS
  <2>2. \A k \in 1..N : [call |-> "addValidator", who |-> Others[k]] \in Steps
    BY <2>1 DEF Steps
  <2> QED
    BY <2>1, <2>2 DEF AddOthers
<1>3. /\ AddFake \in Seq(Steps) /\ Len(AddFake) = 1
      /\ AddFake[1].call = "addValidator" /\ AddFake[1].who = Fake
      /\ DropFake \in Seq(Steps) /\ Len(DropFake) = 1
      /\ DropFake[1].call = "removeValidator" /\ DropFake[1].who = Fake
      /\ Finalize \in Seq(Steps) /\ Len(Finalize) = 1
      /\ Finalize[1].call = "finalizeChange"
  BY DEF AddFake, DropFake, Finalize, Steps
<1> HIDE DEF N, s1, s2, s3, s4, s5, s6
<1>0. ASSUME NEW s \in Seq(Steps), NEW t \in Seq(Steps)
      PROVE  /\ s \o t \in Seq(Steps) /\ Len(s \o t) = Len(s) + Len(t)
             /\ \A k \in 1..Len(s) : (s \o t)[k] = s[k]
             /\ \A k \in 1..Len(t) : (s \o t)[Len(s) + k] = t[k]
  OBVIOUS
<1>4. s1 \in Seq(Steps) /\ Len(s1) = 3 /\ s1[3].call = "transferOwnership"
  <2>1. Prepare \in Seq(Steps) /\ HandOver \in Seq(Steps)
    BY <1>1
  <2>2. /\ Prepare \o HandOver \in Seq(Steps) /\ Len(Prepare \o HandOver) = Len(Prepare) + Len(HandOver)
        /\ \A k \in 1..Len(Prepare) : (Prepare \o HandOver)[k] = Prepare[k]
        /\ \A k \in 1..Len(HandOver) : (Prepare \o HandOver)[Len(Prepare) + k] = HandOver[k]
    BY <1>0, <2>1
  <2>3. /\ s1 \in Seq(Steps) /\ Len(s1) = Len(Prepare) + Len(HandOver)
        /\ \A k \in 1..Len(Prepare) : s1[k] = Prepare[k]
        /\ \A k \in 1..Len(HandOver) : s1[Len(Prepare) + k] = HandOver[k]
    BY <2>2, Zenon DEF s1
  <2> QED
    BY <1>1, <2>3
<1>5. /\ s2 \in Seq(Steps) /\ Len(s2) = N + 3 /\ s2[3] = s1[3]
      /\ \A k \in 1..N : s2[3 + k] = AddOthers[k]
  <2>1. s1 \in Seq(Steps) /\ AddOthers \in Seq(Steps)
    BY <1>2, <1>4
  <2>2. /\ s1 \o AddOthers \in Seq(Steps) /\ Len(s1 \o AddOthers) = Len(s1) + Len(AddOthers)
        /\ \A k \in 1..Len(s1) : (s1 \o AddOthers)[k] = s1[k]
        /\ \A k \in 1..Len(AddOthers) : (s1 \o AddOthers)[Len(s1) + k] = AddOthers[k]
    BY <1>0, <2>1
  <2>3. /\ s2 \in Seq(Steps) /\ Len(s2) = Len(s1) + Len(AddOthers)
        /\ \A k \in 1..Len(s1) : s2[k] = s1[k]
        /\ \A k \in 1..Len(AddOthers) : s2[Len(s1) + k] = AddOthers[k]
    BY <2>2, Zenon DEF s2
  <2> QED
    BY <1>2, <1>4, <2>3
<1>6. /\ s3 \in Seq(Steps) /\ Len(s3) = N + 4
      /\ \A k \in 1..(N + 3) : s3[k] = s2[k]
      /\ s3[N + 4] = AddFake[1]
  <2>1. s2 \in Seq(Steps) /\ AddFake \in Seq(Steps)
    BY <1>2, <1>3, <1>5
  <2>2. /\ s2 \o AddFake \in Seq(Steps) /\ Len(s2 \o AddFake) = Len(s2) + Len(AddFake)
        /\ \A k \in 1..Len(s2) : (s2 \o AddFake)[k] = s2[k]
        /\ \A k \in 1..Len(AddFake) : (s2 \o AddFake)[Len(s2) + k] = AddFake[k]
    BY <1>0, <2>1
  <2>3. /\ s3 \in Seq(Steps) /\ Len(s3) = Len(s2) + Len(AddFake)
        /\ \A k \in 1..Len(s2) : s3[k] = s2[k]
        /\ \A k \in 1..Len(AddFake) : s3[Len(s2) + k] = AddFake[k]
    BY <2>2, Zenon DEF s3
  <2> QED
    BY <1>2, <1>3, <1>5, <2>3
<1>7. /\ s4 \in Seq(Steps) /\ Len(s4) = N + 5
      /\ \A k \in 1..(N + 4) : s4[k] = s3[k]
      /\ s4[N + 5] = Finalize[1]
  <2>1. s3 \in Seq(Steps) /\ Finalize \in Seq(Steps)
    BY <1>2, <1>3, <1>6
  <2>2. /\ s3 \o Finalize \in Seq(Steps) /\ Len(s3 \o Finalize) = Len(s3) + Len(Finalize)
        /\ \A k \in 1..Len(s3) : (s3 \o Finalize)[k] = s3[k]
        /\ \A k \in 1..Len(Finalize) : (s3 \o Finalize)[Len(s3) + k] = Finalize[k]
    BY <1>0, <2>1
  <2>3. /\ s4 \in Seq(Steps) /\ Len(s4) = Len(s3) + Len(Finalize)
        /\ \A k \in 1..Len(s3) : s4[k] = s3[k]
        /\ \A k \in 1..Len(Finalize) : s4[Len(s3) + k] = Finalize[k]
    BY <2>2, Zenon DEF s4
  <2> QED
    BY <1>2, <1>3, <1>6, <2>3
<1>8. /\ s5 \in Seq(Steps) /\ Len(s5) = N + 6
      /\ \A k \in 1..(N + 5) : s5[k] = s4[k]
      /\ s5[N + 6] = DropFake[1]
  <2>1. s4 \in Seq(Steps) /\ DropFake \in Seq(Steps)
    BY <1>2, <1>3, <1>7
  <2>2. /\ s4 \o DropFake \in Seq(Steps) /\ Len(s4 \o DropFake) = Len(s4) + Len(DropFake)
        /\ \A k \in 1..Len(s4) : (s4 \o DropFake)[k] = s4[k]
        /\ \A k \in 1..Len(DropFake) : (s4 \o DropFake)[Len(s4) + k] = DropFake[k]
    BY <1>0, <2>1
  <2>3. /\ s5 \in Seq(Steps) /\ Len(s5) = Len(s4) + Len(DropFake)
        /\ \A k \in 1..Len(s4) : s5[k] = s4[k]
        /\ \A k \in 1..Len(DropFake) : s5[Len(s4) + k] = DropFake[k]
    BY <2>2, Zenon DEF s5
  <2> QED
    BY <1>2, <1>3, <1>7, <2>3
<1>9. /\ s6 \in Seq(Steps) /\ Len(s6) = N + 7
      /\ \A k \in 1..(N + 6) : s6[k] = s5[k]
      /\ s6[N + 7] = Finalize[1]
  <2>1. s5 \in Seq(Steps) /\ Finalize \in Seq(Steps)
    BY <1>2, <1>3, <1>8
  <2>2. /\ s5 \o Finalize \in Seq(Steps) /\ Len(s5 \o Finalize) = Len(s5) + Len(Finalize)
        /\ \A k \in 1..Len(s5) : (s5 \o Finalize)[k] = s5[k]
        /\ \A k \in 1..Len(Finalize) : (s5 \o Finalize)[Len(s5) + k] = Finalize[k]
    BY <1>0, <2>1
  <2>3. /\ s6 \in Seq(Steps) /\ Len(s6) = Len(s5) + Len(Finalize)
        /\ \A k \in 1..Len(s5) : s6[k] = s5[k]
        /\ \A k \in 1..Len(Finalize) : s6[Len(s5) + k] = Finalize[k]
    BY <2>2, Zenon DEF s6
  <2> QED
    BY <1>2, <1>3, <1>8, <2>3
<1>10. Script = s6
  BY DEF Script, s1, s2, s3, s4, s5, s6
<1>11. s6[3] = s1[3] /\ s6[N + 5] = Finalize[1] /\ s6[N + 6] = DropFake[1]
  <2>1. /\ 3 \in 1..(N + 3) /\ 3 \in 1..(N + 4) /\ 3 \in 1..(N + 5) /\ 3 \in 1..(N + 6)
        /\ N + 5 \in 1..(N + 5) /\ N + 5 \in 1..(N + 6) /\ N + 6 \in 1..(N + 6)
    BY <1>2
  <2>2. s6[3] = s5[3] /\ s6[N + 5] = s5[N + 5] /\ s6[N + 6] = s5[N + 6]
    BY <1>9, <2>1, Zenon
  <2>3. s5[3] = s4[3] /\ s5[N + 5] = s4[N + 5]
    BY <1>8, <2>1, Zenon
  <2>4. s4[3] = s3[3] /\ s3[3] = s2[3]
    BY <1>6, <1>7, <2>1, Zenon
  <2> QED
    BY <1>5, <1>7, <1>8, <2>2, <2>3, <2>4, Zenon
<1>12. ASSUME NEW k \in 4..(N + 4)
       PROVE  s6[k].call = "addValidator" /\ s6[k].who = Planned[k - 2]
  <2>1. k \in Nat /\ s6[k] = s3[k]
    BY <1>2, <1>7, <1>8, <1>9
  <2>2. CASE k = N + 4
    BY <1>2, <1>3, <1>6, <2>1, <2>2, PlannedFacts DEF N
  <2>3. CASE k \in 4..(N + 3)
    <3>1. PICK j \in 1..N : k = 3 + j
      BY <1>2, <2>3
    <3>2. s3[k] = AddOthers[j] /\ Planned[k - 2] = Others[j]
      <4>1. k - 2 = j + 1 /\ k \in 1..(N + 3)
        BY <1>2, <3>1
      <4> QED
        BY <1>5, <1>6, <3>1, <4>1, PlannedFacts DEF N
    <3> QED
      BY <1>2, <2>1, <3>2
  <2> QED
    BY <1>2, <2>1, <2>2, <2>3
<1> QED
  BY <1>3, <1>4, <1>9, <1>10, <1>11, <1>12 DEF N
(* The lists while the script runs, transaction by transaction.            *)
Filled(list, n) == Len(list) = n /\ \A k \in 1..n : list[k] = Planned[k]

Building ==
  LET N == Len(Others)
  IN  /\ pc <= N + 5 => Filled(pending, pc - 3) /\ Filled(validators, 1) /\ ~finalized
      /\ pc = N + 6 => Filled(pending, N + 2) /\ Filled(validators, N + 2) /\ finalized
      /\ pc = N + 7 => Filled(pending, N + 1) /\ ~finalized /\ ~status[Fake].isIn

(* A process that has got past the handover did it itself, so that it      *)
(* found the lists as they were constructed and nobody has touched them    *)
(* since; one that starts later gets no further than its first call.       *)
PlanInv ==
  /\ ~HandedOver => /\ pc <= 3 /\ setOwner = Deployer /\ ~finalized
                    /\ pending = Initial /\ validators = Initial
  /\ running /\ HandedOver => pc = 1 \/ pc >= 4
  /\ running /\ ~HandedOver /\ pc >= 2 => verifier = Verifier
  /\ running /\ pc >= 4 /\ ~Finished =>
       verifier = Verifier /\ setOwner = Deployer /\ Building

LEMMA PlanInit ==
  ASSUME mInit
  PROVE  PlanInv
<1>1. pc = 1 /\ owner = Deployer /\ setInit
  BY DEF mInit, Init, duInit
<1> QED
  BY <1>1 DEF PlanInv, setInit, HandedOver

LEMMA Undisturbed ==
  ASSUME PlanInv, UNCHANGED <<setVars, script, owner, verifier>>
  PROVE  PlanInv'
BY DEF PlanInv, setVars, script, HandedOver, Finished, Building, Filled

(* Up to the handover the script does not call OwnedSet.                   *)
LEMMA EarlyTransaction ==
  ASSUME pc \in 1..3, Transaction(Script[pc])
  PROVE  /\ UNCHANGED setVars /\ owner = Deployer
         /\ pc = 1 => verifier' = Verifier /\ owner' = owner
         /\ pc = 2 => verifier' = verifier /\ owner' = owner
         /\ pc = 3 => verifier' = verifier /\ owner' = OwnedSetAddress
<1>1. CASE pc = 1
  <2>1. Script[pc].call = "setVerifier"
    BY <1>1, ScriptType
  <2> QED
    BY <1>1, <2>1 DEF Transaction, setVerifier, onlyOwner
<1>2. CASE pc = 2
  <2>1. Script[pc].call = "addHousehold"
    BY <1>2, ScriptType
  <2> QED
    BY <1>2, <2>1 DEF Transaction, addHousehold, onlyOwner
<1>3. CASE pc = 3
  <2>1. Script[pc].call = "transferOwnership"
    BY <1>3, ScriptOrder
  <2> QED
    BY <1>3, <2>1 DEF Transaction, transferOwnership, onlyOwner
<1> QED
  BY <1>1, <1>2, <1>3

LEMMA EarlyStep ==
  ASSUME mInv, PlanInv, Step, pc \in 1..3
  PROVE  PlanInv'
<1>1. /\ running' = running /\ running /\ pc' = pc + 1 /\ ~Finished
      /\ Transaction(Script[pc])
  BY DEF Step
<1>2. /\ UNCHANGED setVars /\ owner = Deployer
      /\ pc = 1 => verifier' = Verifier /\ owner' = owner
      /\ pc = 2 => verifier' = verifier /\ owner' = owner
      /\ pc = 3 => verifier' = verifier /\ owner' = OwnedSetAddress
  BY <1>1, EarlyTransaction
<1>3. ~HandedOver /\ OwnedSetAddress # Deployer
  BY <1>2 DEF HandedOver
<1>4. /\ setOwner' = Deployer /\ ~finalized' /\ pending' = Initial /\ validators' = Initial
  BY <1>2, <1>3 DEF PlanInv, setVars
<1>5. CASE pc \in 1..2
  <2>1. ~HandedOver' /\ verifier' = Verifier /\ pc' \in 2..3
    BY <1>1, <1>2, <1>3, <1>5 DEF HandedOver, PlanInv
  <2> QED
    BY <1>4, <2>1 DEF PlanInv
<1>6. CASE pc = 3
  <2>1. HandedOver' /\ verifier' = Verifier /\ pc' = 4
    BY <1>1, <1>2, <1>3, <1>6 DEF HandedOver, PlanInv
  <2>2. Building'
    <3>1. Len(Others) \in Nat /\ Filled(Initial, 1)
      BY PlannedFacts DEF Filled
    <3>2. Filled(pending', pc' - 3) /\ Filled(validators', 1)
      BY <1>4, <2>1, <3>1
    <3> QED
      BY <1>4, <2>1, <3>1, <3>2 DEF Building, Filled
  <2> QED
    BY <1>4, <2>1, <2>2 DEF PlanInv
<1> QED
  BY <1>5, <1>6
(* The running script after the handover.                                  *)
LEMMA Onward ==
  ASSUME mInv, PlanInv, Step, pc >= 4
  PROVE  /\ pc \in 4..(Len(Others) + 7) /\ Len(Others) \in Nat /\ pc' = pc + 1
         /\ running' = running
         /\ HandedOver /\ owner # Deployer /\ verifier = Verifier /\ setOwner = Deployer
         /\ Building /\ Transaction(Script[pc]) /\ Script[pc] \in Steps
         /\ pending \in Seq(Account) /\ validators \in Seq(Account)
<1>1. running /\ running' = running /\ ~Finished /\ Transaction(Script[pc]) /\ pc' = pc + 1
  BY DEF Step
<1>2. pc \in Nat /\ ~(pc > Len(Script)) /\ Len(Others) \in Nat
  BY <1>1, PlannedFacts DEF mInv, Finished
<1>3. pc \in 4..(Len(Others) + 7)
  BY <1>2, ScriptOrder
<1>4. HandedOver /\ owner # Deployer
  BY <1>3 DEF PlanInv, HandedOver
<1>5. Script[pc] \in Steps
  BY <1>2, ScriptType
<1> QED
  BY <1>1, <1>2, <1>3, <1>4, <1>5 DEF PlanInv, mInv, Registries, Inv, SetTypes

LEMMA ListStep ==
  ASSUME mInv, PlanInv, Step, pc \in 4..(Len(Others) + 4)
  PROVE  PlanInv'
<1> DEFINE N == Len(Others)
           a == Planned[pc - 2]
<1>1. N \in Nat /\ pc \in 4..(N + 4)
  BY PlannedFacts
<1>2. /\ pc' = pc + 1 /\ running' = running
      /\ HandedOver /\ verifier = Verifier /\ setOwner = Deployer /\ Building
      /\ Transaction(Script[pc])
      /\ pending \in Seq(Account)
  BY <1>1, Onward
<1>3. addValidator(Deployer, a)
  BY <1>1, <1>2, ScriptOrder DEF Transaction
<1>4. /\ pending' = Append(pending, a) /\ ~finalized'
      /\ UNCHANGED <<setOwner, validators, owner, verifier>>
  BY <1>3 DEF addValidator, Enlist, addHousehold
<1>5. Filled(pending, pc - 3) /\ Filled(validators, 1)
  BY <1>1, <1>2 DEF Building
<1>6. Filled(pending', pc' - 3)
  <2>1. Len(pending') = pc - 2 /\ pending'[pc - 2] = a
        /\ \A k \in 1..(pc - 3) : pending'[k] = pending[k]
    BY <1>1, <1>2, <1>4, <1>5 DEF Filled
  <2>2. pc' - 3 = pc - 2 /\ \A k \in 1..(pc - 2) : k = pc - 2 \/ k \in 1..(pc - 3)
    BY <1>1, <1>2
  <2> QED
    BY <1>5, <2>1, <2>2, Zenon DEF Filled
<1>7. Filled(validators', 1)
  BY <1>4, <1>5
<1>8. pc' \in 5..(N + 5)
  BY <1>1, <1>2
<1>9. Building'
  BY <1>1, <1>4, <1>6, <1>7, <1>8 DEF Building, Filled
<1>10. HandedOver'
  BY <1>2, <1>4 DEF HandedOver
<1> QED
  BY <1>1, <1>2, <1>4, <1>8, <1>9, <1>10 DEF PlanInv

LEMMA ActivateStep ==
  ASSUME mInv, PlanInv, Step, pc = Len(Others) + 5
  PROVE  PlanInv'
<1> DEFINE N == Len(Others)
<1>1. N \in Nat /\ pc = N + 5 /\ pc >= 4
  BY PlannedFacts
<1>2. /\ pc' = N + 6 /\ running' = running
      /\ HandedOver /\ verifier = Verifier /\ setOwner = Deployer /\ Building
      /\ Transaction(Script[pc])
  BY <1>1, Onward
<1>3. finalizeChange(Deployer)
  BY <1>1, <1>2, ScriptOrder DEF Transaction
<1>4. /\ validators' = pending /\ pending' = pending /\ finalized'
      /\ UNCHANGED <<setOwner, owner, verifier>>
  BY <1>3 DEF finalizeChange, duVars
<1>5. Filled(pending, N + 2)
  <2>1. Filled(pending, pc - 3)
    BY <1>1, <1>2 DEF Building
  <2>2. pc - 3 = N + 2
    BY <1>1
  <2> QED
    BY <2>1, <2>2
<1>6. Building'
  BY <1>1, <1>2, <1>4, <1>5 DEF Building, Filled
<1>7. HandedOver'
  BY <1>2, <1>4 DEF HandedOver
<1> QED
  BY <1>1, <1>2, <1>4, <1>6, <1>7 DEF PlanInv

LEMMA DropStep ==
  ASSUME mInv, PlanInv, Step, pc = Len(Others) + 6
  PROVE  PlanInv'
<1> DEFINE N == Len(Others)
<1>1. N \in Nat /\ pc = N + 6 /\ pc >= 4
  BY PlannedFacts
<1>2. /\ pc' = N + 7 /\ running' = running
      /\ HandedOver /\ verifier = Verifier /\ setOwner = Deployer /\ Building
      /\ Transaction(Script[pc])
      /\ pending \in Seq(Account)
  BY <1>1, Onward
<1>3. removeValidator(Deployer, Fake)
  BY <1>1, <1>2, ScriptOrder DEF Transaction
<1>4. /\ pending' = Without(status[Fake].index) /\ status' = Reindexed(Fake) /\ ~finalized'
      /\ UNCHANGED <<setOwner, owner, verifier>>
  BY <1>3 DEF removeValidator, removeHousehold
<1>5. Filled(pending, N + 2)
  BY <1>1, <1>2 DEF Building
<1>6. pending[N + 2] = Fake /\ Len(pending) = N + 2 /\ status[Fake].index = N + 2
  <2>1. pending[N + 2] = Fake /\ Len(pending) = N + 2
    BY <1>1, <1>5, PlannedFacts DEF Filled
  <2> QED
    BY <1>1, <2>1 DEF mInv, Registries, Inv, StatusIndexesPending
<1>7. Filled(pending', N + 1)
  <2> DEFINE same == [pending EXCEPT ![N + 2] = pending[N + 2]]
  <2>1. same \in Seq(Account) /\ Len(same) = N + 2 /\ \A k \in 1..(N + 2) : same[k] = pending[k]
    BY <1>1, <1>2, <1>6
  <2>2. pending' = SubSeq(same, 1, N + 1)
    <3>1. pending' = SubSeq([pending EXCEPT ![N + 2] = pending[Len(pending)]], 1, Len(pending) - 1)
      BY <1>4, <1>6 DEF Without
    <3>2. Len(pending) - 1 = N + 1
      BY <1>1, <1>6
    <3> QED
      BY <1>6, <3>1, <3>2
  <2> HIDE DEF same
  <2>3. Len(pending') = N + 1 /\ \A k \in 1..(N + 1) : pending'[k] = same[k]
    BY <1>1, <2>1, <2>2
  <2> QED
    BY <1>1, <1>5, <2>1, <2>3 DEF Filled
<1>8. ~status'[Fake].isIn
  <2>1. status \in [Account -> AddressStatus]
    BY DEF mInv, Registries, Inv, SetTypes
  <2> QED
    BY <1>4, <2>1 DEF Reindexed, Unlisted
<1>9. Building'
  BY <1>1, <1>2, <1>4, <1>7, <1>8 DEF Building, Filled
<1>10. HandedOver'
  BY <1>2, <1>4 DEF HandedOver
<1> QED
  BY <1>1, <1>2, <1>4, <1>9, <1>10 DEF PlanInv

(* What a finished deployment has built.                                   *)
Deployed ==
  /\ validators = Initial \o Others
  /\ finalized
  /\ pending = validators
  /\ HandedOver
  /\ verifier = Verifier
  /\ ~householdExists(Fake)

LEMMA LastStep ==
  ASSUME mInv, PlanInv, Step, pc = Len(Others) + 7
  PROVE  PlanInv' /\ Deployed'
<1> DEFINE N == Len(Others)
<1>1. N \in Nat /\ pc = N + 7 /\ pc >= 4
  BY PlannedFacts
<1>2. /\ pc' = N + 8 /\ running' = running
      /\ HandedOver /\ verifier = Verifier /\ setOwner = Deployer /\ Building
      /\ Transaction(Script[pc])
      /\ pending \in Seq(Account)
  BY <1>1, Onward
<1>3. finalizeChange(Deployer)
  BY <1>1, <1>2, ScriptOrder DEF Transaction
<1>4. /\ validators' = pending /\ pending' = pending /\ finalized' /\ status' = status
      /\ UNCHANGED <<setOwner, owner, verifier, households>>
  BY <1>3 DEF finalizeChange, duVars
<1>5. Filled(pending, N + 1) /\ ~status[Fake].isIn
  BY <1>1, <1>2 DEF Building
<1>6. HandedOver' /\ verifier' = Verifier
  BY <1>2, <1>4 DEF HandedOver
<1>7. pending = Initial \o Others
  <2> DEFINE list == Initial \o Others
  <2>1. list \in Seq(Account) /\ Len(list) = N + 1
        /\ list[1] = Initial[1] /\ \A k \in 1..N : list[k + 1] = Others[k]
    <3>1. Initial \in Seq(Account) /\ Others \in Seq(Account) /\ Len(Initial) = 1
      OBVIOUS
    <3>2. /\ list \in Seq(Account) /\ Len(list) = Len(Initial) + Len(Others)
          /\ \A k \in 1..Len(Initial) : list[k] = Initial[k]
          /\ \A k \in 1..Len(Others) : list[Len(Initial) + k] = Others[k]
      BY <3>1
    <3> HIDE DEF list
    <3> QED
      BY <1>1, <3>1, <3>2
  <2> HIDE DEF list
  <2>2. \A k \in 1..(N + 1) : list[k] = Planned[k]
    <3>1. list[1] = Planned[1] /\ \A k \in 1..N : list[k + 1] = Planned[k + 1]
      BY <2>1, PlannedFacts
    <3>2. \A k \in 1..(N + 1) : k = 1 \/ (k - 1 \in 1..N /\ (k - 1) + 1 = k)
      BY <1>1
    <3> QED
      BY <3>1, <3>2
  <2>3. Len(pending) = N + 1 /\ \A k \in 1..(N + 1) : pending[k] = list[k]
    BY <1>5, <2>2 DEF Filled
  <2>4. pending = list
    BY <1>1, <1>2, <2>1, <2>3
  <2> QED
    BY <2>4 DEF list
<1>8. ~householdExists(Fake)'
  <2>1. ~householdExists(Fake)
    BY <1>2, <1>5 DEF mInv, Registries
  <2> QED
    BY <1>4, <2>1 DEF householdExists
<1>9. Deployed'
  BY <1>4, <1>6, <1>7, <1>8 DEF Deployed
<1>10. Finished'
  BY <1>1, <1>2, ScriptOrder DEF Finished
<1> QED
  BY <1>1, <1>2, <1>4, <1>6, <1>9, <1>10 DEF PlanInv
LEMMA StepPlan ==
  ASSUME mInv, PlanInv, Step
  PROVE  PlanInv' /\ (Finished' => Deployed')
<1> DEFINE N == Len(Others)
<1>1. /\ N \in Nat /\ pc \in 1..(N + 7) /\ pc' = pc + 1
      /\ Len(Script) = N + 7
  <2>1. pc \in Nat \ {0} /\ ~Finished /\ pc' = pc + 1
    BY DEF mInv, Step
  <2> QED
    BY <2>1, PlannedFacts, ScriptOrder DEF Finished
<1>2. CASE pc = N + 7
  BY <1>2, LastStep
<1>3. CASE pc \in 1..(N + 6)
  <2>1. ~Finished'
    BY <1>1, <1>3 DEF Finished
  <2>2. pc \in 1..3 \/ pc \in 4..(N + 4) \/ pc = N + 5 \/ pc = N + 6
    BY <1>1, <1>3
  <2> QED
    BY <2>1, <2>2, EarlyStep, ListStep, ActivateStep, DropStep
<1> QED
  BY <1>1, <1>2, <1>3

(* A process that has died leaves the lists of a script that had not       *)
(* handed over as they were constructed.                                   *)
LEMMA CrashPlan ==
  ASSUME mInv, PlanInv, Crash, Kept
  PROVE  PlanInv'
<1>1. ~running' /\ pc' = pc /\ pc \in Nat \ {0}
  BY DEF Crash, mInv
<1>2. ASSUME ~HandedOver'
      PROVE  /\ pc' <= 3 /\ setOwner' = Deployer /\ ~finalized'
             /\ pending' = Initial /\ validators' = Initial
  <2>1. /\ ~HandedOver /\ pc <= 3 /\ setOwner = Deployer /\ ~finalized
        /\ pending = Initial /\ validators = Initial
    BY <1>2 DEF Kept, PlanInv
  <2>2. UNCHANGED setVars
    BY <1>1, <2>1, EarlyTransaction DEF Crash, vars
  <2> QED
    BY <1>1, <2>1, <2>2 DEF setVars
<1> QED
  BY <1>1, <1>2 DEF PlanInv

(* A household's call of dUtility registers and removes nobody, and does   *)
(* not touch its owner and its verifier.                                   *)
LEMMA UseKeeps ==
  ASSUME mInv, Counted, UseUtility, byHand'.utility = 0
  PROVE  /\ UNCHANGED <<setVars, script, owner, verifier>>
         /\ \A a \in Account : householdExists(a)' <=> householdExists(a)
<1>1. PICK sender \in External : householdCall(sender)
  BY HouseholdOnly
<1>2. Registries /\ sender \in Account
  BY DEF mInv, External
<1>3. UNCHANGED <<setVars, script>>
  BY HouseholdOnly
<1> QED
  BY <1>1, <1>2, <1>3, HouseholdCallKeeps

LEMMA VerifyKeeps ==
  ASSUME mInv, Verify
  PROVE  /\ UNCHANGED <<setVars, script, owner, verifier>>
         /\ \A a \in Account : householdExists(a)' <=> householdExists(a)
<1>1. PICK hhs \in Listings, before \in [1..Slots -> Slot],
           after \in [1..Slots -> AnyHash] : checkNetting(hhs, before, after)
  BY DEF Verify, anyoneCalls
<1>2. UNCHANGED <<owner, verifier>>
  BY <1>1 DEF checkNetting
<1> QED
  BY <1>1, <1>2, NettingInv DEF Verify, mInv, Registries

LEMMA NextPlan ==
  ASSUME mInv, PlanInv, Counted, [mNext]_mVars, byHand' = Untouched
  PROVE  PlanInv' /\ (Finished' /\ ~Finished => Deployed')
<1>1. CASE Step
  BY <1>1, StepPlan
<1>2. ASSUME pc' = pc PROVE ~(Finished' /\ ~Finished)
  BY <1>2 DEF Finished
<1>0. byHand'.utility = 0
  BY DEF Untouched
<1>3. Kept
  BY <1>0, mNextKeeps
<1>4. CASE Abort
  <2>1. ~running' /\ pc' = pc /\ UNCHANGED vars
    BY <1>4 DEF Abort
  <2> QED
    BY <1>2, <2>1 DEF PlanInv, vars, duVars, setVars, HandedOver
<1>5. CASE Crash
  BY <1>2, <1>3, <1>5, CrashPlan DEF Crash
<1>6. CASE Rerun
  <2>1. pc' = 1 /\ UNCHANGED vars
    BY <1>6 DEF Rerun
  <2>2. ~Finished'
    BY <2>1, ScriptType DEF Finished
  <2>3. PlanInv'
    BY <2>1 DEF PlanInv, vars, duVars, setVars, HandedOver
  <2> QED
    BY <2>2, <2>3
<1>7. CASE Administrate
  <2>1. Finished /\ Finished' /\ pc' = pc /\ pc > 3
    BY <1>7, FinishedOnly, ScriptType, ScriptOrder, PlannedFacts DEF Administrate, Finished, mInv
  <2>2. HandedOver'
    BY <1>3, <2>1 DEF PlanInv, Kept, mInv
  <2> QED
    BY <2>1, <2>2 DEF PlanInv, mInv
<1>8. CASE UseUtility
  BY <1>0, <1>2, <1>8, UseKeeps, Undisturbed DEF script
<1>9. CASE Verify
  BY <1>2, <1>9, VerifyKeeps, Undisturbed DEF script
<1>10. CASE UNCHANGED mVars
  BY <1>2, <1>10, Undisturbed DEF mVars, vars, duVars, script
<1> QED
  BY <1>1, <1>4, <1>5, <1>6, <1>7, <1>8, <1>9, <1>10 DEF mNext

(* The plan is followed as long as nothing is done by hand.                *)
LEMMA PlanGuarded ==
  ASSUME Guarded, byHand = Untouched => PlanInv, [mNext]_mVars, byHand' = Untouched
  PROVE  PlanInv' /\ (Finished' /\ ~Finished => Deployed')
<1>1. byHand = Untouched /\ Counted
  BY ByHandGrows DEF Guarded, Basics
<1>2. mInv /\ PlanInv
  BY <1>1 DEF Guarded, Untouched
<1> QED
  BY <1>1, <1>2, NextPlan

LEMMA PlanAlways == mSpec => [](byHand = Untouched => PlanInv)
<1>1. Guarded /\ (byHand = Untouched => PlanInv) /\ [mNext]_mVars
        => (byHand = Untouched => PlanInv)'
  BY PlanGuarded
<1> QED
  BY <1>1, PlanInit, mAlwaysInv, PTL DEF mSpec

(* A run of 2_deploy_contracts.js that gets to its end has built the set   *)
(* it was written for, for any list of authorities, whatever died before   *)
(* and whatever the households called, if nothing was done by hand.        *)
THEOREM DeployedAlways == mSpec => DeployedAsPlanned
<1>1. Guarded /\ (byHand = Untouched => PlanInv) /\ [mNext]_mVars =>
        [Finished' /\ ~Finished /\ byHand' = Untouched =>
           /\ validators' = Initial \o Others
           /\ finalized'
           /\ pending' = validators'
           /\ HandedOver'
           /\ verifier' = Verifier
           /\ ~householdExists(Fake)']_mVars
  BY PlanGuarded DEF Deployed
<1> QED
  BY <1>1, mAlwaysInv, PlanAlways, PTL DEF mSpec, DeployedAsPlanned

-----------------------------------------------------------------------------
(* A run that finds the authority registered, or dUtility handed over: one *)
(* of its first two transactions reverts.                                  *)
Blocked == pc <= 2 /\ (householdExists(Deployer) \/ HandedOver)

LEMMA EarlyBlocked ==
  ASSUME mInv, Blocked, Transaction(Script[pc])
  PROVE  pc = 1 /\ householdExists(Deployer)'
<1>1. pc = 1 \/ pc = 2
  BY DEF Blocked, mInv
<1>2. CASE pc = 1
  <2>1. Script[pc].call = "setVerifier"
    BY <1>2, ScriptType
  <2>2. households' = households /\ ~HandedOver
    BY <2>1 DEF Transaction, setVerifier, onlyOwner, HandedOver
  <2> QED
    BY <1>2, <2>2 DEF Blocked, householdExists
<1>3. CASE pc = 2
  <2>1. Script[pc].call = "addHousehold"
    BY <1>3, ScriptType
  <2> QED
    BY <2>1 DEF Transaction, addHousehold, onlyOwner, Blocked, HandedOver
<1> QED
  BY <1>1, <1>2, <1>3

LEMMA BlockedKept ==
  ASSUME mInv, Blocked, Counted, [mNext]_mVars, byHand'.utility = 0
  PROVE  Blocked'
<1>1. pc \in 1..2 /\ ~Finished /\ Deployer \in Account
  BY ScriptType DEF Blocked, mInv, Finished
<1>2. CASE Step
  BY <1>2, EarlyBlocked DEF Step, Blocked
<1>3. CASE Abort
  BY <1>3 DEF Abort, Blocked, vars, duVars, householdExists, HandedOver
<1>4. CASE Crash
  <2>1. pc' = pc
    BY <1>4 DEF Crash
  <2>2. householdExists(Deployer)' \/ HandedOver'
    <3>1. CASE Transaction(Script[pc])
      BY <3>1, EarlyBlocked
    <3>2. CASE UNCHANGED vars
      BY <3>2 DEF Blocked, vars, duVars, householdExists, HandedOver
    <3> QED
      BY <1>4, <3>1, <3>2 DEF Crash
  <2> QED
    BY <1>1, <2>1, <2>2 DEF Blocked
<1>5. CASE Rerun
  BY <1>5 DEF Rerun, Blocked, vars, duVars, householdExists, HandedOver
<1>6. CASE Administrate
  <2>1. pc' = pc
    BY <1>6 DEF Administrate
  <2>2. Kept
    BY mNextKeeps
  <2>3. HandedOver' \/ (~HandedOver /\ householdExists(Deployer)')
    BY <2>2 DEF Kept, Blocked
  <2> QED
    BY <1>1, <2>1, <2>3 DEF Blocked
<1>7. CASE UseUtility
  <2>1. pc' = pc /\ owner' = owner /\ (householdExists(Deployer)' <=> householdExists(Deployer))
    BY <1>1, <1>7, UseKeeps DEF script
  <2> QED
    BY <1>1, <2>1 DEF Blocked, HandedOver
<1>8. CASE Verify
  <2>1. pc' = pc /\ owner' = owner /\ (householdExists(Deployer)' <=> householdExists(Deployer))
    BY <1>1, <1>8, VerifyKeeps DEF script
  <2> QED
    BY <1>1, <2>1 DEF Blocked, HandedOver
<1>9. CASE UNCHANGED mVars
  BY <1>9 DEF mVars, vars, duVars, script, Blocked, householdExists, HandedOver
<1> QED
  BY <1>2, <1>3, <1>4, <1>5, <1>6, <1>7, <1>8, <1>9 DEF mNext

(* So it stays, unless dUtility's owner acts.                              *)
Stuck == byHand.utility > 0 \/ Blocked

LEMMA StuckKept ==
  ASSUME Guarded, Stuck, [mNext]_mVars PROVE Stuck'
<1>1. Counted /\ Counted' /\ (byHand'.utility = 0 => byHand.utility = 0)
  BY ByHandGrows DEF Guarded, Basics
<1>2. byHand.utility \in Nat /\ byHand'.utility \in Nat
  BY <1>1 DEF Counted
<1>3. CASE byHand'.utility = 0
  <2>1. mInv /\ Blocked
    BY <1>1, <1>2, <1>3 DEF Guarded, Stuck
  <2>2. Blocked'
    BY <1>1, <1>3, <2>1, BlockedKept
  <2> QED
    BY <2>2 DEF Stuck
<1>4. CASE byHand'.utility # 0
  BY <1>2, <1>4 DEF Stuck
<1> QED
  BY <1>3, <1>4

(* The migration cannot be repeated once it has registered the authority   *)
(* and died: dUtility's addHousehold reverts for one who is registered, in *)
(* every later run, whatever the households do and whoever calls OwnedSet, *)
(* until dUtility's owner repairs that by hand.                            *)
THEOREM RerunAlways == mSpec => RerunNeverFinishes
<1>1. Guarded /\ Stuck /\ [mNext]_mVars => Stuck'
  BY StuckKept
<1>2. Guarded /\ Stuck => (Finished => byHand.utility > 0)
  BY ScriptType DEF Guarded, Basics, Stuck, Blocked, Finished
<1>3. Guarded /\ pc <= 2 /\ householdExists(Deployer) /\ byHand.utility = 0 => Stuck
  BY DEF Stuck, Blocked
<1> QED
  BY <1>1, <1>2, <1>3, mAlwaysInv, PTL DEF mSpec, RerunNeverFinishes
=============================================================================
