------------------------------ MODULE Migration -----------------------------
(***************************************************************************)
(* migrations/2_deploy_contracts.js, case "authority": the transactions    *)
(* that hand dUtility over to OwnedSet and build the validator set, while  *)
(* households and anybody else already use the contracts.  The script may  *)
(* die between any two transactions, or after sending one and before it    *)
(* hears that it was mined; the operator may run it again, from the start. *)
(* Meanwhile any account may call either contract directly, the authority  *)
(* that owns them and is repairing them by hand included; what holds       *)
(* without such calls only is stated with `byHand`.                        *)
(***************************************************************************)
EXTENDS OwnedSet

CONSTANTS Verifier,    \* VERIFIER_ADDRESS
          Others,      \* OTHER_AUTHORITY_ADDRESSES
          Fake,        \* TESTS_FAKE_ADDRESS
          MaxCrashes,  \* bound: times the script dies or is run again
          MaxByHand    \* bound: what `byHand` counts

ASSUME MigrationAssumption ==
  /\ {Verifier, Fake} \subseteq Account
  /\ Others \in Seq(Account)
  /\ Initial = <<Deployer>>   \* ENCODED_INITIAL_VALIDATOR_ADDRESSES
  /\ OwnedSetAddress # Deployer
  /\ {MaxCrashes, MaxByHand} \subseteq Nat

VARIABLES pc,       \* the next transaction, 1..Len(Script) + 1
          running,  \* is the script's process alive
          crashes,
          byHand    \* history: the owners' direct calls to each contract
                    \* while the script had not finished

script == <<pc, running, crashes, byHand>>
mVars  == <<vars, script>>

(* The awaited calls, in order.                                            *)
AddOthers == [k \in 1..Len(Others) |-> [call |-> "addValidator", who |-> Others[k]]]
AddFake   == <<[call |-> "addValidator", who |-> Fake]>>
DropFake  == <<[call |-> "removeValidator", who |-> Fake]>>
Finalize  == <<[call |-> "finalizeChange"]>>
Prepare   == <<[call |-> "setVerifier"], [call |-> "addHousehold"]>>
HandOver  == <<[call |-> "transferOwnership"]>>

(* Variants, not the code: the handover comes first; one finalization is   *)
(* missing.                                                                *)
HandOverFirst ==
  HandOver \o Prepare \o AddOthers \o AddFake \o Finalize \o DropFake \o Finalize
NoFirstFinalize ==
  Prepare \o HandOver \o AddOthers \o AddFake \o DropFake \o Finalize
NoLastFinalize ==
  Prepare \o HandOver \o AddOthers \o AddFake \o Finalize \o DropFake

Script ==
  Prepare \o HandOver \o AddOthers \o AddFake \o Finalize \o DropFake \o Finalize

Untouched == [utility |-> 0, set |-> 0]
MayTouch == byHand.utility + byHand.set < MaxByHand

HandedOver == owner = OwnedSetAddress
Finished == pc > Len(Script)

Transaction(step) ==
  CASE step.call = "setVerifier" ->
         setVerifier(Deployer, Verifier) /\ UNCHANGED setVars
    [] step.call = "addHousehold" ->
         addHousehold(Deployer, Deployer) /\ UNCHANGED setVars
    [] step.call = "transferOwnership" ->
         transferOwnership(Deployer, OwnedSetAddress) /\ UNCHANGED setVars
    [] step.call = "addValidator" -> addValidator(Deployer, step.who)
    [] step.call = "removeValidator" -> removeValidator(Deployer, step.who)
    [] OTHER -> finalizeChange(Deployer)

(* Would the transaction be mined without reverting?                       *)
Accepted(step) ==
  CASE step.call = "setVerifier" -> onlyOwner(Deployer)
    [] step.call = "addHousehold" ->
         onlyOwner(Deployer) /\ ~householdExists(Deployer)
    [] step.call = "transferOwnership" -> onlyOwner(Deployer)
    [] step.call = "addValidator" ->
         /\ setOwner = Deployer /\ ~status[step.who].isIn
         /\ onlyOwner(OwnedSetAddress) /\ ~householdExists(step.who)
    [] step.call = "removeValidator" ->
         /\ setOwner = Deployer /\ isValidator(step.who)
         /\ status[step.who].index \in 1..Len(pending)
         /\ onlyOwner(OwnedSetAddress) /\ householdExists(step.who)
    [] OTHER -> setOwner = Deployer /\ ~finalized
-----------------------------------------------------------------------------
mInit == Init /\ pc = 1 /\ running = TRUE /\ crashes = 0 /\ byHand = Untouched

Step ==
  /\ running /\ ~Finished
  /\ Transaction(Script[pc])
  /\ pc' = pc + 1
  /\ UNCHANGED <<running, crashes, byHand>>

(* A reverted transaction rejects the promise and ends the migration.      *)
Abort ==
  /\ running /\ ~Finished
  /\ ~Accepted(Script[pc])
  /\ running' = FALSE
  /\ UNCHANGED <<vars, pc, crashes, byHand>>

(* The process dies; the transaction it was waiting for may be mined.      *)
Crash ==
  /\ running /\ ~Finished
  /\ crashes < MaxCrashes
  /\ \/ Transaction(Script[pc])
     \/ UNCHANGED vars
  /\ running' = FALSE
  /\ crashes' = crashes + 1
  /\ UNCHANGED <<pc, byHand>>

(* truffle marks a migration as done at its end only: a new run starts     *)
(* with the first transaction.                                             *)
Rerun ==
  /\ ~running
  /\ crashes < MaxCrashes
  /\ running' = TRUE
  /\ pc' = 1
  /\ crashes' = crashes + 1
  /\ UNCHANGED <<vars, byHand>>

(* Direct calls to OwnedSet, which only its owner can make.                *)
Administrate ==
  /\ \E sender \in External : adminCall(sender)
  /\ \/ Finished /\ UNCHANGED byHand
     \/ ~Finished /\ MayTouch /\ byHand' = [byHand EXCEPT !.set = @ + 1]
  /\ UNCHANGED <<pc, running, crashes>>

(* Direct calls to dUtility, by a household and by the owner.              *)
UseUtility ==
  \/ /\ \E sender \in External : householdCall(sender)
     /\ UNCHANGED <<setVars, script>>
  \/ /\ \E sender \in External : ownerCall(sender)
     /\ MayTouch /\ byHand' = [byHand EXCEPT !.utility = @ + 1]
     /\ UNCHANGED <<setVars, pc, running, crashes>>

Verify == anyoneCalls /\ UNCHANGED <<setVars, script>>

mNext == Step \/ Abort \/ Crash \/ Rerun \/ Administrate \/ UseUtility \/ Verify

mSpec == mInit /\ [][mNext]_mVars

(* The script awaits each transaction and goes on; nothing is assumed of   *)
(* crashes, of the operator or of the households.                          *)
mFairSpec == mSpec /\ WF_mVars(Step) /\ WF_mVars(Abort)
-----------------------------------------------------------------------------
(***************************************************************************)
(* Properties                                                              *)
(***************************************************************************)
(* The two registries agree: from the handover on an address is a          *)
(* household of dUtility exactly when it is in the validator mapping of    *)
(* OwnedSet, whatever crashed on the way and whoever calls what, but for   *)
(* the owner of dUtility before the handover.                              *)
RegistriesAgree ==
  HandedOver /\ byHand.utility = 0 =>
    \A a \in Account : householdExists(a) <=> status[a].isIn

(* So no removal that the set's owner asks for reverts halfway: neither in *)
(* the pending list, whose slots the active list does not share, nor in    *)
(* the call of dUtility.                                                   *)
ValidatorsRemovable ==
  HandedOver /\ byHand.utility = 0 =>
    \A a \in Account :
      isValidator(a) => /\ alive /\ householdExists(a)
                        /\ status[a].index \in 1..Len(pending)

(* A script that ended has built the set it was written for: the initial   *)
(* validators and the others, finalized, without the fake one, with the    *)
(* verifier installed, even after earlier runs that died halfway, if the   *)
(* authority called neither contract by hand.                              *)
DeployedAsPlanned ==
  [][Finished' /\ ~Finished /\ byHand' = Untouched =>
       /\ validators' = Initial \o Others
       /\ finalized'
       /\ pending' = validators'
       /\ HandedOver'
       /\ verifier' = Verifier
       /\ ~householdExists(Fake)']_mVars

(* The handover cannot be undone and freezes the verifier, whatever was    *)
(* done by hand: OwnedSet has no function that calls setVerifier, close or *)
(* the ownership functions.                                                *)
HandoverIsFinal ==
  [][HandedOver => HandedOver' /\ alive' /\ verifier' = verifier]_mVars

(* A migration that is left alone ends with the contracts deployed.        *)
UndisturbedDeploys == [](crashes = 0 /\ byHand = Untouched) => <>Finished

(* The migration cannot be repeated: once it has died with the authority   *)
(* registered, a run that starts again never finishes, whatever the        *)
(* households do and whatever is done to OwnedSet.  Only the authority can *)
(* repair that, by a call to dUtility while it still owns it.              *)
RerunNeverFinishes ==
  [](pc <= 2 /\ householdExists(Deployer) /\ byHand.utility = 0
       => [](Finished => byHand.utility > 0))
=============================================================================
