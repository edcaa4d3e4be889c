------------------------------ MODULE OwnedSet ------------------------------
(***************************************************************************)
(* contracts/BaseOwnedSet.sol and OwnedSet.sol: the validator set of the   *)
(* authority chain, which registers each validator as a household of       *)
(* dUtility.  Adding and removing a validator call the other contract      *)
(* inside the same transaction: when that call reverts, everything does.   *)
(***************************************************************************)
EXTENDS DUtility

CONSTANTS OwnedSetAddress,   \* this contract's own address
          Initial            \* the constructor's _initial

ASSUME OwnedSetAssumption ==
  /\ OwnedSetAddress \in Account
  /\ Initial \in Seq(Account)
  /\ \A k, l \in 1..Len(Initial) : Initial[k] = Initial[l] => k = l

VARIABLES setOwner,    \* Ownable._owner of this contract
          finalized,   \* was the last change finalized
          validators,  \* the active list
          pending,     \* the list the next finalizeChange activates
          status       \* address -> [isIn, index], index counted from 1

setVars == <<setOwner, finalized, validators, pending, status>>
vars == <<setVars, duVars>>

AddressStatus == [isIn : BOOLEAN, index : Nat]
Unlisted == [isIn |-> FALSE, index |-> 0]

setInit ==
  /\ setOwner = Deployer
  /\ finalized = FALSE
  /\ pending = Initial
  /\ validators = Initial
  /\ status = [a \in Account |->
                 IF \E k \in 1..Len(Initial) : Initial[k] = a
                 THEN [isIn |-> TRUE,
                       index |-> CHOOSE k \in 1..Len(Initial) : Initial[k] = a]
                 ELSE Unlisted]

Init == setInit /\ duInit

(* A variant, not the code: the index compared as if counted from 0.       *)
isValidatorFromZero(a) ==
  /\ status[a].isIn
  /\ status[a].index \in 1..(Len(validators) - 1)
  /\ validators[status[a].index] = a

(* The modifier isValidator.  The unlisted index, 0 in the contract, fails *)
(* on isIn.                                                                *)
isValidator(a) ==
  /\ status[a].isIn
  /\ status[a].index \in 1..Len(validators)
  /\ validators[status[a].index] = a
-----------------------------------------------------------------------------
(* The address enters the mapping and the pending list.                    *)
Enlist(a) ==
  /\ status' = [status EXCEPT ![a] = [isIn |-> TRUE, index |-> Len(pending) + 1]]
  /\ pending' = Append(pending, a)

(* Variants, not the code: the change stays finalized; a listed address is *)
(* listed again; dUtility is not told.                                     *)
addValidatorFinal(sender, a) ==
  /\ sender = setOwner
  /\ ~status[a].isIn
  /\ Enlist(a)
  /\ addHousehold(OwnedSetAddress, a)
  /\ UNCHANGED <<setOwner, validators, finalized>>
addValidatorAgain(sender, a) ==
  /\ sender = setOwner
  /\ Enlist(a)
  /\ finalized' = FALSE
  /\ addHousehold(OwnedSetAddress, a)
  /\ UNCHANGED <<setOwner, validators>>
addValidatorAlone(sender, a) ==
  /\ sender = setOwner
  /\ ~status[a].isIn
  /\ Enlist(a)
  /\ finalized' = FALSE
  /\ UNCHANGED <<setOwner, validators, duVars>>

addValidator(sender, a) ==
  /\ sender = setOwner
  /\ ~status[a].isIn
  /\ Enlist(a)
  /\ finalized' = FALSE
  /\ addHousehold(OwnedSetAddress, a)
  /\ UNCHANGED <<setOwner, validators>>

(* Variants, not the code: the last slot is deleted and the length kept;   *)
(* the moved validator keeps its old index.                                *)
WithoutLength(index) ==
  [[pending EXCEPT ![index] = pending[Len(pending)]] EXCEPT ![Len(pending)] = NoAddress]
UnlistedOnly(a) == [status EXCEPT ![a] = Unlisted]

(* The last pending validator moves into the freed slot, in the list and   *)
(* in the mapping.                                                         *)
Without(index) ==
  SubSeq([pending EXCEPT ![index] = pending[Len(pending)]], 1, Len(pending) - 1)
Reindexed(a) ==
  [[status EXCEPT ![pending[Len(pending)]].index = status[a].index]
          EXCEPT ![a] = Unlisted]

removeValidator(sender, a) ==
  /\ sender = setOwner
  /\ isValidator(a)
  /\ status[a].index \in 1..Len(pending)
  /\ pending' = Without(status[a].index)
  /\ status' = Reindexed(a)
  /\ finalized' = FALSE
  /\ removeHousehold(OwnedSetAddress, a)
  /\ UNCHANGED <<setOwner, validators>>

finalizeChange(sender) ==
  /\ sender = setOwner
  /\ ~finalized
  /\ validators' = pending
  /\ finalized' = TRUE
  /\ UNCHANGED <<setOwner, pending, status, duVars>>

transferSetOwnership(sender, new) ==
  /\ sender = setOwner
  /\ new # NoAddress
  /\ setOwner' = new
  /\ UNCHANGED <<finalized, validators, pending, status, duVars>>

renounceSetOwnership(sender) ==
  /\ sender = setOwner
  /\ setOwner' = NoAddress
  /\ UNCHANGED <<finalized, validators, pending, status, duVars>>
-----------------------------------------------------------------------------
(* OwnedSet never calls dUtility but from the two functions above, so no   *)
(* direct call to dUtility comes from its address.                         *)
External == Account \ {OwnedSetAddress}

adminCall(sender) ==
  \/ \E a \in Account : addValidator(sender, a)
  \/ \E a \in Account : removeValidator(sender, a)
  \/ finalizeChange(sender)
  \/ \E a \in Account : transferSetOwnership(sender, a)
  \/ renounceSetOwnership(sender)

utilityCall(sender) ==
  /\ householdCall(sender) \/ ownerCall(sender)
  /\ UNCHANGED setVars

Next ==
  \/ \E sender \in External : adminCall(sender)
  \/ \E sender \in External : utilityCall(sender)
  \/ anyoneCalls /\ UNCHANGED setVars

Spec == Init /\ [][Next]_vars
-----------------------------------------------------------------------------
(***************************************************************************)
(* Properties: whatever the two owners and everybody else call.            *)
(***************************************************************************)
(* The validator lists are lists of addresses.                             *)
TypeOK ==
  /\ duTypeOK
  /\ setOwner \in Account \cup {NoAddress}
  /\ finalized \in BOOLEAN
  /\ validators \in Seq(Account)
  /\ pending \in Seq(Account)
  /\ status \in [Account -> AddressStatus]

(* The status mapping is an exact index of the pending list, also after    *)
(* any series of swap-with-last removals and re-additions: an address is   *)
(* in the mapping exactly when it is pending, at the slot recorded.        *)
StatusIndexesPending ==
  /\ \A a \in Account : status[a].isIn =>
       status[a].index \in 1..Len(pending) /\ pending[status[a].index] = a
  /\ \A k \in 1..Len(pending) :
       status[pending[k]].isIn /\ status[pending[k]].index = k

(* "Was the last validator change finalized. Implies validators ==         *)
(* pending" (BaseOwnedSet.sol:22).                                         *)
FinalizedAgrees == finalized => validators = pending

(* No address is twice in the active list, so consensus counts nobody      *)
(* twice.                                                                  *)
ValidatorsDistinct ==
  \A k, l \in 1..Len(validators) : validators[k] = validators[l] => k = l

(* Once a change is finalized every active validator passes the modifier:  *)
(* it can report, be reported and be removed.                              *)
FinalizedValidatorsPass ==
  finalized => \A k \in 1..Len(validators) : isValidator(validators[k])

(* "Asserts whether a given address is currently a validator. A validator  *)
(* that is pending to be added is not considered a validator [...] pending *)
(* to be removed is immediately not considered a validator"                *)
(* (BaseOwnedSet.sol:46-50): an active validator that nobody is removing   *)
(* passes.                                                                 *)
ActiveValidatorsPass ==
  \A k \in 1..Len(validators) :
    (\E l \in 1..Len(pending) : pending[l] = validators[k]) =>
      isValidator(validators[k])
=============================================================================
