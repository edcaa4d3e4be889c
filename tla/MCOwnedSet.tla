----------------------------- MODULE MCOwnedSet -----------------------------
(* A finite instance of OwnedSet: an owner, the contract itself and two    *)
(* candidates.  The hashes are not needed for the validator lists.         *)
EXTENDS OwnedSet, TLC

CONSTANTS authority, ownedSet, v1, v2

Accounts == {authority, ownedSet, v1, v2}
InitialOne == <<authority>>
NoHashes == {}
Candidates == Permutations({v1, v2})
=============================================================================
