----------------------------- MODULE MCMigration ----------------------------
(* A finite instance of Migration.  The hashes play no part in it.         *)
EXTENDS Migration, TLC

CONSTANTS authority, ownedSet, v1, fake

Accounts == {authority, ownedSet, v1, fake}
InitialOne == <<authority>>
OneOther == <<v1>>
NoHashes == {}
=============================================================================
