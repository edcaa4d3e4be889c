----------------------------- MODULE MCDUtility -----------------------------
(* A finite instance of DUtility for TLC.                                  *)
EXTENDS DUtility, TLC

CONSTANTS authority, hh1, hh2, h1, h2

Accounts == {authority, hh1}
Households == {hh1, hh2}
Hashes == {h1, h2}
Skipped == {h2}
NoneSkipped == {}
=============================================================================
