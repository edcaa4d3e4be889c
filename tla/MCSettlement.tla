---------------------------- MODULE MCSettlement ----------------------------
(* Finite instances of Utility with the check of its settlements.          *)
EXTENDS MCUtility, SettlementCheck
=============================================================================
