------------------------------ MODULE MCUtility ------------------------------
(* Finite instances of Utility for TLC.                                    *)
EXTENDS Utility, TLC

CONSTANTS hh1, hh2, hh3, hh4, hh5, hh6, hh7, zero

Three == {hh1, hh2, hh3}
Five  == {hh1, hh2, hh3, hh4, hh5}
Seven == {hh1, hh2, hh3, hh4, hh5, hh6, hh7}

Mixed == {-3, 1}
Third == {-3, 1}

Wide  == {-3, -2, -1, 1, 2}

(* One settlement of any reports of a given number of households: a state  *)
(* Utility reaches by adding them in this order and letting them report.   *)
Order == <<zero>> \o SelectSeq(<<hh1, hh2, hh3, hh4, hh5, hh6, hh7>>,
                              LAMBDA a : a \in Household)
ReportedInit ==
  /\ households = Order
  /\ meterDelta \in {d \in [Address -> Deltas \cup {0}] : d[zero] = 0}
  /\ renewableEnergy = 0 /\ nonRenewableEnergy = 0 /\ transfers = <<>>
  /\ pc = "idle" /\ split = NoSplit
  /\ todo = {} /\ to = Zero /\ eAlloc = 0 /\ indices = 0
  /\ before = NoDeltas /\ mark = 0 /\ nettings = 0
OnceNext == settle \/ Settling
OnceSpec == ReportedInit /\ [][OnceNext]_vars
FairOnceSpec == OnceSpec /\ WF_vars(Settling)

(* Households are interchangeable, the placeholder is not one of them.     *)
SymThree == Permutations(Three)
=============================================================================
