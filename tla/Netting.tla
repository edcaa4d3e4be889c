------------------------------ MODULE Netting -------------------------------
(***************************************************************************)
(* What a netting promises, as one step: households join and report the    *)
(* energy of the interval; a settlement redistributes it.  Nothing is      *)
(* created or lost, every household on the side that could be served in    *)
(* full is left with nothing, and the network statistics grow by what was  *)
(* produced and by what was missing.  Utility.tla, which follows           *)
(* netting-entity/utility.js loop by loop, implements this.                *)
(***************************************************************************)
EXTENDS Energy

CONSTANT Address, Deltas

VARIABLES roll,         \* the members, in the order they joined
          balance,      \* what each address reported, or is left with
          renewable,    \* energy produced by members so far
          nonRenewable  \* energy bought from the grid so far

vars == <<roll, balance, renewable, nonRenewable>>

Init ==
  /\ roll = <<>>
  /\ balance = [a \in Address |-> 0]
  /\ renewable = 0
  /\ nonRenewable = 0

Join(a) ==
  /\ a \notin Keys(roll)
  /\ roll' = Append(roll, a)
  /\ UNCHANGED <<balance, renewable, nonRenewable>>

Report(a, d) ==
  /\ a \in Keys(roll)
  /\ balance' = [balance EXCEPT ![a] = d]
  /\ UNCHANGED <<roll, renewable, nonRenewable>>

Settle ==
  LET p == Produced(roll, balance)
      c == -Consumed(roll, balance)
  IN  /\ Nets(roll, balance, balance')
      /\ renewable' = renewable + p
      /\ nonRenewable' = nonRenewable + Positive(c - p)
      /\ UNCHANGED roll

Next ==
  \/ \E a \in Address : Join(a)
  \/ \E a \in Address, d \in Deltas : Report(a, d)
  \/ Settle

Spec == Init /\ [][Next]_vars
=============================================================================
