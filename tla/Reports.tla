------------------------------- MODULE Reports ------------------------------
(***************************************************************************)
(* What metering over payment channels promises.  A reading is reported in *)
(* at most two parts, which have its sign and together at most its         *)
(* magnitude.  A part is booked at the netting entity at most once, and    *)
(* becomes the household's balance; otherwise balances change only by a    *)
(* netting, or are all forgotten.  Nothing is promised about the order of  *)
(* the parts, nor that every part is booked: the code does not achieve     *)
(* that.                                                                   *)
(***************************************************************************)
EXTENDS Energy

CONSTANTS Reading, By, Amount, Order

Part == Reading \X {1, 2}

VARIABLES parts,     \* [Part -> Int], 0 while not issued
          booked,    \* the parts the entity has booked
          balance    \* [household -> Int]

vars == <<parts, booked, balance>>

Init ==
  /\ parts = [p \in Part |-> 0]
  /\ booked = {}
  /\ balance = [h \in Keys(Order) |-> 0]

(* The size of the part is free within these limits.                       *)
Issue(p) ==
  /\ parts[p] = 0 /\ parts'[p] # 0
  /\ (parts'[p] > 0) = (Amount[p[1]] > 0)
  /\ Magnitude(parts'[<<p[1], 1>>] + parts'[<<p[1], 2>>]) <= Magnitude(Amount[p[1]])
  /\ \A q \in Part : q # p => parts'[q] = parts[q]
  /\ UNCHANGED <<booked, balance>>

Book(p) ==
  /\ p \notin booked /\ booked' = booked \cup {p}
  /\ parts[p] # 0
  /\ balance' = [balance EXCEPT ![By[p[1]]] = parts[p]]
  /\ UNCHANGED parts

Net ==
  /\ balance' # balance /\ UNCHANGED <<booked, parts>>
  /\ Nets(Order, balance, balance')

Forget ==
  /\ balance' # balance /\ UNCHANGED <<booked, parts>>
  /\ balance' = [h \in Keys(Order) |-> 0]

Next ==
  \/ \E p \in Part : Issue(p) \/ Book(p)
  \/ Net \/ Forget

Spec == Init /\ [][Next]_vars
=============================================================================
