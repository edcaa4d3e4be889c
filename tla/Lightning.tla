------------------------------ MODULE Lightning -----------------------------
(***************************************************************************)
(* The lightning nodes (lnd) of the households and of the netting entity,  *)
(* external to the repository: what household-server/index.js and          *)
(* netting-entity/index.js rely on.  A household opens a channel and       *)
(* pushes energy money to the entity's side, from which the entity pays    *)
(* the household's invoices.  An invoice is paid at most once.             *)
(***************************************************************************)
EXTENDS Integers

CONSTANTS Channel,      \* bound: the channels that can be opened
          Invoice,
          Push          \* remote_balance - remote_chan_reserve_sat of a new one

VARIABLES channels,     \* [Channel -> its state, parity of capacity, funds]
          invoices      \* [Invoice -> its state, memo, amount, paying channel]

lnd == <<channels, invoices>>

Direction == {"up", "down"}

lndType ==
  /\ channels \in [Channel ->
       [state : {"free", "pending", "active", "closed"},
        odd : BOOLEAN, spendable : 0..Push]]
  /\ \A i \in Invoice :
       /\ invoices[i].state \in {"none", "open", "paid"}
       /\ invoices[i].memo \in Direction
       /\ invoices[i].amount \in Nat
       /\ invoices[i].via \in SUBSET Channel

lndInit ==
  /\ channels = [k \in Channel |-> [state |-> "free", odd |-> FALSE, spendable |-> 0]]
  /\ invoices = [i \in Invoice |->
                   [state |-> "none", memo |-> "up", amount |-> 0, via |-> {}]]

Active(k) == k \in Channel /\ channels[k].state = "active"

(* What listChannels with active_only may answer: channels whose peer is   *)
(* offline are left out.                                                   *)
Listings == SUBSET {k \in Channel : Active(k)}

(* openChannelSync answers when the funding transaction is broadcast; the  *)
(* channel is active some blocks later.                                    *)
NextFree == CHOOSE k \in Channel : channels[k].state = "free"
CanOpen == \E k \in Channel : channels[k].state = "free"
lndOpened(odd) ==
  [channels EXCEPT ![NextFree] = [state |-> "pending", odd |-> odd, spendable |-> Push]]
lndConfirm(k) ==
  /\ channels[k].state = "pending"
  /\ channels' = [channels EXCEPT ![k].state = "active"]
lndClosed(closing) ==
  [k \in Channel |->
     IF k \in closing THEN [channels[k] EXCEPT !.state = "closed"] ELSE channels[k]]

lndAddInvoice(i, memo, amount) ==
  invoices' = [invoices EXCEPT
    ![i] = [state |-> "open", memo |-> memo, amount |-> amount, via |-> {}]]

(* sendPaymentSync over the channel outgoing_chan_id.                      *)
lndPay(i, k) ==
  /\ invoices[i].state = "open"
  /\ Active(k) /\ channels[k].spendable >= invoices[i].amount
  /\ invoices' = [invoices EXCEPT ![i].state = "paid", ![i].via = {k}]
  /\ channels' = [channels EXCEPT ![k].spendable = @ - invoices[i].amount]
=============================================================================
