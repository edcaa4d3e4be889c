------------------------------ MODULE Metering ------------------------------
(***************************************************************************)
(* From a sensor's reading to the netting entity's books: the route PUT    *)
(* /sensor-stats of household-server/index.js, its payment channels, and   *)
(* the route PUT /lnd/energy of netting-entity/index.js.  Every request,   *)
(* lnd call and event under way is a record in `calls`; its callback runs  *)
(* when the environment picks it, so answers come in any order.  A listing *)
(* that fails ends its callback (`res` is undefined); where that ends the  *)
(* process too, a restart follows.  What the route does to the database is *)
(* left to the store, which shares no state.                               *)
(***************************************************************************)
EXTENDS Energy, Lightning

CONSTANTS Household, Reading,
          HouseholdOf,    \* whose sensor sends the reading
          MeterDelta,     \* its meterDelta
          NoChannel,
          Order,          \* the households as a sequence
          Balances,       \* bound: the balances a netting may leave
          MaxDisturbances   \* bound: nettings and restarts of any server

ASSUME MeteringAssumption ==
  /\ HouseholdOf \in [Reading -> Household]
  /\ MeterDelta \in [Reading -> Int]
  /\ Invoice = Reading \X {1, 2}   \* its parts
  /\ NoChannel \notin Channel
  /\ Keys(Order) = Household
  /\ {Push, MaxDisturbances} \subseteq Nat

VARIABLES channelOf,      \* up_channel, down_channel of each household
          nettingActive,
          nettingStatus,  \* of each household: the last it was answered
          entityStatus,   \* nettingStatus of the entity: a time, here a count
          delta,          \* utility.households[_].meterDelta
          calls,
          restarts,       \* how often a household server was restarted
          outcome,        \* history: what became of each reading
          under,          \* history: nettingStatus when that was decided
          recorded,       \* history: the invoices booked by updateMeterDelta
          lost            \* history: paid, but a failure prevented the booking

household == <<channelOf, nettingActive, nettingStatus, restarts, outcome, under>>
entity    == <<entityStatus, delta, recorded, lost>>
vars      == <<lnd, household, entity, calls>>

DirectionOf(r) == IF MeterDelta[r] >= 0 THEN "up" ELSE "down"
Party(i) == HouseholdOf[i[1]]
-----------------------------------------------------------------------------
(* Calls under way.                                                        *)
Ask(r)            == [op |-> "ask", r |-> r]
Answer(r, s)      == [op |-> "answer", r |-> r, status |-> s]
Then(r)           == [op |-> "then", r |-> r]
List(r)           == [op |-> "listChannels", r |-> r]
Add(i, amount)    == [op |-> "addInvoice", i |-> i, amount |-> amount]
ListPending(i)    == [op |-> "listInvoices", i |-> i]
PutEnergy(i, k, again) == [op |-> "put", i |-> i, k |-> k, again |-> again]
Paid(i, k)        == [op |-> "paid", i |-> i, k |-> k]
Settled(i)        == [op |-> "settled", i |-> i]
Open(h, d, by)    == [op |-> "open", h |-> h, d |-> d, by |-> by]

(* Bound: every one changes a status or a restart count.                   *)
MayBeDisturbed == entityStatus + restarts <= MaxDisturbances

Replace(c, new) == calls' = (calls \ {c}) \cup new

(* init(): lndInitToNed opens both channels.                               *)
Opening(h) == {Open(h, d, {}) : d \in Direction}

Init ==
  /\ lndInit
  /\ channelOf = [h \in Household |-> [d \in Direction |-> NoChannel]]
  /\ nettingActive = [h \in Household |-> FALSE]
  /\ nettingStatus = [h \in Household |-> 0]
  /\ entityStatus = 1
  /\ delta = [h \in Household |-> 0]
  /\ calls = UNION {Opening(h) : h \in Household}
  /\ restarts = 0
  /\ outcome = [r \in Reading |-> "unread"]
  /\ under = [r \in Reading |-> 0]
  /\ recorded = {}
  /\ lost = {}
-----------------------------------------------------------------------------
(***************************************************************************)
(* The household server                                                    *)
(***************************************************************************)
(* PUT /sensor-stats asks for the entity's netting status.                 *)
PutSensorStats(r) ==
  /\ outcome[r] = "unread"
  /\ outcome' = [outcome EXCEPT ![r] = "asked"]
  /\ calls' = calls \cup {Ask(r)}
  /\ UNCHANGED <<lnd, channelOf, nettingActive, nettingStatus, under, restarts, entity>>

(* A variant, not the code: a new status is kept, but the flag not reset.  *)
KeptUnreset(h, s) == nettingActive[h]

(* Another status than the last one ends the interval.                     *)
Kept(h, s) == nettingActive[h] /\ s = nettingStatus[h]

(* The answer: its first callback compares and keeps the status.  The one  *)
(* chained to it is queued: callbacks of other answers may run before it.  *)
ReceiveStatus(c) ==
  LET h == HouseholdOf[c.r]
  IN  /\ c.op = "answer"
      /\ nettingStatus' = [nettingStatus EXCEPT ![h] = c.status]
      /\ nettingActive' = [nettingActive EXCEPT ![h] = Kept(h, c.status)]
      /\ Replace(c, {Then(c.r)})
      /\ UNCHANGED <<lnd, channelOf, restarts, outcome, under, entity>>

(* The chained callback lets the first reading of an interval pass and     *)
(* asks for the channels; the other readings are left out.                 *)
PassFirst(c) ==
  LET h == HouseholdOf[c.r]
  IN  /\ c.op = "then"
      /\ under' = [under EXCEPT ![c.r] = nettingStatus[h]]
      /\ nettingActive' = [nettingActive EXCEPT ![h] = TRUE]
      /\ \/ /\ ~nettingActive[h]
            /\ outcome' = [outcome EXCEPT ![c.r] = "passed"]
            /\ Replace(c, {List(c.r)})
         \/ /\ nettingActive[h]
            /\ outcome' = [outcome EXCEPT ![c.r] = "dropped"]
            /\ Replace(c, {})
      /\ UNCHANGED <<lnd, channelOf, nettingStatus, restarts, entity>>

(* lndSendMeterDelta: nothing is sent of a zero.                           *)
Send(r, part, amount) == IF amount = 0 THEN {} ELSE {Add(<<r, part>>, amount)}

(* lndCreateChannel: not if the direction has one.                         *)
Create(r) ==
  LET h == HouseholdOf[r]
  IN  IF channelOf[h][DirectionOf(r)] = NoChannel
      THEN {Open(h, DirectionOf(r), {r})} ELSE {}

TwoParts(r, spendable) ==
  Send(r, 1, spendable) \cup Send(r, 2, Magnitude(MeterDelta[r]) - spendable)

(* A reading beyond the channel's funds is sent in two parts.  The channel *)
(* may be missing in the list: none is known, it is not active, its peer   *)
(* is offline.  If there is no list, or no `lightning` to ask yet, nothing *)
(* is sent, though the flag is set.                                        *)
ReceiveChannels(c) ==
  /\ c.op = "listChannels"
  /\ LET k == channelOf[HouseholdOf[c.r]][DirectionOf(c.r)]
         whole == Magnitude(MeterDelta[c.r])
     IN  \/ Replace(c, {})
         \/ Replace(c, Create(c.r) \cup Send(c.r, 1, whole))
         \/ /\ Active(k)
            /\ channels[k].spendable < whole
            /\ Replace(c, TwoParts(c.r, channels[k].spendable))
         \/ /\ Active(k)
            /\ channels[k].spendable >= whole
            /\ Replace(c, Send(c.r, 1, whole))
  /\ UNCHANGED <<lnd, household, entity>>

(* The pending invoices are asked for even if none could be added.         *)
AddInvoice(c) ==
  /\ c.op = "addInvoice"
  /\ lndAddInvoice(c.i, DirectionOf(c.i[1]), c.amount) \/ UNCHANGED invoices
  /\ Replace(c, {ListPending(c.i)})
  /\ UNCHANGED <<channels, household, entity>>

(* A variant, not the code: the target chosen without the memo.            *)
TargetUp(i) == channelOf[Party(i)]["up"]
Target(i) == channelOf[Party(i)][invoices[i].memo]

(* Every pending invoice of the household whose channel is listed is put   *)
(* to the entity, whether that was done before or not; none if a list is   *)
(* missing.  Bound: two such requests of an invoice and a channel are      *)
(* under way at a time.                                                    *)
Resent(i) == PutEnergy(i, Target(i), PutEnergy(i, Target(i), FALSE) \in calls)

SendPending(c) ==
  /\ c.op = "listInvoices"
  /\ \E listed \in Listings :
       LET ready == {i \in Invoice : /\ invoices[i].state = "open"
                                     /\ Party(i) = Party(c.i)
                                     /\ Target(i) \in listed}
       IN  Replace(c, {Resent(i) : i \in ready})
  /\ UNCHANGED <<lnd, household, entity>>

(* A variant, not the code: closed, but not forgotten.                     *)
RetireUnforgotten(h, used) ==
  /\ channels' = lndClosed({channelOf[h][d] : d \in used})
  /\ UNCHANGED channelOf

(* An invoice was settled: used up channels are closed and forgotten.      *)
Retire(h, used) ==
  /\ channels' = lndClosed({channelOf[h][d] : d \in used})
  /\ channelOf' = [channelOf EXCEPT ![h] =
       [d \in Direction |-> IF d \in used THEN NoChannel ELSE @[d]]]

ReceiveSettled(c) ==
  /\ c.op = "settled"
  /\ \E listed \in Listings :
       LET h == Party(c.i)
           used == {d \in Direction :
                      /\ channelOf[h][d] \in listed
                      /\ channels[channelOf[h][d]].spendable <= 0}
       IN  Retire(h, used)
  /\ Replace(c, {})
  /\ UNCHANGED <<invoices, nettingActive, nettingStatus, restarts, outcome, under, entity>>

(* The answer to openChannelSync: the id is kept unless another call was   *)
(* faster; opening may fail.                                               *)
ReceiveOpened(c) ==
  /\ c.op = "open"
  /\ \/ /\ CanOpen
        /\ channels' = lndOpened(c.d = "down")
        /\ channelOf' = IF channelOf[c.h][c.d] = NoChannel
                        THEN [channelOf EXCEPT ![c.h][c.d] = NextFree]
                        ELSE channelOf
     \/ UNCHANGED <<channels, channelOf>>
  /\ Replace(c, {})
  /\ UNCHANGED <<invoices, nettingActive, nettingStatus, restarts, outcome, under, entity>>

Confirm(k) == lndConfirm(k) /\ UNCHANGED <<invoices, household, entity, calls>>

(* The household server starts anew: its variables and callbacks are gone, *)
(* invoices, channels and requests already sent are not.                   *)
CallsOf(h) ==
  {c \in calls :
     \/ c.op \in {"ask", "answer", "then", "listChannels"} /\ HouseholdOf[c.r] = h
     \/ c.op \in {"addInvoice", "listInvoices", "settled"} /\ Party(c.i) = h
     \/ c.op = "open" /\ c.h = h}

Restart(h) ==
  /\ MayBeDisturbed
  /\ restarts' = restarts + 1
  /\ channelOf' = [channelOf EXCEPT ![h] = [d \in Direction |-> NoChannel]]
  /\ nettingActive' = [nettingActive EXCEPT ![h] = FALSE]
  /\ nettingStatus' = [nettingStatus EXCEPT ![h] = 0]
  /\ calls' = (calls \ CallsOf(h)) \cup Opening(h)
  /\ UNCHANGED <<lnd, outcome, under, entity>>
-----------------------------------------------------------------------------
(***************************************************************************)
(* The netting entity                                                      *)
(***************************************************************************)
GetNettingActive(c) ==
  /\ c.op = "ask"
  /\ Replace(c, {Answer(c.r, entityStatus)})
  /\ UNCHANGED <<lnd, household, entity>>

(* PUT /lnd/energy pays the invoice over the channel it was sent for.  A   *)
(* payment may fail, a request may get lost: nothing else happens then.    *)
PutLndEnergy(c) ==
  /\ c.op = "put"
  /\ \/ lndPay(c.i, c.k) /\ Replace(c, {Paid(c.i, c.k), Settled(c.i)})
     \/ UNCHANGED lnd /\ Replace(c, {})
  /\ UNCHANGED <<household, entity>>

(* The payment's channel is looked up among the active ones.               *)
(* A variant, not the code: among those with funds left.                   *)
FoundFunded(k) == Active(k) /\ channels[k].spendable > 0
Found(k) == Active(k)

(* updateMeterDelta with the sign of the channel's capacity, if the        *)
(* channel is found.                                                       *)
Book(i, k) ==
  /\ delta' = [delta EXCEPT ![Party(i)] = IF channels[k].odd THEN -invoices[i].amount
                                                             ELSE invoices[i].amount]
  /\ recorded' = recorded \cup {i}
  /\ UNCHANGED lost

(* A failure: the channel's peer is offline, or there is no list.          *)
Lose(i) == lost' = lost \cup {i} /\ UNCHANGED <<delta, recorded>>

RecordPaid(c) ==
  /\ c.op = "paid"
  /\ \/ Found(c.k) /\ (Book(c.i, c.k) \/ Lose(c.i))
     \/ ~Found(c.k) /\ UNCHANGED <<delta, recorded, lost>>
  /\ Replace(c, {})
  /\ UNCHANGED <<lnd, household, entityStatus>>

(* runZokrates: settle() and a new status.                                 *)
RunZokrates ==
  /\ MayBeDisturbed
  /\ entityStatus' = entityStatus + 1
  /\ delta' \in [Household -> Balances]
  /\ Nets(Order, delta, delta')
  /\ UNCHANGED <<lnd, household, calls, recorded, lost>>

(* The entity starts anew: a new utility and a new status, and the         *)
(* payments it was about to book are forgotten.                            *)
RestartEntity ==
  /\ MayBeDisturbed
  /\ entityStatus' = entityStatus + 1
  /\ delta' = [h \in Household |-> 0]
  /\ calls' = {c \in calls : c.op # "paid"}
  /\ lost' = lost \cup {i \in Invoice : \E k \in Channel : Paid(i, k) \in calls}
  /\ UNCHANGED <<lnd, household, recorded>>
-----------------------------------------------------------------------------
HouseholdStep(c) ==
  \/ ReceiveStatus(c) \/ PassFirst(c) \/ ReceiveChannels(c) \/ AddInvoice(c)
  \/ SendPending(c) \/ ReceiveSettled(c) \/ ReceiveOpened(c)
EntityStep(c) == GetNettingActive(c) \/ PutLndEnergy(c) \/ RecordPaid(c)

Next ==
  \/ \E r \in Reading : PutSensorStats(r)
  \/ \E c \in calls : HouseholdStep(c) \/ EntityStep(c)
  \/ \E k \in Channel : Confirm(k)
  \/ \E h \in Household : Restart(h)
  \/ RunZokrates \/ RestartEntity

Spec == Init /\ [][Next]_vars
-----------------------------------------------------------------------------
(***************************************************************************)
(* Properties                                                              *)
(***************************************************************************)
Signed(i) ==
  IF invoices[i].memo = "up" THEN invoices[i].amount ELSE -invoices[i].amount
Parts == [i \in Invoice |-> IF invoices[i].state = "none" THEN 0 ELSE Signed(i)]

(* Types; a channel a household knows is one it opened for that direction, *)
(* with the parity that tells the entity so, and is not closed: a closed   *)
(* one would keep lndCreateChannel from opening another for good.          *)
TypeOK ==
  /\ lndType
  /\ nettingActive \in [Household -> BOOLEAN]
  /\ nettingStatus \in [Household -> 0..entityStatus]
  /\ DOMAIN delta = Household
  /\ recorded \subseteq Invoice /\ lost \subseteq Invoice
  /\ \A h \in Household, d \in Direction :
       channelOf[h][d] # NoChannel =>
         /\ channels[channelOf[h][d]].state \in {"pending", "active"}
         /\ channels[channelOf[h][d]].odd = (d = "down")

(* Metering is a reporting of readings in parts, each booked at most once, *)
(* with the sign of its reading, however often an invoice is put to the    *)
(* entity and whatever fails or is restarted.                              *)
R == INSTANCE Reports WITH
  By <- HouseholdOf, Amount <- MeterDelta, balance <- delta, booked <- recorded,
  parts <- Parts
ReportedInParts == R!Spec

(* The entity pays an invoice and books it in two callbacks.  Without a    *)
(* failure in between (an offline peer, no list, a restart of the entity)  *)
(* only a payment whose channel the household closed is never booked: not  *)
(* one that was put to the entity twice, nor one that used the channel up. *)
LostOnlyWithChannel ==
  \A i \in Invoice : invoices[i].state = "paid" /\ i \notin recorded \cup lost =>
    \A k \in invoices[i].via :
      \/ channels[k].state = "closed"
      \/ Paid(i, k) \in calls

(* A reading is left out only if another one of the household passed under *)
(* the status the household knew then, even when answers overtake each     *)
(* other, callbacks of two answers interleave and the server is restarted. *)
(* It may have been answered that status itself, and what passed may come  *)
(* to nothing (ReceiveChannels).                                           *)
LeftOutForAnother ==
  \A r \in Reading : outcome[r] = "dropped" =>
    \E s \in Reading : /\ HouseholdOf[s] = HouseholdOf[r]
                       /\ outcome[s] = "passed" /\ under[s] = under[r]

(* "Transfer remaining" (household-server/index.js:518): a reading sent in *)
(* two parts is metered in full.  The second part overwrites the first.    *)
SplitMeteredWhole ==
  \A r \in Reading :
    recorded = {<<r, 1>>, <<r, 2>>} /\ entityStatus = 1
      => delta[HouseholdOf[r]] = MeterDelta[r]
=============================================================================
