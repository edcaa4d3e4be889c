------------------------------ MODULE NedServer ------------------------------
(***************************************************************************)
(* The netting entity's server, netting-entity/index.js, apart from its    *)
(* Lightning calls (Metering.tla): the two instances of the utility it     *)
(* keeps, its timer, its event listener and its REST routes.  settle() is  *)
(* one step here, of the kind Utility.tla is shown to implement.           *)
(* Addresses are strings: the same account may be spelled in several ways, *)
(* and toChecksumAddress gives it the spelling the contracts use.          *)
(***************************************************************************)
EXTENDS Energy, FiniteSets

CONSTANTS Address,          \* spellings of addresses
          Checksum,         \* [Address -> Address], toChecksumAddress
          Validators,       \* what the validator set's contract lists
          Reports,          \* the reports made: pairs of an address and a delta
          Undefined,        \* the value of a variable not yet assigned
          MaxReports, MaxNettings, MaxEvents, MaxNedRestarts, MaxClock

ASSUME NedAssumption ==
  /\ Checksum \in [Address -> Address]
  /\ \A a \in Address : Checksum[Checksum[a]] = Checksum[a]
  /\ Validators \subseteq Address
  /\ Reports \subseteq Address \X Int
  /\ {MaxReports, MaxNettings, MaxEvents, MaxNedRestarts, MaxClock} \subseteq Nat

VARIABLES households,     \* keys of `households`, in order of insertion
          meterDelta,     \* shared by both instances of the utility, as is
          transfers,      \* the list of transfers
          utility,        \* statistics of the live instance, or Undefined
          utilityAfterNetting,
          nettingStatus,  \* the time of the last netting
          clock,          \* Date.now()
          used,           \* how much of each bound is used up
          confirmed,      \* history: statistics of the confirmed nettings
          unconfirmed     \* history: those of the last one, until confirmed

shared == <<households, meterDelta, transfers>>
ned    == <<shared, utility, utilityAfterNetting, nettingStatus, clock, used,
            confirmed, unconfirmed>>

NoStats == [renewable |-> 0, nonRenewable |-> 0]
Plus(s, t) == [renewable |-> s.renewable + t.renewable,
               nonRenewable |-> s.nonRenewable + t.nonRenewable]

Spend(what, bound) ==
  /\ used[what] < bound
  /\ used' = [used EXCEPT ![what] = @ + 1]

(* Transfers are told apart by how many were made before them.             *)
Transfer == [id : Nat, from : Address, to : Address, date : Nat]
-----------------------------------------------------------------------------
Nothing == [reports |-> 0, nettings |-> 0, events |-> 0, restarts |-> 0, transfers |-> 0]

NedInit(spent) ==
  /\ households = <<>> /\ meterDelta = [a \in Address |-> 0] /\ transfers = {}
  /\ utility = NoStats /\ utilityAfterNetting = Undefined
  /\ clock = 1 /\ nettingStatus = 1
  /\ used = spent
  /\ confirmed = NoStats /\ unconfirmed = NoStats

With(a) == IF a \in Keys(households) THEN households ELSE Append(households, a)

(* PUT /lnd/energy, when the invoice has been paid: addHousehold, by the   *)
(* address as the household spells it.                                     *)
PutLndEnergy(a) ==
  /\ utility # Undefined
  /\ a \notin Keys(households)
  /\ households' = With(a)
  /\ UNCHANGED <<meterDelta, transfers, utility, utilityAfterNetting, nettingStatus,
                 clock, used, confirmed, unconfirmed>>

(* Later, when listChannels has answered and the channel is among them:    *)
(* updateMeterDelta.  The bound is on these.                               *)
ChannelListed(a, d) ==
  /\ utility # Undefined
  /\ a \in Keys(households)
  /\ meterDelta' = [meterDelta EXCEPT ![a] = d]
  /\ Spend("reports", MaxReports)
  /\ UNCHANGED <<households, transfers, utility, utilityAfterNetting, nettingStatus,
                 clock, confirmed, unconfirmed>>

(* isValidatorAddress: the addresses getValidators lists are checksums.    *)
isValidatorAddress(a) == Checksum[a] \in Validators

(* PUT /energy, whose two awaits read nothing that is used after them: the *)
(* delta of a validator who has signed it, booked under the checksum.      *)
(* What is refused changes nothing.                                        *)
PutEnergy(a, d, signer) ==
  /\ isValidatorAddress(Checksum[a])
  /\ Checksum[signer] = Checksum[a]
  /\ utility # Undefined
  /\ households' = With(Checksum[a])
  /\ meterDelta' = [meterDelta EXCEPT ![Checksum[a]] = d]
  /\ Spend("reports", MaxReports)
  /\ UNCHANGED <<transfers, utility, utilityAfterNetting, nettingStatus, clock,
                 confirmed, unconfirmed>>

(* What one settlement adds to the statistics.                             *)
StatsOf(order, d) ==
  [renewable |-> Produced(order, d),
   nonRenewable |-> Positive(-SumOver(order, d))]

(* A variant, not the code: the live instance itself is settled.           *)
SettledIn(stats) == utility' = stats /\ utilityAfterNetting' = stats

(* The statistics are numbers, so the shallow copy has its own.            *)
CopySettled(stats) == utility' = utility /\ utilityAfterNetting' = stats

(* runZokrates, on the timer: the copy shares households and transfers     *)
(* with the live instance, so that settling it settles both.               *)
runZokrates ==
  LET sides == {a \in Keys(households) : meterDelta[a] > 0}
                 \X {a \in Keys(households) : meterDelta[a] < 0}
      new(pairs) == {[id |-> used.transfers, from |-> p[1], to |-> p[2], date |-> clock]
                       : p \in pairs}
  IN  /\ utility # Undefined
      /\ clock > nettingStatus
      /\ used.nettings < MaxNettings
      /\ \E w \in [Address -> {meterDelta[a] : a \in Address} \cup (-1..1)] :
           /\ Nets(households, meterDelta, w)
           /\ \A a \in Address \ Keys(households) : w[a] = meterDelta[a]
           /\ meterDelta' = w
      /\ \E pairs \in SUBSET sides : transfers' = transfers \cup new(pairs)
      /\ CopySettled(Plus(utility, StatsOf(households, meterDelta)))
      /\ unconfirmed' = StatsOf(households, meterDelta)
      /\ nettingStatus' = clock
      /\ used' = [used EXCEPT !.nettings = @ + 1, !.transfers = @ + 1]
      /\ UNCHANGED <<households, clock, confirmed>>

(* The contract's NettingSuccess event: `utility = utilityAfterNetting`.   *)
NettingSuccess ==
  /\ Spend("events", MaxEvents)
  /\ utility' = utilityAfterNetting
  /\ confirmed' = Plus(confirmed, unconfirmed)
  /\ unconfirmed' = NoStats
  /\ UNCHANGED <<shared, utilityAfterNetting, nettingStatus, clock>>

(* Everything the server knows is in memory.                               *)
NedRestart ==
  /\ Spend("restarts", MaxNedRestarts)
  /\ households' = <<>> /\ meterDelta' = [a \in Address |-> 0] /\ transfers' = {}
  /\ utility' = NoStats /\ utilityAfterNetting' = Undefined
  /\ nettingStatus' = clock
  /\ confirmed' = NoStats /\ unconfirmed' = NoStats
  /\ UNCHANGED clock

Tick ==
  /\ clock < MaxClock
  /\ clock' = clock + 1
  /\ UNCHANGED <<shared, utility, utilityAfterNetting, nettingStatus, used,
                 confirmed, unconfirmed>>

NedNext ==
  \/ \E r \in Reports : \/ PutLndEnergy(r[1]) \/ ChannelListed(r[1], r[2])
                       \/ \E signer \in Address : PutEnergy(r[1], r[2], signer)
  \/ runZokrates \/ NettingSuccess \/ NedRestart \/ Tick
-----------------------------------------------------------------------------
(* The answers of the GET routes, which change nothing.                    *)

(* GET /network                                                            *)
GetNetwork == utility

(* A variant, not the code: transfers up to the date asked for count too.  *)
getTransfersAll(hhAddress, from) == {t \in transfers : hhAddress \in {t.from, t.to}}

(* The utility's getter.  Only a household that is a key has any.          *)
getTransfers(hhAddress, from) ==
  {t \in transfers : hhAddress \in {t.from, t.to} /\ t.date >= from}

(* GET /transfers/:householdAddress?from=, by the checksum spelling; an    *)
(* undefined utility is an error.                                          *)
GetTransfers(a, from) == getTransfers(Checksum[a], from)

(* GET /network's "current energy balance" counts the nettings whose       *)
(* NettingSuccess event arrived before the next one was made, and those    *)
(* alone: without the event (no proof is sent) it shows zeros for ever.    *)
NetworkCounts == utility # Undefined => GetNetwork = confirmed
=============================================================================
