# Decentralized energy trading: specifications and proofs

Households of a neighbourhood report how much energy they produced or consumed
in an interval. A netting entity ("NED") redistributes the surplus among them,
and contracts on a proof-of-authority chain keep the registry of households and
accept a zero-knowledge proof of the netting. This directory specifies that
system in TLA+, checks it with TLC and proves part of it with TLAPS.

## 1. The system

| Component | State | Operations | Talks to |
|---|---|---|---|
| Off-chain utility, `netting-entity/utility.js` | households with their meter deltas, two counters, a list of transfers | `addHousehold`, `updateMeterDelta`, `settle`, getters (one of which deletes the placeholder) | called by the netting entity's server |
| Netting entity server, `netting-entity/index.js` | `utility`, `utilityAfterNetting`, `nettingStatus` | `PUT /energy`, `PUT /lnd/energy`, `runZokrates` every interval, the `NettingSuccess` listener, getters | LND (pays invoices, lists channels), dUtility, household servers |
| Household server, `household-server/index.js` | ids of two payment channels, `nettingActive`, `nettingStatus` | `PUT /sensor-stats`, opening and closing channels, the invoice subscription, the `NettingSuccess` listener | LND, the netting entity, the database |
| Household database, `household-server/apis/db.js` | sensor data, the meter reading, collected transfers | insertions, the increment of the reading, its reconstruction at the start | used by the household server |
| `dUtility.sol` | households with three hashes, verifier, number of nettings | register and remove households, publish hashes, `checkNetting`, ownership | called by households, by OwnedSet, by anybody |
| `BaseOwnedSet.sol`, `OwnedSet.sol` | active and pending validators, an index of them | `addValidator`, `removeValidator`, `finalizeChange`, ownership | calls dUtility in the same transaction |
| `migrations/2_deploy_contracts.js` | none but the chain's | nine transactions in a row | both contracts |
| `zokrates-code/`, `netting-entity/zk-handler.js`, `helpers/zokrates.js` | none | generate the program and the contract that check a netting, order its arguments, hash deltas | run by the netting entity |
| user interface, mock sensor, container and chain configuration | | presentation, demonstration, configuration | not modelled |

What is hard about them:

* `settle` rounds proportional shares, caps them by what is left, splits the
  households again after having changed them, and ends with a loop whose
  termination depends on that second split (section 4).
* `OwnedSet` keeps one set in a list, in a second list that lags behind, in a
  mapping, and in another contract.
* The migration hands one contract over to the other halfway through a script
  that may die at any transaction.
* Both servers are callbacks around asynchronous calls: between two of them a
  netting, another reading, a closed channel or a restart can happen.
* The household server does not wait for its database, sums its readings up in
  two ways, and asks for transfers by the time at which it stored the last ones.
* The netting entity settles a copy of its utility that shares some of its
  state with the live one.
* What a settlement computes has to get through a generated ZoKrates program
  and a contract's comparison of hashes, each with its own order and its own
  treatment of zeros.

For each component `PROJECT.json` lists its hazards at the lines where they
bite, with the properties that cover them or the reason why none does.

## 2. Modules

| Module | Contents |
|---|---|
| `Energy` | the sums over the households, as a recursive function |
| `Netting` | abstract: what a netting promises, in one step |
| `Utility` | `utility.js`; `settle` loop by loop. Implements `Netting` |
| `DUtility` | `dUtility.sol`, `Mortal.sol`, `Ownable.sol` |
| `OwnedSet` | `BaseOwnedSet.sol`, `OwnedSet.sol`, composed with `DUtility` |
| `Migration` | the deployment script, composed with both contracts |
| `Reports` | abstract: readings reported in parts, each booked at most once |
| `Lightning` | external: channels and invoices as the servers see them |
| `Metering` | sensor route, channels and invoice route of the two servers. Implements `Reports` |
| `SettlementCheck` | `zk-handler.js`, the generated program and the generated contract's hashes, applied to what `Utility` computes |
| `NedServer` | the rest of `netting-entity/index.js`: the two utilities, timer, event, routes |
| `HouseholdServer` | `db.js`, `transfer-handler.js` and the rest of the sensor route, composed with `NedServer` |
| `MCUtility`, `MCSettlement`, `MCDUtility`, `MCOwnedSet`, `MCMigration`, `MCMetering`, `MCHouseholdServer` | instances for TLC |
| `EnergyProofs`, `UtilityProofs`, `NettingProofs`, `ContractProofs`, `MigrationProofs`, `MeteringProofs`, `HouseholdProofs`, `SettlementProofs` | theorems and proofs |

Operators marked "a variant, not the code" are plausible mistakes: with one of
them in the place of the definition below it, TLC finds the property violated
that `PROJECT.json` ("mutants") names for it. Nothing else refers to them.

### Utility

JavaScript runs a handler to its end, so reports and settlements do not overlap
inside the utility. `settle` is nevertheless modelled by several actions,
because what it has to keep is an invariant of its loops:

| Action | Code |
|---|---|
| `settle` | 87-103: delete the placeholder, split, update the counters |
| `Allocate` | 176-177: the next receiver and its rounded share |
| `Give` | 178-193: the next source with energy gives all that is asked or all it has; `_transfer` and `_addTransfer` |
| `Resplit` | 105-111: the second `_getProducersConsumers` |
| `TransferRest` | 204-214: one unit to a randomly drawn position |
| `Return` | 113 |

`households` is the sequence of the object's keys in insertion order, which
`Object.entries` follows, `meterDelta` a function on all addresses that is 0
outside the keys. The sets `hFrom`, `hTo` stand for the arrays; where the order
matters (`First`, the positions of `RestTargets`) it is that of `households`.
`JsRound` is `Math.round(eFrom * (m / eTo))`: the quotient is a double, so
a half may come out slightly below one and be rounded down unless the divisor
is a power of two; the model allows both. Deltas are integers, which is what every client
in the repository sends; `PUT /energy` (index.js:321) accepts any number, and with a
fractional one the loop of line 207 steps past zero and does not end. The list of undrawn indices in `_transferRest`
is represented by its length only, as the code uses the drawn number itself,
not the entry, as the position in `hTo`. Left out: dates, `lastUpdate`, logging.
`before`, `mark` and `nettings` are history: the copy that
`runZokrates` takes before settling, the length of the log, and a counter that
the bound `MaxNettings` caps.

### DUtility, OwnedSet, Migration

A call of a contract is a transaction: one action with all the `require`s on its
path as its guard, or nothing. Calls inside a call (`OwnedSet.addValidator` calls
`dUtility.addHousehold` with its own address as sender) are conjoined, so the
revert of the inner call disables the whole action. The verifier contract may
accept any proof; `checkNetting` models the acceptance, a rejection changes
nothing. A published hash is one value; `LeadingZero` are those that
`_concatNextHash` mistakes for empty slots. In the input of a netting a hash comes as
two words of 256 bits: `Slot` says whether the first is not zero (`seen`), whether a word has more than
128 bits (`long`) and what `hashes[i] << 128 | hashes[i + 1]` gives. An ordinary
slot is seen unless its hash has leading zeros; of a long one the shift
truncates the first word, so that it may be seen and give any hash, that of a household without a
reading included. `oversized` is history: the last netting used such a slot. Array indices are counted from 1. Gas, events,
getters, `recentBlocks` and the reporting functions (they emit an event and
store nothing) are left out.

`Migration` sends the transactions of the `authority` case in order. `Abort` is
the rejected promise of a reverted transaction, `Crash` the death of the
process with or without the pending transaction being mined, `Rerun` the
operator's next `truffle migrate`. Meanwhile households publish hashes and
anybody may submit nettings, and the authority, whose account the script uses, may call either
contract by hand (`UseUtility`, `Administrate`) at any time, between a crash and a rerun for example.
`byHand` counts such calls, except those to the set after the script has finished,
which are its normal administration; what holds only without them says so. The initial validator list is the one that
`scripts/update-contract-bytecodes.js` encodes: the deployer alone.

### Metering, Lightning, Reports

A reading takes this path; each line is an action, and between two of them
anything else may happen, because the record in `calls` that stands for the
request, the lnd call or the event is handled when the environment picks it:

| Action | Code |
|---|---|
| `PutSensorStats` | household 457-472: ask for the netting status |
| `GetNettingActive` | entity 231-242: the answer, which may be overtaken |
| `ReceiveStatus` | household 472-478: the first callback keeps the status; a new one resets the flag |
| `PassFirst` | household 479-487: the callback chained to it lets the first reading of an interval pass and leaves the others out. The promise library queues it, so that callbacks of other answers may run in between |
| `ReceiveChannels` | household 487-518: open a channel if there is none; one invoice, or two if the channel's funds are too small; nothing if the listing fails |
| `AddInvoice`, `SendPending` | household 252-312: after an invoice is added, or could not be, all pending ones of the household whose channel is listed are put to the entity |
| `PutLndEnergy` | entity 247-272: pay |
| `RecordPaid` | entity 272-300: find the channel among those listed and book with the sign of its parity (`Book`); a channel whose peer is offline is not listed, and without a list the callback throws (`Lose`) |
| `ReceiveSettled` | household 208-239: close and forget drained channels |
| `ReceiveOpened`, `Confirm` | household 328-354 and lnd: the id is kept unless another opening was faster; the channel becomes active later |
| `RunZokrates` | entity 104-119: `settle` as the relation `Nets` that `Netting` specifies and `Utility` implements, and a new status |
| `Restart` | household 62-110: variables and callbacks are gone, channels, invoices and requests already sent are not |
| `RestartEntity` | entity 67-77: a new utility and a new status; the payments that were about to be booked are forgotten |

lnd is external (`Lightning`): an invoice is paid at most once, over the channel
named in the request and only with sufficient funds. Payments, requests and openings
may fail. The listing calls are answered by the server's own node and
are taken together with their callbacks; a listing of active channels (`Listings`) may leave
out any channel, as that of a peer which is offline, or fail. `spendable` is the entity's balance less
the reserve; the parity of the capacity is a flag. Amounts have one unit: lnd answers balances in satoshi, which the code multiplies by
1000 to compare them with deltas and invoices in milli-satoshi (household 504-508); the fraction of a
satoshi that lnd rounds away is left out. Two requests for the
same invoice and channel may be under way at a time (a bound; any number of
further ones would be refused like the second). `outcome`, `under`,
`recorded` and `lost` are history. The condition at line 217 of the household server is true for
every channel, because its parenthesis is misplaced; the two comparisons after
it decide alone, as in `ReceiveSettled`. Left out: the database half of the sensor
route and `collectTransfers`, which `HouseholdServer` models and which share no
variable with this; and the reset of the netting flag by
the `NettingSuccess` listener, as the entity sends no proof while its call of
`checkNetting` is commented out.

### SettlementCheck

Everything here is a pure function of the deltas before and after a settlement,
so the module has no state of its own: it extends `Utility` and looks at the
state in which `settle` is about to return (`Settled`). `Arguments` follows
`zk-handler.js` (producers, which include those who reported zero, then consumers
without sign; the deltas after netting in the same grouping), `main` the program that
`zoKratesCodeGenerator.js` writes for so many producers and consumers, with its
sums in a prime field, with the last producer left out of the comparison, and with
its tolerance; `Outputs`, `NonZeroSlots`, `_checkHashes` and `AfterNettingDelta` the
hashes on their way through the contract. A hash is what is hashed, in a
sequence of one; the empty sequence is the pair of zeros that stands for no
energy. The program is only generated for at least one producer and one consumer
(`Generated`).

### NedServer, HouseholdServer

`NedServer` is the entity's server as its other handlers see it: `settle` is
one step again, of the kind `Netting` specifies.

| Action | Code |
|---|---|
| `PutLndEnergy`, `ChannelListed` | entity 247-300: the household is added when its invoice is paid, and booked when its channel is found later |
| `PutEnergy` | entity 314-357: validator and signature are checked, the delta is booked under the checksum spelling |
| `runZokrates` | entity 104-119: the shallow copy is settled; households and transfers are shared, the two counters are not |
| `NettingSuccess` | entity 89-102: the copy becomes the live utility |
| `NedRestart`, `Tick` | everything is in memory; the clock |
| `GetNetwork`, `GetTransfers` | entity 359-374, 400-418: answers, no steps |

Addresses are spellings; `Checksum` maps each to the one the contracts use.
`HouseholdServer` adds one household with its database. A call of the database
or of the entity has its effect in an action of its own:

| Action | Code |
|---|---|
| `MapReduce`, `ReplaceMeterReading` | db 282-299: the recount at the start, in the database's two steps |
| `PutSensorStats` | household 531-551: both writes are sent, neither is awaited in effect |
| `Inserted`, `InsertionFailed`, `Counted`, `CountingFailed` | db 46-69, 78-93: each of the two writes may fail by itself, and nobody hears of it |
| `ReceiveStatus`, `NettingSuccessHeard` | household 466-479, 117-135: what starts a collection |
| `Fetch`, `BulkWrite`, `CollectionFailed` | transfer-handler 20-38, ned.js 7-18, db 95-125: the entries are inserted in order, and the insertion may fail after any number of them |
| `Crash` | the process dies: calls that have not reached the database are lost |

`seen`, `asOf`, `left`, `overlapped`, `confirmed` and `unconfirmed` are history.
Left out: `GET /meterdelta`, the getters nothing calls (`getLatestBlockNumber`,
`findByID`), wording of answers.

## 3. Runs

| Run | Instance | Shows |
|---|---|---|
| `utility_repeat` | 3 households, deltas -3 and 1, 2 nettings | type, loop invariant, conservation, the transfer log, refinement of `Netting` |
| `utility_once` | every report out of -3, -2, -1, 0, 1, 2 of 5 households, 1 netting | fairness of the loops, small rest, the two splits agree, termination; what the ZoKrates program and the contract make of each result |
| `utility_worse` (violation) | 7 households, deltas -3, 0, 1 | the random rest can leave a household worse off |
| `settlement_forged` (violation) | 3 households | the program accepts deltas whose balance is not the one before |
| `dutility` | 2 accounts, an ordinary hash and one with leading zeros, words of more than 128 bits, 2 slots, 1 netting | registry and hashes |
| `owned_set` | 4 addresses | validator lists, mapping, active list |
| `owned_set_active` (violation) | the same | a validator nobody removes fails the modifier for a while |
| `migration` | 4 addresses, 2 crashes or re-runs, 1 call by hand | handover, both registries, the deployed set |
| `metering` | 1 household, readings of 3 and -1, channels of 2, 1 netting or restart of either server | parts booked at most once with their sign, lost payments, the netting flag |
| `metering_split` (violation) | the same | a split reading is not metered in full |
| `household` | 1 household and a peer, 2 readings or 3 reports with 2 nettings, 2 collections | the meter reading accounts for the readings, collected transfers, the entity's counters |
| `household_collected` (violation) | the same, smaller | a household configured in lower case collects nothing |

Why the bounds are enough. Two nettings reach every relation between a
settlement and what an earlier one left: residual deltas, a log that is not
empty, reports in between. With deltas -3 and 1 two producers serve one consumer and
shares are halves; the residue of the first netting makes the second one of
over-production. Five households with six values contain both orders of the sides, several sources,
shares that are exact halves with divisors that are no powers of two, and a rest for more than one
receiver; a rest that overshoots needs more receivers, hence seven households
in `utility_worse`. Four addresses let the removed validator
be first, middle or last in the list and be added again. In `migration` a death and a
rerun leave every state that a later run can find; one call by hand is enough: without
any one of the conditions on `byHand` TLC finds its property violated by a single such call.
In `metering` the first reading needs two parts and drains its channel,
the second uses the other direction. One netting (`MaxDisturbances`) separates them or not and lets an
answer be old when it arrives; or one of the servers is restarted instead. Two
channels that can be opened, over either direction, give reopened, failed and doubled openings,
and the restart of the household repeats them. Households share nothing but the netting, which
`Utility` covers with up to seven.

`household` has two kinds of initial states. The readings and the transfers meet only
where the sensor route starts a collection and where a crash ends one, and a
collection may start and fail at any time by other actions. So a run starts
either with two readings (3 and 1, told apart by any sum), a crash to come and an entity
that has nothing left to net, or with the database ready and an active entity:
three reports, two nettings with a restart of the entity between or after them, one
event, a clock that can stand, and a household whose clock is even with the entity's or one behind. Two
collections can overlap or follow each other, and a list of two transfers can be cut off between them; two nettings give a transfer before and one after an
answer. In `utility_once` the field order 997 is larger than every
sum and any negative argument is still far from the small numbers, as in the
real field; `settlement_forged` enumerates claims up to 6, the largest total.

Symmetry is used for
the households of `utility_repeat` and the candidates of `owned_set`, which no
definition tells apart; the properties are safety properties.
Deadlock is not checked where the system may stop: a settlement that has
returned once, a destroyed contract, a finished or dead migration.

## 4. Properties

*Utility.* `Consistency`: no step of a settlement creates or loses energy.
`FairWhileDistributing`: the proportional loops keep every household between
zero and its report, although shares may add up to more than there is; the side that
is emptied keeps this to the end. `RestIsSmall`: what rounding leaves is at most half a unit
per receiver. `ResplitAgrees`: the second split has the same sides, and a receiver while there is a source.
`SettleReturns`: the loops end. `TransfersExplain`: the recorded amounts account
for the change of every delta until the rest is drawn (the rest is not recorded).
`ImplementsNetting`: seen from outside, where only the state before and after `settle` is visible,
a settlement conserves the total, leaves nothing on
the side that can be served in full, involves nobody who reported zero and
counts production and shortage.

*Settlement check.* `HonestCheck`: the program accepts an honest settlement exactly
when it left every household between its report and zero, although its rounding is
tolerated, although the last producer is not compared and although negative deltas are read modulo
the field's order. `HashesMeetHouseholds`: through grouping, program order and
skipped zeros each listed household meets its own hash, both before and after
netting; a household that reported zero blocks the list. A list cut off at any
length is accepted. `AcceptedConserves` (violated): the program compares magnitudes of the total.

*Netting entity and household.* `NetworkCounts`: the live counters are those of
the nettings whose event arrived before the next netting, whatever the sharing
of the copy. `MeterAccounts`: the two documents of the meter reading hold each
reading once, but for those on their way and those a crash, an initialisation, a failed insertion
or a failed increment fell upon: what goes wrong for one reading touches no other. `DuplicatesOverlap`: a transfer is stored twice
only by collections that overlapped, or if the household's clock is behind.
`MissedSinceAnswer`: a transfer the household will not ask for any more was made
after an answer and before what that answer brought was stored, or is the rest of a
bulk write that failed halfway: answers and writes that are lost as a whole lose nothing. `AnswerComplete` (violated): spelling.

*Contracts.* `CleanSlate`, `DisownedIsFrozen`; `ResultNeedsReading`: a result is stored only for a
registered household that published a reading, unless the netting's input holds a word of
more than 128 bits, which can stand for the hash of no reading;
`StatusIndexesPending`, `FinalizedAgrees`, `ValidatorsDistinct`,
`FinalizedValidatorsPass`.

*Migration.* `RegistriesAgree`: from the handover on, dUtility's households are
exactly OwnedSet's validators, whatever crashed, if nobody called dUtility as its owner by hand
before. `ValidatorsRemovable`: so every removal goes through. `DeployedAsPlanned`, `UndisturbedDeploys`:
what the script achieves when nothing is done by hand. `HandoverIsFinal`, whatever is done by hand.
`RerunNeverFinishes`: a run that starts with the authority registered cannot finish until
the authority itself calls dUtility, which it still owns if the earlier run died before the handover, and
removes its registration; after the handover nobody can.

*Metering.* `ReportedInParts`: what is booked refines `Reports`: parts have the
sign of their reading and together at most its size, each is booked at most
once, nothing else but a netting or a restart of the entity changes a balance. `LostOnlyWithChannel`:
without a failure between payment and booking (an offline peer, no listing, a restart of the
entity; `lost` holds those payments) the only payments that are never booked are those whose channel the
household closed. `LeftOutForAnother`: a reading is left out only if another one passed
under the status that the household knew at that time. It need not be the status that either was
answered, because the two callbacks of several answers interleave, and what passed
need not come to anything, because the listing may fail once the flag is set. `TypeOK` includes that no household keeps the id of a
closed channel, and that a channel's parity fits its direction.

Where code and documentation disagree, a run expects a violation and
`PROJECT.json` ("findings") quotes the line.

Behaviour that is modelled as it is and that a reader should know of, without a
run of its own:

* `settle` passes `false` for the side that has more (utility.js:103), whichever
  has: `_addTransfer` (228-252) records every transfer as one from a receiver to a
  source, which is backwards when there is less than is asked for.
* `dUtility` accepts a list of households of any length up to the number of
  hashes (dUtility.sol:165).
* `GET /household-stats` shows the document `_id` 1 of the meter reading, and
  the recount after a restart goes to the other one (db.js:276, 287): the
  statistics forget what was counted before a restart, although nothing is lost. The
  document that the recount makes is read by nothing, although db.js:277 calls it the
  initialisation of `meter_reading`.
* `GET /sensor-stats` and `GET /transfers` of the household server build a
  filter with two entries for the same key when both ends of an interval are given: the second one
  overwrites the first.
* A household that reported zero is among the producers of the proof without a
  hash among the inputs, and blocks everybody's netting.
* A `NettingSuccess` event before the first netting of a process makes the
  utility undefined until a restart (index.js:100). `NedServer` has this state, and every
  handler that would throw in it is disabled; no property is about it.
* A netting input with a word of more than 128 bits gives a household that has published nothing a
  result, if the verifier accepts the proof (dUtility.sol:115).
* After a death of the migration before the handover the authority can remove
  itself from dUtility and run the script again with success.
* When the entity cannot find the channel of a payment it made, the household has
  been paid and its delta is not booked (index.js:278-300).

## 5. Fairness

`FairSpec` and `FairOnceSpec`: weak fairness of `Settling`, because `settle` is
synchronous code that runs once it is called. The random draw needs no fairness:
every unit shrinks the source. `mFairSpec`: weak fairness of `Step` and
`Abort`: the script awaits each transaction and then continues or fails.
Nothing is assumed of crashes, of the operator or of the households.
`Metering`, `NedServer` and `HouseholdServer` have safety properties only and
state no fairness: none of their loops has to end, and nothing of what they send need arrive.

## 6. Proofs

All constants are arbitrary under the named assumptions (`UtilityAssumption`,
`DUtilityAssumption`, `OwnedSetAssumption`, `MigrationAssumption`,
`MeteringAssumption`, `NedAssumption`, `HouseholdAssumption`, `SettlementAssumption`,
`FieldAssumption`). Three of them hold facts about what is outside the code. `MigrationAssumption`: OwnedSet's address is not the
deployer's, because a contract's address is no externally owned account.
`HouseholdAssumption`: a household makes finitely many readings in a behaviour, of any
number, and a missing document is no number. `FieldAssumption`: households are finitely many
(`N`), and neither `N * N` nor `2 * N` times the size of a delta reaches the order of the
program's field, which has 254 bits.

* `EnergyProofs`: the recursive sum is well defined (`PartialExists`,
  `SumIsPartial`; induction is done on the set of indices with the property,
  from the well-foundedness of the naturals, as the library's induction
  theorems take an operator); it adds up (`SumAdd`), changes with one entry
  (`SumChange`) and not by a transfer (`SumTransfer`); `Sides` relates production,
  consumption and total.
* `UtilityProofs`: `Inv == TypeOK /\ LoopInv /\ Consistency` is inductive. `LoopInv`
  is the strengthening: `Given` turns deltas of the giving side into naturals, so that over- and
  under-production are one case; the sources stay between 0 and their report, the
  receivers too, a share never exceeds what its receiver lacks (`ShareOver`, `ShareUnder`: rounding a
  fraction of a whole number of units, even with the inexact half), and whoever still waits is
  untouched. Theorems: `TypeCorrect`, `EnergyConserved`, `LoopsAreFair`.
* `NettingProofs`: on top of `Inv`, `SplitInv` says what the two splits have to do with
  each other: no sign has changed and the total has not (`Signs`), so the sides and
  the direction are the same. The hard case is production equal to consumption,
  where both sides have to end with nothing: then every share is exact
  (`ExactShare`), a receiver that had its turn lacks just what is still to be
  moved to it (`Exact`), and a side without energy means that the other has none
  (`BothEmpty`, since a sum of one-signed entries is zero only if they all are).
  `SmallInv` bounds the rest: what the givers hold (`Left`), less the part that the
  receivers still to come are due (`Due`) and what is on its way, is at most half a unit for each
  receiver that had its turn (`RestAlwaysSmall`; the divisor is multiplied out, so that all
  is integer arithmetic). `ExplainInv`: every `Give` changes the deltas of its two
  households by the amount it records, so that what is recorded since `mark` accounts for
  the change of each (`LogAlwaysExplains`).
  Further theorems: `SplitsAgree`, and `UtilityImplementsNetting`, the refinement: `settle` and
  its loops are stutters, because the mapping shows the deltas before and takes
  the counters' growth back until `Return`, which is the step of `Netting`.
* `ContractProofs`: for `DUtility` types, `CleanSlate`, `DisownedIsFrozen` and
  `ResultNeedsReading`, call by call. The last rests on `SlotExists`: the n-th hash
  that is not skipped exists, by induction over the slots; that hash is an ordinary one unless the slot
  is long. For `OwnedSet` types;
  `StatusIndexesPending` is inductive by itself with the types (`IndexedAlways`), and
  the finalized list agrees with the pending one, without duplicates
  (`FinalizedAlways`, `DistinctAlways`). Together they give `FinalizedPassAlways`: between
  changes the modifier accepts every active validator.
* `MigrationProofs`: `Basics` holds whatever is done by hand, and is enough for `HandoverAlways`: nobody
  acts as OwnedSet (`NotTheOwners`). What the calls by hand can break is guarded by their
  count, which only grows (`ByHandGrows`): `Guarded` says `mInv` as long as dUtility's owner has not called
  it, `PlanAlways` says `PlanInv` as long as the authority has called neither contract. `mInv`: the
  script's transactions, its deaths and everybody else's calls
  keep the registries together: before the handover it says how far the
  registries have come at each position of the script, after it every change of one is one of the other.
  `RegistriesAlways` and `RemovableAlways` follow. `PlanInv` adds the order of
  the script: a process that got past the handover did it itself, so that it found
  the lists as they were constructed, and `Building` says what they hold at each
  position; at the end this is `DeployedAlways`. `Blocked` is a run that has not
  registered the authority but finds it registered, or dUtility handed over: one of its first two transactions
  reverts, and nobody but dUtility's owner removes the authority before the handover, which it never
  reaches. So `RerunNeverFinishes` is a safety property (`RerunAlways`).
* `MeteringProofs`: `Inv` says for every call under way what has to be true until
  its callback runs (`Shapes` gives its fields). `AnswerInv`: one question per
  reading until it is decided, and a set netting flag stands for a reading that passed under the status the
  household knows (`PassedUnder`), which each of the two callbacks keeps true by itself. `Channels`: no two households know the same channel, so closing
  a drained one takes it from nobody else. `PaymentInv`: a request names a channel
  of the invoice's direction; a paid invoice has one paying channel, which was
  active, so that it is booked, lost by a failure or the channel is closed. `Budget`: nothing of a
  reading is issued until its channels are listed, and what is issued then is
  within it, as a call or as an invoice. Theorems: `MeteringTypes`, `PaymentsBooked`,
  `ReadingsPass`, and the refinement `MeteringImplementsReports`: `AddInvoice` is an
  `Issue` if it succeeds, `RecordPaid` a `Book` if it finds the channel, `RunZokrates` a `Net`, `RestartEntity` a
  `Forget`, and every other step a stutter.
* `HouseholdProofs`: `NetInv` gives `NetworkAlways`. `TransferInv` describes a collection
  (`CallInv`) and a stored entry (`EntryInv`): what was stored when it asked, what it was answered, and that
  entries are stamped in order of storing with a clock that does not go back. For
  `MissedAlways`, take the first entry whose time passes the transfer
  (`FirstPassing`): its collection asked before, so it asked for a date that
  includes the transfer, which therefore did not exist when the answer was given, or was in the
  answer and in the part of the list that was not inserted.
  `DuplicatesAlways`: a collection that had seen the first copy asks for later ones only.
  `MeterInv` names for every state the readings that are in each of the two documents (`Holds`):
  an increment and a recount change them by whole readings, and what a crash or a
  failure leaves undecided is recorded in `overlapped` (`MeterAlways`). Sums over sets of readings
  are sums over an enumeration of all of them (`SumOfTwo`).
  `HouseholdTypes` collects the types.
* `SettlementProofs`: what a filter leaves are members, and a prefix that passes stays in
  its place (`FilteredMembers`, `FilteredPrefix`). So the arguments are the deltas of the listed
  households, twice (`ArgumentsAre`), and as long as nobody on a list reported zero, the
  n-th slot that is not skipped is the n-th hash (`SlotsAre`): `HashesAlways`.
  `HonestAlways`, that the program accepts just the settlements that push nobody past zero,
  needs to know how far the rest can push (`PushInv`): nobody gets more of it than half a unit per
  receiver, so that all deltas stay small (`AllFits`, from `RestAlwaysSmall`'s invariant), and
  the last of several receivers is drawn at most once, while it has a unit to lose
  (`LastDrawn`). `MainIs` says what `main` asserts in terms of sums in the field, which are
  the sums themselves where nobody is negative (`FieldSum`). With a surplus
  (`HonestProducers`) a producer pushed past zero reads as a number above its report, and
  the one producer the program does not compare keeps at least zero (`LastKeeps`). With a shortage
  (`HonestConsumers`) the sizes of what the consumers are left with add up to the shortage
  only if none changed sides (`Shortage`).

Only model-checked: liveness (`SettleReturns`, `UndisturbedDeploys`), which the prover does
not reach. Every invariant and every other action property of a passing run is a theorem.

## 7. Not modelled

* `netting-entity/benchmarkNed.js`: a harness that measures the proof for given
  households; its global utility is overwritten by an overlapping request, which
  matters to a measurement only.
* The user interface, the mock sensor, container and chain configuration: presentation,
  demonstration, configuration.
* `household-server/energy-handler.js` and the branch of `runZokrates` that sends
  a proof: both calls are commented out. With the latter the household's
  `checkNetting` is unreachable in effect; what it would check, `SettlementCheck` does.
* `recentBlocks` and the report functions of `BaseOwnedSet.sol`: they emit an
  event and store nothing else that is read.
* The cryptography behind hashes, signatures and the verifier, lnd, MongoDB and the
  chain: external; what the code relies on is stated where it is used.
* The generated program's text: `SettlementCheck` models what the program
  computes, not how the generator writes it.
