--------------------------- MODULE HouseholdServer ---------------------------
(***************************************************************************)
(* A household server's database (household-server/apis/db.js) and the two *)
(* things it keeps: the readings of its sensor, summed up in a document of *)
(* their own, and the transfers it collects from the netting entity        *)
(* (transfer-handler.js, apis/ned.js).  Every call of the database and of  *)
(* the entity's server has its effect some time after it is made; a crash  *)
(* of the server loses the calls that have not reached the database.       *)
(* Payments (Metering.tla) share no state with this.                       *)
(***************************************************************************)
EXTENDS NedServer, SequencesExt

CONSTANTS Reading, Value,   \* sensor readings, their produce - consume
          Spellings,        \* how the household's own address may be configured
          Skews,            \* the household's clock minus the entity's
          Absent,           \* a document that is not there
          MaxCollections, MaxCrashes

ASSUME HouseholdAssumption ==
  /\ IsFiniteSet(Reading) /\ Value \in [Reading -> Int]
  /\ Absent \notin Int
  /\ Spellings \subseteq Address
  /\ Skews \subseteq Int
  /\ {MaxCollections, MaxCrashes} \subseteq Nat

VARIABLES address,      \* config.address
          skew,
          status,       \* nettingStatus, the last one that was answered
          answers,      \* answers of the entity's GET /lnd/netting-active
          collections,  \* calls of collectTransfers
          utilityData,  \* collection utility_data, in order of insertion
          sensorData,   \* collection sensor_data
          meterReading, \* collection meter_reading: the documents _id 1 and null
          initialising, \* "createDB" | "mapReduce" | "done"
          recount,      \* what mapReduce has computed
          inserting, counting,  \* readings on their way into the two
          unread,       \* readings the sensor has not sent yet
          crashes, collected,   \* how much of the bounds is used up
          overlapped    \* history: readings that a crash, an initialisation or
                        \* a failed insertion or increment fell upon

store == <<utilityData, sensorData, meterReading>>
own   == <<address, skew, status, answers, collections, store, initialising, recount,
           inserting, counting, unread, crashes, collected, overlapped>>
vars  == <<ned, own>>

(* The sum of the readings in S, which may be added up in any order.       *)
SumOf(S) ==
  SumOver(SetToSeq(Reading), [r \in Reading |-> IF r \in S THEN Value[r] ELSE 0])

Now == clock + skew
InFlight == inserting \cup counting
NoCount == [sum |-> 0, none |-> TRUE, during |-> {}]
-----------------------------------------------------------------------------
InitWith(readings, spent, stage, crashed) ==
  /\ NedInit(spent)
  /\ address \in Spellings /\ skew \in Skews
  /\ status = 0 /\ answers = {} /\ collections = {}
  /\ utilityData = <<>> /\ sensorData = {}
  /\ meterReading = [one |-> Absent, null |-> Absent]
  /\ initialising = stage /\ recount = NoCount
  /\ inserting = {} /\ counting = {} /\ unread = readings
  /\ crashes = crashed /\ collected = 0 /\ overlapped = {}

Init == InitWith(Reading, Nothing, "createDB", 0)

(* createDB has made the collections and calls initializeMeterReading: the *)
(* mapReduce sums up what sensor_data holds.                               *)
MapReduce ==
  /\ initialising = "createDB"
  /\ initialising' = "mapReduce"
  /\ recount' = [sum |-> SumOf(sensorData), none |-> sensorData = {}, during |-> InFlight]
  /\ UNCHANGED <<ned, address, skew, status, answers, collections, store, inserting,
                 counting, unread, crashes, collected, overlapped>>

(* A variant, not the code: the other document is kept.                    *)
RecountedBeside ==
  [meterReading EXCEPT !.null = IF recount.none THEN Absent ELSE recount.sum]

(* A variant, not the code: nothing to sum up leaves a document too.       *)
RecountedUndefined ==
  [one |-> Absent, null |-> IF recount.none THEN Undefined ELSE recount.sum]

(* `out`: the result, under the key null, replaces the whole collection.   *)
Recounted == [one |-> Absent, null |-> IF recount.none THEN Absent ELSE recount.sum]

ReplaceMeterReading ==
  /\ initialising = "mapReduce"
  /\ initialising' = "done"
  /\ meterReading' = Recounted
  /\ overlapped' = recount.during
  /\ recount' = NoCount
  /\ UNCHANGED <<ned, address, skew, status, answers, collections, utilityData,
                 sensorData, inserting, counting, unread, crashes, collected>>

(* PUT /sensor-stats: asks for the netting status; writeToDB resolves as   *)
(* soon as the insertion is sent, so that updateMeterReading does not wait *)
(* for it.                                                                 *)
PutSensorStats(r) ==
  /\ r \in unread
  /\ unread' = unread \ {r}
  /\ answers' = answers \cup {[r |-> r, status |-> nettingStatus]}
  /\ inserting' = inserting \cup {r}
  /\ counting' = counting \cup {r}
  /\ recount' = IF initialising = "mapReduce"
                THEN [recount EXCEPT !.during = @ \cup {r}] ELSE recount
  /\ UNCHANGED <<ned, address, skew, status, collections, store, initialising, crashes,
                 collected, overlapped>>

(* insertOne.                                                              *)
Inserted(r) ==
  /\ r \in inserting
  /\ inserting' = inserting \ {r}
  /\ sensorData' = sensorData \cup {r}
  /\ UNCHANGED <<ned, address, skew, status, answers, collections, utilityData,
                 meterReading, initialising, recount, counting, unread, crashes,
                 collected, overlapped>>

(* The insertion's error comes too late to reject anything.                *)
InsertionFailed(r) ==
  /\ r \in inserting
  /\ inserting' = inserting \ {r}
  /\ overlapped' = overlapped \cup {r}
  /\ UNCHANGED <<ned, address, skew, status, answers, collections, store, initialising,
                 recount, counting, unread, crashes, collected>>

(* $inc with upsert.                                                       *)
Increment(doc, v) == IF doc = Absent THEN v ELSE doc + v

(* getMeterReading, which GET /household-stats answers.                    *)
Shown(doc) == IF doc = Absent THEN 0 ELSE doc

(* updateMeterReading.                                                     *)
Counted(r) ==
  /\ r \in counting
  /\ counting' = counting \ {r}
  /\ meterReading' = [meterReading EXCEPT !.one = Increment(@, Value[r])]
  /\ UNCHANGED <<ned, address, skew, status, answers, collections, utilityData,
                 sensorData, initialising, recount, inserting, unread, crashes,
                 collected, overlapped>>

(* The increment's error is nobody's: the promise is not awaited.          *)
CountingFailed(r) ==
  /\ r \in counting
  /\ counting' = counting \ {r}
  /\ overlapped' = overlapped \cup {r}
  /\ UNCHANGED <<ned, address, skew, status, answers, collections, store, initialising,
                 recount, inserting, unread, crashes, collected>>
-----------------------------------------------------------------------------
Largest(S) == CHOOSE n \in S : \A m \in S : m <= n

(* getLatestTimestamp.                                                     *)
LatestTimestamp ==
  Largest({0} \cup {utilityData[k].timestamp : k \in 1..Len(utilityData)})

(* A variant, not the code: what is later than now.                        *)
FromNow == Now

(* What is later than the last entry.                                      *)
From == LatestTimestamp + 1

(* collectTransfers, up to its second await: a call whose first read takes *)
(* its time is a later call.  `seen` and `asOf` are history: how many      *)
(* entries the store held when the timestamp was read, how many            *)
(* settlements the entity had made when it answered.                       *)
Collection == [id |-> collected, from |-> From, seen |-> Len(utilityData),
               asOf |-> 0, transfers |-> {}, answered |-> FALSE]
Collect == collections' = collections \cup {Collection} /\ collected' = collected + 1

(* The answer differs from the last one.                                   *)
IsNew(s) == s # status

(* The answers may come in another order than they were given.             *)
ReceiveStatus(m) ==
  /\ answers' = answers \ {m}
  /\ status' = m.status
  /\ IF IsNew(m.status)
     THEN collected < MaxCollections /\ Collect
     ELSE UNCHANGED <<collections, collected>>
  /\ UNCHANGED <<ned, address, skew, store, initialising, recount, inserting, counting,
                 unread, crashes, overlapped>>

(* Called without await, it is a promise, which is true, whatever it will  *)
(* resolve to.                                                             *)
checkNetting == TRUE

(* The listener of NettingSuccess.  The entity's hears the event at a time *)
(* of its own.                                                             *)
NettingSuccessHeard ==
  /\ checkNetting
  /\ collected < MaxCollections
  /\ Collect
  /\ UNCHANGED <<ned, address, skew, status, answers, store, initialising, recount, inserting,
                 counting, unread, crashes, overlapped>>

(* ned.getTransfers: the entity's answer.                                  *)
Fetch(c) ==
  /\ ~c.answered
  /\ utility # Undefined
  /\ collections' = (collections \ {c}) \cup
       {[c EXCEPT !.answered = TRUE, !.asOf = used.transfers,
                  !.transfers = GetTransfers(address, c.from)]}
  /\ UNCHANGED <<ned, address, skew, status, answers, store, initialising, recount,
                 inserting, counting, unread, crashes, collected, overlapped>>

(* The entity cannot be reached or answers 400, or the insertion fails.    *)
CollectionFailed(c) ==
  /\ collections' = collections \ {c}
  /\ UNCHANGED <<ned, address, skew, status, answers, store, initialising, recount,
                 inserting, counting, unread, crashes, collected, overlapped>>

(* Each entry is stamped with the household's own time.                    *)
Timestamp == Now

(* bulkWriteToDB.  insertMany keeps the order of the list, which is that   *)
(* of the settlements, and may fail after a part of it: `left`, history,   *)
(* is the rest.                                                            *)
BulkWrite(c) ==
  /\ c.answered
  /\ collections' = collections \ {c}
  /\ \E list \in [1..Cardinality(c.transfers) -> c.transfers],
        n \in 0..Cardinality(c.transfers) :
       /\ c.transfers = {list[k] : k \in DOMAIN list}
       /\ \A k, l \in DOMAIN list : k < l => list[k] # list[l] /\ list[k].id <= list[l].id
       /\ utilityData' = utilityData \o
            [k \in 1..n |->
               [transfer |-> list[k], timestamp |-> Timestamp, seen |-> c.seen,
                asOf |-> c.asOf, left |-> {list[l] : l \in DOMAIN list \ 1..n}]]
  /\ UNCHANGED <<ned, address, skew, status, answers, sensorData, meterReading,
                 initialising, recount, inserting, counting, unread, crashes,
                 collected, overlapped>>

(* The server is restarted; its calls that have not reached the database   *)
(* or the entity are lost.                                                 *)
Crash ==
  /\ crashes < MaxCrashes
  /\ crashes' = crashes + 1
  /\ status' = 0 /\ answers' = {} /\ collections' = {}
  /\ inserting' = {} /\ counting' = {}
  /\ overlapped' = overlapped \cup InFlight
  /\ initialising' = "createDB" /\ recount' = NoCount
  /\ UNCHANGED <<ned, address, skew, store, unread, collected>>

Entity == NedNext /\ UNCHANGED own

Next ==
  \/ Entity
  \/ MapReduce \/ ReplaceMeterReading \/ Crash \/ NettingSuccessHeard
  \/ \E r \in Reading : \/ PutSensorStats(r) \/ Inserted(r)
                        \/ InsertionFailed(r)
                        \/ Counted(r) \/ CountingFailed(r)
  \/ \E m \in answers : ReceiveStatus(m)
  \/ \E c \in collections : Fetch(c) \/ CollectionFailed(c) \/ BulkWrite(c)

Spec == Init /\ [][Next]_vars
-----------------------------------------------------------------------------
(***************************************************************************)
(* Properties                                                              *)
(***************************************************************************)
Document == Int \cup {Absent}

(* Every variable has its type.                                            *)
TypeOK ==
  /\ Keys(households) \subseteq Address /\ meterDelta \in [Address -> Int]
  /\ \A t \in transfers : t \in Transfer
  /\ clock \in Nat /\ nettingStatus \in 1..clock /\ status \in 0..clock
  /\ address \in Spellings /\ skew \in Skews
  /\ sensorData \cup InFlight \cup unread \subseteq Reading
  /\ meterReading \in [one : Document, null : Document]
  /\ initialising \in {"createDB", "mapReduce", "done"}
  /\ \A k \in 1..Len(utilityData) :
       utilityData[k].transfer \in Transfer /\ utilityData[k].timestamp \in Int

(* The two documents of meter_reading together hold every reading exactly  *)
(* once, across any restart.  The only ones that may be left out or        *)
(* counted twice are those on their way and those that a crash, an         *)
(* initialisation, a failed insertion or a failed increment fell upon.     *)
(* GET /household-stats shows the document _id 1 only: the one that a      *)
(* restart has "initialized" (db.js:277) is in the sum, but is never read. *)
MeterAccounts ==
  LET doubtful == overlapped \cup InFlight
  IN  \E times \in [Reading -> 0..2] :
        /\ \A r \in Reading \ doubtful : times[r] = IF r \in sensorData THEN 1 ELSE 0
        /\ Shown(meterReading.one) + Shown(meterReading.null)
             = SumOver(SetToSeq(Reading), [r \in Reading |-> times[r] * Value[r]])

(* A transfer is stored twice only by collections that overlapped, unless  *)
(* the household's clock is behind the entity's: the later copy was asked  *)
(* for before the earlier one was stored.                                  *)
DuplicatesOverlap ==
  skew >= 0 =>
    \A k, l \in 1..Len(utilityData) :
      k < l /\ utilityData[k].transfer = utilityData[l].transfer => utilityData[l].seen < k

Stored(t) == \E k \in 1..Len(utilityData) : utilityData[k].transfer = t

(* The household asks for what is later than its last entry.  A transfer   *)
(* that it will not ask for any more, and has not stored, was made after   *)
(* the entity had answered a collection, and before the household stamped  *)
(* what that one brought, or is the rest of a bulk write that failed       *)
(* halfway: an answer or a bulk write that is lost as a whole loses none.  *)
MissedSinceAnswer ==
  \A t \in transfers :
    /\ Checksum[address] \in {t.from, t.to}
    /\ ~Stored(t) /\ t.date <= LatestTimestamp
    => \E k \in 1..Len(utilityData) :
         /\ utilityData[k].timestamp >= t.date
         /\ utilityData[k].asOf <= t.id \/ t \in utilityData[k].left

(* "Collects transfers from NED sever and writes them into DB"             *)
(* (household-server/transfer-handler.js:6): what the entity answers holds *)
(* every transfer of the household since the date that was asked for.      *)
AnswerComplete ==
  \A c \in collections : c.answered =>
    \A t \in transfers :
      /\ \E a \in {t.from, t.to} : Checksum[a] = Checksum[address]
      /\ t.id < c.asOf /\ t.date >= c.from
      => t \in c.transfers
=============================================================================
