--------------------------- MODULE HouseholdProofs ---------------------------
(***************************************************************************)
(* What holds of the entity's statistics, of the collected transfers and   *)
(* of the meter reading, for any households, reports, clocks, restarts,    *)
(* number of overlapping collections and order of the database's answers.  *)
(***************************************************************************)
EXTENDS HouseholdServer, EnergyProofs, FiniteSetTheorems

-----------------------------------------------------------------------------
(* The statistics                                                          *)

Stats == [renewable : Int, nonRenewable : Int]

NetType ==
  /\ households \in Seq(Address)
  /\ meterDelta \in [Address -> Int]
  /\ confirmed \in Stats /\ unconfirmed \in Stats

(* The live instance shows what is confirmed; the copy, what it will show  *)
(* once the last netting is confirmed too.                                 *)
NetInv ==
  /\ NetType
  /\ utility # Undefined => utility = confirmed
  /\ utilityAfterNetting # Undefined => utilityAfterNetting = Plus(confirmed, unconfirmed)

LEMMA PlusStats ==
  ASSUME NEW s \in Stats, NEW t \in Stats
  PROVE  Plus(s, t) \in Stats /\ Plus(s, NoStats) = s
BY DEF Plus, Stats, NoStats

LEMMA StatsOfType ==
  ASSUME NEW order \in Seq(Address), NEW d \in [Address -> Int]
  PROVE  StatsOf(order, d) \in Stats
<1>1. [a \in DOMAIN d |-> Positive(d[a])] \in [Address -> Int]
  BY DEF Positive
<1>2. SumOver(order, d) \in Int
  BY SumInt
<1>3. Produced(order, d) \in Int
  BY <1>1, SumInt DEF Produced
<1> QED
  BY <1>2, <1>3 DEF StatsOf, Stats, Positive

LEMMA NetInit ==
  ASSUME Init PROVE NetInv
BY DEF Init, InitWith, NedInit, NetInv, NetType, Stats, NoStats

LEMMA NetNext ==
  ASSUME NetInv, [Next]_vars PROVE NetInv'
<1> USE DEF NetInv
<1>1. CASE UNCHANGED ned
  BY <1>1 DEF ned, shared, NetType
<1>2. CASE Entity
  <2>1. ASSUME NEW r \in Reports, PutLndEnergy(r[1]) PROVE NetInv'
    <3>1. r[1] \in Address
      BY <2>1, NedAssumption
    <3>2. households' \in Seq(Address)
      BY <2>1, <3>1 DEF PutLndEnergy, With, NetType
    <3> QED
      BY <2>1, <3>2 DEF PutLndEnergy, NetType
  <2>2. ASSUME NEW r \in Reports, ChannelListed(r[1], r[2]) PROVE NetInv'
    BY <2>2, NedAssumption DEF ChannelListed, NetType
  <2>3. ASSUME NEW r \in Reports, NEW signer \in Address, PutEnergy(r[1], r[2], signer)
        PROVE  NetInv'
    <3>1. Checksum[r[1]] \in Address /\ r[2] \in Int
      BY <2>3, NedAssumption
    <3>2. households' \in Seq(Address)
      BY <2>3, <3>1 DEF PutEnergy, With, NetType
    <3>3. meterDelta' \in [Address -> Int]
      BY <2>3, <3>1 DEF PutEnergy, NetType
    <3> QED
      BY <2>3, <3>2, <3>3 DEF PutEnergy, NetType
  <2>4. CASE runZokrates
    <3>1. unconfirmed' = StatsOf(households, meterDelta) /\ confirmed' = confirmed
      BY <2>4 DEF runZokrates
    <3>2. utility = confirmed /\ utility' = utility
      BY <2>4 DEF runZokrates, CopySettled
    <3>3. utilityAfterNetting' = Plus(confirmed', unconfirmed')
      BY <2>4, <3>1, <3>2 DEF runZokrates, CopySettled
    <3>4. meterDelta' \in [Address -> Int]
      BY <2>4 DEF runZokrates, NetType
    <3>5. StatsOf(households, meterDelta) \in Stats
      BY StatsOfType DEF NetType
    <3>6. households' = households
      BY <2>4 DEF runZokrates
    <3> QED
      BY <3>1, <3>2, <3>3, <3>4, <3>5, <3>6 DEF NetType
  <2>5. CASE NettingSuccess
    <3>1. confirmed' = Plus(confirmed, unconfirmed) /\ unconfirmed' = NoStats
      BY <2>5 DEF NettingSuccess
    <3>2. confirmed' \in Stats /\ Plus(confirmed', unconfirmed') = confirmed'
      BY <3>1, PlusStats DEF NetType
    <3>3. NoStats \in Stats
      BY DEF NoStats, Stats
    <3> QED
      BY <2>5, <3>1, <3>2, <3>3 DEF NettingSuccess, NetType, shared
  <2>6. CASE NedRestart
    <3>1. NoStats \in Stats
      BY DEF NoStats, Stats
    <3> QED
      BY <2>6, <3>1 DEF NedRestart, NetType
  <2>7. CASE Tick
    BY <2>7 DEF Tick, NetType, shared
  <2> QED
    BY <1>2, <2>1, <2>2, <2>3, <2>4, <2>5, <2>6, <2>7 DEF Entity, NedNext
<1>3. Next => Entity \/ UNCHANGED ned
  BY DEF Next, MapReduce, ReplaceMeterReading, Crash, NettingSuccessHeard, PutSensorStats,
         Inserted, InsertionFailed, Counted, CountingFailed, ReceiveStatus, Fetch,
         CollectionFailed, BulkWrite
<1> QED
  BY <1>1, <1>2, <1>3 DEF vars

(* GET /network counts the nettings that were confirmed before the next    *)
(* one was made, and those alone.                                          *)
THEOREM NetworkAlways == Spec => []NetworkCounts
<1>1. NetInv => NetworkCounts
  BY DEF NetInv, NetworkCounts, GetNetwork
<1> QED
  BY <1>1, NetInit, NetNext, PTL DEF Spec

-----------------------------------------------------------------------------
(* The collected transfers                                                 *)

(* How much of each bound is used up; `transfers` numbers the settlements. *)
Bounds == [reports : Nat, nettings : Nat, events : Nat, restarts : Nat, transfers : Nat]

Entry == [transfer : Transfer, timestamp : Int, seen : Nat, asOf : Nat,
          left : SUBSET Transfer]
Call == [id : Nat, from : Int, seen : Nat, asOf : Nat,
         transfers : SUBSET Transfer, answered : BOOLEAN]

Mine(t) == Checksum[address] \in {t.from, t.to}

(* One of the first n entries is stamped no earlier than t was made.       *)
Passed(t, n) == \E j \in 1..n : utilityData[j].timestamp >= t.date

TransferType ==
  /\ households \in Seq(Address)
  /\ clock \in Nat \ {0} /\ skew \in Int /\ used \in Bounds /\ collected \in Nat
  /\ utilityData \in Seq(Entry)
  /\ collections \subseteq Call
  /\ transfers \subseteq Transfer

Dated(t) == t.date \in 1..clock /\ t.id < used.transfers

(* A call asks for what is later than the entries it has seen, and is      *)
(* answered all of it.                                                     *)
CallInv(c) ==
  /\ c.seen <= Len(utilityData) /\ c.asOf <= used.transfers
  /\ \A j \in 1..c.seen : utilityData[j].timestamp < c.from
  /\ c.from = 1 \/ \E j \in 1..c.seen : c.from = utilityData[j].timestamp + 1
  /\ IsFiniteSet(c.transfers)
  /\ \A t \in c.transfers : c.from <= t.date /\ t.date <= clock
  /\ c.answered =>
       \A t \in transfers : Mine(t) /\ t.id < c.asOf => t \in c.transfers \/ Passed(t, c.seen)

(* So whatever an answer missed had been passed before, or was left out of *)
(* the bulk write.                                                         *)
EntryInv(k) ==
  LET e == utilityData[k]
  IN  /\ e.seen < k /\ e.asOf <= used.transfers
      /\ skew >= 0 => e.transfer.date <= e.timestamp
      /\ \A t \in transfers :
           Mine(t) /\ t.id < e.asOf => Stored(t) \/ Passed(t, e.seen) \/ t \in e.left

TransferInv ==
  /\ TransferType
  /\ IsFiniteSet(transfers) /\ \A t \in transfers : Dated(t)
  /\ \A c \in collections : CallInv(c)
  /\ \A k \in 1..Len(utilityData) : EntryInv(k)
  /\ DuplicatesOverlap

(* A finite sequence of integers has a largest element, or is empty.       *)
LEMMA LargestOf ==
  ASSUME NEW n \in Nat, NEW f \in [1..n -> Int]
  PROVE  \E m \in {0} \cup {f[k] : k \in 1..n} :
           \A x \in {0} \cup {f[k] : k \in 1..n} : x <= m
<1> DEFINE S(i) == {0} \cup {f[k] : k \in 1..i}
           Bounded(i) == \E m \in S(i) : \A x \in S(i) : x <= m
           P == {i \in 0..n : Bounded(i)}
<1>1. Bounded(0)
  OBVIOUS
<1>2. ASSUME NEW k \in 1..n, Bounded(k - 1) PROVE Bounded(k)
  <2>1. PICK m \in S(k - 1) : \A x \in S(k - 1) : x <= m
    BY <1>2
  <2>2. S(k) = S(k - 1) \cup {f[k]}
    OBVIOUS
  <2>3. m \in Int /\ f[k] \in Int /\ S(k) \subseteq Int
    OBVIOUS
  <2> HIDE DEF S
  <2>4. CASE f[k] <= m
    BY <2>1, <2>2, <2>4
  <2>5. CASE m <= f[k]
    <3>1. \A x \in S(k - 1) : x <= f[k]
      BY <2>1, <2>2, <2>3, <2>5
    <3> QED
      BY <2>2, <2>3, <3>1
  <2> QED
    BY <2>3, <2>4, <2>5
<1> HIDE DEF Bounded
<1>3. 0 \in P /\ P \in SUBSET (0..n)
  BY <1>1
<1>4. \A k \in 1..n : k - 1 \in P => k \in P
  BY <1>2
<1>5. P = 0..n
  <2> HIDE DEF P
  <2> QED
    BY <1>3, <1>4, UpTo
<1>6. Bounded(n)
  BY <1>5
<1> QED
  BY <1>6 DEF Bounded

LEMMA Entries ==
  ASSUME utilityData \in Seq(Entry)
  PROVE  /\ Len(utilityData) \in Nat
         /\ \A k \in 1..Len(utilityData) :
              /\ utilityData[k] \in Entry
              /\ utilityData[k].transfer \in Transfer
              /\ utilityData[k].timestamp \in Int
              /\ utilityData[k].seen \in Nat /\ utilityData[k].asOf \in Nat
<1>1. \A k \in 1..Len(utilityData) : utilityData[k] \in Entry
  OBVIOUS
<1>2. \A e \in Entry : /\ e.transfer \in Transfer /\ e.timestamp \in Int
                      /\ e.seen \in Nat /\ e.asOf \in Nat
  BY DEF Entry
<1> QED
  BY <1>1, <1>2

(* The latest timestamp is one, or 0, and none is later.                   *)
LEMMA Latest ==
  ASSUME utilityData \in Seq(Entry)
  PROVE  /\ LatestTimestamp \in Int
         /\ \A k \in 1..Len(utilityData) : utilityData[k].timestamp <= LatestTimestamp
         /\ \/ LatestTimestamp = 0
            \/ \E k \in 1..Len(utilityData) : utilityData[k].timestamp = LatestTimestamp
<1> DEFINE n == Len(utilityData)
           f == [k \in 1..n |-> utilityData[k].timestamp]
           S == {0} \cup {f[k] : k \in 1..n}
<1>1. n \in Nat /\ \A k \in 1..n : utilityData[k].timestamp \in Int
  BY Entries
<1>2. f \in [1..n -> Int]
  BY <1>1
<1>3. S \subseteq Int
  BY <1>1
<1>4. S = {0} \cup {utilityData[k].timestamp : k \in 1..Len(utilityData)}
  OBVIOUS
<1>5. \E m \in S : \A x \in S : x <= m
  <2> HIDE DEF f
  <2> QED
    BY <1>1, <1>2, LargestOf
<1>6. LatestTimestamp = CHOOSE m \in S : \A x \in S : x <= m
  BY <1>4 DEF LatestTimestamp, Largest
<1>7. LatestTimestamp \in S /\ \A x \in S : x <= LatestTimestamp
  <2> HIDE DEF S
  <2> QED
    BY <1>5, <1>6
<1> QED
  BY <1>3, <1>4, <1>7

LEMMA TransferInit ==
  ASSUME Init PROVE TransferInv
<1>1. Nothing \in Bounds
  BY DEF Nothing, Bounds
<1>2. IsFiniteSet({})
  BY FS_EmptySet
<1> QED
  BY <1>1, <1>2, HouseholdAssumption
     DEF Init, InitWith, NedInit, TransferInv, TransferType, DuplicatesOverlap

(* Most steps store nothing.                                               *)
LEMMA Steady ==
  ASSUME TransferInv, TransferType', IsFiniteSet(transfers'),
         UNCHANGED <<utilityData, address, skew>>,
         clock <= clock', used.transfers <= used.transfers',
         \A t \in transfers' : Dated(t)' /\ (t \in transfers \/ used.transfers <= t.id),
         \A c \in collections' : c \in collections \/ CallInv(c)'
  PROVE  TransferInv'
<1> USE DEF TransferInv
<1>0. /\ clock \in Nat /\ clock' \in Nat
      /\ used.transfers \in Nat /\ used.transfers' \in Nat
  BY DEF TransferType, Bounds
<1>1. ASSUME NEW t \in transfers', NEW n \in Nat, n <= used.transfers, t.id < n
      PROVE  t \in transfers
  <2>1. t.id \in Nat
    BY DEF TransferType, Transfer
  <2> QED
    BY <1>0, <1>1, <2>1
<1>2. ASSUME NEW k \in 1..Len(utilityData) PROVE EntryInv(k)'
  <2>1. EntryInv(k) /\ utilityData[k].asOf \in Nat
    BY Entries DEF TransferType
  <2>2. utilityData[k].asOf <= used.transfers'
    BY <1>0, <2>1 DEF EntryInv
  <2>3. ASSUME NEW t \in transfers', Mine(t)', t.id < utilityData[k].asOf
        PROVE  Stored(t)' \/ Passed(t, utilityData[k].seen)' \/ t \in utilityData[k].left
    <3>1. t \in transfers
      BY <1>1, <2>1, <2>3 DEF EntryInv
    <3> QED
      BY <2>1, <2>3, <3>1 DEF EntryInv, Mine, Stored, Passed
  <2> QED
    BY <2>1, <2>2, <2>3 DEF EntryInv
<1>3. ASSUME NEW c \in collections PROVE CallInv(c)'
  <2>1. CallInv(c) /\ c.asOf \in Nat
    BY DEF TransferType, Call
  <2>2. c.asOf <= used.transfers'
    BY <1>0, <2>1 DEF CallInv
  <2>3. ASSUME NEW t \in c.transfers PROVE c.from <= t.date /\ t.date <= clock'
    <3>1. t.date \in Nat
      BY DEF TransferType, Call, Transfer
    <3> QED
      BY <1>0, <2>1, <3>1 DEF CallInv
  <2>4. ASSUME NEW t \in transfers', Mine(t)', t.id < c.asOf, c.answered
        PROVE  t \in c.transfers \/ Passed(t, c.seen)'
    <3>1. t \in transfers
      BY <1>1, <2>1, <2>4 DEF CallInv
    <3> QED
      BY <2>1, <2>4, <3>1 DEF CallInv, Mine, Passed
  <2> QED
    BY <2>1, <2>2, <2>3, <2>4 DEF CallInv
<1>4. DuplicatesOverlap'
  BY DEF DuplicatesOverlap
<1> QED
  BY <1>2, <1>3, <1>4

LEMMA CollectCall ==
  ASSUME TransferInv, Collect, UNCHANGED <<utilityData, clock, used, transfers, address>>
  PROVE  /\ collections' \subseteq Call /\ collected' \in Nat
         /\ \A c \in collections' : c \in collections \/ CallInv(c)'
<1>0. PICK new : new = Collection
  OBVIOUS
<1>1. /\ LatestTimestamp \in Int
      /\ \A k \in 1..Len(utilityData) : utilityData[k].timestamp <= LatestTimestamp
      /\ \/ LatestTimestamp = 0
         \/ \E k \in 1..Len(utilityData) : utilityData[k].timestamp = LatestTimestamp
  BY Latest DEF TransferInv, TransferType
<1>2. /\ new.from = LatestTimestamp + 1 /\ new.seen = Len(utilityData)
      /\ new.asOf = 0 /\ new.transfers = {} /\ new.answered = FALSE
  BY <1>0 DEF Collection, From
<1>3. /\ Len(utilityData) \in Nat /\ used.transfers \in Nat /\ collected \in Nat
      /\ \A k \in 1..Len(utilityData) : utilityData[k].timestamp \in Int
  BY Entries DEF TransferInv, TransferType, Bounds
<1>4. new \in Call
  BY <1>0, <1>1, <1>3 DEF Call, Collection, From
<1>5. CallInv(new)'
  <2>1. new.seen <= Len(utilityData)' /\ new.asOf <= used.transfers'
    BY <1>2, <1>3
  <2>2. \A j \in 1..new.seen : utilityData[j].timestamp' < new.from
    BY <1>1, <1>2, <1>3
  <2>3. new.from = 1 \/ \E j \in 1..new.seen : new.from = utilityData[j].timestamp' + 1
    BY <1>1, <1>2, <1>3
  <2>4. IsFiniteSet(new.transfers)
    BY <1>2, FS_EmptySet
  <2> QED
    BY <1>2, <2>1, <2>2, <2>3, <2>4 DEF CallInv
<1>6. collections' = collections \cup {new} /\ collected' = collected + 1
  BY <1>0 DEF Collect
<1> QED
  BY <1>3, <1>4, <1>5, <1>6 DEF TransferInv, TransferType

LEMMA SpendBound ==
  ASSUME NEW u \in Bounds,
         NEW what \in {"reports", "nettings", "events", "restarts", "transfers"}
  PROVE  /\ u.transfers \in Nat
         /\ [u EXCEPT ![what] = @ + 1] \in Bounds
         /\ what # "transfers" => [u EXCEPT ![what] = @ + 1].transfers = u.transfers
<1>1. /\ u.reports \in Nat /\ u.nettings \in Nat /\ u.events \in Nat
      /\ u.restarts \in Nat /\ u.transfers \in Nat
  BY DEF Bounds
<1>2. u[what] + 1 \in Nat
  BY <1>1
<1> QED
  BY <1>1, <1>2 DEF Bounds

LEMMA SpendOne ==
  ASSUME used \in Bounds, NEW what \in {"reports", "events", "restarts"}, NEW bound,
         Spend(what, bound)
  PROVE  used' \in Bounds /\ used'.transfers = used.transfers
<1>1. what \in {"reports", "nettings", "events", "restarts", "transfers"}
      /\ what # "transfers"
  OBVIOUS
<1>2. used' = [used EXCEPT ![what] = @ + 1]
  BY DEF Spend
<1> QED
  BY <1>1, <1>2, SpendBound

(* The pairs of the new transfers come from finitely many keys.            *)
LEMMA FiniteKeys ==
  ASSUME NEW order \in Seq(Address) PROVE IsFiniteSet(Keys(order))
<1> DEFINE n == Len(order)
           f == [k \in 1..n |-> order[k]]
<1>1. n \in Nat /\ IsFiniteSet(1..n)
  BY FS_Interval
<1>2. f \in Surjection(1..n, Keys(order))
  BY DEF Surjection, Keys
<1> QED
  BY <1>1, <1>2, FS_Surjection

LEMMA RunZokratesKeeps ==
  ASSUME TransferInv, runZokrates, UNCHANGED own
  PROVE  TransferInv'
<1> DEFINE sides == {a \in Keys(households) : meterDelta[a] > 0}
                      \X {a \in Keys(households) : meterDelta[a] < 0}
           Made(p) == [id |-> used.transfers, from |-> p[1], to |-> p[2], date |-> clock]
<1>1. PICK pairs \in SUBSET sides : transfers' = transfers \cup {Made(p) : p \in pairs}
  BY DEF runZokrates
<1>2. /\ households \in Seq(Address) /\ clock \in Nat \ {0}
      /\ used \in Bounds /\ used.transfers \in Nat
      /\ transfers \subseteq Transfer /\ IsFiniteSet(transfers)
  BY DEF TransferInv, TransferType, Bounds
<1>3. Keys(households) \subseteq Address /\ IsFiniteSet(Keys(households))
  BY <1>2, FiniteKeys DEF Keys
<1>4. IsFiniteSet(pairs)
  <2>1. IsFiniteSet(Keys(households) \X Keys(households))
    BY <1>3, FS_Product
  <2>2. pairs \in SUBSET (Keys(households) \X Keys(households))
    OBVIOUS
  <2> QED
    BY <2>1, <2>2, FS_Subset
<1>5. IsFiniteSet({Made(p) : p \in pairs})
  <2> DEFINE f == [p \in pairs |-> Made(p)]
  <2>1. f \in Surjection(pairs, {Made(p) : p \in pairs})
    <3> HIDE DEF Made
    <3> QED
      BY DEF Surjection
  <2> QED
    BY <1>4, <2>1, FS_Surjection
<1>6. IsFiniteSet(transfers')
  <2> HIDE DEF Made
  <2> QED
    BY <1>1, <1>2, <1>5, FS_Union
<1>7. \A p \in pairs : Made(p) \in Transfer
  BY <1>2, <1>3 DEF Transfer
<1>8. /\ used'.transfers = used.transfers + 1 /\ used' \in Bounds
      /\ UNCHANGED <<clock, households>>
  <2> DEFINE u == [used EXCEPT !.nettings = @ + 1]
  <2>1. used' = [u EXCEPT !.transfers = @ + 1]
    BY DEF runZokrates
  <2>3. u \in Bounds /\ u.transfers = used.transfers
    BY <1>2, SpendBound
  <2>4. used' \in Bounds /\ used'.transfers = used.transfers + 1
    <3> HIDE DEF u
    <3>1. [u EXCEPT !.transfers = @ + 1] \in Bounds
      BY <2>3, SpendBound
    <3>2. [u EXCEPT !.transfers = @ + 1].transfers = u.transfers + 1
      BY <2>3 DEF Bounds
    <3> QED
      BY <2>1, <2>3, <3>1, <3>2
  <2>2. UNCHANGED <<clock, households>>
    BY DEF runZokrates
  <2> QED
    BY <2>2, <2>4
<1>9. TransferType'
  BY <1>1, <1>7, <1>8 DEF own, store, TransferInv, TransferType
<1>10. ASSUME NEW t \in transfers'
       PROVE  Dated(t)' /\ (t \in transfers \/ used.transfers <= t.id)
  <2>1. CASE t \in transfers
    <3>1. Dated(t) /\ t.id \in Nat
      BY <1>2, <2>1 DEF TransferInv, Transfer
    <3> QED
      BY <1>2, <1>8, <2>1, <3>1 DEF Dated
  <2>2. CASE t \in {Made(p) : p \in pairs}
    <3>1. t.id = used.transfers /\ t.date = clock
      BY <2>2
    <3> QED
      BY <1>2, <1>8, <3>1 DEF Dated
  <2> QED
    BY <1>1, <2>1, <2>2
<1> QED
  BY <1>2, <1>6, <1>8, <1>9, <1>10, Steady DEF own, store

LEMMA BulkWriteKeeps ==
  ASSUME TransferInv, NEW c \in collections, BulkWrite(c)
  PROVE  TransferInv'
<1> DEFINE full == Cardinality(c.transfers)
           len == Len(utilityData)
<1> USE DEF TransferInv
<1>1. /\ UNCHANGED <<households, clock, skew, used, collected, transfers, address>>
      /\ collections' = collections \ {c} /\ c.answered
  BY DEF BulkWrite, ned, shared
<1>2. CallInv(c) /\ c \in Call /\ IsFiniteSet(c.transfers)
  BY DEF TransferType, CallInv
<1>3a. full \in Nat
  BY <1>2, FS_CardinalityType
<1>4a. PICK list \in [1..full -> c.transfers], n \in 0..full :
         /\ c.transfers = {list[k] : k \in DOMAIN list}
         /\ \A k, l \in DOMAIN list : k < l => list[k] # list[l] /\ list[k].id <= list[l].id
         /\ utilityData' = utilityData \o
              [k \in 1..n |->
                 [transfer |-> list[k], timestamp |-> Timestamp, seen |-> c.seen,
                  asOf |-> c.asOf, left |-> {list[l] : l \in DOMAIN list \ 1..n}]]
  BY DEF BulkWrite
<1>4b. PICK left : left = {list[l] : l \in DOMAIN list \ 1..n}
  OBVIOUS
<1>4c. PICK new : new = [k \in 1..n |->
                          [transfer |-> list[k], timestamp |-> Timestamp, seen |-> c.seen,
                           asOf |-> c.asOf, left |-> left]]
  OBVIOUS
<1>3. n \in Nat /\ 1..n \subseteq 1..full
  BY <1>3a
<1>4. /\ \A k, l \in 1..n : k < l => list[k] # list[l]
      /\ \A k \in 1..n : list[k] \in c.transfers
      /\ \A t \in c.transfers : t \in left \/ \E k \in 1..n : t = list[k]
      /\ left \subseteq c.transfers
  <2>1. DOMAIN list = 1..full
    OBVIOUS
  <2> QED
    BY <1>3, <1>4a, <1>4b, <2>1
<1>4d. utilityData' = utilityData \o new
  BY <1>4a, <1>4b, <1>4c
<1>5. /\ len \in Nat /\ clock \in Nat /\ skew \in Int /\ used.transfers \in Nat
      /\ Timestamp = clock + skew
  BY Entries DEF TransferType, Bounds, Timestamp, Now
<1>6. /\ c.seen \in Nat /\ c.asOf \in Nat /\ c.from \in Int /\ c.transfers \subseteq Transfer
  BY <1>2 DEF Call
<1>7. \A i \in 1..n :
        /\ new[i].transfer = list[i] /\ new[i].timestamp = clock + skew
        /\ new[i].seen = c.seen /\ new[i].asOf = c.asOf /\ new[i].left = left
  BY <1>4c, <1>5
<1>8. new \in Seq(Entry) /\ Len(new) = n
  <2>1. \A i \in 1..n : [transfer |-> list[i], timestamp |-> Timestamp, seen |-> c.seen,
                         asOf |-> c.asOf, left |-> left] \in Entry
    BY <1>4, <1>5, <1>6 DEF Entry
  <2> QED
    BY <1>3, <1>4c, <2>1
<1>9. /\ utilityData' \in Seq(Entry) /\ Len(utilityData') = len + n
      /\ \A k \in 1..len : utilityData'[k] = utilityData[k]
      /\ \A i \in 1..n : utilityData'[len + i] = new[i]
  BY <1>3, <1>4d, <1>5, <1>8 DEF TransferType
<1>9a. \A i \in 1..n :
         /\ utilityData'[len + i].transfer = list[i]
         /\ utilityData'[len + i].timestamp = clock + skew
         /\ utilityData'[len + i].seen = c.seen /\ utilityData'[len + i].asOf = c.asOf
         /\ utilityData'[len + i].left = left
  BY <1>7, <1>9
<1>10. TransferType'
  BY <1>1, <1>9 DEF TransferType
<1>11. \A k \in 1..(len + n) : k \in 1..len \/ \E i \in 1..n : k = len + i
  <2>1. len \in Nat /\ n \in Nat
    BY <1>3, <1>5
  <2> HIDE DEF len, full
  <2>2. ASSUME NEW k \in 1..(len + n) PROVE k \in 1..len \/ k - len \in 1..n
    BY ONLY <2>1, <2>2
  <2>3. \A k \in 1..(len + n) : k = len + (k - len)
    BY ONLY <2>1
  <2> QED
    BY ONLY <2>1, <2>2, <2>3
<1>12. /\ \A t : Stored(t) => Stored(t)'
       /\ \A t \in c.transfers : t \in left \/ Stored(t)'
  <2>1. ASSUME NEW t \in c.transfers, t \notin left PROVE Stored(t)'
    <3>1. PICK i \in 1..n : t = list[i]
      BY <1>4, <2>1
    <3>2. len + i \in 1..Len(utilityData')
      BY <1>3, <1>5, <1>9
    <3>3. utilityData'[len + i].transfer = t
      BY <1>9a, <3>1
    <3> QED
      BY <3>2, <3>3 DEF Stored
  <2>2. ASSUME NEW t, Stored(t) PROVE Stored(t)'
    <3>1. PICK k \in 1..len : utilityData[k].transfer = t
      BY <2>2 DEF Stored
    <3>2. k \in 1..Len(utilityData') /\ utilityData'[k].transfer = t
      BY <1>3, <1>5, <1>9, <3>1
    <3> QED
      BY <3>2 DEF Stored
  <2> QED
    BY <2>1, <2>2
<1>13. \A t, m : m \in Nat /\ m <= len /\ Passed(t, m) => Passed(t, m)'
  <2>1. ASSUME NEW t, NEW m \in Nat, m <= len, NEW j \in 1..m,
               utilityData[j].timestamp >= t.date
        PROVE  Passed(t, m)'
    <3>1. j \in 1..len
      BY <1>5, <2>1
    <3>2. utilityData'[j].timestamp >= t.date
      BY <1>9, <2>1, <3>1
    <3> QED
      BY <3>2 DEF Passed
  <2> QED
    BY <2>1 DEF Passed
<1>14. ASSUME NEW d \in collections' PROVE CallInv(d)'
  <2>1. CallInv(d) /\ d \in Call /\ d.seen \in Nat /\ d.seen <= len
    BY <1>1 DEF TransferType, Call, CallInv
  <2>2. \A j \in 1..d.seen : utilityData'[j] = utilityData[j]
    BY <1>5, <1>9, <2>1
  <2>3. d.seen <= Len(utilityData') /\ d.asOf <= used.transfers'
    BY <1>1, <1>3, <1>5, <1>9, <2>1 DEF CallInv
  <2>4. d.answered => \A t \in transfers' :
          Mine(t)' /\ t.id < d.asOf => t \in d.transfers \/ Passed(t, d.seen)'
    BY <1>1, <1>13, <2>1 DEF CallInv, Mine
  <2> QED
    BY <1>1, <2>1, <2>2, <2>3, <2>4 DEF CallInv
<1>15. ASSUME NEW k \in 1..len PROVE EntryInv(k)'
  <2>1. EntryInv(k) /\ utilityData'[k] = utilityData[k] /\ utilityData[k].seen \in Nat
    BY <1>9, Entries DEF TransferType
  <2>2. utilityData[k].seen <= len
    BY <1>5, <2>1 DEF EntryInv
  <2> QED
    BY <1>1, <1>12, <1>13, <2>1, <2>2 DEF EntryInv, Mine
<1>16. ASSUME NEW k, NEW i \in 1..n, k = len + i PROVE EntryInv(k)'
  <2>0. PICK e : e = utilityData'[k]
    OBVIOUS
  <2>1. /\ e.transfer = list[i] /\ e.timestamp = clock + skew
        /\ e.seen = c.seen /\ e.asOf = c.asOf /\ e.left = left
    BY <1>16, <1>9a, <2>0
  <2>2. list[i] \in c.transfers /\ list[i].date \in Nat
    BY <1>4, <1>6 DEF Transfer
  <2>3. e.seen < k /\ e.asOf <= used.transfers'
    BY <1>1, <1>2, <1>3, <1>5, <1>6, <1>16, <2>1 DEF CallInv
  <2>4. skew' >= 0 => e.transfer.date <= e.timestamp
    <3>1. list[i].date <= clock
      BY <1>2, <2>2 DEF CallInv
    <3> QED
      BY <1>1, <1>5, <2>1, <2>2, <3>1
  <2>5. \A t \in transfers' :
          Mine(t)' /\ t.id < e.asOf => Stored(t)' \/ Passed(t, e.seen)' \/ t \in e.left
    <3>1. ASSUME NEW t \in transfers, Mine(t), t.id < c.asOf
          PROVE  Stored(t)' \/ Passed(t, c.seen)' \/ t \in left
      <4>1. t \in c.transfers \/ Passed(t, c.seen)
        BY <1>1, <1>2, <3>1 DEF CallInv
      <4>2. c.seen <= len
        BY <1>2 DEF CallInv
      <4> QED
        BY <1>6, <1>12, <1>13, <4>1, <4>2
    <3>2. \A t : Mine(t)' <=> Mine(t)
      BY <1>1 DEF Mine
    <3> QED
      BY <1>1, <2>1, <3>1, <3>2
  <2> QED
    BY <2>0, <2>3, <2>4, <2>5 DEF EntryInv
<1>17. \A k \in 1..Len(utilityData') : EntryInv(k)'
  <2>1. \A k \in 1..(len + n) : EntryInv(k)'
    BY <1>11, <1>15, <1>16
  <2> QED
    BY <1>9, <2>1
<1>18. DuplicatesOverlap'
  <2> SUFFICES ASSUME skew >= 0, NEW k \in 1..(len + n), NEW l \in 1..(len + n), k < l,
                      utilityData'[k].transfer = utilityData'[l].transfer
               PROVE  utilityData'[l].seen < k
    BY <1>1, <1>9 DEF DuplicatesOverlap
  <2>1. CASE l \in 1..len
    <3>1. k \in 1..len
      BY <1>5, <2>1
    <3> QED
      BY <1>9, <2>1, <3>1 DEF DuplicatesOverlap
  <2>2. CASE \E i \in 1..n : l = len + i
    <3>1. PICK i \in 1..n : l = len + i
      BY <2>2
    <3>2. utilityData'[l].transfer = list[i] /\ utilityData'[l].seen = c.seen
      BY <1>9a, <3>1
    <3>3. CASE k \in 1..len
      <4>1. /\ utilityData'[k] = utilityData[k] /\ utilityData[k].timestamp \in Int
            /\ utilityData[k].transfer.date <= utilityData[k].timestamp
        BY <1>9, <3>3, Entries DEF TransferType, EntryInv
      <4>2. list[i] \in c.transfers /\ list[i].date \in Nat /\ c.from <= list[i].date
        BY <1>2, <1>4, <1>6 DEF CallInv, Transfer
      <4>3. c.from <= utilityData[k].timestamp
        BY <1>6, <3>2, <4>1, <4>2
      <4>4. k \notin 1..c.seen
        BY <1>2, <1>6, <4>1, <4>3 DEF CallInv
      <4> QED
        BY <1>6, <3>2, <4>4
    <3>4. CASE \E h \in 1..n : k = len + h
      <4>1. PICK h \in 1..n : k = len + h
        BY <3>4
      <4>2. utilityData'[k].transfer = list[h] /\ h < i
        BY <1>5, <1>9a, <3>1, <4>1
      <4> QED
        BY <1>4, <3>2, <4>2
    <3> QED
      BY <1>11, <3>3, <3>4
  <2> QED
    BY <1>11, <2>1, <2>2
<1>19. IsFiniteSet(transfers') /\ \A t \in transfers' : Dated(t)'
  BY <1>1 DEF Dated
<1> QED
  BY <1>10, <1>14, <1>17, <1>18, <1>19

(* An answer holds everything that is later than what its call has seen.   *)
LEMMA FetchKeeps ==
  ASSUME TransferInv, NEW c \in collections, Fetch(c)
  PROVE  TransferInv'
<1> USE DEF TransferInv
<1>1. /\ UNCHANGED <<households, clock, skew, used, collected, transfers, address, utilityData>>
  BY DEF Fetch, ned, shared, store
<1>2. PICK d : d = [c EXCEPT !.answered = TRUE, !.asOf = used.transfers,
                             !.transfers = GetTransfers(address, c.from)]
  OBVIOUS
<1>3. collections' = (collections \ {c}) \cup {d}
  BY <1>2 DEF Fetch
<1>4. CallInv(c) /\ c \in Call /\ used.transfers \in Nat /\ transfers \subseteq Transfer
  BY DEF TransferType, Bounds
<1>5. d.transfers = {t \in transfers : Mine(t) /\ t.date >= c.from}
  BY <1>2, <1>4 DEF GetTransfers, getTransfers, Mine, Call
<1>6. /\ d \in Call
      /\ d.seen = c.seen /\ d.from = c.from /\ d.asOf = used.transfers
  BY <1>2, <1>4, <1>5 DEF Call
<1>7. \A t \in transfers : t.date \in Nat \ {0} /\ t.date <= clock
  BY <1>4 DEF Dated, TransferType, Transfer
<1>8. CallInv(d)'
  <2>1. c.from \in Int /\ c.seen \in Nat /\ c.seen <= Len(utilityData)
        /\ \A j \in 1..c.seen : utilityData[j].timestamp \in Int
    BY <1>4, Entries DEF Call, CallInv, TransferType
  <2>2. ASSUME NEW t \in transfers, Mine(t), t \notin d.transfers PROVE Passed(t, c.seen)
    <3>1. t.date < c.from
      BY <1>5, <1>7, <2>1, <2>2
    <3>2. PICK j \in 1..c.seen : c.from = utilityData[j].timestamp + 1
      BY <1>4, <1>7, <2>1, <3>1 DEF CallInv
    <3>3. utilityData[j].timestamp >= t.date
      BY <1>7, <2>1, <3>1, <3>2
    <3> QED
      BY <3>3 DEF Passed
  <2>3. IsFiniteSet(d.transfers)
    BY <1>5, FS_Subset
  <2>4. \A t \in d.transfers : d.from <= t.date /\ t.date <= clock'
    BY <1>1, <1>5, <1>6, <1>7, <2>1
  <2>5. /\ d.seen <= Len(utilityData)' /\ d.asOf <= used.transfers'
        /\ \A j \in 1..d.seen : utilityData'[j].timestamp < d.from
        /\ d.from = 1 \/ \E j \in 1..d.seen : d.from = utilityData'[j].timestamp + 1
    BY <1>1, <1>4, <1>6 DEF CallInv
  <2>6. \A t \in transfers' : Mine(t)' => t \in d.transfers \/ Passed(t, d.seen)'
    BY <1>1, <1>6, <2>2 DEF Mine, Passed
  <2> QED
    BY <2>3, <2>4, <2>5, <2>6 DEF CallInv
<1>9. TransferType'
  BY <1>1, <1>3, <1>6 DEF TransferType
<1>10. clock <= clock' /\ used.transfers <= used.transfers'
  BY <1>1, <1>4 DEF TransferType
<1>11. \A t \in transfers' : Dated(t)' /\ t \in transfers
  BY <1>1 DEF Dated
<1> QED
  BY <1>1, <1>3, <1>8, <1>9, <1>10, <1>11, Steady

(* Nothing of this changes, but the calls may fail or a new one be made.   *)
LEMMA CallsOnly ==
  ASSUME TransferInv,
         UNCHANGED <<households, clock, skew, used, transfers, address, utilityData>>,
         \/ collections' \subseteq collections /\ collected' = collected
         \/ Collect
  PROVE  TransferInv'
<1>1. /\ collections' \subseteq Call /\ collected' \in Nat
      /\ \A c \in collections' : c \in collections \/ CallInv(c)'
  BY CollectCall DEF TransferInv, TransferType
<1>2. TransferType'
  BY <1>1 DEF TransferInv, TransferType
<1>3. clock <= clock' /\ used.transfers <= used.transfers'
  BY DEF TransferInv, TransferType, Bounds
<1>4. IsFiniteSet(transfers') /\ \A t \in transfers' : Dated(t)' /\ t \in transfers
  BY DEF TransferInv, Dated
<1> QED
  BY <1>1, <1>2, <1>3, <1>4, Steady

(* The entity's steps other than a netting make no transfer.               *)
LEMMA EntityOnly ==
  ASSUME TransferInv, UNCHANGED own, used' \in Bounds, used'.transfers = used.transfers,
         households' \in Seq(Address), clock' \in Nat, clock <= clock',
         transfers' \subseteq transfers
  PROVE  TransferInv'
<1>1. clock \in Nat \ {0} /\ used.transfers \in Nat
  BY SpendBound DEF TransferInv, TransferType
<1>2. TransferType'
  BY <1>1 DEF TransferInv, TransferType, own, store
<1>3. IsFiniteSet(transfers')
  BY FS_Subset DEF TransferInv
<1>4. ASSUME NEW t \in transfers' PROVE Dated(t)' /\ t \in transfers
  <2>1. t \in transfers /\ Dated(t)
    BY DEF TransferInv
  <2> QED
    BY <1>1, <2>1 DEF Dated
<1>5. used.transfers <= used.transfers'
  BY <1>1
<1>6. \A c \in collections' : c \in collections
  BY DEF own
<1> QED
  BY <1>2, <1>3, <1>4, <1>5, <1>6, Steady DEF own, store

LEMMA TransferNext ==
  ASSUME TransferInv, [Next]_vars PROVE TransferInv'
<1>0. /\ used \in Bounds /\ households \in Seq(Address) /\ clock \in Nat
  BY DEF TransferInv, TransferType
<1>1. CASE UNCHANGED vars
  BY <1>1, CallsOnly DEF vars, own, store, ned, shared
<1>2. CASE Entity
  <2>1. ASSUME NEW r \in Reports, PutLndEnergy(r[1]) PROVE TransferInv'
    <3>1. r[1] \in Address
      BY <2>1, NedAssumption
    <3>2. households' \in Seq(Address)
      BY <1>0, <2>1, <3>1 DEF PutLndEnergy, With
    <3> QED
      BY <1>0, <1>2, <2>1, <3>2, EntityOnly DEF PutLndEnergy, Entity
  <2>2. ASSUME NEW r \in Reports, ChannelListed(r[1], r[2]) PROVE TransferInv'
    BY <1>0, <1>2, <2>2, SpendOne, EntityOnly DEF ChannelListed, Entity
  <2>3. ASSUME NEW r \in Reports, NEW signer \in Address, PutEnergy(r[1], r[2], signer)
        PROVE  TransferInv'
    <3>1. Checksum[r[1]] \in Address
      BY <2>3, NedAssumption
    <3>2. households' \in Seq(Address)
      BY <1>0, <2>3, <3>1 DEF PutEnergy, With
    <3> QED
      BY <1>0, <1>2, <2>3, <3>2, SpendOne, EntityOnly DEF PutEnergy, Entity
  <2>4. CASE runZokrates
    BY <1>2, <2>4, RunZokratesKeeps DEF Entity
  <2>5. CASE NettingSuccess
    BY <1>0, <1>2, <2>5, SpendOne, EntityOnly DEF NettingSuccess, Entity, shared
  <2>6. CASE NedRestart
    BY <1>0, <1>2, <2>6, SpendOne, EntityOnly DEF NedRestart, Entity
  <2>7. CASE Tick
    BY <1>0, <1>2, <2>7, EntityOnly DEF Tick, Entity, shared
  <2> QED
    BY <1>2, <2>1, <2>2, <2>3, <2>4, <2>5, <2>6, <2>7 DEF Entity, NedNext
<1>3. CASE \/ MapReduce \/ ReplaceMeterReading \/ Crash
           \/ \E r \in Reading : \/ PutSensorStats(r) \/ Inserted(r)
                                 \/ InsertionFailed(r)
                                 \/ Counted(r) \/ CountingFailed(r)
           \/ \E c \in collections : CollectionFailed(c)
  BY <1>3, CallsOnly DEF MapReduce, ReplaceMeterReading, Crash, PutSensorStats, Inserted,
       InsertionFailed, Counted, CountingFailed, CollectionFailed, ned, shared, store
<1>4. CASE NettingSuccessHeard \/ \E m \in answers : ReceiveStatus(m)
  BY <1>4, CallsOnly DEF NettingSuccessHeard, ReceiveStatus, ned, shared, store
<1>5. ASSUME NEW c \in collections, Fetch(c) PROVE TransferInv'
  BY <1>5, FetchKeeps
<1>6. ASSUME NEW c \in collections, BulkWrite(c) PROVE TransferInv'
  BY <1>6, BulkWriteKeeps
<1> QED
  BY <1>1, <1>2, <1>3, <1>4, <1>5, <1>6 DEF Next

(* A transfer is stored twice only by collections that overlapped, unless  *)
(* the household's clock is behind.                                        *)
THEOREM DuplicatesAlways == Spec => []DuplicatesOverlap
<1>1. TransferInv => DuplicatesOverlap
  BY DEF TransferInv
<1> QED
  BY <1>1, TransferInit, TransferNext, PTL DEF Spec

(* Take the first entry that is stamped no earlier than the transfer was   *)
(* made: what the answer that brought it missed had been passed before it. *)
(* So the transfer is later than that answer, or in its list and left out. *)
LEMMA FirstPassing ==
  ASSUME TransferInv, NEW t \in transfers, Mine(t), ~Stored(t), t.date <= LatestTimestamp
  PROVE  \E k \in 1..Len(utilityData) :
           /\ utilityData[k].timestamp >= t.date
           /\ utilityData[k].asOf <= t.id \/ t \in utilityData[k].left
<1> DEFINE K == {k \in 1..Len(utilityData) : utilityData[k].timestamp >= t.date}
<1>1. t.date \in Nat \ {0} /\ t.id \in Nat
  BY DEF TransferInv, TransferType, Transfer, Dated
<1>2. /\ Len(utilityData) \in Nat
      /\ \A k \in 1..Len(utilityData) :
           /\ utilityData[k].timestamp \in Int
           /\ utilityData[k].seen \in Nat /\ utilityData[k].asOf \in Nat
  BY Entries DEF TransferInv, TransferType
<1>3. K # {}
  BY <1>1, <1>2, Latest DEF TransferInv, TransferType
<1>4. K \in SUBSET Nat
  BY <1>2
<1>5. PICK k \in K : \A j \in K : k <= j
  <2> HIDE DEF K
  <2> QED
    BY <1>3, <1>4, LeastElement
<1>6. EntryInv(k) /\ k \in 1..Len(utilityData)
  BY DEF TransferInv
<1>7. ~Passed(t, utilityData[k].seen)
  <2> SUFFICES ASSUME NEW j \in 1..utilityData[k].seen, utilityData[j].timestamp >= t.date
               PROVE  FALSE
    BY DEF Passed
  <2>1. j < k /\ j \in 1..Len(utilityData)
    BY <1>2, <1>6 DEF EntryInv
  <2>2. j \in K
    BY <2>1
  <2> QED
    BY <1>5, <1>6, <2>1, <2>2
<1>8. ~(t.id < utilityData[k].asOf) \/ t \in utilityData[k].left
  BY <1>6, <1>7 DEF EntryInv
<1>9. utilityData[k].asOf <= t.id \/ t \in utilityData[k].left
  BY <1>1, <1>2, <1>6, <1>8
<1> QED
  BY <1>6, <1>9

(* A transfer that the household will not ask for any more was made after  *)
(* the answer that it missed, or is the rest of a bulk write that failed   *)
(* halfway: lost answers, and writes lost as a whole, lose nothing.        *)
THEOREM MissedAlways == Spec => []MissedSinceAnswer
<1>1. TransferInv => MissedSinceAnswer
  BY FirstPassing DEF MissedSinceAnswer, Mine
<1> QED
  BY <1>1, TransferInit, TransferNext, PTL DEF Spec

-----------------------------------------------------------------------------
(* The readings of the sensor                                              *)

(* The elements of a finite set can be listed, each of them once.          *)
LEMMA SetOrder ==
  ASSUME NEW S, IsFiniteSet(S)
  PROVE  /\ SetToSeq(S) \in Seq(S) /\ Once(SetToSeq(S))
         /\ Keys(SetToSeq(S)) = S
<1> DEFINE n == Cardinality(S)
<1>1. PICK f : f = SetToSeq(S)
  OBVIOUS
<1>2. n \in Nat /\ ExistsBijection(1..n, S)
  BY FS_CardinalityType
<1>3. \E g \in [1..n -> S] : IsInjective(g)
  BY <1>2 DEF ExistsBijection, Bijection, Injection
<1>4. f \in [1..n -> S] /\ IsInjective(f)
  BY <1>1, <1>3 DEF SetToSeq
<1>5. f \in Surjection(1..n, S)
  <2>1. f \in Injection(1..n, S)
    BY <1>4 DEF Injection
  <2>2. Cardinality(1..n) = n
    BY <1>2, FS_Interval
  <2> QED
    BY <2>1, <2>2, FS_Injection
<1>6. f \in Seq(S) /\ Len(f) = n
  BY <1>2, <1>4
<1>7. Once(f)
  BY <1>4, <1>6 DEF Once, IsInjective
<1>8. Keys(f) = S
  BY <1>4, <1>5, <1>6 DEF Keys, Surjection
<1> QED
  BY <1>1, <1>6, <1>7, <1>8

(* What SumOf adds up.                                                     *)
Part(S) == [r \in Reading |-> IF r \in S THEN Value[r] ELSE 0]

LEMMA PartOf ==
  ASSUME NEW S
  PROVE  /\ Part(S) \in [Reading -> Int]
         /\ SumOf(S) = SumOver(SetToSeq(Reading), Part(S)) /\ SumOf(S) \in Int
<1>1. Part(S) \in [Reading -> Int]
  BY HouseholdAssumption DEF Part
<1>2. SumOf(S) = SumOver(SetToSeq(Reading), Part(S))
  BY DEF SumOf, Part
<1> QED
  BY <1>1, <1>2, SetOrder, SumInt, HouseholdAssumption

LEMMA SumOfNone == SumOf({}) = 0
<1> DEFINE p == Part({})
<1>1. p \in [Reading -> Int] /\ SumOf({}) = SumOver(SetToSeq(Reading), p)
      /\ SumOf({}) \in Int
  BY PartOf
<1>2. \A r \in Reading : p[r] = p[r] + p[r]
  BY DEF Part
<1>3. Adds(Reading, SetToSeq(Reading), p, p, p)
  <2> HIDE DEF p
  <2> QED
    BY <1>1, <1>2, SetOrder, HouseholdAssumption DEF Adds
<1>4. SumOf({}) = SumOf({}) + SumOf({})
  <2> HIDE DEF p
  <2> QED
    BY <1>1, <1>3, SumAdd
<1>5. PICK s \in Int : s = SumOf({})
  BY <1>1
<1>6. s = s + s
  BY <1>4, <1>5, Zenon
<1>7. s = 0
  BY <1>6
<1> QED
  BY <1>5, <1>7

LEMMA SumOfOneMore ==
  ASSUME NEW S, NEW r \in Reading, r \notin S
  PROVE  SumOf(S \cup {r}) = SumOf(S) + Value[r]
<1>0. PICK v, w, order : v = Part(S) /\ w = Part(S \cup {r}) /\ order = SetToSeq(Reading)
  OBVIOUS
<1>1. /\ v \in [Reading -> Int] /\ w \in [Reading -> Int]
      /\ SumOf(S) = SumOver(order, v) /\ SumOf(S \cup {r}) = SumOver(order, w)
  BY <1>0, PartOf
<1>2. PICK x \in Int : x = Value[r]
  BY HouseholdAssumption
<1>3. Raised(Reading, v, w, r, x)
  BY <1>0, <1>2, HouseholdAssumption DEF Raised, Part
<1>4. order \in Seq(Reading) /\ Once(order) /\ r \in Keys(order)
  BY <1>0, SetOrder, HouseholdAssumption
<1>5. SumOver(order, w) = SumOver(order, v) + x
  BY <1>1, <1>2, <1>3, <1>4, SumChange
<1> QED
  BY <1>1, <1>2, <1>5

(* Two sums together: every reading as often as it is in the two sets.     *)
LEMMA SumOfTwo ==
  ASSUME NEW S, NEW T, NEW times \in [Reading -> 0..2],
         \A r \in Reading : times[r] = (IF r \in S THEN 1 ELSE 0)
                                         + (IF r \in T THEN 1 ELSE 0)
  PROVE  SumOf(S) + SumOf(T)
           = SumOver(SetToSeq(Reading), [r \in Reading |-> times[r] * Value[r]])
<1> DEFINE w == [r \in Reading |-> times[r] * Value[r]]
<1>1. /\ Part(S) \in [Reading -> Int] /\ Part(T) \in [Reading -> Int]
      /\ SumOf(S) = SumOver(SetToSeq(Reading), Part(S))
      /\ SumOf(T) = SumOver(SetToSeq(Reading), Part(T))
  BY PartOf
<1>2. ASSUME NEW r \in Reading
      PROVE  w[r] \in Int /\ w[r] = Part(S)[r] + Part(T)[r]
  <2>1. PICK x \in Int : x = Value[r]
    BY HouseholdAssumption
  <2>2. /\ w[r] = times[r] * x
        /\ Part(S)[r] = (IF r \in S THEN x ELSE 0)
        /\ Part(T)[r] = (IF r \in T THEN x ELSE 0)
    BY <2>1 DEF Part
  <2>3. 0 * x = 0 /\ 1 * x = x /\ 2 * x = x + x
    BY <2>1
  <2> QED
    BY <2>1, <2>2, <2>3
<1>3. w \in [Reading -> Int]
  <2>1. w = [r \in Reading |-> w[r]]
    OBVIOUS
  <2> HIDE DEF w
  <2> QED
    BY <1>2, <2>1
<1>4. Adds(Reading, SetToSeq(Reading), Part(S), Part(T), w)
  <2> HIDE DEF w
  <2> QED
    BY <1>1, <1>2, <1>3, SetOrder, HouseholdAssumption DEF Adds
<1>5. SumOver(SetToSeq(Reading), w)
        = SumOver(SetToSeq(Reading), Part(S)) + SumOver(SetToSeq(Reading), Part(T))
  <2> HIDE DEF w
  <2> QED
    BY <1>4, SumAdd
<1> QED
  BY <1>1, <1>5

ReadingType ==
  /\ sensorData \cup InFlight \cup unread \cup overlapped \subseteq Reading
  /\ meterReading \in [one : Document, null : Document]
  /\ initialising \in {"createDB", "mapReduce", "done"}
  /\ recount \in [sum : Int, none : BOOLEAN, during : SUBSET Reading]

(* Where a reading is that nothing fell upon: in the one document, in the  *)
(* other, or on its way.                                                   *)
Placed(r, one, null) ==
  /\ r \in null => r \notin one \cup InFlight
  /\ r \notin InFlight => (r \in one \cup null <=> r \in sensorData)
  /\ r \in inserting => r \notin sensorData /\ (r \in one <=> r \notin counting)
  /\ r \in counting => r \notin one /\ (r \in sensorData <=> r \notin inserting)

(* What is being computed holds what was inserted before it began.         *)
Recounting(sum, none, during, rec) ==
  /\ sum = SumOf(rec) /\ (none <=> rec = {})
  /\ InFlight \subseteq during
  /\ \A r \in Reading \ during : r \in rec <=> r \in sensorData

(* The documents are the sums of two sets of readings.                     *)
Holds(one, null, rec) ==
  /\ Shown(meterReading.one) = SumOf(one) /\ Shown(meterReading.null) = SumOf(null)
  /\ unread \cap (sensorData \cup InFlight \cup overlapped \cup one \cup null \cup rec) = {}
  /\ unread \cap recount.during = {}
  /\ counting \cap one = {}
  /\ \A r \in Reading \ overlapped : Placed(r, one, null)
  /\ initialising = "mapReduce" =>
       Recounting(recount.sum, recount.none, recount.during, rec)

MeterInv ==
  /\ ReadingType
  /\ \E one, null, rec \in SUBSET Reading : Holds(one, null, rec)

(* A number is not the absence of a document.                              *)
LEMMA ShownNumber ==
  /\ Shown(Absent) = 0
  /\ \A n \in Int : n # Absent /\ Shown(n) = n
BY HouseholdAssumption DEF Shown

LEMMA MeterInit ==
  ASSUME Init PROVE MeterInv
<1>1. ReadingType
  BY DEF Init, InitWith, ReadingType, InFlight, NoCount, Document
<1>2. Holds({}, {}, {})
  BY SumOfNone, ShownNumber
     DEF Init, InitWith, Holds, Placed, InFlight, NoCount
<1> QED
  BY <1>1, <1>2 DEF MeterInv

(* What these depend on is left alone.                                     *)
LEMMA MeterUntouched ==
  ASSUME MeterInv,
         UNCHANGED <<sensorData, meterReading, initialising, recount, inserting,
                     counting, unread, overlapped>>
  PROVE  MeterInv'
<1>1. ReadingType'
  BY DEF MeterInv, ReadingType, InFlight
<1>2. PICK one \in SUBSET Reading, null \in SUBSET Reading, rec \in SUBSET Reading :
        Holds(one, null, rec)
  BY DEF MeterInv
<1>3. Holds(one, null, rec)'
  BY <1>2 DEF Holds, Placed, Recounting, InFlight
<1> QED
  BY <1>1, <1>3 DEF MeterInv

LEMMA MapReduceKeeps ==
  ASSUME MeterInv, MapReduce PROVE MeterInv'
<1>1. PICK one \in SUBSET Reading, null \in SUBSET Reading, old \in SUBSET Reading :
        Holds(one, null, old)
  BY DEF MeterInv
<1>2. PICK rec \in SUBSET Reading : rec = sensorData
  BY DEF MeterInv, ReadingType
<1>3. /\ UNCHANGED <<sensorData, meterReading, inserting, counting, unread, overlapped>>
      /\ recount' = [sum |-> SumOf(rec), none |-> rec = {}, during |-> InFlight]
      /\ initialising' = "mapReduce"
  BY <1>2 DEF MapReduce, store
<1>4. ReadingType'
  <2>1. SumOf(rec) \in Int
    BY PartOf
  <2> QED
    BY <1>3, <2>1 DEF MeterInv, ReadingType, InFlight
<1>5. Recounting(recount.sum, recount.none, recount.during, rec)'
  BY <1>2, <1>3 DEF Recounting, InFlight
<1>6. \A r \in Reading \ overlapped' : Placed(r, one, null)'
  BY <1>1, <1>3 DEF Holds, Placed, InFlight
<1>7. Holds(one, null, rec)'
  BY <1>1, <1>2, <1>3, <1>5, <1>6 DEF Holds, InFlight
<1> QED
  BY <1>4, <1>7 DEF MeterInv

LEMMA ReplaceKeeps ==
  ASSUME MeterInv, ReplaceMeterReading PROVE MeterInv'
<1>1. PICK one \in SUBSET Reading, null \in SUBSET Reading, rec \in SUBSET Reading :
        Holds(one, null, rec)
  BY DEF MeterInv
<1>2. /\ UNCHANGED <<sensorData, inserting, counting, unread>>
      /\ meterReading' = Recounted /\ recount' = NoCount
      /\ overlapped' = recount.during /\ initialising' = "done"
      /\ Recounting(recount.sum, recount.none, recount.during, rec)
  BY <1>1 DEF ReplaceMeterReading, Holds
<1>3. recount.sum \in Int /\ recount.during \in SUBSET Reading
  BY DEF MeterInv, ReadingType
<1>4. ReadingType'
  BY <1>2, <1>3 DEF MeterInv, ReadingType, InFlight, Recounted, NoCount, Document
<1>5. Shown(meterReading'.one) = SumOf({}) /\ Shown(meterReading'.null) = SumOf(rec)
  BY <1>2, <1>3, SumOfNone, ShownNumber DEF Recounted, Recounting
<1>6. \A r \in Reading \ overlapped' : Placed(r, {}, rec)'
  BY <1>2 DEF Recounting, Placed, InFlight
<1>7. Holds({}, rec, {})'
  BY <1>1, <1>2, <1>5, <1>6 DEF Holds, NoCount, InFlight
<1> QED
  BY <1>4, <1>7 DEF MeterInv

LEMMA PutSensorStatsKeeps ==
  ASSUME MeterInv, NEW r \in Reading, PutSensorStats(r) PROVE MeterInv'
<1>1. PICK one \in SUBSET Reading, null \in SUBSET Reading, rec \in SUBSET Reading :
        Holds(one, null, rec)
  BY DEF MeterInv
<1>2. /\ UNCHANGED <<sensorData, meterReading, initialising, overlapped>>
      /\ r \in unread /\ unread' = unread \ {r}
      /\ inserting' = inserting \cup {r} /\ counting' = counting \cup {r}
      /\ recount' = IF initialising = "mapReduce"
                    THEN [recount EXCEPT !.during = @ \cup {r}] ELSE recount
  BY DEF PutSensorStats, store
<1>3. /\ recount'.sum = recount.sum /\ recount'.none = recount.none
      /\ recount'.during =
           (IF initialising = "mapReduce" THEN recount.during \cup {r} ELSE recount.during)
      /\ recount' \in [sum : Int, none : BOOLEAN, during : SUBSET Reading]
  BY <1>2 DEF MeterInv, ReadingType
<1>4. ReadingType'
  BY <1>2, <1>3 DEF MeterInv, ReadingType, InFlight
<1>5. r \notin sensorData \cup InFlight \cup overlapped \cup one \cup null \cup rec
  BY <1>1, <1>2 DEF Holds
<1>6. \A s \in Reading \ overlapped' : Placed(s, one, null)'
  BY <1>1, <1>2, <1>5 DEF Holds, Placed, InFlight
<1>7. initialising' = "mapReduce" =>
        Recounting(recount.sum, recount.none, recount.during, rec)'
  BY <1>1, <1>2, <1>3 DEF Holds, Recounting, InFlight
<1>8. Holds(one, null, rec)'
  BY <1>1, <1>2, <1>3, <1>5, <1>6, <1>7 DEF Holds, InFlight
<1> QED
  BY <1>4, <1>8 DEF MeterInv

LEMMA InsertedKeeps ==
  ASSUME MeterInv, NEW r \in Reading, Inserted(r) PROVE MeterInv'
<1>1. PICK one \in SUBSET Reading, null \in SUBSET Reading, rec \in SUBSET Reading :
        Holds(one, null, rec)
  BY DEF MeterInv
<1>2. /\ UNCHANGED <<meterReading, initialising, overlapped, counting, unread, recount>>
      /\ r \in inserting /\ inserting' = inserting \ {r}
      /\ sensorData' = sensorData \cup {r}
  BY DEF Inserted
<1>3. ReadingType'
  BY <1>2 DEF MeterInv, ReadingType, InFlight
<1>4. \A s \in Reading \ overlapped' : Placed(s, one, null)'
  BY <1>1, <1>2 DEF Holds, Placed, InFlight
<1>5. initialising' = "mapReduce" =>
        Recounting(recount.sum, recount.none, recount.during, rec)'
  BY <1>1, <1>2 DEF Holds, Recounting, InFlight
<1>6. Holds(one, null, rec)'
  BY <1>1, <1>2, <1>4, <1>5 DEF Holds, InFlight
<1> QED
  BY <1>3, <1>6 DEF MeterInv

LEMMA InsertionFailedKeeps ==
  ASSUME MeterInv, NEW r \in Reading, InsertionFailed(r) PROVE MeterInv'
<1>1. PICK one \in SUBSET Reading, null \in SUBSET Reading, rec \in SUBSET Reading :
        Holds(one, null, rec)
  BY DEF MeterInv
<1>2. /\ UNCHANGED <<sensorData, meterReading, initialising, counting, unread, recount>>
      /\ r \in inserting /\ inserting' = inserting \ {r}
      /\ overlapped' = overlapped \cup {r}
  BY DEF InsertionFailed, store
<1>3. ReadingType'
  BY <1>2 DEF MeterInv, ReadingType, InFlight
<1>4. \A s \in Reading \ overlapped' : Placed(s, one, null)'
  BY <1>1, <1>2 DEF Holds, Placed, InFlight
<1>5. initialising' = "mapReduce" =>
        Recounting(recount.sum, recount.none, recount.during, rec)'
  BY <1>1, <1>2 DEF Holds, Recounting, InFlight
<1>6. Holds(one, null, rec)'
  BY <1>1, <1>2, <1>4, <1>5 DEF Holds, InFlight
<1> QED
  BY <1>3, <1>6 DEF MeterInv

LEMMA CountedKeeps ==
  ASSUME MeterInv, NEW r \in Reading, Counted(r) PROVE MeterInv'
<1>1. PICK one \in SUBSET Reading, null \in SUBSET Reading, rec \in SUBSET Reading :
        Holds(one, null, rec)
  BY DEF MeterInv
<1>2. /\ UNCHANGED <<sensorData, initialising, inserting, unread, recount, overlapped>>
      /\ r \in counting /\ counting' = counting \ {r}
      /\ meterReading' = [meterReading EXCEPT !.one = Increment(@, Value[r])]
  BY DEF Counted
<1>3. /\ Value[r] \in Int
      /\ meterReading.one \in Document /\ meterReading.null \in Document
      /\ meterReading'.one = Increment(meterReading.one, Value[r])
      /\ meterReading'.null = meterReading.null
      /\ meterReading' \in [one : Document, null : Document]
  BY <1>2, HouseholdAssumption DEF MeterInv, ReadingType, Document, Increment
<1>4. ReadingType'
  BY <1>2, <1>3 DEF MeterInv, ReadingType, InFlight
<1>5. r \notin one
  BY <1>1, <1>2 DEF Holds
<1>6. /\ Shown(meterReading'.one) = SumOf(one \cup {r})
      /\ Shown(meterReading'.null) = SumOf(null)
  <2>1. Shown(Increment(meterReading.one, Value[r]))
          = Shown(meterReading.one) + Value[r]
    BY <1>3, ShownNumber DEF Increment, Document
  <2>2. SumOf(one \cup {r}) = SumOf(one) + Value[r]
    BY <1>5, SumOfOneMore
  <2> QED
    BY <1>1, <1>3, <2>1, <2>2 DEF Holds
<1>7. \A s \in Reading \ overlapped' : Placed(s, one \cup {r}, null)'
  BY <1>1, <1>2, <1>5 DEF Holds, Placed, InFlight
<1>8. initialising' = "mapReduce" =>
        Recounting(recount.sum, recount.none, recount.during, rec)'
  BY <1>1, <1>2 DEF Holds, Recounting, InFlight
<1>9. Holds(one \cup {r}, null, rec)'
  BY <1>1, <1>2, <1>5, <1>6, <1>7, <1>8 DEF Holds, InFlight
<1>10. one \cup {r} \in SUBSET Reading
  OBVIOUS
<1> QED
  BY <1>4, <1>9, <1>10 DEF MeterInv

LEMMA CountingFailedKeeps ==
  ASSUME MeterInv, NEW r \in Reading, CountingFailed(r) PROVE MeterInv'
<1>1. PICK one \in SUBSET Reading, null \in SUBSET Reading, rec \in SUBSET Reading :
        Holds(one, null, rec)
  BY DEF MeterInv
<1>2. /\ UNCHANGED <<sensorData, meterReading, initialising, inserting, unread, recount>>
      /\ r \in counting /\ counting' = counting \ {r}
      /\ overlapped' = overlapped \cup {r}
  BY DEF CountingFailed, store
<1>3. ReadingType'
  BY <1>2 DEF MeterInv, ReadingType, InFlight
<1>4. \A s \in Reading \ overlapped' : Placed(s, one, null)'
  BY <1>1, <1>2 DEF Holds, Placed, InFlight
<1>5. initialising' = "mapReduce" =>
        Recounting(recount.sum, recount.none, recount.during, rec)'
  BY <1>1, <1>2 DEF Holds, Recounting, InFlight
<1>6. Holds(one, null, rec)'
  BY <1>1, <1>2, <1>4, <1>5 DEF Holds, InFlight
<1> QED
  BY <1>3, <1>6 DEF MeterInv

LEMMA CrashKeeps ==
  ASSUME MeterInv, Crash PROVE MeterInv'
<1>1. PICK one \in SUBSET Reading, null \in SUBSET Reading, rec \in SUBSET Reading :
        Holds(one, null, rec)
  BY DEF MeterInv
<1>2. /\ UNCHANGED <<sensorData, meterReading, unread>>
      /\ inserting' = {} /\ counting' = {}
      /\ overlapped' = overlapped \cup InFlight
      /\ initialising' = "createDB" /\ recount' = NoCount
  BY DEF Crash, store
<1>3. ReadingType'
  BY <1>2 DEF MeterInv, ReadingType, InFlight, NoCount
<1>4. \A s \in Reading \ overlapped' : Placed(s, one, null)'
  BY <1>1, <1>2 DEF Holds, Placed, InFlight
<1>5. Holds(one, null, {})'
  BY <1>1, <1>2, <1>4 DEF Holds, InFlight, NoCount
<1> QED
  BY <1>3, <1>5 DEF MeterInv

LEMMA MeterNext ==
  ASSUME MeterInv, [Next]_vars PROVE MeterInv'
<1>1. CASE \/ Entity \/ NettingSuccessHeard \/ UNCHANGED vars
           \/ \E m \in answers : ReceiveStatus(m)
           \/ \E c \in collections : Fetch(c) \/ CollectionFailed(c) \/ BulkWrite(c)
  BY <1>1, MeterUntouched
     DEF Entity, NettingSuccessHeard, ReceiveStatus, Fetch, CollectionFailed, BulkWrite,
         vars, own, store
<1> QED
  BY <1>1, MapReduceKeeps, ReplaceKeeps, PutSensorStatsKeeps, InsertedKeeps,
     InsertionFailedKeeps, CountedKeeps, CountingFailedKeeps, CrashKeeps DEF Next

(* So each reading is in the documents as often as it should, but for      *)
(* those that something fell upon.                                         *)
LEMMA MeterExact ==
  ASSUME MeterInv PROVE MeterAccounts
<1>1. PICK one \in SUBSET Reading, null \in SUBSET Reading, rec \in SUBSET Reading :
        Holds(one, null, rec)
  BY DEF MeterInv
<1>2. PICK times \in [Reading -> 0..2] :
        \A r \in Reading : times[r] = (IF r \in one THEN 1 ELSE 0)
                                        + (IF r \in null THEN 1 ELSE 0)
  <2> DEFINE t == [r \in Reading |-> (IF r \in one THEN 1 ELSE 0)
                                        + (IF r \in null THEN 1 ELSE 0)]
  <2>1. t \in [Reading -> 0..2]
    OBVIOUS
  <2> QED
    BY <2>1
<1>3. ASSUME NEW r \in Reading \ (overlapped \cup InFlight)
      PROVE  times[r] = IF r \in sensorData THEN 1 ELSE 0
  <2>1. Placed(r, one, null) /\ r \notin InFlight
    BY <1>1, <1>3 DEF Holds
  <2> QED
    BY <1>2, <2>1 DEF Placed
<1>4. Shown(meterReading.one) + Shown(meterReading.null)
        = SumOver(SetToSeq(Reading), [r \in Reading |-> times[r] * Value[r]])
  <2>1. SumOf(one) + SumOf(null)
          = SumOver(SetToSeq(Reading), [r \in Reading |-> times[r] * Value[r]])
    BY <1>2, SumOfTwo
  <2> QED
    BY <1>1, <2>1 DEF Holds
<1> QED
  BY <1>3, <1>4 DEF MeterAccounts

(* The two documents of meter_reading together hold every reading exactly  *)
(* once, across any number of restarts, recounts, failed insertions and    *)
(* failed increments, but for those on their way and those that one of     *)
(* these fell upon.                                                        *)
THEOREM MeterAlways == Spec => []MeterAccounts
<1> QED
  BY MeterExact, MeterInit, MeterNext, PTL DEF Spec

-----------------------------------------------------------------------------
(* Types                                                                   *)

StatusType ==
  /\ nettingStatus \in 1..clock /\ status \in 0..clock
  /\ \A m \in answers : m.status \in 0..clock
  /\ address \in Spellings /\ skew \in Skews

LEMMA StatusInit ==
  ASSUME Init PROVE StatusType
BY DEF Init, InitWith, NedInit, StatusType

LEMMA StatusNext ==
  ASSUME StatusType, clock \in Nat \ {0}, [Next]_vars PROVE StatusType'
<1>1. CASE UNCHANGED <<clock, nettingStatus, status, answers, address, skew>>
  BY <1>1 DEF StatusType
<1>2. CASE Entity
  <2>1. UNCHANGED <<status, answers, address, skew>>
    BY <1>2 DEF Entity, own
  <2>2. /\ clock' \in Nat /\ clock <= clock'
        /\ nettingStatus' \in {nettingStatus, clock} /\ nettingStatus' <= clock'
    BY <1>2 DEF StatusType, Entity, NedNext, PutLndEnergy, ChannelListed, PutEnergy,
         runZokrates, NettingSuccess, NedRestart, Tick
  <2> QED
    BY <2>1, <2>2 DEF StatusType
<1>3. ASSUME NEW r \in Reading, PutSensorStats(r) PROVE StatusType'
  BY <1>3 DEF PutSensorStats, StatusType, ned, shared
<1>4. ASSUME NEW m \in answers, ReceiveStatus(m) PROVE StatusType'
  BY <1>4 DEF ReceiveStatus, StatusType, ned, shared
<1>5. CASE Crash
  BY <1>5 DEF Crash, StatusType, ned, shared
<1> QED
  BY <1>1, <1>2, <1>3, <1>4, <1>5
     DEF Next, MapReduce, ReplaceMeterReading, NettingSuccessHeard, Inserted,
         InsertionFailed, Counted, CountingFailed, Fetch, CollectionFailed, BulkWrite,
         vars, own, ned, shared

LEMMA TypesTogether ==
  ASSUME NetInv, TransferInv, MeterInv, StatusType PROVE TypeOK
<1>1. Keys(households) \subseteq Address
  BY DEF NetInv, NetType, Keys
<1>2. \A k \in 1..Len(utilityData) :
        utilityData[k].transfer \in Transfer /\ utilityData[k].timestamp \in Int
  BY Entries DEF TransferInv, TransferType
<1> QED
  BY <1>1, <1>2 DEF TypeOK, NetInv, NetType, TransferInv, TransferType, MeterInv,
       ReadingType, StatusType

(* Every variable of the household's server and of the entity's keeps its  *)
(* type; no status is later than the entity's clock.                       *)
THEOREM HouseholdTypes == Spec => []TypeOK
<1> DEFINE Inv == NetInv /\ TransferInv /\ MeterInv /\ StatusType
<1>1. Init => Inv
  BY NetInit, TransferInit, MeterInit, StatusInit
<1>2. Inv /\ [Next]_vars => Inv'
  <2>1. TransferInv => clock \in Nat \ {0}
    BY DEF TransferInv, TransferType
  <2> QED
    BY <2>1, NetNext, TransferNext, MeterNext, StatusNext
<1>3. Inv => TypeOK
  BY TypesTogether
<1> QED
  BY <1>1, <1>2, <1>3, PTL DEF Spec
=============================================================================
