---------------------------- MODULE MeteringProofs ---------------------------
(***************************************************************************)
(* Metering.tla keeps its invariants and implements Reports, for any       *)
(* households, readings and channels, and any number of calls under way.   *)
(***************************************************************************)
EXTENDS Metering, TLAPS

USE MeteringAssumption

-----------------------------------------------------------------------------
(* A call under way has the fields of its operation.                       *)
Shape(c) ==
  /\ c.op = "ask"          => c.r \in Reading
  /\ c.op = "answer"       => c.r \in Reading /\ c.status \in Nat
  /\ c.op = "then"         => c.r \in Reading
  /\ c.op = "listChannels" => c.r \in Reading
  /\ c.op = "addInvoice"   => c.i \in Invoice /\ c.amount \in Nat
  /\ c.op = "listInvoices" => c.i \in Invoice
  /\ c.op = "put"          => c.i \in Invoice /\ c.k \in Channel
  /\ c.op = "paid"         => /\ c.i \in Invoice /\ c.k \in Channel
                              /\ c = Paid(c.i, c.k)
  /\ c.op = "settled"      => c.i \in Invoice
  /\ c.op = "open"         => c.h \in Household /\ c.d \in Direction

Shapes == \A c \in calls : Shape(c)

Asking(c) == c.op \in {"ask", "answer", "then"}

(***************************************************************************)
(* The netting flag.  A reading has one question about the status under    *)
(* way at most, only until it is decided; a set flag stands for a reading  *)
(* that has passed under the status the household knows.                   *)
(***************************************************************************)
AnswerTypes ==
  /\ entityStatus \in Nat
  /\ nettingActive \in [Household -> BOOLEAN]
  /\ nettingStatus \in [Household -> 0..entityStatus]
  /\ outcome \in [Reading -> {"unread", "asked", "passed", "dropped"}]
  /\ under \in [Reading -> Nat]

PassedUnder(h, s) ==
  \E r \in Reading : HouseholdOf[r] = h /\ outcome[r] = "passed" /\ under[r] = s

AnswerInv ==
  /\ AnswerTypes
  /\ \A c \in calls : Asking(c) => outcome[c.r] = "asked"
  /\ \A c \in calls : c.op = "answer" => c.status \in 0..entityStatus
  /\ \A c, d \in calls : Asking(c) /\ Asking(d) /\ c.r = d.r => c = d
  /\ \A h \in Household : nettingActive[h] => PassedUnder(h, nettingStatus[h])
  /\ LeftOutForAnother

(* Steps that start no question and give no answer.                        *)
LEMMA AnswerQuiet ==
  ASSUME AnswerInv,
         \A c \in calls' : c \in calls \/ ~Asking(c),
         UNCHANGED <<entityStatus, nettingActive, nettingStatus, outcome, under>>
  PROVE  AnswerInv'
<1>1. AnswerTypes' /\ LeftOutForAnother'
  BY DEF AnswerInv, AnswerTypes, LeftOutForAnother
<1>2. \A h \in Household : nettingActive'[h] => PassedUnder(h, nettingStatus[h])'
  BY DEF AnswerInv, PassedUnder
<1>3. /\ \A c \in calls' : Asking(c) => outcome'[c.r] = "asked"
      /\ \A c \in calls' : c.op = "answer" => c.status \in 0..entityStatus'
      /\ \A c, d \in calls' : Asking(c) /\ Asking(d) /\ c.r = d.r => c = d
  BY DEF AnswerInv, Asking
<1> QED
  BY <1>1, <1>2, <1>3 DEF AnswerInv, PassedUnder, Asking

LEMMA AnswerAsked ==
  ASSUME AnswerInv, Shapes, NEW r \in Reading, PutSensorStats(r)
  PROVE  AnswerInv'
<1>1. /\ outcome[r] = "unread" /\ outcome' = [outcome EXCEPT ![r] = "asked"]
      /\ calls' = calls \cup {Ask(r)}
      /\ UNCHANGED <<entityStatus, nettingActive, nettingStatus, under>>
  BY DEF PutSensorStats, entity
<1>2. AnswerTypes'
  BY <1>1 DEF AnswerInv, AnswerTypes
<1>3. /\ outcome \in [Reading -> {"unread", "asked", "passed", "dropped"}]
      /\ outcome'[r] = "asked"
      /\ \A s \in Reading : s # r => outcome'[s] = outcome[s]
  BY <1>1 DEF AnswerInv, AnswerTypes
<1>4. Ask(r).op = "ask" /\ Ask(r).r = r
  BY DEF Ask
<1>5. \A c \in calls : Asking(c) => c.r \in Reading /\ outcome[c.r] = "asked" /\ c.r # r
  BY <1>1 DEF AnswerInv, Shapes, Shape, Asking
<1>6. \A c \in calls' : Asking(c) => outcome'[c.r] = "asked"
  BY <1>1, <1>3, <1>4, <1>5
<1>7. \A c \in calls' : c.op = "answer" => c.status \in 0..entityStatus'
  BY <1>1, <1>4 DEF AnswerInv
<1>8. \A c, d \in calls' : Asking(c) /\ Asking(d) /\ c.r = d.r => c = d
  BY <1>1, <1>4, <1>5 DEF AnswerInv
<1>9. \A s \in Reading : /\ outcome[s] = "passed" => outcome'[s] = "passed"
                         /\ outcome'[s] = "dropped" => outcome[s] = "dropped"
  BY <1>1, <1>3
<1>10. \A h \in Household : nettingActive'[h] => PassedUnder(h, nettingStatus[h])'
  BY <1>1, <1>9 DEF AnswerInv, PassedUnder
<1>11. LeftOutForAnother'
  BY <1>1, <1>9 DEF AnswerInv, LeftOutForAnother
<1> QED
  BY <1>2, <1>6, <1>7, <1>8, <1>10, <1>11 DEF AnswerInv, PassedUnder, Asking

LEMMA AnswerGiven ==
  ASSUME AnswerInv, Shapes, NEW c \in calls, GetNettingActive(c)
  PROVE  AnswerInv'
<1> DEFINE new == Answer(c.r, entityStatus)
<1>1. /\ c.op = "ask" /\ calls' = (calls \ {c}) \cup {new}
      /\ UNCHANGED <<entityStatus, nettingActive, nettingStatus, outcome, under>>
  BY DEF GetNettingActive, Replace, household, entity
<1>2. new.op = "answer" /\ new.r = c.r /\ new.status = entityStatus
  BY DEF Answer
<1> HIDE DEF new
<1>3. AnswerTypes' /\ LeftOutForAnother'
  BY <1>1 DEF AnswerInv, AnswerTypes, LeftOutForAnother
<1>4. \A h \in Household : nettingActive'[h] => PassedUnder(h, nettingStatus[h])'
  BY <1>1 DEF AnswerInv, PassedUnder
<1>5. /\ \A d \in calls' : Asking(d) => outcome'[d.r] = "asked"
      /\ \A d, e \in calls' : Asking(d) /\ Asking(e) /\ d.r = e.r => d = e
  BY <1>1, <1>2 DEF AnswerInv, Asking
<1>6. \A d \in calls' : d.op = "answer" => d.status \in 0..entityStatus'
  BY <1>1, <1>2 DEF AnswerInv, AnswerTypes
<1> QED
  BY <1>3, <1>4, <1>5, <1>6 DEF AnswerInv, PassedUnder, Asking

(* The first callback: a flag that stays set stays with its status.        *)
LEMMA AnswerReceived ==
  ASSUME AnswerInv, Shapes, NEW c \in calls, ReceiveStatus(c)
  PROVE  AnswerInv'
<1> DEFINE h == HouseholdOf[c.r]
           new == Then(c.r)
<1>1. /\ c.op = "answer" /\ c.r \in Reading /\ h \in Household
      /\ c.status \in 0..entityStatus /\ outcome[c.r] = "asked"
      /\ nettingStatus' = [nettingStatus EXCEPT ![h] = c.status]
      /\ nettingActive' = [nettingActive EXCEPT ![h] = Kept(h, c.status)]
      /\ calls' = (calls \ {c}) \cup {new}
      /\ UNCHANGED <<entityStatus, outcome, under>>
  BY DEF ReceiveStatus, Replace, AnswerInv, Shapes, Shape, Asking, entity
<1>2. new.op = "then" /\ new.r = c.r
  BY DEF Then
<1>3. /\ AnswerTypes /\ Kept(h, c.status) \in BOOLEAN
      /\ Kept(h, c.status) => nettingActive[h] /\ nettingStatus[h] = c.status
  BY <1>1 DEF AnswerInv, AnswerTypes, Kept
<1> HIDE DEF h, new
<1>4. AnswerTypes'
  BY <1>1, <1>3 DEF AnswerTypes
<1>5. \A g \in Household :
        nettingActive'[g] => nettingActive[g] /\ nettingStatus'[g] = nettingStatus[g]
  BY <1>1, <1>3 DEF AnswerTypes
<1>6. \A g \in Household : nettingActive'[g] => PassedUnder(g, nettingStatus[g])'
  BY <1>1, <1>5 DEF AnswerInv, PassedUnder
<1>7. LeftOutForAnother'
  BY <1>1 DEF AnswerInv, LeftOutForAnother
<1>8. /\ \A d \in calls' : Asking(d) => outcome'[d.r] = "asked"
      /\ \A d, e \in calls' : Asking(d) /\ Asking(e) /\ d.r = e.r => d = e
  BY <1>1, <1>2 DEF AnswerInv, Asking
<1>9. \A d \in calls' : d.op = "answer" => d.status \in 0..entityStatus'
  BY <1>1, <1>2 DEF AnswerInv
<1> QED
  BY <1>4, <1>6, <1>7, <1>8, <1>9 DEF AnswerInv, PassedUnder, Asking

(* The chained callback: the reading passes, or another one has passed.    *)
LEMMA AnswerPassed ==
  ASSUME AnswerInv, Shapes, NEW c \in calls, PassFirst(c)
  PROVE  AnswerInv'
<1> DEFINE h == HouseholdOf[c.r]
           r == c.r
<1>1. /\ c.op = "then" /\ r \in Reading /\ h \in Household
      /\ outcome[r] = "asked"
      /\ under' = [under EXCEPT ![r] = nettingStatus[h]]
      /\ nettingActive' = [nettingActive EXCEPT ![h] = TRUE]
      /\ UNCHANGED <<entityStatus, nettingStatus>>
  BY DEF PassFirst, AnswerInv, Shapes, Shape, Asking, entity
<1>2. /\ \A d \in calls' : d \in calls \ {c} \/ ~Asking(d)
      /\ \/ outcome' = [outcome EXCEPT ![r] = "passed"]
         \/ nettingActive[h] /\ outcome' = [outcome EXCEPT ![r] = "dropped"]
  <2>1. List(r).op = "listChannels"
    BY DEF List
  <2> QED
    BY <2>1 DEF PassFirst, Replace, Asking
<1>3. AnswerTypes
  BY DEF AnswerInv
<1> HIDE DEF h, r
<1>4. AnswerTypes'
  <2>1. nettingStatus[h] \in Nat
    BY <1>1, <1>3 DEF AnswerTypes
  <2>2. outcome' \in [Reading -> {"unread", "asked", "passed", "dropped"}]
    BY <1>1, <1>2, <1>3 DEF AnswerTypes
  <2> QED
    BY <1>1, <1>3, <2>1, <2>2 DEF AnswerTypes
<1>5. /\ \A s \in Reading : s # r => outcome'[s] = outcome[s] /\ under'[s] = under[s]
      /\ under'[r] = nettingStatus[h]
      /\ \A g \in Household : g # h => nettingActive'[g] = nettingActive[g]
  BY <1>1, <1>2, <1>3 DEF AnswerTypes
<1>6. \A g \in Household, s \in Nat : PassedUnder(g, s) => PassedUnder(g, s)'
  BY <1>1, <1>5 DEF PassedUnder
<1>7. PassedUnder(h, nettingStatus[h])'
  <2>1. CASE outcome'[r] = "passed"
    BY <1>1, <1>5, <2>1 DEF PassedUnder, h, r
  <2>2. CASE outcome'[r] # "passed"
    <3>1. nettingActive[h] /\ nettingStatus[h] \in Nat
      BY <1>1, <1>2, <1>3, <2>2 DEF AnswerTypes
    <3>2. PassedUnder(h, nettingStatus[h])
      BY <1>1, <3>1 DEF AnswerInv
    <3> QED
      BY <1>1, <1>6, <3>1, <3>2 DEF PassedUnder
  <2> QED
    BY <2>1, <2>2
<1>8. ASSUME NEW g \in Household, nettingActive'[g]
      PROVE  PassedUnder(g, nettingStatus[g])'
  <2>1. CASE g = h
    BY <1>7, <2>1 DEF PassedUnder
  <2>2. CASE g # h
    <3>1. PassedUnder(g, nettingStatus[g]) /\ nettingStatus[g] \in Nat
      BY <1>3, <1>5, <1>8, <2>2 DEF AnswerInv, AnswerTypes
    <3>2. PassedUnder(g, nettingStatus[g]) => PassedUnder(g, nettingStatus[g])'
      BY <1>1, <1>5, <2>2 DEF PassedUnder
    <3> QED
      BY <3>1, <3>2
  <2> QED
    BY <2>1, <2>2
<1>9. LeftOutForAnother'
  <2>1. SUFFICES ASSUME NEW s \in Reading, outcome'[s] = "dropped"
                 PROVE  PassedUnder(HouseholdOf[s], under[s])'
    BY DEF LeftOutForAnother, PassedUnder
  <2>2. CASE s = r
    BY <1>1, <1>5, <1>7, <2>2 DEF PassedUnder, h, r
  <2>3. CASE s # r
    <3>1. outcome[s] = "dropped" /\ under'[s] = under[s]
      BY <1>5, <2>1, <2>3
    <3>2. PassedUnder(HouseholdOf[s], under[s])
      BY <3>1 DEF AnswerInv, LeftOutForAnother, PassedUnder
    <3> QED
      BY <1>1, <1>5, <3>1, <3>2 DEF PassedUnder
  <2> QED
    BY <2>2, <2>3
<1>10. \A d \in calls' : Asking(d) => d \in calls /\ d.r # r
  BY <1>1, <1>2 DEF AnswerInv, Asking, r
<1>11. \A d \in calls' : Asking(d) => outcome'[d.r] = "asked"
  BY <1>5, <1>10 DEF AnswerInv, Shapes, Shape, Asking
<1>12. /\ \A d, e \in calls' : Asking(d) /\ Asking(e) /\ d.r = e.r => d = e
       /\ \A d \in calls' : d.op = "answer" => d.status \in 0..entityStatus'
  BY <1>1, <1>10 DEF AnswerInv, Asking
<1> QED
  BY <1>4, <1>8, <1>9, <1>11, <1>12 DEF AnswerInv, PassedUnder, Asking

LEMMA AnswerRestart ==
  ASSUME AnswerInv, NEW h \in Household, Restart(h)
  PROVE  AnswerInv'
<1>1. /\ nettingActive' = [nettingActive EXCEPT ![h] = FALSE]
      /\ nettingStatus' = [nettingStatus EXCEPT ![h] = 0]
      /\ UNCHANGED <<entityStatus, outcome, under>>
  BY DEF Restart, entity
<1>2. \A c \in calls' : c \in calls \/ ~Asking(c)
  BY DEF Restart, Opening, Open, Asking
<1>3. AnswerTypes' /\ LeftOutForAnother'
  BY <1>1 DEF AnswerInv, AnswerTypes, LeftOutForAnother
<1>4. ASSUME NEW g \in Household, nettingActive'[g]
      PROVE  PassedUnder(g, nettingStatus[g])'
  <2>1. nettingActive[g] /\ nettingStatus'[g] = nettingStatus[g]
    BY <1>1, <1>4 DEF AnswerInv, AnswerTypes
  <2> QED
    BY <1>1, <2>1 DEF AnswerInv, PassedUnder
<1>5. /\ \A c \in calls' : Asking(c) => outcome'[c.r] = "asked"
      /\ \A c \in calls' : c.op = "answer" => c.status \in 0..entityStatus'
      /\ \A c, d \in calls' : Asking(c) /\ Asking(d) /\ c.r = d.r => c = d
  BY <1>1, <1>2 DEF AnswerInv, Asking
<1> QED
  BY <1>3, <1>4, <1>5 DEF AnswerInv, PassedUnder, Asking

(* The entity takes another status.                                        *)
LEMMA AnswerNetted ==
  ASSUME AnswerInv, RunZokrates \/ RestartEntity
  PROVE  AnswerInv'
<1>1. /\ entityStatus' = entityStatus + 1 /\ calls' \subseteq calls
      /\ UNCHANGED <<nettingActive, nettingStatus, outcome, under>>
  BY DEF RunZokrates, RestartEntity, household
<1>2. entityStatus \in Nat /\ 0..entityStatus \subseteq 0..entityStatus'
  BY <1>1 DEF AnswerInv, AnswerTypes
<1>3. AnswerTypes' /\ LeftOutForAnother'
  BY <1>1, <1>2 DEF AnswerInv, AnswerTypes, LeftOutForAnother
<1>4. /\ \A h \in Household : nettingActive'[h] => PassedUnder(h, nettingStatus[h])'
      /\ \A c \in calls' : Asking(c) => outcome'[c.r] = "asked"
      /\ \A c, d \in calls' : Asking(c) /\ Asking(d) /\ c.r = d.r => c = d
  BY <1>1 DEF AnswerInv, PassedUnder, Asking
<1>5. \A c \in calls' : c.op = "answer" => c.status \in 0..entityStatus'
  BY <1>1, <1>2 DEF AnswerInv
<1> QED
  BY <1>3, <1>4, <1>5 DEF AnswerInv, PassedUnder, Asking

-----------------------------------------------------------------------------
(***************************************************************************)
(* Channels and payments.  A channel in use keeps its parity and is never  *)
(* free again, and no two households know the same one.  An invoice is     *)
(* paid over one channel; until it is booked, or lost to a failure, the    *)
(* callback that will book it is under way.                                *)
(***************************************************************************)
ChannelState == [state : {"free", "pending", "active", "closed"},
                 odd : BOOLEAN, spendable : 0..Push]
InvoiceState == [state : {"none", "open", "paid"}, memo : Direction,
                 amount : Nat, via : SUBSET Channel]

ChannelTypes ==
  /\ channels \in [Channel -> ChannelState]
  /\ invoices \in [Invoice -> InvoiceState]
  /\ channelOf \in [Household -> [Direction -> Channel \cup {NoChannel}]]
  /\ recorded \subseteq Invoice
  /\ DOMAIN delta = Household

KnownInv ==
  /\ \A h \in Household, d \in Direction : channelOf[h][d] # NoChannel =>
       /\ channels[channelOf[h][d]].state \in {"pending", "active"}
       /\ channels[channelOf[h][d]].odd = (d = "down")
  /\ \A g, h \in Household, d \in Direction :
       channelOf[h][d] # NoChannel /\ channelOf[h][d] = channelOf[g][d] => g = h

Opened(k) == channels[k].state # "free"
WasActive(k) == channels[k].state \in {"active", "closed"}
Fits(i, k) == channels[k].odd = (invoices[i].memo = "down")

PaymentInv ==
  /\ lost \subseteq Invoice
  /\ \A i \in Invoice : invoices[i].state # "paid" => i \notin recorded
  /\ \A i \in Invoice : invoices[i].state = "paid" =>
       \E k \in Channel : invoices[i].via = {k} /\ WasActive(k)
  /\ \A c \in calls : c.op = "put" =>
       invoices[c.i].state # "none" /\ Opened(c.k) /\ Fits(c.i, c.k)
  /\ \A c \in calls : c.op = "paid" =>
       /\ invoices[c.i].state = "paid" /\ invoices[c.i].via = {c.k}
       /\ c.i \notin recorded /\ WasActive(c.k) /\ Fits(c.i, c.k)
  /\ LostOnlyWithChannel

Channels == ChannelTypes /\ KnownInv

(* What the steps do to a channel in use.                                  *)
Aging ==
  \A k \in Channel :
    /\ Opened(k) => Opened(k)' /\ channels'[k].odd = channels[k].odd
    /\ WasActive(k) => WasActive(k)'
    /\ channels[k].state = "closed" => channels'[k].state = "closed"

LEMMA ChannelsQuiet ==
  ASSUME Channels, UNCHANGED <<channels, invoices, channelOf, recorded>>,
         DOMAIN delta' = Household
  PROVE  Channels'
BY DEF Channels, ChannelTypes, KnownInv

LEMMA PaymentQuiet ==
  ASSUME PaymentInv, ChannelTypes, Shapes, Aging, UNCHANGED <<invoices, recorded, lost>>,
         \A c \in calls' : c \in calls \/ c.op \notin {"put", "paid"},
         \A c \in calls : c.op = "paid" => c \in calls'
  PROVE  PaymentInv'
<1>1. \A i \in Invoice : invoices'[i].state # "paid" => i \notin recorded'
  BY DEF PaymentInv
<1>2. \A i \in Invoice : invoices'[i].state = "paid" =>
        \E k \in Channel : invoices'[i].via = {k} /\ WasActive(k)'
  BY DEF PaymentInv, Aging
<1>3. \A c \in calls' : c.op = "put" =>
        invoices'[c.i].state # "none" /\ Opened(c.k)' /\ Fits(c.i, c.k)'
  <2>1. SUFFICES ASSUME NEW c \in calls, c.op = "put"
                 PROVE  invoices[c.i].state # "none" /\ Opened(c.k)' /\ Fits(c.i, c.k)'
    OBVIOUS
  <2>2. c.k \in Channel
    BY <2>1 DEF Shapes, Shape
  <2> QED
    BY <2>1, <2>2 DEF PaymentInv, Aging, Fits
<1>4. \A c \in calls' : c.op = "paid" =>
        /\ invoices'[c.i].state = "paid" /\ invoices'[c.i].via = {c.k}
        /\ c.i \notin recorded' /\ WasActive(c.k)' /\ Fits(c.i, c.k)'
  <2>1. SUFFICES ASSUME NEW c \in calls, c.op = "paid"
                 PROVE  /\ invoices[c.i].state = "paid" /\ invoices[c.i].via = {c.k}
                        /\ c.i \notin recorded /\ WasActive(c.k)' /\ Fits(c.i, c.k)'
    OBVIOUS
  <2>2. c.k \in Channel
    BY <2>1 DEF Shapes, Shape
  <2>3. WasActive(c.k) /\ Opened(c.k)
    BY <2>1 DEF PaymentInv, WasActive, Opened
  <2> QED
    BY <2>1, <2>2, <2>3 DEF PaymentInv, Aging, Fits
<1>5. LostOnlyWithChannel'
  <2>1. \A i \in Invoice, k \in Channel : Paid(i, k) \in calls => Paid(i, k) \in calls'
    BY DEF Paid
  <2>2. \A i \in Invoice : invoices[i].via \subseteq Channel
    BY DEF ChannelTypes, InvoiceState
  <2>3. SUFFICES ASSUME NEW i \in Invoice, invoices[i].state = "paid",
                        i \notin recorded \cup lost,
                        NEW k \in invoices[i].via
                 PROVE  channels'[k].state = "closed" \/ Paid(i, k) \in calls'
    BY DEF LostOnlyWithChannel, Paid
  <2>4. channels[k].state = "closed" \/ Paid(i, k) \in calls
    BY <2>3 DEF PaymentInv, LostOnlyWithChannel
  <2> QED
    BY <2>1, <2>2, <2>3, <2>4 DEF Aging
<1> QED
  BY <1>1, <1>2, <1>3, <1>4, <1>5 DEF PaymentInv, Opened, WasActive, Fits

LEMMA SameAge == ASSUME UNCHANGED channels PROVE Aging
BY DEF Aging, Opened, WasActive

(* A channel is opened, and kept unless the direction already has one.     *)
LEMMA OpenedChannels ==
  ASSUME Channels, Shapes, NEW c \in calls, ReceiveOpened(c)
  PROVE  Channels' /\ Aging
<1> DEFINE k == NextFree
           h == c.h
           d == c.d
<1>1. h \in Household /\ d \in Direction /\ UNCHANGED <<invoices, recorded, delta>>
  BY DEF ReceiveOpened, Shapes, Shape, entity
<1>2. CASE UNCHANGED <<channels, channelOf>>
  <2>1. DOMAIN delta' = Household
    BY <1>1 DEF Channels, ChannelTypes
  <2> QED
    BY <1>1, <1>2, <2>1, ChannelsQuiet, SameAge
<1>3. CASE ~UNCHANGED <<channels, channelOf>>
  <2>1. /\ k \in Channel /\ channels[k].state = "free"
        /\ channels' = [channels EXCEPT ![k] =
                          [state |-> "pending", odd |-> (d = "down"), spendable |-> Push]]
        /\ channelOf' = IF channelOf[h][d] = NoChannel
                        THEN [channelOf EXCEPT ![h][d] = k] ELSE channelOf
    BY <1>3 DEF ReceiveOpened, CanOpen, NextFree, lndOpened
  <2>2. /\ channels \in [Channel -> ChannelState]
        /\ channelOf \in [Household -> [Direction -> Channel \cup {NoChannel}]]
    BY DEF Channels, ChannelTypes
  <2> HIDE DEF k, h, d
  <2>3. /\ channels'[k].state = "pending" /\ channels'[k].odd = (d = "down")
        /\ \A l \in Channel : l # k => channels'[l] = channels[l]
        /\ channels' \in [Channel -> ChannelState]
    <3>1. [state |-> "pending", odd |-> (d = "down"), spendable |-> Push] \in ChannelState
      BY DEF ChannelState
    <3> QED
      BY <2>1, <2>2, <3>1
  <2>4. channelOf' \in [Household -> [Direction -> Channel \cup {NoChannel}]]
    BY <1>1, <2>1, <2>2
  <2>5. \A g \in Household, e \in Direction :
          /\ (g # h \/ e # d) => channelOf'[g][e] = channelOf[g][e]
          /\ channelOf[g][e] # k
          /\ channelOf'[h][d] # channelOf[h][d] => channelOf'[h][d] = k
    BY <1>1, <2>1, <2>2 DEF Channels, KnownInv
  <2>6. ChannelTypes'
    BY <1>1, <2>3, <2>4 DEF Channels, ChannelTypes
  <2>7. ASSUME NEW g \in Household, NEW e \in Direction, channelOf'[g][e] # NoChannel
        PROVE  /\ channels'[channelOf'[g][e]].state \in {"pending", "active"}
               /\ channels'[channelOf'[g][e]].odd = (e = "down")
    <3>1. CASE channelOf'[g][e] = channelOf[g][e]
      <4>1. channelOf[g][e] \in Channel /\ channelOf[g][e] # k
        BY <2>2, <2>5, <2>7, <3>1
      <4> QED
        BY <2>3, <2>7, <3>1, <4>1 DEF Channels, KnownInv
    <3>2. CASE channelOf'[g][e] # channelOf[g][e]
      BY <2>3, <2>5, <3>2
    <3> QED
      BY <3>1, <3>2
  <2>8. \A f, g \in Household, e \in Direction :
          channelOf'[g][e] # NoChannel /\ channelOf'[g][e] = channelOf'[f][e] => f = g
    BY <1>1, <2>5 DEF Channels, KnownInv
  <2>9. Aging
    BY <2>1, <2>3 DEF Aging, Opened, WasActive
  <2> QED
    BY <2>6, <2>7, <2>8, <2>9 DEF Channels, KnownInv
<1> QED
  BY <1>2, <1>3

(* Drained channels are closed, and nobody knows them any more.            *)
LEMMA SettledChannels ==
  ASSUME Channels, Shapes, NEW c \in calls, ReceiveSettled(c)
  PROVE  Channels' /\ Aging
<1> DEFINE h == Party(c.i)
<1>1. PICK used \in SUBSET Direction :
        /\ \A d \in used : Active(channelOf[h][d])
        /\ Retire(h, used)
  <2>1. PICK listed \in Listings :
          Retire(h, {d \in Direction : /\ channelOf[h][d] \in listed
                                       /\ channels[channelOf[h][d]].spendable <= 0})
    BY DEF ReceiveSettled
  <2> DEFINE u == {d \in Direction : /\ channelOf[h][d] \in listed
                                     /\ channels[channelOf[h][d]].spendable <= 0}
  <2> WITNESS u \in SUBSET Direction
  <2> QED
    BY <2>1 DEF Listings, Active
<1>2. c.i \in Invoice /\ UNCHANGED <<invoices, recorded, delta>>
  BY DEF ReceiveSettled, Shapes, Shape, entity
<1>3. h \in Household
  BY <1>2 DEF Party
<1> HIDE DEF h
<1> DEFINE closing == {channelOf[h][d] : d \in used}
<1>4. /\ channels \in [Channel -> ChannelState]
      /\ channelOf \in [Household -> [Direction -> Channel \cup {NoChannel}]]
  BY DEF Channels, ChannelTypes
<1>5. /\ closing \subseteq Channel
      /\ channels' = [l \in Channel |->
                        IF l \in closing THEN [channels[l] EXCEPT !.state = "closed"]
                                         ELSE channels[l]]
      /\ channelOf' = [channelOf EXCEPT ![h] =
                         [d \in Direction |-> IF d \in used THEN NoChannel ELSE @[d]]]
  BY <1>1 DEF Retire, lndClosed, Active
<1>6. /\ channelOf' \in [Household -> [Direction -> Channel \cup {NoChannel}]]
      /\ \A g \in Household, d \in Direction :
           channelOf'[g][d] = IF g = h /\ d \in used THEN NoChannel ELSE channelOf[g][d]
  BY <1>3, <1>4, <1>5
<1> HIDE DEF closing
<1>7. \A l \in Channel : /\ channels'[l].odd = channels[l].odd
                         /\ l \notin closing => channels'[l] = channels[l]
                         /\ l \in closing => channels'[l].state = "closed"
  BY <1>4, <1>5 DEF ChannelState
<1>8. channels' \in [Channel -> ChannelState]
  BY <1>4, <1>5 DEF ChannelState
<1>9. ChannelTypes'
  BY <1>2, <1>6, <1>8 DEF Channels, ChannelTypes
<1>10. ASSUME NEW g \in Household, NEW e \in Direction, channelOf'[g][e] # NoChannel
       PROVE  /\ channels'[channelOf'[g][e]].state \in {"pending", "active"}
              /\ channels'[channelOf'[g][e]].odd = (e = "down")
  <2>1. channelOf'[g][e] = channelOf[g][e] /\ channelOf[g][e] \in Channel
    BY <1>4, <1>6, <1>10
  <2>2. channelOf[g][e] \notin closing
    <3>1. SUFFICES ASSUME NEW d \in used, channelOf[g][e] = channelOf[h][d] PROVE FALSE
      BY DEF closing
    <3>2. (e = "down") = (d = "down")
      BY <1>3, <1>10, <2>1, <3>1 DEF Channels, KnownInv
    <3>3. e = d
      BY <3>2 DEF Direction
    <3>4. g = h
      BY <1>3, <1>10, <2>1, <3>1, <3>3 DEF Channels, KnownInv
    <3> QED
      BY <1>6, <1>10, <3>3, <3>4
  <2> QED
    BY <1>7, <1>10, <2>1, <2>2 DEF Channels, KnownInv
<1>11. \A f, g \in Household, e \in Direction :
         channelOf'[g][e] # NoChannel /\ channelOf'[g][e] = channelOf'[f][e] => f = g
  BY <1>6 DEF Channels, KnownInv
<1>12. Aging
  <2>1. \A l \in closing : Opened(l)
    BY <1>1, <1>4 DEF closing, Opened, Active
  <2> QED
    BY <1>7, <2>1 DEF Aging, Opened, WasActive
<1> QED
  BY <1>9, <1>10, <1>11, <1>12 DEF Channels, KnownInv

LEMMA ConfirmedChannels ==
  ASSUME Channels, NEW k \in Channel, Confirm(k)
  PROVE  Channels' /\ Aging
<1>1. /\ channels[k].state = "pending" /\ channels' = [channels EXCEPT ![k].state = "active"]
      /\ UNCHANGED <<invoices, channelOf, recorded, delta>>
  BY DEF Confirm, lndConfirm, household, entity
<1>2. /\ channels \in [Channel -> ChannelState]
      /\ channelOf \in [Household -> [Direction -> Channel \cup {NoChannel}]]
  BY DEF Channels, ChannelTypes
<1>3. /\ channels'[k].state = "active" /\ channels'[k].odd = channels[k].odd
      /\ \A l \in Channel : l # k => channels'[l] = channels[l]
      /\ channels' \in [Channel -> ChannelState]
  BY <1>1, <1>2 DEF ChannelState
<1>4. ChannelTypes'
  BY <1>1, <1>3 DEF Channels, ChannelTypes
<1>5. \A g \in Household, e \in Direction : channelOf[g][e] # NoChannel =>
        channelOf[g][e] \in Channel
  BY <1>2
<1>6. KnownInv'
  BY <1>1, <1>3, <1>5 DEF Channels, KnownInv
<1>7. Aging
  BY <1>1, <1>3 DEF Aging, Opened, WasActive
<1> QED
  BY <1>4, <1>6, <1>7 DEF Channels

LEMMA RestartedChannels ==
  ASSUME Channels, NEW h \in Household, Restart(h)
  PROVE  Channels'
<1>1. /\ channelOf' = [channelOf EXCEPT ![h] = [d \in Direction |-> NoChannel]]
      /\ UNCHANGED <<channels, invoices, recorded, delta>>
  BY DEF Restart, lnd, entity
<1>2. channelOf \in [Household -> [Direction -> Channel \cup {NoChannel}]]
  BY DEF Channels, ChannelTypes
<1>3. /\ channelOf' \in [Household -> [Direction -> Channel \cup {NoChannel}]]
      /\ \A g \in Household, d \in Direction :
           channelOf'[g][d] = IF g = h THEN NoChannel ELSE channelOf[g][d]
  BY <1>1, <1>2
<1>4. ChannelTypes'
  BY <1>1, <1>3 DEF Channels, ChannelTypes
<1>5. KnownInv'
  BY <1>1, <1>3 DEF Channels, KnownInv
<1> QED
  BY <1>4, <1>5 DEF Channels

(* A payment: the callback that will book it is under way at once.         *)
LEMMA PaidChannels ==
  ASSUME Channels, PaymentInv, Shapes, NEW c \in calls, PutLndEnergy(c)
  PROVE  Channels' /\ PaymentInv'
<1> DEFINE i == c.i
           k == c.k
<1>1. /\ c.op = "put" /\ i \in Invoice /\ k \in Channel
      /\ Opened(k) /\ Fits(i, k)
      /\ UNCHANGED <<channelOf, recorded, lost, delta>>
  BY DEF PutLndEnergy, Shapes, Shape, PaymentInv, household, entity
<1>2. /\ channels \in [Channel -> ChannelState] /\ invoices \in [Invoice -> InvoiceState]
      /\ DOMAIN delta = Household
  BY DEF Channels, ChannelTypes
<1>3. CASE UNCHANGED lnd /\ Replace(c, {})
  <2>1. Channels'
    BY <1>1, <1>2, <1>3, ChannelsQuiet DEF lnd
  <2>2. Aging
    BY <1>3, SameAge DEF lnd
  <2> QED
    BY <1>1, <1>3, <2>1, <2>2, PaymentQuiet DEF Channels, lnd, Replace
<1>4. CASE lndPay(i, k) /\ Replace(c, {Paid(i, k), Settled(i)})
  <2>1. /\ invoices[i].state = "open" /\ channels[k].state = "active"
        /\ channels[k].spendable >= invoices[i].amount
        /\ invoices' = [invoices EXCEPT ![i].state = "paid", ![i].via = {k}]
        /\ channels' = [channels EXCEPT ![k].spendable = @ - invoices[i].amount]
    BY <1>4 DEF lndPay, Active
  <2>2. calls' = (calls \ {c}) \cup {Paid(i, k), Settled(i)}
    BY <1>4 DEF Replace
  <2> HIDE DEF i, k
  <2>3. /\ invoices'[i].state = "paid" /\ invoices'[i].via = {k}
        /\ \A j \in Invoice : /\ j # i => invoices'[j] = invoices[j]
                              /\ invoices'[j].memo = invoices[j].memo
        /\ invoices' \in [Invoice -> InvoiceState]
    BY <1>1, <1>2, <2>1 DEF InvoiceState
  <2>4. /\ \A l \in Channel : /\ channels'[l].state = channels[l].state
                              /\ channels'[l].odd = channels[l].odd
        /\ channels' \in [Channel -> ChannelState]
    <3>1. /\ channels[k].spendable \in 0..Push /\ invoices[i].amount \in Nat
          /\ Push \in Nat
      BY <1>1, <1>2 DEF ChannelState, InvoiceState
    <3>2. channels[k].spendable - invoices[i].amount \in 0..Push
      BY <2>1, <3>1
    <3> QED
      BY <1>1, <1>2, <2>1, <3>2 DEF ChannelState
  <2>5. ChannelTypes'
    BY <1>1, <2>3, <2>4 DEF Channels, ChannelTypes
  <2>6. Channels'
    <3>1. \A g \in Household, d \in Direction : channelOf[g][d] # NoChannel =>
            channelOf[g][d] \in Channel
      BY DEF Channels, ChannelTypes
    <3> QED
      BY <1>1, <2>4, <2>5, <3>1 DEF Channels, KnownInv
  <2>7. /\ \A l \in Channel : /\ Opened(l)' <=> Opened(l)
                              /\ WasActive(l)' <=> WasActive(l)
        /\ \A j \in Invoice, l \in Channel : Fits(j, l)' <=> Fits(j, l)
    BY <2>3, <2>4 DEF Opened, WasActive, Fits
  <2>8. /\ Paid(i, k).op = "paid" /\ Paid(i, k).i = i /\ Paid(i, k).k = k
        /\ Settled(i).op = "settled"
    BY DEF Paid, Settled
  <2>9. i \notin recorded /\ WasActive(k)
    BY <1>1, <2>1 DEF PaymentInv, WasActive
  <2>10. \A d \in calls : /\ d.op = "put" => d.i \in Invoice /\ d.k \in Channel
                          /\ d.op = "paid" => d.i \in Invoice /\ d.k \in Channel
    BY DEF Shapes, Shape
  <2>11. \A j \in Invoice : invoices'[j].state # "paid" => j \notin recorded'
    BY <1>1, <2>3 DEF PaymentInv
  <2>12. \A j \in Invoice : invoices'[j].state = "paid" =>
           \E l \in Channel : invoices'[j].via = {l} /\ WasActive(l)'
    BY <1>1, <2>3, <2>7, <2>9 DEF PaymentInv
  <2>13. \A d \in calls' : d.op = "put" =>
           invoices'[d.i].state # "none" /\ Opened(d.k)' /\ Fits(d.i, d.k)'
    BY <2>2, <2>3, <2>7, <2>8, <2>10 DEF PaymentInv
  <2>14. \A d \in calls' : d.op = "paid" =>
           /\ invoices'[d.i].state = "paid" /\ invoices'[d.i].via = {d.k}
           /\ d.i \notin recorded' /\ WasActive(d.k)' /\ Fits(d.i, d.k)'
    <3>1. SUFFICES ASSUME NEW d \in calls', d.op = "paid"
                   PROVE  /\ invoices'[d.i].state = "paid" /\ invoices'[d.i].via = {d.k}
                          /\ d.i \notin recorded' /\ WasActive(d.k)' /\ Fits(d.i, d.k)'
      OBVIOUS
    <3>2. CASE d = Paid(i, k)
      <4>1. d.i = i /\ d.k = k
        BY <2>8, <3>2
      <4> QED
        BY <1>1, <2>3, <2>7, <2>9, <4>1
    <3>3. CASE d # Paid(i, k)
      <4>1. d \in calls
        BY <2>2, <2>8, <3>1, <3>3
      <4>2. d.i # i
        BY <2>1, <3>1, <4>1 DEF PaymentInv
      <4> QED
        BY <1>1, <2>3, <2>7, <2>10, <3>1, <4>1, <4>2 DEF PaymentInv
    <3> QED
      BY <3>2, <3>3
  <2>15. LostOnlyWithChannel'
    <3>1. SUFFICES ASSUME NEW j \in Invoice, invoices'[j].state = "paid",
                          j \notin recorded \cup lost,
                          NEW l \in invoices'[j].via
                   PROVE  channels'[l].state = "closed" \/ Paid(j, l) \in calls'
      BY <1>1 DEF LostOnlyWithChannel, Paid
    <3>2. CASE j = i
      BY <2>2, <2>3, <3>1, <3>2
    <3>3. CASE j # i
      <4>1. channels[l].state = "closed" \/ Paid(j, l) \in calls
        BY <2>3, <3>1, <3>3 DEF PaymentInv, LostOnlyWithChannel
      <4>2. l \in Channel
        BY <2>3, <3>1 DEF InvoiceState
      <4>3. Paid(j, l).op = "paid"
        BY DEF Paid
      <4> QED
        BY <1>1, <2>2, <2>4, <4>1, <4>2, <4>3
    <3> QED
      BY <3>2, <3>3
  <2> QED
    BY <1>1, <2>6, <2>11, <2>12, <2>13, <2>14, <2>15 DEF PaymentInv, Opened, WasActive, Fits
<1> QED
  BY <1>3, <1>4 DEF PutLndEnergy

(* The callback that books a payment, or finds its channel closed.         *)
LEMMA BookedPayment ==
  ASSUME Channels, PaymentInv, Shapes, NEW c \in calls, RecordPaid(c)
  PROVE  Channels' /\ PaymentInv'
<1> DEFINE i == c.i
           k == c.k
<1>1. /\ c.op = "paid" /\ i \in Invoice /\ k \in Channel /\ c = Paid(i, k)
      /\ invoices[i].state = "paid" /\ invoices[i].via = {k} /\ WasActive(k)
      /\ UNCHANGED <<channels, invoices, channelOf>> /\ calls' = calls \ {c}
  BY DEF RecordPaid, Replace, Shapes, Shape, PaymentInv, lnd, household
<1>2. /\ recorded' \in {recorded, recorded \cup {i}} /\ lost' \in {lost, lost \cup {i}}
      /\ i \in recorded' \cup lost' \/ channels[k].state = "closed"
      /\ DOMAIN delta' = Household
  BY <1>1 DEF RecordPaid, Book, Lose, Found, Active, WasActive, Channels, ChannelTypes
<1> HIDE DEF i, k
<1>3. Channels'
  BY <1>1, <1>2 DEF Channels, ChannelTypes, KnownInv
<1>4. /\ \A j \in Invoice : invoices'[j].state # "paid" => j \notin recorded'
      /\ \A j \in Invoice : invoices'[j].state = "paid" =>
           \E l \in Channel : invoices'[j].via = {l} /\ WasActive(l)'
      /\ \A d \in calls' : d.op = "put" =>
           invoices'[d.i].state # "none" /\ Opened(d.k)' /\ Fits(d.i, d.k)'
      /\ lost' \subseteq Invoice
  BY <1>1, <1>2 DEF PaymentInv, WasActive, Opened, Fits
<1>5. \A d \in calls' : d.op = "paid" =>
        /\ invoices'[d.i].state = "paid" /\ invoices'[d.i].via = {d.k}
        /\ d.i \notin recorded' /\ WasActive(d.k)' /\ Fits(d.i, d.k)'
  <2>1. SUFFICES ASSUME NEW d \in calls', d.op = "paid"
                 PROVE  /\ invoices'[d.i].state = "paid" /\ invoices'[d.i].via = {d.k}
                        /\ d.i \notin recorded' /\ WasActive(d.k)' /\ Fits(d.i, d.k)'
    OBVIOUS
  <2>2. /\ d \in calls /\ d # c /\ d = Paid(d.i, d.k)
        /\ invoices[d.i].via = {d.k} /\ d.i \notin recorded
    BY <1>1, <2>1 DEF Shapes, Shape, PaymentInv
  <2>3. d.i # i
    BY <1>1, <2>2
  <2> QED
    BY <1>1, <1>2, <2>1, <2>2, <2>3 DEF PaymentInv, WasActive, Fits
<1>6. LostOnlyWithChannel'
  <2>1. SUFFICES ASSUME NEW j \in Invoice, invoices[j].state = "paid",
                        j \notin recorded' \cup lost',
                        NEW l \in invoices[j].via
                 PROVE  channels[l].state = "closed" \/ Paid(j, l) \in calls'
    BY <1>1 DEF LostOnlyWithChannel, Paid
  <2>2. CASE j = i
    BY <1>1, <1>2, <2>1, <2>2
  <2>3. CASE j # i
    <3>1. channels[l].state = "closed" \/ Paid(j, l) \in calls
      BY <1>2, <2>1 DEF PaymentInv, LostOnlyWithChannel
    <3>2. Paid(j, l) # c
      <4>1. Paid(j, l).i = j
        BY DEF Paid
      <4> QED
        BY <2>3, <4>1 DEF i
    <3> QED
      BY <1>1, <3>1, <3>2
  <2> QED
    BY <2>2, <2>3
<1> QED
  BY <1>3, <1>4, <1>5, <1>6 DEF PaymentInv, Opened, WasActive, Fits

(* Requests are only sent over the household's own active channel of the   *)
(* invoice's direction.                                                    *)
LEMMA SentPayment ==
  ASSUME Channels, PaymentInv, Shapes, NEW c \in calls, SendPending(c)
  PROVE  PaymentInv'
<1>1. c.op = "listInvoices" /\ UNCHANGED <<channels, invoices, channelOf, recorded, lost>>
  BY DEF SendPending, lnd, household, entity
<1>2. PICK ready \in SUBSET Invoice :
        /\ \A i \in ready : invoices[i].state = "open" /\ Active(Target(i))
        /\ calls' = (calls \ {c}) \cup {Resent(i) : i \in ready}
  <2>1. PICK listed \in Listings :
          calls' = (calls \ {c}) \cup
            {Resent(i) : i \in {j \in Invoice : /\ invoices[j].state = "open"
                                               /\ Party(j) = Party(c.i)
                                               /\ Target(j) \in listed}}
    BY DEF SendPending, Replace
  <2> DEFINE x == {i \in Invoice : /\ invoices[i].state = "open"
                                  /\ Party(i) = Party(c.i)
                                  /\ Target(i) \in listed}
  <2> WITNESS x \in SUBSET Invoice
  <2> QED
    BY <2>1 DEF Listings
<1>3. ASSUME NEW i \in ready
      PROVE  /\ Resent(i).op = "put" /\ Resent(i).i = i /\ Resent(i).k = Target(i)
             /\ Opened(Target(i)) /\ Fits(i, Target(i))
  <2>1. Resent(i).op = "put" /\ Resent(i).i = i /\ Resent(i).k = Target(i)
    BY DEF Resent, PutEnergy
  <2>2. /\ Target(i) \in Channel /\ channels[Target(i)].state = "active"
        /\ Target(i) # NoChannel
    BY <1>2 DEF Active
  <2>3. Party(i) \in Household /\ invoices[i].memo \in Direction
    BY DEF Party, Channels, ChannelTypes, InvoiceState
  <2> QED
    BY <2>1, <2>2, <2>3 DEF Channels, KnownInv, Target, Opened, Fits
<1>4. \A d \in calls' : d.op = "put" =>
        invoices'[d.i].state # "none" /\ Opened(d.k)' /\ Fits(d.i, d.k)'
  BY <1>1, <1>2, <1>3 DEF PaymentInv, Opened, Fits
<1>5. \A d \in calls' : d.op = "paid" => d \in calls
  BY <1>2, <1>3
<1>6. \A i \in Invoice : \A k \in invoices[i].via : Paid(i, k) \in calls => Paid(i, k) \in calls'
  BY <1>1, <1>2 DEF Paid
<1>7. LostOnlyWithChannel'
  BY <1>1, <1>6 DEF PaymentInv, LostOnlyWithChannel, Paid
<1> QED
  BY <1>1, <1>4, <1>5, <1>7 DEF PaymentInv, Opened, WasActive, Fits

(* A new invoice has been put nowhere and paid by nobody.                  *)
LEMMA NewInvoice ==
  ASSUME Channels, PaymentInv, Shapes, NEW c \in calls, AddInvoice(c),
         invoices[c.i].state = "none", invoices' # invoices
  PROVE  Channels' /\ PaymentInv'
<1> DEFINE i == c.i
           new == [state |-> "open", memo |-> DirectionOf(i[1]), amount |-> c.amount,
                   via |-> {}]
<1>1. /\ c.op = "addInvoice" /\ i \in Invoice /\ c.amount \in Nat
      /\ invoices[i].state = "none" /\ invoices' = [invoices EXCEPT ![i] = new]
      /\ calls' = (calls \ {c}) \cup {ListPending(i)}
      /\ UNCHANGED <<channels, channelOf, recorded, lost, delta>>
  BY DEF AddInvoice, lndAddInvoice, Replace, Shapes, Shape, household, entity
<1>2. new \in InvoiceState /\ new.state = "open"
  BY <1>1 DEF InvoiceState, Direction, DirectionOf
<1>3. ListPending(i).op = "listInvoices"
  BY DEF ListPending
<1>4. invoices \in [Invoice -> InvoiceState]
  BY DEF Channels, ChannelTypes
<1> HIDE DEF i, new
<1>5. /\ invoices' \in [Invoice -> InvoiceState] /\ invoices'[i].state = "open"
      /\ \A j \in Invoice : j # i => invoices'[j] = invoices[j]
  BY <1>1, <1>2, <1>4
<1>6. Channels'
  BY <1>1, <1>5 DEF Channels, ChannelTypes, KnownInv
<1>7. /\ \A j \in Invoice : invoices'[j].state # "paid" => j \notin recorded'
      /\ \A j \in Invoice : invoices'[j].state = "paid" =>
           \E l \in Channel : invoices'[j].via = {l} /\ WasActive(l)'
  BY <1>1, <1>5 DEF PaymentInv, WasActive
<1>8. \A d \in calls : d.op \in {"put", "paid"} => d.i \in Invoice /\ d.i # i
  BY <1>1 DEF PaymentInv, Shapes, Shape
<1>9. \A d \in calls' : d.op = "put" =>
        invoices'[d.i].state # "none" /\ Opened(d.k)' /\ Fits(d.i, d.k)'
  BY <1>1, <1>3, <1>5, <1>8 DEF PaymentInv, Opened, Fits
<1>10. \A d \in calls' : d.op = "paid" =>
         /\ invoices'[d.i].state = "paid" /\ invoices'[d.i].via = {d.k}
         /\ d.i \notin recorded' /\ WasActive(d.k)' /\ Fits(d.i, d.k)'
  BY <1>1, <1>3, <1>5, <1>8 DEF PaymentInv, WasActive, Fits
<1>11. LostOnlyWithChannel'
  <2>1. \A j \in Invoice, k \in Channel : Paid(j, k) \in calls => Paid(j, k) \in calls'
    BY <1>1 DEF Paid
  <2>2. \A j \in Invoice : invoices[j].via \subseteq Channel
    BY <1>4 DEF InvoiceState
  <2> QED
    BY <1>1, <1>5, <2>1, <2>2 DEF PaymentInv, LostOnlyWithChannel, Paid
<1> QED
  BY <1>1, <1>6, <1>7, <1>9, <1>10, <1>11 DEF PaymentInv, Opened, WasActive, Fits

LEMMA RestartedPayment ==
  ASSUME Channels, PaymentInv, Shapes, NEW h \in Household, Restart(h)
  PROVE  PaymentInv'
<1>1. /\ UNCHANGED <<channels, invoices, recorded, lost>>
      /\ calls' = (calls \ CallsOf(h)) \cup Opening(h)
  BY DEF Restart, lnd, entity
<1>2. /\ \A c \in calls' : c \in calls \/ c.op \notin {"put", "paid"}
      /\ \A c \in calls : c.op = "paid" => c \in calls'
  BY <1>1 DEF CallsOf, Opening, Open
<1> QED
  BY <1>1, <1>2, SameAge, PaymentQuiet DEF Channels

(* A restart of the entity loses the payments whose callback was under     *)
(* way, and no others.                                                     *)
LEMMA ForgottenPayment ==
  ASSUME Channels, PaymentInv, Shapes, RestartEntity
  PROVE  PaymentInv'
<1>1. /\ UNCHANGED <<channels, invoices, recorded>>
      /\ calls' = {c \in calls : c.op # "paid"}
      /\ lost' = lost \cup {i \in Invoice : \E k \in Channel : Paid(i, k) \in calls}
  BY DEF RestartEntity, lnd
<1>2. LostOnlyWithChannel'
  <2>1. SUFFICES ASSUME NEW i \in Invoice, invoices[i].state = "paid",
                        i \notin recorded \cup lost', NEW k \in invoices[i].via
                 PROVE  channels[k].state = "closed"
    BY <1>1 DEF LostOnlyWithChannel
  <2>2. k \in Channel
    BY DEF Channels, ChannelTypes, InvoiceState
  <2>3. i \notin lost /\ Paid(i, k) \notin calls
    BY <1>1, <2>1, <2>2
  <2> QED
    BY <2>1, <2>3 DEF PaymentInv, LostOnlyWithChannel
<1>3. /\ lost' \subseteq Invoice
      /\ \A c \in calls' : c \in calls /\ c.op # "paid"
  BY <1>1 DEF PaymentInv
<1>4. /\ \A i \in Invoice : invoices'[i].state # "paid" => i \notin recorded'
      /\ \A i \in Invoice : invoices'[i].state = "paid" =>
           \E k \in Channel : invoices'[i].via = {k} /\ WasActive(k)'
      /\ \A c \in calls' : c.op = "put" =>
           invoices'[c.i].state # "none" /\ Opened(c.k)' /\ Fits(c.i, c.k)'
  BY <1>1, <1>3 DEF PaymentInv, Opened, WasActive, Fits
<1> QED
  BY <1>2, <1>3, <1>4 DEF PaymentInv, Opened, WasActive, Fits

-----------------------------------------------------------------------------
(***************************************************************************)
(* The budget of a reading.  An amount is issued when the call that adds   *)
(* its invoice is under way, and stays so when the invoice exists.  The    *)
(* channels are listed once for a reading, after it has passed, and until  *)
(* then nothing of it is issued.                                           *)
(***************************************************************************)
Issued(i, a) ==
  \/ \E c \in calls : c.op = "addInvoice" /\ c.i = i /\ c.amount = a
  \/ invoices[i].state # "none" /\ invoices[i].amount = a

Listing(r) == \E c \in calls : c.op = "listChannels" /\ c.r = r

Adding(c) == c.op = "addInvoice"
Lists(c) == c.op = "listChannels"

CallsOnce ==
  /\ \A c, d \in calls : Lists(c) /\ Lists(d) /\ c.r = d.r => c = d
  /\ \A c, d \in calls : Adding(c) /\ Adding(d) /\ c.i = d.i => c = d
  /\ \A c \in calls : Lists(c) => outcome[c.r] = "passed"
  /\ \A c \in calls : Adding(c) => invoices[c.i].state = "none"

WithinReading(r) ==
  /\ \A p \in {1, 2}, a \in Nat : Issued(<<r, p>>, a) =>
       a # 0 /\ a <= Magnitude(MeterDelta[r])
  /\ \A a, b \in Nat : Issued(<<r, 1>>, a) /\ Issued(<<r, 2>>, b) =>
       a + b <= Magnitude(MeterDelta[r])

Untouched(r) == \A p \in {1, 2}, a \in Nat : ~Issued(<<r, p>>, a)

AllWithin == \A r \in Reading : WithinReading(r)

Fresh ==
  \A r \in Reading : outcome[r] \in {"unread", "asked"} \/ Listing(r) => Untouched(r)

Memos ==
  \A i \in Invoice : invoices[i].state # "none" => invoices[i].memo = DirectionOf(i[1])

Budget == CallsOnce /\ AllWithin /\ Fresh /\ Memos

(* A step that issues nothing may end a call and change what was paid.     *)
IssuesNothing ==
  /\ \A c \in calls' : c \in calls \/ c.op \notin {"listChannels", "addInvoice"}
  /\ \A i \in Invoice : /\ invoices'[i].state = "none" <=> invoices[i].state = "none"
                        /\ invoices'[i].memo = invoices[i].memo
                        /\ invoices'[i].amount = invoices[i].amount
  /\ \A r \in Reading :
       /\ outcome'[r] \in {"unread", "asked"} => outcome[r] \in {"unread", "asked"}
       /\ outcome[r] = "passed" => outcome'[r] = "passed"

LEMMA BudgetQuiet ==
  ASSUME Budget, Shapes, IssuesNothing
  PROVE  Budget'
<1>1. ASSUME NEW i \in Invoice, NEW a \in Nat, Issued(i, a)'
      PROVE  Issued(i, a)
  BY <1>1 DEF Issued, IssuesNothing
<1>2. \A r \in Reading : <<r, 1>> \in Invoice /\ <<r, 2>> \in Invoice
  OBVIOUS
<1>3. \A r \in Reading : WithinReading(r)'
  BY <1>1, <1>2 DEF Budget, AllWithin, WithinReading
<1>4. \A r \in Reading : Untouched(r) => Untouched(r)'
  BY <1>1, <1>2 DEF Untouched
<1>5. \A r \in Reading : Listing(r)' => Listing(r)
  BY DEF Listing, IssuesNothing
<1>6. CallsOnce'
  <2>1. /\ \A c \in calls' : c.op = "listChannels" => c \in calls /\ outcome'[c.r] = "passed"
        /\ \A c \in calls' : c.op = "addInvoice" => c \in calls /\ invoices'[c.i].state = "none"
    <3>1. /\ \A c \in calls' : c.op \in {"listChannels", "addInvoice"} => c \in calls
          /\ \A c \in calls : c.op = "listChannels" => c.r \in Reading
          /\ \A c \in calls : c.op = "addInvoice" => c.i \in Invoice
      BY DEF IssuesNothing, Shapes, Shape
    <3> QED
      BY <3>1 DEF Budget, CallsOnce, IssuesNothing, Lists, Adding
  <2>2. CallsOnce
    BY DEF Budget
  <2> QED
    BY <2>1, <2>2 DEF CallsOnce, Lists, Adding
<1>7. \A i \in Invoice : invoices'[i].state # "none" => invoices'[i].memo = DirectionOf(i[1])
  BY DEF Budget, Memos, IssuesNothing
<1>8. \A r \in Reading :
        outcome'[r] \in {"unread", "asked"} \/ Listing(r)' => Untouched(r)'
  BY <1>4, <1>5 DEF Budget, Fresh, IssuesNothing
<1>9. AllWithin'
  BY <1>3 DEF AllWithin, WithinReading, Issued
<1>10. Fresh'
  BY <1>8 DEF Fresh, Untouched, Listing, Issued
<1>11. Memos'
  BY <1>7 DEF Memos, DirectionOf
<1> QED
  BY <1>6, <1>9, <1>10, <1>11 DEF Budget

(* A reading that passes asks for the channels.                            *)
LEMMA BudgetPassed ==
  ASSUME Budget, Shapes, AnswerInv, NEW c \in calls, PassFirst(c)
  PROVE  Budget'
<1> DEFINE r == c.r
<1>1. /\ c.op = "then" /\ r \in Reading /\ outcome[r] = "asked"
      /\ outcome \in [Reading -> {"unread", "asked", "passed", "dropped"}]
      /\ UNCHANGED invoices
  BY DEF PassFirst, Shapes, Shape, AnswerInv, AnswerTypes, Asking, lnd
<1>2. CASE outcome' = [outcome EXCEPT ![r] = "dropped"] /\ Replace(c, {})
  <2>1. IssuesNothing
    BY <1>1, <1>2 DEF IssuesNothing, Replace
  <2> QED
    BY <2>1, BudgetQuiet
<1>3. CASE outcome' = [outcome EXCEPT ![r] = "passed"] /\ Replace(c, {List(r)})
  <2>1. /\ calls' = (calls \ {c}) \cup {List(r)}
        /\ List(r).op = "listChannels" /\ List(r).r = r
    BY <1>3 DEF Replace, List
  <2>2. /\ outcome'[r] = "passed"
        /\ \A s \in Reading : s # r => outcome'[s] = outcome[s]
    BY <1>1, <1>3
  <2> HIDE DEF r
  <2>3. \A i \in Invoice, a \in Nat : Issued(i, a)' => Issued(i, a)
    BY <1>1, <2>1 DEF Issued
  <2>4. \A s \in Reading : <<s, 1>> \in Invoice /\ <<s, 2>> \in Invoice
    OBVIOUS
  <2>5. \A s \in Reading : WithinReading(s)'
    BY <2>3, <2>4 DEF Budget, AllWithin, WithinReading
  <2>6. \A s \in Reading : Untouched(s) => Untouched(s)'
    BY <2>3, <2>4 DEF Untouched
  <2>7. \A s \in Reading : Listing(s)' => Listing(s) \/ s = r
    BY <2>1 DEF Listing
  <2>8. \A s \in Reading :
          outcome'[s] \in {"unread", "asked"} \/ Listing(s)' => Untouched(s)'
    BY <1>1, <2>2, <2>6, <2>7 DEF Budget, Fresh
  <2>9. CallsOnce'
    <3>1. \A d \in calls : d.op = "listChannels" => d.r \in Reading /\ d.r # r
      BY <1>1 DEF Budget, CallsOnce, Shapes, Shape, Lists, Adding
    <3> QED
      BY <1>1, <2>1, <2>2, <3>1 DEF Budget, CallsOnce, Lists, Adding
  <2>10. AllWithin'
    BY <2>5 DEF AllWithin, WithinReading, Issued
  <2>11. Fresh'
    BY <2>8 DEF Fresh, Untouched, Listing, Issued
  <2>12. Memos'
    BY <1>1 DEF Budget, Memos, DirectionOf
  <2> QED
    BY <2>9, <2>10, <2>11, <2>12 DEF Budget
<1> QED
  BY <1>2, <1>3 DEF PassFirst

(* An invoice carries the amount it was issued with.                       *)
LEMMA BudgetInvoiced ==
  ASSUME Budget, Shapes, ChannelTypes, NEW c \in calls, AddInvoice(c),
         invoices' # invoices
  PROVE  Budget'
<1> DEFINE i == c.i
<1>1. /\ c.op = "addInvoice" /\ i \in Invoice /\ c.amount \in Nat
      /\ invoices' = [invoices EXCEPT ![i] =
           [state |-> "open", memo |-> DirectionOf(i[1]), amount |-> c.amount, via |-> {}]]
      /\ calls' = (calls \ {c}) \cup {ListPending(i)} /\ ListPending(i).op = "listInvoices"
      /\ UNCHANGED outcome
  BY DEF AddInvoice, lndAddInvoice, Replace, ListPending, Shapes, Shape, household
<1>2. invoices \in [Invoice -> InvoiceState]
  BY DEF ChannelTypes
<1>3. /\ invoices'[i].state = "open" /\ invoices'[i].memo = DirectionOf(i[1])
      /\ invoices'[i].amount = c.amount
      /\ \A j \in Invoice : j # i => invoices'[j] = invoices[j]
  BY <1>1, <1>2
<1> HIDE DEF i
<1>4. \A j \in Invoice, a \in Nat : Issued(j, a)' => Issued(j, a)
  BY <1>1, <1>3 DEF Issued, i
<1>5. \A r \in Reading : <<r, 1>> \in Invoice /\ <<r, 2>> \in Invoice
  OBVIOUS
<1>6. \A r \in Reading : WithinReading(r)'
  BY <1>4, <1>5 DEF Budget, AllWithin, WithinReading
<1>7. \A r \in Reading : Untouched(r) => Untouched(r)'
  BY <1>4, <1>5 DEF Untouched
<1>8. \A r \in Reading :
        outcome'[r] \in {"unread", "asked"} \/ Listing(r)' => Untouched(r)'
  BY <1>1, <1>7 DEF Budget, Fresh, Listing
<1>9. CallsOnce'
  <2>1. \A d \in calls' : d.op = "addInvoice" => d \in calls /\ d.i \in Invoice /\ d.i # i
    BY <1>1 DEF Budget, CallsOnce, Shapes, Shape, Lists, Adding, i
  <2> QED
    BY <1>1, <1>3, <2>1 DEF Budget, CallsOnce, Lists, Adding
<1>10. \A j \in Invoice : invoices'[j].state # "none" => invoices'[j].memo = DirectionOf(j[1])
  BY <1>3 DEF Budget, Memos
<1>11. AllWithin'
  BY <1>6 DEF AllWithin, WithinReading, Issued
<1>12. Fresh'
  BY <1>8 DEF Fresh, Untouched, Listing, Issued
<1>13. Memos'
  BY <1>10 DEF Memos, DirectionOf
<1> QED
  BY <1>9, <1>11, <1>12, <1>13 DEF Budget

(* What lndSendMeterDelta sends is within the reading.                     *)
LEMMA SentShare ==
  ASSUME ChannelTypes, NEW c \in calls, Shape(c), ReceiveChannels(c)
  PROVE  \E a, b \in Nat :
           /\ a + b <= Magnitude(MeterDelta[c.r])
           /\ \A d \in calls' : \/ d \in calls \ {c} \/ d \in Create(c.r)
                               \/ d \in Send(c.r, 1, a) \/ d \in Send(c.r, 2, b)
<1> DEFINE r == c.r
           k == channelOf[HouseholdOf[r]][DirectionOf(r)]
           whole == Magnitude(MeterDelta[r])
<1>1. r \in Reading /\ MeterDelta[r] \in Int
  BY DEF ReceiveChannels, Shape
<1>2. whole \in Nat
  BY <1>1 DEF Magnitude
<1>3. 0 \in Nat /\ whole + 0 = whole
  BY <1>2
<1>0. CASE calls' = (calls \ {c}) \cup {}
  <2> WITNESS 0 \in Nat, 0 \in Nat
  <2> QED
    BY <1>0, <1>2, <1>3
<1>4. CASE calls' = (calls \ {c}) \cup (Create(r) \cup Send(r, 1, whole))
  <2> HIDE DEF whole
  <2> WITNESS whole \in Nat, 0 \in Nat
  <2> QED
    BY <1>2, <1>3, <1>4 DEF whole
<1>5. CASE calls' = (calls \ {c}) \cup Send(r, 1, whole)
  <2> HIDE DEF whole
  <2> WITNESS whole \in Nat, 0 \in Nat
  <2> QED
    BY <1>2, <1>3, <1>5 DEF whole
<1>6. CASE /\ Active(k) /\ channels[k].spendable < whole
           /\ calls' = (calls \ {c}) \cup TwoParts(r, channels[k].spendable)
  <2> DEFINE a == channels[k].spendable
             b == whole - a
  <2>1. channels[k] \in ChannelState
    BY <1>6 DEF Active, ChannelTypes
  <2>2. a \in Nat
    BY <2>1 DEF ChannelState
  <2>3. b \in Nat /\ a + b <= whole
    <3>1. a < whole
      BY <1>6
    <3> HIDE DEF a, whole
    <3> QED
      BY <1>2, <2>2, <3>1
  <2>4. calls' = (calls \ {c}) \cup (Send(r, 1, a) \cup Send(r, 2, b))
    BY <1>6 DEF TwoParts
  <2> HIDE DEF a, b
  <2> QED
    BY <2>2, <2>3, <2>4
<1> QED
  BY <1>0, <1>4, <1>5, <1>6 DEF ReceiveChannels, Replace

LEMMA BudgetSent ==
  ASSUME Budget, Shapes, ChannelTypes, NEW c \in calls, ReceiveChannels(c)
  PROVE  Budget'
<1>0. Shape(c)
  BY DEF Shapes
<1> DEFINE r == c.r
           whole == Magnitude(MeterDelta[r])
<1>1. /\ c.op = "listChannels" /\ r \in Reading
      /\ UNCHANGED <<invoices, outcome>>
  BY <1>0 DEF ReceiveChannels, Shape, lnd, household
<1>2. PICK a \in Nat, b \in Nat :
        /\ a + b <= whole
        /\ \A d \in calls' : \/ d \in calls \ {c} \/ d \in Create(r)
                            \/ d \in Send(r, 1, a) \/ d \in Send(r, 2, b)
  BY <1>0, SentShare
<1>3. /\ \A d \in Create(r) : d.op = "open"
      /\ \A d \in Send(r, 1, a) : /\ d.op = "addInvoice" /\ d.i = <<r, 1>>
                                 /\ d.amount = a /\ a # 0 /\ d = Add(<<r, 1>>, a)
      /\ \A d \in Send(r, 2, b) : /\ d.op = "addInvoice" /\ d.i = <<r, 2>>
                                 /\ d.amount = b /\ b # 0 /\ d = Add(<<r, 2>>, b)
  BY DEF Create, Open, Send, Add
<1>4. whole \in Int
  BY <1>1 DEF Magnitude
<1>5. Untouched(r)
  BY <1>1 DEF Budget, Fresh, Listing
<1>6. \A s \in Reading : <<s, 1>> \in Invoice /\ <<s, 2>> \in Invoice
  OBVIOUS
<1> HIDE DEF r, whole
<1>7. \A d \in calls' : Lists(d) => d \in calls \ {c} /\ d.r # r
  BY <1>1, <1>2, <1>3 DEF Budget, CallsOnce, Lists, r
<1>8. ASSUME NEW s \in Reading, NEW p \in {1, 2}, NEW x \in Nat, Issued(<<s, p>>, x)'
      PROVE  \/ s # r /\ Issued(<<s, p>>, x)
             \/ s = r /\ p = 1 /\ x = a /\ a # 0
             \/ s = r /\ p = 2 /\ x = b /\ b # 0
  <2>1. CASE Issued(<<s, p>>, x)
    BY <1>5, <2>1 DEF Untouched
  <2>2. CASE ~Issued(<<s, p>>, x)
    <3>1. PICK d \in calls' : Adding(d) /\ d.i = <<s, p>> /\ d.amount = x
      BY <1>1, <1>8, <2>2 DEF Issued, Adding
    <3>2. d \notin calls
      BY <2>2, <3>1 DEF Issued, Adding
    <3>3. d \in Send(r, 1, a) \/ d \in Send(r, 2, b)
      BY <1>2, <1>3, <3>1, <3>2 DEF Adding
    <3> QED
      BY <1>3, <3>1, <3>3
  <2> QED
    BY <2>1, <2>2
<1>9. \A s \in Reading : s # r /\ Untouched(s) => Untouched(s)'
  BY <1>8 DEF Untouched
<1>10. ASSUME NEW s \in Reading PROVE WithinReading(s)'
  <2>1. CASE s = r
    BY <1>2, <1>4, <1>8, <2>1 DEF WithinReading, whole
  <2>2. CASE s # r
    <3>1. WithinReading(s)
      BY DEF Budget, AllWithin
    <3> QED
      BY <1>8, <2>2, <3>1 DEF WithinReading
  <2> QED
    BY <2>1, <2>2
<1>11. AllWithin'
  BY <1>10 DEF AllWithin, WithinReading, Issued
<1>12. Fresh'
  <2>1. \A s \in Reading : Listing(s)' => Listing(s) /\ s # r
    BY <1>7 DEF Listing, Lists
  <2>2. outcome'[r] = "passed"
    BY <1>1 DEF Budget, CallsOnce, Lists, r
  <2>3. \A s \in Reading :
          outcome'[s] \in {"unread", "asked"} \/ Listing(s)' => Untouched(s)'
    BY <1>1, <1>9, <2>1, <2>2 DEF Budget, Fresh
  <2> QED
    BY <2>3 DEF Fresh, Untouched, Listing, Issued
<1>13. CallsOnce'
  <2>1. \A d \in calls : Adding(d) => d.i \in Invoice /\ d.i # <<r, 1>> /\ d.i # <<r, 2>>
    <3>1. SUFFICES ASSUME NEW d \in calls, Adding(d)
                   PROVE  d.i \in Invoice /\ d.i # <<r, 1>> /\ d.i # <<r, 2>>
      OBVIOUS
    <3>2. d.i \in Invoice /\ d.amount \in Nat
      BY <3>1 DEF Shapes, Shape, Adding
    <3>3. Issued(d.i, d.amount)
      BY <3>1 DEF Issued, Adding
    <3> QED
      BY <1>5, <3>2, <3>3 DEF Untouched
  <2>2. \A d \in calls' : Adding(d) =>
          \/ d \in calls /\ d.i # <<r, 1>> /\ d.i # <<r, 2>>
          \/ d = Add(<<r, 1>>, a) /\ d.i = <<r, 1>>
          \/ d = Add(<<r, 2>>, b) /\ d.i = <<r, 2>>
    BY <1>2, <1>3, <2>1 DEF Adding
  <2>3. <<r, 1>> # <<r, 2>>
    OBVIOUS
  <2>4. \A d, e \in calls' : Adding(d) /\ Adding(e) /\ d.i = e.i => d = e
    BY <2>2, <2>3 DEF Budget, CallsOnce
  <2>5. \A d, e \in calls' : Lists(d) /\ Lists(e) /\ d.r = e.r => d = e
    BY <1>7 DEF Budget, CallsOnce
  <2>6. \A d \in calls' : Lists(d) => outcome'[d.r] = "passed"
    BY <1>1, <1>7 DEF Budget, CallsOnce
  <2>7. invoices[<<r, 1>>].state = "none" /\ invoices[<<r, 2>>].state = "none"
    <3>1. \A i \in Invoice : invoices[i].amount \in Nat
      BY DEF ChannelTypes, InvoiceState
    <3> QED
      BY <1>1, <1>5, <1>6, <3>1 DEF Untouched, Issued, r
  <2>8. \A d \in calls' : Adding(d) => invoices'[d.i].state = "none"
    BY <1>1, <2>2, <2>7 DEF Budget, CallsOnce
  <2> QED
    BY <2>4, <2>5, <2>6, <2>8 DEF CallsOnce, Adding, Lists
<1>14. Memos'
  BY <1>1 DEF Budget, Memos, DirectionOf
<1> QED
  BY <1>11, <1>12, <1>13, <1>14 DEF Budget

-----------------------------------------------------------------------------
Inv == Shapes /\ AnswerInv /\ Channels /\ PaymentInv /\ Budget

LEMMA InitInv == Init => Inv
<1> SUFFICES ASSUME Init PROVE Inv
  OBVIOUS
<1>1. /\ channels = [k \in Channel |-> [state |-> "free", odd |-> FALSE, spendable |-> 0]]
      /\ invoices = [i \in Invoice |->
                       [state |-> "none", memo |-> "up", amount |-> 0, via |-> {}]]
      /\ channelOf = [h \in Household |-> [d \in Direction |-> NoChannel]]
      /\ recorded = {} /\ lost = {}
  BY DEF Init, lndInit
<1>2. \A c \in calls : c.op = "open" /\ c.h \in Household /\ c.d \in Direction
  BY DEF Init, Opening, Open
<1>3. \A i \in Invoice : invoices[i].state = "none"
  BY <1>1
<1>4. Shapes
  BY <1>2 DEF Shapes, Shape
<1>5. AnswerInv
  <2>1. /\ outcome = [r \in Reading |-> "unread"] /\ under = [r \in Reading |-> 0]
        /\ nettingActive = [h \in Household |-> FALSE]
        /\ nettingStatus = [h \in Household |-> 0] /\ entityStatus = 1
    BY DEF Init
  <2>2. AnswerTypes
    BY <2>1 DEF AnswerTypes
  <2>3. LeftOutForAnother /\ \A h \in Household : ~nettingActive[h]
    BY <2>1 DEF LeftOutForAnother
  <2>4. \A c \in calls : ~Asking(c) /\ c.op # "answer"
    BY <1>2 DEF Asking
  <2> QED
    BY <2>2, <2>3, <2>4 DEF AnswerInv
<1>6. Channels
  <2>1. channels \in [Channel -> ChannelState]
    BY <1>1 DEF ChannelState
  <2>2. invoices \in [Invoice -> InvoiceState]
    BY <1>1 DEF InvoiceState, Direction
  <2>3. DOMAIN delta = Household
    BY DEF Init
  <2> QED
    BY <1>1, <2>1, <2>2, <2>3 DEF Channels, ChannelTypes, KnownInv
<1>7. PaymentInv
  BY <1>1, <1>2, <1>3 DEF PaymentInv, LostOnlyWithChannel
<1>8. Budget
  <2>1. \A r \in Reading : <<r, 1>> \in Invoice /\ <<r, 2>> \in Invoice
    OBVIOUS
  <2>2. \A r \in Reading : Untouched(r)
    BY <1>2, <1>3, <2>1 DEF Untouched, Issued
  <2>3. AllWithin
    BY <2>2 DEF AllWithin, WithinReading, Untouched
  <2>4. CallsOnce
    BY <1>2 DEF CallsOnce, Lists, Adding
  <2> QED
    BY <1>3, <2>2, <2>3, <2>4 DEF Budget, Fresh, Memos
<1> QED
  BY <1>4, <1>5, <1>6, <1>7, <1>8 DEF Inv

(* Steps that only end calls and start others which carry nothing.         *)
Idle(c) == c.op \notin {"ask", "answer", "then", "listChannels", "addInvoice", "put", "paid"}

LEMMA IdleCalls ==
  ASSUME Inv, Channels', Aging,
         \A c \in calls' : c \in calls \/ (Idle(c) /\ Shape(c)),
         \A c \in calls : c.op = "paid" => c \in calls',
         UNCHANGED <<invoices, recorded, lost, entityStatus, nettingActive, nettingStatus,
                     outcome, under>>
  PROVE  Inv'
<1>1. Shapes'
  BY DEF Inv, Shapes, Shape
<1>2. AnswerInv'
  BY AnswerQuiet DEF Inv, Idle, Asking
<1>3. PaymentInv'
  BY PaymentQuiet DEF Inv, Channels, Idle
<1>4. Budget'
  <2>1. IssuesNothing
    BY DEF IssuesNothing, Idle
  <2> QED
    BY <2>1, BudgetQuiet DEF Inv
<1> QED
  BY <1>1, <1>2, <1>3, <1>4 DEF Inv

LEMMA PutSensorStatsInv ==
  ASSUME Inv, NEW r \in Reading, PutSensorStats(r)
  PROVE  Inv'
<1>1. /\ outcome[r] = "unread" /\ outcome' = [outcome EXCEPT ![r] = "asked"]
      /\ calls' = calls \cup {Ask(r)} /\ Ask(r).op = "ask" /\ Ask(r).r = r
      /\ UNCHANGED <<channels, invoices, channelOf, recorded, lost, delta>>
  BY DEF PutSensorStats, Ask, lnd, entity
<1>2. Shapes'
  BY <1>1 DEF Inv, Shapes, Shape
<1>3. AnswerInv'
  BY AnswerAsked DEF Inv
<1>4. Channels'
  BY <1>1, ChannelsQuiet DEF Inv, Channels, ChannelTypes
<1>5. PaymentInv'
  BY <1>1, PaymentQuiet, SameAge DEF Inv, Channels
<1>6. IssuesNothing
  <2>1. outcome \in [Reading -> {"unread", "asked", "passed", "dropped"}]
    BY DEF Inv, AnswerInv, AnswerTypes
  <2>2. \A s \in Reading : outcome'[s] = IF s = r THEN "asked" ELSE outcome[s]
    BY <1>1, <2>1
  <2> QED
    BY <1>1, <2>2 DEF IssuesNothing
<1> QED
  BY <1>2, <1>3, <1>4, <1>5, <1>6, BudgetQuiet DEF Inv

LEMMA ReceiveStatusInv ==
  ASSUME Inv, NEW c \in calls, ReceiveStatus(c)
  PROVE  Inv'
<1>1. /\ c.op = "answer" /\ c.r \in Reading
      /\ calls' = (calls \ {c}) \cup {Then(c.r)}
      /\ UNCHANGED <<channels, invoices, channelOf, recorded, lost, delta, outcome>>
  BY DEF ReceiveStatus, Replace, Inv, Shapes, Shape, lnd, entity
<1>2. Then(c.r).op = "then" /\ Then(c.r).r = c.r
  BY DEF Then
<1>3. Shapes'
  BY <1>1, <1>2 DEF Inv, Shapes, Shape
<1>4. AnswerInv'
  BY AnswerReceived DEF Inv
<1>5. Channels'
  BY <1>1, ChannelsQuiet DEF Inv, Channels, ChannelTypes
<1>6. PaymentInv'
  BY <1>1, <1>2, PaymentQuiet, SameAge DEF Inv, Channels
<1>7. IssuesNothing
  BY <1>1, <1>2 DEF IssuesNothing
<1> QED
  BY <1>3, <1>4, <1>5, <1>6, <1>7, BudgetQuiet DEF Inv

LEMMA PassFirstInv ==
  ASSUME Inv, NEW c \in calls, PassFirst(c)
  PROVE  Inv'
<1>1. /\ c.op = "then" /\ c.r \in Reading
      /\ UNCHANGED <<channels, invoices, channelOf, recorded, lost, delta>>
  BY DEF PassFirst, Inv, Shapes, Shape, lnd, entity
<1>2. calls' = calls \ {c} \/ calls' = (calls \ {c}) \cup {List(c.r)}
  BY DEF PassFirst, Replace
<1>3. List(c.r).op = "listChannels" /\ List(c.r).r = c.r
  BY DEF List
<1>4. Shapes'
  BY <1>1, <1>2, <1>3 DEF Inv, Shapes, Shape
<1>5. AnswerInv'
  BY AnswerPassed DEF Inv
<1>6. Channels'
  BY <1>1, ChannelsQuiet DEF Inv, Channels, ChannelTypes
<1>7. PaymentInv'
  BY <1>1, <1>2, <1>3, PaymentQuiet, SameAge DEF Inv, Channels
<1>8. Budget'
  BY BudgetPassed DEF Inv
<1> QED
  BY <1>4, <1>5, <1>6, <1>7, <1>8 DEF Inv

LEMMA ReceiveChannelsInv ==
  ASSUME Inv, NEW c \in calls, ReceiveChannels(c)
  PROVE  Inv'
<1>1. /\ c.op = "listChannels" /\ Shape(c) /\ c.r \in Reading
      /\ UNCHANGED <<channels, invoices, household, entity>>
  BY DEF ReceiveChannels, Inv, Shapes, Shape, lnd
<1>2. PICK a \in Nat, b \in Nat :
        \A d \in calls' : \/ d \in calls \ {c} \/ d \in Create(c.r)
                        \/ d \in Send(c.r, 1, a) \/ d \in Send(c.r, 2, b)
  BY <1>1, SentShare DEF Inv, Channels
<1>3. \A d \in Create(c.r) : d.op = "open" /\ d.h \in Household /\ d.d \in Direction
  BY <1>1 DEF Create, Open, DirectionOf, Direction
<1>4. \A d \in Send(c.r, 1, a) \cup Send(c.r, 2, b) :
        d.op = "addInvoice" /\ d.i \in Invoice /\ d.amount \in Nat
  BY <1>1 DEF Send, Add
<1>5. Shapes'
  BY <1>2, <1>3, <1>4 DEF Inv, Shapes, Shape
<1>6. AnswerInv'
  BY <1>1, <1>2, <1>3, <1>4, AnswerQuiet DEF Inv, Asking, household, entity
<1>7. Channels'
  BY <1>1, ChannelsQuiet DEF Inv, Channels, ChannelTypes, household, entity
<1>8. \A d \in calls : d.op = "paid" => d \in calls'
  <2>1. calls \ {c} \subseteq calls'
    BY DEF ReceiveChannels, Replace
  <2> QED
    BY <1>1, <2>1
<1>9. PaymentInv'
  BY <1>1, <1>2, <1>3, <1>4, <1>8, PaymentQuiet, SameAge DEF Inv, Channels, entity
<1>10. Budget'
  BY BudgetSent DEF Inv, Channels
<1> QED
  BY <1>5, <1>6, <1>7, <1>9, <1>10 DEF Inv

LEMMA AddInvoiceInv ==
  ASSUME Inv, NEW c \in calls, AddInvoice(c)
  PROVE  Inv'
<1>1. /\ c.op = "addInvoice" /\ c.i \in Invoice
      /\ calls' = (calls \ {c}) \cup {ListPending(c.i)}
      /\ UNCHANGED <<household, entity>>
  BY DEF AddInvoice, Replace, Inv, Shapes, Shape
<1>2. ListPending(c.i).op = "listInvoices" /\ ListPending(c.i).i = c.i
  BY DEF ListPending
<1>3. Shapes'
  BY <1>1, <1>2 DEF Inv, Shapes, Shape
<1>4. AnswerInv'
  BY <1>1, <1>2, AnswerQuiet DEF Inv, Asking, household, entity
<1>5. invoices[c.i].state = "none"
  BY <1>1 DEF Inv, Budget, CallsOnce, Adding
<1>6. CASE invoices' # invoices
  <2>1. Channels' /\ PaymentInv'
    BY <1>5, <1>6, NewInvoice DEF Inv
  <2>2. Budget'
    BY <1>6, BudgetInvoiced DEF Inv, Channels
  <2> QED
    BY <1>3, <1>4, <2>1, <2>2 DEF Inv
<1>7. CASE invoices' = invoices
  <2>1. UNCHANGED channels
    BY DEF AddInvoice
  <2>2. Channels'
    BY <1>1, <1>7, <2>1, ChannelsQuiet DEF Inv, Channels, ChannelTypes, household, entity
  <2>3. PaymentInv'
    BY <1>1, <1>2, <1>7, <2>1, PaymentQuiet, SameAge DEF Inv, Channels, entity
  <2>4. IssuesNothing
    BY <1>1, <1>2, <1>7 DEF IssuesNothing, household
  <2> QED
    BY <1>3, <1>4, <2>2, <2>3, <2>4, BudgetQuiet DEF Inv
<1> QED
  BY <1>6, <1>7

LEMMA SendPendingInv ==
  ASSUME Inv, NEW c \in calls, SendPending(c)
  PROVE  Inv'
<1>1. c.op = "listInvoices" /\ UNCHANGED <<channels, invoices, household, entity>>
  BY DEF SendPending, lnd
<1>2. PICK ready \in SUBSET Invoice :
        /\ \A i \in ready : Target(i) \in Channel
        /\ calls' = (calls \ {c}) \cup {Resent(i) : i \in ready}
  <2>1. PICK listed \in Listings :
          calls' = (calls \ {c}) \cup
            {Resent(i) : i \in {j \in Invoice : /\ invoices[j].state = "open"
                                               /\ Party(j) = Party(c.i)
                                               /\ Target(j) \in listed}}
    BY DEF SendPending, Replace
  <2> DEFINE x == {i \in Invoice : /\ invoices[i].state = "open"
                                  /\ Party(i) = Party(c.i)
                                  /\ Target(i) \in listed}
  <2> WITNESS x \in SUBSET Invoice
  <2> QED
    BY <2>1 DEF Listings
<1>3. \A i \in ready : Resent(i).op = "put" /\ Resent(i).i = i /\ Resent(i).k = Target(i)
  BY DEF Resent, PutEnergy
<1>4. \A d \in calls' : d \in calls \/ (d.op = "put" /\ d.i \in Invoice /\ d.k \in Channel)
  BY <1>2, <1>3
<1>5. Shapes'
  BY <1>4 DEF Inv, Shapes, Shape
<1>6. AnswerInv'
  BY <1>1, <1>4, AnswerQuiet DEF Inv, Asking, household, entity
<1>7. Channels'
  BY <1>1, ChannelsQuiet DEF Inv, Channels, ChannelTypes, household, entity
<1>8. PaymentInv'
  BY SentPayment DEF Inv
<1>9. IssuesNothing
  BY <1>1, <1>4 DEF IssuesNothing, household
<1> QED
  BY <1>5, <1>6, <1>7, <1>8, <1>9, BudgetQuiet DEF Inv

LEMMA ReceiveSettledInv ==
  ASSUME Inv, NEW c \in calls, ReceiveSettled(c)
  PROVE  Inv'
<1>1. /\ c.op = "settled" /\ calls' = calls \ {c}
      /\ UNCHANGED <<invoices, recorded, lost, entityStatus, nettingActive, nettingStatus,
                     outcome, under>>
  BY DEF ReceiveSettled, Replace, entity
<1>2. Channels' /\ Aging
  BY SettledChannels DEF Inv
<1> QED
  BY <1>1, <1>2, IdleCalls

LEMMA ReceiveOpenedInv ==
  ASSUME Inv, NEW c \in calls, ReceiveOpened(c)
  PROVE  Inv'
<1>1. /\ c.op = "open" /\ calls' = calls \ {c}
      /\ UNCHANGED <<invoices, recorded, lost, entityStatus, nettingActive, nettingStatus,
                     outcome, under>>
  BY DEF ReceiveOpened, Replace, entity
<1>2. Channels' /\ Aging
  BY OpenedChannels DEF Inv
<1> QED
  BY <1>1, <1>2, IdleCalls

LEMMA ConfirmInv ==
  ASSUME Inv, NEW k \in Channel, Confirm(k)
  PROVE  Inv'
<1>1. UNCHANGED <<calls, invoices, recorded, lost, entityStatus, nettingActive,
                  nettingStatus, outcome, under>>
  BY DEF Confirm, household, entity
<1>2. Channels' /\ Aging
  BY ConfirmedChannels DEF Inv
<1> QED
  BY <1>1, <1>2, IdleCalls

LEMMA RestartInv ==
  ASSUME Inv, NEW h \in Household, Restart(h)
  PROVE  Inv'
<1>1. /\ calls' = (calls \ CallsOf(h)) \cup Opening(h)
      /\ UNCHANGED <<invoices, outcome>>
  BY DEF Restart, lnd
<1>2. \A c \in Opening(h) : c.op = "open" /\ c.h \in Household /\ c.d \in Direction
  BY DEF Opening, Open
<1>3. Shapes'
  BY <1>1, <1>2 DEF Inv, Shapes, Shape
<1>4. AnswerInv' /\ Channels' /\ PaymentInv'
  BY AnswerRestart, RestartedChannels, RestartedPayment DEF Inv
<1>5. IssuesNothing
  BY <1>1, <1>2 DEF IssuesNothing
<1> QED
  BY <1>3, <1>4, <1>5, BudgetQuiet DEF Inv

LEMMA GetNettingActiveInv ==
  ASSUME Inv, NEW c \in calls, GetNettingActive(c)
  PROVE  Inv'
<1>1. /\ c.op = "ask" /\ c.r \in Reading /\ entityStatus \in Nat
      /\ calls' = (calls \ {c}) \cup {Answer(c.r, entityStatus)}
      /\ UNCHANGED <<channels, invoices, household, entity>>
  BY DEF GetNettingActive, Replace, Inv, Shapes, Shape, AnswerInv, AnswerTypes, lnd
<1>2. /\ Answer(c.r, entityStatus).op = "answer" /\ Answer(c.r, entityStatus).r = c.r
      /\ Answer(c.r, entityStatus).status = entityStatus
  BY DEF Answer
<1>3. Shapes'
  BY <1>1, <1>2 DEF Inv, Shapes, Shape
<1>4. AnswerInv'
  BY AnswerGiven DEF Inv
<1>5. Channels'
  BY <1>1, ChannelsQuiet DEF Inv, Channels, ChannelTypes, household, entity
<1>6. PaymentInv'
  BY <1>1, <1>2, PaymentQuiet, SameAge DEF Inv, Channels, entity
<1>7. IssuesNothing
  BY <1>1, <1>2 DEF IssuesNothing, household
<1> QED
  BY <1>3, <1>4, <1>5, <1>6, <1>7, BudgetQuiet DEF Inv

LEMMA PutLndEnergyInv ==
  ASSUME Inv, NEW c \in calls, PutLndEnergy(c)
  PROVE  Inv'
<1>1. /\ c.op = "put" /\ c.i \in Invoice /\ c.k \in Channel
      /\ UNCHANGED <<household, entity>>
      /\ \/ UNCHANGED invoices /\ calls' = calls \ {c}
         \/ /\ lndPay(c.i, c.k)
            /\ calls' = (calls \ {c}) \cup {Paid(c.i, c.k), Settled(c.i)}
  BY DEF PutLndEnergy, Replace, Inv, Shapes, Shape, lnd
<1>2. /\ Shape(Paid(c.i, c.k)) /\ Shape(Settled(c.i))
      /\ Paid(c.i, c.k).op = "paid" /\ Settled(c.i).op = "settled"
  BY <1>1 DEF Shape, Paid, Settled
<1>3. \A d \in calls' : d \in calls \/ d \in {Paid(c.i, c.k), Settled(c.i)}
  BY <1>1
<1>4. Shapes'
  BY <1>2, <1>3 DEF Inv, Shapes, Shape
<1>5. AnswerInv'
  BY <1>1, <1>2, <1>3, AnswerQuiet DEF Inv, Asking, household, entity
<1>6. Channels' /\ PaymentInv'
  BY PaidChannels DEF Inv
<1>7. IssuesNothing
  <2>1. invoices \in [Invoice -> InvoiceState]
    BY DEF Inv, Channels, ChannelTypes
  <2>2. \A i \in Invoice : /\ invoices'[i].state = "none" <=> invoices[i].state = "none"
                          /\ invoices'[i].memo = invoices[i].memo
                          /\ invoices'[i].amount = invoices[i].amount
    BY <1>1, <2>1 DEF lndPay, InvoiceState
  <2> QED
    BY <1>1, <1>2, <1>3, <2>2 DEF IssuesNothing, household
<1> QED
  BY <1>4, <1>5, <1>6, <1>7, BudgetQuiet DEF Inv

LEMMA RecordPaidInv ==
  ASSUME Inv, NEW c \in calls, RecordPaid(c)
  PROVE  Inv'
<1>1. /\ calls' = calls \ {c}
      /\ UNCHANGED <<invoices, household, entityStatus>>
  BY DEF RecordPaid, Replace, lnd
<1>2. Shapes'
  BY <1>1 DEF Inv, Shapes, Shape
<1>3. AnswerInv'
  BY <1>1, AnswerQuiet DEF Inv, household
<1>4. Channels' /\ PaymentInv'
  BY BookedPayment DEF Inv
<1>5. IssuesNothing
  BY <1>1 DEF IssuesNothing, household
<1> QED
  BY <1>2, <1>3, <1>4, <1>5, BudgetQuiet DEF Inv

LEMMA RunZokratesInv ==
  ASSUME Inv, RunZokrates
  PROVE  Inv'
<1>1. UNCHANGED <<channels, invoices, channelOf, recorded, lost, calls, outcome>>
  BY DEF RunZokrates, lnd, household
<1>2. DOMAIN delta' = Household
  BY DEF RunZokrates
<1>3. Shapes'
  BY <1>1 DEF Inv, Shapes, Shape
<1>4. AnswerInv'
  BY AnswerNetted DEF Inv
<1>5. Channels'
  BY <1>1, <1>2, ChannelsQuiet DEF Inv
<1>6. PaymentInv'
  BY <1>1, PaymentQuiet, SameAge DEF Inv, Channels
<1>7. IssuesNothing
  BY <1>1 DEF IssuesNothing
<1> QED
  BY <1>3, <1>4, <1>5, <1>6, <1>7, BudgetQuiet DEF Inv

LEMMA RestartEntityInv ==
  ASSUME Inv, RestartEntity
  PROVE  Inv'
<1>1. /\ UNCHANGED <<channels, invoices, channelOf, recorded, outcome>>
      /\ calls' \subseteq calls /\ DOMAIN delta' = Household
  BY DEF RestartEntity, lnd, household
<1>2. Shapes'
  BY <1>1 DEF Inv, Shapes, Shape
<1>3. AnswerInv'
  BY AnswerNetted DEF Inv
<1>4. Channels'
  BY <1>1, ChannelsQuiet DEF Inv
<1>5. PaymentInv'
  BY ForgottenPayment DEF Inv
<1>6. IssuesNothing
  BY <1>1 DEF IssuesNothing
<1> QED
  BY <1>2, <1>3, <1>4, <1>5, <1>6, BudgetQuiet DEF Inv

LEMMA NextInv == Inv /\ [Next]_vars => Inv'
<1> SUFFICES ASSUME Inv, [Next]_vars PROVE Inv'
  OBVIOUS
<1>1. CASE \E r \in Reading : PutSensorStats(r)
  BY <1>1, PutSensorStatsInv
<1>2. ASSUME NEW c \in calls, HouseholdStep(c) PROVE Inv'
  BY <1>2, ReceiveStatusInv, PassFirstInv, ReceiveChannelsInv, AddInvoiceInv, SendPendingInv,
     ReceiveSettledInv, ReceiveOpenedInv DEF HouseholdStep
<1>3. ASSUME NEW c \in calls, EntityStep(c) PROVE Inv'
  BY <1>3, GetNettingActiveInv, PutLndEnergyInv, RecordPaidInv DEF EntityStep
<1>4. CASE \E k \in Channel : Confirm(k)
  BY <1>4, ConfirmInv
<1>5. CASE \E h \in Household : Restart(h)
  BY <1>5, RestartInv
<1>6. CASE RunZokrates
  BY <1>6, RunZokratesInv
<1>8. CASE RestartEntity
  BY <1>8, RestartEntityInv
<1>7. CASE UNCHANGED vars
  <2>1. UNCHANGED <<calls, channels, invoices, channelOf, recorded, lost, delta,
                    entityStatus, nettingActive, nettingStatus, outcome, under>>
    BY <1>7 DEF vars, lnd, household, entity
  <2>2. Channels'
    BY <2>1, ChannelsQuiet DEF Inv, Channels, ChannelTypes
  <2> QED
    BY <2>1, <2>2, SameAge, IdleCalls
<1> QED
  BY <1>1, <1>2, <1>3, <1>4, <1>5, <1>6, <1>7, <1>8 DEF Next

THEOREM AlwaysInv == Spec => []Inv
BY InitInv, NextInv, PTL DEF Spec

(* The types, and that a channel a household knows is an open one of its   *)
(* own direction: whatever is lost, overtaken or restarted, no household   *)
(* of index.js keeps a closed channel or one of the other parity.          *)
THEOREM MeteringTypes == Spec => []TypeOK
<1>1. Inv => TypeOK
  <2> SUFFICES ASSUME Inv PROVE TypeOK
    OBVIOUS
  <2>1. lndType
    BY DEF Inv, Channels, ChannelTypes, ChannelState, InvoiceState, lndType
  <2> QED
    BY <2>1 DEF Inv, Channels, ChannelTypes, KnownInv, AnswerInv, AnswerTypes, PaymentInv,
              TypeOK
<1> QED
  BY <1>1, AlwaysInv, PTL

(* The entity (netting-entity/index.js) pays and books in two callbacks.   *)
(* A payment that is neither booked nor about to be was paid over a        *)
(* channel the household has closed, unless its peer was offline, the      *)
(* listing failed or the entity was restarted in between.                  *)
THEOREM PaymentsBooked == Spec => []LostOnlyWithChannel
<1>1. Inv => LostOnlyWithChannel
  BY DEF Inv, PaymentInv
<1> QED
  BY <1>1, AlwaysInv, PTL

(* For a reading the household server leaves out, another one of the       *)
(* household was let through under the status the household knew then, in  *)
(* whatever order answers arrive and their two callbacks run.              *)
THEOREM ReadingsPass == Spec => []LeftOutForAnother
<1>1. Inv => LeftOutForAnother
  BY DEF Inv, AnswerInv
<1> QED
  BY <1>1, AlwaysInv, PTL

-----------------------------------------------------------------------------
(***************************************************************************)
(* Metering implements Reports.                                            *)
(***************************************************************************)
LEMMA SameNets == \A o, v, w : R!Nets(o, v, w) <=> Nets(o, v, w)
<1>1. \A o, v : R!SumOver(o, v) = SumOver(o, v)
  BY DEF R!SumOver, SumOver
<1>2. \A x : R!Positive(x) = Positive(x) /\ R!Negative(x) = Negative(x)
  BY DEF R!Positive, Positive, R!Negative, Negative
<1>3. \A o, v : /\ R!Produced(o, v) = Produced(o, v)
                /\ R!Consumed(o, v) = Consumed(o, v)
  BY <1>1, <1>2 DEF R!Produced, Produced, R!Consumed, Consumed
<1>4. \A o : R!Keys(o) = Keys(o)
  BY DEF R!Keys, Keys
<1> QED
  BY <1>1, <1>3, <1>4 DEF R!Nets, Nets, R!Served, Served

LEMMA InitReports == Init => R!Init
<1> SUFFICES ASSUME Init PROVE R!Init
  OBVIOUS
<1>1. /\ invoices = [i \in Invoice |->
                       [state |-> "none", memo |-> "up", amount |-> 0, via |-> {}]]
      /\ recorded = {} /\ delta = [h \in Household |-> 0]
  BY DEF Init, lndInit
<1>2. Parts = [i \in Invoice |-> 0]
  BY <1>1 DEF Parts
<1>3. R!Part = Invoice /\ R!Keys(Order) = Household
  BY DEF R!Part, R!Keys, Keys
<1> QED
  BY <1>1, <1>2, <1>3 DEF R!Init

(* An invoice issues its part, with the reading's sign and in its budget.  *)
LEMMA InvoiceIssues ==
  ASSUME Inv, NEW c \in calls, AddInvoice(c), invoices' # invoices
  PROVE  R!Issue(c.i)
<1> DEFINE i == c.i
           r == c.i[1]
<1>1. /\ c.op = "addInvoice" /\ i \in Invoice /\ c.amount \in Nat
      /\ r \in Reading /\ MeterDelta[r] \in Int
      /\ invoices' = [invoices EXCEPT ![i] =
           [state |-> "open", memo |-> DirectionOf(r), amount |-> c.amount, via |-> {}]]
      /\ UNCHANGED <<recorded, delta>>
  BY DEF AddInvoice, lndAddInvoice, Inv, Shapes, Shape, entity
<1>2. /\ invoices \in [Invoice -> InvoiceState] /\ invoices' \in [Invoice -> InvoiceState]
      /\ invoices[i].state = "none"
  <2>1. Inv'
    BY AddInvoiceInv
  <2> QED
    BY <1>1, <2>1 DEF Inv, Channels, ChannelTypes, Budget, CallsOnce, Adding
<1>3. /\ invoices'[i].state = "open" /\ invoices'[i].memo = DirectionOf(r)
      /\ invoices'[i].amount = c.amount
      /\ \A j \in Invoice : j # i => invoices'[j] = invoices[j]
  BY <1>1, <1>2
<1>4. <<r, 1>> \in Invoice /\ <<r, 2>> \in Invoice /\ (i = <<r, 1>> \/ i = <<r, 2>>)
  BY <1>1
<1>5. AllWithin' /\ Memos'
  BY AddInvoiceInv DEF Inv, Budget
<1>6. c.amount # 0 /\ c.amount <= Magnitude(MeterDelta[r])
  <2>1. WithinReading(r) /\ Issued(i, c.amount)
    BY <1>1 DEF Inv, Budget, AllWithin, Issued
  <2> QED
    BY <1>1, <1>4, <2>1 DEF WithinReading
<1>7. (MeterDelta[r] > 0) <=> DirectionOf(r) = "up"
  BY <1>1, <1>6 DEF DirectionOf, Magnitude
<1> HIDE DEF i, r
<1>8. /\ Parts[i] = 0
      /\ Parts'[i] = IF DirectionOf(r) = "up" THEN c.amount ELSE -c.amount
      /\ \A j \in Invoice : j # i => Parts'[j] = Parts[j]
  BY <1>1, <1>2, <1>3 DEF Parts, Signed
<1>9. \A j \in Invoice : j[1] = r =>
        Parts'[j] = IF invoices'[j].state = "none" THEN 0
                    ELSE IF DirectionOf(r) = "up" THEN invoices'[j].amount
                                                  ELSE -invoices'[j].amount
  BY <1>5 DEF Memos, Parts, Signed, DirectionOf
<1>10. Magnitude(Parts'[<<r, 1>>] + Parts'[<<r, 2>>]) <= Magnitude(MeterDelta[r])
  <2> DEFINE a == IF invoices'[<<r, 1>>].state = "none" THEN 0 ELSE invoices'[<<r, 1>>].amount
             b == IF invoices'[<<r, 2>>].state = "none" THEN 0 ELSE invoices'[<<r, 2>>].amount
             m == Magnitude(MeterDelta[r])
  <2>1. a \in Nat /\ b \in Nat /\ m \in Nat
    BY <1>1, <1>2, <1>4 DEF InvoiceState, Magnitude
  <2>2. a + b <= m
    <3>1. WithinReading(r)'
      BY <1>1, <1>5 DEF AllWithin, WithinReading, Issued
    <3>2. \A p \in {1, 2}, x \in Nat :
            invoices'[<<r, p>>].state # "none" /\ invoices'[<<r, p>>].amount = x
              => Issued(<<r, p>>, x)'
      BY DEF Issued
    <3>3. invoices'[<<r, 1>>].amount \in Nat /\ invoices'[<<r, 2>>].amount \in Nat
      BY <1>2, <1>4 DEF InvoiceState
    <3>4. /\ \A p \in {1, 2}, x \in Nat : Issued(<<r, p>>, x)' => x <= m
          /\ \A x, y \in Nat : Issued(<<r, 1>>, x)' /\ Issued(<<r, 2>>, y)' => x + y <= m
      BY <3>1 DEF WithinReading
    <3>5. /\ \A p \in {1, 2}, x \in Nat :
               invoices'[<<r, p>>].state # "none" /\ invoices'[<<r, p>>].amount = x
                 => x <= m
          /\ \A x, y \in Nat :
               (/\ invoices'[<<r, 1>>].state # "none" /\ invoices'[<<r, 1>>].amount = x
                /\ invoices'[<<r, 2>>].state # "none" /\ invoices'[<<r, 2>>].amount = y)
               => x + y <= m
      BY <3>2, <3>4
    <3> HIDE DEF m
    <3> QED
      BY <2>1, <3>3, <3>5
  <2>3. \/ Parts'[<<r, 1>>] = a /\ Parts'[<<r, 2>>] = b
        \/ Parts'[<<r, 1>>] = -a /\ Parts'[<<r, 2>>] = -b
    BY <1>4, <1>9
  <2> HIDE DEF a, b, m
  <2>4. Magnitude(Parts'[<<r, 1>>] + Parts'[<<r, 2>>]) <= m
    BY <2>1, <2>2, <2>3 DEF Magnitude
  <2> QED
    BY <2>4 DEF m
<1>11. R!Magnitude(Parts'[<<r, 1>>] + Parts'[<<r, 2>>]) <= R!Magnitude(MeterDelta[r])
  BY <1>10 DEF R!Magnitude, Magnitude
<1>12. (Parts'[i] > 0) = (MeterDelta[r] > 0) /\ Parts'[i] # 0
  <2>1. Parts'[i] # 0 /\ (Parts'[i] > 0 <=> MeterDelta[r] > 0)
    BY <1>1, <1>6, <1>7, <1>8
  <2> QED
    BY <2>1
<1>13. R!Part = Invoice
  BY DEF R!Part
<1> QED
  BY <1>1, <1>8, <1>11, <1>12, <1>13 DEF R!Issue, i, r

LEMMA PaymentBooks ==
  ASSUME Inv, NEW c \in calls, RecordPaid(c)
  PROVE  R!Next \/ UNCHANGED R!vars
<1> DEFINE i == c.i
           k == c.k
<1>1. /\ c.op = "paid" /\ i \in Invoice /\ k \in Channel
      /\ invoices[i].state = "paid" /\ i \notin recorded /\ Fits(i, k)
      /\ UNCHANGED invoices
  BY DEF RecordPaid, Inv, Shapes, Shape, PaymentInv, lnd
<1>2. UNCHANGED Parts
  BY <1>1 DEF Parts, Signed
<1>3. CASE UNCHANGED <<delta, recorded>>
  BY <1>2, <1>3 DEF R!vars
<1>4. CASE Found(k) /\ Book(i, k)
  <2>1. /\ invoices[i].memo \in {"up", "down"} /\ invoices[i].amount \in Nat
        /\ invoices[i].amount # 0
    <3>1. invoices[i] \in InvoiceState
      BY <1>1 DEF Inv, Channels, ChannelTypes
    <3>2. invoices[i].amount \in Nat
      BY <3>1 DEF InvoiceState
    <3>3. Issued(i, invoices[i].amount) /\ i[1] \in Reading
      BY <1>1 DEF Issued
    <3>4. i = <<i[1], 1>> \/ i = <<i[1], 2>>
      BY <1>1
    <3>5. WithinReading(i[1])
      BY <3>3 DEF Inv, Budget, AllWithin
    <3> QED
      BY <3>1, <3>2, <3>3, <3>4, <3>5 DEF WithinReading, InvoiceState, Direction
  <2>2. /\ delta' = [delta EXCEPT ![HouseholdOf[i[1]]] = Parts[i]]
        /\ recorded' = recorded \cup {i}
    <3>1. Parts[i] = IF channels[k].odd THEN -invoices[i].amount ELSE invoices[i].amount
      BY <1>1, <2>1 DEF Parts, Signed, Fits
    <3> QED
      BY <1>4, <3>1 DEF Book, Party
  <2>3. Parts[i] # 0
    BY <1>1, <2>1 DEF Parts, Signed
  <2>4. R!Book(i)
    BY <1>1, <1>2, <2>2, <2>3 DEF R!Book
  <2>5. i \in R!Part
    BY <1>1 DEF R!Part
  <2> QED
    BY <2>4, <2>5 DEF R!Next
<1> QED
  BY <1>3, <1>4 DEF RecordPaid, Lose

LEMMA NettingNets ==
  ASSUME Inv, RunZokrates \/ RestartEntity
  PROVE  R!Next \/ UNCHANGED R!vars
<1>1. /\ UNCHANGED <<invoices, recorded>>
      /\ Nets(Order, delta, delta') \/ delta' = [h \in Household |-> 0]
  BY DEF RunZokrates, RestartEntity, lnd
<1>2. UNCHANGED Parts
  BY <1>1 DEF Parts, Signed
<1>3. R!Nets(Order, delta, delta') <=> Nets(Order, delta, delta')
  BY SameNets
<1>4. R!Keys(Order) = Household
  BY DEF R!Keys, Keys
<1> QED
  BY <1>1, <1>2, <1>3, <1>4 DEF R!Net, R!Forget, R!Next, R!vars

LEMMA QuietReports ==
  ASSUME Inv, NEW c \in calls,
         \/ ReceiveStatus(c) \/ PassFirst(c) \/ ReceiveChannels(c) \/ SendPending(c)
         \/ ReceiveSettled(c) \/ ReceiveOpened(c) \/ GetNettingActive(c) \/ PutLndEnergy(c)
  PROVE  UNCHANGED R!vars
<1>1. UNCHANGED <<recorded, delta>>
  BY DEF ReceiveStatus, PassFirst, ReceiveChannels, SendPending, ReceiveSettled,
         ReceiveOpened, GetNettingActive, PutLndEnergy, entity
<1>2. UNCHANGED Parts
  <2>1. CASE UNCHANGED invoices
    BY <2>1 DEF Parts, Signed
  <2>2. CASE PutLndEnergy(c) /\ ~UNCHANGED invoices
    <3>1. lndPay(c.i, c.k) /\ invoices \in [Invoice -> InvoiceState]
      BY <2>2 DEF PutLndEnergy, Inv, Channels, ChannelTypes, lnd
    <3>2. \A i \in Invoice : /\ invoices'[i].state = "none" <=> invoices[i].state = "none"
                            /\ invoices'[i].memo = invoices[i].memo
                            /\ invoices'[i].amount = invoices[i].amount
      BY <3>1 DEF lndPay, InvoiceState
    <3> QED
      BY <3>2 DEF Parts, Signed
  <2> QED
    BY <2>1, <2>2 DEF ReceiveStatus, PassFirst, ReceiveChannels, SendPending,
                      ReceiveSettled, ReceiveOpened, GetNettingActive, lnd
<1> QED
  BY <1>1, <1>2 DEF R!vars

(* Metering over payment channels is a reporting in parts: however many    *)
(* requests, callbacks and restarts of the household servers and of the    *)
(* entity (PUT /sensor-stats, PUT /lnd/energy) are interleaved, a part is  *)
(* booked at most once, with its reading's sign and within its budget.     *)
THEOREM MeteringImplementsReports == Spec => ReportedInParts
<1>1. ASSUME Inv, [Next]_vars PROVE [R!Next]_R!vars
  <2>1. ASSUME NEW c \in calls, HouseholdStep(c) \/ EntityStep(c)
        PROVE  [R!Next]_R!vars
    <3>1. CASE AddInvoice(c) /\ invoices' # invoices
      <4>1. c.i \in R!Part
        BY <1>1, <3>1 DEF AddInvoice, Inv, Shapes, Shape, R!Part
      <4>2. R!Issue(c.i)
        BY <1>1, <3>1, InvoiceIssues
      <4> QED
        BY <4>1, <4>2 DEF R!Next
    <3>2. CASE RecordPaid(c)
      BY <1>1, <3>2, PaymentBooks
    <3>3. CASE AddInvoice(c) /\ invoices' = invoices
      BY <3>3 DEF AddInvoice, entity, R!vars, Parts, Signed
    <3> QED
      BY <1>1, <2>1, <3>1, <3>2, <3>3, QuietReports DEF HouseholdStep, EntityStep
  <2>2. CASE \/ \E r \in Reading : PutSensorStats(r)
             \/ \E k \in Channel : Confirm(k)
             \/ \E h \in Household : Restart(h)
             \/ UNCHANGED vars
    <3>1. UNCHANGED <<invoices, recorded, delta>>
      BY <2>2 DEF PutSensorStats, Confirm, Restart, vars, lnd, entity
    <3> QED
      BY <3>1 DEF R!vars, Parts, Signed
  <2>3. CASE RunZokrates \/ RestartEntity
    BY <1>1, <2>3, NettingNets
  <2> QED
    BY <1>1, <2>1, <2>2, <2>3 DEF Next
<1> QED
  BY <1>1, InitReports, AlwaysInv, PTL DEF Spec, ReportedInParts, R!Spec
=============================================================================
