----------------------- MODULE TablesProofs -----------------------
(*****************************************************************************)
(* Theorems about the prediction panel and the migrations of the database.   *)
(* Of the panel: the requests a player may send are bounded in number, the   *)
(* markets are any. Of the migrations: the migrations are those of the code, *)
(* the processes that run them are any number.                               *)
(*****************************************************************************)
EXTENDS PredictionPanel, SchemaMigrations, FiniteSetTheorems, SequenceTheorems, TLAPS

------------------------------------------------------------------------------
(* Orders of the prediction panel. *)

MarketOrNone == Question \cup {NoQuestion}
Request == [n : Nat, what : {"list", "positions", "quote", "order", "placing"}, q : MarketOrNone]
Answer == [state : {"list", "idle", "quote", "pending", "filled", "error"}, q : MarketOrNone,
           markets : SUBSET Question, order : BOOLEAN]
Record == [state : {"idle", "pending", "filled", "error"}, markets : SUBSET Question, chosen : MarketOrNone]

(* A quote is asked for a market; of the answers only the last one to an     *)
(* order says that it is filled.                                             *)
PanelTypeOK ==
    /\ prediction \in Record
    /\ selectValue \in MarketOrNone
    /\ handling \subseteq Request
    /\ \A r \in handling : r.what = "quote" => r.q \in Question
    /\ told \in Seq(Answer)
    /\ \A i \in DOMAIN told : told[i].state = "filled" => told[i].order

(* What the player has not heard the end of: an order the server handles, or *)
(* the last answer to one, still on its way.                                 *)
OrdersTold == {i \in DOMAIN told : told[i].order}
Outstanding == Orders(handling) # {} \/ OrdersTold # {}

(* Unless the player is excused one order is outstanding at most, and its    *)
(* buttons stay locked: no frame gives them back.                            *)
OneOutstanding ==
    /\ \A r, s \in Orders(handling) : r = s
    /\ \A i, j \in OrdersTold : i = j
    /\ Orders(handling) = {} \/ OrdersTold = {}
LockedWhileOutstanding == Outstanding => "buy" \in locked /\ prediction.state \notin {"error", "filled"}

PanelInv == PanelTypeOK /\ (~excused => OneOutstanding /\ LockedWhileOutstanding)

(* A request that is sent joins those the server handles. *)
LEMMA RequestSent ==
    ASSUME NEW what, NEW q, SendStation(what, q)
    PROVE  \E r \in [n : Nat, what : {what}, q : {q}] : handling' = handling \cup {r}
<1>1. PICK n \in 1 .. MaxAsked : handling' = handling \cup {[n |-> n, what |-> what, q |-> q]}
  BY DEF SendStation
<1>2. n \in Nat
  BY PanelAssumption
<1> QED
  BY <1>1, <1>2

(* What a panel shows is a listed market or none. *)
LEMMA ShownType ==
    ASSUME NEW markets \in SUBSET Question, NEW chosen \in MarketOrNone
    PROVE  FirstListed(markets) \in MarketOrNone /\ ShownFirst(chosen, markets) \in MarketOrNone
BY DEF FirstListed, ShownFirst, MarketOrNone

(* An answer is one more message on its way; it ends an order when it        *)
(* answers the placing of one.                                               *)
LEMMA AnswerTold ==
    ASSUME told \in Seq(Answer), NEW r \in Request, NEW s, NEW markets \in SUBSET Question,
           s \in {"list", "idle", "quote", "pending", "filled", "error"}, Reply(r, s, markets)
    PROVE  /\ told' \in Seq(Answer)
           /\ DOMAIN told' = DOMAIN told \cup {Len(told) + 1}
           /\ \A i \in DOMAIN told : told'[i] = told[i]
           /\ told'[Len(told) + 1].state = s
           /\ told'[Len(told) + 1].order = (r.what = "placing")
           /\ Len(told) + 1 \notin DOMAIN told
<1> DEFINE a == [state |-> s, q |-> IF s = "error" THEN NoQuestion ELSE r.q,
                 markets |-> markets, order |-> r.what = "placing"]
<1>1. a \in Answer
  BY DEF Answer, Request, MarketOrNone
<1>2. told' = Append(told, a)
  BY DEF Reply
<1> QED
  BY <1>1, <1>2

(* Types are kept by every step of the panel and of the server. *)
LEMMA PanelTypeStep == PanelTypeOK /\ [PanelNext]_predictionVars => PanelTypeOK'
<1> SUFFICES ASSUME PanelTypeOK, [PanelNext]_predictionVars PROVE PanelTypeOK'
  OBVIOUS
<1> DEFINE PageOK == prediction \in Record /\ selectValue \in MarketOrNone
           HandlingOK == handling \subseteq Request /\ \A r \in handling : r.what = "quote" => r.q \in Question
           ToldOK == told \in Seq(Answer) /\ \A i \in DOMAIN told : told[i].state = "filled" => told[i].order
<1>0. CurrentMarket \in MarketOrNone /\ (CurrentMarket # NoQuestion => CurrentMarket \in Question)
  BY DEF CurrentMarket, PanelTypeOK, Record, MarketOrNone
<1>a. ASSUME NEW what \in {"list", "positions", "quote", "order"}, NEW q \in MarketOrNone,
             what = "quote" => q \in Question, SendStation(what, q), told' = told, PageOK'
      PROVE  PanelTypeOK'
  BY <1>a, RequestSent DEF PanelTypeOK, Request
<1>b. ASSUME UNCHANGED <<handling, told>>, PageOK' PROVE PanelTypeOK'
  BY <1>b DEF PanelTypeOK
<1>1. CASE MountPredictionPanel
  BY <1>1, <1>a, <1>b DEF MountPredictionPanel, LinkUnchanged, PanelTypeOK, MarketOrNone
<1>2. CASE LeavePanel
  BY <1>2, <1>b DEF LeavePanel, LinkUnchanged, PanelTypeOK
<1>3. CASE DrawPrediction
  BY <1>3, <1>b DEF DrawPrediction, LinkUnchanged, PanelTypeOK, MarketOrNone, Record
<1>4. ASSUME NEW q \in Question, Choose(q) PROVE PanelTypeOK'
  BY <1>4, <1>b DEF Choose, LinkUnchanged, PanelTypeOK, MarketOrNone, Record
<1>5. CASE PressRefresh
  BY <1>5, <1>a DEF PressRefresh, LinkUnchanged, PanelTypeOK, MarketOrNone
<1>6. CASE PressQuote
  BY <1>6, <1>a, <1>0 DEF PressQuote, LinkUnchanged, PanelTypeOK, Record
<1>7. CASE PressBuy
  BY <1>7, <1>a, <1>0 DEF PressBuy, LinkUnchanged, PanelTypeOK, Record
<1>8. CASE PressBuyUnsent
  BY <1>8, <1>b, <1>0 DEF PressBuyUnsent, LinkUnchanged, PanelTypeOK, Record
<1>9. CASE QuoteTimer \/ BuyTimer
  BY <1>9, <1>b DEF QuoteTimer, BuyTimer, LinkUnchanged, PanelTypeOK, Record
<1>10. CASE PredictionUi
  <2>1. told # <<>> /\ told' = Tail(told) /\ handling' = handling
    BY <1>10 DEF PredictionUi
  <2>2. Head(told) \in Answer /\ ToldOK'
    BY <2>1 DEF PanelTypeOK
  <2>3. PageOK'
    BY <1>10, <2>2, ShownType DEF PredictionUi, PanelTypeOK, Answer, Record, MarketOrNone
  <2> QED
    BY <2>1, <2>2, <2>3 DEF PanelTypeOK
<1>c. ASSUME NEW r \in handling, NEW s \in {"list", "idle", "quote", "pending", "filled", "error"},
             NEW markets \in SUBSET Question, Reply(r, s, markets), s = "filled" => r.what = "placing",
             HandlingOK', PageUnchanged
      PROVE  PanelTypeOK'
  <2>1. r \in Request /\ told \in Seq(Answer)
    BY DEF PanelTypeOK
  <2>2. ToldOK'
    BY <1>c, <2>1, AnswerTold DEF PanelTypeOK
  <2> QED
    BY <1>c, <2>2 DEF PageUnchanged, PanelTypeOK
<1>11. ASSUME NEW r \in handling,
              AnswerList(r) \/ AnswerPositions(r) \/ AnswerQuote(r) \/ OrderAnswered(r)
       PROVE  PanelTypeOK'
  <2>1. HandlingOK'
    BY <1>11 DEF AnswerList, AnswerPositions, AnswerQuote, OrderAnswered, Finished, PanelTypeOK
  <2>2. CASE AnswerList(r)
    BY <1>c, <2>1, <2>2 DEF AnswerList, ActiveMarkets
  <2>3. CASE AnswerPositions(r)
    BY <1>c, <2>1, <2>3 DEF AnswerPositions
  <2>4. CASE AnswerQuote(r)
    <3>1. PICK s \in QuoteStates : Reply(r, s, IF s = "quote" THEN {r.q} ELSE {})
      BY <2>4 DEF AnswerQuote
    <3>2. (IF s = "quote" THEN {r.q} ELSE {}) \in SUBSET Question
      BY <2>4 DEF AnswerQuote, PanelTypeOK
    <3> QED
      BY <1>c, <2>1, <2>4, <3>1, <3>2 DEF AnswerQuote, QuoteStates
  <2>5. CASE OrderAnswered(r)
    BY <1>c, <2>1, <2>5 DEF OrderAnswered
  <2> QED
    BY <1>11, <2>2, <2>3, <2>4, <2>5
<1>12. ASSUME NEW r \in handling, OrderPending(r) PROVE PanelTypeOK'
  <2>1. HandlingOK'
    BY <1>12 DEF OrderPending, Finished, PanelTypeOK, Request
  <2> QED
    BY <1>12, <1>c, <2>1 DEF OrderPending
<1>13. ASSUME NEW left \in SUBSET handling, Cut(left) PROVE PanelTypeOK'
  BY <1>13 DEF Cut, PanelTypeOK
<1>14. CASE UNCHANGED predictionVars
  BY <1>14, <1>b DEF predictionVars, PanelTypeOK
<1> QED
  BY <1>1, <1>2, <1>3, <1>4, <1>5, <1>6, <1>7, <1>8, <1>9, <1>10, <1>11, <1>12, <1>13, <1>14
  DEF PanelNext

(* Requests that are no orders, and answers to them, leave what is           *)
(* outstanding as it is.                                                     *)
LEMMA NoOrder ==
    ASSUME NEW what, what \notin {"order", "placing"}, NEW q, SendStation(what, q)
    PROVE  Orders(handling') = Orders(handling)
BY RequestSent DEF Orders

(* Unless the player is excused no step adds an order to an outstanding one, *)
(* nor unlocks the buttons before the order is answered.                     *)
LEMMA OrdersStep ==
    PanelInv /\ [PanelNext]_predictionVars /\ ~excused' => OneOutstanding' /\ LockedWhileOutstanding'
<1> DEFINE Inv == OneOutstanding /\ LockedWhileOutstanding
<1> SUFFICES ASSUME PanelTypeOK, ~excused => Inv, [PanelNext]_predictionVars, ~excused' PROVE Inv'
  BY DEF PanelInv
<1>a. ASSUME Inv, Orders(handling') \subseteq Orders(handling), OrdersTold' \subseteq OrdersTold,
             "buy" \in locked => "buy" \in locked',
             prediction.state \notin {"error", "filled"} => prediction'.state \notin {"error", "filled"}
      PROVE  Inv'
  BY <1>a DEF OneOutstanding, LockedWhileOutstanding, Outstanding
<1>b. ASSUME told' = told PROVE OrdersTold' = OrdersTold
  BY <1>b DEF OrdersTold
<1>1. CASE MountPredictionPanel \/ PressBuyUnsent \/ BuyTimer
  BY <1>1 DEF MountPredictionPanel, PressBuyUnsent, BuyTimer
<1>2. CASE LeavePanel
  BY <1>2, <1>a, <1>b DEF LeavePanel, LinkUnchanged
<1>3. CASE DrawPrediction
  <2>1. Inv /\ UNCHANGED <<handling, told, prediction>>
    BY <1>3 DEF DrawPrediction, LinkUnchanged
  <2>2. prediction.state \notin {"error", "filled"} => "buy" \notin Unlocked(prediction.state)
    BY DEF Unlocked
  <2>3. locked' = locked \ Unlocked(prediction.state)
    BY <1>3 DEF DrawPrediction
  <2>4. OrdersTold' = OrdersTold
    BY <2>1, <1>b
  <2> QED
    BY <2>1, <2>2, <2>3, <2>4 DEF OneOutstanding, LockedWhileOutstanding, Outstanding
<1>4. ASSUME NEW q \in Question, Choose(q) PROVE Inv'
  BY <1>4, <1>a, <1>b DEF Choose, LinkUnchanged, PanelTypeOK, Record
<1>5. CASE PressRefresh
  <2>1. Orders(handling') = Orders(handling)
    BY <1>5, NoOrder DEF PressRefresh
  <2> QED
    BY <1>5, <1>a, <1>b, <2>1 DEF PressRefresh, LinkUnchanged
<1>6. CASE PressQuote
  <2>1. Orders(handling') = Orders(handling)
    BY <1>6, NoOrder DEF PressQuote
  <2> QED
    BY <1>6, <1>a, <1>b, <2>1 DEF PressQuote, LinkUnchanged, PanelTypeOK, Record
<1>7. CASE PressBuy
  <2>1. Orders(handling) = {} /\ OrdersTold = {}
    BY <1>7 DEF PressBuy, LockedWhileOutstanding, Outstanding, OrdersTold
  <2>2. PICK r : handling' = handling \cup {r}
    BY <1>7, RequestSent DEF PressBuy
  <2>3. Orders(handling') \subseteq {r} /\ OrdersTold' = {}
    BY <1>7, <1>b, <2>1, <2>2 DEF PressBuy, LinkUnchanged, Orders
  <2>4. "buy" \in locked' /\ prediction'.state = "pending"
    BY <1>7 DEF PressBuy, PanelTypeOK, Record
  <2> QED
    BY <2>3, <2>4 DEF OneOutstanding, LockedWhileOutstanding
<1>8. CASE QuoteTimer
  BY <1>8, <1>a, <1>b DEF QuoteTimer, LinkUnchanged
<1>9. CASE PredictionUi
  <2>1. /\ Inv /\ told # <<>> /\ told' = Tail(told) /\ handling' = handling /\ locked' = locked
        /\ Head(told).state # "error"
    BY <1>9 DEF PredictionUi
  <2>2. DOMAIN told = 1 .. Len(told) /\ DOMAIN told' = 1 .. Len(told) - 1 /\ Head(told) = told[1]
    BY <2>1 DEF PanelTypeOK
  <2>3. \A i \in DOMAIN told' : i + 1 \in DOMAIN told /\ told'[i] = told[i + 1]
    BY <2>1, <2>2 DEF PanelTypeOK
  <2>4. \A i \in OrdersTold' : i \in Int /\ i + 1 \in OrdersTold
    BY <2>2, <2>3 DEF OrdersTold
  <2>5. OneOutstanding'
    <3>1. \A i, j \in OrdersTold' : i = j
      <4> SUFFICES ASSUME NEW i \in OrdersTold', NEW j \in OrdersTold' PROVE i = j
        OBVIOUS
      <4>1. i + 1 = j + 1
        BY <2>1, <2>4 DEF OneOutstanding
      <4> QED
        BY <2>4, <4>1
    <3> QED
      BY <2>1, <2>4, <3>1 DEF OneOutstanding
  <2>6. CASE Head(told).state = "filled"
    <3>1. 1 \in OrdersTold
      BY <2>1, <2>2, <2>6 DEF OrdersTold, PanelTypeOK
    <3>2. OrdersTold' = {}
      <4> SUFFICES ASSUME NEW i \in OrdersTold' PROVE FALSE
        OBVIOUS
      <4>1. i \in Int /\ i >= 1 /\ i + 1 = 1
        BY <2>1, <2>2, <2>4, <3>1 DEF OneOutstanding, OrdersTold
      <4> QED
        BY <4>1
    <3>3. Orders(handling') = {}
      BY <2>1, <3>1 DEF OneOutstanding
    <3> QED
      BY <2>5, <3>2, <3>3 DEF LockedWhileOutstanding, Outstanding
  <2>7. CASE Head(told).state # "filled"
    <3>1. Head(told) \in Answer
      BY <2>1 DEF PanelTypeOK
    <3>2. prediction'.state \notin {"error", "filled"}
      BY <1>9, <2>1, <2>7, <3>1 DEF PredictionUi, Answer, PanelTypeOK, Record
    <3>3. Outstanding' => Outstanding
      BY <2>1, <2>4 DEF Outstanding
    <3> QED
      BY <2>1, <2>5, <3>2, <3>3 DEF LockedWhileOutstanding
  <2> QED
    BY <2>6, <2>7
<1>c. ASSUME NEW r \in handling, NEW s \in {"list", "idle", "quote", "pending", "filled", "error"},
             NEW markets \in SUBSET Question, Reply(r, s, markets), r.what # "placing"
      PROVE  OrdersTold' = OrdersTold
  BY <1>c, AnswerTold DEF OrdersTold, PanelTypeOK
<1>10. ASSUME NEW r \in handling, AnswerList(r) PROVE Inv'
  <2>1. OrdersTold' = OrdersTold
    BY <1>10, <1>c DEF AnswerList, ActiveMarkets
  <2> QED
    BY <1>10, <1>a, <2>1 DEF AnswerList, Finished, Orders, PageUnchanged
<1>11. ASSUME NEW r \in handling, AnswerPositions(r) PROVE Inv'
  <2>1. OrdersTold' = OrdersTold
    BY <1>11, <1>c DEF AnswerPositions
  <2> QED
    BY <1>11, <1>a, <2>1 DEF AnswerPositions, Finished, Orders, PageUnchanged
<1>12. ASSUME NEW r \in handling, AnswerQuote(r) PROVE Inv'
  <2>1. PICK s \in QuoteStates : Reply(r, s, IF s = "quote" THEN {r.q} ELSE {})
    BY <1>12 DEF AnswerQuote
  <2>2. (IF s = "quote" THEN {r.q} ELSE {}) \in SUBSET Question /\ r.what # "placing"
    BY <1>12 DEF AnswerQuote, PanelTypeOK
  <2>3. OrdersTold' = OrdersTold
    BY <1>c, <2>1, <2>2 DEF QuoteStates
  <2> QED
    BY <1>12, <1>a, <2>3 DEF AnswerQuote, Finished, Orders, PageUnchanged
<1>13. ASSUME NEW r \in handling, OrderPending(r) PROVE Inv'
  <2>1. OrdersTold' = OrdersTold
    BY <1>13, <1>c DEF OrderPending
  <2>2. Inv /\ r \in Orders(handling) /\ UNCHANGED <<locked, prediction>>
    BY <1>13 DEF OrderPending, PageUnchanged, Orders
  <2>3. Orders(handling') \subseteq {[r EXCEPT !.what = "placing"]}
    BY <1>13, <2>2 DEF OrderPending, Finished, Orders, OneOutstanding
  <2> QED
    BY <2>1, <2>2, <2>3 DEF OneOutstanding, LockedWhileOutstanding, Outstanding
<1>14. ASSUME NEW r \in handling, OrderAnswered(r) PROVE Inv'
  <2>1. Inv /\ r \in Orders(handling) /\ UNCHANGED <<locked, prediction>> /\ handling' = handling \ {r}
    BY <1>14 DEF OrderAnswered, PageUnchanged, Orders, Finished
  <2>2. Orders(handling') = {} /\ OrdersTold = {}
    BY <2>1 DEF Orders, OneOutstanding
  <2>3. PICK s \in {"filled", "error"} : Reply(r, s, {})
    BY <1>14 DEF OrderAnswered
  <2>4. OrdersTold' \subseteq {Len(told) + 1}
    BY <2>2, <2>3, AnswerTold DEF OrdersTold, PanelTypeOK
  <2> QED
    BY <2>1, <2>2, <2>4 DEF OneOutstanding, LockedWhileOutstanding, Outstanding
<1>15. ASSUME NEW left \in SUBSET handling, Cut(left) PROVE Inv'
  BY <1>15, <1>a DEF Cut, Orders, OrdersTold
<1>16. CASE UNCHANGED predictionVars
  BY <1>16, <1>a, <1>b DEF predictionVars
<1> QED
  BY <1>1, <1>2, <1>3, <1>4, <1>5, <1>6, <1>7, <1>8, <1>9, <1>10, <1>11, <1>12, <1>13, <1>14, <1>15,
     <1>16 DEF PanelNext

(* The invariant holds before the first request. *)
LEMMA PanelInitially == PanelInit => PanelInv
<1> SUFFICES ASSUME PanelInit PROVE PanelInv
  OBVIOUS
<1>1. PanelTypeOK
  BY DEF PanelInit, PanelTypeOK, Record, MarketOrNone, FirstListed
<1>2. OneOutstanding /\ LockedWhileOutstanding
  BY DEF PanelInit, OneOutstanding, LockedWhileOutstanding, Outstanding, Orders, OrdersTold
<1> QED
  BY <1>1, <1>2 DEF PanelInv

(* A player who is not excused has one order with the server at most: the    *)
(* buttons that are locked on a press are not given back before the answer   *)
(* to it (the prediction panel and its messages).                            *)
THEOREM OneOrderOutstanding == PanelSpec => []OneOrderAtATime
<1>1. PanelInv /\ [PanelNext]_predictionVars => PanelInv'
  BY PanelTypeStep, OrdersStep DEF PanelInv
<1>2. PanelInv => OneOrderAtATime
  <2> SUFFICES ASSUME PanelInv, ~excused PROVE ~(Cardinality(Orders(handling)) > 1)
    BY DEF OneOrderAtATime
  <2>1. CASE Orders(handling) = {}
    BY <2>1, FS_EmptySet
  <2>2. CASE Orders(handling) # {}
    <3>1. PICK r : Orders(handling) = {r}
      BY <2>2 DEF PanelInv, OneOutstanding
    <3> QED
      BY <3>1, FS_Singleton
  <2> QED
    BY <2>1, <2>2
<1> QED
  BY PanelInitially, <1>1, <1>2, PTL DEF PanelSpec

------------------------------------------------------------------------------
(* The migrations of the database. *)

Running == {"up", "record", "down", "remove"}
Stage == Running \cup {"off", "done", "failed"}
ProcessState == [pc : Stage, todo : Seq(1 .. 8)]

Busy(p) == process[p].pc \in Running

SchemaTypeOK ==
    /\ records \subseteq 1 .. 8
    /\ process \in [Process -> ProcessState]
    /\ \A p \in Process : Busy(p) => process[p].todo # <<>>
    /\ torn \in BOOLEAN

(* Where the records end and what they stand for, as long as no rollback has *)
(* been torn: the versions 1 to m.  A run that migrates goes on with one of  *)
(* them, or the next; one that rolls back is alone and takes the last.       *)
Climbing(p, m) ==
    \E k \in 1 .. 8 :
        /\ k <= m + 1
        /\ process[p].todo = Upwards(k - 1)
        /\ process[p].pc = "record" => MIGRATIONS[k].adds \subseteq schema
Alone(p) == \A q \in Process \ {p} : ~Busy(q)
Descending(p, m) ==
    \E k \in 1 .. 8, n \in 1 .. 8 :
        /\ n <= k /\ process[p].todo = Downwards(k, n)
        /\ m = IF process[p].pc = "remove" /\ k = 1 THEN 0 ELSE k
Climbs(p) == process[p].pc \in {"up", "record"}
Descends(p) == process[p].pc \in {"down", "remove"}
RecordedUpTo(m) ==
    /\ records = 1 .. m
    /\ \A v \in records \ BeingRemoved : MIGRATIONS[v].adds \subseteq schema
    /\ \A p \in Process : Climbs(p) => Climbing(p, m)
    /\ \A p \in Process : Descends(p) => Alone(p) /\ Descending(p, m)

SchemaInv == SchemaTypeOK /\ (torn \/ \E m \in 0 .. 8 : RecordedUpTo(m))

-----------------------------------------------------------------------------
(* The migrations are numbered from one. *)
LEMMA EightMigrations == Len(MIGRATIONS) = 8 /\ Version = 1 .. 8
BY DEF MIGRATIONS, Version

(* What a migration drops was not created by the ones before it. *)
LEMMA DropsOnlyItsOwn ==
    \A v \in 1 .. 8 : \A w \in 1 .. v - 1 : MIGRATIONS[w].adds \cap DroppedParts(v) = {}
<1> USE DEF MIGRATIONS, Migration, DroppedParts, PartsOf, InitialSchema, PlayerStats, ChallengeIndexes, RateLimits,
            AuditLog, PredictionMarkets, LiquidityAndEvents, ClobOrders
<1> DEFINE Own(v) == \A w \in 1 .. v - 1 : MIGRATIONS[w].adds \cap DroppedParts(v) = {}
<1>1. Own(1)
  OBVIOUS
<1>2. Own(2)
  OBVIOUS
<1>3. Own(3)
  OBVIOUS
<1>4. Own(4)
  OBVIOUS
<1>5. Own(5)
  OBVIOUS
<1>6. Own(6)
  OBVIOUS
<1>7. Own(7)
  OBVIOUS
<1>8. Own(8)
  OBVIOUS
<1> HIDE DEF Own
<1>9. \A v \in 1 .. 8 : Own(v)
  BY <1>1, <1>2, <1>3, <1>4, <1>5, <1>6, <1>7, <1>8
<1> QED
  BY <1>9 DEF Own

(* The first migration creates the table the records are kept in. *)
LEMMA RecordsTable == "schema_migrations" \in MIGRATIONS[1].adds
BY DEF MIGRATIONS, InitialSchema, Migration

(* Rolling it back drops the table. *)
LEMMA RecordsTableDropped == "schema_migrations" \in DroppedParts(1)
BY DEF MIGRATIONS, InitialSchema, Migration, DroppedParts

(* What is to be applied, in order. *)
LEMMA UpwardsSeq ==
    ASSUME NEW from \in 0 .. 8
    PROVE  /\ Upwards(from) \in Seq(1 .. 8)
           /\ Len(Upwards(from)) = 8 - from
           /\ Upwards(from) = <<>> <=> from = 8
           /\ from < 8 => Head(Upwards(from)) = from + 1 /\ Tail(Upwards(from)) = Upwards(from + 1)
<1>1. Upwards(from) \in Seq(1 .. 8) /\ Len(Upwards(from)) = 8 - from
  BY EightMigrations DEF Upwards
<1>2. Upwards(from) = <<>> <=> from = 8
  BY <1>1
<1>3. ASSUME from < 8 PROVE Head(Upwards(from)) = from + 1
  BY <1>1, <1>3, EightMigrations DEF Upwards
<1>4. ASSUME from < 8 PROVE Tail(Upwards(from)) = Upwards(from + 1)
  BY <1>1, <1>4, EightMigrations DEF Upwards
<1> QED
  BY <1>1, <1>2, <1>3, <1>4

(* What is to be rolled back, in order. *)
LEMMA DownwardsSeq ==
    ASSUME NEW from \in 0 .. 8, NEW n \in 0 .. 8, n <= from
    PROVE  /\ Downwards(from, n) \in Seq(1 .. 8)
           /\ Len(Downwards(from, n)) = n
           /\ Downwards(from, n) = <<>> <=> n = 0
           /\ n > 0 => Head(Downwards(from, n)) = from /\ Tail(Downwards(from, n)) = Downwards(from - 1, n - 1)
<1>0. Downwards(from, n) = [i \in 1 .. n |-> from + 1 - i]
  BY DEF Downwards
<1>1. Downwards(from, n) \in Seq(1 .. 8) /\ Len(Downwards(from, n)) = n
  BY <1>0
<1>2. Downwards(from, n) = <<>> <=> n = 0
  BY <1>1
<1>3. ASSUME n > 0 PROVE Head(Downwards(from, n)) = from
  BY <1>0, <1>1, <1>3
<1>4. ASSUME n > 0 PROVE Tail(Downwards(from, n)) = Downwards(from - 1, n - 1)
  <2>1. Downwards(from - 1, n - 1) = [i \in 1 .. n - 1 |-> from - i]
    BY <1>4 DEF Downwards
  <2> QED
    BY <1>0, <1>1, <1>4, <2>1
<1> QED
  BY <1>1, <1>2, <1>3, <1>4

-----------------------------------------------------------------------------
(* The newest of the first m versions is m. *)
LEMMA NewestVersion ==
    ASSUME NEW S \in SUBSET (1 .. 8), S # {}
    PROVE  \E v \in S : \A w \in S : w <= v
<1> DEFINE UpTo(n) == \A w \in S : w <= n
<1>0. \A w \in S : w \in Int /\ w >= 1 /\ w <= 8
  OBVIOUS
<1> SUFFICES ASSUME \A v \in S : ~UpTo(v) PROVE FALSE
  OBVIOUS
<1>1. ASSUME NEW n \in 1 .. 8, NEW m \in 0 .. 7, n = m + 1, UpTo(n), NEW w \in S PROVE w <= m
  <2>1. n \notin S
    BY <1>1
  <2> QED
    BY <1>0, <1>1, <2>1
<1>7. UpTo(7)
  BY <1>0, <1>1
<1>6. UpTo(6)
  BY <1>1, <1>7
<1>5. UpTo(5)
  BY <1>1, <1>6
<1>4. UpTo(4)
  BY <1>1, <1>5
<1>3. UpTo(3)
  BY <1>1, <1>4
<1>2. UpTo(2)
  BY <1>1, <1>3
<1>8. UpTo(1)
  BY <1>1, <1>2
<1>9. UpTo(0)
  BY <1>1, <1>8
<1>10. PICK w \in S : TRUE
  OBVIOUS
<1> QED
  BY <1>0, <1>9, <1>10

(* The current version is zero or a migration's. *)
LEMMA CurrentVersion == records \subseteq 1 .. 8 => getCurrentVersion \in 0 .. 8
<1> SUFFICES ASSUME records \subseteq 1 .. 8 PROVE getCurrentVersion \in 0 .. 8
  OBVIOUS
<1>1. CASE records = {}
  BY <1>1 DEF getCurrentVersion
<1>2. CASE records # {}
  <2> DEFINE newest == CHOOSE v \in records : \A w \in records : w <= v
  <2>1. \E v \in records : \A w \in records : w <= v
    BY <1>2, NewestVersion
  <2>2. newest \in records
    BY <2>1
  <2>3. getCurrentVersion = newest \/ getCurrentVersion = 0
    BY DEF getCurrentVersion
  <2> HIDE DEF newest
  <2> QED
    BY <2>2, <2>3
<1> QED
  BY <1>1, <1>2

(* When the first m migrations are recorded the current version is m. *)
LEMMA CurrentVersionOf ==
    ASSUME NEW m \in 0 .. 8, records = 1 .. m, m > 0 => "schema_migrations" \in schema
    PROVE  getCurrentVersion = m
<1>1. CASE m = 0
  BY <1>1 DEF getCurrentVersion
<1>2. CASE m > 0
  <2>1. m \in records /\ \A w \in records : w <= m
    BY <1>2
  <2>2. \A v \in records : (\A w \in records : w <= v) => v = m
    BY <2>1
  <2> QED
    BY <1>2, <2>1, <2>2 DEF getCurrentVersion
<1> QED
  BY <1>1, <1>2

(* The rest of a sequence, element by element. *)
LEMMA LongTail ==
    ASSUME NEW t \in Seq(1 .. 8), t # <<>>, Len(t) # 1
    PROVE  Tail(t) \in Seq(1 .. 8) /\ Tail(t) # <<>>
<1>1. Tail(t) \in Seq(1 .. 8) /\ Len(Tail(t)) = Len(t) - 1
  BY HeadTailProperties
<1>2. Len(t) - 1 # 0
  OBVIOUS
<1>3. Tail(t) # <<>>
  BY <1>1, <1>2, EmptySeq, Zenon
<1> QED
  BY <1>1, <1>3

(* How a run goes on.                                                        *)
LEMMA GoesOn ==
    ASSUME SchemaTypeOK, NEW p \in Process, Busy(p), NEW pc \in Running, Onwards(p, pc)
    PROVE  /\ process' \in [Process -> ProcessState]
           /\ \A q \in Process \ {p} : process'[q] = process[q]
           /\ Len(process[p].todo) = 1 => process'[p] = [pc |-> "done", todo |-> <<>>]
           /\ Len(process[p].todo) # 1 => process'[p] = [pc |-> pc, todo |-> Tail(process[p].todo)]
           /\ Busy(p)' => process'[p].todo # <<>>
<1> DEFINE s == IF Len(process[p].todo) = 1 THEN [pc |-> "done", todo |-> <<>>]
                ELSE [pc |-> pc, todo |-> Tail(process[p].todo)]
<1>1. process[p] \in ProcessState /\ process[p].todo # <<>>
  BY DEF SchemaTypeOK
<1>2. process' = [process EXCEPT ![p] = s]
  BY DEF Onwards
<1>3. process[p].todo \in Seq(1 .. 8) /\ process[p].todo # <<>>
  BY <1>1 DEF ProcessState
<1>4. s \in ProcessState
  BY <1>3 DEF ProcessState, Stage, Running
<1>5. process'[p] = s
  BY <1>2 DEF SchemaTypeOK
<1>6. Busy(p)' => process'[p].todo # <<>>
  <2>1. CASE Len(process[p].todo) = 1
    BY <1>5, <2>1 DEF Busy, Running
  <2>2. CASE Len(process[p].todo) # 1
    <3>1. Tail(process[p].todo) # <<>>
      BY <1>3, <2>2, LongTail
    <3>2. process'[p].todo = Tail(process[p].todo)
      BY <1>5, <2>2
    <3> QED
      BY <3>1, <3>2
  <2> QED
    BY <2>1, <2>2
<1> QED
  BY <1>2, <1>4, <1>5, <1>6 DEF SchemaTypeOK

(* A process that goes on is at its next step. *)
LEMMA GoesTo ==
    ASSUME SchemaTypeOK, NEW p \in Process, NEW s \in ProcessState, s.pc \in Running => s.todo # <<>>,
           process' = [process EXCEPT ![p] = s]
    PROVE  /\ process' \in [Process -> ProcessState]
           /\ \A q \in Process : Busy(q)' => process'[q].todo # <<>>
           /\ process'[p] = s
           /\ \A q \in Process \ {p} : process'[q] = process[q]
BY DEF SchemaTypeOK, Busy

(* A process starts with what it listed, or is done. *)
LEMMA Starts ==
    ASSUME SchemaTypeOK, NEW p \in Process, NEW pc \in Running, NEW todo \in Seq(1 .. 8), Run(p, pc, todo)
    PROVE  /\ ~Busy(p)
           /\ process' \in [Process -> ProcessState]
           /\ \A q \in Process : Busy(q)' => process'[q].todo # <<>>
           /\ process'[p] = IF todo = <<>> THEN [pc |-> "done", todo |-> todo] ELSE [pc |-> pc, todo |-> todo]
           /\ \A q \in Process \ {p} : process'[q] = process[q]
<1> DEFINE s == IF todo = <<>> THEN [pc |-> "done", todo |-> todo] ELSE [pc |-> pc, todo |-> todo]
<1>1. ~Busy(p)
  BY DEF Run, Busy, Running
<1>2. process' = [process EXCEPT ![p] = s]
  BY DEF Run
<1>3. s \in ProcessState /\ (s.pc \in Running => s.todo # <<>>)
  BY DEF ProcessState, Stage, Running
<1> HIDE DEF s
<1>4. /\ process' \in [Process -> ProcessState]
      /\ \A q \in Process : Busy(q)' => process'[q].todo # <<>>
      /\ process'[p] = s
      /\ \A q \in Process \ {p} : process'[q] = process[q]
  BY <1>2, <1>3, GoesTo
<1> QED
  BY <1>1, <1>4 DEF s

(* A process that fails stops. *)
LEMMA Fails ==
    ASSUME SchemaTypeOK, NEW p \in Process, Failed(p)
    PROVE  /\ process' \in [Process -> ProcessState]
           /\ \A q \in Process : Busy(q)' => process'[q].todo # <<>>
           /\ process'[p] = [pc |-> "failed", todo |-> <<>>]
           /\ \A q \in Process \ {p} : process'[q] = process[q]
<1>1. [pc |-> "failed", todo |-> <<>>] \in ProcessState
  BY DEF ProcessState, Stage, Running
<1> QED
  BY <1>1, GoesTo DEF Failed, Running

(* A process that goes on has a shorter list. *)
LEMMA GoesOnTo ==
    ASSUME SchemaTypeOK, NEW p \in Process, Busy(p), NEW pc \in Running, Goto(p, pc)
    PROVE  /\ process' \in [Process -> ProcessState]
           /\ \A q \in Process : Busy(q)' => process'[q].todo # <<>>
           /\ process'[p] = [pc |-> pc, todo |-> process[p].todo]
           /\ \A q \in Process \ {p} : process'[q] = process[q]
<1> DEFINE s == [pc |-> pc, todo |-> process[p].todo]
<1>1. process[p] \in ProcessState /\ process[p].todo # <<>>
  BY DEF SchemaTypeOK
<1>2. s \in ProcessState /\ s.todo # <<>>
  BY <1>1 DEF ProcessState, Stage
<1>3. process' = [process EXCEPT ![p] = s]
  <2>1. [process[p] EXCEPT !.pc = pc] = s
    BY <1>1 DEF ProcessState
  <2>2. process' = [process EXCEPT ![p] = [process[p] EXCEPT !.pc = pc]]
    BY DEF Goto
  <2> QED
    BY <2>1, <2>2, Zenon
<1> HIDE DEF s
<1>4. /\ process' \in [Process -> ProcessState]
      /\ \A q \in Process : Busy(q)' => process'[q].todo # <<>>
      /\ process'[p] = s
      /\ \A q \in Process \ {p} : process'[q] = process[q]
  BY <1>2, <1>3, GoesTo
<1> QED
  BY <1>4 DEF s

(* The two lists of versions for the version a run has read.                 *)
LEMMA Lists ==
    ASSUME records \subseteq 1 .. 8, NEW steps \in {1, 2, 8}
    PROVE  /\ Upwards(getCurrentVersion) \in Seq(1 .. 8)
           /\ Downwards(getCurrentVersion, steps) \in Seq(1 .. 8)
<1>1. getCurrentVersion \in 0 .. 8
  BY CurrentVersion
<1>2. PICK n \in 0 .. 8 : n <= getCurrentVersion /\ Downwards(getCurrentVersion, steps) = Downwards(getCurrentVersion, n)
  <2>1. CASE steps < getCurrentVersion
    BY <1>1, <2>1
  <2>2. CASE ~(steps < getCurrentVersion)
    BY <1>1, <2>2 DEF Downwards
  <2> QED
    BY <2>1, <2>2
<1> QED
  BY <1>1, <1>2, UpwardsSeq, DownwardsSeq

(* Types are kept by every step of a process. *)
LEMMA SchemaTypeStep == SchemaTypeOK /\ [SchemaNext]_schemaVars => SchemaTypeOK'
<1> SUFFICES ASSUME SchemaTypeOK, [SchemaNext]_schemaVars PROVE SchemaTypeOK'
  OBVIOUS
<1>0. CASE UNCHANGED schemaVars
  BY <1>0 DEF schemaVars, SchemaTypeOK, Busy
<1> SUFFICES ASSUME NEW p \in Process,
                    \/ Connect(p) \/ MigrateUp(p) \/ ApplyUp(p) \/ ApplyCollides(p) \/ recordMigration(p)
                    \/ Rollback(p) \/ Reset(p) \/ ApplyDown(p) \/ removeMigrationRecord(p) \/ StopMigrating(p)
             PROVE  SchemaTypeOK'
  BY <1>0 DEF SchemaNext
<1>a. RollingBack \in BOOLEAN /\ Migrating \in BOOLEAN
  BY DEF RollingBack, Migrating
<1>1. CASE Connect(p) \/ MigrateUp(p)
  <2>1. runMigrations(p)
    BY <1>1 DEF Connect, MigrateUp
  <2>2. records' = records /\ torn' \in BOOLEAN
    BY <2>1 DEF runMigrations, Run, SchemaTypeOK
  <2> QED
    BY <2>1, <2>2, Lists, Starts DEF runMigrations, SchemaTypeOK, Running
<1>2. CASE Rollback(p) \/ Reset(p)
  <2>1. PICK steps \in {1, 2, 8} : rollbackMigrations(p, steps)
    BY <1>2, EightMigrations DEF Rollback, Reset
  <2>2. records' = records /\ torn' \in BOOLEAN
    BY <2>1 DEF rollbackMigrations, Run, SchemaTypeOK
  <2> QED
    BY <2>1, <2>2, Lists, Starts DEF rollbackMigrations, SchemaTypeOK, Running
<1>3. CASE ApplyUp(p)
  <2>1. Busy(p) /\ records' = records /\ torn' = torn /\ (Failed(p) \/ Goto(p, "record"))
    BY <1>3 DEF ApplyUp, Query, Busy, Running
  <2> QED
    BY <2>1, Fails, GoesOnTo DEF SchemaTypeOK, Running
<1>4. CASE ApplyCollides(p)
  BY <1>4, Fails DEF ApplyCollides, SchemaTypeOK
<1>5. CASE recordMigration(p)
  <2>1. Busy(p) /\ torn' = torn
    BY <1>5 DEF recordMigration, Busy, Running
  <2>2. First(p) \in 1 .. 8
    BY <2>1 DEF First, SchemaTypeOK, ProcessState
  <2>3. \/ Failed(p) /\ records' = records
        \/ Onwards(p, "up") /\ records' = records \cup {First(p)}
    BY <1>5 DEF recordMigration, Query
  <2> QED
    BY <2>1, <2>2, <2>3, Fails, GoesOn DEF SchemaTypeOK, Running, Busy
<1>6. CASE ApplyDown(p)
  <2>1. Busy(p) /\ records' \in {records, {}} /\ (Failed(p) \/ Goto(p, "remove"))
    BY <1>6 DEF ApplyDown, Query, Busy, Running
  <2>2. torn' \in BOOLEAN
    BY <1>6 DEF ApplyDown, SchemaTypeOK
  <2> QED
    BY <2>1, <2>2, Fails, GoesOnTo DEF SchemaTypeOK, Running
<1>7. CASE removeMigrationRecord(p)
  <2>1. Busy(p) /\ torn' = torn
    BY <1>7 DEF removeMigrationRecord, Busy, Running
  <2>2. \/ Failed(p) /\ records' = records
        \/ Onwards(p, "down") /\ records' = records \ {First(p)}
    BY <1>7 DEF removeMigrationRecord, Query
  <2> QED
    BY <2>1, <2>2, Fails, GoesOn DEF SchemaTypeOK, Running, Busy
<1>8. CASE StopMigrating(p)
  <2>1. Off \in ProcessState
    BY DEF Off, ProcessState, Stage, Running
  <2>2. torn' \in BOOLEAN
    BY <1>8 DEF StopMigrating, SchemaTypeOK
  <2> QED
    BY <1>8, <2>1, <2>2, GoesTo DEF StopMigrating, SchemaTypeOK, Off, Running
<1> QED
  BY <1>1, <1>2, <1>3, <1>4, <1>5, <1>6, <1>7, <1>8

-----------------------------------------------------------------------------
OnlyStep(p) == \A q \in Process \ {p} : process'[q] = process[q]
NoneDescends == \A q \in Process : ~Descends(q)
CreatedUpTo(m) == \A v \in 1 .. m : MIGRATIONS[v].adds \subseteq schema

(* Who climbs from m starts with m + 1. *)
LEMMA Upright ==
    ASSUME NEW k \in 1 .. 8
    PROVE  /\ Upwards(k - 1) \in Seq(1 .. 8)
           /\ Len(Upwards(k - 1)) = 9 - k
           /\ Head(Upwards(k - 1)) = k
           /\ Tail(Upwards(k - 1)) = Upwards(k)
<1>1. k - 1 \in 0 .. 8 /\ k - 1 < 8 /\ (k - 1) + 1 = k /\ 8 - (k - 1) = 9 - k
  OBVIOUS
<1> QED
  BY <1>1, UpwardsSeq

(* Who descends from m starts with m. *)
LEMMA Downright ==
    ASSUME NEW k \in 1 .. 8, NEW n \in 1 .. 8, n <= k
    PROVE  /\ Downwards(k, n) \in Seq(1 .. 8)
           /\ Len(Downwards(k, n)) = n
           /\ Head(Downwards(k, n)) = k
           /\ Tail(Downwards(k, n)) = Downwards(k - 1, n - 1)
<1>1. k \in 0 .. 8 /\ n \in 0 .. 8 /\ n > 0
  OBVIOUS
<1> QED
  BY <1>1, DownwardsSeq

(* The next migration of a climb is the one after what is recorded. *)
LEMMA NextClimbing ==
    ASSUME NEW p \in Process, NEW m \in 0 .. 8, NEW k \in 1 .. 8, k <= m + 1,
           process'[p].todo = Upwards(k - 1), process'[p].pc = "record" => MIGRATIONS[k].adds \subseteq schema'
    PROVE  Climbing(p, m)'
<1>1. Upwards(k - 1)' = Upwards(k - 1)
  BY DEF Upwards, MIGRATIONS
<1> QED
  BY <1>1 DEF Climbing

(* The next migration of a descent is the last recorded. *)
LEMMA NextDescending ==
    ASSUME NEW p \in Process, NEW m \in 0 .. 8, NEW k \in 1 .. 8, NEW n \in 1 .. 8, n <= k,
           process'[p].todo = Downwards(k, n), m = IF process'[p].pc = "remove" /\ k = 1 THEN 0 ELSE k
    PROVE  Descending(p, m)'
BY DEF Descending, Downwards

(* A step of a process while nobody rolls back: what is there stays, and more*)
(* may be recorded.                                                          *)
LEMMA ClimbStep ==
    ASSUME NEW m \in 0 .. 8, RecordedUpTo(m), NEW p \in Process, NEW m2 \in m .. 8,
           NoneDescends, OnlyStep(p), schema \subseteq schema', records' = 1 .. m2, CreatedUpTo(m2)',
           ~Descends(p)', Climbs(p)' => Climbing(p, m2)'
    PROVE  RecordedUpTo(m2)'
<1>1. BeingRemoved' = {} /\ NoneDescends'
  BY DEF BeingRemoved, OnlyStep, NoneDescends, Descends
<1>2. ASSUME NEW q \in Process, Climbs(q)' PROVE Climbing(q, m2)'
  <2>1. CASE q = p
    BY <1>2, <2>1
  <2>2. CASE q # p
    <3>1. PICK k \in 1 .. 8 :
              /\ k <= m + 1
              /\ process[q].todo = Upwards(k - 1)
              /\ process[q].pc = "record" => MIGRATIONS[k].adds \subseteq schema
      BY <1>2, <2>2 DEF RecordedUpTo, Climbing, Climbs, OnlyStep
    <3>2. k <= m2 + 1
      BY <3>1
    <3> QED
      BY <2>2, <3>1, <3>2 DEF Climbing, Upwards, OnlyStep
  <2> QED
    BY <2>1, <2>2
<1>3. \A v \in records' : MIGRATIONS[v].adds \subseteq schema'
  BY DEF CreatedUpTo
<1>4. \A q \in Process : Climbs(q)' => Climbing(q, m2)'
  BY <1>2
<1> QED
  BY <1>1, <1>3, <1>4 DEF RecordedUpTo, NoneDescends

(* A step of a process that has no run.                                      *)
LEMMA IdleStep ==
    ASSUME NEW m \in 0 .. 8, RecordedUpTo(m), NEW p \in Process, ~Busy(p), ~Busy(p)',
           UNCHANGED <<schema, records>>, OnlyStep(p)
    PROVE  RecordedUpTo(m)'
<1>1. BeingRemoved' = BeingRemoved
  BY DEF BeingRemoved, First, Busy, Running, OnlyStep
<1>2. ASSUME NEW q \in Process, Climbs(q)' PROVE Climbing(q, m)'
  <2>1. q # p
    BY <1>2 DEF Busy, Running, Climbs
  <2>2. Climbing(q, m) /\ process'[q] = process[q]
    BY <1>2, <2>1 DEF RecordedUpTo, Climbs, OnlyStep
  <2> QED
    BY <2>2 DEF Climbing, Upwards
<1>3. ASSUME NEW q \in Process, Descends(q)' PROVE Alone(q)' /\ Descending(q, m)'
  <2>1. q # p
    BY <1>3 DEF Busy, Running, Descends
  <2>2. Alone(q) /\ Descending(q, m) /\ process'[q] = process[q]
    BY <1>3, <2>1 DEF RecordedUpTo, Descends, OnlyStep
  <2>3. Alone(q)'
    BY <2>2 DEF Alone, Busy, OnlyStep
  <2> QED
    BY <2>2, <2>3 DEF Descending, Downwards
<1> QED
  BY <1>1, <1>2, <1>3 DEF RecordedUpTo

(* A step of the only process there is that rolls back or begins to.         *)
LEMMA DescendStep ==
    ASSUME NEW p \in Process, NEW m \in 0 .. 8, Alone(p), OnlyStep(p), records' = 1 .. m,
           \A v \in 1 .. m : v \notin BeingRemoved' => MIGRATIONS[v].adds \subseteq schema',
           ~Climbs(p)', Descends(p)' => Descending(p, m)'
    PROVE  RecordedUpTo(m)'
<1>1. Alone(p)'
  BY DEF Alone, Busy, OnlyStep
<1>2. \A q \in Process : Climbs(q)' \/ Descends(q)' => q = p
  BY <1>1 DEF Alone, Busy, Running, Climbs, Descends
<1> QED
  BY <1>1, <1>2 DEF RecordedUpTo

(* Where the processes are.                                                  *)
LEMMA NobodyDescends ==
    ASSUME NEW m \in 0 .. 8, RecordedUpTo(m), NoneDescends
    PROVE  getCurrentVersion = m /\ CreatedUpTo(m)
<1>1. BeingRemoved = {}
  BY DEF BeingRemoved, NoneDescends, Descends
<1>2. CreatedUpTo(m)
  BY <1>1 DEF RecordedUpTo, CreatedUpTo
<1>3. m > 0 => "schema_migrations" \in schema
  BY <1>2, RecordsTable DEF CreatedUpTo
<1> QED
  BY <1>2, <1>3, CurrentVersionOf DEF RecordedUpTo

(* A process that climbs does not descend. *)
LEMMA WhoClimbs ==
    ASSUME NEW m \in 0 .. 8, RecordedUpTo(m), NEW p \in Process, Climbs(p)
    PROVE  /\ NoneDescends /\ Busy(p)
           /\ \E k \in 1 .. 8 :
                 /\ k <= m + 1 /\ process[p].todo = Upwards(k - 1) /\ First(p) = k
                 /\ process[p].pc = "record" => MIGRATIONS[k].adds \subseteq schema
<1>1. NoneDescends /\ Busy(p)
  BY DEF RecordedUpTo, NoneDescends, Descends, Climbs, Alone, Busy, Running
<1>2. PICK k \in 1 .. 8 :
          /\ k <= m + 1 /\ process[p].todo = Upwards(k - 1)
          /\ process[p].pc = "record" => MIGRATIONS[k].adds \subseteq schema
  BY DEF RecordedUpTo, Climbing
<1>3. First(p) = k
  BY <1>2, Upright DEF First
<1> QED
  BY <1>1, <1>2, <1>3

(* A process that descends is alone. *)
LEMMA WhoDescends ==
    ASSUME NEW m \in 0 .. 8, RecordedUpTo(m), NEW p \in Process, Descends(p)
    PROVE  /\ Alone(p) /\ Busy(p)
           /\ BeingRemoved = IF process[p].pc = "remove" THEN {First(p)} ELSE {}
           /\ \E k \in 1 .. 8, n \in 1 .. 8 :
                 /\ n <= k /\ process[p].todo = Downwards(k, n) /\ First(p) = k
                 /\ m = IF process[p].pc = "remove" /\ k = 1 THEN 0 ELSE k
<1>1. Alone(p) /\ Busy(p)
  BY DEF RecordedUpTo, Descends, Busy, Running
<1>2. BeingRemoved = IF process[p].pc = "remove" THEN {First(p)} ELSE {}
  BY <1>1 DEF BeingRemoved, Alone, Busy, Running
<1>3. PICK k \in 1 .. 8, n \in 1 .. 8 :
          /\ n <= k /\ process[p].todo = Downwards(k, n)
          /\ m = IF process[p].pc = "remove" /\ k = 1 THEN 0 ELSE k
  BY DEF RecordedUpTo, Descending
<1>4. First(p) = k
  BY <1>3, Downright DEF First
<1> QED
  BY <1>1, <1>2, <1>3, <1>4

(* Starting to migrate up leaves the table as recorded. *)
LEMMA StartUp ==
    ASSUME SchemaTypeOK, NEW m \in 0 .. 8, RecordedUpTo(m), NEW p \in Process, runMigrations(p), ~torn'
    PROVE  RecordedUpTo(m)'
<1>1. NoneDescends
  BY DEF runMigrations, RollingBack, NoneDescends, Descends
<1>2. getCurrentVersion = m /\ CreatedUpTo(m)
  BY <1>1, NobodyDescends
<1>3. UNCHANGED <<schema, records>> /\ Run(p, "up", Upwards(m)) /\ Upwards(m) \in Seq(1 .. 8)
  BY <1>2, UpwardsSeq DEF runMigrations, Run
<1>4. /\ process'[p] = IF m = 8 THEN [pc |-> "done", todo |-> <<>>] ELSE [pc |-> "up", todo |-> Upwards(m)]
      /\ OnlyStep(p)
  <2>1. process'[p] = IF Upwards(m) = <<>> THEN [pc |-> "done", todo |-> Upwards(m)]
                      ELSE [pc |-> "up", todo |-> Upwards(m)]
    BY <1>3, Starts DEF Running
  <2>2. OnlyStep(p)
    BY <1>3, Starts DEF Running, OnlyStep
  <2>3. Upwards(m) = <<>> <=> m = 8
    BY UpwardsSeq
  <2> QED
    BY <2>1, <2>2, <2>3
<1>5. ASSUME m # 8 PROVE Climbing(p, m)'
  <2>1. m + 1 \in 1 .. 8 /\ (m + 1) - 1 = m
    BY <1>5
  <2>2. process'[p].todo = Upwards((m + 1) - 1) /\ process'[p].pc = "up"
    BY <1>4, <1>5, <2>1
  <2> QED
    BY <2>1, <2>2, NextClimbing
<1>6. ~Descends(p)' /\ (Climbs(p)' => Climbing(p, m)')
  BY <1>4, <1>5 DEF Descends, Climbs
<1>7. records' = 1 .. m /\ CreatedUpTo(m)' /\ m \in m .. 8
  BY <1>2, <1>3 DEF RecordedUpTo, CreatedUpTo
<1> QED
  BY <1>1, <1>3, <1>4, <1>6, <1>7, ClimbStep

(* Starting to roll back does too. *)
LEMMA StartDown ==
    ASSUME SchemaTypeOK, NEW m \in 0 .. 8, RecordedUpTo(m), NEW p \in Process, NEW steps \in {1, 2, 8},
           rollbackMigrations(p, steps), ~torn'
    PROVE  RecordedUpTo(m)'
<1>1. UNCHANGED <<schema, records>> /\ Alone(p) /\ NoneDescends
  BY DEF rollbackMigrations, Run, Migrating, RollingBack, Alone, Busy, Running, NoneDescends, Descends
<1>2. getCurrentVersion = m /\ CreatedUpTo(m)
  BY <1>1, NobodyDescends
<1>3. PICK n \in 0 .. 8 : n <= m /\ Downwards(m, steps) = Downwards(m, n)
  <2>1. CASE steps < m
    BY <2>1
  <2>2. CASE ~(steps < m)
    BY <2>2 DEF Downwards
  <2> QED
    BY <2>1, <2>2
<1>4. /\ Run(p, "down", Downwards(m, n)) /\ Downwards(m, n) \in Seq(1 .. 8)
      /\ Downwards(m, n) = <<>> <=> n = 0
  BY <1>2, <1>3, DownwardsSeq DEF rollbackMigrations
<1>5. /\ process'[p] = IF n = 0 THEN [pc |-> "done", todo |-> <<>>] ELSE [pc |-> "down", todo |-> Downwards(m, n)]
      /\ OnlyStep(p)
  <2>1. process'[p] = IF Downwards(m, n) = <<>> THEN [pc |-> "done", todo |-> Downwards(m, n)]
                      ELSE [pc |-> "down", todo |-> Downwards(m, n)]
    BY <1>4, Starts DEF Running
  <2>2. OnlyStep(p)
    BY <1>4, Starts DEF Running, OnlyStep
  <2> QED
    BY <1>4, <2>1, <2>2
<1>6. ASSUME n # 0 PROVE Descending(p, m)'
  <2>1. m \in 1 .. 8 /\ n \in 1 .. 8
    BY <1>3, <1>6
  <2>2. process'[p].todo = Downwards(m, n) /\ process'[p].pc = "down"
    BY <1>5, <1>6
  <2> QED
    BY <1>3, <2>1, <2>2 DEF Descending, Downwards
<1>7. ~Climbs(p)' /\ (Descends(p)' => Descending(p, m)')
  BY <1>5, <1>6 DEF Descends, Climbs
<1>8. records' = 1 .. m /\ \A v \in 1 .. m : v \notin BeingRemoved' => MIGRATIONS[v].adds \subseteq schema'
  BY <1>1, <1>2 DEF RecordedUpTo, CreatedUpTo
<1> QED
  BY <1>1, <1>5, <1>7, <1>8, DescendStep

(* A run that migrates and fails.                                            *)
LEMMA UpFails ==
    ASSUME SchemaTypeOK, NEW m \in 0 .. 8, RecordedUpTo(m), NEW p \in Process, Climbs(p),
           Failed(p), UNCHANGED <<schema, records>>
    PROVE  RecordedUpTo(m)'
<1>1. NoneDescends
  BY WhoClimbs
<1>2. OnlyStep(p) /\ ~Descends(p)' /\ ~Climbs(p)'
  BY Fails DEF OnlyStep, Descends, Climbs
<1>3. records' = 1 .. m /\ CreatedUpTo(m)' /\ m \in m .. 8
  BY <1>1, NobodyDescends DEF RecordedUpTo, CreatedUpTo
<1> QED
  BY <1>1, <1>2, <1>3, ClimbStep

(* A migration is applied and not yet recorded. *)
LEMMA Applied ==
    ASSUME SchemaTypeOK, NEW m \in 0 .. 8, RecordedUpTo(m), NEW p \in Process, ApplyUp(p)
    PROVE  RecordedUpTo(m)'
<1>1. process[p].pc = "up" /\ Climbs(p)
  BY DEF ApplyUp, Climbs
<1>2. NoneDescends /\ Busy(p)
  BY <1>1, WhoClimbs
<1>3. CASE Failed(p) /\ UNCHANGED <<schema, records>>
  BY <1>1, <1>3, UpFails
<1>4. CASE ~(Failed(p) /\ UNCHANGED <<schema, records>>)
  <2>1. Goto(p, "record") /\ records' = records /\ schema' = schema \cup MIGRATIONS[First(p)].adds
    BY <1>4 DEF ApplyUp, Query
  <2>2. process'[p] = [pc |-> "record", todo |-> process[p].todo] /\ OnlyStep(p)
    BY <1>2, <2>1, GoesOnTo DEF Running, OnlyStep
  <2>3. PICK k \in 1 .. 8 : k <= m + 1 /\ process[p].todo = Upwards(k - 1) /\ First(p) = k
    BY <1>1, WhoClimbs
  <2>4. Climbing(p, m)' /\ ~Descends(p)'
    <3>1. process'[p].todo = Upwards(k - 1) /\ MIGRATIONS[k].adds \subseteq schema'
      BY <2>1, <2>2, <2>3
    <3>2. Climbing(p, m)'
      BY <2>3, <3>1, NextClimbing
    <3>3. ~Descends(p)'
      BY <2>2 DEF Descends
    <3> QED
      BY <3>2, <3>3
  <2>5. schema \subseteq schema'
    BY <2>1
  <2>6. records' = 1 .. m /\ CreatedUpTo(m)' /\ m \in m .. 8
    <3>1. CreatedUpTo(m) /\ records = 1 .. m
      BY <1>2, NobodyDescends DEF RecordedUpTo
    <3>2. CreatedUpTo(m)'
      BY <3>1, <2>5 DEF CreatedUpTo
    <3>3. records' = 1 .. m
      BY <2>1, <3>1
    <3> QED
      BY <3>2, <3>3
  <2> QED
    BY <1>2, <2>2, <2>4, <2>5, <2>6, ClimbStep
<1> QED
  BY <1>3, <1>4

(* A migration is recorded. *)
LEMMA Recorded ==
    ASSUME SchemaTypeOK, NEW m \in 0 .. 8, RecordedUpTo(m), NEW p \in Process, recordMigration(p)
    PROVE  \E m2 \in 0 .. 8 : RecordedUpTo(m2)'
<1>1. process[p].pc = "record" /\ Climbs(p)
  BY DEF recordMigration, Climbs
<1>2. NoneDescends /\ Busy(p)
  BY <1>1, WhoClimbs
<1>3. CASE Failed(p) /\ UNCHANGED <<schema, records>>
  BY <1>1, <1>3, UpFails
<1>4. CASE ~(Failed(p) /\ UNCHANGED <<schema, records>>)
  <2>1. /\ First(p) \notin records /\ records' = records \cup {First(p)} /\ schema' = schema
        /\ Onwards(p, "up")
    BY <1>4 DEF recordMigration, Query
  <2>2. PICK k \in 1 .. 8 :
            /\ k <= m + 1 /\ process[p].todo = Upwards(k - 1) /\ First(p) = k
            /\ MIGRATIONS[k].adds \subseteq schema
    BY <1>1, WhoClimbs
  <2>3. k = m + 1 /\ records' = 1 .. k /\ k \in m .. 8
    <3>1. records = 1 .. m /\ k \notin 1 .. m
      BY <2>1, <2>2 DEF RecordedUpTo
    <3>2. k = m + 1
      BY <2>2, <3>1
    <3>3. (1 .. m) \cup {m + 1} = 1 .. m + 1
      OBVIOUS
    <3> QED
      BY <2>1, <2>2, <3>1, <3>2, <3>3
  <2>4. Len(process[p].todo) = 9 - k /\ Tail(process[p].todo) = Upwards(k)
    BY <2>2, Upright
  <2>5. /\ process'[p] = IF k = 8 THEN [pc |-> "done", todo |-> <<>>] ELSE [pc |-> "up", todo |-> Upwards(k)]
        /\ OnlyStep(p)
    <3>1. Len(process[p].todo) = 1 <=> k = 8
      BY <2>4
    <3> QED
      BY <1>2, <2>1, <2>4, <3>1, GoesOn DEF Running, OnlyStep
  <2>6. ASSUME k # 8 PROVE Climbing(p, k)'
    <3>1. k + 1 \in 1 .. 8 /\ (k + 1) - 1 = k
      BY <2>6
    <3>2. process'[p].todo = Upwards((k + 1) - 1) /\ process'[p].pc = "up"
      BY <2>5, <2>6, <3>1
    <3> QED
      BY <3>1, <3>2, NextClimbing
  <2>7. ~Descends(p)' /\ (Climbs(p)' => Climbing(p, k)')
    BY <2>5, <2>6 DEF Descends, Climbs
  <2>8. CreatedUpTo(k)' /\ schema \subseteq schema'
    BY <1>2, <2>1, <2>2, <2>3, NobodyDescends DEF CreatedUpTo
  <2>9. RecordedUpTo(k)'
    BY <1>2, <2>3, <2>5, <2>7, <2>8, ClimbStep
  <2> QED
    BY <2>9
<1> QED
  BY <1>3, <1>4

(* A migration is rolled back and its record is still there. *)
LEMMA RolledBack ==
    ASSUME SchemaTypeOK, NEW m \in 0 .. 8, RecordedUpTo(m), NEW p \in Process, ApplyDown(p), ~torn'
    PROVE  \E m2 \in 0 .. 8 : RecordedUpTo(m2)'
<1>1. process[p].pc = "down" /\ Descends(p)
  BY DEF ApplyDown, Descends
<1>2. Alone(p) /\ Busy(p) /\ BeingRemoved = {}
  BY <1>1, WhoDescends
<1>3. PICK n \in 1 .. 8 : m \in 1 .. 8 /\ n <= m /\ process[p].todo = Downwards(m, n) /\ First(p) = m
  BY <1>1, WhoDescends
<1>4. ~Failed(p)
  <2>1. process'[p].pc # "failed"
    BY DEF ApplyDown
  <2> QED
    BY <2>1, Fails
<1>5. /\ schema' = schema \ DroppedParts(m) /\ Goto(p, "remove")
      /\ records' = IF "schema_migrations" \in schema' THEN records ELSE {}
  BY <1>3, <1>4 DEF ApplyDown, Query
<1>6. process'[p] = [pc |-> "remove", todo |-> process[p].todo] /\ OnlyStep(p)
  BY <1>2, <1>5, GoesOnTo DEF Running, OnlyStep
<1>7. m \in BeingRemoved'
  BY <1>3, <1>6 DEF BeingRemoved, First
<1>8. \A v \in 1 .. m - 1 : MIGRATIONS[v].adds \subseteq schema'
  <2>1. \A v \in 1 .. m - 1 : MIGRATIONS[v].adds \subseteq schema
    BY <1>2, <1>3 DEF RecordedUpTo
  <2>2. \A v \in 1 .. m - 1 : MIGRATIONS[v].adds \cap DroppedParts(m) = {}
    BY <1>3, DropsOnlyItsOwn
  <2> QED
    BY <1>5, <2>1, <2>2
<1>9. ~Climbs(p)'
  BY <1>6 DEF Climbs
<1>10. process'[p].todo = Downwards(m, n) /\ process'[p].pc = "remove"
  BY <1>3, <1>6
<1>11. CASE m = 1
  <2>1. records' = 1 .. 0
    BY <1>5, <1>11, RecordsTableDropped
  <2>2. Descending(p, 0)'
    BY <1>3, <1>10, <1>11, NextDescending
  <2>3. \A v \in 1 .. 0 : v \notin BeingRemoved' => MIGRATIONS[v].adds \subseteq schema'
    OBVIOUS
  <2>4. RecordedUpTo(0)'
    BY <1>2, <1>6, <1>9, <2>1, <2>2, <2>3, DescendStep
  <2> QED
    BY <2>4
<1>12. CASE m # 1
  <2>1. records' = 1 .. m
    <3>1. 1 \in 1 .. m - 1
      BY <1>3, <1>12
    <3> QED
      BY <1>5, <1>8, <3>1, RecordsTable DEF RecordedUpTo
  <2>2. Descending(p, m)'
    BY <1>3, <1>10, <1>12, NextDescending
  <2>3. \A v \in 1 .. m : v \notin BeingRemoved' => MIGRATIONS[v].adds \subseteq schema'
    <3> SUFFICES ASSUME NEW v \in 1 .. m, v \notin BeingRemoved' PROVE MIGRATIONS[v].adds \subseteq schema'
      OBVIOUS
    <3>1. v # m
      BY <1>7
    <3>2. v \in 1 .. m - 1
      BY <3>1
    <3> QED
      BY <1>8, <3>2
  <2>4. RecordedUpTo(m)'
    BY <1>2, <1>6, <1>9, <2>1, <2>2, <2>3, DescendStep
  <2> QED
    BY <2>4
<1> QED
  BY <1>11, <1>12

(* The record of a migration is removed. *)
LEMMA RecordRemoved ==
    ASSUME SchemaTypeOK, NEW m \in 0 .. 8, RecordedUpTo(m), NEW p \in Process, removeMigrationRecord(p)
    PROVE  \E m2 \in 0 .. 8 : RecordedUpTo(m2)'
<1>1. process[p].pc = "remove" /\ Descends(p) /\ schema' = schema
  BY DEF removeMigrationRecord, Descends, Query
<1>2. PICK k \in 1 .. 8, n \in 1 .. 8 :
          n <= k /\ process[p].todo = Downwards(k, n) /\ First(p) = k /\ m = IF k = 1 THEN 0 ELSE k
  BY <1>1, WhoDescends
<1>3. Alone(p) /\ Busy(p) /\ BeingRemoved = {k}
  BY <1>1, <1>2, WhoDescends
<1>4. \A v \in 1 .. k - 1 : MIGRATIONS[v].adds \subseteq schema
  <2> SUFFICES ASSUME NEW v \in 1 .. k - 1 PROVE MIGRATIONS[v].adds \subseteq schema
    OBVIOUS
  <2>1. v \in 1 .. m /\ v # k
    BY <1>2
  <2> QED
    BY <1>3, <2>1 DEF RecordedUpTo
<1>5. CASE Failed(p) /\ UNCHANGED <<schema, records>> /\ "schema_migrations" \notin schema
  <2>1. k = 1
    <3> SUFFICES ASSUME k # 1 PROVE FALSE
      OBVIOUS
    <3>1. 1 \in 1 .. k - 1
      OBVIOUS
    <3> QED
      BY <1>4, <1>5, <3>1, RecordsTable
  <2>2. records' = 1 .. 0
    BY <1>2, <1>5, <2>1 DEF RecordedUpTo
  <2>3. OnlyStep(p) /\ ~Climbs(p)' /\ ~Descends(p)'
    BY <1>5, Fails DEF OnlyStep, Climbs, Descends
  <2>4. \A v \in 1 .. 0 : v \notin BeingRemoved' => MIGRATIONS[v].adds \subseteq schema'
    OBVIOUS
  <2>5. RecordedUpTo(0)'
    BY <1>3, <2>2, <2>3, <2>4, DescendStep
  <2> QED
    BY <2>5
<1>6. CASE records' = records \ {k} /\ Onwards(p, "down")
  <2>1. records' = 1 .. k - 1 /\ k - 1 \in 0 .. 8
    BY <1>2, <1>6 DEF RecordedUpTo
  <2>2. Len(process[p].todo) = n /\ Tail(process[p].todo) = Downwards(k - 1, n - 1)
    BY <1>2, Downright
  <2>3. /\ process'[p] = IF n = 1 THEN [pc |-> "done", todo |-> <<>>]
                         ELSE [pc |-> "down", todo |-> Downwards(k - 1, n - 1)]
        /\ OnlyStep(p)
    BY <1>3, <1>6, <2>2, GoesOn DEF Running, OnlyStep
  <2>4. ASSUME n # 1 PROVE Descending(p, k - 1)'
    <3>1. k - 1 \in 1 .. 8 /\ n - 1 \in 1 .. 8 /\ n - 1 <= k - 1
      BY <1>2, <2>4
    <3>2. process'[p].todo = Downwards(k - 1, n - 1) /\ process'[p].pc = "down"
      BY <2>3, <2>4
    <3> QED
      BY <2>1, <3>1, <3>2, NextDescending
  <2>5. ~Climbs(p)' /\ (Descends(p)' => Descending(p, k - 1)')
    BY <2>3, <2>4 DEF Climbs, Descends
  <2>6. \A v \in 1 .. k - 1 : v \notin BeingRemoved' => MIGRATIONS[v].adds \subseteq schema'
    BY <1>1, <1>4
  <2>7. RecordedUpTo(k - 1)'
    BY <1>3, <2>1, <2>3, <2>5, <2>6, DescendStep
  <2> QED
    BY <2>1, <2>7
<1> QED
  BY <1>2, <1>5, <1>6 DEF removeMigrationRecord, Query

(* A process stops between two steps. *)
LEMMA Stopped ==
    ASSUME SchemaTypeOK, NEW m \in 0 .. 8, RecordedUpTo(m), NEW p \in Process, StopMigrating(p), ~torn'
    PROVE  RecordedUpTo(m)'
<1>1. /\ process[p].pc # "remove" /\ UNCHANGED <<schema, records>> /\ OnlyStep(p)
      /\ ~Busy(p)' /\ ~Climbs(p)' /\ ~Descends(p)'
  BY DEF StopMigrating, SchemaTypeOK, Off, OnlyStep, Busy, Running, Climbs, Descends
<1>2. CASE Climbs(p)
  <2>1. NoneDescends
    BY <1>2, WhoClimbs
  <2>2. records' = 1 .. m /\ CreatedUpTo(m)' /\ m \in m .. 8
    BY <1>1, <2>1, NobodyDescends DEF RecordedUpTo, CreatedUpTo
  <2> QED
    BY <1>1, <2>1, <2>2, ClimbStep
<1>3. CASE Descends(p)
  <2>1. Alone(p) /\ BeingRemoved = {}
    BY <1>1, <1>3, WhoDescends
  <2>2. records' = 1 .. m /\ \A v \in 1 .. m : v \notin BeingRemoved' => MIGRATIONS[v].adds \subseteq schema'
    BY <1>1, <2>1 DEF RecordedUpTo
  <2> QED
    BY <1>1, <2>1, <2>2, DescendStep
<1>4. CASE ~Busy(p)
  BY <1>1, <1>4, IdleStep
<1> QED
  BY <1>2, <1>3, <1>4 DEF Busy, Running, Climbs, Descends

(* Unless the schema is torn, every step leaves a version up to which the    *)
(* migrations are applied and recorded.                                      *)
LEMMA RecordedStep ==
    ASSUME SchemaTypeOK, ~torn, NEW m \in 0 .. 8, RecordedUpTo(m), [SchemaNext]_schemaVars, ~torn'
    PROVE  \E m2 \in 0 .. 8 : RecordedUpTo(m2)'
<1>1. ASSUME NEW p \in Process, Connect(p) \/ MigrateUp(p) PROVE RecordedUpTo(m)'
  BY <1>1, StartUp DEF Connect, MigrateUp
<1>2. ASSUME NEW p \in Process, Rollback(p) \/ Reset(p) PROVE RecordedUpTo(m)'
  <2>1. PICK steps \in {1, 2, 8} : rollbackMigrations(p, steps)
    BY <1>2, EightMigrations DEF Rollback, Reset
  <2> QED
    BY <2>1, StartDown
<1>3. ASSUME NEW p \in Process, ApplyUp(p) PROVE RecordedUpTo(m)'
  BY <1>3, Applied
<1>4. ASSUME NEW p \in Process, ApplyCollides(p) PROVE RecordedUpTo(m)'
  BY <1>4, UpFails DEF ApplyCollides, Climbs
<1>5. CASE UNCHANGED schemaVars
  <2>1. BeingRemoved' = BeingRemoved /\ records' = records /\ schema' = schema /\ process' = process
    BY <1>5 DEF schemaVars, BeingRemoved, First
  <2>2. ASSUME NEW q \in Process, Climbs(q)' PROVE Climbing(q, m)'
    <3>1. PICK k \in 1 .. 8 :
              /\ k <= m + 1 /\ process[q].todo = Upwards(k - 1)
              /\ process[q].pc = "record" => MIGRATIONS[k].adds \subseteq schema
      BY <2>1, <2>2 DEF RecordedUpTo, Climbs, Climbing
    <3> QED
      BY <2>1, <3>1, NextClimbing
  <2>3. ASSUME NEW q \in Process, Descends(q)' PROVE Alone(q)' /\ Descending(q, m)'
    <3>1. Alone(q) /\ Descending(q, m)
      BY <2>1, <2>3 DEF RecordedUpTo, Descends
    <3>2. Alone(q)'
      BY <2>1, <3>1 DEF Alone, Busy
    <3> QED
      BY <2>1, <3>1, <3>2, NextDescending DEF Descending
  <2>4. RecordedUpTo(m)'
    BY <2>1, <2>2, <2>3 DEF RecordedUpTo
  <2> QED
    BY <2>4
<1> QED
  BY <1>1, <1>2, <1>3, <1>4, <1>5, Recorded, RolledBack, RecordRemoved, Stopped DEF SchemaNext

(* The invariant holds of an empty database. *)
LEMMA SchemaInitially == SchemaInit => SchemaInv
<1> SUFFICES ASSUME SchemaInit PROVE SchemaInv
  OBVIOUS
<1>1. Off \in ProcessState /\ Off.pc \notin Running
  BY DEF Off, ProcessState, Stage, Running
<1>2. SchemaTypeOK
  BY <1>1 DEF SchemaInit, SchemaTypeOK, Busy
<1>3. RecordedUpTo(0)
  BY DEF SchemaInit, RecordedUpTo, Off, Climbs, Descends
<1> QED
  BY <1>2, <1>3 DEF SchemaInv

(* Unless a migration failed halfway or was rolled back while another        *)
(* process migrated, the tables are those the records say, whatever          *)
(* processes start, stop and crash between a migration and its record (the   *)
(* migration runner).                                                        *)
THEOREM SchemaMatchesRecords == SchemaSpec => []SchemaAsRecorded
<1>1. SchemaInv /\ [SchemaNext]_schemaVars => SchemaInv'
  <2> SUFFICES ASSUME SchemaInv, [SchemaNext]_schemaVars PROVE SchemaInv'
    OBVIOUS
  <2>1. SchemaTypeOK'
    BY SchemaTypeStep DEF SchemaInv
  <2>2. torn => torn'
    BY DEF SchemaNext, Connect, MigrateUp, runMigrations, ApplyUp, ApplyCollides, recordMigration, Rollback,
           Reset, rollbackMigrations, ApplyDown, removeMigrationRecord, StopMigrating, schemaVars
  <2> QED
    BY <2>1, <2>2, RecordedStep DEF SchemaInv
<1>2. SchemaInv => SchemaAsRecorded
  <2> SUFFICES ASSUME SchemaInv, ~torn, NEW v \in records \ BeingRemoved
               PROVE  (1 .. v) \subseteq records /\ MIGRATIONS[v].adds \subseteq schema
    BY DEF SchemaAsRecorded
  <2>1. PICK m \in 0 .. 8 : RecordedUpTo(m)
    BY DEF SchemaInv
  <2> QED
    BY <2>1 DEF RecordedUpTo
<1> QED
  BY SchemaInitially, <1>1, <1>2, PTL DEF SchemaSpec
==============================================================================
