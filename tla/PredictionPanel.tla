--------------------------- MODULE PredictionPanel ---------------------------
(* The panel of a prediction dealer in the browser, or of a kiosk that       *)
(* stands in for one, and what the server makes of its requests.  One record *)
(* holds the last answer whatever it was about, and a frame gives the        *)
(* buttons back by that record, so that an answer to a quote or a list meets *)
(* the buttons of an order under way.                                        *)
(* web/public/js/play/runtime/templates/interaction-card.js,                 *)
(* network/socket-runtime.js, server/src/game/stations/handlers/             *)
(* dealerPrediction.ts, markets/MarketService.ts.                            *)
EXTENDS Integers, FiniteSets, Sequences, SequencesExt

CONSTANTS
    Question,       \* markets
    NoQuestion,
    MaxAsked,       \* bound on the requests of the page
    MaxCuts         \* bound on how often the link or the server fails

ASSUME PanelAssumption == NoQuestion \notin Question /\ MaxAsked \in Nat

VARIABLES
    panelOpen,      \* a card with the panel is open
    prediction,     \* state.ui.prediction: the last answer, the markets, the chosen one
    selectValue,    \* what the drop-down list shows
    locked,         \* the buttons that are disabled: "buy" (both sides), "quote"
    panelTimers,    \* the timers under way, "buy" of 7 s and "quote" of 5 s
    handling,       \* server: the requests it has not finished with
    told,           \* the answers on their way to the page
    asked,
    cuts,
    excused         \* history: while orders are under way the player was told of
                    \* a failure, has opened the panel anew or had a late answer

predictionVars == <<panelOpen, prediction, selectValue, locked, panelTimers, handling,
               told, asked, cuts, excused>>

FirstListed(markets) == IF markets = {} THEN NoQuestion ELSE CHOOSE q \in markets : TRUE
ShownFirst(chosen, markets) == IF chosen = NoQuestion THEN FirstListed(markets) ELSE chosen

(* The page has had its markets listed before: what a list, and a first one, *)
(* do is among the steps.                                                    *)
PanelInit ==
    /\ panelOpen = FALSE
    /\ prediction = [state |-> "idle", markets |-> Question, chosen |-> FirstListed(Question)]
    /\ selectValue = NoQuestion
    /\ locked = {}
    /\ panelTimers = {}
    /\ handling = {}
    /\ told = <<>>
    /\ asked = 0
    /\ cuts = 0
    /\ excused = FALSE

LinkUnchanged == UNCHANGED <<told, cuts>>
SendStation(what, q) ==
    /\ asked < MaxAsked
    /\ asked' = asked + 1
    /\ \E n \in 1 .. MaxAsked :
          /\ \A i \in 1 .. n : (i < n) <=> (\E r \in handling : r.n = i)
          /\ handling' = handling \cup {[n |-> n, what |-> what, q |-> q]}
Orders(requests) == {r \in requests : r.what \in {"order", "placing"}}

-----------------------------------------------------------------------------
(* mountPredictionPanel: new buttons, an empty list; the record of the last  *)
(* answer stays.  Without markets they are asked for.                        *)
MountPredictionPanel ==
    /\ ~panelOpen
    /\ panelOpen' = TRUE
    /\ locked' = {}
    /\ selectValue' = NoQuestion
    /\ excused' = TRUE
    /\ IF prediction.markets = {} THEN SendStation("list", NoQuestion) ELSE UNCHANGED <<asked, handling>>
    /\ UNCHANGED <<prediction, panelTimers>> /\ LinkUnchanged

LeavePanel ==
    /\ panelOpen
    /\ panelOpen' = FALSE
    /\ UNCHANGED <<prediction, selectValue, locked, panelTimers, handling, asked, excused>>
    /\ LinkUnchanged

(* Faulty variant of Unlocked: any answer gives all buttons back.            *)
UnlockedByAny(mode) == IF mode = "pending" THEN {} ELSE {"buy", "quote"}

(* Which buttons and timers a frame gives back.                              *)
Unlocked(mode) ==
    IF mode = "pending" THEN {}
    ELSE IF mode \in {"error", "filled"} THEN {"buy", "quote"}
    ELSE {"quote"}

(* A frame: the list is filled anew and shows the chosen market, or nothing  *)
(* when that is not among the markets (any more).                            *)
DrawPrediction ==
    /\ panelOpen
    /\ LET shown == ShownFirst(prediction.chosen, prediction.markets)
       IN  selectValue' = IF shown \in prediction.markets THEN shown ELSE NoQuestion
    /\ locked' = locked \ Unlocked(prediction.state)
    /\ panelTimers' = panelTimers \ Unlocked(prediction.state)
    /\ UNCHANGED <<panelOpen, prediction, handling, asked, excused>> /\ LinkUnchanged

(* selectEl.onchange                                                         *)
Choose(q) ==
    /\ panelOpen /\ selectValue # NoQuestion /\ q \in prediction.markets
    /\ selectValue' = q
    /\ prediction' = [prediction EXCEPT !.chosen = q]
    /\ UNCHANGED <<panelOpen, locked, panelTimers, handling, asked, excused>> /\ LinkUnchanged

(* currentMarketId                                                           *)
CurrentMarket == IF selectValue # NoQuestion THEN selectValue ELSE prediction.chosen

PressRefresh ==
    /\ panelOpen
    /\ \E what \in {"list", "positions"} : SendStation(what, NoQuestion)
    /\ UNCHANGED <<panelOpen, prediction, selectValue, locked, panelTimers, excused>>
    /\ LinkUnchanged

PressQuote ==
    /\ panelOpen /\ "quote" \notin locked /\ CurrentMarket # NoQuestion
    /\ SendStation("quote", CurrentMarket)
    /\ prediction' = [prediction EXCEPT !.chosen = CurrentMarket]
    /\ locked' = locked \cup {"quote"}
    /\ panelTimers' = panelTimers \cup {"quote"}
    /\ UNCHANGED <<panelOpen, selectValue, excused>> /\ LinkUnchanged

(* Yes or no: either locks both.                                             *)
PressBuy ==
    /\ panelOpen /\ "buy" \notin locked /\ CurrentMarket # NoQuestion
    /\ SendStation("order", CurrentMarket)
    /\ prediction' = [prediction EXCEPT !.chosen = CurrentMarket, !.state = "pending"]
    /\ locked' = locked \cup {"buy"}
    /\ panelTimers' = panelTimers \cup {"buy"}
    /\ excused' = (excused /\ (Orders(handling) # {} \/ \E i \in DOMAIN told : told[i].order))
    /\ UNCHANGED <<panelOpen, selectValue>> /\ LinkUnchanged

(* An order while the socket is closed.                                      *)
PressBuyUnsent ==
    /\ panelOpen /\ "buy" \notin locked /\ CurrentMarket # NoQuestion
    /\ cuts > 0
    /\ prediction' = [prediction EXCEPT !.chosen = CurrentMarket, !.state = "error"]
    /\ panelTimers' = panelTimers \ {"buy"}
    /\ locked' = locked \ {"quote"}
    /\ excused' = TRUE
    /\ UNCHANGED <<panelOpen, selectValue, handling, asked>> /\ LinkUnchanged

QuoteTimer ==
    /\ "quote" \in panelTimers
    /\ panelTimers' = panelTimers \ {"quote"}
    /\ locked' = locked \ {"quote"}
    /\ UNCHANGED <<panelOpen, prediction, selectValue, handling, asked, excused>> /\ LinkUnchanged

(* "No server response. Try again.": the order may be filled all the same.   *)
(* The buttons are those of the panel it was set in; a frame gives back the  *)
(* others.                                                                   *)
BuyTimer ==
    /\ "buy" \in panelTimers
    /\ panelTimers' = panelTimers \ {"buy"}
    /\ locked' = {}
    /\ prediction' = [prediction EXCEPT !.state = "error"]
    /\ excused' = TRUE
    /\ UNCHANGED <<panelOpen, selectValue, handling, asked>> /\ LinkUnchanged

(* A station_ui message of the prediction dealer: a list; positions; a quote, *)
(* whose one market takes the place of the others; an order that waits or is *)
(* filled.  The panel draws the first three alike ("idle").                  *)
PredictionUi ==
    /\ told # <<>>
    /\ LET a == Head(told)
           chosen == IF a.q # NoQuestion THEN a.q ELSE prediction.chosen
       IN  /\ prediction' =
                IF a.state = "list" THEN
                    [state |-> "idle", markets |-> a.markets, chosen |-> ShownFirst(chosen, a.markets)]
                ELSE IF a.state = "quote" THEN
                    [state |-> "idle", markets |-> a.markets, chosen |-> chosen]
                ELSE [prediction EXCEPT !.state = a.state, !.chosen = chosen]
           /\ excused' = (excused \/ a.state = "error")
    /\ told' = Tail(told)
    /\ UNCHANGED <<panelOpen, selectValue, locked, panelTimers, handling, asked, cuts>>

-----------------------------------------------------------------------------
(* handlePredictionStationAction: each request is handled by a function of   *)
(* its own, which reads the markets after awaiting other things.  Which of   *)
(* them are active and not closed by then is left open (MarketCatalog).      *)
PageUnchanged ==
    UNCHANGED <<panelOpen, prediction, selectValue, locked, panelTimers, asked, cuts, excused>>

Reply(r, s, markets) ==
    told' = Append(told, [state |-> s, q |-> IF s = "error" THEN NoQuestion ELSE r.q,
                           markets |-> markets, order |-> r.what = "placing"])

Finished(r) == handling' = handling \ {r}

(* listActiveMarketsForPlayer: those active and open, at most 60.            *)
ActiveMarkets == SUBSET Question

AnswerList(r) ==
    /\ r.what = "list"
    /\ Finished(r)
    /\ \E markets \in ActiveMarkets : Reply(r, "list", markets)
    /\ PageUnchanged

AnswerPositions(r) ==
    /\ r.what = "positions"
    /\ Finished(r)
    /\ Reply(r, "idle", {})
    /\ PageUnchanged

(* MarketService.quote: not found, inactive, closed, a stale feed, a stake   *)
(* too high; or the price.                                                   *)
QuoteStates == {"quote", "error"}

AnswerQuote(r) ==
    /\ r.what = "quote"
    /\ Finished(r)
    /\ \E s \in QuoteStates : Reply(r, s, IF s = "quote" THEN {r.q} ELSE {})
    /\ PageUnchanged

OrderPending(r) ==
    /\ r.what = "order"
    /\ \/ handling' = (handling \ {r}) \cup {[r EXCEPT !.what = "placing"]} /\ Reply(r, "pending", {})
       \/ Finished(r) /\ Reply(r, "error", {})
    /\ PageUnchanged

(* openPosition                                                              *)
OrderAnswered(r) ==
    /\ r.what = "placing"
    /\ Finished(r)
    /\ Reply(r, "filled", {}) \/ Reply(r, "error", {})
    /\ PageUnchanged

(* The link or the server goes down: answers are lost, and requests.         *)
Cut(left) ==
    /\ cuts < MaxCuts
    /\ cuts' = cuts + 1
    /\ handling' = left
    /\ told' = <<>>
    /\ UNCHANGED <<panelOpen, prediction, selectValue, locked, panelTimers, asked, excused>>

PanelNext ==
    \/ MountPredictionPanel \/ LeavePanel \/ DrawPrediction
    \/ \E q \in Question : Choose(q)
    \/ PressRefresh \/ PressQuote \/ PressBuy \/ PressBuyUnsent
    \/ QuoteTimer \/ BuyTimer
    \/ PredictionUi
    \/ \E r \in handling :
          AnswerList(r) \/ AnswerPositions(r) \/ AnswerQuote(r) \/ OrderPending(r) \/ OrderAnswered(r)
    \/ \E left \in SUBSET handling : Cut(left)

PanelSpec == PanelInit /\ [][PanelNext]_predictionVars

-----------------------------------------------------------------------------
(* The player has one order at a time with the server, whatever else he asks *)
(* for meanwhile and in whatever order the answers come: he can place a      *)
(* second one only after he was told of a failure, has opened the panel      *)
(* anew, or the answer to an earlier order came late.                        *)
OneOrderAtATime == Cardinality(Orders(handling)) > 1 => excused
=============================================================================
