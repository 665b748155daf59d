----------------------------- MODULE StationCard -----------------------------
(* The card of a dealer's table in the browser: opened and closed, following *)
(* the player from table to table, redrawn every frame from one record of    *)
(* the dealer's last answer, whichever table that answer was about, with two *)
(* timers against answers that never come.                                   *)
(* web/public/js/play/runtime/templates/interaction-card.js,                 *)
(* network/socket-runtime.js, interaction-shell.js, targeting.js,            *)
(* station-routing.js, station-interactions.js.                              *)
EXTENDS Integers, Sequences

CONSTANTS
    Table,          \* the tables of the map: hosts, and the server's own stations
    Dealer,         \* Dealer[t]: the station of the server t stands for (its proxy)
    CoinTable,      \* the tables where a coin is flipped
    NoTable,
    MaxPlays,       \* bound on what the player sends
    MaxBreaks       \* bound on how often the link or the server fails

ASSUME CardAssumption == CoinTable \subseteq Table /\ NoTable \notin Table

Station == {Dealer[t] : t \in Table}

VARIABLES
    card,           \* the table whose card is open
    mounted,        \* the table the card was last drawn for
    dealer,         \* state.ui.dealer: the last answer and its station
    panel,          \* the buttons: are they shown, can they be pressed
    cardTimers,     \* the timers under way
    near,           \* the tables the player stands at
    serving,        \* the server: requests it has not finished with
    dealt,          \* the server: the station of the pending round
    answers,        \* what is on its way to the browser
    plays,
    breaks,
    mixed           \* history: since all was answered the card has moved to
                    \* another table, or had an answer to an earlier request

cardVars == <<card, mounted, dealer, panel, cardTimers, near, serving, dealt, answers,
              plays, breaks, mixed>>

CardOpen == card # NoTable
NewPanel == [start |-> TRUE, startOn |-> TRUE, picks |-> FALSE, picksOn |-> TRUE]

(* dealerStationMatches *)
Matches(t) == dealer.station \in {t, Dealer[t]}

CardInit ==
    /\ card = NoTable
    /\ mounted = NoTable
    /\ dealer = [state |-> "idle", station |-> NoTable]
    /\ panel = NewPanel
    /\ cardTimers = {}
    /\ near = Table
    /\ serving = {}
    /\ dealt = NoTable
    /\ answers = <<>>
    /\ plays = 0
    /\ breaks = 0
    /\ mixed = FALSE

ServerUnchanged == UNCHANGED <<serving, dealt, answers, breaks>>

-----------------------------------------------------------------------------
(* setInteractOpenState: the card opens at the table aimed at or the closest *)
(* one; the last answer is forgotten, the timers are not.                    *)
OpenCard(t) ==
    /\ ~CardOpen /\ t \in near
    /\ card' = t
    /\ dealer' = [dealer EXCEPT !.state = "idle"]
    /\ UNCHANGED <<mounted, panel, cardTimers, near, plays, mixed>> /\ ServerUnchanged

CardClosed(dlr) ==
    /\ card' = NoTable
    /\ mounted' = NoTable
    /\ dealer' = [dlr EXCEPT !.state = "idle"]

CloseCard ==
    /\ CardOpen
    /\ CardClosed(dealer)
    /\ UNCHANGED <<panel, cardTimers, near, plays, mixed>> /\ ServerUnchanged

(* syncNearbyStations *)
Walk(ts) ==
    /\ near' = ts /\ ts # near
    /\ UNCHANGED <<card, mounted, dealer, panel, cardTimers, plays, mixed>> /\ ServerUnchanged

(* Faulty variant of Drawn: an error leaves the button of a start as it was. *)
DrawnStuckOnError(t, p) ==
    IF dealer.state = "ready" /\ Matches(t) THEN
        [start |-> FALSE, startOn |-> TRUE, picks |-> TRUE, picksOn |-> TRUE]
    ELSE IF dealer.state = "preflight" THEN
        [p EXCEPT !.startOn = FALSE, !.picks = FALSE, !.picksOn = FALSE]
    ELSE IF dealer.state = "dealing" THEN
        [start |-> FALSE, startOn |-> FALSE, picks |-> TRUE, picksOn |-> FALSE]
    ELSE IF dealer.state = "reveal" THEN NewPanel
    ELSE p

(* What a frame makes of the buttons.  After an error a coin table does not  *)
(* show again the button it hid when the round was ready.                    *)
Drawn(t, p) ==
    IF dealer.state = "ready" /\ Matches(t) THEN
        [start |-> FALSE, startOn |-> TRUE, picks |-> TRUE, picksOn |-> TRUE]
    ELSE IF dealer.state = "preflight" THEN
        [p EXCEPT !.startOn = FALSE, !.picks = FALSE, !.picksOn = FALSE]
    ELSE IF dealer.state = "dealing" THEN
        [start |-> FALSE, startOn |-> FALSE, picks |-> TRUE, picksOn |-> FALSE]
    ELSE IF dealer.state = "error" THEN
        [NewPanel EXCEPT !.start = p.start \/ t \notin CoinTable]
    ELSE IF dealer.state = "reveal" THEN NewPanel
    ELSE p

(* The buttons of a table drawn for the first time.                          *)
MountedPanel(t) == Drawn(t, NewPanel)

TimersAfterFrame ==
    IF dealer.state \in {"error", "reveal"} THEN {}
    ELSE IF dealer.state = "preflight" THEN cardTimers
    ELSE cardTimers \ {"preflight"}

(* A frame: the table the card is for (getUiTargetId), then the drawing of   *)
(* renderInteractionCardTemplate; a card with no table left closes.          *)
Frame ==
    /\ CardOpen
    /\ \/ /\ near = {}
          /\ CardClosed(dealer)
          /\ UNCHANGED <<panel, cardTimers, mixed>>
       \/ \E t \in near :
             /\ card \in near => t = card
             /\ card' = t
             /\ mounted' = t
             /\ panel' = IF mounted = t THEN Drawn(t, panel) ELSE MountedPanel(t)
             /\ cardTimers' = TimersAfterFrame
             /\ mixed' = (mixed \/ t # card)
             /\ UNCHANGED dealer
    /\ UNCHANGED <<near, plays>> /\ ServerUnchanged

-----------------------------------------------------------------------------
(* The buttons: sendStationInteract asks the station the table stands for.   *)
Ask(what) ==
    /\ CardOpen /\ mounted = card /\ plays < MaxPlays
    /\ plays' = plays + 1
    /\ serving' = serving \cup {[n |-> plays + 1, what |-> what, station |-> Dealer[card]]}
    /\ mixed' = (mixed /\ (serving # {} \/ answers # <<>>))

Play ==
    /\ panel.start /\ panel.startOn
    /\ Ask("start")
    /\ dealer' = [dealer EXCEPT !.state = "preflight"]
    /\ panel' = [panel EXCEPT !.startOn = FALSE, !.picksOn = @ /\ card \notin CoinTable]
    /\ cardTimers' = cardTimers \cup {"preflight"}
    /\ UNCHANGED <<card, mounted, near, dealt, answers, breaks>>

Pick ==
    /\ panel.picks /\ panel.picksOn
    /\ Ask("pick")
    /\ dealer' = [dealer EXCEPT !.state = "dealing"]
    /\ panel' = [panel EXCEPT !.picksOn = FALSE]
    /\ cardTimers' = (cardTimers \ {"preflight"}) \cup {"pick"}
    /\ UNCHANGED <<card, mounted, near, dealt, answers, breaks>>

(* onCoinflipTimeout, onRpsTimeout, after 20 and 45 s: whatever card is open *)
(* by then, or none (the buttons they unlock are those of the card they were *)
(* made for).  A message takes less than that, or is lost with its link; the *)
(* round itself may take longer.                                             *)
CardTimeout(key) ==
    /\ key \in cardTimers
    /\ answers = <<>> /\ \A r \in serving : r.what # "pick"
    /\ cardTimers' = cardTimers \ {key, "pick"}
    /\ dealer' = [dealer EXCEPT !.state = "error"]
    /\ UNCHANGED <<card, mounted, panel, near, plays, mixed>> /\ ServerUnchanged

(* A station_ui message: only ready names the station it is about.           *)
StationUi ==
    /\ answers # <<>>
    /\ LET a == Head(answers)
       IN  /\ dealer' = [state |-> a.state,
                         station |-> IF a.state = "ready" THEN a.station ELSE dealer.station]
           /\ mixed' = (mixed \/ a.n # plays)
    /\ answers' = Tail(answers)
    /\ UNCHANGED <<card, mounted, panel, cardTimers, near, serving, dealt, plays, breaks>>

-----------------------------------------------------------------------------
(* The server: startRound and pickRound, each of them asynchronous.          *)
Reply(s, r) == answers' = Append(answers, [state |-> s, station |-> r.station, n |-> r.n])
Finish(r) == serving' = serving \ {r}
CardUnchanged ==
    UNCHANGED <<card, mounted, dealer, panel, cardTimers, near, plays, breaks, mixed>>

(* Too far away, no wallet, a preflight that failed; or the round is there.  *)
(* What was sent before has arrived.                                         *)
ServeStart(r) ==
    /\ r.what = "start"
    /\ \A q \in serving : q.what = "pick" => q.n > r.n
    /\ Finish(r)
    /\ \/ Reply("error", r) /\ UNCHANGED dealt
       \/ Reply("ready", r) /\ dealt' = r.station
    /\ CardUnchanged

ServePick(r) ==
    /\ r \in serving /\ r.what = "pick"
    /\ \/ /\ dealt = r.station
          /\ serving' = (serving \ {r}) \cup {[r EXCEPT !.what = "deal"]}
          /\ Reply("dealing", r)
       \/ Finish(r) /\ Reply("error", r)
    /\ UNCHANGED dealt /\ CardUnchanged

ServeDeal(r) ==
    /\ r.what = "deal"
    /\ Finish(r)
    /\ dealt' = NoTable
    /\ \E s \in {"reveal", "error"} : Reply(s, r)
    /\ CardUnchanged

(* The link or the server goes down: what was on its way is lost, and some   *)
(* of what was asked for is never answered.                                  *)
Break(left) ==
    /\ breaks < MaxBreaks
    /\ breaks' = breaks + 1
    /\ serving' = left
    /\ answers' = <<>>
    /\ dealt' = NoTable
    /\ UNCHANGED <<card, mounted, dealer, panel, cardTimers, near, plays, mixed>>

CardNext ==
    \/ \E t \in Table : OpenCard(t)
    \/ CloseCard
    \/ \E ts \in SUBSET Table : Walk(ts)
    \/ Frame
    \/ Play \/ Pick
    \/ \E key \in cardTimers : CardTimeout(key)
    \/ StationUi
    \/ \E r \in serving : ServeStart(r) \/ ServePick(r) \/ ServeDeal(r)
    \/ \E left \in SUBSET serving : Break(left)

(* Frames are drawn and timers run out as long as the page is open, and a    *)
(* message arrives or is lost (a pick is checked at once); a round once      *)
(* begun, or a start, may never be answered.                                 *)
CardFairness ==
    /\ WF_cardVars(Frame)
    /\ WF_cardVars(StationUi)
    /\ WF_cardVars(\E r \in serving : ServePick(r))
    /\ \A key \in {"preflight", "pick"} : WF_cardVars(CardTimeout(key))

CardSpec == CardInit /\ [][CardNext]_cardVars /\ CardFairness

-----------------------------------------------------------------------------
Usable == (panel.start /\ panel.startOn) \/ (panel.picks /\ panel.picksOn)

(* A card never leaves its player without a button for good: whatever link   *)
(* and server do with the round, the answer or a timer gives one back.  It   *)
(* holds at the tables other than the coin's, as long as the card stays at   *)
(* its table and no answer comes after something else was asked.             *)
CardAnswers ==
    (CardOpen /\ card \notin CoinTable /\ ~Usable) ~> (~CardOpen \/ Usable \/ mixed)
=============================================================================
