------------------------------ MODULE PlayerCard ------------------------------
(* The card by which a player challenges another one: whom it is about while *)
(* players and stations come near and go, the wager with the approval of its *)
(* escrow, and buttons that are drawn anew only when what they show changes. *)
(* web/public/js/play/: runtime/targeting.js, runtime/interaction-shell.js,  *)
(* runtime/templates/interaction-card.js, runtime/escrow-approval.js,        *)
(* challenge.js, input.js.  What the server and the rest of the page do to   *)
(* the state these read is the environment.                                  *)
EXTENDS Integers

CONSTANTS
    Other,          \* the other players
    Host,           \* stations of the map
    NoTarget,
    CardWager,      \* the wagers that are typed, 0 among them
    MaxActs         \* bound on what the player and the environment do

ASSUME PlayerCardAssumption ==
    Other \cap Host = {} /\ NoTarget \notin Other \cup Host /\ CardWager \subseteq Nat /\ 0 \in CardWager

VARIABLES
    inRange,        \* nearbyIds and nearbyStationIds
    listed,         \* the players of the last snapshot
    view,           \* state.ui: interactOpen, interactionMode, targetId
    wager,          \* state.ui.challenge.wager
    approval,       \* state.ui.challenge: approvalState, approvalWager
    auto,           \* state.escrowApproval.mode = 'auto'
    checking,       \* amounts of requests for an approval under way
    duel,           \* of the player's challenges: waiting, offered, playing, answering
    up,             \* wsConnected
    panelOf,        \* the player the card's title names, or NoTarget: no panel is shown
    renderedTarget, \* renderedTargetId: the one the panel's buttons were drawn for
    drawn,          \* interactionPlayerRenderKey, or NoKey
    sendButton, answerButtons,      \* of the panel drawn last: those that can be pressed
    answerTimer,    \* the answer button the timer will give back, or "none"
    sent,           \* history: the last challenge sent, and whom the card named if its button sent it
    acts

panelVars == <<renderedTarget, drawn, sendButton, answerButtons, answerTimer>>
approvalVars == <<wager, approval, auto, checking>>
aroundVars == <<inRange, listed, duel, up>>
playerCardVars == <<view, panelOf, panelVars, approvalVars, aroundVars, sent, acts>>

ClosedView(target) == [open |-> FALSE, mode |-> "none", target |-> target]
NoKey == [target |-> NoTarget]
NotSent == [to |-> NoTarget, shown |-> NoTarget]
NoDuel == [waiting |-> FALSE, offered |-> FALSE, playing |-> FALSE, answering |-> FALSE]

PlayerCardInit ==
    /\ inRange = {} /\ listed = Other
    /\ view = ClosedView(NoTarget)
    /\ wager = 1 /\ approval = [state |-> "idle", wager |-> 0] /\ auto \in BOOLEAN /\ checking = {}
    /\ duel = NoDuel /\ up = TRUE
    /\ panelOf = NoTarget /\ renderedTarget = NoTarget /\ drawn = NoKey
    /\ sendButton = FALSE /\ answerButtons = {} /\ answerTimer = "none"
    /\ sent = NotSent
    /\ acts = 0

Act == acts < MaxActs /\ acts' = acts + 1

-----------------------------------------------------------------------------
(* closestNearbyTargetId, closestNearbyPlayerId and closestNearbyStationId:  *)
(* any of those in range may be the closest.                                 *)
HostsNear == inRange \cap Host
OthersNear == inRange \cap Other

(* getUiTargetId: the target of before, as long as it is of the card's kind  *)
(* and in range, else the closest there is, which becomes the target.        *)
Eligible(v) ==
    IF v.open /\ v.mode = "station" /\ HostsNear # {} THEN HostsNear
    ELSE IF v.open /\ v.mode = "player" /\ OthersNear # {} THEN OthersNear
    ELSE inRange

UiTarget(v) == IF v.target \in Eligible(v) THEN {v.target} ELSE Eligible(v)

(* setInteractOpen: the card of a station or of a player, as the target is.  *)
(* Whoever opens it has asked for the target before, so that there is one.   *)
OpenedView(t) ==
    [open |-> TRUE, mode |-> IF t \in Host THEN "station" ELSE "player", target |-> t]

(* The key E and the button on a touch screen, the key Escape, and Tab.  What*)
(* a card that opens shows until its first frame is left out.                *)
InteractKey ==
    /\ Act
    /\ \E t \in UiTarget(view) : view' = IF view.open THEN ClosedView(t) ELSE OpenedView(t)
    /\ panelOf' = NoTarget
    /\ UNCHANGED <<panelVars, approvalVars, aroundVars, sent>>

EscapeKey ==
    /\ Act
    /\ view.open
    /\ view' = ClosedView(view.target)
    /\ panelOf' = NoTarget
    /\ UNCHANGED <<panelVars, approvalVars, aroundVars, sent>>

cycleNearbyTarget ==
    /\ Act
    /\ IF inRange = {} THEN view' = [view EXCEPT !.target = NoTarget]
       ELSE \E t \in inRange :
            view' = [view EXCEPT !.target = t,
                         !.mode = IF ~view.open THEN @ ELSE IF t \in Host THEN "station" ELSE "player"]
    /\ UNCHANGED <<panelOf, panelVars, approvalVars, aroundVars, sent>>

-----------------------------------------------------------------------------
ApprovalReady(w) == approval.state = "ready" /\ approval.wager >= w
MaySend(t, w) ==
    /\ up /\ ~duel.answering /\ ~duel.waiting /\ t \in inRange
    /\ w = 0 \/ auto \/ ApprovalReady(w)

(* Faulty variant of RenderKey: whom the panel is about is left out. *)
RenderKeyAnyone(t) ==
    [target |-> "someone", wager |-> wager, auto |-> auto, approval |-> approval,
     offered |-> duel.offered, waiting |-> duel.waiting, near |-> t \in inRange,
     send |-> MaySend(t, wager)]

(* playerRenderKey: as long as it is the same the panel's buttons stay.      *)
RenderKey(t) ==
    [target |-> t, wager |-> wager, auto |-> auto, approval |-> approval,
     offered |-> duel.offered, waiting |-> duel.waiting, near |-> t \in inRange,
     send |-> MaySend(t, wager)]

AllAnswers == {"accept", "decline"}

(* The panel.  Drawn anew no button is pressed, and a timer set for one of   *)
(* the buttons before has nothing left to give back.                         *)
DrawPanel(t) ==
    /\ panelOf' = t
    /\ IF drawn = RenderKey(t) THEN UNCHANGED panelVars
       ELSE /\ drawn' = RenderKey(t)
            /\ renderedTarget' = t
            /\ sendButton' = MaySend(t, wager)
            /\ answerButtons' = IF duel.offered /\ ~duel.answering THEN AllAnswers ELSE {}
            /\ answerTimer' = "none"

NoPanel(keep) ==
    /\ panelOf' = NoTarget
    /\ drawn' = IF keep THEN drawn ELSE NoKey
    /\ UNCHANGED <<renderedTarget, sendButton, answerButtons, answerTimer>>

(* renderInteractionPromptLine: with nothing in range the card closes.       *)
NothingNear == UiTarget(view) = {}

(* A frame (update): the target is settled, then the card is drawn for it.   *)
(* A player who is in a match sees no card but a station's.                  *)
CardFrame ==
    /\ \/ NothingNear /\ view' = ClosedView(view.target) /\ NoPanel(TRUE)
       \/ \E t \in UiTarget(view) :
          LET seen == [view EXCEPT !.target = t] IN
          \/ ~view.open /\ view' = seen /\ NoPanel(TRUE)
          \/ /\ view.open /\ duel.playing /\ view.mode # "station"
             /\ view' = ClosedView(view.target) /\ NoPanel(TRUE)
          \/ /\ view.open /\ (~duel.playing \/ view.mode = "station")
             /\ IF t \in Host THEN view' = [seen EXCEPT !.mode = "station"] /\ NoPanel(FALSE)
                ELSE IF t \in listed THEN view' = [seen EXCEPT !.mode = "player"] /\ DrawPanel(t)
                ELSE view' = seen /\ NoPanel(FALSE)
    /\ UNCHANGED <<approvalVars, aroundVars, sent, acts>>

-----------------------------------------------------------------------------
(* sendChallenge: TRUE when it is sent.  Without an approval it asks for one.*)
Sendable(t) == up /\ ~duel.waiting /\ t \in OthersNear /\ (wager = 0 \/ auto \/ ApprovalReady(wager))

SendTo(t, shown) ==
    /\ sent' = IF Sendable(t) THEN [to |-> t, shown |-> shown] ELSE sent
    /\ approval' = IF up /\ ~duel.waiting /\ t \in OthersNear /\ ~Sendable(t)
                   THEN [approval EXCEPT !.state = "required"] ELSE approval
    /\ UNCHANGED <<wager, auto, checking, aroundVars>>

(* The button of the panel; its timer gives it back after 7 s.               *)
PressSend ==
    /\ Act
    /\ panelOf # NoTarget /\ sendButton
    /\ SendTo(renderedTarget, panelOf)
    /\ sendButton' = ~Sendable(renderedTarget)
    /\ UNCHANGED <<view, panelOf, renderedTarget, drawn, answerButtons, answerTimer>>

SendTimeout ==
    /\ ~sendButton /\ drawn # NoKey /\ drawn.send
    /\ sendButton' = TRUE
    /\ UNCHANGED <<view, panelOf, renderedTarget, drawn, answerButtons, answerTimer,
                    approvalVars, aroundVars, sent, acts>>

(* The key C, and the button for touch screens (computeControlContext): the  *)
(* target of this moment.                                                    *)
NearPlayerIdle ==
    ~duel.offered /\ ~duel.playing /\ OthersNear # {} /\ ~duel.waiting

SendKey ==
    /\ Act
    /\ (view.open /\ view.mode = "player") \/ NearPlayerIdle
    /\ \E t \in UiTarget(view) : view' = [view EXCEPT !.target = t] /\ SendTo(t, NoTarget)
    /\ UNCHANGED <<panelOf, panelVars>>

(* respondToIncoming.  Both buttons share one timer.                         *)
Answerable == up /\ ~duel.answering /\ duel.offered

PressAnswer(a) ==
    /\ Act
    /\ panelOf # NoTarget /\ a \in answerButtons
    /\ duel' = [duel EXCEPT !.answering = @ \/ Answerable]
    /\ answerButtons' = IF Answerable THEN answerButtons \ {a} ELSE answerButtons
    /\ answerTimer' = IF Answerable THEN a ELSE "none"
    /\ UNCHANGED <<view, panelOf, renderedTarget, drawn, sendButton, approvalVars,
                    inRange, listed, up, sent>>

AnswerTimeout ==
    /\ answerTimer # "none"
    /\ answerButtons' = answerButtons \cup {answerTimer}
    /\ answerTimer' = "none"
    /\ UNCHANGED <<view, panelOf, renderedTarget, drawn, sendButton, approvalVars, aroundVars,
                    sent, acts>>

-----------------------------------------------------------------------------
(* The wager is typed into the panel, which draws it anew in its next frame. *)
TypeWager(w) ==
    /\ Act
    /\ panelOf # NoTarget
    /\ wager' = w
    /\ approval' =
          IF w = 0 THEN [state |-> "idle", wager |-> 0]
          ELSE IF drawn.auto THEN [state |-> "ready", wager |-> w]
          ELSE IF approval.wager < w THEN [approval EXCEPT !.state = "required"] ELSE approval
    /\ UNCHANGED <<view, panelOf, panelVars, auto, checking, aroundVars, sent>>

(* ensureEscrowApproval, and the answer of the web server, which may come    *)
(* after a later request or a later wager.                                   *)
PressApprove ==
    /\ Act
    /\ panelOf # NoTarget /\ ~drawn.auto /\ drawn.wager > 0 /\ drawn.approval.state # "checking"
    /\ IF wager = 0 THEN approval' = [state |-> "idle", wager |-> 0] /\ UNCHANGED checking
       ELSE IF auto THEN approval' = [state |-> "ready", wager |-> wager] /\ UNCHANGED checking
       ELSE /\ approval' = [approval EXCEPT !.state = "checking"]
            /\ checking' = checking \cup {wager}
    /\ UNCHANGED <<view, panelOf, panelVars, wager, auto, aroundVars, sent>>

Approved(w) ==
    /\ w \in checking
    /\ checking' \in {checking, checking \ {w}}
    /\ approval' \in {[state |-> "ready", wager |-> w], [state |-> "required", wager |-> 0]}
    /\ UNCHANGED <<view, panelOf, panelVars, wager, auto, aroundVars, sent, acts>>

-----------------------------------------------------------------------------
(* The environment: what comes near and goes ("proximity" of the server, and *)
(* the page's own look at the stations), the players of the snapshots, the   *)
(* policy for approvals, the connection, and the challenges, whose events    *)
(* PlayClient has in detail.  Without a connection nobody goes out of range. *)
InRange ==
    /\ Act
    /\ \E t \in Other \cup Host :
          /\ up \/ t \in Host
          /\ inRange' \in {inRange \cup {t}, inRange \ {t}}
    /\ UNCHANGED <<view, panelOf, panelVars, approvalVars, listed, duel, up, sent>>

Snapshots ==
    /\ Act
    /\ up
    /\ listed' \in SUBSET Other
    /\ UNCHANGED <<view, panelOf, panelVars, approvalVars, inRange, duel, up, sent>>

ApprovalPolicy ==
    /\ Act
    /\ auto' = ~auto
    /\ UNCHANGED <<view, panelOf, panelVars, wager, approval, checking, aroundVars, sent>>

LinkChanges ==
    /\ Act
    /\ up' = ~up
    /\ UNCHANGED <<view, panelOf, panelVars, approvalVars, inRange, listed, duel, sent>>

DuelAfter ==
    {[duel EXCEPT !.answering = FALSE, !.waiting = TRUE], [duel EXCEPT !.answering = FALSE, !.offered = TRUE],
     [NoDuel EXCEPT !.playing = TRUE], NoDuel, [duel EXCEPT !.answering = FALSE]}

DuelEvent ==
    /\ Act
    /\ up
    /\ duel' \in DuelAfter
    /\ UNCHANGED <<view, panelOf, panelVars, approvalVars, inRange, listed, up, sent>>

(* A refusal for want of an approval.                                        *)
RefusedForApproval ==
    /\ Act
    /\ up
    /\ duel' = [duel EXCEPT !.answering = FALSE]
    /\ approval' = [state |-> "required", wager |-> 0]
    /\ UNCHANGED <<view, panelOf, panelVars, wager, auto, checking, inRange, listed, up, sent>>

PlayerCardNext ==
    \/ InteractKey \/ EscapeKey \/ cycleNearbyTarget
    \/ CardFrame
    \/ PressSend \/ SendTimeout \/ SendKey
    \/ \E a \in AllAnswers : PressAnswer(a)
    \/ AnswerTimeout
    \/ \E w \in CardWager : TypeWager(w)
    \/ PressApprove
    \/ \E w \in checking : Approved(w)
    \/ InRange \/ Snapshots \/ ApprovalPolicy \/ LinkChanges \/ DuelEvent \/ RefusedForApproval

PlayerCardSpec == PlayerCardInit /\ [][PlayerCardNext]_playerCardVars

-----------------------------------------------------------------------------
(* A challenge sent with the button of the card goes to the player whom the  *)
(* card names at that moment, whoever has come near, gone, left the world or *)
(* been made the target since the button was drawn.                          *)
SentAsShown == sent.shown # NoTarget => sent.to = sent.shown
=============================================================================
