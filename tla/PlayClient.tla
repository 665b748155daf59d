---------------------------- MODULE PlayClient -----------------------------
(* The page of a player: its socket with the retries, and what it believes   *)
(* of its challenges.  web/public/js/play/: runtime/network/, challenge.js,  *)
(* runtime/challenge-events.js, runtime/game-moves.js.  The game server is   *)
(* what index.ts shows of it to this client: the challenge the player has    *)
(* open, and events that are sent when their dispatch is over.               *)
EXTENDS Integers, Sequences

CONSTANTS
    MaxChallenges,  \* bound on the challenges that are made; they are numbered
    MaxLinkDrops,       \* bound on connections that are lost or refused
    MaxOnTheWay     \* bound on the requests, dispatches and messages there are when the player acts

None == 0
Nothing == [id |-> None, mine |-> FALSE, status |-> "none", moved |-> {}]

VARIABLES
    link,           \* the connection of the page: timer, asking, opening, open
    incoming, outgoing, active, responding,     \* the state of the page
    requests,       \* from the page, in order
    inbox,          \* to the page, in order
    known,          \* the server has a socket for the player
    match,          \* the last challenge of the player
    dispatching,    \* events the server is still to send, in the order they were made
    missed,         \* the page has missed an event, or had one out of its turn
    linkDrops

pageVars == <<incoming, outgoing, active, responding>>
serverVars == <<known, match, dispatching>>
clientVars == <<link, pageVars, requests, inbox, serverVars, missed, linkDrops>>

ClientInit ==
    /\ link = "asking"
    /\ incoming = None /\ outgoing = None /\ active = Nothing /\ responding = FALSE
    /\ requests = <<>> /\ inbox = <<>>
    /\ known = FALSE /\ match = Nothing /\ dispatching = <<>>
    /\ missed = FALSE /\ linkDrops = 0

EndingEvent == {"declined", "expired", "resolved"}
Open(m) == m.status \in {"pending", "active"}

-----------------------------------------------------------------------------
(* The connection: /api/player/me is asked first, a failure and a lost       *)
(* connection set the retry timer.                                           *)
AskSucceeds ==
    /\ link = "asking" /\ link' = "opening"
    /\ UNCHANGED <<pageVars, requests, inbox, serverVars, missed, linkDrops>>

AskFails ==
    /\ link \in {"asking", "opening"} /\ linkDrops < MaxLinkDrops
    /\ link' = "timer" /\ linkDrops' = linkDrops + 1
    /\ UNCHANGED <<pageVars, requests, inbox, serverVars, missed>>

Retry ==
    /\ link = "timer" /\ link' = "asking"
    /\ UNCHANGED <<pageVars, requests, inbox, serverVars, missed, linkDrops>>

(* The server takes the player's id over from a socket it still has.         *)
Opened ==
    /\ link = "opening" /\ link' = "open"
    /\ known' = TRUE
    /\ UNCHANGED <<pageVars, requests, inbox, match, dispatching, missed, linkDrops>>

(* Nothing of the page's state is reset, and what was on the way is lost.    *)
LinkDropped ==
    /\ link = "open" /\ linkDrops < MaxLinkDrops
    /\ link' = "timer" /\ linkDrops' = linkDrops + 1
    /\ requests' = <<>> /\ inbox' = <<>>
    /\ missed' = (missed \/ inbox # <<>> \/ requests # <<>>)
    /\ UNCHANGED <<pageVars, serverVars>>

-----------------------------------------------------------------------------
(* What the player does.                                                     *)
Send(request) ==
    /\ link = "open"
    /\ Len(requests) + Len(dispatching) + Len(inbox) < MaxOnTheWay
    /\ requests' = Append(requests, request)

SendChallenge ==
    /\ outgoing = None
    /\ Send([type |-> "challenge_send", id |-> None, accept |-> FALSE])
    /\ UNCHANGED <<link, pageVars, inbox, serverVars, missed, linkDrops>>

CurrentIncoming == IF incoming # None /\ active.id = incoming /\ ~active.mine THEN incoming ELSE None

RespondToIncoming(accept) ==
    /\ ~responding /\ CurrentIncoming # None
    /\ Send([type |-> "challenge_response", id |-> CurrentIncoming, accept |-> accept])
    /\ responding' = TRUE
    /\ UNCHANGED <<link, incoming, outgoing, active, inbox, serverVars, missed, linkDrops>>

SendGameMove ==
    /\ active.id # None /\ "me" \notin active.moved
    /\ Send([type |-> "challenge_move", id |-> active.id, accept |-> FALSE])
    /\ UNCHANGED <<link, pageVars, inbox, serverVars, missed, linkDrops>>

-----------------------------------------------------------------------------
(* Faulty variant of Cleared: the ids of the requests are kept. *)
ClearedActive == active' = Nothing /\ responding' = FALSE /\ UNCHANGED <<incoming, outgoing>>

(* handleChallengeEvent.  An event with a challenge makes it the active one, *)
(* a closing event of any challenge of the player clears all there is.       *)
Cleared == incoming' = None /\ outgoing' = None /\ active' = Nothing /\ responding' = FALSE

Created(challenge) ==
    /\ active' = challenge
    /\ responding' = FALSE
    /\ incoming' = IF challenge.mine THEN incoming ELSE challenge.id
    /\ outgoing' = IF challenge.mine THEN challenge.id ELSE outgoing

Accepted(challenge) ==
    /\ active' = challenge
    /\ responding' = FALSE
    /\ incoming' = None /\ outgoing' = None

MoveSubmitted(challenge) == active' = challenge /\ UNCHANGED <<incoming, outgoing, responding>>

(* Faulty variant of Refused: the request stays under way. *)
RefusedShown == UNCHANGED <<responding, incoming, outgoing, active>>

Refused == responding' = FALSE /\ UNCHANGED <<incoming, outgoing, active>>

Handle(message) ==
    \/ message.event = "created" /\ Created(message.challenge)
    \/ message.event = "accepted" /\ Accepted(message.challenge)
    \/ message.event = "move_submitted" /\ MoveSubmitted(message.challenge)
    \/ message.event \in EndingEvent /\ Cleared
    \/ message.event = "invalid" /\ Refused

Receive ==
    /\ link = "open" /\ inbox # <<>>
    /\ Handle(Head(inbox))
    /\ inbox' = Tail(inbox)
    /\ missed' = ((missed /\ Head(inbox).event \notin EndingEvent) \/ Head(inbox).late)
    /\ UNCHANGED <<link, requests, serverVars, linkDrops>>

-----------------------------------------------------------------------------
(* The server.  An event's dispatch begins when the challenge changes.       *)
Dispatch(event, id) == dispatching' = Append(dispatching, [event |-> event, id |-> id])
ClosingUnderWay == \E i \in DOMAIN dispatching : dispatching[i].event \in EndingEvent

(* createChallenge and registerCreatedChallenge: busy while the player has   *)
(* an open challenge; and the locks of the last one are held until its end   *)
(* has been dispatched, so that the new one is aborted.                      *)
Create(mine) ==
    LET id == match.id + 1 IN
    IF Open(match) THEN Dispatch("invalid", None) /\ UNCHANGED match
    ELSE /\ id <= MaxChallenges
         /\ IF ClosingUnderWay
            THEN /\ Dispatch("declined", id)
                 /\ match' = [Nothing EXCEPT !.id = id, !.mine = mine, !.status = "closed"]
            ELSE /\ Dispatch("created", id)
                 /\ match' = [Nothing EXCEPT !.id = id, !.mine = mine, !.status = "pending"]

Respond(id, accept) ==
    IF match.id = id /\ match.status = "pending" /\ ~match.mine
    THEN /\ match' = [match EXCEPT !.status = IF accept THEN "active" ELSE "closed"]
         /\ Dispatch(IF accept THEN "accepted" ELSE "declined", id)
    ELSE Dispatch("invalid", None) /\ UNCHANGED match

MoveTaken(who, id) ==
    IF match.id = id /\ match.status = "active" /\ who \notin match.moved
    THEN LET moved == match.moved \cup {who}
             both == moved = {"me", "other"} IN
         /\ match' = [match EXCEPT !.moved = moved, !.status = IF both THEN "closed" ELSE "active"]
         /\ Dispatch(IF both THEN "resolved" ELSE "move_submitted", id)
    ELSE Dispatch("invalid", None) /\ UNCHANGED match

Serve ==
    /\ known /\ requests # <<>>
    /\ LET request == Head(requests) IN
       \/ request.type = "challenge_send" /\ Create(TRUE)
       \/ request.type = "challenge_response" /\ Respond(request.id, request.accept)
       \/ request.type = "challenge_move" /\ MoveTaken("me", request.id)
    /\ requests' = Tail(requests)
    /\ UNCHANGED <<link, pageVars, inbox, known, missed, linkDrops>>

(* What the other player does, once it has heard of the challenge.           *)
Announced == \A i \in DOMAIN dispatching : dispatching[i].event # "created"

OtherChallenges ==
    /\ known /\ ~Open(match) /\ match.id < MaxChallenges /\ Create(FALSE)
    /\ UNCHANGED <<link, pageVars, requests, inbox, known, missed, linkDrops>>

OtherResponds(accept) ==
    /\ match.mine /\ match.status = "pending" /\ Announced
    /\ match' = [match EXCEPT !.status = IF accept THEN "active" ELSE "closed"]
    /\ Dispatch(IF accept THEN "accepted" ELSE "declined", match.id)
    /\ UNCHANGED <<link, pageVars, requests, inbox, known, missed, linkDrops>>

OtherMoves ==
    /\ match.status = "active" /\ "other" \notin match.moved /\ MoveTaken("other", match.id)
    /\ UNCHANGED <<link, pageVars, requests, inbox, known, missed, linkDrops>>

(* The challenge times out, or the other player disconnects.                 *)
CloseMatch ==
    /\ match' = [match EXCEPT !.status = "closed"]
    /\ Dispatch("expired", match.id)

TimesOut ==
    /\ Open(match) /\ CloseMatch
    /\ UNCHANGED <<link, pageVars, requests, inbox, known, missed, linkDrops>>

(* The server notices that the player's connection is gone.                  *)
ServerClose ==
    /\ known /\ link # "open"
    /\ known' = FALSE
    /\ IF Open(match) THEN CloseMatch ELSE UNCHANGED <<match, dispatching>>
    /\ UNCHANGED <<link, pageVars, requests, inbox, missed, linkDrops>>

(* A dispatch is over.  They end in the order they began, except that one of *)
(* an acceptance waits for the stakes.  The challenge is sent as it is now,  *)
(* to the socket there is; without one the event is lost.                    *)
Ready(i) == \A j \in 1 .. i - 1 : dispatching[j].event = "accepted"
CurrentChallenge(id) ==
    IF id = match.id THEN match ELSE [Nothing EXCEPT !.id = id, !.status = "closed"]

Deliver(i) ==
    /\ i \in DOMAIN dispatching /\ Ready(i)
    /\ dispatching' = [j \in 1 .. Len(dispatching) - 1 |-> dispatching[IF j < i THEN j ELSE j + 1]]
    /\ LET d == dispatching[i]
           challenge == CurrentChallenge(d.id)
           message == [event |-> d.event, challenge |-> challenge,
                       late |-> d.event = "accepted" /\ ~Open(challenge)] IN
       IF known /\ link = "open"
       THEN inbox' = Append(inbox, message) /\ UNCHANGED missed
       ELSE missed' = TRUE /\ UNCHANGED inbox
    /\ UNCHANGED <<link, pageVars, requests, known, match, linkDrops>>

-----------------------------------------------------------------------------
ClientNext ==
    \/ AskSucceeds \/ AskFails \/ Retry \/ Opened \/ LinkDropped
    \/ SendChallenge
    \/ \E accept \in BOOLEAN : RespondToIncoming(accept)
    \/ SendGameMove
    \/ Receive
    \/ Serve
    \/ OtherChallenges
    \/ \E accept \in BOOLEAN : OtherResponds(accept)
    \/ OtherMoves \/ TimesOut \/ ServerClose
    \/ \E i \in DOMAIN dispatching : Deliver(i)

ClientSpec ==
    /\ ClientInit
    /\ [][ClientNext]_clientVars
    /\ WF_clientVars(AskSucceeds) /\ WF_clientVars(Retry) /\ WF_clientVars(Opened)
    /\ WF_clientVars(Receive) /\ WF_clientVars(Serve)
    /\ WF_clientVars(\E i \in DOMAIN dispatching : Deliver(i))

-----------------------------------------------------------------------------
(* When nothing is on its way, the page shows the challenge the server has:  *)
(* the same incoming or outgoing challenge, the same match, and no answer it *)
(* still waits for.  A page that has missed an event, or was told of an      *)
(* acceptance after the end of the match, is excused until the next end.     *)
Settled == link = "open" /\ known /\ requests = <<>> /\ inbox = <<>> /\ dispatching = <<>> /\ ~missed
PageFollowsServer ==
    Settled =>
        /\ incoming = IF match.status = "pending" /\ ~match.mine THEN match.id ELSE None
        /\ outgoing = IF match.status = "pending" /\ match.mine THEN match.id ELSE None
        /\ (active.status = "active") <=> (match.status = "active")
        /\ Open(match) => active = match
        /\ ~responding

(* An answer the player has given does not keep it from giving another one   *)
(* for as long as the connection lasts: some event always ends the wait.     *)
AnswerComesBack == responding ~> (~responding \/ link # "open" \/ missed)
=============================================================================
