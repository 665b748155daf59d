----------------------------- MODULE MC_Clients -----------------------------
(* An instance for TLC of what is connected: the page of a player, its card  *)
(* for challenges and its panel for predictions, the client of a bot, the    *)
(* owners whose bots are parked while they are connected, and the servers    *)
(* that migrate the database they connect to.  Each behaviour exercises one  *)
(* of the six, the others stand still.                                       *)
EXTENDS PlayClient, AgentBotClient, OwnerBots, PlayerCard, PredictionPanel, SchemaMigrations

VARIABLE part

restVars == <<predictionVars, schemaVars>>
clientsVars == <<part, clientVars, agentVars, botVars, playerCardVars, restVars>>

(* The page is looked at twice: two challenges on a lasting connection, and  *)
(* one on a connection that may be lost.                                     *)
InPage(A) ==
    /\ \/ part = "page" /\ A /\ linkDrops' = 0
       \/ part = "link" /\ A /\ match'.id <= 1
    /\ UNCHANGED <<part, agentVars, botVars, playerCardVars, restVars>>
InAgent(A) ==
    /\ part = "agent" /\ A
    /\ UNCHANGED <<part, clientVars, botVars, playerCardVars, restVars>>
InBots(A) ==
    /\ part = "bots" /\ A
    /\ UNCHANGED <<part, clientVars, agentVars, playerCardVars, restVars>>
InCard(A) ==
    part = "card" /\ A /\ UNCHANGED <<part, clientVars, agentVars, botVars, restVars>>
InPanel(A) ==
    /\ part = "panel" /\ A
    /\ UNCHANGED <<part, clientVars, agentVars, botVars, playerCardVars, schemaVars>>
InSchema(A) ==
    /\ part = "schema" /\ A
    /\ UNCHANGED <<part, clientVars, agentVars, botVars, playerCardVars, predictionVars>>

ClientsInit ==
    /\ part \in {"page", "link", "agent", "bots", "card", "panel", "schema"}
    /\ ClientInit /\ AgentInit /\ BotsInit /\ PlayerCardInit
    /\ PanelInit /\ SchemaInit
    /\ part # "card" => ~auto

ClientsNext ==
    \/ InPage(ClientNext)
    \/ InAgent(AgentNext)
    \/ InBots(BotsNext)
    \/ InCard(PlayerCardNext)
    \/ InPanel(PanelNext)
    \/ InSchema(SchemaNext)

(* The fairness of those specifications that state one.                       *)
ClientsFairness ==
    /\ WF_clientsVars(InPage(AskSucceeds)) /\ WF_clientsVars(InPage(Retry))
    /\ WF_clientsVars(InPage(Opened)) /\ WF_clientsVars(InPage(Receive))
    /\ WF_clientsVars(InPage(Serve))
    /\ WF_clientsVars(InPage(\E i \in DOMAIN dispatching : Deliver(i)))
    /\ WF_clientsVars(InAgent(ensureActive)) /\ WF_clientsVars(InAgent(reconnectTimer))
    /\ \A s \in Socket :
          WF_clientsVars(InAgent(onOpen(s))) /\ WF_clientsVars(InAgent(ClosingDone(s)))
    /\ \A c \in Offered :
          /\ WF_clientsVars(InAgent(AnswerChallenge(c)))
          /\ WF_clientsVars(InAgent(SubmitAgentMove(c)))
    /\ WF_clientsVars(InBots(RuntimeTick))

ClientsSpec == ClientsInit /\ [][ClientsNext]_clientsVars /\ ClientsFairness
=============================================================================
