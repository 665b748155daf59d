--------------------------- MODULE MC_DealerRound ---------------------------
(* An instance for TLC of the dealers' tables: the rounds of the server, and *)
(* the card of a table in the browser.  Each behaviour exercises one of the  *)
(* two, the other stands still.                                              *)
EXTENDS DealerRound, StationCard

CONSTANTS alice, rpsTable, coinHost, coinStation

VARIABLE part

MCOne == {alice}

(* A station of the server, and a host that stands for another.              *)
MCDealer == [t \in {rpsTable, coinHost} |-> IF t = coinHost THEN coinStation ELSE t]

tablesVars == <<part, dealerVars, cardVars>>
InRound(A) == part = "round" /\ A /\ UNCHANGED <<part, cardVars>>
InCard(A) == part = "card" /\ A /\ UNCHANGED <<part, dealerVars>>

DealersInit == part \in {"round", "card"} /\ DealerInit /\ CardInit
DealersNext == InRound(DealerNext) \/ InCard(CardNext)

(* The fairness of both specifications.                                      *)
DealersFairness ==
    /\ \A c \in ChallengeId :
          WF_tablesVars(InRound(PickStep(c))) /\ WF_tablesVars(InRound(Settle(c)))
    /\ WF_tablesVars(InRound(MainLoop)) /\ WF_tablesVars(InRound(Clock))
    /\ WF_tablesVars(InCard(Frame)) /\ WF_tablesVars(InCard(StationUi))
    /\ WF_tablesVars(InCard(\E r \in serving : ServePick(r)))
    /\ \A key \in {"preflight", "pick"} : WF_tablesVars(InCard(CardTimeout(key)))

DealersSpec == DealersInit /\ [][DealersNext]_tablesVars /\ DealersFairness
=============================================================================
