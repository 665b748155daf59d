-------------------------- MODULE OperationsChief --------------------------
(* The two assistants that carry out what players and operators ask for in   *)
(* words: chief (web/src/chief.ts, chief/runbooks.ts) and the workspace's    *)
(* chief2 (web/src/chief2/), with the operator's page in front of it         *)
(* (public/js/admin-chief.js).  A message becomes a list of plans; when one  *)
(* of them is sensitive nothing is done before its owner has confirmed it    *)
(* with a token.  A plan makes calls to the runtime and the game server,     *)
(* which may fail, before or after they have taken effect.                   *)
EXTENDS Integers, Sequences, FiniteSets

CONSTANTS
    Operator,       \* those who write to an assistant
    Administrator,  \* those of them that administer the system
    MaxMessages,    \* bound on the messages; a message's number is also its token
    MaxFailures     \* bound on calls that fail and answers that are lost

maxAttempts == 2

(* What becomes of a plan that is sensitive or not and makes so many calls   *)
(* that change something: chief tries it again, chief2 does not.             *)
Plan(sensitive, calls) == [sensitive |-> sensitive, calls |-> calls, attempts |-> maxAttempts]
Chief2Plan(sensitive, calls) == [sensitive |-> sensitive, calls |-> calls, attempts |-> 1]

(* A message that names none, one or two of an assistant's commands, which   *)
(* are looked for in this order.                                             *)
Commands(tools) ==
    {<<>>} \cup {<<tools[i]>> : i \in DOMAIN tools}
    \cup UNION {{<<tools[i], tools[j]>> : j \in (i + 1) .. Len(tools)} : i \in DOMAIN tools}
OrElse(lists, plan) == (lists \ {<<>>}) \cup {<<plan>>}

-----------------------------------------------------------------------------
(* buildPlans of chief, by the intent of the message.                        *)
InspectState == Plan(FALSE, 0)

PrepareGas == Plan(FALSE, 1)
FundWallet == Plan(FALSE, 1)
WithdrawFunds == Plan(TRUE, 1)
TransferFunds == Plan(TRUE, 1)
WalletPlans == Commands(<<PrepareGas, FundWallet, WithdrawFunds, TransferFunds>>)

UpdateOwnerBot(operator) == Plan(operator \in Administrator, 1)
BotPlans(operator) == Commands(<<UpdateOwnerBot(operator)>>)

ReconcileBots == Plan(TRUE, 1)
ApplyDelegation == Plan(TRUE, 1)
SyncSkills == Plan(FALSE, 1)
HouseConfig == Plan(TRUE, 1)
RuntimePlans == Commands(<<ReconcileBots, ApplyDelegation, SyncSkills, HouseConfig>>)

InspectPlayer == Plan(FALSE, 0)
LogoutPlayer == Plan(TRUE, 1)
AdjustWallet == Plan(TRUE, 1)
UserPlans == Commands(<<InspectPlayer, LogoutPlayer, AdjustWallet>>)

buildPlans(operator) ==
    {<<InspectState>>} \cup WalletPlans \cup BotPlans(operator)
        \cup (IF operator \in Administrator THEN RuntimePlans \cup UserPlans ELSE {})

(* The runbooks come before these.  One that still needs input plans nothing. *)
SnapshotRunbook == <<Plan(FALSE, 0)>>
EconomyRunbook == <<Plan(FALSE, 0)>>
ChallengeRunbook == <<Plan(FALSE, 0), Plan(TRUE, 2)>>
InspectRunbook == <<Plan(FALSE, 0)>>
LogoutRunbook == <<Plan(TRUE, 1)>>
AdjustRunbook == <<Plan(TRUE, 1)>>
IntegrityRunbook == <<Plan(FALSE, 0)>>
buildRunbookSelection(operator) ==
    IF operator \in Administrator
    THEN {SnapshotRunbook, EconomyRunbook, ChallengeRunbook, InspectRunbook, LogoutRunbook, AdjustRunbook,
          IntegrityRunbook}
    ELSE {}

(* What no plan was found for goes to the super agent, of an administrator,  *)
(* which may change the bots, or to the house; once, whatever the answer.    *)
fallbackReply(operator) ==
    <<[sensitive |-> FALSE, calls |-> IF operator \in Administrator THEN 1 ELSE 0, attempts |-> 1]>>

(* buildChief2Plans: there is always a plan, if only to tell the status.     *)
StatusPlan == Chief2Plan(FALSE, 0)
RuntimeOps ==
    OrElse(Commands(<<Chief2Plan(TRUE, 1), Chief2Plan(TRUE, 1), Chief2Plan(FALSE, 0), Chief2Plan(TRUE, 1)>>), StatusPlan)
UserAdmin == OrElse(Commands(<<Chief2Plan(TRUE, 1), Chief2Plan(TRUE, 1), Chief2Plan(TRUE, 1)>>), StatusPlan)
MarketOps == OrElse(Commands(<<Chief2Plan(TRUE, 1), Chief2Plan(TRUE, 1), Chief2Plan(TRUE, 1)>>), StatusPlan)
buildChief2Plans == {<<StatusPlan>>} \cup RuntimeOps \cup UserAdmin \cup MarketOps

Plans(desk, operator) ==
    IF desk = "chief2" THEN buildChief2Plans
    ELSE OrElse(buildRunbookSelection(operator) \cup buildPlans(operator), fallbackReply(operator)[1])

(* The workspace is for administrators.                                      *)
DeskOf(operator) == IF operator \in Administrator THEN {"chief", "chief2"} ELSE {"chief"}

-----------------------------------------------------------------------------
VARIABLES
    planned,                \* the messages: [desk, owner, plans]
    pendingConfirmations,   \* tokens that can be confirmed
    runs,                   \* executePlans under way or over: [token, step, attempt, call]
    effects,                \* token -> plan -> call -> how often it has taken effect
    failures,
    answers,                \* of the workspace, on their way to a page: [to, shows, token]
    page                    \* an administrator's page: [graph, token]

NoToken == 0
chiefVars == <<planned, pendingConfirmations, runs, effects, failures, answers, page>>

ChiefInit ==
    /\ planned = <<>> /\ pendingConfirmations = {} /\ runs = <<>> /\ effects = <<>>
    /\ failures = 0
    /\ answers = {}
    /\ page = [a \in Administrator |-> [graph |-> NoToken, token |-> NoToken]]

Sensitive(plans) == \E i \in DOMAIN plans : plans[i].sensitive
NoEffect(plans) == [i \in DOMAIN plans |-> [c \in 1 .. plans[i].calls |-> 0]]
executePlans(token) == runs' = Append(runs, [token |-> token, step |-> 1, attempt |-> 1, call |-> 1])
Answer(desk, operator, shows, token) ==
    answers' = IF desk = "chief2" THEN answers \cup {[to |-> operator, shows |-> shows, token |-> token]}
               ELSE answers

(* handleChat and command, of a message.                                     *)
Message(operator, desk, plans) ==
    LET token == Len(planned) + 1 IN
    /\ token <= MaxMessages
    /\ planned' = Append(planned, [desk |-> desk, owner |-> operator, plans |-> plans])
    /\ effects' = Append(effects, NoEffect(plans))
    /\ IF Sensitive(plans)
       THEN /\ pendingConfirmations' = pendingConfirmations \cup {token}
            /\ Answer(desk, operator, token, token)
            /\ UNCHANGED runs
       ELSE /\ executePlans(token)
            /\ Answer(desk, operator, token, NoToken)
            /\ UNCHANGED pendingConfirmations
    /\ UNCHANGED <<failures, page>>

(* Faulty variant of UseToken: the token is kept. *)
TokenKept(token) == UNCHANGED pendingConfirmations

(* executePendingConfirmation and command, of a token: it is used up before  *)
(* the first plan is executed.                                               *)
UseToken(token) == pendingConfirmations' = pendingConfirmations \ {token}

Confirm(operator, token) ==
    /\ token \in pendingConfirmations /\ planned[token].owner = operator
    /\ UseToken(token)
    /\ executePlans(token)
    /\ Answer(planned[token].desk, operator, token, NoToken)
    /\ UNCHANGED <<planned, effects, failures, page>>

(* prunePending, two minutes later.                                          *)
Expire(token) ==
    /\ token \in pendingConfirmations
    /\ pendingConfirmations' = pendingConfirmations \ {token}
    /\ UNCHANGED <<planned, runs, effects, failures, answers, page>>

-----------------------------------------------------------------------------
(* executePlans and runChief2Loop: the calls of a plan, one by one, and with *)
(* chief a record of it in the audit log.                                    *)
PlanOf(run) == planned[run.token].plans[run.step]
Running(r) == runs[r].step <= Len(planned[runs[r].token].plans)
Calling(run) == run.call <= PlanOf(run).calls
NextStep(run) == [run EXCEPT !.step = @ + 1, !.attempt = 1, !.call = 1]
AfterCall(run) == IF Calling(run) THEN [run EXCEPT !.call = @ + 1] ELSE NextStep(run)

(* A plan that has failed is executed again from its first call.             *)
AfterFailure(run) ==
    IF run.attempt < PlanOf(run).attempts THEN [run EXCEPT !.attempt = @ + 1, !.call = 1] ELSE NextStep(run)

TakesEffect(run) ==
    effects' = IF Calling(run) THEN [effects EXCEPT ![run.token][run.step][run.call] = @ + 1] ELSE effects

Executed(r) ==
    /\ Running(r)
    /\ TakesEffect(runs[r])
    /\ runs' = [runs EXCEPT ![r] = AfterCall(@)]
    /\ UNCHANGED <<planned, pendingConfirmations, failures, answers, page>>

(* The call fails, before it has taken effect or after: the answer is lost,  *)
(* or cannot be read.  So may the record of the plan.                        *)
CallFails(r) ==
    /\ Running(r) /\ failures < MaxFailures
    /\ failures' = failures + 1
    /\ UNCHANGED effects \/ TakesEffect(runs[r])
    /\ runs' = [runs EXCEPT ![r] = AfterFailure(@)]
    /\ UNCHANGED <<planned, pendingConfirmations, answers, page>>

(* The web server restarts: tokens and runs are in its memory only.          *)
RunOver(run) == [run EXCEPT !.step = Len(planned[run.token].plans) + 1]
WebRestart ==
    /\ failures < MaxFailures
    /\ failures' = failures + 1
    /\ pendingConfirmations' = {}
    /\ runs' = [r \in DOMAIN runs |-> RunOver(runs[r])]
    /\ answers' = {}
    /\ UNCHANGED <<planned, effects, page>>

-----------------------------------------------------------------------------
(* Faulty variant of Shown: the answer to a confirmation leaves the button. *)
ShownBesideToken(answer) ==
    [graph |-> answer.shows, token |-> IF answer.token = NoToken THEN page[answer.to].token ELSE answer.token]

(* The page of the workspace: an answer replaces the plans it shows and the  *)
(* token its button confirms, in whatever order answers arrive.  (Here an    *)
(* answer does not wait for the end of its plans: it arrives at any time.)   *)
Shown(answer) == [graph |-> answer.shows, token |-> answer.token]

PageAnswered(answer) ==
    /\ answers' = answers \ {answer}
    /\ page' = [page EXCEPT ![answer.to] = Shown(answer)]
    /\ UNCHANGED <<planned, pendingConfirmations, runs, effects, failures>>

(* runCommand and confirmPending report a failure and leave both as they are. *)
PageFails(answer) ==
    /\ failures < MaxFailures
    /\ failures' = failures + 1
    /\ answers' = answers \ {answer}
    /\ UNCHANGED <<planned, pendingConfirmations, runs, effects, page>>

(* The administrator confirms on the page, an owner of a token of chief in   *)
(* whatever he uses.                                                         *)
confirmPending(a) == page[a].token # NoToken /\ Confirm(a, page[a].token)
ConfirmChat(operator, token) == planned[token].desk = "chief" /\ Confirm(operator, token)

ChiefNext ==
    \/ \E operator \in Operator : \E desk \in DeskOf(operator) :
          \E plans \in Plans(desk, operator) : Message(operator, desk, plans)
    \/ \E a \in Administrator : confirmPending(a)
    \/ \E operator \in Operator, token \in pendingConfirmations : ConfirmChat(operator, token)
    \/ \E token \in pendingConfirmations : Expire(token)
    \/ \E r \in DOMAIN runs : Executed(r)
    \/ \E r \in DOMAIN runs : CallFails(r)
    \/ WebRestart
    \/ \E answer \in answers : PageAnswered(answer) \/ PageFails(answer)

ChiefSpec == ChiefInit /\ [][ChiefNext]_chiefVars

-----------------------------------------------------------------------------
(* A call takes effect at most as often as the assistant may try its plan,   *)
(* however often and however fast the confirmation is repeated; that of a    *)
(* sensitive message not before its token is gone.  (chief tries twice, so   *)
(* that a call whose answer was lost may take effect twice; chief2 does not.) *)
ActsOnce ==
    \A token \in DOMAIN planned : \A i \in DOMAIN planned[token].plans :
        \A c \in DOMAIN effects[token][i] :
            /\ effects[token][i][c] <= planned[token].plans[i].attempts
            /\ Sensitive(planned[token].plans) /\ effects[token][i][c] > 0 => token \notin pendingConfirmations

(* What the button of the workspace confirms is what the page shows, however *)
(* the answers to several commands arrive, and after failures.               *)
ConfirmsWhatIsShown ==
    \A a \in Administrator : page[a].token \in {NoToken, page[a].graph}
=============================================================================
