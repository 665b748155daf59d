-------------------------- MODULE ChallengeDispatch --------------------------
(***************************************************************************)
(* One game server around its challenge engine: apps/server/src/index.ts   *)
(* (dispatchChallengeEventWithEscrow and the websocket handlers that call  *)
(* it), the chain half of EscrowAdapter.ts, and the escrow contract.  The  *)
(* player locks, with which registration may fail, are in                  *)
(* DistributedChallenges.                                                  *)
(*                                                                         *)
(* The engine's methods are atomic; what follows each of them is an async  *)
(* function that awaits Redis, the wallet runtime and the chain, and runs  *)
(* interleaved with everything else.  Per challenge there are three such   *)
(* functions, and how far each has come is kept in                         *)
(*   creating[c]   registration and announcement of a new challenge        *)
(*   accepting[c]  the dispatch of its accepted event, which locks stakes  *)
(*   closing[c]    the dispatch of the event that closed it                *)
(* A step from one stage to the next is the code between two awaits.       *)
(*                                                                         *)
(* A transaction is sent, and later mined or reverted; the adapter's call  *)
(* returns ok once it is mined.  With rpcFaults the call may also fail     *)
(* while its transaction is in flight or already mined (tx.wait() throws), *)
(* or before it was sent.                                                  *)
(***************************************************************************)
EXTENDS ChallengeService

CONSTANTS
    EscrowAccount,  \* the contract's address
    Treasury,       \* the fee recipient, who also owns the resolver key
    NoAccount,
    Funds,          \* tokens each wallet starts with
    FeeRate         \* feeBps

(* The players' wallets are made by the runtime, one for each; the contract *)
(* and the fee recipient it was deployed with are none of them.             *)
ASSUME DispatchAssumption ==
    /\ EscrowAccount # Treasury
    /\ EscrowAccount \notin Participant \cup {Nobody}
    /\ Treasury \notin Participant \cup {Nobody}
    /\ NoAccount \notin Participant \cup {EscrowAccount, Treasury}
    /\ Funds \in Nat /\ FeeRate \in 0 .. 10000

VARIABLES
    creating, accepting, closing,
    escrowLocked,   \* escrowLockedChallenges
    tx,             \* tx[c][k]: the transaction of kind k for challenge c
    rpcFaults,      \* whether calls to the chain may fail although it works
    bets, balance, allowance, feeRecipient, feeBps

Account == Participant \cup {EscrowAccount, Treasury}

Contract == INSTANCE BettingEscrow WITH
    BetId <- ChallengeId, Escrow <- EscrowAccount,
    Admin <- {Treasury}, Resolver <- {Treasury},
    Stake <- 1 .. MaxWager, Bps <- {FeeRate}, InitialBps <- FeeRate

chainVars == <<bets, balance, allowance, feeRecipient, feeBps>>
allVars == <<vars, creating, accepting, closing, escrowLocked,
             tx, rpcFaults, chainVars>>

TxKind == {"lock", "settle", "refund"}
TxStatus == {"none", "sent", "mined", "reverted"}
CreatingStage == {"idle", "registering", "announced", "failed"}
AcceptingStage == {"idle", "started", "locking", "locked", "unescrowed", "failed"}
ClosingStage == {"idle", "started", "settling", "refunding", "releasing",
                 "released", "skipped", "plain"}

DispatchInit ==
    /\ Init
    /\ creating = [c \in ChallengeId |-> "idle"]
    /\ accepting = [c \in ChallengeId |-> "idle"]
    /\ closing = [c \in ChallengeId |-> "idle"]
    /\ escrowLocked = {}
    /\ tx = [c \in ChallengeId |-> [k \in TxKind |-> "none"]]
    /\ rpcFaults \in BOOLEAN
    /\ Contract!EscrowInit

Challenger(c) == challenges[c].challenger
Opponent(c) == challenges[c].opponent
Staked(c) == challenges[c].wager > 0

(* The challenges the engine has just closed enter the dispatch of their   *)
(* closing event, at the given stage.                                      *)
ClosedNow == {c \in ChallengeId : \E s \in Closed : Event(s, c) \in returned'}
DispatchClosed(stage) ==
    closing' = [c \in ChallengeId |-> IF c \in ClosedNow THEN stage ELSE closing[c]]

-----------------------------------------------------------------------------
(* Creating: createChallenge, then registerCreatedChallenge, which takes    *)
(* the player locks and writes the metadata.  DistributedChallenges has its  *)
(* steps; here it succeeds or finds a player locked.                        *)

Create(p, q, g, w) ==
    /\ CreateAccepted(p, q, g, w)
    /\ creating' = [creating EXCEPT ![counter] = "registering"]

Send(p, q, g, w) ==
    /\ Create(p, q, g, w)
    /\ UNCHANGED <<rpcFaults, accepting, closing, escrowLocked, tx, chainVars>>

(* A player is locked, by a challenge of another server or one that has     *)
(* closed and was not released: aborted, unless it has closed meanwhile.    *)
(* House matches take no locks.                                             *)
RefuseRegistration(c) ==
    /\ creating[c] = "registering" /\ House \notin Parties(challenges[c])
    /\ AbortChallenge(c, "declined")
    /\ DispatchClosed("started")
    /\ creating' = [creating EXCEPT ![c] = "failed"]
    /\ UNCHANGED <<rpcFaults, accepting, escrowLocked, tx, chainVars>>

(* Registered, and created is dispatched: the players hear of it. *)
Announce(c) ==
    /\ creating[c] = "registering"
    /\ creating' = [creating EXCEPT ![c] = "announced"]
    /\ UNCHANGED <<rpcFaults, vars, accepting, closing, escrowLocked, tx, chainVars>>

-----------------------------------------------------------------------------
(* Answers and moves.  A challenge can be answered once it is announced.   *)

Accept(c, p) ==
    /\ creating[c] = "announced"
    /\ RespondAccept(c, p)
    /\ accepting' = [accepting EXCEPT ![c] = IF Staked(c) THEN "started" ELSE "unescrowed"]
    /\ UNCHANGED <<rpcFaults, creating, closing, escrowLocked, tx, chainVars>>

(* Also challenge_counter, which then challenges back: a Send.              *)
Decline(c, p) ==
    /\ creating[c] = "announced"
    /\ RespondDecline(c, p)
    /\ DispatchClosed("started")
    /\ UNCHANGED <<rpcFaults, creating, accepting, escrowLocked, tx, chainVars>>

SendMove(c, p, m) ==
    /\ MoveRecorded(c, p, m)
    /\ DispatchClosed("started")
    /\ UNCHANGED <<rpcFaults, creating, accepting, escrowLocked, tx, chainVars>>

MainLoopTick ==
    /\ Tick
    /\ DispatchClosed("started")
    /\ UNCHANGED <<rpcFaults, creating, accepting, escrowLocked, tx, chainVars>>

Disconnect(p) ==
    /\ ClearDisconnectedPlayer(p)
    /\ DispatchClosed("started")
    /\ UNCHANGED <<rpcFaults, creating, accepting, escrowLocked, tx, chainVars>>

-----------------------------------------------------------------------------
(* The dispatch of accepted: both wallets are looked up, the stakes are    *)
(* locked on chain, and only then is the challenge recorded as escrowed.   *)

(* The challenge is aborted; its event goes out by dispatchChallengeEvent, *)
(* which neither settles nor releases anything.                            *)
AbortPlain(c) == AbortChallenge(c, "declined") /\ DispatchClosed("plain")

WalletMissing(c) ==
    /\ accepting[c] = "started"
    /\ AbortPlain(c)
    /\ accepting' = [accepting EXCEPT ![c] = "failed"]
    /\ UNCHANGED <<rpcFaults, creating, escrowLocked, tx, chainVars>>

LockStake(c) ==
    /\ accepting[c] = "started"
    /\ accepting' = [accepting EXCEPT ![c] = "locking"]
    /\ UNCHANGED <<rpcFaults, vars, creating, closing, escrowLocked, tx, chainVars>>

SendTx(c, kind, awaiting) ==
    /\ awaiting
    /\ tx[c][kind] = "none"
    /\ tx' = [tx EXCEPT ![c][kind] = "sent"]
    /\ UNCHANGED <<rpcFaults, vars, creating, accepting, closing, escrowLocked,
                   chainVars>>

(* Faulty variant of Effect: a pot without a winner goes to the challenger. *)
EffectAlwaysWinner(c, kind) ==
    CASE kind = "lock" ->
            Contract!CreateBet(c, Challenger(c), Opponent(c), challenges[c].wager)
      [] kind = "settle" ->
            Contract!ResolveBet(Treasury, c, IF challenges[c].winner = Nobody
                                             THEN Challenger(c) ELSE challenges[c].winner)
      [] kind = "refund" -> Contract!RefundBet(Treasury, c)

(* The call of the transaction: resolve with no winner is a refund. *)
Effect(c, kind) ==
    CASE kind = "lock" ->
            Contract!CreateBet(c, Challenger(c), Opponent(c), challenges[c].wager)
      [] kind = "settle" ->
            IF challenges[c].winner = Nobody THEN Contract!RefundBet(Treasury, c)
            ELSE Contract!ResolveBet(Treasury, c, challenges[c].winner)
      [] kind = "refund" -> Contract!RefundBet(Treasury, c)

(* Whether the call would go through; its guard, without the effect. *)
Reverts(c, kind) ==
    IF kind = "lock"
    THEN \/ bets[c].status # "None"
         \/ \E p \in Parties(challenges[c]) :
               balance[p] < challenges[c].wager \/ allowance[p] < challenges[c].wager
    ELSE bets[c].status # "Locked"

Mine(c, kind) ==
    /\ tx[c][kind] = "sent"
    /\ \/ /\ ~Reverts(c, kind) /\ Effect(c, kind)
          /\ tx' = [tx EXCEPT ![c][kind] = "mined"]
       \/ /\ Reverts(c, kind)
          /\ tx' = [tx EXCEPT ![c][kind] = "reverted"]
          /\ UNCHANGED chainVars
    /\ UNCHANGED <<rpcFaults, vars, creating, accepting, closing, escrowLocked>>

(* What the adapter may report of the transaction, given how it stands. *)
Succeeded(c, kind) == tx[c][kind] = "mined"
Failed(c, kind) == rpcFaults \/ tx[c][kind] = "reverted"

StakeLocked(c) ==
    /\ accepting[c] = "locking" /\ Succeeded(c, "lock")
    /\ accepting' = [accepting EXCEPT ![c] = "locked"]
    /\ escrowLocked' = escrowLocked \cup {c}
    /\ UNCHANGED <<rpcFaults, vars, creating, closing, tx, chainVars>>

(* A preflight may refuse before anything is sent, for the wallet policy   *)
(* (then the match goes on unescrowed) or for any other reason.            *)
PolicyDisabled(c) ==
    /\ accepting[c] = "locking" /\ tx[c]["lock"] = "none"
    /\ accepting' = [accepting EXCEPT ![c] = "unescrowed"]
    /\ UNCHANGED <<rpcFaults, vars, creating, closing, escrowLocked, tx, chainVars>>

StakeRefused(c) ==
    /\ accepting[c] = "locking"
    /\ tx[c]["lock"] = "none" \/ Failed(c, "lock")
    /\ AbortPlain(c)
    /\ accepting' = [accepting EXCEPT ![c] = "failed"]
    /\ UNCHANGED <<rpcFaults, creating, escrowLocked, tx, chainVars>>

-----------------------------------------------------------------------------
(* The dispatch of a closing event. *)

To(c, stage) == closing' = [closing EXCEPT ![c] = stage]

(* Faulty variant of SkipSettlement: escrowed challenges are skipped too. *)
SkipSettlementAlways(c) ==
    /\ closing[c] = "started" /\ Staked(c)
    /\ To(c, "skipped")
    /\ UNCHANGED <<rpcFaults, vars, creating, accepting, escrowLocked, tx, chainVars>>

(* A staked challenge that is not recorded as escrowed: nothing to settle, *)
(* and the dispatch returns before it releases the player locks.           *)
SkipSettlement(c) ==
    /\ closing[c] = "started" /\ Staked(c) /\ c \notin escrowLocked
    /\ To(c, "skipped")
    /\ UNCHANGED <<rpcFaults, vars, creating, accepting, escrowLocked, tx, chainVars>>

BeginSettlement(c) ==
    /\ closing[c] = "started"
    /\ \/ ~Staked(c) /\ To(c, "releasing")
       \/ /\ Staked(c) /\ c \in escrowLocked
          /\ To(c, IF challenges[c].status = "resolved" THEN "settling" ELSE "refunding")
    /\ UNCHANGED <<rpcFaults, vars, creating, accepting, escrowLocked, tx, chainVars>>

Settled(c) ==
    /\ closing[c] = "settling" /\ Succeeded(c, "settle")
    /\ To(c, "releasing")
    /\ escrowLocked' = escrowLocked \ {c}
    /\ UNCHANGED <<rpcFaults, vars, creating, accepting, tx, chainVars>>

SettleFailed(c) ==
    /\ closing[c] = "settling" /\ Failed(c, "settle")
    /\ To(c, "refunding")
    /\ UNCHANGED <<rpcFaults, vars, creating, accepting, escrowLocked, tx, chainVars>>

(* Whether the refund succeeded or not, the record is dropped. *)
Refunded(c) ==
    /\ closing[c] = "refunding" /\ (Succeeded(c, "refund") \/ Failed(c, "refund"))
    /\ To(c, "releasing")
    /\ escrowLocked' = escrowLocked \ {c}
    /\ UNCHANGED <<rpcFaults, vars, creating, accepting, tx, chainVars>>

(* releasePlayers and clear. *)
ReleasePlayers(c) ==
    /\ closing[c] = "releasing"
    /\ To(c, "released")
    /\ UNCHANGED <<rpcFaults, vars, creating, accepting, escrowLocked, tx, chainVars>>

-----------------------------------------------------------------------------
Clock ==
    /\ \E c \in ChallengeId : timer[c] > 0
    /\ TimePasses
    /\ UNCHANGED <<rpcFaults, creating, accepting, closing, escrowLocked, tx, chainVars>>

ServerStep(c) ==
    \/ RefuseRegistration(c) \/ Announce(c)
    \/ WalletMissing(c) \/ LockStake(c)
    \/ SendTx(c, "lock", accepting[c] = "locking")
    \/ StakeLocked(c) \/ PolicyDisabled(c) \/ StakeRefused(c)
    \/ SkipSettlement(c) \/ BeginSettlement(c)
    \/ SendTx(c, "settle", closing[c] = "settling")
    \/ SendTx(c, "refund", closing[c] = "refunding")
    \/ Settled(c) \/ SettleFailed(c) \/ Refunded(c)
    \/ ReleasePlayers(c)

DispatchNext ==
    \/ \E p \in Player, q \in Participant, g \in Game, w \in WagerInput : Send(p, q, g, w)
    \/ \E c \in ChallengeId, p \in Participant : Accept(c, p)
    \/ \E c \in ChallengeId, p \in Player : Decline(c, p)
    \/ \E c \in ChallengeId, p \in Participant, m \in Move : SendMove(c, p, m)
    \/ \E p \in Player : Disconnect(p)
    \/ \E c \in ChallengeId : ServerStep(c)
    \/ \E c \in ChallengeId, kind \in TxKind : Mine(c, kind)
    \/ MainLoopTick
    \/ Clock

DispatchSafety == DispatchInit /\ [][DispatchNext]_allVars

(* The event loop keeps running, so every awaited call returns and every   *)
(* function proceeds; time passes; the chain mines what it is sent.        *)
DispatchFairness ==
    /\ WF_allVars(MainLoopTick)
    /\ WF_allVars(Clock)
    /\ \A c \in ChallengeId : WF_allVars(ServerStep(c))
    /\ \A c \in ChallengeId, kind \in TxKind : WF_allVars(Mine(c, kind))

DispatchSpec == DispatchSafety /\ DispatchFairness

-----------------------------------------------------------------------------

(* Money follows the match: a pot is only paid to the winner of a resolved  *)
(* challenge, and stakes only go back once the challenge is closed without  *)
(* a winner or after a failed payout; whatever order answers, timeouts,     *)
(* disconnects, transactions and their receipts come in.                    *)
SettlementFollowsOutcome ==
    [][\A c \in ChallengeId :
          bets[c].status = "Locked" =>
             /\ bets'[c].status = "Resolved" =>
                   /\ challenges[c].status = "resolved"
                   /\ challenges[c].winner # Nobody
                   /\ balance'[challenges[c].winner] - balance[challenges[c].winner]
                         = 2 * challenges[c].wager
                           - Contract!FeeOf(2 * challenges[c].wager, feeBps)
             /\ bets'[c].status = "Refunded" =>
                   /\ challenges[c].status \in Closed
                   /\ challenges[c].winner = Nobody \/ closing[c] = "refunding"
                                                    \/ closing[c] = "releasing"
                                                    \/ closing[c] = "released"]_allVars

(* A stake the server recorded while the match was still open is settled in *)
(* the end, if calls to the chain do not fail.                              *)
RecordedStakeSettled ==
    \A c \in ChallengeId :
        ~rpcFaults /\ c \in escrowLocked /\ IsOpen(c)
            ~> bets[c].status \in {"Resolved", "Refunded"}

(* "Prevented unnecessary resolve/refund attempts when escrow lock never    *)
(* succeeded" (progress.md): when the settlement of a challenge was skipped *)
(* and the dispatch of its acceptance has ended, no stake of it is locked.  *)
(* Stated without chain faults, which would strand stakes of their own.     *)
SkippedNeverLocked ==
    \A c \in ChallengeId :
        ~rpcFaults
          /\ closing[c] = "skipped"
          /\ accepting[c] \in {"idle", "locked", "unescrowed", "failed"} =>
            bets[c].status # "Locked"
=============================================================================
