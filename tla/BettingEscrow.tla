---------------------------- MODULE BettingEscrow ----------------------------
(***************************************************************************)
(* The escrow contract, apps/contracts/contracts/BettingEscrow.sol, over   *)
(* an ERC-20 token (contracts/MockUSDC.sol on test networks).              *)
(*                                                                         *)
(* A transaction either runs to completion or reverts and changes nothing, *)
(* so each external function is one action whose guard is the conjunction  *)
(* of its checks; a reverted call is a stuttering step.                    *)
(***************************************************************************)
EXTENDS Integers, FiniteSets, FiniteSetsExt

CONSTANTS
    BetId,          \* keccak256 ids of bets
    Account,        \* addresses that hold tokens, the contract's included
    Escrow,         \* the contract's own address
    Treasury,       \* the fee recipient given to the constructor
    NoAccount,      \* address(0)
    Admin,          \* accounts with DEFAULT_ADMIN_ROLE
    Resolver,       \* accounts with RESOLVER_ROLE
    Stake,          \* the amounts bets are created with
    Bps,            \* the fee rates the administrator tries
    InitialBps,     \* the fee rate given to the constructor
    Funds           \* tokens every other account starts with, all approved

MaxBps == 10000

ASSUME AccountAssumption ==
    /\ Escrow \in Account /\ Treasury \in Account
    /\ NoAccount \notin Account
    /\ Admin \subseteq Account /\ Resolver \subseteq Account
ASSUME StakeAssumption == Stake \subseteq Nat
ASSUME BpsAssumption ==
    Bps \subseteq Nat /\ InitialBps \in Nat /\ InitialBps <= MaxBps
ASSUME FundsAssumption == Funds \in Nat

VARIABLES
    bets,           \* bets[b]: challenger, opponent, amount and status
    balance,        \* token.balanceOf
    allowance,      \* token.allowance(account, this contract)
    feeRecipient,
    feeBps

escrowVars == <<bets, balance, allowance, feeRecipient, feeBps>>

BetStatus == {"None", "Locked", "Resolved", "Refunded"}
Bet == [challenger : Account \cup {NoAccount}, opponent : Account \cup {NoAccount},
        amount : Nat, status : BetStatus]
NoBet == [challenger |-> NoAccount, opponent |-> NoAccount,
          amount |-> 0, status |-> "None"]

-----------------------------------------------------------------------------
(* The token, as the contract uses it. *)

Transfer(bal, from, to, amount) ==
    LET debited == [bal EXCEPT ![from] = @ - amount]
    IN  [debited EXCEPT ![to] = @ + amount]

(* Two transfers in a row succeed when the sender can pay each in turn.    *)
CanTransfer(bal, from, amount) == bal[from] >= amount

Spend(allow, from, amount) == [allow EXCEPT ![from] = @ - amount]

-----------------------------------------------------------------------------
EscrowInit ==
    /\ bets = [b \in BetId |-> NoBet]
    /\ balance = [a \in Account |-> IF a = Escrow THEN 0 ELSE Funds]
    /\ allowance = [a \in Account |-> IF a = Escrow THEN 0 ELSE Funds]
    /\ feeRecipient = Treasury
    /\ feeBps = InitialBps

SetFeeConfig(caller, recipient, bps) ==
    /\ caller \in Admin
    /\ recipient # NoAccount
    /\ bps <= MaxBps
    /\ feeRecipient' = recipient
    /\ feeBps' = bps
    /\ UNCHANGED <<bets, balance, allowance>>

CreateBet(b, challenger, opponent, amount) ==
    LET afterFirst == Transfer(balance, challenger, Escrow, amount)
        spentFirst == Spend(allowance, challenger, amount)
    IN  /\ challenger # NoAccount /\ opponent # NoAccount
        /\ amount # 0
        /\ bets[b].status = "None"
        /\ CanTransfer(balance, challenger, amount)
        /\ allowance[challenger] >= amount
        /\ CanTransfer(afterFirst, opponent, amount)
        /\ spentFirst[opponent] >= amount
        /\ bets' = [bets EXCEPT ![b] =
              [challenger |-> challenger, opponent |-> opponent,
               amount |-> amount, status |-> "Locked"]]
        /\ balance' = Transfer(afterFirst, opponent, Escrow, amount)
        /\ allowance' = Spend(spentFirst, opponent, amount)
        /\ UNCHANGED <<feeRecipient, feeBps>>

Pot(b) == 2 * bets[b].amount
FeeOf(pot, bps) == (pot * bps) \div MaxBps

(* Faulty variant of ResolveBet: the fee is not taken off the payout. *)
ResolveBetGross(caller, b, winner) ==
    LET afterFee == Transfer(balance, Escrow, feeRecipient, FeeOf(Pot(b), feeBps))
    IN  /\ caller \in Resolver
        /\ bets[b].status = "Locked"
        /\ winner \in {bets[b].challenger, bets[b].opponent}
        /\ CanTransfer(balance, Escrow, FeeOf(Pot(b), feeBps))
        /\ CanTransfer(afterFee, Escrow, Pot(b))
        /\ bets' = [bets EXCEPT ![b].status = "Resolved"]
        /\ balance' = Transfer(afterFee, Escrow, winner, Pot(b))
        /\ UNCHANGED <<allowance, feeRecipient, feeBps>>

ResolveBet(caller, b, winner) ==
    LET fee == FeeOf(Pot(b), feeBps)
        afterFee == Transfer(balance, Escrow, feeRecipient, fee)
    IN  /\ caller \in Resolver
        /\ bets[b].status = "Locked"
        /\ winner \in {bets[b].challenger, bets[b].opponent}
        /\ CanTransfer(balance, Escrow, fee)
        /\ CanTransfer(afterFee, Escrow, Pot(b) - fee)
        /\ bets' = [bets EXCEPT ![b].status = "Resolved"]
        /\ balance' = Transfer(afterFee, Escrow, winner, Pot(b) - fee)
        /\ UNCHANGED <<allowance, feeRecipient, feeBps>>

RefundBet(caller, b) ==
    LET bet == bets[b]
        afterFirst == Transfer(balance, Escrow, bet.challenger, bet.amount)
    IN  /\ caller \in Resolver
        /\ bet.status = "Locked"
        /\ CanTransfer(balance, Escrow, bet.amount)
        /\ CanTransfer(afterFirst, Escrow, bet.amount)
        /\ bets' = [bets EXCEPT ![b].status = "Refunded"]
        /\ balance' = Transfer(afterFirst, Escrow, bet.opponent, bet.amount)
        /\ UNCHANGED <<allowance, feeRecipient, feeBps>>

EscrowNext ==
    \/ \E a, r \in Account, bps \in Bps : SetFeeConfig(a, r, bps)
    \/ \E b \in BetId, p, q \in Account, s \in Stake : CreateBet(b, p, q, s)
    \/ \E a, w \in Account, b \in BetId : ResolveBet(a, b, w)
    \/ \E a \in Account, b \in BetId : RefundBet(a, b)

EscrowSpec == EscrowInit /\ [][EscrowNext]_escrowVars

-----------------------------------------------------------------------------
EscrowTypeOK ==
    /\ bets \in [BetId -> Bet]
    /\ balance \in [Account -> Nat]
    /\ allowance \in [Account -> Nat]
    /\ feeRecipient \in Account
    /\ feeBps \in 0 .. MaxBps

LockedBets == {b \in BetId : bets[b].status = "Locked"}

(* The contract always holds the stakes of every locked bet, so that a      *)
(* settlement never fails for lack of tokens: the fee and payout arithmetic *)
(* of resolveBet and the transfers of createBet and refundBet never pay one *)
(* bet out of another's stakes.                                             *)
Solvent ==
    balance[Escrow] >= MapThenSumSet(LAMBDA b : 2 * bets[b].amount, LockedBets)

(* A bet is settled at most once and its terms never change: once created   *)
(* its parties and amount stay, Locked is only left for Resolved or         *)
(* Refunded, and those are final.                                           *)
BetTermsFixed ==
    [][\A b \in BetId :
          bets[b].status # "None" =>
             /\ bets'[b].challenger = bets[b].challenger
             /\ bets'[b].opponent = bets[b].opponent
             /\ bets'[b].amount = bets[b].amount
             /\ bets'[b].status \in IF bets[b].status = "Locked"
                                    THEN {"Locked", "Resolved", "Refunded"}
                                    ELSE {bets[b].status}]_escrowVars

(* Settling a bet pays out its whole pot and nothing else, whatever the fee *)
(* rate was changed to while it was locked: the contract loses exactly the  *)
(* pot, only the parties and the fee recipient gain, and on a refund each   *)
(* party gets its own stake back.                                           *)
PaidOut(b) ==
    LET bet == bets[b]
        gain(a) == balance'[a] - balance[a]
        stakeOf(a) == (IF a = bet.challenger THEN bet.amount ELSE 0)
                         + (IF a = bet.opponent THEN bet.amount ELSE 0)
    IN  /\ feeRecipient # Escrow => gain(Escrow) = -Pot(b)
        /\ \A a \in Account \ {Escrow} :
              /\ gain(a) >= 0
              /\ gain(a) > 0 => a \in {bet.challenger, bet.opponent, feeRecipient}
              /\ bets'[b].status = "Refunded" => gain(a) = stakeOf(a)

PotPaidOut ==
    [][\A b \in BetId :
          bets[b].status = "Locked" /\ bets'[b].status # "Locked" => PaidOut(b)]_escrowVars
=============================================================================
