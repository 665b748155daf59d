--------------------------- MODULE RuntimeLedger ---------------------------
(* The money of the agent runtime when no chain is configured: the balances  *)
(* of its wallets, the house bank that funds the bots, the stakes it holds   *)
(* in escrow, and what of it is saved and read back at a restart.            *)
(* agent-runtime/src/index.ts, routes/wallets.ts, routes/house.ts,           *)
(* RuntimeDatabase.ts.  A route runs to its end once its body has been read, *)
(* so that each is one action.  Saving to the database is not: it reads the  *)
(* balances one row at a time.                                               *)
EXTENDS Integers, Sequences, SequencesExt, FiniteSets, FiniteSetsExt

CONSTANTS
    User,           \* wallets of players
    Npc,            \* wallets of bots of the house (owner "system_...")
    Bank,           \* the wallet of the house itself
    BotOrder,       \* the wallets of registered bots, in the order of the registry
    WalletOrder,    \* all wallets, in the order they were created
    Stakeable,      \* ids of challenges
    Sum,            \* amounts asked for
    FeeBps,         \* fee rates asked for, in 1/10000
    MaxDaily,       \* maxDailyTxCount
    MaxBetPercent,  \* maxBetPercentOfBankroll
    BankStart, UserSeed, NpcSeed,
    TopupAmount,    \* npcWalletTopupAmount
    AutoFloor,      \* userWalletAutoFloor
    WithDatabase,   \* saved to the database, else to the file
    MaxCalls        \* bound on the calls of a behaviour

Wallet == User \cup Npc \cup {Bank}

ASSUME LedgerAssumption ==
    /\ IsFiniteSet(Wallet) /\ IsFiniteSet(Stakeable)
    /\ User \cap Npc = {} /\ Bank \notin User \cup Npc
    /\ BotOrder \in Seq(User \cup Npc) /\ WalletOrder \in Seq(Wallet)
    /\ Sum \subseteq Nat /\ FeeBps \subseteq 0 .. 10000
    /\ {MaxDaily, MaxBetPercent, BankStart, UserSeed, NpcSeed, TopupAmount} \subseteq Nat
    /\ AutoFloor \in BOOLEAN /\ WithDatabase \in BOOLEAN

HouseManaged == Npc \cup {Bank}
NoLock == [by |-> Bank, against |-> Bank, amount |-> 0]

VARIABLES
    funds,          \* wallet -> its balance
    dailyTx,        \* wallet -> dailyTxCount, up to the limit
    escrowLocks,    \* challenge -> its lock
    policyEnabled,  \* walletPolicy.enabled
    npcFloor,       \* npcWalletFloor
    supply,         \* what has been brought in from outside less what was taken out
    overdraft,      \* history: how much of their stakes challengers did not have
    saving,         \* the rows a save has yet to insert, and those it has inserted
    saved,          \* what the file or the database holds
    calls           \* the number of calls so far

ledgerVars == <<funds, dailyTx, escrowLocks, policyEnabled, npcFloor, supply, overdraft,
                saving, saved, calls>>
persistVars == <<saving, saved>>

SeedOf(w) == IF w = Bank THEN BankStart ELSE IF w \in Npc THEN NpcSeed ELSE UserSeed
Total(f) == MapThenSumSet(LAMBDA w : f[w], Wallet)
Escrowed(locks) == MapThenSumSet(LAMBDA c : 2 * locks[c].amount, Stakeable)
NotSaving == [left |-> <<>>, rows |-> <<>>]
Unreadable == [rows |-> <<>>, policyEnabled |-> TRUE]
Fresh == [w \in Wallet |-> [funds |-> SeedOf(w), dailyTx |-> 0]]
Rows == [w \in Wallet |-> [funds |-> funds[w], dailyTx |-> dailyTx[w]]]

LedgerInit ==
    /\ funds = [w \in Wallet |-> SeedOf(w)]
    /\ dailyTx = [w \in Wallet |-> 0]
    /\ escrowLocks = [c \in Stakeable |-> NoLock]
    /\ policyEnabled = TRUE
    /\ npcFloor = NpcSeed
    /\ supply = Total(funds)
    /\ overdraft = 0
    /\ saving = NotSaving
    /\ saved = [rows |-> Fresh, policyEnabled |-> TRUE]
    /\ calls = 0

Call == calls < MaxCalls /\ calls' = calls + 1
Counted(f, ws) == [w \in Wallet |-> IF w \in ws THEN IF f[w] < MaxDaily THEN f[w] + 1 ELSE f[w]
                                    ELSE f[w]]

(* The answer of canUseWallet and canLockStake: "ok" or the reason.          *)
canUseWallet(w) ==
    IF ~policyEnabled THEN "wallet_policy_disabled"
    ELSE IF dailyTx[w] >= MaxDaily THEN "daily_tx_limit_reached" ELSE "ok"
canLockStake(bal, w, n) ==
    IF canUseWallet(w) # "ok" THEN canUseWallet(w)
    ELSE IF bal[w] < n THEN "insufficient_balance"
    ELSE IF n * 100 > bal[w] * MaxBetPercent THEN "max_bet_percent_exceeded" ELSE "ok"

(* Balances after transferFromHouse and refillHouse; a refused transfer      *)
(* changes nothing.                                                          *)
CanTransferFromHouse(bal, n) == n > 0 /\ bal[Bank] >= n
FromHouse(bal, w, n) ==
    LET paid == [bal EXCEPT ![Bank] = @ - n] IN [paid EXCEPT ![w] = @ + n]
TransferredFromHouse(bal, w, n) ==
    IF CanTransferFromHouse(bal, n) THEN FromHouse(bal, w, n) ELSE bal
Refilled(bal, n) == [bal EXCEPT ![Bank] = @ + n]

-----------------------------------------------------------------------------
(* POST /wallets/:id/fund, withdraw and transfer.                            *)
Fund(w, n) ==
    /\ Call
    /\ canUseWallet(w) = "ok"
    /\ funds' = [funds EXCEPT ![w] = @ + n]
    /\ dailyTx' = Counted(dailyTx, {w})
    /\ supply' = supply + n
    /\ UNCHANGED <<escrowLocks, policyEnabled, npcFloor, overdraft, persistVars>>

Withdraw(w, n) ==
    /\ Call
    /\ canUseWallet(w) = "ok"
    /\ funds[w] >= n
    /\ funds' = [funds EXCEPT ![w] = @ - n]
    /\ dailyTx' = Counted(dailyTx, {w})
    /\ supply' = supply - n
    /\ UNCHANGED <<escrowLocks, policyEnabled, npcFloor, overdraft, persistVars>>

TransferTo(s, t, n) ==
    /\ Call
    /\ s # t
    /\ canUseWallet(s) = "ok"
    /\ canUseWallet(t) = "ok"
    /\ funds[s] >= n
    /\ funds' = [funds EXCEPT ![s] = @ - n, ![t] = @ + n]
    /\ dailyTx' = Counted(dailyTx, {s, t})
    /\ UNCHANGED <<escrowLocks, policyEnabled, npcFloor, supply, overdraft, persistVars>>

(* Faulty variant of Topup: a bot is topped up beyond what the bank has. *)
TopupUnchecked(against, n) ==
    LET needed == n - funds[against] IN
    IF needed > 0 /\ against \in Npc
    THEN [ok |-> TRUE, refill |-> 0, funds |-> FromHouse(funds, against, needed)]
    ELSE [ok |-> TRUE, refill |-> 0, funds |-> funds]

(* POST /wallets/escrow/lock.  A dry bot is topped up by the bank, and a dry *)
(* bank by a refill; what has been moved stays moved when the lock is then   *)
(* refused.  A refused top-up ends the call.                                 *)
Topup(against, n) ==
    LET dry == canLockStake(funds, against, n) = "insufficient_balance"
        needed == n - funds[against]
    IN  IF dry /\ against \in Npc
        THEN [ok |-> CanTransferFromHouse(funds, needed), refill |-> 0,
              funds |-> TransferredFromHouse(funds, against, needed)]
        ELSE IF dry /\ against = Bank
        THEN [ok |-> TRUE, refill |-> needed, funds |-> Refilled(funds, needed)]
        ELSE [ok |-> TRUE, refill |-> 0, funds |-> funds]

Accepted(top, against, n) ==
    LET denied == canLockStake(top.funds, against, n) IN
    /\ top.ok
    /\ \/ denied = "ok"
       \/ denied = "max_bet_percent_exceeded" /\ against \in HouseManaged

StakesTaken(bal, by, against, n) == [bal EXCEPT ![by] = @ - n, ![against] = @ - n]

(* The part of its stake the challenger has not got after the top-up, before *)
(* which its balance was looked at.                                          *)
Uncovered(bal, by, n) == IF bal[by] < n THEN n - bal[by] ELSE 0

EscrowLock(c, by, against, n) ==
    LET top == Topup(against, n) IN
    /\ Call
    /\ by # against
    /\ escrowLocks[c] = NoLock              \* a second call is answered with the lock
    /\ canLockStake(funds, by, n) = "ok"
    /\ supply' = supply + top.refill
    /\ \/ /\ Accepted(top, against, n)
          /\ funds' = StakesTaken(top.funds, by, against, n)
          /\ dailyTx' = Counted(dailyTx, {by, against})
          /\ escrowLocks' = [escrowLocks EXCEPT
                ![c] = [by |-> by, against |-> against, amount |-> n]]
          /\ overdraft' = overdraft + Uncovered(top.funds, by, n)
       \/ /\ ~Accepted(top, against, n)
          /\ funds' = top.funds
          /\ UNCHANGED <<dailyTx, escrowLocks, overdraft>>
    /\ UNCHANGED <<policyEnabled, npcFloor, persistVars>>

(* POST /wallets/escrow/resolve and refund.  The fee leaves the ledger.      *)
FeeOn(lock, bps) == (2 * lock.amount * bps) \div 10000

EscrowResolve(c, winner, bps) ==
    LET lock == escrowLocks[c] IN
    /\ Call
    /\ lock # NoLock
    /\ winner \in {lock.by, lock.against}
    /\ funds' = [funds EXCEPT ![winner] = @ + 2 * lock.amount - FeeOn(lock, bps)]
    /\ supply' = supply - FeeOn(lock, bps)
    /\ dailyTx' = Counted(dailyTx, {winner})
    /\ escrowLocks' = [escrowLocks EXCEPT ![c] = NoLock]
    /\ UNCHANGED <<policyEnabled, npcFloor, overdraft, persistVars>>

EscrowRefund(c) ==
    LET lock == escrowLocks[c] IN
    /\ Call
    /\ lock # NoLock
    /\ funds' = [funds EXCEPT ![lock.by] = @ + lock.amount, ![lock.against] = @ + lock.amount]
    /\ escrowLocks' = [escrowLocks EXCEPT ![c] = NoLock]
    /\ UNCHANGED <<dailyTx, policyEnabled, npcFloor, supply, overdraft, persistVars>>

-----------------------------------------------------------------------------
(* ensureSeedBalances: the bots in the order of the registry, so that a bank *)
(* that runs short serves the first ones.                                    *)
Floored(bal, w, floor) ==
    IF w \in User
    THEN IF AutoFloor /\ bal[w] < UserSeed THEN [bal EXCEPT ![w] = UserSeed] ELSE bal
    ELSE IF bal[w] >= floor THEN bal
    ELSE LET needed == floor - bal[w] IN
         TransferredFromHouse(bal, w,
             IF TopupAmount # 0 /\ TopupAmount < needed THEN TopupAmount ELSE needed)
Seeded(bal, floor) == FoldLeft(LAMBDA b, w : Floored(b, w, floor), bal, BotOrder)

ensureSeedBalances(floor) ==
    /\ funds' = Seeded(funds, floor)
    /\ supply' = supply + Total(funds') - Total(funds)

(* The timer, and POST /house/config.                                        *)
BudgetTick ==
    /\ ensureSeedBalances(npcFloor)
    /\ UNCHANGED <<dailyTx, escrowLocks, policyEnabled, npcFloor, overdraft, persistVars, calls>>

SetHouseConfig(floor) ==
    /\ Call
    /\ npcFloor' = floor
    /\ ensureSeedBalances(floor)
    /\ UNCHANGED <<dailyTx, escrowLocks, policyEnabled, overdraft, persistVars>>

(* POST /house/transfer and /house/refill.                                   *)
HouseTransfer(w, n) ==
    /\ Call
    /\ CanTransferFromHouse(funds, n)
    /\ funds' = FromHouse(funds, w, n)
    /\ UNCHANGED <<dailyTx, escrowLocks, policyEnabled, npcFloor, supply, overdraft, persistVars>>

HouseRefill(n) ==
    /\ Call
    /\ funds' = Refilled(funds, n)
    /\ supply' = supply + n
    /\ UNCHANGED <<dailyTx, escrowLocks, policyEnabled, npcFloor, overdraft, persistVars>>

(* The operator's wallet policy, and normalizeWalletTx on a new day.         *)
SetWalletPolicy(enabled) ==
    /\ Call
    /\ policyEnabled' = enabled
    /\ UNCHANGED <<funds, dailyTx, escrowLocks, npcFloor, supply, overdraft, persistVars>>

NewDay ==
    /\ Call
    /\ dailyTx' = [w \in Wallet |-> 0]
    /\ UNCHANGED <<funds, escrowLocks, policyEnabled, npcFloor, supply, overdraft, persistVars>>

-----------------------------------------------------------------------------
(* persistRuntimeState.  writeFile empties the file before it writes what    *)
(* JSON.stringify has made of the wallets in one go; the rows of the         *)
(* database are inserted one await after the other, each with what the       *)
(* wallet holds by then, and rolled back by a crash.  One save at a time.    *)
BeginSave ==
    /\ Call
    /\ saving = NotSaving
    /\ saving' = [left |-> IF WithDatabase THEN WalletOrder ELSE <<>>, rows |-> Rows]
    /\ saved' = IF WithDatabase THEN saved ELSE Unreadable
    /\ UNCHANGED <<funds, dailyTx, escrowLocks, policyEnabled, npcFloor, supply, overdraft>>

InsertRow ==
    /\ saving.left # <<>>
    /\ LET w == Head(saving.left) IN
       saving' = [left |-> Tail(saving.left), rows |-> [saving.rows EXCEPT ![w] = Rows[w]]]
    /\ UNCHANGED <<funds, dailyTx, escrowLocks, policyEnabled, npcFloor, supply, overdraft, saved, calls>>

Commit ==
    /\ saving # NotSaving
    /\ saving.left = <<>>
    /\ saved' = [rows |-> saving.rows, policyEnabled |-> policyEnabled]
    /\ saving' = NotSaving
    /\ UNCHANGED <<funds, dailyTx, escrowLocks, policyEnabled, npcFloor, supply, overdraft, calls>>

(* A crash and the start after it.  Locks and the floors of the bots are not *)
(* saved; a file that cannot be parsed is ignored and the runtime starts     *)
(* anew, every wallet with its seed.                                         *)
RuntimeRestart ==
    LET rows == IF saved = Unreadable THEN Fresh ELSE saved.rows IN
    /\ Call
    /\ saving' = NotSaving
    /\ funds' = Seeded([w \in Wallet |-> rows[w].funds], NpcSeed)
    /\ dailyTx' = [w \in Wallet |-> rows[w].dailyTx]
    /\ supply' = Total(funds')
    /\ escrowLocks' = [c \in Stakeable |-> NoLock]
    /\ npcFloor' = NpcSeed
    /\ policyEnabled' = IF saved = Unreadable THEN TRUE ELSE saved.policyEnabled
    /\ UNCHANGED <<overdraft, saved>>

LedgerNext ==
    \/ \E w \in Wallet, n \in Sum : Fund(w, n) \/ Withdraw(w, n) \/ HouseTransfer(w, n)
    \/ \E s, t \in Wallet, n \in Sum : TransferTo(s, t, n)
    \/ \E c \in Stakeable :
        \/ \E by, against \in Wallet, n \in Sum : EscrowLock(c, by, against, n)
        \/ \E w \in Wallet, bps \in FeeBps : EscrowResolve(c, w, bps)
        \/ EscrowRefund(c)
    \/ \E n \in Sum : HouseRefill(n) \/ SetHouseConfig(n)
    \/ \E enabled \in BOOLEAN : SetWalletPolicy(enabled)
    \/ BudgetTick \/ NewDay \/ BeginSave \/ InsertRow \/ Commit \/ RuntimeRestart

LedgerSpec == LedgerInit /\ [][LedgerNext]_ledgerVars

-----------------------------------------------------------------------------
(* However locks, top-ups, refills, payouts and restarts follow each other,  *)
(* the balances and the stakes in escrow are what came into the ledger, and  *)
(* no wallet is overdrawn, with one exception: the bank, by what it had not  *)
(* got left when it staked against a bot it had just topped up, and that     *)
(* only when more than half of a bankroll may be bet (100% at most,          *)
(* routes/superAgent.ts).                                                    *)
MoneyConserved ==
    /\ \A w \in Wallet \ {Bank} : funds[w] \in Nat
    /\ funds[Bank] \in Int /\ funds[Bank] + overdraft >= 0
    /\ MaxBetPercent <= 50 => overdraft = 0
    /\ \A w \in Wallet : dailyTx[w] \in 0 .. MaxDaily
    /\ \A c \in Stakeable : escrowLocks[c].amount \in Nat
    /\ Total(funds) + Escrowed(escrowLocks) = supply
=============================================================================
