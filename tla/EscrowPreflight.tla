-------------------------- MODULE EscrowPreflight --------------------------
(* Before it locks stakes the game server has the runtime prepare both       *)
(* wallets: mint what is missing, approve the contract.  Results are cached  *)
(* and callers that ask for the same share one request, which is retried;    *)
(* a request that timed out goes on in the runtime.  Meanwhile other stakes, *)
(* withdrawals and preparations move the same balances and allowances.       *)
(* server/src/EscrowAdapter.ts, agent-runtime/src/index.ts (prepareWallet-   *)
(* ForEscrowOnchain) and routes/wallets.ts.                                  *)
EXTENDS Integers, Sequences

CONSTANTS
    Holder,         \* wallets
    Caller,         \* calls of lockStake and preflightStake
    Offer,          \* the stakes asked for: [by, against, amount]
    TokenStart,     \* tokens of each wallet at the beginning
    MaxAttempts,    \* maxAttempts of prepareWalletsForOnchainEscrow
    MaxEvents       \* bound on withdrawals, transfers, fundings and failures

ASSUME PreflightAssumption ==
    /\ Holder # {}
    /\ Offer \subseteq [by : Holder, against : Holder, amount : Nat]
    /\ TokenStart \in Nat
    /\ MaxAttempts \in Nat \ {0}

Want == {o.amount : o \in Offer}
Key == {[pair |-> {o.by, o.against}, amount |-> n] : o \in Offer, n \in Want}
Attempt == 1 .. MaxAttempts
NoPrep == [left |-> <<>>, step |-> "none", short |-> FALSE, failed |-> FALSE, clean |-> FALSE]
NoResult == [ok |-> FALSE, clean |-> FALSE, valid |-> FALSE]
NoCall == [stage |-> "idle", by |-> CHOOSE w \in Holder : TRUE,
           against |-> CHOOSE w \in Holder : TRUE, amount |-> 0,
           lock |-> FALSE, clean |-> FALSE]

VARIABLES
    token,          \* wallet -> its tokens
    approved,      \* wallet -> what the escrow contract may take
    call,           \* the calls of the adapter
    run,            \* preflightInFlight: key -> the attempt under way, 0 for none
    prep,           \* key, attempt -> the request as the runtime works on it
    cache,          \* preflightCache
    events          \* how many of them so far

prepVars == <<token, approved, call, run, prep, cache, events>>

(* "clean" is history: nothing but the preparation of this key itself has    *)
(* touched its wallets since the request was taken up.                       *)

PreflightInit ==
    /\ token = [w \in Holder |-> TokenStart]
    /\ approved = [w \in Holder |-> 0]
    /\ call = [k \in Caller |-> NoCall]
    /\ run = [q \in Key |-> 0]
    /\ prep = [q \in Key |-> [a \in Attempt |-> NoPrep]]
    /\ cache = [q \in Key |-> NoResult]
    /\ events = 0

(* Faulty variant of preflightKey: the amount is not part of the key. *)
preflightKeyByPair(by, against, n) == [pair |-> {by, against}, amount |-> CHOOSE m \in Want : TRUE]

preflightKey(by, against, n) == [pair |-> {by, against}, amount |-> n]
KeyOf(k) == preflightKey(call[k].by, call[k].against, call[k].amount)
PrepareRequest(by, against) ==
    [left |-> <<by, against>>, step |-> "balance", short |-> FALSE, failed |-> FALSE, clean |-> TRUE]

(* What has happened to wallets ws, other than through key q.                *)
Touched(q, ws, except) == q \notin except /\ q.pair \cap ws # {}
PrepAfter(p, ws, except) ==
    [q \in Key |-> [a \in Attempt |->
        IF Touched(q, ws, except) THEN [p[q][a] EXCEPT !.clean = FALSE] ELSE p[q][a]]]
CacheAfter(ws, except) ==
    [q \in Key |-> IF Touched(q, ws, except) THEN [cache[q] EXCEPT !.clean = FALSE] ELSE cache[q]]
CallsAfter(cs, ws, except) ==
    [k \in Caller |-> IF Touched(KeyOf(k), ws, except) THEN [cs[k] EXCEPT !.clean = FALSE] ELSE cs[k]]

-----------------------------------------------------------------------------
(* lockStake (lock) or preflightStake: answered from the cache, by the       *)
(* request under way, or by a new one.  An address that cannot be looked up  *)
(* ends the call before.                                                     *)
CallOver == [NoCall EXCEPT !.stage = "over"]
Answered(c, ok, clean) ==
    IF ok /\ c.lock THEN [c EXCEPT !.stage = "creating", !.clean = clean] ELSE CallOver

Preflight(k, o, lock) ==
    LET by == o.by
        against == o.against
        n == o.amount
        q == preflightKey(by, against, n)
        asked == [stage |-> "asking", by |-> by, against |-> against, amount |-> n,
                  lock |-> lock, clean |-> FALSE]
    IN  /\ call[k].stage = "idle"
        /\ \/ /\ cache[q].valid
              /\ call' = [call EXCEPT ![k] = Answered(asked, cache[q].ok, cache[q].clean)]
              /\ UNCHANGED <<run, prep>>
           \/ /\ ~cache[q].valid
              /\ call' = [call EXCEPT ![k] = asked]
              /\ \/ run[q] # 0 /\ UNCHANGED <<run, prep>>
                 \/ /\ run[q] = 0
                    /\ prep[q][1] = NoPrep      \* bound: one given up has ended by now
                    /\ run' = [run EXCEPT ![q] = 1]
                    /\ prep' = [prep EXCEPT ![q][1] = PrepareRequest(by, against)]
        /\ UNCHANGED <<token, approved, cache, events>>

AddressMissing(k) ==
    /\ call[k].stage = "idle"
    /\ call' = [call EXCEPT ![k] = CallOver]
    /\ UNCHANGED <<token, approved, run, prep, cache, events>>

(* The request has ended, well or not: its result is cached and given to     *)
(* all who wait for it.                                                      *)
Waiting(q) == {k \in Caller : call[k].stage = "asking" /\ KeyOf(k) = q}
Ends(q, ok, clean) ==
    /\ run' = [run EXCEPT ![q] = 0]
    /\ cache' = [cache EXCEPT ![q] = [ok |-> ok, clean |-> clean, valid |-> TRUE]]
    /\ call' = [k \in Caller |->
                    IF k \in Waiting(q) THEN Answered(call[k], ok, clean) ELSE call[k]]

(* The next attempt, whose request the runtime takes up.                     *)
Retries(q) ==
    /\ run[q] < MaxAttempts
    /\ run' = [run EXCEPT ![q] = @ + 1]
    /\ \E k \in Waiting(q) :
         prep' = [prep EXCEPT ![q][run[q] + 1] = PrepareRequest(call[k].by, call[k].against)]
    /\ UNCHANGED <<call, cache>>

(* No answer within 10 s, or no connection: the runtime may be working on    *)
(* the request nevertheless.                                                 *)
AttemptFails(q) ==
    /\ run[q] # 0
    /\ events < MaxEvents
    /\ events' = events + 1
    /\ \/ Retries(q)
       \/ run[q] = MaxAttempts /\ Ends(q, FALSE, FALSE) /\ UNCHANGED prep
    /\ UNCHANGED <<token, approved>>

(* The answer.  Some refusals are worth a retry (overload), others are not.  *)
AttemptAnswered(q) ==
    LET a == run[q]
        p == prep[q][a]
        done == [prep EXCEPT ![q][a] = NoPrep]
    IN  /\ a # 0
        /\ p.step = "balance" /\ p.left = <<>>
        /\ \/ ~p.failed /\ Ends(q, TRUE, p.clean) /\ prep' = done
           \/ p.failed /\ Ends(q, FALSE, FALSE) /\ prep' = done
           \/ p.failed /\ Retries(q)
        /\ UNCHANGED <<token, approved, events>>

CacheExpires(q) ==
    /\ cache[q].valid
    /\ cache' = [cache EXCEPT ![q] = NoResult]
    /\ UNCHANGED <<token, approved, call, run, prep, events>>

-----------------------------------------------------------------------------
(* prepareWalletForEscrowOnchain, wallet by wallet, from one wait for the    *)
(* chain to the next: the balance, topped up by a mint (which a real token   *)
(* refuses), the allowance, and the approval where it is short.              *)
NextWallet(q, a, failed) ==
    LET p == prep[q][a] IN
    IF a # run[q] /\ Len(p.left) = 1 THEN NoPrep       \* nobody waits for the answer
    ELSE [p EXCEPT !.left = Tail(@), !.step = "balance", !.short = FALSE, !.failed = @ \/ failed]

PrepareBalance(q, a) ==
    LET p == prep[q][a]
        w == Head(p.left)
        stays(short) == /\ prep' = [prep EXCEPT ![q][a].step = "allowance", ![q][a].short = short]
                        /\ UNCHANGED token
    IN  /\ p.step = "balance" /\ p.left # <<>>
        /\ IF token[w] >= q.amount THEN stays(FALSE)
           ELSE \/ stays(TRUE)
                \/ /\ token' = [token EXCEPT ![w] = q.amount]
                   /\ prep' = [prep EXCEPT ![q][a].step = "allowance"]
        /\ UNCHANGED <<approved, call, run, cache, events>>

PrepareAllowance(q, a) ==
    LET p == prep[q][a]
        w == Head(p.left)
    IN  /\ p.step = "allowance"
        /\ prep' = [prep EXCEPT ![q][a] =
              IF approved[w] >= q.amount THEN NextWallet(q, a, p.short) ELSE [p EXCEPT !.step = "approve"]]
        /\ UNCHANGED <<token, approved, call, run, cache, events>>

Approved(required, current) == required
PrepareApprove(q, a) ==
    LET p == prep[q][a]
        w == Head(p.left)
    IN  /\ p.step = "approve"
        /\ approved' = [approved EXCEPT ![w] = Approved(q.amount, @)]
        /\ prep' = PrepAfter([prep EXCEPT ![q][a].step = "recheck"], {w}, {q})
        /\ cache' = CacheAfter({w}, {q})
        /\ call' = CallsAfter(call, {w}, {q})
        /\ UNCHANGED <<token, run, events>>

PrepareRecheck(q, a) ==
    LET p == prep[q][a]
        w == Head(p.left)
    IN  /\ p.step = "recheck"
        /\ prep' = [prep EXCEPT ![q][a] = NextWallet(q, a, p.short \/ approved[w] < q.amount)]
        /\ UNCHANGED <<token, approved, call, run, cache, events>>

(* No signer, no gas, or an RPC error that the retries do not get over.      *)
PrepareFails(q, a) ==
    LET p == prep[q][a] IN
    /\ p.left # <<>>
    /\ events < MaxEvents
    /\ events' = events + 1
    /\ prep' = [prep EXCEPT ![q][a] = NextWallet(q, a, TRUE)]
    /\ UNCHANGED <<token, approved, call, run, cache>>

-----------------------------------------------------------------------------
(* createBet, and the other movements of a wallet: the on-chain branches of  *)
(* withdraw, transfer and fund.                                              *)
Covered(k) ==
    \A w \in {call[k].by, call[k].against} : token[w] >= call[k].amount /\ approved[w] >= call[k].amount

Moves(ws) ==
    /\ prep' = PrepAfter(prep, ws, {})
    /\ cache' = CacheAfter(ws, {})

StakesMined(k) ==
    LET ws == {call[k].by, call[k].against}
        less(f) == [w \in Holder |-> IF w \in ws THEN f[w] - call[k].amount ELSE f[w]]
    IN  /\ call[k].stage = "creating"
        /\ \/ /\ Covered(k)
              /\ token' = less(token)
              /\ approved' = less(approved)
              /\ call' = CallsAfter([call EXCEPT ![k] = CallOver], ws, {})
              /\ Moves(ws)
           \/ /\ ~Covered(k)
              /\ call' = [call EXCEPT ![k] = CallOver]
              /\ UNCHANGED <<token, approved, prep, cache>>
        /\ UNCHANGED <<run, events>>

TransferOnchain(v, w, n) ==
    /\ events < MaxEvents
    /\ v # w
    /\ token[v] >= n
    /\ token' = [token EXCEPT ![v] = @ - n, ![w] = @ + n]
    /\ call' = CallsAfter(call, {v, w}, {})
    /\ Moves({v, w})
    /\ events' = events + 1
    /\ UNCHANGED <<approved, run>>

WithdrawOnchain(w, n) ==
    /\ events < MaxEvents
    /\ token[w] >= n
    /\ token' = [token EXCEPT ![w] = @ - n]
    /\ call' = CallsAfter(call, {w}, {})
    /\ Moves({w})
    /\ events' = events + 1
    /\ UNCHANGED <<approved, run>>

FundOnchain(w, n) ==
    /\ events < MaxEvents
    /\ token' = [token EXCEPT ![w] = @ + n]
    /\ events' = events + 1
    /\ UNCHANGED <<approved, call, run, prep, cache>>

PreflightNext ==
    \/ \E k \in Caller :
        \/ \E o \in Offer, lock \in BOOLEAN : Preflight(k, o, lock)
        \/ AddressMissing(k)
        \/ StakesMined(k)
    \/ \E q \in Key : AttemptFails(q) \/ AttemptAnswered(q) \/ CacheExpires(q)
    \/ \E q \in Key, a \in Attempt :
        \/ PrepareBalance(q, a) \/ PrepareAllowance(q, a) \/ PrepareApprove(q, a)
        \/ PrepareRecheck(q, a) \/ PrepareFails(q, a)
    \/ \E v, w \in Holder, n \in Want : TransferOnchain(v, w, n)
    \/ \E w \in Holder, n \in Want : WithdrawOnchain(w, n) \/ FundOnchain(w, n)

PreflightSpec == PreflightInit /\ [][PreflightNext]_prepVars

-----------------------------------------------------------------------------
(* A preflight that says yes can be relied on: unless another stake, another *)
(* preparation or the owner has moved one of the two wallets since, both     *)
(* cover the stake when createBet is mined, also when the answer came from   *)
(* the cache, from somebody else's request, or from a retry.                 *)
PreflightSound ==
    /\ \A w \in Holder : token[w] \in Nat /\ approved[w] \in Nat
    /\ \A k \in Caller : call[k].stage = "creating" /\ call[k].clean => Covered(k)
=============================================================================
