--------------------------- MODULE MarketPositions ---------------------------
(***************************************************************************)
(* Positions in prediction markets: MarketService.openPosition and         *)
(* settleResolvedMarkets, run by the SettlementWorker of every server, over *)
(* the table market_positions, the escrow adapter and the contract.        *)
(*                                                                         *)
(* A position is a bet between the player and the house.  It is opened by   *)
(* an async function (order[x]) and settled by a pass (pass[w]) that reads *)
(* all open positions and all markets first and then settles one position  *)
(* after the other from what it has read, awaiting the chain each time.    *)
(* The workers of several servers do not know of each other.               *)
(*                                                                         *)
(* An adapter's call that returns and the write to the table that follows  *)
(* are one step: what others do in between they may do before the return.  *)
(* A call may be reported as failed although it went through, a write may  *)
(* fail, and a function may end with its server: these are faults.         *)
(***************************************************************************)
EXTENDS MarketCatalog, FiniteSetsExt

CONSTANTS
    MaxPositions,   \* bound: ids of positions, given out in order
    Bettor,
    StakeOf,        \* the stake each order asks for
    Worker,         \* servers, each with one settlement pass at a time
    SettleRows,     \* the limit of the list a settlement pass reads
    MaxOpen,        \* MAX_OPEN_POSITIONS_PER_PLAYER
    MaxFaults       \* bound: failed calls, failed writes and crashes

ASSUME PositionAssumption ==
    /\ MaxPositions \in Nat
    /\ StakeOf \in [1 .. MaxPositions -> Nat \ {0}]
    /\ {SettleRows, MaxOpen} \subseteq Nat \ {0}
    /\ MaxFaults \in Nat

VARIABLES
    order,          \* openPosition for each position
    bet,            \* the position's bet in the contract
    position,       \* table market_positions: its status and settlementReason
    house,          \* the servers that know the wallet of the house
    pass,           \* settleResolvedMarkets of each server
    late,           \* settlements sent whose sender does not wait any more
    faults

positionVars == <<order, bet, position, house, pass, late, faults>>
marketVars == <<catalogVars, positionVars>>

Position == 1 .. MaxPositions
Side == {"yes", "no"}
Won == {"won_refund_only", "won_partial_liquidity", "won_profit"}
Reason == Won \cup {"lost", "voided"}

NoOrder == [stage |-> "none"]
PassStage == {"idle", "positions", "markets", "settling", "paid"}
PassIdle == [stage |-> "idle", rows |-> {}, seen |-> NoFeed, todo |-> {},
             cur |-> 0, verdict |-> "none"]

NoPositions ==
    /\ order = [x \in Position |-> NoOrder]
    /\ bet = [x \in Position |-> "none"]
    /\ position = [x \in Position |-> "none"]
    /\ house = {}
    /\ pass = [w \in Worker |-> PassIdle]
    /\ late = {}
    /\ faults = 0

PositionsInit == CatalogInit /\ NoPositions

Fault == faults < MaxFaults /\ faults' = faults + 1

-----------------------------------------------------------------------------
(* Opening a position. *)

OrderTo(x, stage) == order' = [order EXCEPT ![x].stage = stage]
OrderOver(x, how) == order' = [order EXCEPT ![x] = [stage |-> how]]

OpenPositions == {x \in Position : position[x] = "open"}

(* An order needs the house's wallet; its quote reads the market and its     *)
(* activation.                                                              *)
Quote(x, p, m, side) ==
    /\ order[x] = NoOrder /\ \A y \in 1 .. x - 1 : order[y] # NoOrder
    /\ house # {} /\ activation[m].active /\ PlayableNow(m)
    /\ order' = [order EXCEPT ![x] = [stage |-> "quoted", player |-> p, market |-> m,
                                      side |-> side]]
    /\ UNCHANGED <<catalogVars, bet, position, house, pass, late, faults>>

OpenOf(p) == {y \in OpenPositions : order[y].player = p}

(* The open positions are counted, and from then on the preflight and       *)
(* createBet are under way.                                                 *)
LockBet(x) ==
    /\ order[x].stage = "quoted"
    /\ Cardinality(OpenOf(order[x].player)) < MaxOpen
    /\ OrderTo(x, "locking")
    /\ UNCHANGED <<catalogVars, bet, position, house, pass, late, faults>>

TooManyOpen(x) ==
    /\ order[x].stage = "quoted"
    /\ Cardinality(OpenOf(order[x].player)) >= MaxOpen
    /\ OrderOver(x, "refused")
    /\ UNCHANGED <<catalogVars, bet, position, house, pass, late, faults>>

(* The preflight fails, or the transaction reverts. *)
LockRefused(x) ==
    /\ order[x].stage = "locking" /\ bet[x] = "none"
    /\ OrderOver(x, "refused")
    /\ UNCHANGED <<catalogVars, bet, position, house, pass, late, faults>>

(* createBet is mined, perhaps after its sender has given up. *)
MineLock(x) ==
    /\ order[x].stage \in {"locking", "abandoned"} /\ bet[x] = "none"
    /\ bet' = [bet EXCEPT ![x] = "locked"]
    /\ UNCHANGED <<catalogVars, order, position, house, pass, late, faults>>

(* Faulty variant of StorePosition: the transaction is not awaited. *)
StorePositionUnawaited(x) ==
    /\ order[x].stage = "locking"
    /\ OrderTo(x, "stored")
    /\ position' = [position EXCEPT ![x] = "open"]
    /\ UNCHANGED <<catalogVars, bet, house, pass, late, faults>>

StorePosition(x) ==
    /\ order[x].stage = "locking" /\ bet[x] # "none"
    /\ OrderTo(x, "stored")
    /\ position' = [position EXCEPT ![x] = "open"]
    /\ UNCHANGED <<catalogVars, bet, house, pass, late, faults>>

(* The receipt does not come, the insert fails, or the server goes down:    *)
(* the stake may be locked, or be locked yet, and there is no position.     *)
AbandonOrder(x) ==
    /\ Fault
    /\ order[x].stage = "locking"
    /\ OrderOver(x, "abandoned")
    /\ UNCHANGED <<catalogVars, bet, position, house, pass, late>>

-----------------------------------------------------------------------------
(* A settlement pass.  One that finds nothing to settle changes nothing and *)
(* is left out.                                                             *)

PassTo(w, p) == pass' = [pass EXCEPT ![w] = p]

(* A server learns the house's wallet from the agent runtime.                *)
HouseFound(w) ==
    /\ house' = house \cup {w}
    /\ UNCHANGED <<catalogVars, order, bet, position, pass, late, faults>>

(* Faulty variant of DecidedMarkets: markets without an outcome are left.   *)
DecidedMarketsWithOutcome(L) == {m \in L : row[m].outcome # "none"}

DecidedMarkets(L) == {m \in L : row[m].status \in Final}

(* What a pass takes from the list of markets it reads. *)
DecisionsListed == {[m \in DecidedMarkets(L) |-> row[m]] : L \in Listings(SettleRows)}

(* Positions of markets that are not decided are passed over. *)
Decided(rows, seen) ==
    {x \in rows : order[x].market \in DOMAIN seen}

(* The pass with "todo" left to settle, over when that is nothing. *)
Settling(rows, seen, todo) ==
    IF todo = {} THEN PassIdle
    ELSE [PassIdle EXCEPT !.stage = "settling", !.rows = rows, !.seen = seen, !.todo = todo]

(* The two lists are asked for at once and may be read in either order.     *)
ReadPositionsFirst(w) ==
    /\ pass[w].stage = "idle" /\ OpenPositions # {}
    /\ PassTo(w, [PassIdle EXCEPT !.stage = "positions", !.rows = OpenPositions])
    /\ UNCHANGED <<catalogVars, order, bet, position, house, late, faults>>

ReadMarketsFirst(w) ==
    /\ pass[w].stage = "idle"
    /\ \E seen \in DecisionsListed :
          /\ DOMAIN seen # {}
          /\ PassTo(w, [PassIdle EXCEPT !.stage = "markets", !.seen = seen])
    /\ UNCHANGED <<catalogVars, order, bet, position, house, late, faults>>

ReadOther(w) ==
    /\ \/ /\ pass[w].stage = "positions"
          /\ \E seen \in DecisionsListed :
                PassTo(w, Settling(pass[w].rows, seen, Decided(pass[w].rows, seen)))
       \/ /\ pass[w].stage = "markets"
          /\ PassTo(w, Settling(OpenPositions, pass[w].seen,
                                Decided(OpenPositions, pass[w].seen)))
    /\ UNCHANGED <<catalogVars, order, bet, position, house, late, faults>>

(* The stakes on a side of a market, of the positions the pass has read.    *)
Pool(rows, m, side) ==
    MapThenSumSet(LAMBDA x : StakeOf[x],
                  {x \in rows : order[x].market = m /\ order[x].side = side})

Opposite(side) == IF side = "yes" THEN "no" ELSE "yes"

(* Faulty variant of Verdict: a market resolved without an outcome counts.  *)
VerdictWithoutOutcome(x, rows, seen) ==
    LET m == order[x].market
        out == seen[m].outcome
        losingPool == Pool(rows, m, Opposite(out))
        winningPool == Pool(rows, m, out)
    IN  IF seen[m].status = "cancelled" THEN "voided"
        ELSE IF order[x].side # out THEN "lost"
        ELSE IF losingPool = 0 THEN "won_refund_only"
        ELSE IF losingPool < winningPool THEN "won_partial_liquidity"
        ELSE "won_profit"

(* What becomes of a position, as the pass sees its market. *)
Verdict(x, rows, seen) ==
    LET m == order[x].market
        out == seen[m].outcome
        losingPool == Pool(rows, m, Opposite(out))
        winningPool == Pool(rows, m, out)
    IN  IF seen[m].status = "cancelled" \/ out = "none" THEN "voided"
        ELSE IF order[x].side # out THEN "lost"
        ELSE IF losingPool = 0 THEN "won_refund_only"
        ELSE IF losingPool < winningPool THEN "won_partial_liquidity"
        ELSE "won_profit"

(* Who gets the stakes: resolveBet to the player or the house, or refundBet. *)
GoesTo(verdict) ==
    IF verdict \in {"voided", "won_refund_only"} THEN "both"
    ELSE IF verdict = "lost" THEN "house" ELSE "player"

(* The house gets nothing from a server that does not know its wallet.      *)
Payable(w, x) ==
    GoesTo(Verdict(x, pass[w].rows, pass[w].seen)) = "house" => w \in house

(* The transaction for some position still to be settled is mined.          *)
MineSettlement(w, x) ==
    /\ pass[w].stage = "settling" /\ x \in pass[w].todo /\ bet[x] = "locked"
    /\ Payable(w, x)
    /\ LET verdict == Verdict(x, pass[w].rows, pass[w].seen)
       IN  /\ bet' = [bet EXCEPT ![x] = GoesTo(verdict)]
           /\ pass' = [pass EXCEPT ![w].stage = "paid", ![w].cur = x, ![w].verdict = verdict]
    /\ UNCHANGED <<catalogVars, order, position, house, late, faults>>

Continue(w, x) ==
    PassTo(w, Settling(pass[w].rows, pass[w].seen, pass[w].todo \ {x}))

Record(w) ==
    /\ pass[w].stage = "paid"
    /\ position' = [position EXCEPT ![pass[w].cur] = pass[w].verdict]
    /\ Continue(w, pass[w].cur)
    /\ UNCHANGED <<catalogVars, order, bet, house, late, faults>>

(* Faulty variant of SettlementFailed: a bet that is not locked any more is *)
(* taken for settled by this pass.                                          *)
SettlementFailedRecorded(w, x) ==
    /\ pass[w].stage = "settling" /\ x \in pass[w].todo /\ bet[x] # "locked"
    /\ position' = [position EXCEPT ![x] = Verdict(x, pass[w].rows, pass[w].seen)]
    /\ Continue(w, x)
    /\ UNCHANGED <<catalogVars, order, bet, house, late, faults>>

(* The bet is settled already and the call reverts, or the house's wallet    *)
(* is not known and there is no call: the position stays open in the table, *)
(* whoever has settled it.                                                  *)
SettlementFailed(w, x) ==
    /\ pass[w].stage = "settling" /\ x \in pass[w].todo
    /\ bet[x] # "locked" \/ ~Payable(w, x)
    /\ Continue(w, x)
    /\ UNCHANGED <<catalogVars, order, bet, position, house, late, faults>>

GivenUp(w, x) ==
    late' = late \cup {[position |-> x, to |-> GoesTo(Verdict(x, pass[w].rows, pass[w].seen))]}

(* The pass ends, perhaps with its server, which forgets the house's wallet. *)
Ends(w) == PassTo(w, PassIdle) /\ house' \in {house, house \ {w}}

(* There is no connection, the receipt does not come (the transaction may be *)
(* mined later) or the update fails: the pass goes on; or it ends.          *)
SettlementFault(w) ==
    /\ Fault
    /\ \/ pass[w].stage = "paid" /\ Continue(w, pass[w].cur) /\ UNCHANGED <<house, late>>
       \/ /\ pass[w].stage = "settling"
          /\ \E x \in pass[w].todo :
                /\ (Continue(w, x) /\ UNCHANGED house) \/ Ends(w)
                /\ UNCHANGED late \/ GivenUp(w, x)
       \/ pass[w].stage # "idle" /\ Ends(w) /\ UNCHANGED late
    /\ UNCHANGED <<catalogVars, order, bet, position>>

(* A transaction nobody waits for is mined, or reverts.                     *)
MineLate(x) ==
    /\ \E t \in late :
          /\ t.position = x
          /\ late' = late \ {t}
          /\ bet' = [bet EXCEPT ![x] = IF @ = "locked" THEN t.to ELSE @]
    /\ UNCHANGED <<catalogVars, order, position, house, pass, faults>>

-----------------------------------------------------------------------------
PassStep(w) ==
    \/ ReadPositionsFirst(w) \/ ReadMarketsFirst(w) \/ ReadOther(w)
    \/ \E x \in Position : MineSettlement(w, x) \/ SettlementFailed(w, x)
    \/ Record(w)

PositionsNext ==
    \/ CatalogNext /\ UNCHANGED positionVars
    \/ \E x \in Position, p \in Bettor, m \in Market, side \in Side :
          Quote(x, p, m, side)
    \/ \E x \in Position :
          \/ LockBet(x) \/ TooManyOpen(x) \/ LockRefused(x)
          \/ MineLock(x) \/ StorePosition(x) \/ AbandonOrder(x)
          \/ MineLate(x)
    \/ \E w \in Worker : PassStep(w) \/ SettlementFault(w) \/ HouseFound(w)

PositionsSafety == PositionsInit /\ [][PositionsNext]_marketVars

(* The timers of the sync and of the worker run, and the chain mines.       *)
PositionsFairness ==
    /\ \A j \in SyncJob :
          /\ WF_marketVars(SyncFetch(j) /\ UNCHANGED positionVars)
          /\ WF_marketVars(SyncStep(j) /\ UNCHANGED positionVars)
    /\ \A w \in Worker : WF_marketVars(PassStep(w))

PositionsSpec == PositionsSafety /\ PositionsFairness

-----------------------------------------------------------------------------
PositionsTypeOK ==
    /\ order \in [Position -> [stage : {"none", "refused", "abandoned"}] \cup
                              [stage : {"quoted", "locking", "stored"}, player : Bettor,
                               market : Market, side : Side]]
    /\ bet \in [Position -> {"none", "locked", "player", "house", "both"}]
    /\ position \in [Position -> {"none", "open"} \cup Reason]
    /\ \A x \in Position : position[x] # "none" <=> order[x].stage = "stored"
    /\ \A w \in Worker :
          /\ pass[w].stage \in PassStage
          /\ pass[w].todo \subseteq pass[w].rows /\ pass[w].rows \subseteq Position
          /\ pass[w].stage = "paid" => pass[w].cur \in pass[w].todo
    /\ house \subseteq Worker
    /\ late \subseteq [position : Position, to : {"player", "house", "both"}]
    /\ faults \in 0 .. MaxFaults

(* The table tells the truth about the money: a position is stored only     *)
(* over a locked stake, and recorded as settled only when the chain has     *)
(* paid as the record says, whichever worker's transaction came first and   *)
(* whatever the adapter reported.                                           *)
RecordBackedByChain ==
    \A x \in Position :
        /\ position[x] = "open" => bet[x] # "none"
        /\ position[x] \in Reason => bet[x] = GoesTo(position[x])

(* Nobody loses against the oracle: a position is recorded as won or lost   *)
(* only if the oracle decided for or against its side.                      *)
OutcomeOfOracle ==
    \A x \in Position :
        /\ position[x] \in Won => oracle[order[x].market].outcome = order[x].side
        /\ position[x] = "lost" => oracle[order[x].market].outcome = Opposite(order[x].side)

(* A settled position is not settled again: passes of several servers, and  *)
(* of one server again, agree on who settled it.                            *)
SettledOnce ==
    [][\A x \in Position : position[x] \in Reason => position'[x] = position[x]]_marketVars

(* Not every stake is released: the position is open, its market decided in  *)
(* the table and, however the rows are ordered, in the list a pass reads,   *)
(* and some server knows the house's wallet.                                *)
StakeHeld(x) ==
    /\ position[x] = "open" /\ bet[x] = "locked"
    /\ row[order[x].market].status \in Final
    /\ \A L \in Listings(SettleRows) : order[x].market \in L
    /\ house # {}

(* The stakes of a position leave the escrow once its market is decided in   *)
(* the table, also after failed calls, failed writes and crashes, unless a  *)
(* slow sync takes the decision back, older rows crowd the market out of    *)
(* the list, or no server ever learns the house's wallet.                   *)
StakesLeaveEscrow == \A x \in Position : []<>~StakeHeld(x)

(* "Resolved markets settle automatically and winnings land in your wallet"  *)
(* (world-npc-hosts.js:73): once the oracle has an outcome for the market   *)
(* of a position, the position is settled.                                  *)
ResolvedMarketsSettle ==
    \A x \in Position :
        position[x] = "open" /\ order[x].market \in OracleMarket
          /\ oracle[order[x].market].outcome # "none"
            ~> position[x] # "open"
=============================================================================
