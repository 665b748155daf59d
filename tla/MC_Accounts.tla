----------------------------- MODULE MC_Accounts -----------------------------
(* An instance for TLC of what holds money and names: the escrow contract,   *)
(* the preflight of its stakes, the ledger that stands in for the chain, the *)
(* profiles and sessions of the players, the assistant that moves money for an *)
(* operator, and the bots the runtime keeps for the players.  Each behaviour  *)
(* exercises one of the six, the others stand still.                         *)
EXTENDS BettingEscrow, EscrowPreflight, RuntimeLedger, PlayerAccess, OperationsChief,
        BotFleet, TLC

CONSTANTS alice, bob, treasury, escrow, h1, h2, u1, u2, n1, bank

VARIABLE part

MCAccount == {alice, bob, treasury, escrow}
MCAdmin == {treasury}
(* No fee, one the integer division truncates, and the largest. *)
MCBps == {0, 3333, MaxBps, MaxBps + 1}

(* Two stakes over the same two wallets, of different amounts.               *)
MCOffer ==
    {[by |-> h1, against |-> h2, amount |-> 1], [by |-> h2, against |-> h1, amount |-> 2]}

MCBotOrder == <<u1, n1>>
MCWalletOrder == <<bank, u1, n1, u2>>

MCSymmetry == Permutations(Request) \cup Permutations(Caller)

accountsVars == <<part, escrowVars, prepVars, ledgerVars, accessVars, chiefVars, fleetVars>>

InEscrow(A) ==
    part = "escrow" /\ A /\ UNCHANGED <<part, prepVars, ledgerVars, accessVars, chiefVars, fleetVars>>
InPreflight(A) ==
    part = "preflight" /\ A /\ UNCHANGED <<part, escrowVars, ledgerVars, accessVars, chiefVars, fleetVars>>
InLedger(A) ==
    part = "ledger" /\ A /\ UNCHANGED <<part, escrowVars, prepVars, accessVars, chiefVars, fleetVars>>
InAccess(A) ==
    part = "access" /\ A /\ UNCHANGED <<part, escrowVars, prepVars, ledgerVars, chiefVars, fleetVars>>
InChief(A) ==
    part = "chief" /\ A /\ UNCHANGED <<part, escrowVars, prepVars, ledgerVars, accessVars, fleetVars>>
InFleet(A) ==
    part = "fleet" /\ A /\ UNCHANGED <<part, escrowVars, prepVars, ledgerVars, accessVars, chiefVars>>

AccountsInit ==
    /\ part \in {"escrow", "preflight", "ledger", "access", "chief", "fleet"}
    /\ EscrowInit /\ PreflightInit /\ LedgerInit /\ AccessInit /\ ChiefInit
    /\ FleetInit

AccountsNext ==
    \/ InEscrow(EscrowNext)
    \/ InPreflight(PreflightNext)
    \/ InLedger(LedgerNext)
    \/ InAccess(AccessNext)
    \/ InChief(ChiefNext)
    \/ InFleet(FleetNext)

AccountsSpec == AccountsInit /\ [][AccountsNext]_accountsVars
=============================================================================
