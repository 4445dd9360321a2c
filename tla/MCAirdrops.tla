----------------------------- MODULE MCAirdrops -----------------------------
(***************************************************************************)
(* An airdrop, for TLC: its payout, its contract and allowance, and its    *)
(* money.  These have no state in common: Init chooses one, which then     *)
(* runs alone while the variables of the others rest.  The payout is of    *)
(* two submissions, in chunks or by sync_drop; chunks have less room for   *)
(* transactions and refusals.  The run of the liveness properties pays     *)
(* chunks.                                                                 *)
(***************************************************************************)
EXTENDS AirdropDrop, Sequences

CONSTANTS
    alice, bob,        \* the wallets of submissions 1 and 2
    pa, pb,            \* their promoters
    ann, ann2, ben,    \* the main wallets pa and pb may have
    ChunkTx, ChunkRefused,       \* MaxTx and MaxRefused where chunks are paid
    Airdrop, PageSize, MaxTokens, SetupTx, MaxEvicted, MaxChanges,       \* of AirdropSetup
    GiveOut, Bonus, Pow, Pow40, Part, Funding,                  \* of AirdropMoney
    MaxPayments, MaxEvents

VARIABLES
    runs,                                                     \* what runs
    row, tokens, gas, tx, allowed, loop, view, count, toppedUp,       \* of AirdropSetup
    fine, sync, mainOf, giveOut, funded, sub, filed, wallet,          \* of AirdropMoney
    txs, pass, booked, events

setupVars == <<row, tokens, gas, tx, allowed, loop, view, count, toppedUp>>
moneyVars == <<fine, sync, mainOf, giveOut, funded, sub, filed, wallet, txs, pass, booked, events>>
allVars == <<runs, vars, setupVars, moneyVars>>

MCWallets == {alice, bob, ann, ann2, ben}
MCWallet == [s \in Subs |-> IF s = 1 THEN alice ELSE bob]
MCPromoterId == [s \in Subs |-> IF s = 1 THEN pa ELSE pb]
MCOnePromoter == [s \in Subs |-> pa]
MCMainWallets == [p \in Promoters |-> IF p = pa THEN {ann, ann2} ELSE {ben}]

(* Bob came by Alice's link and Alice by her own, or nobody was referred.  *)
MCReferrer == [s \in Subs |-> alice]
MCNoReferrer == [s \in Subs |-> NoWallet]

Setup == INSTANCE AirdropSetup WITH MaxTx <- SetupTx, MaxEvents <- MaxChanges
Money == INSTANCE AirdropMoney WITH MaxTx <- MaxPayments

ASSUME SetupAssumption == Setup!AirdropAssumption /\ Setup!BoundAssumption
ASSUME MoneyAssumption == Money!AmountAssumption /\ Money!BoundAssumption

Rests == "rests"
SetupRests ==
    /\ row = Rests /\ tokens = Rests /\ gas = Rests /\ tx = Rests /\ allowed = Rests
    /\ loop = Rests /\ view = Rests /\ count = Rests /\ toppedUp = Rests
MoneyRests ==
    /\ fine = Rests /\ sync = Rests /\ mainOf = Rests /\ filed = Rests
    /\ giveOut = Rests /\ funded = Rests /\ sub = Rests /\ wallet = Rests
    /\ txs = Rests /\ pass = Rests /\ booked = Rests /\ events = Rests

Regular == \A p \in Promoters : Cardinality(mains[p]) = 1
NoPayout == ~syncDrop /\ \A p \in Promoters : mains[p] = {}

(* What the payout starts with does no harm where it does not run.         *)
PartsInit ==
    /\ Init
    /\ \/ runs = "payout" /\ SetupRests /\ MoneyRests
       \/ runs = "setup" /\ NoPayout /\ Setup!Init /\ MoneyRests
       \/ runs = "money" /\ NoPayout /\ Money!Init /\ SetupRests

(* The runs begin with fewer main wallets: pb has one, pa may get another. *)
DropInit ==
    /\ PartsInit /\ runs # "money"
    /\ runs = "payout" => /\ syncDrop => Regular
                          /\ ann2 \in mains[pa] => ann \in mains[pa]
                          /\ \A p \in Promoters \ {pa} : mains[p] = {ben}
MoneyInit ==
    /\ PartsInit /\ runs = "money"
    /\ mainOf = [p \in Promoters |-> IF p = pa THEN {ann} ELSE {ben}]
    /\ sync => fine

(* Where somebody has no main wallet, or two, only pa's submission is      *)
(* filed.                                                                  *)
PayoutNext ==
    /\ runs = "payout" /\ Next
    /\ Regular' \/ status'[2] = "none"
    /\ ann2 \in mains'[pa] => ann \in mains'[pa]
    /\ ~syncDrop => refused' <= ChunkRefused /\ \A t \in Txs : t > ChunkTx => node'[t] = "none"
    /\ UNCHANGED <<runs, setupVars, moneyVars>>
SetupNext == runs = "setup" /\ Setup!Next /\ UNCHANGED <<runs, vars, moneyVars>>
MoneyNext == runs = "money" /\ Money!Next /\ UNCHANGED <<runs, vars, setupVars>>

PartsSpec == PartsInit /\ [][PayoutNext \/ SetupNext \/ MoneyNext]_allVars

DropSpec == DropInit /\ [][PayoutNext \/ SetupNext]_allVars
MoneySpec == MoneyInit /\ [][MoneyNext]_allVars

LiveInit == DropInit /\ runs = "payout" /\ ~syncDrop
LiveSpec == LiveInit /\ [][PayoutNext]_allVars /\ Fairness

-----------------------------------------------------------------------------
(* Each component's promise, and the types of its variables. *)

(* AirdropDrop: how often a submission earns its bonus, and why it earns   *)
(* none.                                                                   *)
BonusOnceEach == TypeOK /\ BonusBound /\ BonusKept

(* AirdropSetup: the row tells the truth, and a second contract is a fault. *)
ContractIsTrue == runs = "setup" => Setup!TypeOK /\ Setup!ContractIsTrue

(* AirdropSetup: an approved allowance is short only after a top-up.       *)
ShortHasCause == runs = "setup" => Setup!ShortHasCause

(* AirdropMoney: when the statistics differ from what was paid.            *)
BookedHasCause == runs = "money" => Money!TypeOK /\ Money!BookedHasCause

(* AirdropMoney: when a payment finds too few tokens.                      *)
RevertHasCause == runs = "money" => Money!RevertHasCause
=============================================================================
