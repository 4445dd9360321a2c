----------------------------- MODULE MCTracker -----------------------------
(***************************************************************************)
(* What must go on, for TLC: the promotion statistics, the calls that      *)
(* choose the nonce of a wallet, and the payout's way around all airdrops. *)
(* They have no state in common: Init chooses one, which then runs alone   *)
(* while the others rest where nothing of them that fairness speaks of is  *)
(* enabled.                                                                *)
(***************************************************************************)
EXTENDS Tracker

CONSTANTS Counted, Direct, NoOne, MaxNonce,             \* of WalletNonce
          Airdrop, PageSize, MaxSubs, MaxFaults         \* of DropPass

VARIABLES
    running,                                                   \* what runs
    saved, lock, caller, seen, nonce, mined, pend, pool,       \* of WalletNonce
    overlap, replaced, evicted,
    ready, subs, start, page, end, found, step, interval, count   \* of DropPass

nonceVars == <<saved, lock, caller, seen, nonce, mined, pend, pool, overlap, replaced, evicted>>
passVars == <<ready, subs, start, page, end, found, step, interval, count>>
allVars == <<running, vars, nonceVars, passVars>>

Nonces == INSTANCE WalletNonce WITH pc <- caller
Pass == INSTANCE DropPass WITH MaxEvents <- 1

ASSUME PassAssumption == Pass!AirdropAssumption /\ Pass!BoundAssumption

(* After the end of the process. *)
TrackerRests ==
    /\ run = "down" /\ mp = Zero /\ held = [f \in Flushers |-> Zero]
    /\ pc = [f \in Flushers |-> IF f = "main" THEN "returned" ELSE "exited"]
    /\ recorded = Zero /\ stored = Zero /\ lost = Zero /\ doubled = Zero /\ starts = MaxStarts
    /\ failed = FALSE /\ late = FALSE /\ raced = FALSE /\ killed = FALSE

NoncesRest == Nonces!Init /\ mined = 0
PassRests ==
    /\ ready = {} /\ subs = [a \in Airdrop |-> [s \in Pass!Status |-> 0]]
    /\ start = 0 /\ page = {} /\ end = 0 /\ found = FALSE /\ step = "rests" /\ interval = 5
    /\ count = [k \in {"fault", "event"} |-> 0]

PartsInit ==
    \/ running = "tracker" /\ Init /\ NoncesRest /\ PassRests
    \/ running = "nonce" /\ TrackerRests /\ Nonces!Init /\ PassRests
    \/ running = "pass" /\ TrackerRests /\ NoncesRest /\ Pass!Init

TrackerNext == running = "tracker" /\ Next /\ UNCHANGED <<running, nonceVars, passVars>>
NonceNext == running = "nonce" /\ Nonces!Next /\ UNCHANGED <<running, vars, passVars>>
PassNext == running = "pass" /\ Pass!Next /\ UNCHANGED <<running, vars, nonceVars>>

PartsSpec ==
    /\ PartsInit /\ [][TrackerNext \/ NonceNext \/ PassNext]_allVars
    /\ Fairness /\ Nonces!Fairness /\ Pass!Fairness

(* WalletNonce: every Nonce, send and NonceIncr call ends.                 *)
EveryCallEnds == Nonces!EveryCallEnds

(* DropPass: an airdrop that stays eligible and is not crowded out is paid; *)
(* the variables have their types.                                         *)
Reached == [](running = "pass" => Pass!TypeOK) /\ Pass!Reached
=============================================================================
