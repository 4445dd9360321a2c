------------------------------ MODULE MCWallets ------------------------------
(***************************************************************************)
(* The money the service sends, for TLC: the nonces of one of its wallets, *)
(* and the cash its users may spend.  The two have no state in common:     *)
(* Init chooses one, which then runs alone while the other rests.  Cash    *)
(* comes in three sizes, which Init chooses too: two requests of one user  *)
(* at a time, two users and a Telegram identity, and amounts of two.       *)
(***************************************************************************)
EXTENDS WalletNonce, FiniteSets, TLC

CONSTANTS User, Telegram, Packet, Deposit, Checkout, Request, MaxAmount, None

VARIABLES part, packet, deposit, checkout, req, overlapped, unseen, late

cashVars == <<packet, deposit, checkout, req, overlapped, unseen, late>>
allVars == <<part, vars, cashVars>>

Cash == INSTANCE CashLedger

ASSUME CashAssumption == Cash!AmountAssumption /\ Cash!TableAssumption

Rests == "rests"
NonceRests ==
    /\ saved = 0 /\ lock = NoOne /\ pc = Rests /\ seen = Rests /\ nonce = Rests
    /\ mined = 0 /\ pend = 0 /\ pool = {} /\ overlap = {} /\ replaced = FALSE /\ evicted = FALSE
CashRests ==
    /\ packet = Rests /\ deposit = Rests /\ checkout = Rests /\ req = Rests
    /\ overlapped = Rests /\ unseen = Rests /\ late = Rests

CashParts == {"cash of one", "cash of two", "cash in units"}

PartsInit ==
    \/ part = "nonce" /\ Init /\ CashRests
    \/ part \in CashParts /\ Cash!Init /\ NonceRests

-----------------------------------------------------------------------------
(* The sizes of the cash. *)

Busy == {r \in Request : req[r].step # "idle"}
People ==
    {packet[p].owner : p \in Packet} \union UNION {UNION {{s[1], s[2]} : s \in packet[p].slots} : p \in Packet}
    \union {deposit[d].user : d \in Deposit} \union {req[r].user : r \in Request}
    \union overlapped \union unseen \union late
Values ==
    {packet[p].total : p \in Packet} \union {deposit[d].amount : d \in Deposit}
    \union {req[r].amount : r \in Request}

Sized ==
    /\ part = "cash of one" => Cardinality(People \ {None}) <= 1
    /\ part # "cash of one" => Cardinality(Busy) <= 1
    /\ part # "cash in units" => Values \subseteq {0, 1}
    /\ part = "cash in units" =>
          /\ Cardinality(People \intersect User) <= 1
          /\ {deposit[d].amount : d \in Deposit} \subseteq {0, MaxAmount}

NonceNext == part = "nonce" /\ Next /\ UNCHANGED <<part, cashVars>>
CashNext == part \in CashParts /\ Cash!Next /\ UNCHANGED <<part, vars>> /\ Sized'

PartsSpec == PartsInit /\ [][NonceNext \/ CashNext]_allVars

(* Senders serve as requests too, to permute few names.                    *)
Symm == {f @@ g : f \in Permutations(Counted), g \in Permutations(User)}

-----------------------------------------------------------------------------
(* CashLedger: a user's cash is negative only for one of three reasons.    *)
OverdraftHasCause == part \in CashParts => Cash!OverdraftHasCause

(* CashLedger: every token is counted once, and what is owed is covered;   *)
(* the variables have the types stated there.                              *)
Solvent == part \in CashParts => Cash!TypeOK /\ Cash!Solvent
=============================================================================
