------------------------------ MODULE DropPlan ------------------------------
(***************************************************************************)
(* Whom a pass of the payout pays, and in which batches                    *)
(* (tools/airdrop/dropper.go): the rows it selects, the payments it makes  *)
(* of them by sync_drop or for the dealer contract, and their order.       *)
(*                                                                         *)
(* A row is a submission with a main wallet of its promoter: the INNER     *)
(* JOIN with user_wallets yields a submission once per main wallet, and    *)
(* not at all if there is none.                                            *)
(***************************************************************************)
EXTENDS Integers, FiniteSets

CONSTANTS
    Subs,        \* ids of the submissions of this airdrop
    Wallets,     \* wallets of submitters, referrers and promoters
    NoWallet,    \* no referrer given
    Wallet,      \* per submission: its wallet column
    Referrer,    \* per submission: its referrer column
    Promoters,   \* users who promote the airdrop
    PromoterId,  \* per submission: its promoter_id column
    ChunkSize    \* recipients per dealer contract call: 10 in the code

SubsAssumption == Subs \subseteq Nat \ {0} /\ IsFiniteSet(Subs)
WalletsAssumption ==
    /\ NoWallet \notin Wallets /\ IsFiniteSet(Wallets)
    /\ Wallet \in [Subs -> Wallets]
    /\ Referrer \in [Subs -> Wallets \union {NoWallet}]
    /\ PromoterId \in [Subs -> Promoters]
ChunkAssumption == ChunkSize \in Nat \ {0}

Row == Subs \X Wallets

(* A payment to one recipient, or a batch of them: the give-outs of rows,  *)
(* and the bonus for a row to a wallet.                                    *)
Payment == [give : SUBSET Row, bonus : SUBSET (Row \X Wallets)]
Nothing == [give |-> {}, bonus |-> {}]

(* The submissions whose ids go with a payment. *)
GivenTo(p) == {r[1] : r \in p.give}

-----------------------------------------------------------------------------

(* A submission's own wallet and its promoter's do not count as referrer.  *)
Referred(r) == Referrer[r[1]] \notin {NoWallet, Wallet[r[1]], r[2]}

(* promoWallet: a pass over the rows R takes the promoter's wallet of the  *)
(* first one for all of them, which is of the highest id.                  *)
PromoWallets(R) == {r[2] : r \in {q \in R : \A o \in R : o[1] <= q[1]}}

Earner(r, promo) == IF Referred(r) THEN Referrer[r[1]] ELSE promo
Earns(r, promo) == Referred(r) \/ promo # Wallet[r[1]]

(* recipientsMap[w], filled by descending id: the give-out of a row        *)
(* overwrites what w earned before it, and a repeated wallet keeps the     *)
(* lowest id.                                                              *)
WalletUnitOnlyFound(R, promo, w) ==
    LET own == {r \in R : Wallet[r[1]] = w}
        last == {r \in own : \A q \in own : r[1] <= q[1]}
    IN [give |-> IF own = {} THEN {} ELSE {CHOOSE r \in last : TRUE},
        bonus |-> {r \in R : /\ Earns(r, promo) /\ Earner(r, promo) = w
                             /\ own # {} /\ \A q \in own : r[1] < q[1]} \X {w}]

WalletUnit(R, promo, w) ==
    LET own == {r \in R : Wallet[r[1]] = w}
        last == {r \in own : \A q \in own : r[1] <= q[1]}
    IN [give |-> IF own = {} THEN {} ELSE {CHOOSE r \in last : TRUE},
        bonus |-> {r \in R : /\ Earns(r, promo) /\ Earner(r, promo) = w
                             /\ \A q \in own : r[1] < q[1]} \X {w}]

ChunkRecipients(R, promo) == {WalletUnit(R, promo, w) : w \in Wallets} \ {Nothing}

(* sync_drop pays every row and every referrer by a transfer, and the      *)
(* promoter by one at the end.                                             *)
GiveOutTransfer(r) == [give |-> {r}, bonus |-> {}]
ReferralTransfer(r) == [give |-> {}, bonus |-> {<<r, Referrer[r[1]]>>}]

SyncTransfers(R, promo) ==
    LET promoted == {r \in R : ~Referred(r) /\ Earns(r, promo)}
    IN {GiveOutTransfer(r) : r \in R}
       \union {ReferralTransfer(r) : r \in {q \in R : Referred(q)}}
       \union ({[give |-> {}, bonus |-> promoted \X {promo}]} \ {Nothing})

(* What a pass over the rows R may plan to pay. *)
Plans(R, sync) ==
    IF R = {} THEN {{}}
    ELSE {IF sync THEN SyncTransfers(R, promo) ELSE ChunkRecipients(R, promo) :
              promo \in PromoWallets(R)}

(* sync_drop goes through the rows by descending id, each followed by its  *)
(* referrer, the promoter last.                                            *)
NextTransfers(U) ==
    LET waiting == UNION {u.give : u \in U}
        due == {ReferralTransfer(r) : r \in {q \in Row \ waiting : Referred(q)}} \intersect U
    IN IF due # {} THEN due
       ELSE IF waiting # {} THEN {u \in U : \E r \in u.give : \A o \in waiting : o[1] <= r[1]}
       ELSE U

(* The dealer contract takes ChunkSize recipients at a time in the random  *)
(* order of a Go map, and the rest in a last call.                         *)
Batches(U, sync) ==
    IF sync THEN {{u} : u \in NextTransfers(U)}
    ELSE {B \in SUBSET U :
            Cardinality(B) = IF Cardinality(U) < ChunkSize THEN Cardinality(U) ELSE ChunkSize}

Total(B) == [give |-> UNION {u.give : u \in B}, bonus |-> UNION {u.bonus : u \in B}]
=============================================================================
