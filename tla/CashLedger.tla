----------------------------- MODULE CashLedger -----------------------------
(***************************************************************************)
(* The cash of a user in one token (handler/redpacket/add.go, checkout.go, *)
(* deposit.go and the checkers of tools/redpacket).                        *)
(*                                                                         *)
(* No table holds a balance.  A handler that spends cash computes it from  *)
(* five SELECTs - slots claimed, deposits, own packets, checkouts, claims  *)
(* of own expired packets - compares, and much later inserts the row that  *)
(* makes the next computation smaller.  Nothing is locked in between.      *)
(*                                                                         *)
(* Amounts are whole units, every slot of a packet is worth one, so that   *)
(* total_tokens is the number of recipients.  The chain is external: a     *)
(* transaction is pending until it is mined as good or failed.  Claims and *)
(* links take one step here; RedPacketClaim has their statements.          *)
(***************************************************************************)
EXTENDS Integers, FiniteSets, Functions

CONSTANTS User, Telegram,
          Packet,         \* rows of red_packets
          Deposit,        \* rows of deposits
          Checkout,       \* rows of checkouts
          Request,        \* requests that may be in flight at the same time
          MaxAmount,      \* bound on a packet, a deposit or a checkout
          None

AmountAssumption == MaxAmount \in Nat \ {0}
TableAssumption ==
    /\ None \notin User
    /\ IsFiniteSet(User) /\ IsFiniteSet(Packet) /\ IsFiniteSet(Deposit) /\ IsFiniteSet(Checkout)

VARIABLES
    packet,     \* per packet: its row, slots and funding transaction
    deposit,    \* per deposit: sender, amount, row and transaction
    checkout,   \* per checkout: payee, amount, row and transaction
    req,        \* per request: the computation in progress
    overlapped, \* history: users that had two requests spending at a time
    unseen,     \* history: users that spent cash on a packet after a checkout
    late        \* history: users with a packet claimed after it expired

history == <<overlapped, unseen, late>>
vars == <<packet, deposit, checkout, req, history>>

Amounts == 1..MaxAmount
Chain == {"none", "pending", "good", "failed"}
Row == {"none", "sent", "good", "failed"}   \* status 0, 1, 2 of a row

(* fund_tx_status: "cash" = 0, "sent" = 1, "good" = 2, "failed" = 3.       *)
Packets == [owner : User \union {None}, total : 0..MaxAmount,
            fund : {"cash", "sent", "good", "failed"}, chain : Chain,
            filled : BOOLEAN, expired : BOOLEAN,
            slots : SUBSET ((User \union Telegram) \X (User \union {None}))]

Steps == {"idle", "income", "deposits", "packets", "checkouts", "expired", "spend", "record"}

TypeOK ==
    /\ packet \in [Packet -> Packets]
    /\ deposit \in [Deposit -> [user : User \union {None}, amount : 0..MaxAmount,
                                row : Row, chain : Chain]]
    /\ checkout \in [Checkout -> [user : User \union {None}, amount : 0..MaxAmount,
                                  row : Row, chain : Chain]]
    /\ req \in [Request -> [step : Steps, spends : {"none", "add", "checkout"},
                            user : User \union {None}, amount : 0..MaxAmount,
                            sum : Int, checkout : Checkout \union {None}]]
    /\ overlapped \subseteq User /\ unseen \subseteq User /\ late \subseteq User

-----------------------------------------------------------------------------
(* The balance. *)

Total == [p \in Packet |-> packet[p].total]
Claimed == [p \in Packet |-> Cardinality(packet[p].slots)]
ClaimedBy(u) == [p \in Packet |-> Cardinality({s \in packet[p].slots : s[2] = u})]
Deposits == [d \in Deposit |-> deposit[d].amount]
Checkouts == [c \in Checkout |-> checkout[c].amount]

PacketsOf(u) == {p \in Packet : packet[p].owner = u}
ExpiredOf(u) == {p \in PacketsOf(u) : packet[p].expired}

(* SUM(give_out) of the slots with user_id=u, status=2.                    *)
Income(u) == SumFunctionOnSet(ClaimedBy(u), Packet)

(* SUM(tokens) of the deposits with status=1.                              *)
Deposited(u) ==
    SumFunctionOnSet(Deposits, {d \in Deposit : deposit[d].user = u /\ deposit[d].row = "good"})

(* SUM(total_tokens) of the packets expired, however they were funded.     *)
ExpiredTotals(u) == SumFunctionOnSet(Total, ExpiredOf(u))

(* SUM(total_tokens) of the packets with fund_tx_status=0.                 *)
CashFunded(u) == SumFunctionOnSet(Total, {p \in PacketsOf(u) : packet[p].fund = "cash"})

CheckedOutSettled(u) ==
    SumFunctionOnSet(Checkouts,
                     {c \in Checkout : checkout[c].user = u /\ checkout[c].row = "good"})

(* SUM(tokens) of the checkouts with status 0 or 1.                        *)
CheckedOut(u) ==
    SumFunctionOnSet(Checkouts,
                     {c \in Checkout : checkout[c].user = u /\ checkout[c].row \in {"sent", "good"}})

(* SUM(give_out) of the slots with status != 0 of expired packets.         *)
ExpiredClaims(u) == SumFunctionOnSet(Claimed, ExpiredOf(u))

(* What the five SELECTs add up to when nothing happens between them,      *)
(* without the clamp to 0 at the end.                                      *)
Cash(u) == Income(u) + Deposited(u) + ExpiredTotals(u) - CashFunded(u)
           - CheckedOut(u) - ExpiredClaims(u)

-----------------------------------------------------------------------------
(* Spending: getTokenCashBalance and its copy in AddHandler. *)

Free == [step |-> "idle", spends |-> "none", user |-> None, amount |-> 0,
         sum |-> 0, checkout |-> None]

Spending(u) == {r \in Request : req[r].user = u}

Start(r, u, spends, n) ==
    /\ req[r] = Free
    /\ req' = [req EXCEPT ![r] = [Free EXCEPT !.step = "income", !.spends = spends,
                                              !.user = u, !.amount = n]]
    /\ overlapped' = overlapped \union {v \in {u} : Spending(u) # {}}
    /\ UNCHANGED <<packet, deposit, checkout, unseen, late>>

(* One SELECT: read goes to next with the sum so far.                      *)
Select(r, read, next, value) ==
    /\ req[r].step = read
    /\ req' = [req EXCEPT ![r].step = next, ![r].sum = @ + value]
    /\ UNCHANGED <<packet, deposit, checkout, history>>

SelectIncome(r) == Select(r, "income", "deposits", Income(req[r].user))
SelectDeposits(r) == Select(r, "deposits", "packets", Deposited(req[r].user))

SelectPackets(r) ==
    Select(r, "packets", IF req[r].spends = "checkout" THEN "checkouts" ELSE "expired",
           ExpiredTotals(req[r].user) - CashFunded(req[r].user))

SelectCheckouts(r) == Select(r, "checkouts", "expired", -CheckedOut(req[r].user))
SelectExpired(r) == Select(r, "expired", "spend", -ExpiredClaims(req[r].user))

(* The clamped balance is 0 or less than what is asked for.                *)
Short(r) == req[r].sum < req[r].amount

End(r) == req' = [req EXCEPT ![r] = Free]

Refuse(r) ==
    /\ req[r].step = "spend" /\ Short(r)
    /\ End(r)
    /\ UNCHANGED <<packet, deposit, checkout, history>>

NoPacket == [owner |-> None, total |-> 0, fund |-> "cash", chain |-> "none",
             filled |-> FALSE, expired |-> FALSE, slots |-> {}]

(* AddHandler from cash: INSERT INTO red_packets, fund_tx_status 0.        *)
SpendOnPacket(r, p) ==
    /\ req[r].step = "spend" /\ req[r].spends = "add" /\ ~Short(r)
    /\ packet[p] = NoPacket
    /\ packet' = [packet EXCEPT ![p].owner = req[r].user, ![p].total = req[r].amount]
    /\ unseen' = unseen \union {v \in {req[r].user} : CheckedOut(v) > 0}
    /\ End(r)
    /\ UNCHANGED <<deposit, checkout, overlapped, late>>

(* CheckoutHandler: the payout is sent.                                    *)
PayOut(r, c) ==
    /\ req[r].step = "spend" /\ req[r].spends = "checkout" /\ ~Short(r)
    /\ checkout[c].user = None
    /\ checkout' = [checkout EXCEPT ![c] = [user |-> req[r].user, amount |-> req[r].amount,
                                            row |-> "none", chain |-> "pending"]]
    /\ req' = [req EXCEPT ![r].step = "record", ![r].checkout = c]
    /\ UNCHANGED <<packet, deposit, history>>

(* CheckoutHandler: INSERT INTO checkouts with status 0.                   *)
RecordPayOut(r) ==
    /\ req[r].step = "record"
    /\ checkout' = [checkout EXCEPT ![req[r].checkout].row = "sent"]
    /\ End(r)
    /\ UNCHANGED <<packet, deposit, history>>

(* An error returns at any statement, or the process ends.                 *)
Abort(r) ==
    /\ req[r] # Free
    /\ End(r)
    /\ UNCHANGED <<packet, deposit, checkout, history>>

-----------------------------------------------------------------------------
(* Packets, claims and links. *)

(* AddHandler from a wallet: the transfer is sent, then the row inserted;  *)
(* a transfer without row only adds to what the service holds.             *)
AddFromWallet(u, p, n) ==
    /\ packet[p] = NoPacket
    /\ packet' = [packet EXCEPT ![p].owner = u, ![p].total = n,
                                ![p].fund = "sent", ![p].chain = "pending"]
    /\ UNCHANGED <<deposit, checkout, req, history>>

(* prepareRedPacketRecipients, which takes less than the packet's 3 days.  *)
FillSlots(p) ==
    /\ packet[p].owner # None /\ ~packet[p].filled /\ ~packet[p].expired
    /\ packet' = [packet EXCEPT ![p].filled = TRUE]
    /\ UNCHANGED <<deposit, checkout, req, history>>

Expire(p) ==
    /\ packet[p].owner # None /\ ~packet[p].expired
    /\ packet' = [packet EXCEPT ![p].expired = TRUE]
    /\ UNCHANGED <<deposit, checkout, req, history>>

(* GetHandler and ListHandler look for the receipt of the funding.         *)
ViewPacket(p) ==
    /\ packet[p].fund = "sent" /\ packet[p].chain \in {"good", "failed"}
    /\ packet' = [packet EXCEPT ![p].fund = packet[p].chain]
    /\ UNCHANGED <<deposit, checkout, req, history>>

(* SubmitHandler: a slot is free and the claimer has none.  The handler    *)
(* looks neither at expire_time nor at fund_tx_status.                     *)
Claim(h, p) ==
    /\ packet[p].filled /\ Claimed[p] < packet[p].total
    /\ \A s \in packet[p].slots : s[1] # h /\ s[2] # h
    /\ packet' = [packet EXCEPT ![p].slots = @ \union {<<h, IF h \in User THEN h ELSE None>>}]
    /\ late' = late \union {v \in User : v = packet[p].owner /\ packet[p].expired /\ v # h}
    /\ UNCHANGED <<deposit, checkout, req, overlapped, unseen>>

(* TelegramHandler: the anonymous slots of t become u's.                   *)
Link(u, t) ==
    LET anonymous == {p \in Packet : <<t, None>> \in packet[p].slots} IN
    /\ anonymous # {}
    /\ \A p \in anonymous : \A s \in packet[p].slots : s[2] # u
    /\ packet' = [p \in Packet |-> IF p \in anonymous
                   THEN [packet[p] EXCEPT !.slots = (@ \ {<<t, None>>}) \union {<<t, u>>}]
                   ELSE packet[p]]
    /\ UNCHANGED <<deposit, checkout, req, history>>

-----------------------------------------------------------------------------
(* Deposits and the checkers. *)

(* DepositHandler: the transfer is sent and INSERTed with status 0; one     *)
(* without row only adds to what the service holds.                        *)
MakeDeposit(u, d, n) ==
    /\ deposit[d].user = None
    /\ deposit' = [deposit EXCEPT ![d] = [user |-> u, amount |-> n, row |-> "sent", chain |-> "pending"]]
    /\ UNCHANGED <<packet, checkout, req, history>>

(* DepositChecker.CheckStatus: a receipt exists.                           *)
CheckDeposit(d) ==
    /\ deposit[d].row = "sent" /\ deposit[d].chain \in {"good", "failed"}
    /\ deposit' = [deposit EXCEPT ![d].row = deposit[d].chain]
    /\ UNCHANGED <<packet, checkout, req, history>>

CheckCheckoutPending(c) ==
    /\ checkout[c].row = "sent"
    /\ checkout' = [checkout EXCEPT ![c].row = IF checkout[c].chain = "good" THEN "good" ELSE "failed"]
    /\ UNCHANGED <<packet, deposit, req, history>>

(* CheckoutChecker.CheckStatus.                                            *)
CheckCheckout(c) ==
    /\ checkout[c].row = "sent" /\ checkout[c].chain \in {"good", "failed"}
    /\ checkout' = [checkout EXCEPT ![c].row = checkout[c].chain]
    /\ UNCHANGED <<packet, deposit, req, history>>

(* The chain mines a pending transaction.                                  *)
MineFunding(p, how) ==
    /\ packet[p].chain = "pending"
    /\ packet' = [packet EXCEPT ![p].chain = how]
    /\ UNCHANGED <<deposit, checkout, req, history>>

MineDeposit(d, how) ==
    /\ deposit[d].chain = "pending"
    /\ deposit' = [deposit EXCEPT ![d].chain = how]
    /\ UNCHANGED <<packet, checkout, req, history>>

MineCheckout(c, how) ==
    /\ checkout[c].chain = "pending"
    /\ checkout' = [checkout EXCEPT ![c].chain = how]
    /\ UNCHANGED <<packet, deposit, req, history>>

-----------------------------------------------------------------------------
Init ==
    /\ packet = [p \in Packet |-> NoPacket]
    /\ deposit = [d \in Deposit |-> [user |-> None, amount |-> 0, row |-> "none", chain |-> "none"]]
    /\ checkout = [c \in Checkout |-> [user |-> None, amount |-> 0, row |-> "none", chain |-> "none"]]
    /\ req = [r \in Request |-> Free]
    /\ overlapped = {} /\ unseen = {} /\ late = {}

Spend(r) ==
    \/ \E u \in User, spends \in {"add", "checkout"}, n \in Amounts : Start(r, u, spends, n)
    \/ SelectIncome(r) \/ SelectDeposits(r) \/ SelectPackets(r)
    \/ SelectCheckouts(r) \/ SelectExpired(r)
    \/ Refuse(r) \/ RecordPayOut(r) \/ Abort(r)
    \/ \E p \in Packet : SpendOnPacket(r, p)
    \/ \E c \in Checkout : PayOut(r, c)

PacketStep(p) ==
    \/ \E u \in User, n \in Amounts : AddFromWallet(u, p, n)
    \/ FillSlots(p) \/ Expire(p) \/ ViewPacket(p)
    \/ \E h \in User \union Telegram : Claim(h, p)

ChainStep(how) ==
    \/ \E p \in Packet : MineFunding(p, how)
    \/ \E d \in Deposit : MineDeposit(d, how)
    \/ \E c \in Checkout : MineCheckout(c, how)

Next ==
    \/ \E r \in Request : Spend(r)
    \/ \E p \in Packet : PacketStep(p)
    \/ \E u \in User, t \in Telegram : Link(u, t)
    \/ \E d \in Deposit : (\E u \in User, n \in Amounts : MakeDeposit(u, d, n)) \/ CheckDeposit(d)
    \/ \E c \in Checkout : CheckCheckout(c)
    \/ \E how \in {"good", "failed"} : ChainStep(how)

Spec == Init /\ [][Next]_vars

-----------------------------------------------------------------------------
(* Properties. *)

AllPackets == {p \in Packet : packet[p].owner # None}
WalletFunded == {p \in AllPackets : packet[p].fund # "cash"}

(* Tokens nobody may spend yet: slots of live packets that are free, and   *)
(* slots of Telegram identities without a user.                            *)
Outstanding ==
    SumFunctionOnSet([p \in Packet |-> Total[p] - Claimed[p]], {p \in AllPackets : ~packet[p].expired})
    + SumFunctionOnSet(ClaimedBy(None), Packet)

(* A user's cash is negative, which the code shows as 0, only if two       *)
(* requests spent it at the same time, if a packet was paid from cash that *)
(* had been checked out (AddHandler never reads checkouts), or if somebody *)
(* claimed from the user's packet after it had expired.  In particular,    *)
(* reading the five sums at different times never overstates the balance.  *)
OverdraftHasCause ==
    \A u \in User : Cash(u) < 0 => u \in overlapped \union unseen \union late

(* What the chain has moved out of and into the service's wallets.         *)
Paid == SumFunctionOnSet(Checkouts, {c \in Checkout : checkout[c].chain = "good"})
Received ==
    SumFunctionOnSet(Deposits, {d \in Deposit : deposit[d].chain = "good"})
    + SumFunctionOnSet(Total, {p \in Packet : packet[p].chain = "good"})

(* Packets whose funding never arrived, and payouts without a row.         *)
Unfunded == SumFunctionOnSet(Total, {p \in WalletFunded : packet[p].chain # "good"})
Unrecorded == SumFunctionOnSet(Checkouts, {c \in Checkout : checkout[c].row = "none"})

(* The five SELECTs count every token exactly once: what all users may     *)
(* spend, an overdraft against them, and what is still in packets is what  *)
(* was put in, less what was checked out.  The service has received that   *)
(* and what it paid out, except for packets that can be claimed and        *)
(* refunded although their funding never arrived, and for payouts that     *)
(* were not recorded.                                                      *)
Solvent ==
    LET held == SumFunction([u \in User |-> Cash(u)]) + Outstanding IN
    /\ held = SumFunction([u \in User |-> Deposited(u)]) + SumFunctionOnSet(Total, WalletFunded)
              - SumFunction([u \in User |-> CheckedOut(u)])
    /\ Paid + held <= Received + Unfunded + Unrecorded
=============================================================================
