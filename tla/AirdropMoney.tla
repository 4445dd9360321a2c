---------------------------- MODULE AirdropMoney ----------------------------
(***************************************************************************)
(* The tokens of an airdrop: what its wallet holds, what a pass of the     *)
(* payout takes from it (common/interface.airdrop.go and                   *)
(* tools/airdrop/dropper.go), what its publisher changes and withdraws     *)
(* meanwhile (handler/airdrop/update.go and withdraw.go), and what the     *)
(* receipt checker books for it (drop.checker.go).                         *)
(*                                                                         *)
(* Amounts are integers of the token's smallest unit, Pow of which are one *)
(* token.  A request for a withdrawal is a float64, here a multiple of a   *)
(* part of a token.  Crashes, lost answers and blocked submissions are in  *)
(* AirdropDrop, the allowance in AirdropSetup; ether is taken to be there. *)
(***************************************************************************)
EXTENDS DropPlan, Sequences

CONSTANTS
    MainWallets, \* bound: per promoter, the main wallets he may come to have
    GiveOut,     \* values of give_out, in tokens
    Bonus,       \* the bonus in percent
    Pow,         \* units of a token: 10^decimals
    Pow40,       \* 10^4 in the code: what a withdrawal is cut to
    Part,        \* requests are multiples of 1/Part of a token
    Funding,     \* bound: what the wallet may be filled up to
    MaxTx,       \* bound: transactions
    MaxEvents    \* bound: updates, top-ups, withdrawals and new main wallets

AmountAssumption ==
    /\ GiveOut \subseteq Nat \ {0} /\ Bonus \in Nat
    /\ {Pow, Pow40, Part} \subseteq Nat \ {0}
    /\ Pow % Pow40 = 0
BoundAssumption ==
    /\ MainWallets \in [Promoters -> SUBSET Wallets]
    /\ Funding \subseteq Nat /\ {MaxTx, MaxEvents} \subseteq Nat

VARIABLES
    fine,     \* the token has at least four decimals
    sync,     \* airdrops.sync_drop
    mainOf,   \* main wallets of each promoter
    giveOut,  \* airdrops.give_out
    funded,   \* airdrops.balance_status is 0, as somebody last saw it
    sub,      \* status of each submission
    filed,    \* its tx, 0 for none
    wallet,   \* node: units in the airdrop's wallet
    txs,      \* node: the wallet's transactions by nonce
    pass,     \* the dropper in a pass
    booked,   \* what the checker told the tracker of each transaction
    events    \* history: what the publisher and the promoters did

table == <<giveOut, funded, sub, filed>>
vars == <<fine, sync, mainOf, table, wallet, txs, pass, booked, events>>

(* Of a payment: price is give_out as read, enough what                    *)
(* EnoughBudgetForSubmissions says of the submissions the pass counted,    *)
(* grown that it then selected more rows, robbed that tokens left the      *)
(* wallet for something else since its balance was read.                   *)
PayTx == [kind : {"pay"}, paid : Payment, price : GiveOut, amount : Nat,
          enough : BOOLEAN, grown : BOOLEAN, robbed : BOOLEAN, pass : Nat,
          repriced : BOOLEAN, state : {"pending", "good", "failed"}]
TypeOK ==
    /\ fine \in BOOLEAN /\ sync \in BOOLEAN
    /\ mainOf \in [Promoters -> SUBSET Wallets]
    /\ giveOut \in GiveOut /\ funded \in BOOLEAN
    /\ sub \in [Subs -> {"none", "new", "sent", "done", "failed"}]
    /\ filed \in [Subs -> 0..Len(txs)]
    /\ wallet \in Nat
    /\ \A t \in DOMAIN txs : txs[t].amount \in Nat /\ (txs[t].kind = "pay" => txs[t] \in PayTx)
    /\ pass.step \in {"idle", "count", "select", "send"} /\ pass.todo \subseteq Payment
    /\ DOMAIN booked \subseteq DOMAIN txs
    /\ events \in Nat

-----------------------------------------------------------------------------
(* Amounts. *)

TokenGiveOut(price) == price * Pow

(* Whole tokens only: the percentage is taken before the decimals.         *)
TokenBonus(price) == ((price * Bonus) \div 100) * Pow

TotalGiveOutUndivided(price, n) == TokenGiveOut(price) * n

TotalGiveOutDecimals(price, n) == (TokenGiveOut(price) * n) \div Pow
TotalTokenBonusDecimals(price, n) == (TokenBonus(price) * n) \div Pow

(* A transaction pays every recipient what its map entry, or the argument  *)
(* of its transfer, has added up to.                                       *)
BonusOf(price, p) == TokenBonus(price) * Cardinality(p.bonus)
AmountOf(price, p) == TokenGiveOut(price) * Cardinality(p.give) + BonusOf(price, p)

TokenNeedGiveOut(price, n) == TokenGiveOut(price) * n

TokenNeed(price, n) == TokenBonus(price) * n + TokenGiveOut(price) * n
Enough(balance, price, n) == balance >= TokenNeed(price, n)

(* uint64(amount * 10^4): the product of two floats may be just below the  *)
(* integer it should be.                                                   *)
Saved(asked) ==
    LET exact == (asked * Pow40) \div Part
    IN {exact} \union (IF exact > 0 /\ (asked * Pow40) % Part = 0 THEN {exact - 1} ELSE {})

Withdrawn(asked) ==
    IF fine THEN {(saved * Pow) \div Pow40 : saved \in Saved(asked)}
    ELSE {(asked \div Part) * Pow}

-----------------------------------------------------------------------------

Resting == [step |-> "idle", price |-> 0, balance |-> 0, counted |-> 0, todo |-> {},
            enough |-> FALSE, grown |-> FALSE, robbed |-> FALSE, repriced |-> FALSE,
            number |-> 0]
Count(status) == Cardinality({s \in Subs : sub[s] \in status})
Filed(t) == {s \in Subs : filed[s] = t}

Init ==
    /\ fine \in BOOLEAN /\ sync \in BOOLEAN
    /\ mainOf \in [Promoters -> SUBSET Wallets] /\ \A p \in Promoters : mainOf[p] \subseteq MainWallets[p]
    /\ giveOut \in GiveOut /\ funded = FALSE
    /\ sub = [s \in Subs |-> "none"] /\ filed = [s \in Subs |-> 0]
    /\ wallet \in Funding
    /\ txs = <<>> /\ pass = Resting /\ booked = << >> /\ events = 0

Event == events < MaxEvents /\ events' = events + 1

(* The bot files a submission, at any time of a pass. *)
Submit(s) ==
    /\ sub[s] = "none"
    /\ sub' = [sub EXCEPT ![s] = "new"]
    /\ UNCHANGED <<fine, sync, mainOf, giveOut, funded, filed, wallet, txs, pass, booked, events>>

(* A promoter gets a main wallet, his first or another one. *)
InsertMainWallet(p) ==
    /\ Event
    /\ \E w \in MainWallets[p] \ mainOf[p] : mainOf' = [mainOf EXCEPT ![p] = @ \union {w}]
    /\ UNCHANGED <<fine, sync, table, wallet, txs, pass, booked>>

(* UpdateHandler; a give_out of 0 stands for none.  The price a pass has   *)
(* read, or has paid and not yet booked, is not the row's any more.        *)
UpdateHandler(g) ==
    /\ g # giveOut /\ Event
    /\ giveOut' = g
    /\ pass' = IF pass.step = "idle" THEN pass ELSE [pass EXCEPT !.repriced = TRUE]
    /\ txs' = [t \in DOMAIN txs |-> IF txs[t].kind = "pay" /\ t \notin DOMAIN booked
                                    THEN [txs[t] EXCEPT !.repriced = TRUE] ELSE txs[t]]
    /\ UNCHANGED <<fine, sync, mainOf, funded, sub, filed, wallet, booked>>

TopUp ==
    /\ Event
    /\ \E full \in Funding : full > wallet /\ wallet' = full
    /\ UNCHANGED <<fine, sync, mainOf, table, txs, pass, booked>>

(* WithdrawHandler: the transaction has the node's pending nonce; without  *)
(* tokens to send it is an ether transfer of nothing.                      *)
WithdrawHandler(asked) ==
    /\ Len(txs) < MaxTx /\ Event
    /\ \E amount \in Withdrawn(asked) :
          txs' = Append(txs, [kind |-> "withdraw", asked |-> asked, amount |-> amount,
                              state |-> "pending"])
    /\ UNCHANGED <<fine, sync, mainOf, table, wallet, pass, booked>>

(* CheckBalance of a view or of another loop, and the UPDATE after it. *)
CheckBalance ==
    /\ funded # (wallet > 0)
    /\ funded' = (wallet > 0)
    /\ UNCHANGED <<fine, sync, mainOf, giveOut, sub, filed, wallet, txs, pass, booked, events>>

-----------------------------------------------------------------------------
(* The payout. *)

(* Drop reads the row by its balance_status and asks for the balance, with *)
(* whose answer nothing is done.                                           *)
Drop ==
    /\ pass.step = "idle" /\ funded /\ Count({"new", "done"}) > 0
    /\ pass' = [Resting EXCEPT !.step = "count", !.price = giveOut, !.balance = wallet,
                               !.number = Len(txs) + 1]
    /\ UNCHANGED <<fine, sync, mainOf, table, wallet, txs, booked, events>>

(* DropAirdrop counts the submissions.  The budget is not looked at, for   *)
(* the check is commented out: enough only remembers what it would say.    *)
CountOwed ==
    /\ pass.step = "count"
    /\ LET n == Count({"new", "failed"})
       IN pass' = IF n = 0 THEN Resting
                  ELSE [pass EXCEPT !.step = "select", !.counted = n,
                                    !.enough = Enough(pass.balance, pass.price, n)]
    /\ UNCHANGED <<fine, sync, mainOf, table, wallet, txs, booked, events>>

(* Then it selects the rows, which may be more by now, or by main wallets, *)
(* and plans their payments.                                               *)
Selected == {r \in Row : sub[r[1]] \in {"new", "failed"} /\ r[2] \in mainOf[PromoterId[r[1]]]}

SelectOwed ==
    /\ pass.step = "select"
    /\ \E plan \in Plans(Selected, sync) :
          pass' = IF plan = {} THEN Resting
                  ELSE [pass EXCEPT !.step = "send", !.todo = plan,
                                    !.grown = Cardinality(Selected) > pass.counted]
    /\ UNCHANGED <<fine, sync, mainOf, table, wallet, txs, booked, events>>

(* DropChunk and transfer send, and record the submissions that get their  *)
(* give-out.                                                               *)
Pay ==
    /\ pass.step = "send" /\ Len(txs) < MaxTx
    /\ \E batch \in Batches(pass.todo, sync) :
          LET p == Total(batch)
          IN /\ txs' = Append(txs, [kind |-> "pay", paid |-> p, price |-> pass.price,
                                    amount |-> AmountOf(pass.price, p),
                                    enough |-> pass.enough, grown |-> pass.grown,
                                    robbed |-> pass.robbed, pass |-> pass.number,
                                    repriced |-> pass.repriced, state |-> "pending"])
             /\ sub' = [s \in Subs |-> IF s \in GivenTo(p) THEN "sent" ELSE sub[s]]
             /\ filed' = [s \in Subs |-> IF s \in GivenTo(p) THEN Len(txs) + 1 ELSE filed[s]]
             /\ pass' = IF batch = pass.todo THEN Resting ELSE [pass EXCEPT !.todo = @ \ batch]
    /\ UNCHANGED <<fine, sync, mainOf, giveOut, funded, wallet, booked, events>>

(* The node executes the wallet's transactions in order; what moves tokens *)
(* takes them from the passes that have read the balance before.           *)
Robbed(t, u) == txs[u].kind = "pay" /\ (txs[t].kind = "withdraw" \/ txs[t].pass # txs[u].pass)

Mine(t) ==
    /\ txs[t].state = "pending" /\ \A u \in 1..(t - 1) : txs[u].state # "pending"
    /\ LET good == wallet >= txs[t].amount
       IN /\ wallet' = IF good THEN wallet - txs[t].amount ELSE wallet
          /\ txs' = [u \in DOMAIN txs |->
                IF u = t THEN [txs[u] EXCEPT !.state = IF good THEN "good" ELSE "failed"]
                ELSE IF Robbed(t, u) THEN [txs[u] EXCEPT !.robbed = TRUE] ELSE txs[u]]
    /\ pass' = IF pass.step # "idle" /\ (txs[t].kind = "withdraw" \/ txs[t].pass # pass.number)
               THEN [pass EXCEPT !.robbed = TRUE] ELSE pass
    /\ UNCHANGED <<fine, sync, mainOf, table, booked, events>>

(* CheckSubmission: statuses, and for a good receipt the statistics, by    *)
(* the row as it is now.                                                   *)
CheckSubmission(t) ==
    /\ txs[t].state # "pending" /\ \E s \in Filed(t) : sub[s] = "sent"
    /\ LET n == Cardinality(Filed(t))
           good == txs[t].state = "good"
       IN /\ sub' = [s \in Subs |-> IF s \notin Filed(t) THEN sub[s]
                                    ELSE IF good THEN "done" ELSE "failed"]
          /\ booked' = IF ~good THEN booked
                ELSE [u \in DOMAIN booked \union {t} |->
                        IF u # t THEN booked[u]
                        ELSE [giveOut |-> TotalGiveOutDecimals(giveOut, n),
                              bonus |-> TotalTokenBonusDecimals(giveOut, n)]]
    /\ UNCHANGED <<fine, sync, mainOf, giveOut, funded, filed, wallet, txs, pass, events>>

-----------------------------------------------------------------------------

Next ==
    \/ \E s \in Subs : Submit(s)
    \/ \E p \in Promoters : InsertMainWallet(p)
    \/ \E g \in GiveOut : UpdateHandler(g)
    \/ \E asked \in 0..(Part + Part \div 2) : WithdrawHandler(asked)
    \/ TopUp \/ CheckBalance
    \/ Drop \/ CountOwed \/ SelectOwed \/ Pay
    \/ \E t \in DOMAIN txs : Mine(t) \/ CheckSubmission(t)

Spec == Init /\ [][Next]_vars

-----------------------------------------------------------------------------

(* Unless give_out changed between the read that priced a transaction and  *)
(* its receipt, the statistics have the give-outs it paid, and bonuses     *)
(* that are wrong by one for each submission it is recorded for whose      *)
(* bonus, if any, it did not pay, and each bonus of another one it paid:   *)
(* the checker books one bonus for each submission.                        *)
BookedHasCause ==
    \A t \in DOMAIN booked :
        LET p == txs[t].paid
            paidBonus == BonusOf(txs[t].price, p)
            apart == Cardinality(GivenTo(p)) - Cardinality(p.bonus)
        IN \/ txs[t].repriced
           \/ /\ booked[t].giveOut * Pow = txs[t].amount - paidBonus
              /\ booked[t].bonus * Pow = paidBonus + TokenBonus(txs[t].price) * apart

(* A payment that finds too few tokens was sent by a pass that the budget  *)
(* check would have refused, that selected more rows than it had counted,  *)
(* or after whose reading of the balance tokens left the wallet: that      *)
(* check covers all that as many rows can need.                            *)
RevertHasCause ==
    \A t \in DOMAIN txs :
        txs[t].kind = "pay" /\ txs[t].state = "failed" =>
            ~txs[t].enough \/ txs[t].grown \/ txs[t].robbed
=============================================================================
