---------------------------- MODULE AirdropDrop ----------------------------
(***************************************************************************)
(* Paying out one airdrop: the dropper (tools/airdrop/dropper.go), the     *)
(* receipt checker (drop.checker.go), the collector of airdrop_tx rows     *)
(* (gc.go) and the submissions the Telegram bot files.                     *)
(*                                                                         *)
(* The dropper picks submissions, sends each payment and only afterwards   *)
(* records it; the checker turns receipts into statuses.  They share the   *)
(* tables airdrop_submissions and airdrop_tx.  The Ethereum node, database *)
(* errors and the administrator who blocks submissions are the environment.*)
(***************************************************************************)
EXTENDS DropPlan

CONSTANTS
    MainWallets, \* bound: per promoter, the main wallets he may come to have
    MaxTx,       \* bound: transactions sent
    MaxFaults,   \* bound: lost answers, failed writes and crashes
    MaxRefused,  \* bound: sends that failed before the node took them
    MaxReverts   \* bound: reverted transactions

ASSUME PlanAssumption == SubsAssumption /\ WalletsAssumption /\ ChunkAssumption
ASSUME BoundAssumption ==
    /\ MainWallets \in [Promoters -> SUBSET Wallets]
    /\ {MaxTx, MaxFaults, MaxRefused, MaxReverts} \subseteq Nat

Txs == 1..MaxTx
NoTx == 0

VARIABLES
    status,     \* airdrop_submissions.status; "none" before the insert,
                \* "new" 0, "sent" 1, "done" 2, "failed" 3
    subTx,      \* airdrop_submissions.tx
    settled,    \* airdrop_submissions.tx_status # 0
    blocked,    \* airdrop_submissions.blocked
    mains,      \* user_wallets with is_main, by user_id
    syncDrop,   \* airdrops.sync_drop # 0: one transfer per recipient
    txRow,      \* airdrop_tx.status: "none", "open" 0, "ok" 1, "failed" 2
    node,       \* node: state of each transaction
    pay,        \* node: what each transaction pays
    dpc,        \* dropper: next step
    units,      \* dropper: recipients of this pass not yet sent
    part,       \* dropper: payment just sent
    dtx,        \* dropper: its transaction
    cpc,        \* checker: next step
    ctx,        \* checker: transaction whose receipt it read
    counted,    \* tracker: how often a transaction entered the statistics
    faults, refused   \* history: errors so far

rows == <<status, subTx, settled>>
dropper == <<dpc, units, part, dtx>>
checker == <<cpc, ctx>>
chain == <<node, pay>>
errors == <<faults, refused>>
vars == <<rows, blocked, mains, syncDrop, txRow, chain, dropper, checker, counted, errors>>

TypeOK ==
    /\ status \in [Subs -> {"none", "new", "sent", "done", "failed"}]
    /\ subTx \in [Subs -> Txs \union {NoTx}]
    /\ settled \in [Subs -> BOOLEAN]
    /\ blocked \in [Subs -> BOOLEAN] /\ syncDrop \in BOOLEAN
    /\ mains \in [Promoters -> SUBSET Wallets] /\ \A p \in Promoters : mains[p] \subseteq MainWallets[p]
    /\ txRow \in [Txs -> {"none", "open", "ok", "failed"}]
    /\ node \in [Txs -> {"none", "pending", "ok", "reverted"}]
    /\ pay \in [Txs -> Payment]
    /\ dpc \in {"idle", "found", "send", "insert", "update"}
    /\ units \subseteq Payment
    /\ part \in Payment
    /\ dtx \in Txs \union {NoTx}
    /\ cpc \in {"idle", "tx", "subs", "count"}
    /\ ctx \in Txs \union {NoTx}
    /\ counted \in [Txs -> Nat]
    /\ faults \in Nat
    /\ refused \in Nat

Init ==
    /\ status = [s \in Subs |-> "none"]
    /\ subTx = [s \in Subs |-> NoTx]
    /\ settled = [s \in Subs |-> FALSE]
    /\ blocked = [s \in Subs |-> FALSE] /\ syncDrop \in BOOLEAN
    /\ mains \in [Promoters -> SUBSET Wallets] /\ \A p \in Promoters : mains[p] \subseteq MainWallets[p]
    /\ txRow = [t \in Txs |-> "none"]
    /\ node = [t \in Txs |-> "none"]
    /\ pay = [t \in Txs |-> Nothing]
    /\ dpc = "idle" /\ units = {} /\ part = Nothing /\ dtx = NoTx
    /\ cpc = "idle" /\ ctx = NoTx
    /\ counted = [t \in Txs |-> 0]
    /\ faults = 0
    /\ refused = 0

-----------------------------------------------------------------------------
(* Environment of the payout. *)

(* The bot files a submission (bot.go VerifyCodeHandler). *)
Submit(s) ==
    /\ status[s] = "none"
    /\ status' = [status EXCEPT ![s] = "new"]
    /\ UNCHANGED <<subTx, settled, blocked, mains, syncDrop, txRow, chain, dropper, checker, counted, errors>>

(* An administrator blocks it; nothing in the program writes the column.   *)
Block(s) ==
    /\ status[s] # "none" /\ ~blocked[s]
    /\ blocked' = [blocked EXCEPT ![s] = TRUE]
    /\ UNCHANGED <<rows, mains, syncDrop, txRow, chain, dropper, checker, counted, errors>>

(* A promoter gets a main wallet, a second one if two of his requests cross *)
(* (see Account).  None is ever taken away.                                *)
InsertMainWallet(p) ==
    /\ \E w \in MainWallets[p] \ mains[p] : mains' = [mains EXCEPT ![p] = @ \union {w}]
    /\ UNCHANGED <<rows, blocked, syncDrop, txRow, chain, dropper, checker, counted, errors>>

(* The node includes a transaction, which takes effect or reverts as a whole. *)
Settle(t) ==
    /\ node[t] = "pending"
    /\ \E r \in {"ok", "reverted"} :
          /\ r = "reverted" => Cardinality({u \in Txs : node[u] = "reverted"}) < MaxReverts
          /\ node' = [node EXCEPT ![t] = r]
    /\ UNCHANGED <<rows, blocked, mains, syncDrop, txRow, pay, dropper, checker, counted, errors>>

Fault == faults < MaxFaults /\ faults' = faults + 1 /\ UNCHANGED refused

-----------------------------------------------------------------------------
(* The dropper. *)

Mains(s) == mains[PromoterId[s]]
Rows(S) == {r \in Row : r[1] \in S /\ r[2] \in Mains(r[1])}
Owed == Rows({s \in Subs : status[s] \in {"new", "failed"} /\ ~blocked[s]})

Continue(rest) == IF rest = {} THEN "idle" ELSE "send"

(* On to the next batch: DropChunk or transfer returns. *)
Return == dpc' = Continue(units) /\ part' = Nothing /\ dtx' = NoTx

DropOnlyDone ==
    /\ dpc = "idle"
    /\ \E s \in Subs : status[s] = "done" /\ ~blocked[s]
    /\ dpc' = "found"
    /\ UNCHANGED <<rows, blocked, mains, syncDrop, txRow, chain, units, part, dtx, checker, counted, errors>>

DropOnlyNew ==
    /\ dpc = "idle"
    /\ \E s \in Subs : status[s] = "new" /\ ~blocked[s]
    /\ dpc' = "found"
    /\ UNCHANGED <<rows, blocked, mains, syncDrop, txRow, chain, units, part, dtx, checker, counted, errors>>

(* Drop: an airdrop qualifies by a submission that is new or already done; *)
(* its funds, dealer contract and allowance are taken to be in order.      *)
Drop ==
    /\ dpc = "idle"
    /\ \E s \in Subs : status[s] \in {"new", "done"} /\ ~blocked[s]
    /\ dpc' = "found"
    /\ UNCHANGED <<rows, blocked, mains, syncDrop, txRow, chain, units, part, dtx, checker, counted, errors>>

DropAirdropTakesAll ==
    /\ dpc = "found"
    /\ \E plan \in Plans(Rows({s \in Subs : status[s] # "none" /\ ~blocked[s]}), syncDrop) :
          units' = plan /\ dpc' = Continue(plan)
    /\ UNCHANGED <<rows, blocked, mains, syncDrop, txRow, chain, part, dtx, checker, counted, errors>>

(* DropAirdrop: select what is new or failed and plan the recipients.  The *)
(* COUNT before the SELECT only ends a pass early that would find nothing  *)
(* if it selected then, as here with Owed empty.                           *)
DropAirdrop ==
    /\ dpc = "found"
    /\ \E plan \in Plans(Owed, syncDrop) : units' = plan /\ dpc' = Continue(plan)
    /\ UNCHANGED <<rows, blocked, mains, syncDrop, txRow, chain, part, dtx, checker, counted, errors>>

(* A transaction with payment p enters the node's pool as t. *)
Send(t, p) ==
    /\ node[t] = "none"
    /\ \A u \in Txs : u < t => node[u] # "none"
    /\ node' = [node EXCEPT ![t] = "pending"]
    /\ pay' = [pay EXCEPT ![t] = p]

(* DropChunk and transfer: nonce, send; then on to recording the hash.     *)
(* A transfer of a bonus alone is not recorded.                            *)
DropSend ==
    /\ dpc = "send"
    /\ \E B \in Batches(units, syncDrop), t \in Txs :
          /\ Send(t, Total(B))
          /\ units' = units \ B
          /\ IF syncDrop /\ Total(B).give = {}
             THEN dpc' = Continue(units \ B) /\ UNCHANGED <<part, dtx>>
             ELSE /\ dpc' = IF syncDrop THEN "update" ELSE "insert"
                  /\ part' = Total(B)
                  /\ dtx' = t
    /\ UNCHANGED <<rows, blocked, mains, syncDrop, txRow, checker, counted, errors>>

(* The node takes the transaction but its answer is lost: the error return *)
(* is taken and nothing is recorded.                                       *)
DropSendLostAnswer ==
    /\ dpc = "send"
    /\ Fault
    /\ \E B \in Batches(units, syncDrop), t \in Txs :
          /\ Send(t, Total(B))
          /\ units' = units \ B
          /\ dpc' = Continue(units \ B)
    /\ UNCHANGED <<rows, blocked, mains, syncDrop, txRow, part, dtx, checker, counted>>

(* No nonce, or the node refuses: the batch is given up for this pass.     *)
DropSendRefused ==
    /\ dpc = "send"
    /\ refused < MaxRefused /\ refused' = refused + 1 /\ UNCHANGED faults
    /\ \E B \in Batches(units, syncDrop) : units' = units \ B /\ dpc' = Continue(units \ B)
    /\ UNCHANGED <<rows, blocked, mains, syncDrop, txRow, chain, part, dtx, checker, counted>>

(* DropChunk: INSERT IGNORE INTO airdrop_tx.  On an error the submissions  *)
(* are not updated either.                                                 *)
DropInsertTx ==
    /\ dpc = "insert"
    /\ \/ /\ txRow' = [txRow EXCEPT ![dtx] = IF @ = "none" THEN "open" ELSE @]
          /\ IF part.give # {}
             THEN dpc' = "update" /\ UNCHANGED <<part, dtx>>
             ELSE Return
          /\ UNCHANGED errors
       \/ Fault /\ Return /\ UNCHANGED txRow
    /\ UNCHANGED <<rows, blocked, mains, syncDrop, chain, units, checker, counted>>

(* DropChunk and transfer: UPDATE airdrop_submissions SET status=1, tx.    *)
DropUpdateSubs ==
    /\ dpc = "update"
    /\ \/ /\ status' = [s \in Subs |-> IF s \in GivenTo(part) THEN "sent" ELSE status[s]]
          /\ subTx' = [s \in Subs |-> IF s \in GivenTo(part) THEN dtx ELSE subTx[s]]
          /\ UNCHANGED errors
       \/ Fault /\ UNCHANGED <<status, subTx>>
    /\ Return
    /\ UNCHANGED <<settled, blocked, mains, syncDrop, txRow, chain, units, checker, counted>>

-----------------------------------------------------------------------------
(* The checker.  Its page of transactions is never stale: only the checker *)
(* itself takes a transaction out of the query.                            *)

Filed(t) == {s \in Subs : subTx[s] = t}
CheckEnds == cpc' = "idle" /\ ctx' = NoTx

(* Check and CheckSubmission: a transaction with an open submission has a  *)
(* receipt.                                                                *)
CheckReceipt(t) ==
    /\ cpc = "idle"
    /\ \E s \in Filed(t) : status[s] = "sent" \/ ~settled[s]
    /\ node[t] \in {"ok", "reverted"}
    /\ ctx' = t
    /\ cpc' = "tx"
    /\ UNCHANGED <<rows, blocked, mains, syncDrop, txRow, chain, dropper, counted, errors>>

(* UPDATE airdrop_tx; an error is only logged. *)
CheckTx ==
    /\ cpc = "tx"
    /\ \/ /\ txRow[ctx] # "none"
          /\ txRow' = [txRow EXCEPT ![ctx] = IF node[ctx] = "ok" THEN "ok" ELSE "failed"]
       \/ UNCHANGED txRow
    /\ cpc' = "subs"
    /\ UNCHANGED <<rows, blocked, mains, syncDrop, chain, dropper, ctx, counted, errors>>

CheckSubsAlwaysDone ==
    /\ cpc = "subs"
    /\ \/ /\ status' = [s \in Subs |-> IF s \in Filed(ctx) THEN "done" ELSE status[s]]
          /\ settled' = [s \in Subs |-> settled[s] \/ s \in Filed(ctx)]
          /\ IF node[ctx] = "ok" THEN cpc' = "count" /\ UNCHANGED ctx ELSE CheckEnds
       \/ UNCHANGED <<status, settled>> /\ CheckEnds
    /\ UNCHANGED <<subTx, blocked, mains, syncDrop, txRow, chain, dropper, counted, errors>>

(* UPDATE airdrop_submissions; an error leaves them for the next pass.     *)
CheckSubs ==
    /\ cpc = "subs"
    /\ \/ /\ status' = [s \in Subs |-> IF s \notin Filed(ctx) THEN status[s]
                                       ELSE IF node[ctx] = "ok" THEN "done" ELSE "failed"]
          /\ settled' = [s \in Subs |-> settled[s] \/ s \in Filed(ctx)]
          /\ IF node[ctx] = "ok" THEN cpc' = "count" /\ UNCHANGED ctx ELSE CheckEnds
       \/ UNCHANGED <<status, settled>> /\ CheckEnds
    /\ UNCHANGED <<subTx, blocked, mains, syncDrop, txRow, chain, dropper, counted, errors>>

(* Add the rows of a successful transaction to the statistics; a failed    *)
(* SELECT, or one that finds them sent again, loses them.                  *)
CheckCount ==
    /\ cpc = "count"
    /\ \/ UNCHANGED counted
       \/ Filed(ctx) # {} /\ counted' = [counted EXCEPT ![ctx] = @ + 1]
    /\ CheckEnds
    /\ UNCHANGED <<rows, blocked, mains, syncDrop, txRow, chain, dropper, errors>>

-----------------------------------------------------------------------------
(* airdropTXRecycle: one DELETE over airdrop_tx. *)
Recyclable(t) ==
    \/ txRow[t] = "ok" /\ \E s \in Filed(t) : status[s] = "done"
    \/ txRow[t] = "open" /\ Filed(t) = {}

AirdropTXRecycle ==
    /\ \E t \in Txs : Recyclable(t)
    /\ txRow' = [t \in Txs |-> IF Recyclable(t) THEN "none" ELSE txRow[t]]
    /\ UNCHANGED <<rows, blocked, mains, syncDrop, chain, dropper, checker, counted, errors>>

(* The process stops in the middle: main.go does not wait for the loops.   *)
Crash ==
    /\ dpc # "idle" \/ cpc # "idle"
    /\ Fault
    /\ dpc' = "idle" /\ units' = {} /\ part' = Nothing /\ dtx' = NoTx
    /\ cpc' = "idle" /\ ctx' = NoTx
    /\ UNCHANGED <<rows, blocked, mains, syncDrop, txRow, chain, counted>>

DropperStep ==
    \/ Drop \/ DropAirdrop \/ DropSend \/ DropSendLostAnswer \/ DropSendRefused
    \/ DropInsertTx \/ DropUpdateSubs

CheckerStep ==
    \/ \E t \in Txs : CheckReceipt(t)
    \/ CheckTx \/ CheckSubs \/ CheckCount

Next ==
    \/ \E s \in Subs : Submit(s) \/ Block(s)
    \/ \E p \in Promoters : InsertMainWallet(p)
    \/ \E t \in Txs : Settle(t)
    \/ DropperStep
    \/ CheckerStep
    \/ AirdropTXRecycle
    \/ Crash

Spec == Init /\ [][Next]_vars

(* The loops keep going, the node settles what is in its pool, and the     *)
(* database does not refuse the checker's update for ever.                 *)
Fairness ==
    /\ WF_vars(Drop) /\ WF_vars(DropAirdrop) /\ WF_vars(DropSend)
    /\ WF_vars(DropInsertTx) /\ WF_vars(DropUpdateSubs)
    /\ \A t \in Txs : WF_vars(Settle(t)) /\ SF_vars(CheckReceipt(t))
    /\ WF_vars(CheckTx) /\ WF_vars(CheckSubs) /\ SF_vars(CheckSubs /\ settled' # settled)
    /\ WF_vars(CheckCount)

FairSpec == Spec /\ Fairness

-----------------------------------------------------------------------------
(* A recorded status tells the truth about the recorded transaction: it    *)
(* carries this give-out, "done" means it took effect, "failed" that it    *)
(* reverted, and only then is the submission owed again.                   *)
StatusMatchesChain ==
    \A s \in Subs :
        /\ status[s] \in {"sent", "done", "failed"} =>
              subTx[s] \in Txs /\ s \in GivenTo(pay[subTx[s]])
        /\ status[s] = "done" => node[subTx[s]] = "ok"
        /\ status[s] = "failed" => node[subTx[s]] = "reverted"

(* Transactions that have paid the give-out of s, or still may. *)
GiveTxs(s) == {t \in Txs : s \in GivenTo(pay[t]) /\ node[t] \in {"pending", "ok"}}
BonusTxs(s) == {t \in Txs : \E b \in pay[t].bonus : b[1][1] = s}
Bonuses(s) == UNION {{t} \X {b \in pay[t].bonus : b[1][1] = s} : t \in Txs}

(* What makes the dropper pay for a submission again. *)
Setbacks == faults + refused + Cardinality({t \in Txs : node[t] = "reverted"})

(* A pass has one row for s, or pays a wallet once however many it has.    *)
Single(s) == ~syncDrop \/ Cardinality(Mains(s)) <= 1

(* A give-out is paid at most once, except that each lost answer, failed   *)
(* write or crash between sending and recording can cost one more.  With   *)
(* sync_drop each pass that takes the submission pays it once for every    *)
(* main wallet of its promoter.                                            *)
PaymentsBound ==
    \A s \in Subs : Cardinality(GiveTxs(s)) <=
        IF Single(s) THEN 1 + faults ELSE Cardinality(Mains(s)) * (1 + Setbacks)

(* A submission with a wallet of its own earns no more bonuses than its    *)
(* promoter has main wallets, except that each time a send or a write      *)
(* fails, a crash comes or a transaction reverts it may earn as many more. *)
(* (One that shares its wallet with an older one stays owed while that is  *)
(* paid, and earns a bonus in every pass.)                                 *)
OwnWallet(s) == \A q \in Subs \ {s} : Wallet[q] # Wallet[s]

BonusBound ==
    \A s \in Subs : OwnWallet(s) =>
        Cardinality(Bonuses(s)) <= Cardinality(Mains(s)) * (1 + Setbacks)

(* While no send fails and nothing reverts it earns one.  It earns none    *)
(* only if a promoter submitted it himself, or, in chunks, if the wallet   *)
(* that would earn it belongs to a submission with a lower id              *)
(* (dropper.go:404 overwrites).                                            *)
BonusKept ==
    Setbacks = 0 /\ dpc = "idle" =>
        \A s \in Subs :
            OwnWallet(s) /\ status[s] \in {"sent", "done"} /\ BonusTxs(s) = {} =>
                \E w \in Mains(s) :
                    LET earners == IF Referred(<<s, w>>) THEN {Referrer[s]}
                                   ELSE UNION {Mains(r) : r \in Subs}
                    IN \E r \in Subs : /\ Wallet[r] \in earners
                                       /\ r = s \/ (r < s /\ ~syncDrop)

(* A bonus goes to the referrer if one counts, else to a main wallet of    *)
(* the submission's own promoter, unless a pass with a later submission of *)
(* another promoter gave it to that one (dropper.go:400); never to the     *)
(* submitter.                                                              *)
Earned(r, w) ==
    /\ w # Wallet[r[1]]
    /\ IF Referred(r) THEN w = Referrer[r[1]]
       ELSE \E q \in Subs : r[1] <= q /\ w \in Mains(q)

BonusToEarner == \A t \in Txs : \A b \in pay[t].bonus : Earned(b[1], b[2])

(* The statistics count a transaction at most once, and only if it paid.   *)
CountedOnce == \A t \in Txs : counted[t] <= 1 /\ (counted[t] > 0 => node[t] = "ok")

(* Statuses move along 0 -> 1 -> 2, with 1 -> 3 -> 1 for a retry: a done   *)
(* submission is final, and one that is sent is not sent again, unless a   *)
(* pass of sync_drop has several rows for it.                              *)
LegalStatus ==
    [][\A s \in Subs : status'[s] # status[s] =>
          \/ <<status[s], status'[s]>> \in
              {<<"none", "new">>, <<"new", "sent">>, <<"sent", "done">>,
               <<"sent", "failed">>, <<"failed", "sent">>}
          \/ ~Single(s) /\ <<status[s], status'[s]>> = <<"done", "sent">>]_vars

(* A new submission whose promoter has a main wallet is eventually         *)
(* settled, unless it is blocked.                                          *)
NewIsSettled ==
    \A s \in Subs :
        status[s] = "new" /\ Mains(s) # {} ~> status[s] \in {"done", "failed"} \/ blocked[s]

(* A failed submission is sent again if another one of the airdrop is done *)
(* (dropper.go:110 looks for status 0 or 2, :230 picks 0 or 3).            *)
FailedIsRetried ==
    \A s, r \in Subs :
        status[s] = "failed" /\ status[r] = "done" ~>
            status[s] \in {"sent", "done"} \/ blocked[s] \/ blocked[r]
=============================================================================
