---------------------------- MODULE AirdropSetup ----------------------------
(***************************************************************************)
(* Getting airdrops ready to be paid: the loop that deploys a dealer       *)
(* contract per airdrop (tools/airdrop/dealer.contract.go), the loop that  *)
(* lets the contract spend the airdrop's tokens (allowance.go), and the    *)
(* balance_status every loop and view writes (common CheckBalance).        *)
(*                                                                         *)
(* A loop selects a page of rows, asks the node for their balances, writes *)
(* what it found and then treats one airdrop after the other: read, send,  *)
(* record.  Airdrops here are ERC20 ones with sync_drop=0 and no_drop=0.   *)
(* The node is external; it executes the transactions of a wallet in       *)
(* order and may forget one.                                               *)
(***************************************************************************)
EXTENDS Integers, FiniteSets, FiniteSetsExt

CONSTANTS
    Airdrop,     \* ids of airdrops
    PageSize,    \* LIMIT of both queries: 1000 in the code
    MaxTokens,   \* bound: tokens in a wallet
    MaxTx,       \* bound: transactions
    MaxFaults,   \* bound: failed calls and statements, crashes
    MaxReverts,  \* bound: failed transactions
    MaxEvicted,  \* bound: transactions the node forgets
    MaxEvents    \* bound: top-ups, withdrawals, payments, postponements

AirdropAssumption == Airdrop \subseteq Nat \ {0} /\ IsFiniteSet(Airdrop)
BoundAssumption ==
    /\ PageSize \in Nat \ {0} /\ MaxTokens \in Nat \ {0}
    /\ {MaxTx, MaxFaults, MaxReverts, MaxEvicted, MaxEvents} \subseteq Nat

VARIABLES
    row,      \* the airdrops table
    tokens,   \* node: tokens of each airdrop wallet
    gas,      \* node: its ether, as far as the code tells it apart
    tx,       \* node: transactions
    allowed,  \* node: allowance of each contract, named by its deployment
    loop,     \* the deployer and the allowance checker
    view,     \* a handler that shows an airdrop
    count,    \* history: faults, reverts, evictions and events so far
    toppedUp  \* history: airdrops that received tokens once they had a contract

rows == <<row>>
node == <<tokens, gas, tx, allowed>>
history == <<count, toppedUp>>
vars == <<rows, node, loop, view, history>>

Txs == 1..MaxTx
NoTx == 0
Loops == {"deployer", "checker"}
Balances == {"ok", "noGas", "noToken", "empty"}

(* The columns: dealer_tx_status, dealer_tx (which names dealer_contract), *)
(* approve_tx_status, approve_tx, balance_status; due is allowance_checked *)
(* older than an hour, open is drop_date reached and a submission filed.   *)
Rows == [dealer : {"none", "sent", "ok", "failed"}, dealerTx : Txs \union {NoTx},
         approve : {"none", "sent", "ok", "failed"}, approveTx : Txs \union {NoTx},
         balance : Balances, due : BOOLEAN, open : BOOLEAN, exists : BOOLEAN]

Gas == {"none", "little", "enough"}

(* What a loop knows of a selected row: the columns then, and the balance  *)
(* it was told; gas "unknown" is GasBalance = nil.                         *)
Rec == [row : Rows, gas : Gas \union {"unknown"}, balance : Balances]

Tx == [kind : {"none", "deploy", "approve"}, of : Airdrop \union {0}, spender : Txs \union {NoTx},
       amount : 0..MaxTokens, state : {"none", "pending", "good", "failed", "gone"}]

(* at is the airdrop being treated, 0 before the first of a page.          *)
LoopOK(k) ==
    /\ k.step \in {"query", "balance", "write", "next", "allowance", "tokens", "act", "record"}
    /\ {k.from, k.at} \subseteq Airdrop \union {0}
    /\ DOMAIN k.page \subseteq Airdrop /\ \A a \in DOMAIN k.page : k.page[a] \in Rec
    /\ k.tx \in Txs \union {NoTx}
    /\ {k.allowance, k.tokens} \subseteq 0..MaxTokens

TypeOK ==
    /\ row \in [Airdrop -> Rows]
    /\ tokens \in [Airdrop -> 0..MaxTokens]
    /\ gas \in [Airdrop -> Gas]
    /\ tx \in [Txs -> Tx]
    /\ allowed \in [Txs -> 0..MaxTokens]
    /\ DOMAIN loop = Loops /\ \A l \in Loops : LoopOK(loop[l])
    /\ DOMAIN view \subseteq Airdrop /\ \A a \in DOMAIN view : view[a] \in Balances
    /\ count \in [{"fault", "revert", "evict", "event"} -> Nat]
    /\ toppedUp \subseteq Airdrop

-----------------------------------------------------------------------------
(* Helpers. *)

Limit(what) == CASE what = "fault" -> MaxFaults [] what = "revert" -> MaxReverts
                 [] what = "evict" -> MaxEvicted [] what = "event" -> MaxEvents
Counting(what) == count[what] < Limit(what) /\ count' = [count EXCEPT ![what] = @ + 1]

NoView == [a \in {} |-> "ok"]
Begin == [step |-> "query", from |-> 0, page |-> [a \in {} |-> "ok"], at |-> 0, tx |-> NoTx,
          allowance |-> 0, tokens |-> 0]
NoTransaction == [kind |-> "none", of |-> 0, spender |-> NoTx, amount |-> 0, state |-> "none"]

(* CheckBalance, by what is left in the wallet. *)
BalanceOf(a) == IF gas[a] = "none" THEN (IF tokens[a] = 0 THEN "empty" ELSE "noGas")
                ELSE IF tokens[a] = 0 THEN "noToken" ELSE "ok"

(* The WHERE clauses. *)
Eligible(l, a) ==
    /\ row[a].exists /\ row[a].balance = "ok" /\ row[a].open
    /\ IF l = "deployer" THEN row[a].dealer \in {"none", "sent"}
       ELSE row[a].dealer = "ok" /\ (row[a].approve = "sent" \/ row[a].due)

(* ORDER BY id DESC LIMIT PageSize, of ids above from. *)
Page(l, from) ==
    LET found == {a \in Airdrop : a > from /\ Eligible(l, a)}
    IN {a \in found : Cardinality({b \in found : b > a}) < PageSize}

(* What is left of a page, which is in descending order. *)
Rest(l) == {a \in DOMAIN loop[l].page : loop[l].at = 0 \/ a < loop[l].at}
Current(l) == loop[l].page[loop[l].at]

Step(l, s) == loop' = [loop EXCEPT ![l].step = s]

(* The function returns; the loop goes on with the next airdrop.           *)
Done(l) == loop' = [loop EXCEPT ![l].step = "next", ![l].tx = NoTx,
                                ![l].allowance = 0, ![l].tokens = 0]

(* All loops and handlers are in one process: a panic in one ends them all. *)
Ends == loop' = [l \in Loops |-> Begin] /\ view' = NoView

-----------------------------------------------------------------------------
(* Both loops: select a page, check the balances, write them.              *)

(* An empty page ends the pass. *)
Query(l) ==
    /\ loop[l].step = "query"
    /\ LET page == Page(l, loop[l].from)
       IN loop' = [loop EXCEPT ![l] =
             IF page = {} THEN Begin
             ELSE [Begin EXCEPT !.step = "balance", !.from = Min(page),
                !.page = [a \in page |-> [row |-> row[a], gas |-> "unknown", balance |-> "ok"]]]]
    /\ UNCHANGED <<rows, node, view, history>>

QueryFails(l) ==
    /\ loop[l].step = "query" /\ loop[l].from # 0 /\ Counting("fault")
    /\ loop' = [loop EXCEPT ![l] = Begin]
    /\ UNCHANGED <<rows, node, view, toppedUp>>

(* CheckBalance of each row, in a goroutine of its own.  One may fail: at  *)
(* BalanceAt it leaves GasBalance nil, at BalanceOf balance_status at 0.   *)
Checked(l, a) == [loop[l].page[a] EXCEPT !.gas = gas[a], !.balance = BalanceOf(a)]
Unchecked(l, a) == {loop[l].page[a], [loop[l].page[a] EXCEPT !.gas = gas[a]]}

CheckBalances(l) ==
    /\ loop[l].step = "balance"
    /\ loop' = [loop EXCEPT ![l].step = "write", ![l].page = [a \in DOMAIN @ |-> Checked(l, a)]]
    /\ UNCHANGED <<rows, node, view, history>>

CheckBalanceFails(l) ==
    /\ loop[l].step = "balance" /\ Counting("fault")
    /\ \E b \in DOMAIN loop[l].page : \E r \in Unchecked(l, b) :
          loop' = [loop EXCEPT ![l].step = "write",
             ![l].page = [a \in DOMAIN @ |-> IF a = b THEN r ELSE Checked(l, a)]]
    /\ UNCHANGED <<rows, node, view, toppedUp>>

(* INSERT ... ON DUPLICATE KEY UPDATE balance_status; an error is logged.  *)
WriteBalances(l) ==
    /\ loop[l].step = "write"
    /\ row' = [a \in Airdrop |-> IF a \in DOMAIN loop[l].page
                                 THEN [row[a] EXCEPT !.balance = loop[l].page[a].balance] ELSE row[a]]
    /\ Step(l, "next")
    /\ UNCHANGED <<node, view, history>>

WriteBalancesFails(l) ==
    /\ loop[l].step = "write" /\ Counting("fault") /\ Step(l, "next")
    /\ UNCHANGED <<rows, node, view, toppedUp>>

(* The next airdrop of the page, or the next page. *)
Turn(l) ==
    /\ loop[l].step = "next"
    /\ loop' = [loop EXCEPT ![l] =
          IF Rest(l) = {} THEN [Begin EXCEPT !.from = loop[l].from]
          ELSE [loop[l] EXCEPT !.at = Max(Rest(l)),
                               !.step = IF l = "deployer" THEN "act" ELSE "allowance"]]
    /\ UNCHANGED <<rows, node, view, history>>

-----------------------------------------------------------------------------
(* Sending. *)

(* The wallet of airdrop a sends t. *)
Send(t, a, kind, spender, amount) ==
    /\ tx[t].state = "none" /\ \A u \in Txs : u < t => tx[u].state # "none"
    /\ tx' = [tx EXCEPT ![t] = [kind |-> kind, of |-> a, spender |-> spender,
                                amount |-> amount, state |-> "pending"]]
    /\ UNCHANGED <<tokens, gas, allowed>>

(* Sent, and on to the UPDATE; sent while the answer or the process is     *)
(* lost; or refused, for which there may also be no nonce.                 *)
SendAndGoOn(l, kind, spender, amount) ==
    /\ \E t \in Txs : /\ Send(t, loop[l].at, kind, spender, amount)
                      /\ loop' = [loop EXCEPT ![l].step = "record", ![l].tx = t]
    /\ UNCHANGED <<rows, view, history>>

SendFails(l, kind, spender, amount) ==
    /\ Counting("fault") /\ Done(l)
    /\ \/ \E t \in Txs : Send(t, loop[l].at, kind, spender, amount)
       \/ UNCHANGED node
    /\ UNCHANGED <<rows, view, toppedUp>>

(* An UPDATE of the current row, or its failure. *)
Update(l, new) ==
    /\ \/ row' = [row EXCEPT ![loop[l].at] = new] /\ UNCHANGED count
       \/ UNCHANGED row /\ Counting("fault")
    /\ Done(l)
    /\ UNCHANGED <<node, view, toppedUp>>

Nothing(l) == Done(l) /\ UNCHANGED <<rows, node, view, history>>

Panic(l) == Ends /\ UNCHANGED <<rows, node, history>>

-----------------------------------------------------------------------------
(* DeployAirdrop. *)

Deploying == loop["deployer"].step = "act"
Deployment == tx[Current("deployer").row.dealerTx]

(* GasBalance.Cmp of nil. *)
DeployPanics == Deploying /\ Current("deployer").gas = "unknown" /\ Panic("deployer")

DeployWaits ==
    /\ Deploying
    /\ \/ Current("deployer").gas \in {"none", "little"}
       \/ /\ Current("deployer").gas = "enough" /\ Current("deployer").row.dealer = "sent"
          /\ Deployment.state \in {"pending", "gone"}
    /\ Nothing("deployer")

DeploySend ==
    /\ Deploying /\ Current("deployer").gas = "enough" /\ Current("deployer").row.dealer = "none"
    /\ \/ SendAndGoOn("deployer", "deploy", NoTx, 0)
       \/ SendFails("deployer", "deploy", NoTx, 0)

DeployRecordHashOnly ==
    LET l == "deployer" IN
    /\ loop[l].step = "record"
    /\ Update(l, [row[loop[l].at] EXCEPT !.dealerTx = loop[l].tx])

DeployRecord ==
    LET l == "deployer" IN
    /\ loop[l].step = "record"
    /\ Update(l, [row[loop[l].at] EXCEPT !.dealer = "sent", !.dealerTx = loop[l].tx])

DeployReceipt ==
    LET l == "deployer" IN
    /\ Deploying /\ Current(l).gas = "enough" /\ Current(l).row.dealer = "sent"
    /\ Deployment.state \in {"good", "failed"}
    /\ Update(l, [row[loop[l].at] EXCEPT !.dealer = IF Deployment.state = "good" THEN "ok" ELSE "failed"])

-----------------------------------------------------------------------------
(* CheckApprove. *)

Contract == Current("checker").row.dealerTx
Approval == tx[Current("checker").row.approveTx]
ApprovalPending == Current("checker").row.approveTx # NoTx /\ Approval.state = "pending"
Short == loop["checker"].allowance < loop["checker"].tokens

ReadAllowance ==
    /\ loop["checker"].step = "allowance"
    /\ loop' = [loop EXCEPT !["checker"].step = "tokens", !["checker"].allowance = allowed[Contract]]
    /\ UNCHANGED <<rows, node, view, history>>

ReadAllowanceFails ==
    /\ loop["checker"].step = "allowance" /\ Counting("fault") /\ Done("checker")
    /\ UNCHANGED <<rows, node, view, toppedUp>>

ReadTokens ==
    /\ loop["checker"].step = "tokens"
    /\ loop' = [loop EXCEPT !["checker"].step = "act", !["checker"].tokens = tokens[loop["checker"].at]]
    /\ UNCHANGED <<rows, node, view, history>>

(* The error is not looked at, and Cmp of nil panics. *)
ReadTokensFails ==
    /\ loop["checker"].step = "tokens" /\ Counting("fault") /\ Ends
    /\ UNCHANGED <<rows, node, toppedUp>>

Approving == loop["checker"].step = "act" /\ Short
Verdict(l, verdict) == [row[loop[l].at] EXCEPT !.approve = verdict, !.due = FALSE]

ApproveEnough ==
    /\ loop["checker"].step = "act" /\ ~Short
    /\ Update("checker", Verdict("checker", "ok"))

ApproveReceipt ==
    /\ Approving /\ Current("checker").row.approve = "sent"
    /\ Approval.state \in {"good", "failed"}
    /\ Update("checker", Verdict("checker", IF Approval.state = "good" THEN "ok" ELSE "failed"))

ApproveWaits ==
    /\ Approving
    /\ IF Current("checker").row.approve = "sent"
       THEN Approval.state \in {"pending", "gone"} ELSE ApprovalPending
    /\ Nothing("checker")

ApproveSend ==
    /\ Approving /\ Current("checker").row.approve # "sent" /\ ~ApprovalPending
    /\ \/ SendAndGoOn("checker", "approve", Contract, loop["checker"].tokens)
       \/ SendFails("checker", "approve", Contract, loop["checker"].tokens)

ApproveRecordAsDone ==
    /\ loop["checker"].step = "record"
    /\ Update("checker", [Verdict("checker", "ok") EXCEPT !.approveTx = loop["checker"].tx])

ApproveRecord ==
    /\ loop["checker"].step = "record"
    /\ Update("checker", [Verdict("checker", "sent") EXCEPT !.approveTx = loop["checker"].tx])

-----------------------------------------------------------------------------
(* Handlers. *)

(* AddHandler: the row, for a new wallet. *)
AddHandler(a) ==
    /\ ~row[a].exists /\ \A b \in Airdrop : b < a => row[b].exists
    /\ row' = [row EXCEPT ![a].exists = TRUE]
    /\ UNCHANGED <<node, loop, view, history>>

(* The drop date comes and a submission is there. *)
Open(a) ==
    /\ row[a].exists /\ ~row[a].open
    /\ row' = [row EXCEPT ![a].open = TRUE]
    /\ UNCHANGED <<node, loop, view, history>>

(* UpdateHandler: another drop date. *)
UpdateHandler(a) ==
    /\ row[a].open /\ Counting("event")
    /\ row' = [row EXCEPT ![a].open = FALSE]
    /\ UNCHANGED <<node, loop, view, toppedUp>>

HourPasses(a) ==
    /\ row[a].exists /\ ~row[a].due
    /\ row' = [row EXCEPT ![a].due = TRUE]
    /\ UNCHANGED <<node, loop, view, history>>

(* A handler that shows airdrops S checks their balances ...               *)
Look(S) ==
    /\ view = NoView /\ S # {} /\ \A a \in S : row[a].exists
    /\ \/ view' = [a \in S |-> BalanceOf(a)] /\ UNCHANGED count
       \/ Counting("fault") /\ view' = [a \in S |-> row[a].balance]
    /\ UNCHANGED <<rows, node, loop, toppedUp>>

GetHandler(a) == Look({a})
ListHandler(S) == Look(S)

(* ... and writes them. *)
LookWrite ==
    /\ view # NoView
    /\ row' = [a \in Airdrop |-> IF a \in DOMAIN view THEN [row[a] EXCEPT !.balance = view[a]] ELSE row[a]]
    /\ view' = NoView
    /\ UNCHANGED <<node, loop, history>>

-----------------------------------------------------------------------------
(* The node and the owners of the wallets. *)

Mine(t) ==
    /\ tx[t].state = "pending"
    /\ \A u \in Txs : u < t /\ tx[u].of = tx[t].of => tx[u].state # "pending"
    /\ \/ /\ tx' = [tx EXCEPT ![t].state = "good"]
          /\ allowed' = IF tx[t].kind = "approve" THEN [allowed EXCEPT ![tx[t].spender] = tx[t].amount]
                        ELSE allowed
          /\ UNCHANGED count
       \/ Counting("revert") /\ tx' = [tx EXCEPT ![t].state = "failed"] /\ UNCHANGED allowed
    /\ UNCHANGED <<rows, tokens, gas, loop, view, toppedUp>>

Evict(t) ==
    /\ tx[t].state = "pending" /\ Counting("evict")
    /\ tx' = [tx EXCEPT ![t].state = "gone"]
    /\ UNCHANGED <<rows, tokens, gas, allowed, loop, view, toppedUp>>

TopUp(a) ==
    /\ row[a].exists /\ tokens[a] < MaxTokens /\ Counting("event")
    /\ tokens' = [tokens EXCEPT ![a] = @ + 1]
    /\ toppedUp' = IF row[a].dealer = "ok" THEN toppedUp \union {a} ELSE toppedUp
    /\ UNCHANGED <<rows, gas, tx, allowed, loop, view>>

Withdraw(a) ==
    /\ tokens[a] > 0 /\ Counting("event")
    /\ tokens' = [tokens EXCEPT ![a] = @ - 1]
    /\ UNCHANGED <<rows, gas, tx, allowed, loop, view, toppedUp>>

ChangeGas(a, g) ==
    /\ row[a].exists /\ gas[a] # g /\ Counting("event")
    /\ gas' = [gas EXCEPT ![a] = g]
    /\ UNCHANGED <<rows, tokens, tx, allowed, loop, view, toppedUp>>

(* The dropper has the contract move a token. *)
Pay(a) ==
    LET c == row[a].dealerTx IN
    /\ row[a].dealer = "ok" /\ tokens[a] > 0 /\ allowed[c] > 0 /\ Counting("event")
    /\ tokens' = [tokens EXCEPT ![a] = @ - 1]
    /\ allowed' = [allowed EXCEPT ![c] = @ - 1]
    /\ UNCHANGED <<rows, gas, tx, loop, view, toppedUp>>

(* The process ends and starts again. *)
Crash ==
    /\ Counting("fault") /\ Ends
    /\ UNCHANGED <<rows, node, toppedUp>>

-----------------------------------------------------------------------------
NewRow == [dealer |-> "none", dealerTx |-> NoTx, approve |-> "none", approveTx |-> NoTx,
           balance |-> "ok", due |-> TRUE, open |-> FALSE, exists |-> FALSE]

Init ==
    /\ row = [a \in Airdrop |-> NewRow]
    /\ tokens \in [Airdrop -> 0..MaxTokens]
    /\ gas \in [Airdrop -> Gas]
    /\ tx = [t \in Txs |-> NoTransaction]
    /\ allowed = [t \in Txs |-> 0]
    /\ loop = [l \in Loops |-> Begin]
    /\ view = NoView
    /\ count = [c \in {"fault", "revert", "evict", "event"} |-> 0]
    /\ toppedUp = {}

LoopStep(l) == Query(l) \/ QueryFails(l) \/ CheckBalances(l) \/ CheckBalanceFails(l)
               \/ WriteBalances(l) \/ WriteBalancesFails(l) \/ Turn(l)
Deploy == DeployPanics \/ DeployWaits \/ DeploySend \/ DeployRecord \/ DeployReceipt
CheckApprove == ReadAllowance \/ ReadAllowanceFails \/ ReadTokens \/ ReadTokensFails
                \/ ApproveEnough \/ ApproveReceipt \/ ApproveWaits \/ ApproveSend \/ ApproveRecord
Handler(a) == AddHandler(a) \/ Open(a) \/ UpdateHandler(a) \/ HourPasses(a) \/ GetHandler(a)
Owner(a) == TopUp(a) \/ Withdraw(a) \/ Pay(a) \/ \E g \in Gas : ChangeGas(a, g)

Next ==
    \/ \E l \in Loops : LoopStep(l)
    \/ Deploy \/ CheckApprove \/ LookWrite \/ Crash
    \/ \E a \in Airdrop : Handler(a) \/ Owner(a)
    \/ \E S \in SUBSET Airdrop : ListHandler(S)
    \/ \E t \in Txs : Mine(t) \/ Evict(t)

Spec == Init /\ [][Next]_vars

-----------------------------------------------------------------------------
(* Properties. *)

Deployments(a) == {t \in Txs : tx[t].kind = "deploy" /\ tx[t].of = a}

(* An airdrop gets a second contract only by an error or a crash between   *)
(* sending the first and recording it.  What a row says of its             *)
(* transactions is so: the contract the dropper will use exists, and the   *)
(* approval was for that contract.                                         *)
ContractIsTrue ==
    \A a \in Airdrop :
        LET d == row[a].dealerTx  p == row[a].approveTx IN
        /\ Cardinality(Deployments(a)) <= 1 + count["fault"]
        /\ row[a].dealer = "ok" => d \in Deployments(a) /\ tx[d].state = "good"
        /\ row[a].dealer = "failed" => d \in Deployments(a) /\ tx[d].state = "failed"
        /\ p # NoTx => tx[p].kind = "approve" /\ tx[p].of = a /\ tx[p].spender = d
        /\ row[a].approve = "failed" => tx[p].state = "failed"

(* With approve_tx_status=2 the contract may spend all the tokens, unless  *)
(* some came after the contract: neither a payment between the two reads   *)
(* of the checker (allowance.go:157 and :163) nor an approval it knows     *)
(* nothing of leaves it short.                                             *)
ShortHasCause ==
    \A a \in Airdrop :
        row[a].approve = "ok" /\ allowed[row[a].dealerTx] < tokens[a] => a \in toppedUp
=============================================================================
