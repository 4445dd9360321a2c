# Verification of tokenmed

tokenmed distributes ERC20 tokens: publishers fund airdrops, promoters spread
links, a Telegram bot files submissions, background loops pay them out through
a dealer contract, and users give each other red packets. This directory holds
TLA+ models of it, TLC configurations that check them on small instances, and
proofs that TLAPS checks for every instance.

## 1. The system

One Go process (`main.go`) with a MySQL database, redis, an Ethereum node and
Telegram around it. `handler.GlobalLock` is one mutex for the process; the
database is used without transactions, one statement at a time.

| component | state it keeps | operations | what makes it correct |
|---|---|---|---|
| nonce counter (`coins/eth/account.go`) | redis key per wallet | `Nonce`, `NonceIncr`, `PendingNonce` | the counter never goes back, skips no nonce and reuses none |
| airdrop setup (`dealer.contract.go`, `allowance.go`) | `airdrops.dealer_tx_status`, `approve_tx_status` | deploy, approve, read receipts | one contract per airdrop, enough allowance |
| airdrop payout (`dropper.go`, `drop.checker.go`) | `airdrop_submissions`, `airdrop_tx` | `Drop`, `DropChunk`, `transfer`, `Check`, `CheckSubmission` | each submission is paid once, statuses tell the truth, bonuses reach their earners |
| airdrop money (`interface.airdrop.go`, `update.go`, `withdraw.go`) | balances, `promotion_stats` | plan, pay, book, withdraw | what is booked is what was paid |
| statistics (`tools/tracker`) | a map in memory, `promotion_stats` | `Pv`, `Submission`, ..., `Flush`, `Stop` | each event is stored once |
| garbage collection (`tools/gc`) | | three hourly DELETEs | it deletes nothing that is still needed |
| bot and codes (`tools/telegram`, `handler/promotion`) | `codes`, a buffer of 1000 messages | `ShowHandler`, `SubmitHandler`, `VerifyCodeHandler` | one submission per code and wallet, none lost |
| red packet claims (`handler/redpacket/submit.go`, `show.go`, `handler/auth/telegram.go`) | `red_packet_recipients` | claim, link, show | a slot has one owner, an owner one slot |
| cash (`handler/redpacket/add.go`, `checkout.go`, `deposit.go`, the two checkers) | `red_packets`, `deposits`, `checkouts` | create, deposit, check out, confirm | nobody spends more than he has |
| accounts (`handler/auth`, `handler/user`, `middlewares/jwt`) | `users`, `user_wallets`, `auth_verify_codes`, tokens | create, verify, log in, refresh | an account has one wallet, a phone is its owner's |
| wallet page (`handler/user/fund.go`) | a slice and a map shared by goroutines | read, gather, append | every token once, none made up |
| values (`utils`, `tools/redpacket/generate.go`) | none | links, code numbers, the cut of a packet | round trips, sums kept |
| process (`main.go`, endless) | which loops run | start, SIGHUP, stop | no chunk cut short, nothing paid twice |

How they interact: the bot writes the submissions the dropper pays; the
dropper and every other sender take nonces from the counter; the checker feeds
the statistics; the collector deletes `airdrop_tx` rows while the dropper
writes them; linking a Telegram account rewrites red packet slots while claims
are under way; a graceful restart runs two processes over the same tables.

What is hard: sends that reach the node while their answer is lost, crashes
between a send and its record, the interleaving of loops over two tables
without transactions, the order of shutdown, balances that are read and
spent in separate statements, and goroutines that share a slice without a
lock. `PROJECT.json` lists each hazard at its line with the properties about it.

## 2. What is modelled

### WalletNonce (`coins/eth/account.go`)

Several senders of one wallet. `NonceGet` and `NonceReturn` are the two halves
of `Nonce` under the lock (`NonceFail` is its error return), `Send` and
`SendFails` the call to the node after the unlock, `NonceIncr` the INCR.
`PendingNonce` is what `withdraw.go` and `redpacket/add.go` do instead.
The node is external: `PendingNonceAt` answers the first nonce without a
transaction, the pool queues higher ones, a second transaction with a nonce
replaces the first, and the pool may drop one. `Restart` forgets the senders
and keeps redis and the node. Nonce 0 is special: `TransactorUpdate` leaves it
unset, so the library asks the node again (`SentNonce`).

*Abstraction*: one wallet, since redis keys are per wallet; the mutex is
shared by all wallets, which only adds waiting. Amounts and gas are left out.

### AirdropSetup (`dealer.contract.go`, `allowance.go`, `CheckBalance`)

The deployer and the allowance checker, each a loop that selects a page of
rows, asks the node for their balances, writes `balance_status` and then treats
one airdrop after the other: read, send, record. Around them the publisher tops
up and withdraws, the payout spends the allowance, a view writes a balance it
read before, a transaction reverts, and the node may forget one.

*Abstraction*: ERC20 airdrops with `sync_drop = 0` and `no_drop = 0`, the only
ones the loops select.

### DropPlan (`dropper.go:214-448`)

Whom a pass pays, and in which batches: operators that AirdropDrop and
AirdropMoney share. A row is a submission with one of its promoter's main
wallets, as the INNER JOIN with `user_wallets` yields them: two rows if he has
two, none if he has none (Account says when that happens). A payment is a set of
give-outs, by row, and a set of bonuses, each for a row and to a wallet; a batch
of payments is their `Total`, which is what one transaction pays.

Without `sync_drop` there is one payment per wallet (`WalletUnit`), as in
`recipientsMap`: filled by descending id, the give-out of a wallet overwrites
the bonuses put there before, later ones pile up on it, and `submissionMap`
keeps the lowest id. So a wallet's bonuses travel with it, in the one chunk that
has it, whoever's submissions earned them. All bonuses without a referrer go to
the promoter's wallet of the first row (`PromoWallets`). The dealer contract
takes ten payments per call in the random order of a Go map (`Batches`). With
`sync_drop` each row and each referrer is paid by a transfer of its own, by
descending id (`NextTransfers`), and the promoter by one at the end.

### AirdropDrop (`dropper.go`, `drop.checker.go`, `gc.go:64`)

One airdrop. The columns `status`, `tx`, `tx_status` and `blocked` of the
submissions, `status` of `airdrop_tx` and the promoters' main wallets (`mains`)
are variables; so are the program counter of the dropper (`dpc`), the payments
left in its pass (`units`), and the same of the checker. `Drop` is the outer
query (status 0 or 2), `DropAirdrop` the inner one (status 0 or 3) with the
plan, `DropSend` the send, `DropInsertTx` and `DropUpdateSubs` the two writes
after it; a transfer of a bonus alone is written nowhere. `DropSendRefused` is
an error before the node has the transaction, `DropSendLostAnswer` one after.
The checker is `CheckReceipt`, `CheckTx`, `CheckSubs`, `CheckCount`. `Crash`
ends the process between any two steps. `InsertMainWallet` gives a promoter a
first main wallet, or another one, at any time; no code takes one away.

*Abstraction*: funds, the dealer contract and the allowance are taken to be in
order (AirdropSetup, AirdropMoney); a page of 1000 rows is all of them;
a reused nonce and its effect on a payout are in Lifecycle. Wallet strings are
compared by value, so one wallet written in two ways counts as two. The COUNT
before the SELECT only ends a pass early here; what it decides is in AirdropMoney.

### AirdropMoney (`interface.airdrop.go`, `dropper.go`, `drop.checker.go`, `update.go`, `withdraw.go`)

The amounts of one airdrop's tokens. `Drop` reads price and balance,
`CountOwed` counts the submissions, `SelectOwed` selects the rows and plans,
and `Pay` sends one batch of the plan; between any two of them the bot files
submissions, a promoter gets a main wallet, and the publisher edits, withdraws
and tops up. The budget check of `dropper.go:187-193` is commented out: the
model keeps what it would have said (`enough`) and whether the SELECT found
more rows than the COUNT (`grown`) to explain a payment that reverts, and decides
nothing by them. `UpdateHandler` changes the give-out; a withdrawal is
cut to four decimals (to whole tokens if the token has fewer) and may ask for
nothing. `Mine` is the node, where a transaction with too few tokens fails. The
checker books one give-out and one bonus for each submission recorded with a
transaction, at the price of the moment it checks; what the transaction paid is
its own batch, so bonuses that `sync_drop` pays in unrecorded transactions, and
those that travel with another wallet's chunk, are booked elsewhere than paid.
The percentage of a bonus is taken before the decimals are multiplied in.

*Abstraction*: ether and gas, lost answers, crashes and blocked submissions
(AirdropDrop has them); a submission is not sent twice by two processes.
`max_submissions` is compared with statistics that lag by up to a minute and
only when a code is issued; the model leaves the number of submissions free.

### DropPass (`Airdropper.Drop`)

The pages of a pass over all airdrops: `id > endId ORDER BY id DESC LIMIT 100`.
Pages overlap, so the newest airdrop is treated once per page. An airdrop with a
done submission stays eligible for ever, so one behind a page of newer finished
ones is never reached. Treating an airdrop is one step, which pays what is owed
or fails.

### Tracker, TrackerLedger (`tools/tracker`, the end of `main.go`)

Tracker has the map under the lock (`mp`), two flushers (the ticker's goroutine
and `main`), what each still has to write, the table, and what was lost.
`Record` is every recorder, `Swap` the locked part of `Flush`, `Insert` one
INSERT of at most `BatchSize` rows, which may fail, or which the MySQL driver
repeats after a network error: its rows are added to the table twice
(`doubled`). `Stop`, `FinalFlush` and
`End` are the end of `main`, which neither waits for a tick under way nor for
late events. `Kill` is the end without `main`.

TrackerLedger is what a caller may rely on: an event is in memory, stored, or
lost, and only one that is stored twice is there more than once; stored and
lost only grow. Tracker implements it under the mapping at
the end of `Tracker.tla`.

*Abstraction*: an event is one unit of one counter of one map entry; the
counters of an entry are added the same way.

### VerifyCode, CodeLedger (`promotion/show.go`, `submit.go`, `tools/telegram/bot.go`, `gc.go`)

A code from its issue to the submission. `ShowHandler` and `SubmitHandler` are
sequences of statements of a request; a message goes from Telegram through the
library's channel and the bot's buffer to one of a pool of workers, whose
`VerifyCodeHandler` runs a statement at a time: read, INSERT, UPDATE, count,
reply. The INSERT may fail, or succeed and lose its answer. A code belongs to an
airdrop (`AirdropOf`), and so does the link of a request: the SELECT of
`SubmitHandler` (`SubmitSelect`) asks for codes of the link's airdrop, its UPDATE
(`SubmitUpdate`) binds the request's code whatever its airdrop; `stray` remembers
the codes bound across. Messages are confirmed to Telegram when the library next asks
(telegram-bot-api 4.6), handled or not. `Stop` waits for the pool and cuts off
what comes later; `Crash` is also what a panic of a worker does, as the pool
(ants 3.6) does not recover one. CodeLedger is the promise without requests or
messages; VerifyCode implements it.

*Abstraction*: whether a request may have a code (budget, dates, maximum) is a
free choice. A code is one of 62^9 numbers, so a deleted one is not issued
again. Unique keys, such as that of a member and an airdrop, are external.

### RedPacketClaim (`handler/redpacket/{add,submit,show}.go`, `handler/auth/telegram.go`, `handler/user/create.go`)

A slot is a row of `red_packet_recipients`; `slotUser` and `slotTg` are its
`user_id` and `telegram_id`. A handler runs in a goroutine of its own, one
statement after the other: each statement is an action and `req` is what the
request carries between them. `ClaimAsUser` is `SubmitHandler` for a logged-in
user, `ClaimLookup` and `ClaimTake` the two statements for a Telegram visitor.
`LinkUser` then `LinkSlots` is `TelegramHandler`, `CreateUser` then
`CreateSlots` is `CreateHandler`. `Show`, `ShowCount`, `ShowMark` are the
SELECTs of `ShowHandler` and the UPDATE it makes by them. `AddPacket`,
`FillSlots`, `OpenPacket` are `AddHandler`. `Drop` ends a request between two
statements, by an error or with the process.

The two linking UPDATEs differ although they read alike. Both join a second
row `rpr2` of the user to leave out packets where he already has a slot. In
`telegram.go:40` the join compares with the `user_id` of a row which has none,
so nothing is left out and the whole UPDATE fails on the unique key; in
`create.go:93-104` the user comes from `users`, so the guard works.

*Abstraction*: MySQL's unique keys are external, known from the ER_DUP_ENTRY
that `submit.go:62` handles. The variables `proved`, `stale` and `dropped` are
history: no action reads them.

### CashLedger (`handler/redpacket/{add,submit,checkout,deposit}.go`, `tools/redpacket`)

The cash of one token. `getTokenCashBalance`, and the copy of it in
`AddHandler`, compute it with a SELECT per term: `SelectIncome`,
`SelectDeposits`, `SelectPackets`, `SelectCheckouts` (which the copy lacks) and
`SelectExpired` add to the request's `sum`, after which `SpendOnPacket`,
`PayOut` or `Refuse` acts on it. `PayOut` and `RecordPayOut` are the send and
the INSERT after it. `Claim`, `Link`, `Expire`, `ViewPacket`, `CheckDeposit`,
`CheckCheckout` change what the sums see; `MineFunding`, `MineDeposit`,
`MineCheckout` are the chain.

*Abstraction*: a slot is worth one unit; how a total is cut is PacketSplit.
Claims and links are one step here, their
statements being in RedPacketClaim. A deposit or a wallet transfer which was
sent and not recorded only adds to what the service holds, so only recorded
ones are modelled; for payouts it is the other way round and both are. A
checkout to the user's own wallet and the checkout fee leave the ledger alone.
Slots are filled before the packet expires: filling takes seconds, expiry three
days. Amounts are integers here and floating point numbers in the code.

### Account, PhoneAuth, Session (`handler/auth`, `handler/user`, `middlewares/jwt`, `utils/twilio`)

*Account*: the three ways to an account (`CreateUser`, `LoginUser`,
`BindPhone`), each a row of `users` and then statements of its own for a row of
`user_wallets`: `LookForWallet`, `InsertWallet`. A request may be cut off between
them. Unique keys on mobile and union id are external.

*PhoneAuth*: `VerifySelect`, `Verified`, `VerifyDelete`, `VerifyInsert` are
`VerifyHandler`, around the external service that sends codes and confirms
them; `CreateHandler` and `ResetPasswordHandler` spend a code; the collector
deletes rows that are three hours old.

*Session*: logging in by password (`LoginPassword`), Telegram (`LoginTelegram`) or
WeChat (`StoreKey`, then `LoginWechat`), `RefreshHandler`, the token's `exp` and
`orig_iat`, and the age of Telegram's credentials. A token
names its user by mobile, or by the key of the WeChat session, of which there is
one per user and app: the next login through the same app replaces it. Left out:
an authorizator that refuses because its query fails, or the account is gone.

### FundGather (`handler/user/fund.go`)

The wallet page. A goroutine per token asks for price and balance and appends
to one slice without a lock. The race is modelled down to the words of the
slice header: `LoadPtr`, `LoadLen`, `LoadCap`, then `StoreCap` and `StorePtr` if
the array grew, `StoreLen`, `StoreElem`. Two assignments to the shared map at a
time may end the process, as the runtime checks for them. Prices read with one
MGET are filed under a key where nobody looks; the error of a new token writes
a second body; arithmetic on the sum of no rows is a nil pointer.

*Abstraction*: the order of the instructions is the compiler's, thus external;
the spelling of an address and a second main wallet are left out. After a write
outside the array anything may happen, and the model stops.

### PacketSplit, BinaryCodec, TokenCode (pure functions)

*PacketSplit*: the amounts of `AddHandler`, `Generate` with its unsigned
integers that wrap and the panic of `Int63n` on an empty range, and the rows
made of its result. Floats are truncated as the conversion does, with amounts
below 2^53 units, beyond which they lose more than one; slots may be zero.

*BinaryCodec*: `utils/binary` byte by byte, the buffer that doubles once, and
links of two or three fields with the tail cut off. A cut link loses trailing
fields only as far as the decoder does not notice. `UpdateLen` is called by
nobody. A slice or map can be longer than its receiver, a text longer than its
count; a map is encoded in any order of its keys. Fields are of the predeclared
types: the type assertions of `encoder.go:69-144` panic on a named one, and no
caller has one.

*TokenCode*: the number drawn for a code, its text in base 62, and the text
typed by a person. Number 0 is shown as nothing. `show.go:104` repeats while the
database is away.

### Lifecycle (`main.go`, `dropper.go`)

Parent and child of a graceful restart. On SIGHUP, endless forks a child, whose
loops start before it asks the parent to stop. `Stop` cancels a context and
waits for the chunk under way, not for the transfers of `sync_drop`; `cancel()`
makes a send under way lose its answer and later calls for a nonce fail. Both
processes pay the same submissions from one wallet. When blocks are mined does
not matter here: a transaction counts when the node has it.

### Sums of models

Models that have no state in common share a run: `Init` of the MC module
chooses a part, which runs alone while the variables of the others rest at a
constant. A property then reads "in this part, ...". MCWallets is WalletNonce
or one of three sizes of CashLedger; MCTracker is Tracker, WalletNonce or
DropPass; MCValues is PacketSplit, BinaryCodec, TokenCode or Session;
MCAirdrops is AirdropDrop, AirdropSetup or, in a run of its own, AirdropMoney;
MCUsers is Account,
PhoneAuth or FundGather. The same device gives one model several sizes:
MCAirdrops pays in chunks or by `sync_drop`, MCRedPacketClaim has two packets or two
identities, MCVerifyCode is busy with requests, links, mail or the bot, MCLifecycle
has one submission or two.

## 3. What is checked

| run | instance | shows |
|---|---|---|
| wallets | two counted senders and a direct one, nonces to 3; two requests of one user, two users, or amounts of two | gaps and replacements come only from overlapping windows or eviction; an overdraft has one of the named causes; every token is counted once, and what is owed is covered up to named leaks |
| airdrops | two submissions, two promoters, one of them with no main wallet at first, one or two, Bob referred by Alice, chunks of 2 or `sync_drop`, one fault, one refusal, one revert; one airdrop with an error, a revert, an eviction and two top-ups or withdrawals | statuses tell the truth, payments are bounded by faults and main wallets, each bonus is paid once up to named causes; the row tells the truth about contract and allowance |
| money | two submissions, three transactions, two prices, a promoter who gets a second main wallet, chunks of 2 or `sync_drop`, two events of the publisher or promoter | by how much statistics and payments differ, and when a payment reverts |
| airdrops_live | no referrer, one promoter with no main wallet at first, one or two, three transactions, one refused send, one revert | a filed submission is settled; a failed one is retried if another is done |
| tracker | three entries, rows by two, an event of each, one restart; two senders; three airdrops in pages of two | causes of loss, refinement of TrackerLedger, the map is always emptied, every call for a nonce ends, every airdrop is reached that newer ones do not crowd out |
| claim | two packets with two slots and one, or two identities; two users, two requests | who may own a slot, why one stays anonymous, an all-taken mark is true |
| code | two requests and a message, by their own links or by those of another airdrop, two messages and a worker, or two workers and an end of the process | refinement of CodeLedger, what the bot says is true, one code per wallet and airdrop, statistics agree, a stop cuts off only late messages |
| code_live | channel, buffer and pool of one, one failure, one end | a message is handled, or lost with the process |
| life | parent and child, one submission and one fault or kill, or two submissions | what is paid twice, a stop waits for its chunk, what becomes of nonces, the process that stays pays the rest |
| values | amounts to 63 at words of 32, five slots; 21 kinds of field; codes to three digits; two users in two apps for five seconds | sums, slots that are empty or missing, links, panics, typed codes, the life of a token |
| codec_test | the assertion of `binary_test.go` | violated: a field that is not exported comes back empty |
| users | three requests for two phones and union ids; two phones and codes; three goroutines on one slice, or any two tokens of a page | who has no wallet or two, what is cached for a phone, what the page shows |

**Bounds.** Two counted senders and a direct one are every pair of kinds of
sender; three nonces (`MaxNonce`) give a gap, its queue and its filling. Two
submissions give a referrer who is a submitter, two promoters, a chunk that is
full and one that is not. A submission is in the way of both rows that two main
wallets make of it and of none; so that the graph stays small, where a promoter
has none or two only his own submission is filed, a promoter gets his first main
wallet first, and runs by `sync_drop` begin with one each (`DropInit`,
`PayoutNext`). Three or four transactions (`MaxTx`, `ChunkTx`, `MaxPayments`)
give a payment, its double, and a retry; chunks, which need fewer, have no
refusal in the airdrops run (`ChunkRefused`) and have it in the liveness run.
`MoneyInit` starts with one main wallet each, takes tokens with four decimals
for `sync_drop`, and its prices are one token, whose bonus rounds to none, and
two, whose bonus is one. None of these restrictions is one of the proofs. One fault, one
refused send, one revert and one eviction (`MaxFaults`, `MaxTrouble`,
`MaxRefused`, `MaxReverts`, `MaxEvicted`) are enough for each promise, as they
are stated relative to the number of faults or say that something went wrong.
`MaxEvents` and `MaxChanges` cap what people do, `MaxStarts` and `MaxEnds` how
often the process starts and ends, `MaxSubs` the submissions of an airdrop in
DropPass, where one done submission is what keeps it eligible. `MaxMsg` is two
messages of one code, the smallest duplicate. Three entries with rows by two
give a full and a partial INSERT in one flush; that an entry is recorded again
while it is being written is covered by the proofs, for any number of events.
`MaxUser` is one row for each request of Account, `MaxSent` two codes on their
way. A second packet lets a conflict in one keep a slot of the other anonymous;
two identities let a user move from one to the other and be followed. Two
requests of one user are the smallest overlap of spends; a second user gives a
claimer who is not the owner. `Word = 32` stands for 2^64: amounts beyond it
wrap and the halves of it make `Int63n` fail. `Byte`, `Cap`, `BlockSize` and
`Base` are small so that lengths cross them from both sides; values are still of
the types of Go, scaled to that byte. `MaxTime` is one more than the longest
life of a token, and `MaxKeys` and `MaxTokens` give a replaced key, a refreshed
token and a third. At a cap, and when every row is used, the model stops, so
deadlock is not checked; what must go on is stated as liveness.

**Fairness.** Calls return or time out, `sync.Mutex` is starvation free, the
loops keep going round, the node settles what it accepted.
- AirdropDrop: weak fairness of each step of the dropper, of the checker and of
  settling; strong fairness of reading a receipt and of the checker's UPDATE, which
  is not refused for ever.
- DropPass: weak fairness of the pass. Lifecycle: of each process's loop and of
  its stopping. Tracker: of the ticker, the final flush, and each flusher's
  INSERT and return while the process is up.
- VerifyCode: weak fairness of fetching, buffering, serving and each step of a
  handler, and of the steps of an end and a restart.
- WalletNonce: weak fairness of the return of a call and of a send; strong
  fairness of `NonceIncr`, which competes for the lock.

A restart, an eviction, a new call, submission or message is never promised, except
that a process which ended is started again in VerifyCode. The
other modules have safety properties only and assume no fairness.

**Where the code falls short of what one would expect**, as the properties say it:
- *Payout.* A give-out may be paid once more for every fault between send and
  record, and for every overlap of two processes. A submission whose promoter
  has two main wallets is two rows, which `sync_drop` pays both, without any
  fault; one whose promoter has none is never paid. Bonuses of `sync_drop` go
  out in transactions that are recorded nowhere, so a submission that is retried
  may earn its bonus again; a submission that shares its wallet with an older
  one earns a bonus in every pass that takes it; a bonus earned by a submitter with a lower id is
  overwritten in chunk mode; promoters of one airdrop collect each other's
  bonuses when their submissions are paid in one pass. A failed submission waits
  until another of the airdrop is new or done. An old airdrop waits for ever
  behind a page of newer finished ones.
- *Budget.* Submissions filed between the COUNT and the SELECT of a pass are
  paid uncounted, and the check of the budget is commented out: a payment may
  find too few tokens and revert.
- *Statistics.* A failed INSERT loses its rows, one the driver repeats counts
  them twice. The checker books the give-out of the time it checks, and a bonus
  for every submission, whatever was paid in its transaction.
- *Codes.* A wallet gets a second code of an airdrop by a link of another one,
  or by two requests at once. An INSERT whose answer is lost ends the process
  with the submission filed.
- *Nonces.* A skipped nonce blocks its wallet.
- *Red packets and cash.* One packet in which a user and his Telegram identity
  both have a slot keeps every anonymous slot of the identity anonymous. A
  packet may be paid from cash that was checked out, as `AddHandler` never reads
  `checkouts`; a claim after expiry takes what was refunded; two requests of a
  user may spend the same cash; a packet can be claimed and refunded though its
  funding never arrived; a payout which is not recorded costs its user nothing.
  The cut of a packet may give slots nothing, or panic in `Int63n`.
- *Shutdown.* On SIGHUP the child's loops run before the parent stops. The wait
  group covers the chunk under way only, and `cancel()` makes a send lose its
  answer. Messages confirmed to Telegram and not handled are gone.
- *Accounts.* A request that is cut off leaves a user without a wallet until he
  logs in with WeChat or binds his phone, which look for one; a login with the
  password never does. Two requests at a time may give him two.
- *Wallet page.* Goroutines that append at once lose tokens, maps
  written at once end the process, as does a sum of no rows. A new token's
  error writes a second body; prices read by MGET are cached under a key nobody
  reads.
- *Links.* The encoder skips fields that are not exported, against
  `binary_test.go` (run codec_test).

Comments and messages which disagree with the code and have no run:
`encoder.go:9` speaks of a length of 2 bytes where 4 are written; messages
about passwords say 8 to 32 characters where 64 are allowed; `token.go:134`
says a code has 1 to 12 characters where at most 10 are.

## 4. What is proved

The constants of every theorem are arbitrary values that satisfy the named
assumptions of its module; TLC evaluates those on each run. Each proof is an
inductive invariant, one step per action, and PTL for the temporal conclusion.

- **WalletNonce** (`WalletsProofs`): `TypeCorrect`, `CounterMonotone`,
  `NoGap`, `NoReplacement`, `GapPermanent`. Monotonicity rests on the lock:
  while a sender is between GET and SET nobody else changes the counter, so what
  it read is still the value. `NoGap` and `NoReplacement` also need that every
  nonce below the node's pending one and not mined is in the pool, and that a
  nonce in a window is the pending one or was just used, unless windows
  overlapped.
- **CashLedger** (`WalletsProofs`): `OverdraftExplained` and `SolventAlways`,
  from `CashInv`, for any finite sets of users, packets, slots and rows. The
  heart is `ReadsInv`: as long as a user is calm (no two of his requests at a
  time, no checkout that goes unseen, no late claim), what a request of his has
  added up is never more than the same SELECTs would give now. What counts for a
  user never gets less and what counts against him never more (`Kept`), except
  by the one request that spends (`OneAtATime`); a late claim takes from a
  packet that is already counted as refunded, which is why it is an excuse.
  `Solvent` regroups the sums of all users by packet and row. Sums are folds
  over sets: `SumCounts` shows that such a fold counts coins, so that any
  element may be added first, and what follows is induction over finite sets
  (`SetsInduct`, `SetsGrow`).
- **AirdropDrop** (`AirdropProofs`), for any main wallets, that come at any time:
  the inductive invariant `IInv` is `TypeOK`, `DropperInv` (`HandsInv`: no payment
  of a pass repeats a row of another, and a submission with one row is owed and
  held once; `SendInv`: the transaction about to be recorded is filed nowhere
  yet), `FiledInv` (a submission with a hash was sent in it; all that share a hash
  share a status), `CheckerInv` (the transaction at hand is settled and its
  submissions are untouched since) and `CountInv` (a counted transaction is not about
  to be recorded again, and what is still on file for it is done). Without the last
  two `CountedOnce` is not inductive: a second pass over a counted transaction has
  to be impossible, and is because none of its submissions is open. From it: `TruthfulStatus`, `StatisticsOnce`, `StatusesAreLegal`.
  `BonusesAreEarned` needs that main wallets only grow (`EarnerInv`).
  `PaymentsAreBounded` has two halves. For a submission with one row, its payments
  but the one on file and the one in hand are lost, and each has used up a fault
  of its own (`BoundInv`). For one with several, `LoadInv` bounds what the chain has
  of it and the pass still plans by its main wallets times one more than the
  setbacks, and by one time less once a setback has made it owed again; the same
  bound, for bonuses, is half of `BonusesArePaidOnce`. The other half is `KeptInv`:
  while nothing goes wrong, a submission that was treated is paid a bonus, or has
  one planned, or an excuse. What a plan does with a row is stated once, for any
  rows, chunk size and mode (`GoodPlan`).
- **AirdropMoney** (`AirdropProofs`): `BookedExplained` and `RevertsExplained`,
  from `MoneyInv`, for any prices, bonus, decimals, submissions and main wallets,
  in chunks of any size or by `sync_drop`. `PriceOk` says that a payment moves what
  its price, its give-outs and its bonuses come to, and that one which is neither
  repriced nor booked has the row's price; `FileOk` that the submissions recorded
  for a transaction are all it gave to until its receipt is booked; `GiveOk` that
  it gives to each once; so `BookOk` knows what was booked, and the rest is
  arithmetic with divisions that leave nothing (`BookedAmounts`). `PassOk` numbers
  the payments of a pass and keeps what they pay apart, and `CoverOk` says that a
  pass which had enough, had not grown and was not robbed still has enough for
  what it is about to plan, for its payments that wait and for what it has to
  send: together they pay no more rows, and no more bonuses, than it counted
  (`PlanSize`, `DueSplits`).
- **AirdropSetup** (`AirdropProofs`): `ContractsAreTrue` and
  `ShortfallsExplained`, from `SetupInv`. A loop decides by columns it read with
  its page; `SeenInv` says that for the airdrops it has still to treat they are
  what the row says, as nobody else writes them. `DeployInv` counts the
  deployments of an airdrop: one is recorded, or about to be, and each other
  one used up a fault. `ApproveInv` says that an approval is for the contract
  its airdrop has, so a contract that is not recorded yet may spend nothing.
  `AllowInv` is why a payment between the two reads of the checker does no harm:
  until the wallet is filled up its tokens only become fewer, an allowance that
  is positive covers them all, and a payment takes from both.
- **Tracker** (`TrackerProofs`): `TypeCorrect`, `Conservation`, `LossExplained`
  and the refinement `ImplementsLedger`, with INSERTs that the driver repeats.
- **RedPacketClaim** (`RedPacketClaimProofs`): `TypeCorrect`, `OwnersStay`,
  `OwnersHaveTitle`, `OrphansExplained`, `AllTakenSound`. Every step is one of
  four kinds for the slots (`SlotStep`: nothing, a user takes one, an identity
  takes one, anonymous ones are given to a user), from which nothing is ever
  taken away. That makes what `ShowHandler` counted stay true until it writes
  (`MarkInv`), and a conflict, once there, stays. `ProvedInv` says that whoever
  is linked, or is being given slots, was linked to that identity; it carries
  `OwnerHasTitle` and the conflict that an UPDATE which fails leaves behind.
- **VerifyCode** (`VerifyCodeProofs`): the refinement `ImplementsLedger`, and
  `TypeCorrect`, `FiledOnce`, `FilingSettles`, `WalletOnce`, `ToldTheTruth`,
  `StopCutsLate`, `CountsTheFiled`. `BaseInv` relates a message's place to what its
  worker holds; `CodeInv` and `HandInv` say that a worker between SELECT and
  UPDATE read what the row was, and that only an overlap, or an INSERT or UPDATE
  that lost its answer, lets two workers file one code; `WalletInv` that a code of
  a wallet is the first of its airdrop, unless two requests for both were under
  way at once or it was bound by a link of another airdrop; `Told` keeps what a reply claims true until it is sent; `RetInv` and
  `CountInv` count for each submission the row of statistics it still owes.
- **Lifecycle** (`LifecycleProofs`): `TypeCorrect`, `StopIsOrderly`, `OneLateSend`,
  `NoncesNeedOverlap`, `SecondPaymentsExplained`. `StopInv` says that a process
  past its wait has no chunk at work, `CancelInv` that a cancelled one sends at
  most what it was sending. `NonceInv` orders the nonces in use while processes
  do not overlap. `PayInv` gives every payment of a submission a place: recorded, in
  hand, or lost for a cause; two in one place contradict `HeldInv`, by a
  pigeonhole lemma on cardinalities.
- **PacketSplit, Session** (`ValuesProofs`): of a packet `TypeCorrect`,
  `SplitKeepsSum`, `SplitFeedsAll`, `SplitWorth`: with whatever
  width of integers, what slots hold and what is left add up to the total unless
  it wrapped, each slot gets something when there is enough for all, and the loop
  ends without a panic then. `TokensLive` is about tokens: one that is refused
  before its time was replaced by a later login of its user through the same
  app, or names nobody; and a refreshed token keeps the time of its login, so
  none outlives `MaxRefresh` and `Timeout` after it.
- **TokenCode** (`ValuesProofs`): `CodesReadAsIssued`, for every base, length of
  codes and width of the word. Reading is Horner's rule (`Horner`), which wraps
  nowhere because `MaxLen` digits stay below the word (`NumberBelow`,
  `TokenAssumption`); every text is the code of its number with zeros in front
  (`NumberWritten`), and so read back (`NumberRead`).
- **BinaryCodec** (`ValuesProofs`): `LinksAreRead` and `PanicsHaveCause`, from
  `CodecInv`. `InPlace` says that the fields encoded so far lie in the buffer
  one after the other, each as `Lies` describes its kind; a larger buffer and
  later fields disturb nothing before them (`GrownFacts`, `InPlaceStays`), and a
  cut leaves the beginning (`Same`). `GetFacts` reads each kind where it lies:
  numbers by Euclid's division digit by digit (`DigitStep`, `DigitSum`), two's
  complement by `NumberBack`, lists by the recursive functions that wrote them.
  After a count that was too large nothing is claimed, and a read past the end
  can only be that of a text, which no exported field can follow (`ReadBack`).
  Assumed are a byte of at least two values, a first buffer of at least a word
  and values that fit their Go types. That a slice may outgrow the 4 bytes of
  its count is an exception which only the proof shows: TLC cannot hold so long
  a slice.
- **Account, PhoneAuth, FundGather** (`UsersProofs`): `SumSafe`, that the sum of
  the three keeps the invariants of all, and from it `WalletForEveryUser`,
  `ConfirmedCodes`, `RaceLosesOnly`. `AccountInv` tells for each
  row of users which requests still have to write its wallet (`WorkInv`,
  `WantInv`) and that a request alone with its row writes once (`AloneInv`).
  `CallInv` says what a verification between its SELECT and INSERT knows of the
  one cached code. `FundInv` is about the race on the slice header: `ArrayInv`
  and `LengthInv` say what each goroutine between two words of the header may
  have read, `TurnInv` that with one goroutine at a time nothing is lost; the
  steps that do not append leave all of it alone (`Outside`).

**Induction over data**: recursive definitions are recursive functions, and the
library's induction theorems, which take an operator, are replaced by ones about
sets of numbers or of sets (`NatInduct`, `NatStrong`, `Recursion`,
`SetsInduct`), derived from the least element of a well-founded order.

**Only model-checked**: all liveness properties (`airdrops_live`, `code_live`,
and those of Tracker, WalletNonce, DropPass and Lifecycle), which need ENABLED, and the
violated assertion of `codec_test`. Every safety property of the passing
runs is stated by a theorem.

## 5. Done and left

Done: the models of section 2 with their runs, and the proofs of section 4.

Left:
- Hazards without a property: a failed deployment, and a sum of no rows on the
  wallet page. That a receipt read again is not counted again is proved and not
  a property of a run. Not listed, as they do no harm here: a row of `airdrop_tx`
  collected before its submissions are updated, which nobody misses, and the loop
  of `show.go:104`, which ends once the database answers.
- A payout with the LIMIT 1000, where two pages of one airdrop may take a
  different promoter's wallet for the bonuses.

**Not modelled**, and not planned: the generated contract bindings and the
clients of Ethereum explorers, exchanges, SMS, mail and WeChat (external, met
only through their answers); token pages and price lookups (reads of external
data); routing and middleware but for the tokens; configuration and plain
records; trial programs; handlers that are one statement (adzones, channels,
lists, avatars, the export of a key); the checkout to the user's own wallet and
its fee; the reset of a password by e-mail; calls to cipher and hash libraries;
the LIMIT 1000 of a pass, whose remainder waits for the next one; amounts above
2^53 units; values of named types in a link; accounts that are deactivated or
gone while their tokens live.
