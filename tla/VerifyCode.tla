----------------------------- MODULE VerifyCode -----------------------------
(***************************************************************************)
(* A verification code from its issue to the submission: the web handlers  *)
(* that issue it and bind it to a wallet (handler/promotion/show.go and    *)
(* submit.go), the Telegram bot that turns a message with the code into a  *)
(* submission (tools/telegram/bot.go), and the collector of old codes      *)
(* (tools/gc).                                                             *)
(*                                                                         *)
(* A message goes from Telegram through the channel of the library and the *)
(* bot's buffer to one of a pool of workers; it is confirmed to Telegram   *)
(* when the library asks for more, handled or not.  A code is a random     *)
(* number of 62^9, so one that was deleted is not issued again.            *)
(***************************************************************************)
EXTENDS Integers, FiniteSets

CONSTANTS
    Code, Wallet, Member, Request, Airdrop,
    AirdropOf,    \* the airdrop a code is issued for, codes.airdrop_id
    Admin,        \* members whose name is telegram_admin
    None,         \* no code, no wallet, no airdrop, nobody
    MaxMsg,       \* bound: messages
    ChannelSize,  \* capacity of UpdatesCh: 1000 in the code
    BufSize,      \* capacity of messageBuf: 1000
    PoolSize,     \* workers: 500
    MaxFaults,    \* bound: statements that fail
    MaxEnds       \* bound: ends of the process

ASSUME NameAssumption ==
    /\ None \notin Code \union Wallet \union Member \union Airdrop
    /\ Admin \subseteq Member /\ AirdropOf \in [Code -> Airdrop]
ASSUME SizeAssumption ==
    /\ {ChannelSize, BufSize, PoolSize} \subseteq Nat \ {0}
    /\ {MaxMsg, MaxFaults, MaxEnds} \subseteq Nat

VARIABLES
    code,     \* the codes table
    filed,    \* the airdrop_submissions table
    listed,   \* the airdrop_wallets table
    req,      \* requests to submit.go under way
    msg,      \* the messages
    phase,    \* of the process
    counted,  \* submissions the tracker was told of
    count,    \* history: faults and ends so far
    raced,    \* history: wallets submitted to an airdrop twice at the same time
    stray,    \* history: codes bound by a link of another airdrop
    doubt,    \* history: codes handled twice at the same time, cut, swept, or
              \* whose INSERT lost its answer
    unfiled   \* history: codes for which the INSERT failed

tables == <<code, filed, listed>>
history == <<count, raced, stray, doubt, unfiled>>
vars == <<tables, req, msg, phase, counted, history>>

Msgs == 1..MaxMsg

(* A deleted row keeps its wallet, for the record; old is updated more     *)
(* than a day ago.                                                         *)
Rows == [status : {"none", "issued", "bound", "filed", "deleted"},
         wallet : Wallet \union {None}, old : BOOLEAN]

(* late: handed to the pool after Stop had stopped waiting; ret is what    *)
(* the INSERT returned.                                                    *)
Messages == [code : Code \union {None}, member : Member \union {None}, inGroup : BOOLEAN,
             at : {"unsent", "chat", "channel", "buffer", "serving", "insert", "update", "count",
                   "done", "lost"},
             confirmed : BOOLEAN, late : BOOLEAN,
             wallet : Wallet \union {None}, ret : {"none", "one", "zero", "nil"}]

(* airdrop is the one of the promotion's link the request came by.         *)
Requests == [step : {"idle", "update", "list"}, code : Code \union {None},
             wallet : Wallet \union {None}, airdrop : Airdrop \union {None}]

TypeOK ==
    /\ code \in [Code -> Rows]
    /\ filed \subseteq [id : Nat, code : Code, wallet : Wallet, member : Member]
    /\ listed \subseteq Airdrop \X Wallet
    /\ req \in [Request -> Requests]
    /\ msg \in [Msgs -> Messages]
    /\ phase \in {"up", "waiting", "clearing", "down"}
    /\ counted \in Nat
    /\ count \in [{"fault", "end"} -> Nat]
    /\ raced \subseteq Airdrop \X Wallet
    /\ stray \subseteq Code /\ doubt \subseteq Code /\ unfiled \subseteq Code

-----------------------------------------------------------------------------
(* Helpers. *)

Limit(what) == IF what = "fault" THEN MaxFaults ELSE MaxEnds
Counting(what) == count[what] < Limit(what) /\ count' = [count EXCEPT ![what] = @ + 1]

At(place) == {m \in Msgs : msg[m].at = place}
First(place, m) == m \in At(place) /\ \A n \in At(place) : m <= n
Working == At("insert") \union At("update") \union At("count")
Handled == At("serving") \union Working   \* the WaitGroup counts these

Idle == [step |-> "idle", code |-> None, wallet |-> None, airdrop |-> None]
Move(m, place) == msg' = [msg EXCEPT ![m].at = place]
Finish(r) == [r EXCEPT !.at = "done", !.late = FALSE, !.wallet = None, !.ret = "none"]
Answer(m) == msg' = [msg EXCEPT ![m] = Finish(@)]

(* The process ends: Telegram sends again what was not confirmed.          *)
AfterEnd(r) ==
    LET left == [r EXCEPT !.late = FALSE, !.wallet = None, !.ret = "none"]
    IN IF r.at \in {"unsent", "chat"} THEN r
       ELSE IF ~r.confirmed THEN [left EXCEPT !.at = "chat"]
       ELSE IF r.at = "done" THEN r ELSE [left EXCEPT !.at = "lost"]

Cut == {msg[m].code : m \in {n \in At("update") : msg[n].ret = "one"}}

Ends ==
    /\ msg' = [m \in Msgs |-> AfterEnd(msg[m])]
    /\ req' = [r \in Request |-> Idle]
    /\ phase' = "down"
    /\ doubt' = doubt \union Cut

-----------------------------------------------------------------------------
(* The web.  Whether the airdrop is open, funded and below its limit of    *)
(* submissions decides if a view issues a code; here it may or may not.    *)

Issue(c) ==
    /\ phase = "up" /\ code[c].status = "none"
    /\ code' = [code EXCEPT ![c].status = "issued"]
    /\ UNCHANGED <<filed, listed, req, msg, phase, counted, history>>

Asks(r, a, w) == req[r].step = "update" /\ req[r].airdrop = a /\ req[r].wallet = w

SubmitSelectBoundOnly(r, c, w, a) ==
    /\ phase = "up" /\ req[r].step = "idle" /\ code[c].status # "none"
    /\ \A d \in Code : AirdropOf[d] # a \/ code[d].status # "bound" \/ code[d].wallet # w
    /\ req' = [req EXCEPT ![r] = [step |-> "update", code |-> c, wallet |-> w, airdrop |-> a]]
    /\ raced' = IF \E q \in Request : Asks(q, a, w) THEN raced \union {<<a, w>>} ELSE raced
    /\ UNCHANGED <<tables, msg, phase, counted, count, stray, doubt, unfiled>>

(* The SELECT of a code the wallet has in the airdrop of the link; one     *)
(* found is the reply.  The request's own code may be of another airdrop.  *)
SubmitSelect(r, c, w, a) ==
    /\ phase = "up" /\ req[r].step = "idle" /\ code[c].status # "none"
    /\ \A d \in Code : AirdropOf[d] # a \/ code[d].status = "deleted" \/ code[d].wallet # w
    /\ req' = [req EXCEPT ![r] = [step |-> "update", code |-> c, wallet |-> w, airdrop |-> a]]
    /\ raced' = IF \E q \in Request : Asks(q, a, w) THEN raced \union {<<a, w>>} ELSE raced
    /\ UNCHANGED <<tables, msg, phase, counted, count, stray, doubt, unfiled>>

Bind(r) ==
    /\ code' = [code EXCEPT ![req[r].code] =
                    [@ EXCEPT !.status = "bound", !.wallet = req[r].wallet, !.old = FALSE]]
    /\ stray' = IF AirdropOf[req[r].code] = req[r].airdrop THEN stray
                ELSE stray \union {req[r].code}

SubmitUpdateAnyCode(r) ==
    /\ req[r].step = "update"
    /\ IF code[req[r].code].status \in {"issued", "bound"} THEN Bind(r)
       ELSE UNCHANGED <<code, stray>>
    /\ req' = [req EXCEPT ![r].step = "list"]
    /\ UNCHANGED <<filed, listed, msg, phase, counted, count, raced, doubt, unfiled>>

(* UPDATE ... WHERE id AND status=0, whatever the airdrop of the code is;  *)
(* nobody looks at the rows it matched.                                    *)
SubmitUpdate(r) ==
    /\ req[r].step = "update"
    /\ IF code[req[r].code].status = "issued" THEN Bind(r) ELSE UNCHANGED <<code, stray>>
    /\ req' = [req EXCEPT ![r].step = "list"]
    /\ UNCHANGED <<filed, listed, msg, phase, counted, count, raced, doubt, unfiled>>

SubmitUpdateFails(r) ==
    /\ req[r].step = "update" /\ Counting("fault")
    /\ req' = [req EXCEPT ![r] = Idle]
    /\ UNCHANGED <<tables, msg, phase, counted, raced, stray, doubt, unfiled>>

(* An error of this INSERT is logged and forgotten. *)
SubmitList(r) ==
    /\ req[r].step = "list"
    /\ \/ listed' = listed \union {<<req[r].airdrop, req[r].wallet>>} /\ UNCHANGED count
       \/ Counting("fault") /\ UNCHANGED listed
    /\ req' = [req EXCEPT ![r] = Idle]
    /\ UNCHANGED <<code, filed, msg, phase, counted, raced, stray, doubt, unfiled>>

-----------------------------------------------------------------------------
(* The collector. *)

DayPasses(c) ==
    /\ code[c].status \in {"issued", "bound"} /\ ~code[c].old
    /\ code' = [code EXCEPT ![c].old = TRUE]
    /\ UNCHANGED <<filed, listed, req, msg, phase, counted, history>>

Sweep(old) ==
    /\ phase # "down" /\ old # {}
    /\ code' = [c \in Code |-> IF c \in old THEN [code[c] EXCEPT !.status = "deleted", !.old = FALSE]
                               ELSE code[c]]
    /\ doubt' = doubt \union {c \in old : \E m \in Working : msg[m].code = c}
    /\ UNCHANGED <<filed, listed, req, msg, phase, counted, count, raced, stray, unfiled>>

verifyCodesRecycle == Sweep({c \in Code : code[c].status # "filed" /\ code[c].old})

-----------------------------------------------------------------------------
(* From Telegram to the workers. *)

web == <<tables, req, counted>>

(* In the group of the airdrop or not: of interest only with a code.       *)
Post(m, c, u, g) ==
    /\ msg[m].at = "unsent" /\ \A n \in Msgs : n < m => msg[n].at # "unsent"
    /\ IF c = None THEN ~g ELSE code[c].status # "none"
    /\ msg' = [msg EXCEPT ![m] = [@ EXCEPT !.at = "chat", !.code = c, !.member = u, !.inGroup = g]]
    /\ UNCHANGED <<web, phase, history>>

Fetch(m) ==
    /\ phase # "down" /\ First("chat", m) /\ Cardinality(At("channel")) < ChannelSize
    /\ Move(m, "channel")
    /\ UNCHANGED <<web, phase, history>>

(* The library asks for what follows the last message it passed on.        *)
Confirm ==
    /\ phase # "down"
    /\ \E m \in Msgs : msg[m].at \notin {"unsent", "chat"} /\ ~msg[m].confirmed
    /\ msg' = [m \in Msgs |-> [msg[m] EXCEPT !.confirmed = msg[m].at \notin {"unsent", "chat"}]]
    /\ UNCHANGED <<web, phase, history>>

MessageConsumer(m) ==
    /\ phase # "down" /\ First("channel", m)
    /\ IF msg[m].code = None THEN Answer(m)
       ELSE Cardinality(At("buffer")) < BufSize /\ Move(m, "buffer")
    /\ UNCHANGED <<web, phase, history>>

(* wg.Add, then Serve, which blocks while all workers are busy.            *)
Serve(m) ==
    /\ phase # "down" /\ First("buffer", m) /\ Cardinality(Handled) <= PoolSize
    /\ msg' = [msg EXCEPT ![m] = [@ EXCEPT !.at = "serving", !.late = phase = "clearing"]]
    /\ UNCHANGED <<web, phase, history>>

-----------------------------------------------------------------------------
(* VerifyCodeHandler in a worker. *)

VerifySelectNoDone(m) ==
    LET c == msg[m].code IN
    /\ msg[m].at = "serving" /\ Cardinality(Working) < PoolSize
    /\ msg[m].inGroup /\ code[c].status = "bound"
    /\ msg' = [msg EXCEPT ![m] = [@ EXCEPT !.at = "insert", !.wallet = code[c].wallet]]
    /\ doubt' = IF \E n \in Working : msg[n].code = c THEN doubt \union {c} ELSE doubt
    /\ UNCHANGED <<web, phase, count, raced, stray, unfiled>>

(* SELECT the code: one that is bound, sent in the airdrop's group, goes on. *)
VerifySelect(m) ==
    LET c == msg[m].code IN
    /\ msg[m].at = "serving" /\ Cardinality(Working) < PoolSize
    /\ IF msg[m].inGroup /\ code[c].status = "bound"
       THEN /\ msg' = [msg EXCEPT ![m] = [@ EXCEPT !.at = "insert", !.wallet = code[c].wallet]]
            /\ doubt' = IF \E n \in Working : msg[n].code = c THEN doubt \union {c} ELSE doubt
       ELSE Answer(m) /\ UNCHANGED doubt
    /\ UNCHANGED <<web, phase, count, raced, stray, unfiled>>

(* The reply "internal server bug" is overwritten: there are no rows.      *)
VerifySelectFails(m) ==
    /\ msg[m].at = "serving" /\ Cardinality(Working) < PoolSize /\ Counting("fault")
    /\ Answer(m)
    /\ UNCHANGED <<web, phase, raced, stray, doubt, unfiled>>

(* The unique key on airdrop and Telegram user, NULL for an admin. *)
Duplicate(c, u) ==
    u \notin Admin /\ \E s \in filed : s.member = u /\ AirdropOf[s.code] = AirdropOf[c]

(* INSERT IGNORE. *)
Insert(m) ==
    filed' = IF Duplicate(msg[m].code, msg[m].member) THEN filed
             ELSE filed \union {[id |-> Cardinality(filed) + 1, code |-> msg[m].code,
                                 wallet |-> msg[m].wallet, member |-> msg[m].member]}

VerifyInsert(m) ==
    /\ msg[m].at = "insert" /\ Insert(m)
    /\ msg' = [msg EXCEPT ![m].at = "update",
                          ![m].ret = IF Duplicate(msg[m].code, msg[m].member) THEN "zero" ELSE "one"]
    /\ UNCHANGED <<code, listed, req, phase, counted, history>>

VerifyInsertFails(m) ==
    /\ msg[m].at = "insert" /\ Counting("fault")
    /\ msg' = [msg EXCEPT ![m].at = "update", ![m].ret = "nil"]
    /\ unfiled' = unfiled \union {msg[m].code}
    /\ UNCHANGED <<web, phase, raced, stray, doubt>>

(* The database took the INSERT, but its answer is lost: an error too.     *)
VerifyInsertLosesAnswer(m) ==
    /\ msg[m].at = "insert" /\ Insert(m) /\ Counting("fault")
    /\ msg' = [msg EXCEPT ![m].at = "update", ![m].ret = "nil"]
    /\ doubt' = doubt \union {msg[m].code}
    /\ UNCHANGED <<code, listed, req, phase, counted, raced, stray, unfiled>>

SettledAll(m) == code' = [c \in Code |->
    IF code[c].status \in {"none", "issued", "deleted"} THEN code[c]
    ELSE [code[c] EXCEPT !.status = "filed", !.old = FALSE]]

Settled(m) == code' = [code EXCEPT ![msg[m].code] =
    IF @.status = "deleted" THEN @ ELSE [@ EXCEPT !.status = "filed", !.old = FALSE]]

VerifyUpdateCountsAll(m) ==
    /\ msg[m].at = "update" /\ msg[m].ret # "nil" /\ Settled(m) /\ Move(m, "count")
    /\ UNCHANGED <<filed, listed, req, phase, counted, history>>

(* UPDATE ... SET status=2, then AffectedRows of the INSERT, which is nil  *)
(* if that failed: the panic ends the process.                             *)
VerifyUpdate(m) ==
    /\ msg[m].at = "update" /\ msg[m].ret # "nil" /\ Settled(m)
    /\ IF msg[m].ret = "one" THEN Move(m, "count") ELSE Answer(m)
    /\ UNCHANGED <<filed, listed, req, phase, counted, history>>

VerifyUpdatePanics(m) ==
    /\ msg[m].at = "update" /\ msg[m].ret = "nil" /\ Settled(m) /\ Ends
    /\ UNCHANGED <<filed, listed, counted, count, raced, stray, unfiled>>

VerifyUpdateFails(m) ==
    /\ msg[m].at = "update" /\ Counting("fault") /\ Answer(m)
    /\ doubt' = IF msg[m].ret = "one" THEN doubt \union {msg[m].code} ELSE doubt
    /\ UNCHANGED <<web, phase, raced, stray, unfiled>>

(* Tracker.Submission, after the links were made, and the reply. *)
VerifyCount(m) ==
    /\ msg[m].at = "count" /\ counted' = counted + 1 /\ Answer(m)
    /\ UNCHANGED <<tables, req, phase, history>>

-----------------------------------------------------------------------------
(* The process. *)

Stop ==
    /\ phase = "up" /\ Counting("end") /\ phase' = "waiting"
    /\ UNCHANGED <<web, msg, raced, stray, doubt, unfiled>>

StopAtOnce ==
    /\ phase = "waiting" /\ phase' = "clearing"
    /\ msg' = [m \in Msgs |-> IF m \in At("channel") THEN [msg[m] EXCEPT !.at = "lost"] ELSE msg[m]]
    /\ UNCHANGED <<web, history>>

(* wg.Wait returns; UpdatesCh.Clear throws away what is in the channel.    *)
StopWait ==
    /\ phase = "waiting" /\ Handled = {} /\ phase' = "clearing"
    /\ msg' = [m \in Msgs |-> IF m \in At("channel") THEN [msg[m] EXCEPT !.at = "lost"] ELSE msg[m]]
    /\ UNCHANGED <<web, history>>

(* main returns after the other loops were told to stop. *)
Exit ==
    /\ phase = "clearing" /\ Ends
    /\ UNCHANGED <<tables, counted, count, raced, stray, unfiled>>

Crash ==
    /\ phase # "down" /\ Counting("end") /\ Ends
    /\ UNCHANGED <<tables, counted, raced, stray, unfiled>>

Restart ==
    /\ phase = "down" /\ phase' = "up"
    /\ UNCHANGED <<web, msg, history>>

-----------------------------------------------------------------------------
Init ==
    /\ code = [c \in Code |-> [status |-> "none", wallet |-> None, old |-> FALSE]]
    /\ filed = {} /\ listed = {}
    /\ req = [r \in Request |-> Idle]
    /\ msg = [m \in Msgs |-> [code |-> None, member |-> None, inGroup |-> FALSE, at |-> "unsent",
                              confirmed |-> FALSE, late |-> FALSE, wallet |-> None, ret |-> "none"]]
    /\ phase = "up" /\ counted = 0
    /\ count = [what \in {"fault", "end"} |-> 0]
    /\ raced = {} /\ stray = {} /\ doubt = {} /\ unfiled = {}

Submit(r) ==
    \/ \E c \in Code, w \in Wallet, a \in Airdrop : SubmitSelect(r, c, w, a)
    \/ SubmitUpdate(r) \/ SubmitUpdateFails(r) \/ SubmitList(r)

VerifyCodeHandler(m) ==
    \/ VerifySelect(m) \/ VerifySelectFails(m)
    \/ VerifyInsert(m) \/ VerifyInsertFails(m) \/ VerifyInsertLosesAnswer(m)
    \/ VerifyUpdate(m) \/ VerifyUpdatePanics(m) \/ VerifyUpdateFails(m)
    \/ VerifyCount(m)

Deliver(m) == Fetch(m) \/ MessageConsumer(m) \/ Serve(m)

Next ==
    \/ \E c \in Code : Issue(c) \/ DayPasses(c)
    \/ \E r \in Request : Submit(r)
    \/ verifyCodesRecycle
    \/ \E m \in Msgs : \/ \E c \in Code \union {None}, u \in Member, g \in BOOLEAN : Post(m, c, u, g)
                       \/ Deliver(m) \/ VerifyCodeHandler(m)
    \/ Confirm
    \/ Stop \/ StopWait \/ Exit \/ Crash \/ Restart

Spec == Init /\ [][Next]_vars

(* The goroutines of the bot and its library keep running, main goes on    *)
(* once it has begun to stop, and somebody starts the process again.       *)
Fairness ==
    /\ WF_vars(\E m \in Msgs : Fetch(m)) /\ WF_vars(\E m \in Msgs : MessageConsumer(m))
    /\ WF_vars(\E m \in Msgs : Serve(m))
    /\ \A m \in Msgs : WF_vars(VerifyCodeHandler(m))
    /\ WF_vars(Confirm) /\ WF_vars(StopWait) /\ WF_vars(Exit) /\ WF_vars(Restart)
FairSpec == Spec /\ Fairness

-----------------------------------------------------------------------------
(* Properties. *)

(* A code is good for one submission, although two messages with it are    *)
(* handled by two workers and each reads its status before it writes: only *)
(* codes two workers had in hand at once, or one whose INSERT or UPDATE    *)
(* lost its answer or its process, are filed twice.                        *)
OnePerCode ==
    \A c \in Code \ doubt : \A s, t \in filed : s.code = c /\ t.code = c => s = t

(* The bot tells the member of a filed code that his airdrop is in the     *)
(* pool.  It is, unless the INSERT failed, or was ignored because someone  *)
(* who had already filed sent the code.                                    *)
FiledIsTrue ==
    \A c \in Code \ unfiled :
        code[c].status = "filed" =>
            \/ \E s \in filed : s.code = c
            \/ \E m \in Msgs : msg[m].code = c /\ Duplicate(c, msg[m].member)

(* Once a submission is filed its code is used up: the collector, a late   *)
(* request or another message cannot make it usable again.                 *)
FiledIsSettled ==
    \A s \in filed : \/ s.code \in doubt \/ code[s.code].status = "filed"
                     \/ \E m \in At("update") : msg[m].code = s.code

(* A wallet has two codes of an airdrop only if it was submitted twice at  *)
(* the same time, or if one of them was bound by a link of another airdrop *)
(* (submit.go:75 asks for the airdrop of the link, :98 binds any code).    *)
OneCodePerWallet ==
    \A c, d \in Code \ stray :
        /\ AirdropOf[c] = AirdropOf[d] /\ code[c].wallet = code[d].wallet
        /\ code[c].status \in {"bound", "filed"} /\ code[d].status \in {"bound", "filed"}
        /\ <<AirdropOf[c], code[c].wallet>> \notin raced
        => c = d

(* Statistics never run ahead of the submissions, and lag behind them only *)
(* by what a worker has in hand unless something failed or ended.          *)
InHand == {m \in Msgs : msg[m].ret = "one"}
CountedRight ==
    /\ counted + Cardinality(InHand) <= Cardinality(filed)
    /\ count["fault"] + count["end"] = 0 => counted + Cardinality(InHand) = Cardinality(filed)

(* Stop cuts no message in two that was in hand when it began to wait: the *)
(* workers it leaves behind got theirs after Wait returned.                *)
StopCutsOnlyLate == phase = "clearing" => \A m \in Handled : msg[m].late

(* Every message is handled, or lost with the process. *)
MessageEnds == \A m \in Msgs : msg[m].at = "chat" ~> msg[m].at \in {"done", "lost"}

(* The codes and submissions implement what CodeLedger promises: requests  *)
(* and workers, acting on rows they read earlier, never give a code a      *)
(* second wallet, file for another wallet than the code's, file twice for  *)
(* a member of an airdrop's group, or bring a settled code back.           *)
Settlement(c) ==
    IF code[c].status = "filed" THEN "settled"
    ELSE IF code[c].status = "deleted" THEN "expired" ELSE "open"
Filing(s) == [code |-> s.code, wallet |-> s.wallet, member |-> s.member]

Promise == INSTANCE CodeLedger WITH
    Free <- None,
    owner <- [c \in Code |-> code[c].wallet],
    state <- [c \in Code |-> Settlement(c)],
    filings <- {Filing(s) : s \in filed}
KeepsPromise == Promise!Spec
=============================================================================
