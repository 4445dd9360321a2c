------------------------------ MODULE Lifecycle ------------------------------
(***************************************************************************)
(* The life of the process (main.go) as the payout loop sees it            *)
(* (tools/airdrop/dropper.go): started, asked to stop, and replaced by a   *)
(* child that runs its own loops over the same tables, the same counter in *)
(* redis and the same wallet while the parent still drains.                *)
(*                                                                         *)
(* One airdrop with one wallet.  A pass pays batches of submissions: a     *)
(* chunk through the dealer contract, or one submission with sync_drop.    *)
(* The mutex around the counter is one per process, so it appears here     *)
(* only as the order of a process's own steps.  The HTTP server (endless), *)
(* redis, MySQL and the node are external.                                 *)
(***************************************************************************)
EXTENDS Integers, Sequences, FiniteSets

CONSTANTS
    Process,    \* processes over time; Parent is the first
    Parent,
    Sub,        \* submissions of the airdrop
    ChunkSize,  \* recipients of one transaction: 10 in the code
    MaxTx,      \* bound: transactions
    MaxTrouble  \* bound: failed calls and statements, processes killed

ASSUME ProcessAssumption == Parent \in Process /\ IsFiniteSet(Sub)
ASSUME BoundAssumption ==
    ChunkSize \in Nat \ {0} /\ MaxTx \in Nat /\ MaxTrouble \in Nat

VARIABLES
    sync,     \* sync_drop of the airdrop
    proc,     \* each process: how far its main is, stopCh, the loop's context
    drop,     \* its payout loop
    filed,    \* table: the submissions with status 1 and a transaction's hash
    saved,    \* redis: the counter of the wallet
    txs,      \* node: transactions in the order they arrived
    trouble,  \* history: faults and kills so far
    cut,      \* history: who lost the record of a payment, and how
    shared,   \* history: submissions two processes held at the same time
    met,      \* history: two processes were between reading a nonce and INCR
    late      \* history: transactions of a process after its cancel()

shop == <<filed, saved, txs>>
history == <<trouble, cut, shared, met, late>>
vars == <<sync, proc, drop, shop, history>>

Window == {"ask", "set", "send", "incr"}
Chunk == Window \union {"get", "file"}
Tx == [nonce : Nat, subs : SUBSET Sub, replaced : BOOLEAN]
Main == [phase : {"off", "up", "drain", "wait", "released", "gone"},
         stop : BOOLEAN, cancelled : BOOLEAN]
Dropper == [step : {"off", "sleep", "select", "next", "ended"} \union Chunk,
            todo : SUBSET Sub, batch : SUBSET Sub, nonce : Nat, pending : Nat, late : BOOLEAN]

TypeOK ==
    /\ sync \in BOOLEAN
    /\ proc \in [Process -> Main] /\ drop \in [Process -> Dropper]
    /\ filed \subseteq Sub /\ saved \in Nat
    /\ txs \in Seq(Tx) /\ Len(txs) <= MaxTx
    /\ trouble \in Nat
    /\ cut \subseteq Sub \X {"kill", "late", "sync", "early", "fault"}
    /\ shared \subseteq Sub /\ met \in BOOLEAN /\ late \in [Process -> Nat]

-----------------------------------------------------------------------------
(* Helpers. *)

Runs(p) == proc[p].phase \notin {"off", "gone"}
Held(p) == drop[p].todo \union drop[p].batch

Live(n) == {i \in DOMAIN txs : txs[i].nonce = n /\ ~txs[i].replaced}

(* PendingNonceAt: the first nonce without a transaction. *)
PendingNonceAt == CHOOSE n \in 0..MaxTx : Live(n) = {} /\ \A m \in 0..(n - 1) : Live(m) # {}

Idle == [step |-> "off", todo |-> {}, batch |-> {}, nonce |-> 0, pending |-> 0, late |-> FALSE]
Started == [Idle EXCEPT !.step = "select"]
Trouble == trouble < MaxTrouble /\ trouble' = trouble + 1

Step(p, s) == drop' = [drop EXCEPT ![p].step = s]

WaitedFromSend(p) == ~sync /\ drop[p].step \in {"send", "incr", "file"}

(* this.wg counts the chunk under way, and nothing with sync_drop. *)
Waited(p) == ~sync /\ drop[p].step \in Chunk

(* DropChunk or transfer returns: the deferred wg.Done releases a Stop that *)
(* waits, and the pass goes on with what is left of its page.              *)
ChunkEnds(p) ==
    /\ drop' = [drop EXCEPT ![p] = [Idle EXCEPT !.step = "next", !.todo = drop[p].todo]]
    /\ proc' = IF proc[p].phase = "wait" THEN [proc EXCEPT ![p].phase = "released"] ELSE proc

(* How the record of the payment under way is lost when the process ends   *)
(* by itself: the transfer was never waited for, the chunk began after     *)
(* Stop had waited, or else Stop left it behind.                           *)
Why(p) == IF sync THEN "sync" ELSE IF drop[p].late THEN "late" ELSE "early"
Lost(p, why) == {<<s, why>> : s \in drop[p].batch}

-----------------------------------------------------------------------------
(* The processes. *)

Init ==
    /\ sync \in BOOLEAN
    /\ proc = [p \in Process |-> [phase |-> IF p = Parent THEN "up" ELSE "off",
                                  stop |-> FALSE, cancelled |-> FALSE]]
    /\ drop = [p \in Process |-> IF p = Parent THEN Started ELSE Idle]
    /\ filed = {} /\ saved = 0 /\ txs = <<>>
    /\ trouble = 0 /\ cut = {}
    /\ shared = {} /\ met = FALSE /\ late = [p \in Process |-> 0]

(* main starts its loops before it serves; the loop's first Drop looks at  *)
(* no channel.  A process is forked by a running one (SIGHUP, endless), or *)
(* started by hand when there is none.                                     *)
Boot(p) ==
    /\ proc[p].phase = "off"
    /\ (\E q \in Process : proc[q].phase = "up") \/ (\A q \in Process : ~Runs(q))
    /\ proc' = [proc EXCEPT ![p].phase = "up"]
    /\ drop' = [drop EXCEPT ![p] = Started]
    /\ UNCHANGED <<sync, shop, history>>

(* SIGTERM, sent by an operator or by the child once it listens.           *)
Terminate(p) ==
    /\ proc[p].phase = "up"
    /\ proc' = [proc EXCEPT ![p].phase = "drain"]
    /\ UNCHANGED <<sync, drop, shop, history>>

(* ListenAndServe has returned and main reaches airdropper.Stop, which     *)
(* fills stopCh and waits for this.wg.                                     *)
StopDropper(p) ==
    /\ proc[p].phase = "drain"
    /\ proc' = [proc EXCEPT ![p].phase = IF Waited(p) THEN "wait" ELSE "released",
                            ![p].stop = TRUE]
    /\ UNCHANGED <<sync, drop, shop, history>>

(* Wait has returned and Stop closes exitCh: Start, if it still gets a     *)
(* turn, calls cancel().                                                   *)
Cancel(p) ==
    /\ proc[p].phase = "released" /\ ~proc[p].cancelled
    /\ proc' = [proc EXCEPT ![p].cancelled = TRUE]
    /\ UNCHANGED <<sync, drop, shop, history>>

(* The process ends where its loop is. *)
Ends(p, why) ==
    /\ proc' = [proc EXCEPT ![p].phase = "gone"]
    /\ drop' = [drop EXCEPT ![p] = Idle]
    /\ cut' = IF drop[p].step \in {"incr", "file"} THEN cut \union Lost(p, why) ELSE cut

(* main returns after the other Stops and the last Flush. *)
MainReturns(p) ==
    /\ proc[p].phase = "released"
    /\ Ends(p, Why(p))
    /\ UNCHANGED <<sync, shop, trouble, shared, met, late>>

Kill(p) ==
    /\ Runs(p) /\ Trouble
    /\ Ends(p, "kill")
    /\ UNCHANGED <<sync, shop, shared, met, late>>

-----------------------------------------------------------------------------
(* The payout loop. *)

WakeOnce(p) ==
    /\ drop[p].step = "sleep"
    /\ Step(p, "ended")
    /\ UNCHANGED <<sync, proc, shop, history>>

(* The sleep is over: DropLoop returns if it finds a signal. *)
Wake(p) ==
    /\ drop[p].step = "sleep"
    /\ Step(p, IF proc[p].stop \/ proc[p].cancelled THEN "ended" ELSE "select")
    /\ UNCHANGED <<sync, proc, shop, history>>

(* Drop and DropAirdrop read the submissions that wait. *)
Select(p) ==
    /\ drop[p].step = "select"
    /\ LET todo == Sub \ filed
       IN /\ drop' = [drop EXCEPT ![p].step = IF todo = {} THEN "sleep" ELSE "next",
                                  ![p].todo = todo]
          /\ shared' = shared \union (todo \intersect UNION {Held(q) : q \in Process \ {p}})
    /\ UNCHANGED <<sync, proc, shop, trouble, cut, met, late>>

(* The next chunk or transfer of the pass begins, whatever the channels    *)
(* hold; wg.Add comes first.                                               *)
NextBatch(p) ==
    /\ drop[p].step = "next"
    /\ IF drop[p].todo = {} THEN Step(p, "sleep")
       ELSE \E b \in SUBSET drop[p].todo \ {{}} :
               /\ Cardinality(b) <= IF sync THEN 1 ELSE ChunkSize
               /\ drop' = [drop EXCEPT ![p].step = "get", ![p].batch = b, ![p].todo = @ \ b,
                             ![p].late = ~sync /\ proc[p].phase = "released"]
    /\ UNCHANGED <<sync, proc, shop, history>>

(* Nonce: GET, PendingNonceAt with the loop's context, SET if it is ahead. *)
NonceGet(p) ==
    /\ drop[p].step = "get"
    /\ drop' = [drop EXCEPT ![p].step = "ask", ![p].nonce = saved]
    /\ met' = (met \/ \E q \in Process \ {p} : drop[q].step \in Window)
    /\ UNCHANGED <<sync, proc, shop, trouble, cut, shared, late>>

NonceAsk(p) ==
    /\ drop[p].step = "ask" /\ ~proc[p].cancelled
    /\ drop' = [drop EXCEPT ![p].step = "set", ![p].pending = PendingNonceAt]
    /\ UNCHANGED <<sync, proc, shop, history>>

NonceFails(p) ==
    /\ drop[p].step = "ask"
    /\ IF proc[p].cancelled THEN UNCHANGED trouble ELSE Trouble
    /\ ChunkEnds(p)
    /\ UNCHANGED <<sync, shop, cut, shared, met, late>>

NonceSet(p) ==
    /\ drop[p].step = "set"
    /\ LET ahead == drop[p].nonce < drop[p].pending
       IN /\ saved' = IF ahead THEN drop[p].pending ELSE saved
          /\ drop' = [drop EXCEPT ![p].step = "send", ![p].pending = 0,
                                  ![p].nonce = IF ahead THEN drop[p].pending ELSE @]
    /\ UNCHANGED <<sync, proc, filed, txs, history>>

-----------------------------------------------------------------------------

(* The node replaces a transaction in its pool if the new one offers a     *)
(* higher price, which a publisher may have set in the meantime.  If not,  *)
(* or if the nonce is mined, it refuses; so when it mines does not matter. *)
Accepts(p) ==
    /\ Len(txs) < MaxTx
    /\ txs' = Append([i \in DOMAIN txs |->
                        IF i \in Live(drop[p].nonce) THEN [txs[i] EXCEPT !.replaced = TRUE]
                        ELSE txs[i]],
                     [nonce |-> drop[p].nonce, subs |-> drop[p].batch, replaced |-> FALSE])
    /\ late' = IF proc[p].cancelled THEN [late EXCEPT ![p] = @ + 1] ELSE late

Send(p) ==
    /\ drop[p].step = "send" /\ ~proc[p].cancelled
    /\ Accepts(p)
    /\ Step(p, "incr")
    /\ UNCHANGED <<sync, proc, filed, saved, trouble, cut, shared, met>>

(* The node has it, but the answer is lost: the connection broke, or the   *)
(* context was cancelled while the request was under way.                  *)
SendLost(p) ==
    /\ drop[p].step = "send"
    /\ Accepts(p)
    /\ IF proc[p].cancelled THEN UNCHANGED trouble ELSE Trouble
    /\ cut' = cut \union Lost(p, IF proc[p].cancelled THEN Why(p) ELSE "fault")
    /\ ChunkEnds(p)
    /\ UNCHANGED <<sync, filed, saved, shared, met>>

SendRefusedCounted(p) ==
    /\ drop[p].step = "send"
    /\ IF proc[p].cancelled \/ Live(drop[p].nonce) # {} THEN UNCHANGED trouble ELSE Trouble
    /\ saved' = saved + 1
    /\ ChunkEnds(p)
    /\ UNCHANGED <<sync, filed, txs, cut, shared, met, late>>

SendRefused(p) ==
    /\ drop[p].step = "send"
    /\ IF proc[p].cancelled \/ Live(drop[p].nonce) # {}
       THEN UNCHANGED trouble ELSE Trouble
    /\ ChunkEnds(p)
    /\ UNCHANGED <<sync, shop, cut, shared, met, late>>

NonceIncr(p) ==
    /\ drop[p].step = "incr"
    /\ saved' = saved + 1
    /\ Step(p, "file")
    /\ UNCHANGED <<sync, proc, filed, txs, history>>

FileNothing(p) ==
    /\ drop[p].step = "file"
    /\ ChunkEnds(p)
    /\ UNCHANGED <<sync, shop, history>>

(* status=1 and the hash, whatever is there by now. *)
File(p) ==
    /\ drop[p].step = "file"
    /\ filed' = filed \union drop[p].batch
    /\ ChunkEnds(p)
    /\ UNCHANGED <<sync, saved, txs, history>>

FileFails(p) ==
    /\ drop[p].step = "file" /\ Trouble
    /\ cut' = cut \union Lost(p, "fault")
    /\ ChunkEnds(p)
    /\ UNCHANGED <<sync, shop, shared, met, late>>

-----------------------------------------------------------------------------

Loop(p) ==
    \/ Wake(p) \/ Select(p) \/ NextBatch(p) \/ NonceGet(p) \/ NonceAsk(p) \/ NonceFails(p)
    \/ NonceSet(p) \/ Send(p) \/ SendLost(p) \/ SendRefused(p) \/ NonceIncr(p)
    \/ File(p) \/ FileFails(p)

Stopping(p) == StopDropper(p) \/ MainReturns(p)

Next ==
    \/ \E p \in Process : Loop(p) \/ Stopping(p) \/ Cancel(p) \/ Boot(p) \/ Terminate(p) \/ Kill(p)

Spec == Init /\ [][Next]_vars

(* The scheduler runs the loop and main; nobody promises a signal, a boot, *)
(* a fault, or that Start is scheduled again before the process ends.      *)
Fairness == \A p \in Process : WF_vars(Loop(p)) /\ WF_vars(Stopping(p))
FairSpec == Spec /\ Fairness

-----------------------------------------------------------------------------

Payments(s) == {i \in DOMAIN txs : s \in txs[i].subs /\ ~txs[i].replaced}

(* A submission is paid twice only if a record was lost, or if two         *)
(* processes had it on their lists at the same time: nothing else in the   *)
(* start, the stop and the hand-over of the loop pays anyone again.        *)
PaidTwiceHasCause ==
    \A s \in Sub : Cardinality(Payments(s)) > 1 =>
        s \in shared \/ \E why \in {"kill", "late", "sync", "fault"} : <<s, why>> \in cut

(* Airdropper.Stop does what its WaitGroup is for: the process does not    *)
(* leave a chunk behind that was under way when it was asked to stop.      *)
StopWaitsForChunk == \A s \in Sub : <<s, "early">> \notin cut

(* After cancel() a loop in the middle of a pass sends at most the one     *)
(* transaction whose nonce it had: the next Nonce fails by the context.    *)
OneAfterCancel == \A p \in Process : late[p] <= 1

(* With one loop per process, a transaction is replaced and the counter    *)
(* runs ahead of the node only if two processes were inside Nonce..Incr at *)
(* once, whatever was killed, cut or refused before.                       *)
NonceNeedsOverlap ==
    /\ (\E i \in DOMAIN txs : txs[i].replaced) => met
    /\ saved > PendingNonceAt => met

(* If some process stays up, every submission is sent and recorded in the  *)
(* end: a restart leaves nothing behind.                                   *)
TakeOverPays ==
    (\E p \in Process : <>[](proc[p].phase = "up")) => \A s \in Sub : <>(s \in filed)
===============================================================================
