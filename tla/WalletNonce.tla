---------------------------- MODULE WalletNonce ----------------------------
(***************************************************************************)
(* How the services choose nonces for one wallet (coins/eth/account.go).   *)
(*                                                                         *)
(* Counted senders (deployer, allowance checker, dropper, deposit and      *)
(* checkout handlers) run Nonce, send, NonceIncr.  Nonce and NonceIncr     *)
(* each hold the process wide GlobalLock, the send between them does not.  *)
(* Direct senders (withdraw.go:126, redpacket/add.go:316) ask the node for *)
(* its pending nonce and never touch the counter in redis.                 *)
(*                                                                         *)
(* The Ethereum node and redis are external, modelled by what the code     *)
(* relies on: PendingNonceAt, a transaction pool that queues transactions  *)
(* beyond the pending nonce, replacement, eviction, mining.                *)
(***************************************************************************)
EXTENDS Integers

CONSTANTS Counted,   \* senders that use the saved counter
          Direct,    \* senders that only ask the node
          NoOne,     \* the value of lock when nobody holds it
          MaxNonce   \* bound: the pool takes no nonce above it, and INCR
               \* takes the counter at most one past it

Senders == Counted \union Direct

ASSUME SendersAssumption ==
    /\ Counted \intersect Direct = {}
    /\ NoOne \notin Senders
ASSUME MaxNonceAssumption == MaxNonce \in Nat

VARIABLES
    saved,     \* the counter in redis, 0 when the key is missing
    lock,      \* holder of the GlobalLock
    pc,        \* per sender: where in Nonce / send / NonceIncr it is
    seen,      \* per sender: nonceSaved read by GET
    nonce,     \* per sender: the nonce it was given
    mined,     \* node: the account's nonce in the last block
    pend,      \* node: what PendingNonceAt answers
    pool,      \* node: nonces of the transactions pending or queued
    overlap,   \* history: kinds of senders whose windows overlapped
    replaced,  \* history: an accepted transaction was replaced by another
    evicted    \* history: the node dropped a transaction from its pool

senderVars == <<lock, pc, seen, nonce>>
nodeVars == <<mined, pend, pool>>
history == <<overlap, replaced, evicted>>
vars == <<saved, senderVars, nodeVars, history>>

PCs == {"idle", "get", "getDown", "send", "incr"}

TypeOK ==
    /\ saved \in Nat
    /\ lock \in Senders \union {NoOne}
    /\ pc \in [Senders -> PCs]
    /\ seen \in [Senders -> Nat]
    /\ nonce \in [Senders -> Nat]
    /\ mined \in Nat
    /\ pend \in Nat
    /\ pool \subseteq Nat
    /\ overlap \subseteq {"counted", "direct"}
    /\ replaced \in BOOLEAN
    /\ evicted \in BOOLEAN

Init ==
    /\ saved = 0
    /\ lock = NoOne
    /\ pc = [s \in Senders |-> "idle"]
    /\ seen = [s \in Senders |-> 0]
    /\ nonce = [s \in Senders |-> 0]
    /\ mined \in 0..1
    /\ pend = mined
    /\ pool = {}
    /\ overlap = {}
    /\ replaced = FALSE
    /\ evicted = FALSE

-----------------------------------------------------------------------------
(* A sender's window lasts from the moment it is given a nonce until it    *)
(* has sent and, when counted, incremented.                                *)

InWindow(s) == pc[s] \in {"send", "incr"}

(* s is given a nonce while others are in their windows. *)
RecordOverlap(s) ==
    overlap' = overlap
        \union {k \in {"counted"} : s \in Counted /\ \E t \in Counted \ {s} : InWindow(t)}
        \union {k \in {"direct"} : \E t \in Senders \ {s} :
                                     InWindow(t) /\ (s \in Direct \/ t \in Direct)}

(* The call returns and its locals are gone.                               *)
Done(s) ==
    /\ pc' = [pc EXCEPT ![s] = "idle"]
    /\ seen' = [seen EXCEPT ![s] = 0]
    /\ nonce' = [nonce EXCEPT ![s] = 0]

(* Nonce: lock, then GET the key.  A failed GET counts as 0 and the SET of *)
(* the same call, on the same connection, fails too.                       *)
NonceGet(s) ==
    /\ s \in Counted
    /\ pc[s] = "idle"
    /\ lock = NoOne
    /\ lock' = s
    /\ \/ pc' = [pc EXCEPT ![s] = "get"] /\ seen' = [seen EXCEPT ![s] = saved]
       \/ pc' = [pc EXCEPT ![s] = "getDown"] /\ seen' = [seen EXCEPT ![s] = 0]
    /\ UNCHANGED <<saved, nonce, nodeVars, history>>

NonceFailKeepsLock(s) ==
    /\ pc[s] \in {"get", "getDown"}
    /\ Done(s)
    /\ UNCHANGED <<lock, saved, nodeVars, history>>

(* Nonce: PendingNonceAt returns an error; the deferred Unlock still runs. *)
NonceFail(s) ==
    /\ pc[s] \in {"get", "getDown"}
    /\ Done(s)
    /\ lock' = NoOne
    /\ UNCHANGED <<saved, nodeVars, history>>

NonceReturnIgnoresNode(s) ==
    /\ pc[s] \in {"get", "getDown"}
    /\ nonce' = [nonce EXCEPT ![s] = seen[s]]
    /\ saved' = IF pc[s] = "get" /\ seen[s] < pend THEN pend ELSE saved
    /\ pc' = [pc EXCEPT ![s] = "send"]
    /\ lock' = NoOne
    /\ seen' = [seen EXCEPT ![s] = 0]
    /\ RecordOverlap(s)
    /\ UNCHANGED <<nodeVars, replaced, evicted>>

(* Nonce: compare with PendingNonceAt, SET the larger value, unlock.       *)
NonceReturn(s) ==
    /\ pc[s] \in {"get", "getDown"}
    /\ nonce' = [nonce EXCEPT ![s] = IF seen[s] < pend THEN pend ELSE seen[s]]
    /\ saved' = IF pc[s] = "get" /\ seen[s] < pend THEN pend ELSE saved
    /\ pc' = [pc EXCEPT ![s] = "send"]
    /\ lock' = NoOne
    /\ seen' = [seen EXCEPT ![s] = 0]
    /\ RecordOverlap(s)
    /\ UNCHANGED <<nodeVars, replaced, evicted>>

(* PendingNonce: the direct senders' way to a nonce, without lock.         *)
PendingNonce(s) ==
    /\ s \in Direct
    /\ pc[s] = "idle"
    /\ nonce' = [nonce EXCEPT ![s] = pend]
    /\ pc' = [pc EXCEPT ![s] = "send"]
    /\ RecordOverlap(s)
    /\ UNCHANGED <<saved, lock, seen, nodeVars, replaced, evicted>>

(* TransactorUpdate leaves a zero nonce unset, so the client library asks  *)
(* the node for one when it sends (also account.go Transfer).              *)
SentNonce(s) == IF nonce[s] > 0 THEN nonce[s] ELSE pend

(* The node takes nonce n into its pool.  PendingNonceAt then answers the  *)
(* first nonce with no transaction.  A taken nonce is replaced or refused. *)
Accept(n) ==
    /\ n >= mined
    /\ n <= MaxNonce
    /\ pool' = pool \union {n}
    /\ replaced' = (replaced \/ n \in pool)
    /\ IF n = pend
       THEN \E k \in (n + 1)..(MaxNonce + 1) :
              /\ \A i \in (n + 1)..(k - 1) : i \in pool
              /\ k \notin pool
              /\ pend' = k
       ELSE pend' = pend
    /\ UNCHANGED mined

(* The send reaches the pool; its answer may still be lost, and then the   *)
(* caller returns the error and never increments.                          *)
Send(s) ==
    /\ pc[s] = "send"
    /\ Accept(SentNonce(s))
    /\ \/ Done(s)
       \/ /\ s \in Counted
          /\ pc' = [pc EXCEPT ![s] = "incr"]
          /\ nonce' = [nonce EXCEPT ![s] = 0]
          /\ UNCHANGED seen
    /\ UNCHANGED <<saved, lock, overlap, evicted>>

SendFailsButCounts(s) ==
    /\ pc[s] = "send"
    /\ pc' = [pc EXCEPT ![s] = IF s \in Counted THEN "incr" ELSE "idle"]
    /\ nonce' = [nonce EXCEPT ![s] = 0]
    /\ UNCHANGED <<saved, lock, seen, nodeVars, history>>

(* The send is refused, or never reaches the node: every caller returns.   *)
SendFails(s) ==
    /\ pc[s] = "send"
    /\ Done(s)
    /\ UNCHANGED <<saved, lock, nodeVars, history>>

(* NonceIncr: INCR under the lock; every caller ignores its error.         *)
NonceIncr(s) ==
    /\ pc[s] = "incr"
    /\ lock = NoOne
    /\ saved' \in {saved, IF saved <= MaxNonce THEN saved + 1 ELSE saved}
    /\ Done(s)
    /\ UNCHANGED <<lock, nodeVars, history>>

(* The process stops and starts again: redis and the node keep their state. *)
Restart ==
    /\ \E s \in Senders : pc[s] # "idle"
    /\ pc' = [s \in Senders |-> "idle"]
    /\ seen' = [s \in Senders |-> 0]
    /\ nonce' = [s \in Senders |-> 0]
    /\ lock' = NoOne
    /\ UNCHANGED <<saved, nodeVars, history>>

-----------------------------------------------------------------------------
(* The node on its own. *)

Mine ==
    /\ mined \in pool
    /\ mined' = mined + 1
    /\ pool' = pool \ {mined}
    /\ UNCHANGED <<saved, senderVars, pend, history>>

Evict(n) ==
    /\ n \in pool
    /\ pool' = pool \ {n}
    /\ pend' = IF n < pend THEN n ELSE pend
    /\ evicted' = TRUE
    /\ UNCHANGED <<saved, senderVars, mined, overlap, replaced>>

SenderStep(s) ==
    \/ NonceGet(s) \/ NonceFail(s) \/ NonceReturn(s) \/ PendingNonce(s)
    \/ Send(s) \/ SendFails(s) \/ NonceIncr(s)

Next ==
    \/ \E s \in Senders : SenderStep(s)
    \/ Restart
    \/ Mine
    \/ \E n \in 0..MaxNonce : Evict(n)

Spec == Init /\ [][Next]_vars

(* Calls return or time out; sync.Mutex is starvation free.  Starting a    *)
(* new Nonce call, mining and restarts are not promised.                   *)
Fairness ==
    \A s \in Senders :
        /\ WF_vars(NonceFail(s) \/ NonceReturn(s))
        /\ WF_vars(Send(s) \/ SendFails(s))
        /\ SF_vars(NonceIncr(s))

FairSpec == Spec /\ Fairness

-----------------------------------------------------------------------------
(* The counter in redis never goes back: the GET and the SET of one Nonce  *)
(* call cannot straddle the INCR of another sender (account.go:105-133).   *)
SavedNeverDecreases == [][saved' >= saved]_saved

(* Without two counted senders in their windows at once, and unless the    *)
(* node evicts a transaction, the counter never runs ahead of the node, so *)
(* no nonce is skipped.  Lost answers, failed INCRs, redis outages, direct *)
(* senders and restarts do not break this.                                 *)
NoGapWithoutOverlap == "counted" \notin overlap /\ ~evicted => saved <= pend

(* An accepted transaction, whose hash a table may already hold, is only   *)
(* replaced when two windows of some kind overlapped or one was evicted.   *)
NoReplacementWithoutOverlap == overlap = {} /\ ~evicted => ~replaced

(* The counter is ahead and no nonce already handed out fills the gap. *)
Gap ==
    /\ saved > pend
    /\ \A s \in Counted : pc[s] = "send" => nonce[s] > pend

(* A gap never heals by itself: Nonce keeps returning the saved value, so  *)
(* it ends only by a sender that bypasses the counter (a direct sender, or *)
(* a Nonce call during a redis outage).                                    *)
GapNeverHeals ==
    [][Gap => \/ Gap'
              \/ \E d \in Direct : pc[d] = "send" /\ pc'[d] = "idle"
              \/ \E s \in Counted : pc[s] = "getDown" /\ pc'[s] = "send"]_vars

(* Every call ends: each error return of Nonce releases the lock, so that  *)
(* no sender waits for ever in NonceIncr.                                  *)
EveryCallEnds == \A s \in Senders : pc[s] # "idle" ~> pc[s] = "idle"
=============================================================================
