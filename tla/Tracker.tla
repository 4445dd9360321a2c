------------------------------ MODULE Tracker ------------------------------
(***************************************************************************)
(* The promotion statistics (tools/tracker): handlers add to a map under a *)
(* lock, a ticker goroutine moves the map to the table once a minute, and  *)
(* main flushes once more at the end of the shutdown.  The two flushes may *)
(* overlap, and nobody waits for the ticker's.                             *)
(*                                                                         *)
(* One number per map entry stands for its six counters, which the code    *)
(* treats alike.  Database errors and kills are the environment.           *)
(***************************************************************************)
EXTENDS Integers, FiniteSets

CONSTANTS
    Keys,        \* map entries: a promotion on a day
    BatchSize,   \* rows per INSERT: 1000 in the code
    MaxEvents,   \* bound: events per key
    MaxStarts    \* bound: restarts

ASSUME KeysAssumption == IsFiniteSet(Keys)
ASSUME BatchAssumption == BatchSize \in Nat \ {0} /\ {MaxEvents, MaxStarts} \subseteq Nat

Flushers == {"ticker", "main"}

VARIABLES
    run,        \* "up", "stopping" (exitCh closed) or "down"
    mp,         \* PromotionLogService.mp; 0 where there is no entry
    held,       \* per flusher: entries it took and has not yet inserted
    pc,         \* per flusher: "wait", "insert"; "exited" or "returned"
    recorded, stored, lost,    \* history: what became of the events
    doubled,                   \* history: events stored a second time
    starts,                    \* restarts so far
    failed, late, raced, killed  \* history: an INSERT failed; an event came
                    \* after the last swap; main returned during a tick; a kill

ledger == <<recorded, stored, lost, doubled>>
causes == <<failed, late, raced, killed>>
vars == <<run, mp, held, pc, ledger, starts, causes>>

Zero == [k \in Keys |-> 0]
Plus(f, g) == [k \in Keys |-> f[k] + g[k]]
Only(f, B) == [k \in Keys |-> IF k \in B THEN f[k] ELSE 0]
Without(f, B) == [k \in Keys |-> IF k \in B THEN 0 ELSE f[k]]
Entries(f) == {k \in Keys : f[k] > 0}

TypeOK ==
    /\ run \in {"up", "stopping", "down"}
    /\ mp \in [Keys -> Nat]
    /\ held \in [Flushers -> [Keys -> Nat]]
    /\ pc \in [Flushers -> {"wait", "insert", "exited", "returned"}]
    /\ pc["ticker"] # "returned" /\ pc["main"] # "exited"
    /\ recorded \in [Keys -> Nat] /\ stored \in [Keys -> Nat] /\ lost \in [Keys -> Nat]
    /\ doubled \in [Keys -> Nat]
    /\ starts \in Nat
    /\ failed \in BOOLEAN /\ late \in BOOLEAN /\ raced \in BOOLEAN /\ killed \in BOOLEAN

Init ==
    /\ run = "up"
    /\ mp = Zero
    /\ held = [f \in Flushers |-> Zero]
    /\ pc = [f \in Flushers |-> "wait"]
    /\ recorded = Zero /\ stored = Zero /\ lost = Zero /\ doubled = Zero
    /\ starts = 0
    /\ failed = FALSE /\ late = FALSE /\ raced = FALSE /\ killed = FALSE

(* Pv, Submission, Transactions, GiveOut, Bonus, ComissionFee: under the   *)
(* lock.  Handlers and checkers go on until the process ends.              *)
Record(k) ==
    /\ run # "down"
    /\ recorded[k] < MaxEvents
    /\ mp' = [mp EXCEPT ![k] = @ + 1]
    /\ recorded' = [recorded EXCEPT ![k] = @ + 1]
    /\ late' = (late \/ pc["main"] # "wait")
    /\ UNCHANGED <<run, held, pc, stored, lost, doubled, starts, failed, raced, killed>>

After(f) == IF f = "ticker" THEN "wait" ELSE "returned"

(* Flush: take the map and leave an empty one, under the lock; no entries, *)
(* no INSERT.                                                              *)
Swap(f) ==
    /\ pc[f] = "wait"
    /\ held' = [held EXCEPT ![f] = mp]
    /\ mp' = Zero
    /\ pc' = [pc EXCEPT ![f] = IF mp = Zero THEN After(f) ELSE "insert"]
    /\ UNCHANGED <<run, ledger, starts, causes>>

(* Tracker.Start: when the ticker and exitCh are both ready, select takes  *)
(* either.                                                                 *)
Tick == run # "down" /\ Swap("ticker")

TickerExitAnytime ==
    /\ run # "down"
    /\ pc["ticker"] = "wait"
    /\ pc' = [pc EXCEPT !["ticker"] = "exited"]
    /\ UNCHANGED <<run, mp, held, ledger, starts, causes>>

TickerExit ==
    /\ run = "stopping"
    /\ pc["ticker"] = "wait"
    /\ pc' = [pc EXCEPT !["ticker"] = "exited"]
    /\ UNCHANGED <<run, mp, held, ledger, starts, causes>>

(* main after the signal: Tracker.Stop, the other Stops, the last Flush.   *)
Stop ==
    /\ run = "up"
    /\ run' = "stopping"
    /\ UNCHANGED <<mp, held, pc, ledger, starts, causes>>

FinalFlush == run = "stopping" /\ Swap("main")

(* The entries of one INSERT, in map order. *)
Batches(f) ==
    LET n == Cardinality(Entries(held[f]))
    IN {B \in SUBSET Entries(held[f]) :
            Cardinality(B) = IF n < BatchSize THEN n ELSE BatchSize}

InsertNoRemainder(f) ==
    /\ pc[f] = "insert"
    /\ \E B \in Batches(f) :
          /\ held' = [held EXCEPT ![f] = Without(@, B)]
          /\ pc' = [pc EXCEPT ![f] = IF Entries(held[f]) \subseteq B THEN After(f) ELSE @]
          /\ IF Cardinality(B) = BatchSize
             THEN stored' = Plus(stored, Only(held[f], B)) /\ UNCHANGED <<lost, failed>>
             ELSE lost' = Plus(lost, Only(held[f], B)) /\ UNCHANGED <<stored, failed>>
    /\ UNCHANGED <<run, mp, recorded, doubled, starts, late, raced, killed>>

InsertKeepsRows(f) ==
    /\ pc[f] = "insert"
    /\ \E B \in Batches(f) :
          /\ held' = [held EXCEPT ![f] = Without(@, B)]
          /\ pc' = [pc EXCEPT ![f] = IF Entries(held[f]) \subseteq B THEN After(f) ELSE @]
          /\ stored' = Plus(stored, held[f]) /\ UNCHANGED <<lost, failed>>
    /\ UNCHANGED <<run, mp, recorded, doubled, starts, late, raced, killed>>

(* Flush: INSERT ... ON DUPLICATE KEY UPDATE adds the rows of one batch.   *)
(* The client repeats it after a network error, and what was applied is    *)
(* added again.  An error is logged, and the batch is gone unless it was   *)
(* applied and only the answer lost.                                       *)
Insert(f) ==
    /\ pc[f] = "insert"
    /\ \E B \in Batches(f) :
          /\ held' = [held EXCEPT ![f] = Without(@, B)]
          /\ pc' = [pc EXCEPT ![f] = IF Entries(held[f]) \subseteq B THEN After(f) ELSE @]
          /\ \/ /\ stored' = Plus(stored, Only(held[f], B)) /\ failed' \in {failed, TRUE}
                /\ UNCHANGED <<lost, doubled>>
             \/ /\ stored' = Plus(stored, Plus(Only(held[f], B), Only(held[f], B)))
                /\ doubled' = Plus(doubled, Only(held[f], B))
                /\ UNCHANGED <<lost, failed>>
             \/ /\ lost' = Plus(lost, Only(held[f], B)) /\ failed' = TRUE
                /\ UNCHANGED <<stored, doubled>>
    /\ UNCHANGED <<run, mp, recorded, starts, late, raced, killed>>

(* The process is gone, and with it the map and what the flushers held.    *)
End ==
    /\ run' = "down"
    /\ lost' = Plus(lost, Plus(mp, Plus(held["ticker"], held["main"])))
    /\ mp' = Zero
    /\ held' = [f \in Flushers |-> Zero]
    /\ pc' = [f \in Flushers |-> "wait"]
    /\ UNCHANGED <<recorded, stored, doubled, starts, failed, late>>

(* main returns after its Flush, whatever the ticker is doing. *)
Return ==
    /\ run = "stopping" /\ pc["main"] = "returned"
    /\ End
    /\ raced' = (raced \/ pc["ticker"] = "insert")
    /\ UNCHANGED killed

Kill == run # "down" /\ End /\ killed' = TRUE /\ UNCHANGED raced

Start ==
    /\ run = "down"
    /\ starts < MaxStarts
    /\ starts' = starts + 1
    /\ run' = "up"
    /\ UNCHANGED <<mp, held, pc, ledger, causes>>

Next ==
    \/ \E k \in Keys : Record(k)
    \/ Tick \/ TickerExit \/ Stop \/ FinalFlush \/ Return \/ Kill \/ Start
    \/ \E f \in Flushers : run # "down" /\ Insert(f)

Spec == Init /\ [][Next]_vars

(* The minute ticker fires, database calls return, and a shutdown that has *)
(* begun goes on to its last Flush.  Nothing makes anybody stop or start.  *)
Fairness ==
    /\ WF_vars(Tick) /\ WF_vars(FinalFlush) /\ WF_vars(Return)
    /\ \A f \in Flushers : WF_vars(run # "down" /\ Insert(f))

FairSpec == Spec /\ Fairness

-----------------------------------------------------------------------------
(* Every event is in exactly one place: the table, the map, a flusher's    *)
(* hands, or lost; the table has some of them twice, because of a repeated *)
(* INSERT.  Recording while a flush swaps the map neither drops nor        *)
(* doubles any.                                                            *)
Conserved ==
    \A k \in Keys :
        recorded[k] + doubled[k] = stored[k] + lost[k] + mp[k] + held["ticker"][k] + held["main"][k]

(* Without a failed INSERT, a kill, an event after the last swap or main   *)
(* returning in the middle of a tick, a shutdown saves everything.         *)
LossHasCause ==
    (\E k \in Keys : lost[k] > 0) => failed \/ killed \/ late \/ raced

(* The statistics keep what TrackerLedger promises. *)
Promise == INSTANCE TrackerLedger WITH
    Keys <- Keys, recorded <- recorded, stored <- stored, lost <- lost,
    doubled <- doubled
KeepsPromise == Promise!Spec

(* What is in the map does not stay there: a tick or the end comes. *)
MapIsFlushed == \A k \in Keys : mp[k] > 0 ~> mp[k] = 0
=============================================================================
