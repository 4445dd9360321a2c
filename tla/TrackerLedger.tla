--------------------------- MODULE TrackerLedger ---------------------------
(***************************************************************************)
(* What the promotion statistics promise (tools/tracker): every recorded   *)
(* event is at some later time either stored in promotion_stats or lost,   *)
(* never both, and neither is ever taken back.  It is stored once, unless  *)
(* the database client repeated the INSERT that stored it.                 *)
(***************************************************************************)
EXTENDS Naturals

CONSTANT Keys       \* a promotion on a day

VARIABLES
    recorded,   \* events reported by the web handlers, the bot, the checker
    stored,     \* sums in the table promotion_stats
    lost,       \* events that never reach the table
    doubled     \* events that are in the table twice

ledger == <<recorded, stored, lost, doubled>>

Zero == [k \in Keys |-> 0]

Init == recorded = Zero /\ stored = Zero /\ lost = Zero /\ doubled = Zero

(* One more event for k. *)
Record(k) ==
    /\ recorded' = [recorded EXCEPT ![k] = @ + 1]
    /\ UNCHANGED <<stored, lost, doubled>>

(* Some events that were still open are now in the table, some twice.      *)
Store ==
    /\ {stored', doubled'} \subseteq [Keys -> Nat]
    /\ \A k \in Keys : LET twice == doubled'[k] - doubled[k]
                       IN /\ twice >= 0 /\ stored[k] + 2 * twice <= stored'[k]
                          /\ stored'[k] + lost[k] <= recorded[k] + doubled'[k]
    /\ UNCHANGED <<recorded, lost>>

(* Some events that were still open are gone. *)
Lose ==
    /\ lost' \in [Keys -> Nat]
    /\ \A k \in Keys : lost[k] <= lost'[k] /\ stored[k] + lost'[k] <= recorded[k] + doubled[k]
    /\ UNCHANGED <<recorded, stored, doubled>>

Next == (\E k \in Keys : Record(k)) \/ Store \/ Lose

Spec == Init /\ [][Next]_ledger
=============================================================================
