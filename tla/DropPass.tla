------------------------------ MODULE DropPass ------------------------------
(***************************************************************************)
(* How the payout gets around to every airdrop (Airdropper.Drop in         *)
(* tools/airdrop/dropper.go): pages of the newest airdrops above an id     *)
(* that grows, each airdrop of a page treated in turn, then a sleep.       *)
(*                                                                         *)
(* What treating one does in detail is AirdropDrop; here it sends what the *)
(* airdrop owes, or fails and leaves it owed.                              *)
(***************************************************************************)
EXTENDS Integers, FiniteSets, FiniteSetsExt

CONSTANTS
    Airdrop,    \* ids of airdrops, which grow with time
    PageSize,   \* LIMIT of the query: 100 in the code
    MaxSubs,    \* bound: submissions of an airdrop
    MaxFaults,  \* bound: queries and payments that fail
    MaxEvents   \* bound: airdrops that become or stop being ready

AirdropAssumption == Airdrop \subseteq Nat \ {0} /\ IsFiniteSet(Airdrop)
BoundAssumption ==
    PageSize \in Nat \ {0} /\ {MaxSubs, MaxFaults, MaxEvents} \subseteq Nat

VARIABLES
    ready,    \* airdrops with funds, a contract or sync_drop, and their date reached
    subs,     \* their submissions, by status
    start,    \* startId of the pass
    page,     \* airdrops of the page still to be treated
    end,      \* endId: the smallest id of the page
    found,    \* ret: some page was not empty
    step,     \* of DropLoop
    interval, \* minutes to sleep
    count     \* history: faults and events

loop == <<start, page, end, found, step, interval>>
vars == <<ready, subs, loop, count>>

Status == {"new", "sent", "done", "failed"}

TypeOK ==
    /\ ready \subseteq Airdrop
    /\ subs \in [Airdrop -> [Status -> 0..MaxSubs]]
    /\ start \in Airdrop \union {0} /\ end \in Airdrop \union {0}
    /\ page \subseteq Airdrop /\ found \in BOOLEAN
    /\ step \in {"query", "drop", "sleep"} /\ interval \in {1, 5}
    /\ count \in [{"fault", "event"} -> Nat]

-----------------------------------------------------------------------------
(* Helpers. *)

Fault == count["fault"] < MaxFaults /\ count' = [count EXCEPT !["fault"] = @ + 1]
Event == count["event"] < MaxEvents /\ count' = [count EXCEPT !["event"] = @ + 1]

Filed(a) == subs[a]["new"] + subs[a]["sent"] + subs[a]["done"] + subs[a]["failed"]

(* The WHERE clause: a submission with status 0 or 2. *)
Eligible(a) == a \in ready /\ subs[a]["new"] + subs[a]["done"] > 0
Owed(a) == subs[a]["new"] + subs[a]["failed"]

PageShort(from) ==
    LET above == {a \in Airdrop : a > from /\ Eligible(a)}
    IN {a \in above : Cardinality({b \in above : b > a}) < PageSize - 1}

(* ORDER BY id DESC LIMIT PageSize, of ids above from. *)
Page(from) ==
    LET above == {a \in Airdrop : a > from /\ Eligible(a)}
    IN {a \in above : Cardinality({b \in above : b > a}) < PageSize}

(* So many newer ones qualify that no page reaches a. *)
Crowded(a) == Cardinality({b \in Airdrop : b > a /\ Eligible(b)}) >= PageSize

-----------------------------------------------------------------------------

Init ==
    /\ ready \in SUBSET Airdrop
    /\ subs = [a \in Airdrop |-> [s \in Status |-> 0]]
    /\ start = 0 /\ page = {} /\ end = 0 /\ found = FALSE
    /\ step = "query" /\ interval = 5
    /\ count = [k \in {"fault", "event"} |-> 0]

(* The bot files a submission (its promoter has a main wallet here: those  *)
(* of one who has none are never selected, see AirdropDrop).               *)
File(a) ==
    /\ Filed(a) < MaxSubs
    /\ subs' = [subs EXCEPT ![a]["new"] = @ + 1]
    /\ UNCHANGED <<ready, loop, count>>

(* CheckSubmission: a transaction has its receipt. *)
Check(a) ==
    /\ subs[a]["sent"] > 0
    /\ \E s \in {"done", "failed"} :
          subs' = [subs EXCEPT ![a]["sent"] = 0, ![a][s] = @ + subs[a]["sent"]]
    /\ UNCHANGED <<ready, loop, count>>

(* A view of the airdrop or one of its loops looks at the node and updates *)
(* balance_status, dealer_tx_status or approve_tx_status.                  *)
Ready(a) ==
    /\ Event
    /\ ready' = IF a \in ready THEN ready \ {a} ELSE ready \union {a}
    /\ UNCHANGED <<subs, loop>>

-----------------------------------------------------------------------------

(* Drop returns newDrop, by which DropLoop sleeps.                         *)
Return ==
    /\ step' = "sleep" /\ interval' = IF found THEN 1 ELSE 5
    /\ start' = 0 /\ page' = {} /\ end' = 0 /\ found' = FALSE

(* A page without rows leaves endId at startId and ends the pass.          *)
Query ==
    /\ step = "query"
    /\ IF Page(start) = {} THEN Return
       ELSE /\ page' = Page(start) /\ end' = Min(Page(start))
            /\ found' = TRUE /\ step' = "drop"
            /\ UNCHANGED <<start, interval>>
    /\ UNCHANGED <<ready, subs, count>>

QueryFails ==
    /\ step = "query" /\ Fault
    /\ Return
    /\ UNCHANGED <<ready, subs>>

Treat(a) ==
    /\ step = "drop" /\ page # {} /\ a = Max(page)
    /\ page' = page \ {a}
    /\ UNCHANGED <<ready, start, end, found, step, interval>>

(* DropAirdrop, newest first: its submissions are sent ...                 *)
DropAirdrop(a) ==
    /\ Treat(a)
    /\ subs' = [subs EXCEPT ![a]["sent"] = @ + Owed(a), ![a]["new"] = 0, ![a]["failed"] = 0]
    /\ UNCHANGED count

(* ... or an error leaves them as they were.                               *)
DropAirdropFails(a) ==
    /\ Owed(a) > 0 /\ Fault
    /\ Treat(a)
    /\ UNCHANGED subs

(* startId = endId *)
NextPage ==
    /\ step = "drop" /\ page = {}
    /\ step' = "query" /\ start' = end
    /\ UNCHANGED <<ready, subs, page, end, found, interval, count>>

Wake ==
    /\ step = "sleep"
    /\ step' = "query"
    /\ UNCHANGED <<ready, subs, start, page, end, found, interval, count>>

Drop == Query \/ (\E a \in Airdrop : DropAirdrop(a)) \/ NextPage \/ Wake

Next ==
    \/ Drop
    \/ QueryFails \/ (\E a \in Airdrop : DropAirdropFails(a))
    \/ \E a \in Airdrop : File(a) \/ Check(a) \/ Ready(a)

Spec == Init /\ [][Next]_vars

(* The loop is a goroutine of its own; calls return or time out.           *)
Fairness == WF_vars(Drop)
FairSpec == Spec /\ Fairness

-----------------------------------------------------------------------------

(* What an airdrop owes is sent again and again until nothing new is left, *)
(* if from some time on it qualifies by being ready and fewer than a page  *)
(* of newer ones qualify.  Newer ones that are paid qualify for ever, so   *)
(* the condition fails for good once a page of those exists.               *)
Reached ==
    \A a \in Airdrop :
        <>[](a \in ready /\ ~Crowded(a)) => []<>(subs[a]["new"] = 0)
=============================================================================
