--------------------------- MODULE TrackerProofs ---------------------------
(* Theorems about Tracker for any keys, batch size and number of events.   *)
EXTENDS Tracker, TLAPS

(* A flusher that is not inserting holds nothing, and after the last swap  *)
(* the map stays empty unless an event comes late.                         *)
HeldInv ==
    /\ \A f \in Flushers : pc[f] # "insert" => held[f] = Zero
    /\ run # "stopping" => pc["main"] = "wait"
    /\ run = "down" => mp = Zero /\ pc["ticker"] = "wait"
    /\ pc["main"] # "wait" /\ ~late => mp = Zero

IInv == TypeOK /\ Conserved /\ HeldInv /\ LossHasCause

-----------------------------------------------------------------------------
(* The operators on counts. *)

LEMMA CountTypes ==
    ASSUME NEW f \in [Keys -> Nat], NEW g \in [Keys -> Nat], NEW B
    PROVE  /\ Plus(f, g) \in [Keys -> Nat]
           /\ Only(f, B) \in [Keys -> Nat]
           /\ Without(f, B) \in [Keys -> Nat]
           /\ Zero \in [Keys -> Nat]
BY DEF Plus, Only, Without, Zero

(* Splitting off a batch loses nothing. *)
LEMMA SplitAdds ==
    ASSUME NEW f \in [Keys -> Nat], NEW B, NEW k \in Keys
    PROVE  Only(f, B)[k] + Without(f, B)[k] = f[k]
BY DEF Only, Without

LEMMA AllTaken ==
    ASSUME NEW f \in [Keys -> Nat], NEW B, Entries(f) \subseteq B
    PROVE  Without(f, B) = Zero
BY DEF Entries, Without, Zero

(* One INSERT: a batch leaves a flusher's hands for the table or is lost.  *)
LEMMA InsertEffect ==
    ASSUME NEW f \in Flushers, TypeOK, Insert(f)
    PROVE  \E B \in SUBSET Keys :
              /\ held' = [held EXCEPT ![f] = Without(held[f], B)]
              /\ \/ pc' = pc
                 \/ pc' = [pc EXCEPT ![f] = After(f)] /\ Without(held[f], B) = Zero
              /\ \/ stored' = Plus(stored, Only(held[f], B)) /\ failed' \in {failed, TRUE}
                    /\ UNCHANGED <<lost, doubled>>
                 \/ stored' = Plus(stored, Plus(Only(held[f], B), Only(held[f], B)))
                    /\ doubled' = Plus(doubled, Only(held[f], B)) /\ UNCHANGED <<lost, failed>>
                 \/ lost' = Plus(lost, Only(held[f], B)) /\ failed' = TRUE
                    /\ UNCHANGED <<stored, doubled>>
<1>1. PICK B \in Batches(f) :
          /\ held' = [held EXCEPT ![f] = Without(@, B)]
          /\ pc' = [pc EXCEPT ![f] = IF Entries(held[f]) \subseteq B THEN After(f) ELSE @]
          /\ \/ /\ stored' = Plus(stored, Only(held[f], B)) /\ failed' \in {failed, TRUE}
                /\ UNCHANGED <<lost, doubled>>
             \/ /\ stored' = Plus(stored, Plus(Only(held[f], B), Only(held[f], B)))
                /\ doubled' = Plus(doubled, Only(held[f], B))
                /\ UNCHANGED <<lost, failed>>
             \/ /\ lost' = Plus(lost, Only(held[f], B)) /\ failed' = TRUE
                /\ UNCHANGED <<stored, doubled>>
  BY DEF Insert
<1>2. B \in SUBSET Keys /\ held[f] \in [Keys -> Nat]
  BY <1>1 DEF Batches, Entries, TypeOK
<1>3. pc' = pc \/ (pc' = [pc EXCEPT ![f] = After(f)] /\ Without(held[f], B) = Zero)
  BY <1>1, <1>2, AllTaken DEF TypeOK
<1> QED
  BY <1>1, <1>2, <1>3

-----------------------------------------------------------------------------
(* Types. *)

LEMMA TypeInit == Init => TypeOK
<1> SUFFICES ASSUME Init PROVE TypeOK
  OBVIOUS
<1>1. Zero \in [Keys -> Nat]
  BY DEF Zero
<1>2. {recorded, stored, lost, doubled} \subseteq [Keys -> Nat] /\ mp \in [Keys -> Nat]
  BY <1>1 DEF Init
<1>3. held \in [Flushers -> [Keys -> Nat]]
  BY <1>1 DEF Init
<1>4. pc \in [Flushers -> {"wait", "insert", "exited", "returned"}]
      /\ pc["ticker"] # "returned" /\ pc["main"] # "exited"
  BY DEF Init, Flushers
<1> QED
  BY <1>2, <1>3, <1>4 DEF Init, TypeOK

LEMMA TypeStep == TypeOK /\ [Next]_vars => TypeOK'
<1> SUFFICES ASSUME TypeOK, [Next]_vars PROVE TypeOK'
  OBVIOUS
<1> USE DEF TypeOK, Flushers, ledger, causes
<1>1. ASSUME NEW k \in Keys, Record(k) PROVE TypeOK'
  BY <1>1 DEF Record
<1>2. ASSUME NEW f \in Flushers, Swap(f) PROVE TypeOK'
  <2>1. mp' \in [Keys -> Nat] /\ held' \in [Flushers -> [Keys -> Nat]]
    BY <1>2 DEF Swap, Zero
  <2>2. pc' \in [Flushers -> {"wait", "insert", "exited", "returned"}]
        /\ pc'["ticker"] # "returned" /\ pc'["main"] # "exited"
    BY <1>2 DEF Swap, After
  <2> QED
    BY <1>2, <2>1, <2>2 DEF Swap
<1>3. CASE TickerExit
  BY <1>3 DEF TickerExit
<1>4. CASE Stop
  BY <1>4 DEF Stop
<1>5. ASSUME NEW f \in Flushers, Insert(f) PROVE TypeOK'
  <2>1. PICK B \in SUBSET Keys :
              /\ held' = [held EXCEPT ![f] = Without(held[f], B)]
              /\ \/ pc' = pc
                 \/ pc' = [pc EXCEPT ![f] = After(f)]
              /\ \/ stored' = Plus(stored, Only(held[f], B)) /\ failed' \in {failed, TRUE}
                    /\ UNCHANGED <<lost, doubled>>
                 \/ stored' = Plus(stored, Plus(Only(held[f], B), Only(held[f], B)))
                    /\ doubled' = Plus(doubled, Only(held[f], B)) /\ UNCHANGED <<lost, failed>>
                 \/ lost' = Plus(lost, Only(held[f], B)) /\ failed' = TRUE
                    /\ UNCHANGED <<stored, doubled>>
    BY <1>5, InsertEffect
  <2>2. Only(held[f], B) \in [Keys -> Nat] /\ Without(held[f], B) \in [Keys -> Nat]
    BY CountTypes
  <2>0. Plus(Only(held[f], B), Only(held[f], B)) \in [Keys -> Nat]
    BY <2>2, CountTypes
  <2>3. /\ \A g \in {stored, lost, doubled} : Plus(g, Only(held[f], B)) \in [Keys -> Nat]
        /\ Plus(stored, Plus(Only(held[f], B), Only(held[f], B))) \in [Keys -> Nat]
    BY <2>0, <2>2, CountTypes
  <2>4. {stored', lost', doubled'} \subseteq [Keys -> Nat] /\ failed' \in BOOLEAN
    BY <2>1, <2>3
  <2>5. held' \in [Flushers -> [Keys -> Nat]]
    BY <2>1, <2>2
  <2>6. pc' \in [Flushers -> {"wait", "insert", "exited", "returned"}]
        /\ pc'["ticker"] # "returned" /\ pc'["main"] # "exited"
    BY <2>1 DEF After
  <2> QED
    BY <1>5, <2>4, <2>5, <2>6 DEF Insert
<1>6. ASSUME End, raced' \in BOOLEAN, killed' \in BOOLEAN PROVE TypeOK'
  <2>1. lost' \in [Keys -> Nat]
    BY <1>6, CountTypes DEF End
  <2> QED
    BY <1>6, <2>1 DEF End, Zero
<1>7. CASE Return
  BY <1>6, <1>7 DEF Return
<1>8. CASE Kill
  BY <1>6, <1>8 DEF Kill
<1>9. CASE Start
  BY <1>9 DEF Start
<1>10. CASE UNCHANGED vars
  BY <1>10 DEF vars
<1> QED
  BY <1>1, <1>2, <1>3, <1>4, <1>5, <1>7, <1>8, <1>9, <1>10 DEF Next, Tick, FinalFlush

-----------------------------------------------------------------------------
(* Nothing is dropped or doubled. *)

LEMMA ConservedStep == TypeOK /\ HeldInv /\ Conserved /\ [Next]_vars => Conserved'
<1> SUFFICES ASSUME TypeOK, HeldInv, Conserved, [Next]_vars, NEW k \in Keys
             PROVE  recorded'[k] + doubled'[k] = stored'[k] + lost'[k] + mp'[k] + held'["ticker"][k] + held'["main"][k]
  BY DEF Conserved
<1> USE DEF TypeOK, Flushers, ledger
<1>0. recorded[k] + doubled[k] = stored[k] + lost[k] + mp[k] + held["ticker"][k] + held["main"][k]
  BY DEF Conserved
<1>1. ASSUME NEW j \in Keys, Record(j) PROVE Conserved'
  <2>1. /\ held' = held /\ stored' = stored /\ lost' = lost /\ doubled' = doubled
        /\ recorded' = [recorded EXCEPT ![j] = @ + 1] /\ mp' = [mp EXCEPT ![j] = @ + 1]
    BY <1>1 DEF Record
  <2>2. \A i \in Keys : recorded'[i] - mp'[i] = recorded[i] - mp[i] /\ mp'[i] \in Nat /\ recorded'[i] \in Nat
    BY <2>1
  <2>3. TypeOK'
    BY TypeStep
  <2>4. \A i \in Keys : recorded'[i] + doubled'[i]
                         = stored'[i] + lost'[i] + mp'[i] + held'["ticker"][i] + held'["main"][i]
    BY <2>1, <2>2 DEF Conserved
  <2> QED
    BY <2>4 DEF Conserved
<1>2. ASSUME NEW f \in Flushers, Swap(f) PROVE Conserved'
  <2>1. \A j \in Keys : held[f][j] = 0 /\ mp'[j] = 0
    BY <1>2 DEF Swap, HeldInv, Zero
  <2>2. held' = [held EXCEPT ![f] = mp] /\ UNCHANGED ledger
    BY <1>2 DEF Swap
  <2> QED
    BY <2>1, <2>2 DEF Conserved
<1>3. ASSUME NEW f \in Flushers, Insert(f) PROVE Conserved'
  <2>1. PICK B \in SUBSET Keys :
              /\ held' = [held EXCEPT ![f] = Without(held[f], B)]
              /\ \/ stored' = Plus(stored, Only(held[f], B)) /\ UNCHANGED <<lost, doubled>>
                 \/ stored' = Plus(stored, Plus(Only(held[f], B), Only(held[f], B)))
                    /\ doubled' = Plus(doubled, Only(held[f], B)) /\ lost' = lost
                 \/ lost' = Plus(lost, Only(held[f], B)) /\ UNCHANGED <<stored, doubled>>
    BY <1>3, InsertEffect
  <2>2. \A j \in Keys : Only(held[f], B)[j] + Without(held[f], B)[j] = held[f][j]
    BY SplitAdds
  <2>3. Only(held[f], B) \in [Keys -> Nat] /\ Without(held[f], B) \in [Keys -> Nat]
    BY CountTypes
  <2>4. \A j \in Keys : stored'[j] + lost'[j] + doubled[j]
                         = stored[j] + lost[j] + Only(held[f], B)[j] + doubled'[j]
    BY <2>1, <2>3 DEF Plus
  <2>5. \A j \in Keys : held'["ticker"][j] + held'["main"][j] + Only(held[f], B)[j]
                         = held["ticker"][j] + held["main"][j]
    BY <2>1, <2>2, <2>3
  <2>6. recorded' = recorded /\ mp' = mp
    BY <1>3 DEF Insert
  <2>7. TypeOK'
    BY TypeStep
  <2> QED
    BY <2>3, <2>4, <2>5, <2>6, <2>7 DEF Conserved
<1>4. ASSUME End PROVE Conserved'
  <2>1. /\ UNCHANGED <<recorded, stored, doubled>> /\ mp' = Zero
        /\ held' = [f \in Flushers |-> Zero]
        /\ lost' = Plus(lost, Plus(mp, Plus(held["ticker"], held["main"])))
    BY <1>4 DEF End
  <2>2. \A j \in Keys : lost'[j] = lost[j] + mp[j] + held["ticker"][j] + held["main"][j]
    BY <2>1 DEF Plus
  <2>3. \A j \in Keys : mp'[j] = 0 /\ held'["ticker"][j] = 0 /\ held'["main"][j] = 0
    BY <2>1 DEF Zero
  <2> QED
    BY <2>1, <2>2, <2>3 DEF Conserved
<1>5. CASE Tick \/ FinalFlush \/ Return \/ Kill \/ (\E f \in Flushers : Insert(f))
           \/ (\E j \in Keys : Record(j))
  BY <1>1, <1>2, <1>3, <1>4, <1>5 DEF Tick, FinalFlush, Return, Kill, Conserved
<1>6. CASE TickerExit \/ Stop \/ Start \/ UNCHANGED vars
  BY <1>0, <1>6 DEF TickerExit, Stop, Start, vars
<1> QED
  BY <1>5, <1>6 DEF Next

-----------------------------------------------------------------------------
(* Who holds what, and why anything is lost. *)

LEMMA HeldStep == TypeOK /\ HeldInv /\ [Next]_vars => HeldInv'
<1> SUFFICES ASSUME TypeOK, HeldInv, [Next]_vars PROVE HeldInv'
  OBVIOUS
<1> USE DEF TypeOK, HeldInv, Flushers, ledger, causes
<1>1. ASSUME NEW k \in Keys, Record(k) PROVE HeldInv'
  BY <1>1 DEF Record
<1>2. CASE Tick
  BY <1>2 DEF Tick, Swap, After
<1>3. CASE FinalFlush
  BY <1>3 DEF FinalFlush, Swap, After
<1>4. CASE TickerExit \/ Stop \/ Start \/ UNCHANGED vars
  BY <1>4 DEF TickerExit, Stop, Start, vars
<1>5. ASSUME NEW f \in Flushers, run # "down", Insert(f) PROVE HeldInv'
  <2>1. PICK B \in SUBSET Keys :
              /\ held' = [held EXCEPT ![f] = Without(held[f], B)]
              /\ \/ pc' = pc
                 \/ pc' = [pc EXCEPT ![f] = After(f)] /\ Without(held[f], B) = Zero
    BY <1>5, InsertEffect
  <2>2. UNCHANGED <<run, mp, late>> /\ pc[f] = "insert"
    BY <1>5 DEF Insert
  <2> QED
    BY <1>5, <2>1, <2>2 DEF After
<1>6. CASE Return \/ Kill
  BY <1>6 DEF Return, Kill, End
<1> QED
  BY <1>1, <1>2, <1>3, <1>4, <1>5, <1>6 DEF Next

LEMMA CauseStep == TypeOK /\ HeldInv /\ LossHasCause /\ [Next]_vars => LossHasCause'
<1> SUFFICES ASSUME TypeOK, HeldInv, LossHasCause, [Next]_vars PROVE LossHasCause'
  OBVIOUS
<1>1. CASE lost' = lost /\ (failed => failed') /\ (late => late') /\ (raced => raced') /\ (killed => killed')
  BY <1>1 DEF LossHasCause
<1>2. ASSUME NEW f \in Flushers, Insert(f) PROVE LossHasCause'
  <2>1. CASE failed'
    BY <2>1 DEF LossHasCause
  <2>2. CASE ~failed'
    <3>1. lost' = lost /\ failed' = failed
      BY <1>2, <2>2 DEF Insert
    <3> QED
      BY <1>1, <1>2, <3>1 DEF Insert
  <2> QED
    BY <2>1, <2>2
<1>3. CASE Kill
  BY <1>3 DEF Kill, LossHasCause
<1>4. CASE Return
  <2>1. CASE pc["ticker"] = "insert" \/ late
    BY <1>4, <2>1 DEF Return, End, LossHasCause
  <2>2. CASE pc["ticker"] # "insert" /\ ~late
    <3>1. mp = Zero /\ held["ticker"] = Zero /\ held["main"] = Zero
      BY <1>4, <2>2 DEF Return, HeldInv, Flushers
    <3>2. lost' = Plus(lost, Plus(Zero, Plus(Zero, Zero)))
      BY <1>4, <3>1 DEF Return, End
    <3>3. \A k \in Keys : lost'[k] = lost[k]
      BY <3>2 DEF Plus, Zero, TypeOK
    <3>4. failed' = failed /\ late' = late /\ killed' = killed /\ (raced => raced')
      BY <1>4 DEF Return, End
    <3> QED
      BY <3>3, <3>4 DEF LossHasCause
  <2> QED
    BY <2>1, <2>2
<1>5. ASSUME NEW k \in Keys, Record(k) PROVE LossHasCause'
  BY <1>1, <1>5 DEF Record
<1>6. CASE Tick \/ FinalFlush \/ TickerExit \/ Stop \/ Start \/ UNCHANGED vars
  BY <1>1, <1>6 DEF Tick, FinalFlush, Swap, TickerExit, Stop, Start, vars, ledger, causes
<1> QED
  BY <1>2, <1>3, <1>4, <1>5, <1>6 DEF Next

LEMMA InvInit == Init => IInv
<1> SUFFICES ASSUME Init PROVE IInv
  OBVIOUS
<1>1. Conserved
  BY DEF Init, Conserved, Zero, Flushers
<1>2. HeldInv
  BY DEF Init, HeldInv, Flushers
<1>3. LossHasCause
  BY DEF Init, LossHasCause, Zero
<1> QED
  BY <1>1, <1>2, <1>3, TypeInit DEF IInv

LEMMA InvStep == IInv /\ [Next]_vars => IInv'
BY TypeStep, ConservedStep, HeldStep, CauseStep DEF IInv

-----------------------------------------------------------------------------
(* Every variable keeps its type. *)
THEOREM TypeCorrect == Spec => []TypeOK
<1>1. Init => TypeOK
  BY TypeInit
<1>2. TypeOK /\ [Next]_vars => TypeOK'
  BY TypeStep
<1> QED
  BY <1>1, <1>2, PTL DEF Spec

(* The inductive invariant holds in every reachable state. *)
THEOREM Invariance == Spec => []IInv
<1> QED
  BY InvInit, InvStep, PTL DEF Spec

(* The two flushes, the recorders and the exits account for every event    *)
(* exactly once, whatever the keys, the batch size and the interleaving.   *)
THEOREM Conservation == Spec => []Conserved
<1>1. IInv => Conserved
  BY DEF IInv
<1> QED
  BY <1>1, Invariance, PTL

(* A shutdown loses an event only for one of the four named reasons.       *)
THEOREM LossExplained == Spec => []LossHasCause
<1>1. IInv => LossHasCause
  BY DEF IInv
<1> QED
  BY <1>1, Invariance, PTL

(* Every step of the tracker is a step of the ledger or leaves it alone.   *)
LEMMA LedgerStep == IInv /\ IInv' /\ [Next]_vars => [Promise!Next]_(Promise!ledger)
<1> SUFFICES ASSUME IInv, IInv', [Next]_vars, ~UNCHANGED ledger
             PROVE  Promise!Next
  BY DEF Promise!ledger, ledger
<1> USE DEF IInv, TypeOK
<1>1. \A k \in Keys : stored'[k] + lost'[k] <= recorded'[k] + doubled'[k]
  BY DEF Conserved, Flushers
<1>2. ASSUME NEW k \in Keys, Record(k) PROVE Promise!Next
  BY <1>2 DEF Record, Promise!Next, Promise!Record
<1>3. ASSUME UNCHANGED <<recorded, stored, doubled>>, \A k \in Keys : lost[k] <= lost'[k]
      PROVE  Promise!Lose
  BY <1>1, <1>3 DEF Promise!Lose
<1>4. ASSUME UNCHANGED <<recorded, lost>>,
             \A k \in Keys : /\ doubled'[k] - doubled[k] >= 0
                             /\ stored[k] + 2 * (doubled'[k] - doubled[k]) <= stored'[k]
      PROVE  Promise!Store
  BY <1>1, <1>4 DEF Promise!Store
<1>5. ASSUME NEW f \in Flushers, Insert(f) PROVE Promise!Next
  <2>1. PICK B \in SUBSET Keys :
              \/ stored' = Plus(stored, Only(held[f], B)) /\ UNCHANGED <<lost, doubled>>
              \/ stored' = Plus(stored, Plus(Only(held[f], B), Only(held[f], B)))
                 /\ doubled' = Plus(doubled, Only(held[f], B)) /\ lost' = lost
              \/ lost' = Plus(lost, Only(held[f], B)) /\ UNCHANGED <<stored, doubled>>
    BY <1>5, InsertEffect
  <2>2. Only(held[f], B) \in [Keys -> Nat] /\ recorded' = recorded
    BY <1>5, CountTypes DEF Insert
  <2>3. CASE lost' # lost
    <3>1. \A k \in Keys : lost[k] <= lost'[k]
      BY <2>1, <2>2, <2>3 DEF Plus
    <3> QED
      BY <1>3, <2>1, <2>2, <2>3, <3>1 DEF Promise!Next
  <2>4. CASE lost' = lost
    <3>1. \A k \in Keys : /\ doubled'[k] - doubled[k] >= 0
                          /\ stored[k] + 2 * (doubled'[k] - doubled[k]) <= stored'[k]
      <4> TAKE k \in Keys
      <4>1. Only(held[f], B)[k] \in Nat /\ stored[k] \in Nat /\ doubled[k] \in Nat /\ lost[k] \in Nat
        BY <2>2
      <4>2. CASE stored' = Plus(stored, Only(held[f], B)) /\ doubled' = doubled
        BY <4>1, <4>2 DEF Plus
      <4>3. CASE stored' = Plus(stored, Plus(Only(held[f], B), Only(held[f], B)))
                 /\ doubled' = Plus(doubled, Only(held[f], B))
        BY <4>1, <4>3 DEF Plus
      <4>4. CASE stored' = stored /\ doubled' = doubled
        BY <4>1, <4>4
      <4> QED
        BY <2>1, <4>2, <4>3, <4>4
    <3> QED
      BY <1>4, <2>2, <2>4, <3>1 DEF Promise!Next
  <2> QED
    BY <2>3, <2>4
<1>6. CASE Return \/ Kill
  <2>1. UNCHANGED <<recorded, stored, doubled>>
    BY <1>6 DEF Return, Kill, End
  <2>2. \A k \in Keys : lost'[k] = lost[k] + (mp[k] + (held["ticker"][k] + held["main"][k]))
    BY <1>6 DEF Return, Kill, End, Plus
  <2>3. \A k \in Keys : lost[k] <= lost'[k]
    BY <2>2 DEF Flushers
  <2> QED
    BY <1>3, <2>1, <2>3 DEF Promise!Next
<1>7. CASE Tick \/ FinalFlush \/ TickerExit \/ Stop \/ Start \/ UNCHANGED vars
  BY <1>7 DEF Tick, FinalFlush, Swap, TickerExit, Stop, Start, vars
<1> QED
  BY <1>2, <1>5, <1>6, <1>7 DEF Next

(* The tracker implements the ledger: what is stored or lost stays so, and *)
(* together they never exceed what was recorded.                           *)
THEOREM ImplementsLedger == Spec => KeepsPromise
<1>1. Init => Promise!Init
  BY DEF Init, Promise!Init, Zero, Promise!Zero
<1>2. Spec => Promise!Init /\ [][Promise!Next]_(Promise!ledger)
  BY <1>1, LedgerStep, Invariance, PTL DEF Spec
<1> QED
  BY <1>2 DEF KeepsPromise, Promise!Spec
=============================================================================
