--------------------------- MODULE WalletsProofs ---------------------------
(***************************************************************************)
(* Theorems about the two halves of MCWallets: the nonces of a wallet, for *)
(* any number of senders and any bound, and the cash of the users, for any *)
(* finite tables and any number of requests at a time.                     *)
(***************************************************************************)
EXTENDS MCWallets, FiniteSetTheorems, WellFoundedInduction, TLAPS

LEMMA TypeInit == Init => TypeOK
<1> SUFFICES ASSUME Init PROVE TypeOK
  OBVIOUS
<1>1. saved \in Nat /\ mined \in Nat /\ pend \in Nat /\ pool \subseteq Nat
  BY DEF Init
<1>2. lock \in Senders \union {NoOne}
  BY DEF Init
<1>3. pc \in [Senders -> PCs]
  BY DEF Init, PCs
<1>4. seen \in [Senders -> Nat] /\ nonce \in [Senders -> Nat]
  BY DEF Init
<1>5. overlap \subseteq {"counted", "direct"} /\ replaced \in BOOLEAN /\ evicted \in BOOLEAN
  BY DEF Init
<1> QED
  BY <1>1, <1>2, <1>3, <1>4, <1>5 DEF TypeOK

LEMMA TypeStep == TypeOK /\ [Next]_vars => TypeOK'
<1> SUFFICES ASSUME TypeOK, [Next]_vars
             PROVE  TypeOK'
  OBVIOUS
<1> USE DEF TypeOK, PCs, senderVars, nodeVars, history
<1>1. ASSUME NEW s \in Senders, NonceGet(s) PROVE TypeOK'
  BY <1>1 DEF NonceGet
<1>2. ASSUME NEW s \in Senders, NonceFail(s) PROVE TypeOK'
  BY <1>2 DEF NonceFail, Done
<1>3. ASSUME NEW s \in Senders, NonceReturn(s) PROVE TypeOK'
  BY <1>3 DEF NonceReturn, RecordOverlap
<1>4. ASSUME NEW s \in Senders, PendingNonce(s) PROVE TypeOK'
  BY <1>4 DEF PendingNonce, RecordOverlap
<1>5. ASSUME NEW s \in Senders, Send(s) PROVE TypeOK'
  <2>1. SentNonce(s) \in Nat
    BY DEF SentNonce
  <2>2. pend' \in Nat /\ pool' \subseteq Nat /\ replaced' \in BOOLEAN /\ mined' = mined
    <3>1. Accept(SentNonce(s))
      BY <1>5 DEF Send
    <3>2. pool' \subseteq Nat
      BY <2>1, <3>1 DEF Accept
    <3>3. pend' \in Nat
      <4>1. CASE SentNonce(s) = pend
        <5>1. PICK k \in (SentNonce(s) + 1)..(MaxNonce + 1) : pend' = k
          BY <3>1, <4>1 DEF Accept
        <5> QED
          BY <2>1, <5>1, MaxNonceAssumption
      <4>2. CASE SentNonce(s) # pend
        BY <3>1, <4>2 DEF Accept
      <4> QED
        BY <4>1, <4>2
    <3>4. replaced' \in BOOLEAN
      BY <3>1 DEF Accept
    <3> QED
      BY <3>1, <3>2, <3>3, <3>4 DEF Accept
  <2> QED
    BY <1>5, <2>2 DEF Send, Done
<1>6. ASSUME NEW s \in Senders, SendFails(s) PROVE TypeOK'
  BY <1>6 DEF SendFails, Done
<1>7. ASSUME NEW s \in Senders, NonceIncr(s) PROVE TypeOK'
  BY <1>7, MaxNonceAssumption DEF NonceIncr, Done
<1>8. CASE Restart
  BY <1>8 DEF Restart
<1>9. CASE Mine
  BY <1>9 DEF Mine
<1>10. ASSUME NEW n \in 0..MaxNonce, Evict(n) PROVE TypeOK'
  BY <1>10 DEF Evict
<1>11. CASE UNCHANGED vars
  BY <1>11 DEF vars
<1> QED
  BY <1>1, <1>2, <1>3, <1>4, <1>5, <1>6, <1>7, <1>8, <1>9, <1>10, <1>11
     DEF Next, SenderStep

(* Every variable keeps its type, for any senders and any bound. *)
THEOREM TypeCorrect == Spec => []TypeOK
  BY TypeInit, TypeStep, PTL DEF Spec

-----------------------------------------------------------------------------
(* What the lock gives: whoever is between GET and SET holds it, and the   *)
(* value it read is still the one saved.                                   *)
LockInv ==
    \A s \in Senders :
        /\ pc[s] \in {"get", "getDown"} => lock = s
        /\ pc[s] = "get" => seen[s] = saved
        /\ pc[s] = "getDown" => seen[s] = 0
        /\ pc[s] \in {"get", "getDown", "incr"} => s \in Counted

LEMMA LockInit == Init => LockInv
  BY DEF Init, LockInv

LEMMA LockStep == TypeOK /\ LockInv /\ [Next]_vars => LockInv'
<1> SUFFICES ASSUME TypeOK, LockInv, [Next]_vars
             PROVE  LockInv'
  OBVIOUS
<1> USE SendersAssumption DEF TypeOK, LockInv, senderVars, nodeVars, history
<1>1. ASSUME NEW s \in Senders, NonceGet(s) PROVE LockInv'
  BY <1>1 DEF NonceGet
<1>2. ASSUME NEW s \in Senders, NonceFail(s) PROVE LockInv'
  BY <1>2 DEF NonceFail, Done
<1>3. ASSUME NEW s \in Senders, NonceReturn(s) PROVE LockInv'
  BY <1>3 DEF NonceReturn
<1>4. ASSUME NEW s \in Senders, PendingNonce(s) PROVE LockInv'
  BY <1>4 DEF PendingNonce
<1>5. ASSUME NEW s \in Senders, Send(s) PROVE LockInv'
  BY <1>5 DEF Send, Done
<1>6. ASSUME NEW s \in Senders, SendFails(s) PROVE LockInv'
  BY <1>6 DEF SendFails, Done
<1>7. ASSUME NEW s \in Senders, NonceIncr(s) PROVE LockInv'
  BY <1>7 DEF NonceIncr, Done
<1>8. CASE Restart
  BY <1>8 DEF Restart
<1>9. CASE Mine
  BY <1>9 DEF Mine
<1>10. ASSUME NEW n \in 0..MaxNonce, Evict(n) PROVE LockInv'
  BY <1>10 DEF Evict
<1>11. CASE UNCHANGED vars
  BY <1>11 DEF vars
<1> QED
  BY <1>1, <1>2, <1>3, <1>4, <1>5, <1>6, <1>7, <1>8, <1>9, <1>10, <1>11
     DEF Next, SenderStep

(* The counter never goes back: an action property of the locking.         *)
THEOREM CounterMonotone == Spec => SavedNeverDecreases
<1>1. TypeOK /\ LockInv /\ [Next]_vars => [saved' >= saved]_saved
  <2> SUFFICES ASSUME TypeOK, LockInv, [Next]_vars
               PROVE  saved' >= saved
    OBVIOUS
  <2> USE DEF TypeOK, LockInv, senderVars, nodeVars, history
  <2>1. ASSUME NEW s \in Senders, NonceReturn(s) PROVE saved' >= saved
    BY <2>1 DEF NonceReturn
  <2>2. ASSUME NEW s \in Senders, NonceIncr(s) PROVE saved' >= saved
    BY <2>2, MaxNonceAssumption DEF NonceIncr
  <2>3. ASSUME NEW s \in Senders,
               \/ NonceGet(s) \/ NonceFail(s) \/ PendingNonce(s)
               \/ Send(s) \/ SendFails(s)
        PROVE  saved' >= saved
    BY <2>3 DEF NonceGet, NonceFail, PendingNonce, Send, SendFails
  <2>4. ASSUME \/ Restart \/ Mine \/ (\E n \in 0..MaxNonce : Evict(n))
               \/ UNCHANGED vars
        PROVE  saved' >= saved
    BY <2>4 DEF Restart, Mine, Evict, vars
  <2> QED
    BY <2>1, <2>2, <2>3, <2>4 DEF Next, SenderStep
<1> QED
  BY <1>1, TypeInit, TypeStep, LockInit, LockStep, PTL
     DEF Spec, SavedNeverDecreases
-----------------------------------------------------------------------------
(* PendingNonceAt answers a nonce that has no transaction in the pool.     *)
NodeInv == pend \notin pool /\ mined <= pend /\ \A i \in pool : mined <= i

LEMMA AcceptPend ==
    ASSUME TypeOK, NodeInv, NEW n \in Nat, Accept(n)
    PROVE  NodeInv' /\ pend' >= pend /\ (n = pend => pend' > pend)
<1> USE MaxNonceAssumption DEF TypeOK, NodeInv
<1>1. CASE n = pend
  <2>1. PICK k \in (n + 1)..(MaxNonce + 1) : k \notin pool /\ pend' = k
    BY <1>1 DEF Accept
  <2> QED
    BY <1>1, <2>1 DEF Accept
<1>2. CASE n # pend
  BY <1>2 DEF Accept
<1> QED
  BY <1>1, <1>2

LEMMA NodeStep == TypeOK /\ NodeInv /\ [Next]_vars => NodeInv'
<1> SUFFICES ASSUME TypeOK, NodeInv, [Next]_vars
             PROVE  NodeInv'
  OBVIOUS
<1>1. ASSUME NEW s \in Senders, Send(s) PROVE NodeInv'
  <2>1. SentNonce(s) \in Nat
    BY DEF SentNonce, TypeOK
  <2> QED
    BY <1>1, <2>1, AcceptPend DEF Send
<1>2. CASE Mine
  BY <1>2 DEF Mine, NodeInv, TypeOK
<1>3. ASSUME NEW n \in 0..MaxNonce, Evict(n) PROVE NodeInv'
  BY <1>3, MaxNonceAssumption DEF Evict, NodeInv, TypeOK
<1>4. ASSUME UNCHANGED nodeVars PROVE NodeInv'
  BY <1>4 DEF nodeVars, NodeInv
<1> QED
  BY <1>1, <1>2, <1>3, <1>4
     DEF Next, SenderStep, NonceGet, NonceFail, NonceReturn, PendingNonce,
         SendFails, NonceIncr, Restart, vars

-----------------------------------------------------------------------------
(* The strengthening behind NoGapWithoutOverlap: counted windows are       *)
(* disjoint; a nonce in hand lies between the counter and the node's       *)
(* answer; and after an accepted send the counter has room for its INCR.   *)
Apart(S) == \A s, t \in S : s # t => ~(InWindow(s) /\ InWindow(t))

GapInv ==
    "counted" \notin overlap /\ ~evicted =>
        /\ saved <= pend
        /\ Apart(Counted)
        /\ \A s \in Counted : pc[s] = "send" => saved <= nonce[s] /\ nonce[s] <= pend
        /\ \A s \in Counted : pc[s] = "incr" => saved < pend

LEMMA GapStep == TypeOK /\ LockInv /\ NodeInv /\ GapInv /\ [Next]_vars => GapInv'
<1> SUFFICES ASSUME TypeOK, LockInv, NodeInv, GapInv, [Next]_vars,
                    "counted" \notin overlap', ~evicted'
             PROVE  GapInv'
  BY DEF GapInv
<1>0. "counted" \notin overlap /\ ~evicted
  BY DEF Next, SenderStep, NonceGet, NonceFail, NonceReturn, PendingNonce, Send,
         SendFails, NonceIncr, Restart, Mine, Evict, RecordOverlap, vars, history
<1> USE <1>0 DEF GapInv, Apart, InWindow, Senders, TypeOK, senderVars, nodeVars, history
<1>1. ASSUME NEW s \in Senders, NonceGet(s) PROVE GapInv'
  BY <1>1 DEF NonceGet
<1>2. ASSUME NEW s \in Senders, NonceFail(s) PROVE GapInv'
  BY <1>2 DEF NonceFail, Done
<1>3. ASSUME NEW s \in Senders, NonceReturn(s) PROVE GapInv'
  <2>1. s \in Counted /\ \A t \in Counted \ {s} : ~InWindow(t)
    BY <1>3 DEF NonceReturn, RecordOverlap, LockInv
  <2>2. seen[s] <= saved
    BY <1>3 DEF NonceReturn, LockInv
  <2>3. nonce'[s] = pend /\ saved' <= pend
    BY <1>3, <2>2 DEF NonceReturn
  <2>4. \A t \in Counted \ {s} : pc'[t] = pc[t] /\ nonce'[t] = nonce[t]
    BY <1>3 DEF NonceReturn
  <2>5. \A t \in Counted : pc'[t] \in {"send", "incr"} => t = s
    BY <2>1, <2>4
  <2> QED
    BY <1>3, <2>1, <2>3, <2>5 DEF NonceReturn
<1>4. ASSUME NEW s \in Senders, PendingNonce(s) PROVE GapInv'
  <2>1. \A t \in Counted : t # s
    BY <1>4, SendersAssumption DEF PendingNonce
  <2>2. \A t \in Counted : pc'[t] = pc[t] /\ nonce'[t] = nonce[t]
    BY <1>4, <2>1 DEF PendingNonce
  <2> QED
    BY <1>4, <2>2 DEF PendingNonce
<1>5. ASSUME NEW s \in Senders, Send(s) PROVE GapInv'
  <2>1. SentNonce(s) \in Nat
    BY DEF SentNonce
  <2>2. pend' \in Nat /\ pend' >= pend /\ (SentNonce(s) = pend => pend' > pend)
    <3>1. TypeOK'
      BY TypeStep
    <3> QED
      BY <1>5, <2>1, <3>1, AcceptPend DEF Send
  <2>3. s \in Counted => saved < pend'
    BY <1>5, <2>1, <2>2 DEF Send, SentNonce
  <2> QED
    BY <1>5, <2>2, <2>3 DEF Send, Done
<1>6. ASSUME NEW s \in Senders, SendFails(s) PROVE GapInv'
  BY <1>6 DEF SendFails, Done
<1>7. ASSUME NEW s \in Senders, NonceIncr(s) PROVE GapInv'
  <2>1. s \in Counted /\ saved < pend
    BY <1>7 DEF NonceIncr, LockInv
  <2>2. saved' \in Nat /\ saved' <= pend
    BY <1>7, <2>1, MaxNonceAssumption DEF NonceIncr
  <2> QED
    BY <1>7, <2>1, <2>2 DEF NonceIncr, Done
<1>8. CASE Restart
  BY <1>8 DEF Restart
<1>9. CASE Mine
  BY <1>9 DEF Mine
<1>10. ASSUME NEW n \in 0..MaxNonce, Evict(n) PROVE GapInv'
  BY <1>10 DEF Evict
<1>11. CASE UNCHANGED vars
  BY <1>11 DEF vars
<1> QED
  BY <1>1, <1>2, <1>3, <1>4, <1>5, <1>6, <1>7, <1>8, <1>9, <1>10, <1>11
     DEF Next, SenderStep

(* No nonce is skipped unless two counted windows overlap or the node      *)
(* evicts: for every number of senders, with lost answers, failed INCRs,   *)
(* redis outages, direct senders and restarts.                             *)
THEOREM NoGap == Spec => []NoGapWithoutOverlap
<1>1. Init => NodeInv /\ GapInv
  BY DEF Init, NodeInv, GapInv, Apart, InWindow, Senders
<1>2. GapInv => NoGapWithoutOverlap
  BY DEF GapInv, NoGapWithoutOverlap
<1> QED
  BY <1>1, <1>2, TypeInit, TypeStep, LockInit, LockStep, NodeStep, GapStep, PTL DEF Spec

-----------------------------------------------------------------------------
(* The strengthening behind NoReplacementWithoutOverlap: with no overlap   *)
(* of any kind, whoever is about to send holds exactly the nonce the node  *)
(* would answer now, and that nonce has no transaction.                    *)
FreshInv ==
    overlap = {} /\ ~evicted =>
        /\ ~replaced
        /\ Apart(Senders)
        /\ \A s \in Senders : pc[s] = "send" => nonce[s] = pend

LEMMA FreshStep ==
    TypeOK /\ LockInv /\ NodeInv /\ GapInv /\ FreshInv /\ [Next]_vars => FreshInv'
<1> SUFFICES ASSUME TypeOK, LockInv, NodeInv, GapInv, FreshInv, [Next]_vars,
                    overlap' = {}, ~evicted'
             PROVE  FreshInv'
  BY DEF FreshInv
<1>0. overlap = {} /\ ~evicted
  BY DEF Next, SenderStep, NonceGet, NonceFail, NonceReturn, PendingNonce, Send,
         SendFails, NonceIncr, Restart, Mine, Evict, RecordOverlap, vars, history
<1> USE <1>0 DEF FreshInv, Apart, InWindow, TypeOK, senderVars, nodeVars, history
<1>1. ASSUME NEW s \in Senders, NonceGet(s) PROVE FreshInv'
  BY <1>1 DEF NonceGet
<1>2. ASSUME NEW s \in Senders, NonceFail(s) PROVE FreshInv'
  BY <1>2 DEF NonceFail, Done
<1>3. ASSUME NEW s \in Senders, NonceReturn(s) PROVE FreshInv'
  <2>1. \A t \in Senders \ {s} : ~InWindow(t)
    BY <1>3 DEF NonceReturn, RecordOverlap, Senders
  <2>2. saved <= pend
    BY DEF GapInv
  <2>3. seen[s] <= pend
    BY <1>3, <2>2 DEF NonceReturn, LockInv
  <2> QED
    BY <1>3, <2>1, <2>3 DEF NonceReturn
<1>4. ASSUME NEW s \in Senders, PendingNonce(s) PROVE FreshInv'
  <2>1. \A t \in Senders \ {s} : ~InWindow(t)
    BY <1>4 DEF PendingNonce, RecordOverlap, Senders
  <2> QED
    BY <1>4, <2>1 DEF PendingNonce
<1>5. ASSUME NEW s \in Senders, Send(s) PROVE FreshInv'
  <2>1. SentNonce(s) = pend
    BY <1>5 DEF Send, SentNonce
  <2>2. ~replaced'
    BY <1>5, <2>1 DEF Send, Accept, NodeInv
  <2>3. \A t \in Senders \ {s} : ~InWindow(t)
    BY <1>5 DEF Send
  <2> QED
    BY <1>5, <2>2, <2>3 DEF Send, Done
<1>6. ASSUME NEW s \in Senders, SendFails(s) PROVE FreshInv'
  BY <1>6 DEF SendFails, Done
<1>7. ASSUME NEW s \in Senders, NonceIncr(s) PROVE FreshInv'
  BY <1>7 DEF NonceIncr, Done
<1>8. CASE Restart
  BY <1>8 DEF Restart
<1>9. CASE Mine
  BY <1>9 DEF Mine
<1>10. ASSUME NEW n \in 0..MaxNonce, Evict(n) PROVE FreshInv'
  BY <1>10 DEF Evict
<1>11. CASE UNCHANGED vars
  BY <1>11 DEF vars
<1> QED
  BY <1>1, <1>2, <1>3, <1>4, <1>5, <1>6, <1>7, <1>8, <1>9, <1>10, <1>11
     DEF Next, SenderStep

(* No accepted transaction is replaced unless windows overlap or the node  *)
(* evicts one, for every number of counted and direct senders.             *)
THEOREM NoReplacement == Spec => []NoReplacementWithoutOverlap
<1>1. Init => NodeInv /\ GapInv /\ FreshInv
  BY DEF Init, NodeInv, GapInv, FreshInv, Apart, InWindow, Senders
<1>2. FreshInv => NoReplacementWithoutOverlap
  BY DEF FreshInv, NoReplacementWithoutOverlap
<1> QED
  BY <1>1, <1>2, TypeInit, TypeStep, LockInit, LockStep, NodeStep, GapStep, FreshStep,
     PTL DEF Spec

-----------------------------------------------------------------------------
(* A gap is permanent for counted senders: only a nonce that did not come  *)
(* from the counter can close it, whatever the interleaving.               *)
THEOREM GapPermanent == Spec => GapNeverHeals
<1> DEFINE Bypass == \/ \E d \in Direct : pc[d] = "send" /\ pc'[d] = "idle"
                     \/ \E s \in Counted : pc[s] = "getDown" /\ pc'[s] = "send"
<1>1. TypeOK /\ LockInv /\ [Next]_vars => [Gap => Gap' \/ Bypass]_vars
  <2> SUFFICES ASSUME TypeOK, LockInv, Next, Gap, ~Bypass
               PROVE  Gap'
    BY DEF Gap, vars, senderVars, nodeVars
  <2> USE DEF TypeOK, Gap, Senders, senderVars, nodeVars, history
  <2>1. ASSUME NEW s \in Senders, NonceGet(s) PROVE Gap'
    BY <2>1 DEF NonceGet
  <2>2. ASSUME NEW s \in Senders, NonceFail(s) PROVE Gap'
    BY <2>2 DEF NonceFail, Done
  <2>3. ASSUME NEW s \in Senders, NonceReturn(s) PROVE Gap'
    <3>1. s \in Counted /\ pc'[s] = "send"
      BY <2>3 DEF NonceReturn, LockInv
    <3>2. pc[s] = "get" /\ seen[s] = saved
      BY <2>3, <3>1 DEF NonceReturn, LockInv
    <3>3. nonce'[s] = saved /\ saved' = saved /\ pend' = pend
      BY <2>3, <3>2 DEF NonceReturn
    <3> QED
      BY <2>3, <3>3 DEF NonceReturn
  <2>4. ASSUME NEW s \in Senders, PendingNonce(s) PROVE Gap'
    <3>1. \A t \in Counted : pc'[t] = pc[t] /\ nonce'[t] = nonce[t]
      BY <2>4, SendersAssumption DEF PendingNonce
    <3> QED
      BY <2>4, <3>1 DEF PendingNonce
  <2>5. ASSUME NEW s \in Senders, Send(s) PROVE Gap'
    <3>1. s \in Counted
      BY <2>5 DEF Send, Done
    <3>2. SentNonce(s) > pend
      BY <2>5, <3>1 DEF Send, SentNonce
    <3>3. pend' = pend
      BY <2>5, <3>2 DEF Send, Accept
    <3> QED
      BY <2>5, <3>3 DEF Send, Done
  <2>6. ASSUME NEW s \in Senders, SendFails(s) PROVE Gap'
    BY <2>6 DEF SendFails, Done
  <2>7. ASSUME NEW s \in Senders, NonceIncr(s) PROVE Gap'
    BY <2>7, MaxNonceAssumption DEF NonceIncr, Done
  <2>8. CASE Restart
    BY <2>8 DEF Restart
  <2>9. CASE Mine
    BY <2>9 DEF Mine
  <2>10. ASSUME NEW n \in 0..MaxNonce, Evict(n) PROVE Gap'
    BY <2>10 DEF Evict
  <2> QED
    BY <2>1, <2>2, <2>3, <2>4, <2>5, <2>6, <2>7, <2>8, <2>9, <2>10
       DEF Next, SenderStep
<1> QED
  BY <1>1, TypeInit, TypeStep, LockInit, LockStep, PTL DEF Spec, GapNeverHeals

-----------------------------------------------------------------------------
(***************************************************************************)
(* Sums.  The fold takes the elements in an order of its own; a sum is     *)
(* what counting coins gives, so that it may take any element first.  The  *)
(* induction is over finite sets: of the subsets that a statement is not   *)
(* true of, one has no smaller one.                                        *)
(***************************************************************************)

Sum(f, S) == Cash!SumFunctionOnSet(f, S)

LEMMA SetsInduct ==
    ASSUME NEW S, IsFiniteSet(S), NEW P,
           \A T \in SUBSET S : (\A R \in SUBSET T : R # T => R \in P) => T \in P
    PROVE  \A T \in SUBSET S : T \in P
<1> DEFINE Bad == {T \in SUBSET S : T \notin P}
<1> SUFFICES ASSUME Bad # {} PROVE FALSE
  OBVIOUS
<1>1. Bad \subseteq FiniteSubsetsOf(S)
  <2>1. FiniteSubsetsOf(S) = SUBSET S
    BY FS_FiniteSubsetsOfFinite
  <2>2. Bad \subseteq SUBSET S
    OBVIOUS
  <2> QED
    BY <2>1, <2>2
<1>2. PICK T \in Bad : \A R \in Bad : <<R, T>> \notin StrictSubsetOrdering(S)
  <2>1. IsWellFoundedOn(StrictSubsetOrdering(S), FiniteSubsetsOf(S))
    BY FS_StrictSubsetOrderingWellFounded
  <2> HIDE DEF Bad
  <2> QED
    BY <1>1, <2>1, WFMin
<1>3. \A R \in SUBSET T : R # T => R \in P
  <2> SUFFICES ASSUME NEW R \in SUBSET T, R # T, R \notin P PROVE FALSE
    OBVIOUS
  <2>1. R \in Bad
    BY <1>2
  <2>2. <<R, T>> \in StrictSubsetOrdering(S)
    BY <1>2 DEF StrictSubsetOrdering
  <2> QED
    BY <1>2, <2>1, <2>2
<1> QED
  BY <1>2, <1>3

(* Adding one element at a time.                                           *)
LEMMA SetsGrow ==
    ASSUME NEW S, IsFiniteSet(S), NEW P, {} \in P,
           \A T \in SUBSET S, x \in S : T \in P /\ x \notin T => T \union {x} \in P
    PROVE  S \in P
<1>1. ASSUME NEW T \in SUBSET S, \A R \in SUBSET T : R # T => R \in P
      PROVE  T \in P
  <2>1. CASE T = {}
    BY <2>1
  <2>2. CASE T # {}
    <3>1. PICK x \in T : TRUE
      BY <2>2
    <3>2. T \ {x} \in P /\ x \notin T \ {x} /\ T \ {x} \in SUBSET S /\ x \in S
      BY <1>1, <3>1
    <3>3. (T \ {x}) \union {x} = T
      BY <3>1
    <3> QED
      BY <3>2, <3>3
  <2> QED
    BY <2>1, <2>2
<1>2. \A T \in SUBSET S : T \in P
  BY <1>1, SetsInduct
<1> QED
  BY <1>2

Coins(f, T) == UNION {{x} \X (1..f[x]) : x \in T}
Debts(f, T) == UNION {{x} \X (1..(-f[x])) : x \in T}
Counting(f, T) == Cardinality(Coins(f, T)) - Cardinality(Debts(f, T))

LEMMA RowOfCoins ==
    ASSUME NEW x, NEW n \in Int
    PROVE  IsFiniteSet({x} \X (1..n)) /\ Cardinality({x} \X (1..n)) = IF n > 0 THEN n ELSE 0
<1>1. IsFiniteSet({x}) /\ Cardinality({x}) = 1
  BY FS_Singleton
<1>2. IsFiniteSet(1..n) /\ Cardinality(1..n) = IF n > 0 THEN n ELSE 0
  BY FS_Interval
<1>3. /\ IsFiniteSet({x} \X (1..n))
      /\ Cardinality({x} \X (1..n)) = Cardinality({x}) * Cardinality(1..n)
  BY <1>1, <1>2, FS_Product
<1> QED
  BY <1>1, <1>2, <1>3

LEMMA JoinApart ==
    ASSUME NEW S, IsFiniteSet(S), NEW T, IsFiniteSet(T), S \intersect T = {}
    PROVE  /\ IsFiniteSet(S \union T)
           /\ Cardinality(S \union T) = Cardinality(S) + Cardinality(T)
<1>1. /\ IsFiniteSet(S \union T)
      /\ Cardinality(S \union T) = Cardinality(S) + Cardinality(T) - Cardinality(S \intersect T)
  BY FS_Union
<1>2. Cardinality(S \intersect T) = 0
  BY FS_EmptySet
<1>3. Cardinality(S) \in Nat /\ Cardinality(T) \in Nat
  BY FS_CardinalityType
<1> QED
  BY <1>1, <1>2, <1>3

LEMMA CoinsFinite ==
    ASSUME NEW S, IsFiniteSet(S), NEW f, \A x \in S : f[x] \in Int
    PROVE  \A T \in SUBSET S : IsFiniteSet(Coins(f, T)) /\ IsFiniteSet(Debts(f, T))
<1> DEFINE P == {T \in SUBSET S : IsFiniteSet(Coins(f, T)) /\ IsFiniteSet(Debts(f, T))}
<1>1. ASSUME NEW T \in SUBSET S, \A R \in SUBSET T : R # T => R \in P
      PROVE  T \in P
  <2>1. CASE T = {}
    <3>1. Coins(f, T) = {} /\ Debts(f, T) = {}
      BY <2>1 DEF Coins, Debts
    <3> QED
      BY <3>1, FS_EmptySet
  <2>2. CASE T # {}
    <3>1. PICK x \in T : TRUE
      BY <2>2
    <3>2. IsFiniteSet(Coins(f, T \ {x})) /\ IsFiniteSet(Debts(f, T \ {x}))
      BY <1>1, <3>1
    <3>3. /\ Coins(f, T) = Coins(f, T \ {x}) \union ({x} \X (1..f[x]))
          /\ Debts(f, T) = Debts(f, T \ {x}) \union ({x} \X (1..(-f[x])))
      BY <3>1 DEF Coins, Debts
    <3>4. f[x] \in Int /\ -f[x] \in Int
      BY <3>1
    <3>5. IsFiniteSet({x} \X (1..f[x])) /\ IsFiniteSet({x} \X (1..(-f[x])))
      BY <3>4, RowOfCoins
    <3>6. IsFiniteSet(Coins(f, T)) /\ IsFiniteSet(Debts(f, T))
      <4>1. IsFiniteSet(Coins(f, T \ {x}) \union ({x} \X (1..f[x])))
        BY <3>2, <3>5, FS_Union
      <4>2. IsFiniteSet(Debts(f, T \ {x}) \union ({x} \X (1..(-f[x]))))
        BY <3>2, <3>5, FS_Union
      <4> QED
        BY <3>3, <4>1, <4>2
    <3> QED
      BY <3>6
  <2> QED
    BY <2>1, <2>2
<1>2. \A T \in SUBSET S : T \in P
  <2> HIDE DEF P
  <2> QED
    BY <1>1, SetsInduct
<1> QED
  BY <1>2

LEMMA CountingAdds ==
    ASSUME NEW S, IsFiniteSet(S), NEW f, \A x \in S : f[x] \in Int
    PROVE  /\ Counting(f, {}) = 0
           /\ \A T \in SUBSET S : Counting(f, T) \in Int
           /\ \A T \in SUBSET S, x \in S :
                 x \in T => Counting(f, T) = f[x] + Counting(f, T \ {x})
<1>1. Counting(f, {}) = 0
  <2>1. Coins(f, {}) = {} /\ Debts(f, {}) = {}
    BY DEF Coins, Debts
  <2>2. Cardinality({}) = 0
    BY FS_EmptySet
  <2> QED
    BY <2>1, <2>2 DEF Counting
<1>2. \A T \in SUBSET S :
         /\ IsFiniteSet(Coins(f, T)) /\ IsFiniteSet(Debts(f, T))
         /\ Cardinality(Coins(f, T)) \in Nat /\ Cardinality(Debts(f, T)) \in Nat
  BY CoinsFinite, FS_CardinalityType
<1>3. \A T \in SUBSET S : Counting(f, T) \in Int
  BY <1>2 DEF Counting
<1>4. ASSUME NEW T \in SUBSET S, NEW x \in T
      PROVE  Counting(f, T) = f[x] + Counting(f, T \ {x})
  <2> DEFINE R == T \ {x}  n == f[x]
  <2>1. n \in Int /\ -n \in Int /\ R \in SUBSET S
    BY <1>4
  <2>2. /\ Coins(f, T) = Coins(f, R) \union ({x} \X (1..n))
        /\ Debts(f, T) = Debts(f, R) \union ({x} \X (1..(-n)))
    BY <1>4 DEF Coins, Debts
  <2>3. /\ Coins(f, R) \intersect ({x} \X (1..n)) = {}
        /\ Debts(f, R) \intersect ({x} \X (1..(-n))) = {}
    BY DEF Coins, Debts
  <2>4. /\ IsFiniteSet({x} \X (1..n)) /\ Cardinality({x} \X (1..n)) = IF n > 0 THEN n ELSE 0
        /\ IsFiniteSet({x} \X (1..(-n)))
        /\ Cardinality({x} \X (1..(-n))) = IF -n > 0 THEN -n ELSE 0
    BY <2>1, RowOfCoins
  <2>6. /\ IsFiniteSet(Coins(f, R)) /\ Cardinality(Coins(f, R)) \in Nat
        /\ IsFiniteSet(Debts(f, R)) /\ Cardinality(Debts(f, R)) \in Nat
    BY <1>2, <2>1
  <2> HIDE DEF R, n
  <2>7. Cardinality(Coins(f, T)) = Cardinality(Coins(f, R)) + Cardinality({x} \X (1..n))
    BY <2>2, <2>3, <2>4, <2>6, JoinApart
  <2>8. Cardinality(Debts(f, T)) = Cardinality(Debts(f, R)) + Cardinality({x} \X (1..(-n)))
    BY <2>2, <2>3, <2>4, <2>6, JoinApart
  <2>9. Counting(f, T) = n + Counting(f, R)
    BY <2>1, <2>4, <2>6, <2>7, <2>8 DEF Counting
  <2> QED
    BY <2>9 DEF R, n
<1> QED
  BY <1>1, <1>3, <1>4

(* The fold is well defined, and counts.                                   *)
LEMMA SumCounts ==
    ASSUME NEW S, IsFiniteSet(S), NEW f, \A x \in S : f[x] \in Int
    PROVE  Sum(f, S) = Counting(f, S)
<1> DEFINE pick(s) == CHOOSE x \in s : TRUE
           Folds(it) == it = [s \in SUBSET S |->
                                 IF s = {} THEN 0 ELSE f[pick(s)] + it[s \ {pick(s)}]]
           iter == CHOOSE it : Folds(it)
           g == [s \in SUBSET S |-> Counting(f, s)]
<1>1. \A s \in SUBSET S : s # {} => pick(s) \in s
  OBVIOUS
<1>2. Folds(g)
  <2>1. \A s \in SUBSET S :
           g[s] = IF s = {} THEN 0 ELSE f[pick(s)] + g[s \ {pick(s)}]
    <3> SUFFICES ASSUME NEW s \in SUBSET S
                 PROVE  g[s] = IF s = {} THEN 0 ELSE f[pick(s)] + g[s \ {pick(s)}]
      OBVIOUS
    <3> HIDE DEF pick
    <3>1. s \ {pick(s)} \in SUBSET S
      OBVIOUS
    <3>2. CASE s = {}
      BY <3>2, CountingAdds
    <3>3. CASE s # {}
      <4>1. pick(s) \in s /\ pick(s) \in S
        BY <1>1, <3>3
      <4> QED
        BY <3>1, <3>3, <4>1, CountingAdds
    <3> QED
      BY <3>2, <3>3
  <2> HIDE DEF pick
  <2> QED
    BY <2>1
<1>3. Folds(iter)
  <2> HIDE DEF Folds, g
  <2> QED
    BY <1>2
<1>4. Sum(f, S) = iter[S]
  BY DEF Sum, Cash!SumFunctionOnSet, Cash!FoldFunctionOnSet, Cash!MapThenFoldSet
<1> DEFINE P == {T \in SUBSET S : iter[T] = Counting(f, T)}
<1> HIDE DEF iter, pick
<1>5. ASSUME NEW T \in SUBSET S, \A R \in SUBSET T : R # T => R \in P
      PROVE  T \in P
  <2>1. iter[T] = IF T = {} THEN 0 ELSE f[pick(T)] + iter[T \ {pick(T)}]
    BY <1>3
  <2>2. CASE T = {}
    BY <2>1, <2>2, CountingAdds
  <2>3. CASE T # {}
    <3>1. pick(T) \in T /\ pick(T) \in S
      BY <1>1, <2>3
    <3>2. T \ {pick(T)} \in P
      BY <1>5, <3>1
    <3>3. Counting(f, T) = f[pick(T)] + Counting(f, T \ {pick(T)})
      BY <3>1, CountingAdds
    <3> QED
      BY <2>1, <2>3, <3>2, <3>3
  <2> QED
    BY <2>2, <2>3
<1>6. \A T \in SUBSET S : T \in P
  <2> HIDE DEF P
  <2> QED
    BY <1>5, SetsInduct
<1> QED
  BY <1>4, <1>6

LEMMA SumAdds ==
    ASSUME NEW S, IsFiniteSet(S), NEW f, \A x \in S : f[x] \in Int
    PROVE  /\ Sum(f, {}) = 0
           /\ \A T \in SUBSET S : IsFiniteSet(T) /\ Sum(f, T) \in Int
           /\ \A T \in SUBSET S, x \in S :
                 x \notin T => Sum(f, T \union {x}) = Sum(f, T) + f[x]
<1>1. \A T \in SUBSET S : IsFiniteSet(T) /\ Sum(f, T) = Counting(f, T)
  BY FS_Subset, SumCounts
<1>2. ASSUME NEW T \in SUBSET S, NEW x \in S, x \notin T
      PROVE  Sum(f, T \union {x}) = Sum(f, T) + f[x]
  <2> DEFINE R == T \union {x}
  <2>1. R \in SUBSET S /\ x \in R /\ R \ {x} = T
    BY <1>2
  <2> HIDE DEF R
  <2>2. Counting(f, R) = f[x] + Counting(f, T) /\ Counting(f, T) \in Int /\ f[x] \in Int
    BY <2>1, CountingAdds
  <2>3. Sum(f, R) = Sum(f, T) + f[x]
    BY <1>1, <2>1, <2>2
  <2> QED
    BY <2>3 DEF R
<1>3. {} \in SUBSET S
  OBVIOUS
<1> QED
  BY <1>1, <1>2, <1>3, CountingAdds

LEMMA SumLeq ==
    ASSUME NEW S, IsFiniteSet(S), NEW f, NEW g,
           \A x \in S : f[x] \in Int /\ g[x] \in Int /\ f[x] <= g[x]
    PROVE  Sum(f, S) <= Sum(g, S)
<1> DEFINE P == {T \in SUBSET S : Sum(f, T) <= Sum(g, T)}
<1>1. {} \in P
  <2>1. Sum(f, {}) = 0 /\ Sum(g, {}) = 0
    BY SumAdds
  <2> QED
    BY <2>1
<1>2. ASSUME NEW T \in SUBSET S, NEW x \in S, T \in P, x \notin T
      PROVE  T \union {x} \in P
  <2>1. Sum(f, T \union {x}) = Sum(f, T) + f[x] /\ Sum(f, T) \in Int
    BY <1>2, SumAdds
  <2>2. Sum(g, T \union {x}) = Sum(g, T) + g[x] /\ Sum(g, T) \in Int
    BY <1>2, SumAdds
  <2>3. Sum(f, T) <= Sum(g, T) /\ f[x] \in Int /\ g[x] \in Int /\ f[x] <= g[x]
    BY <1>2
  <2>4. Sum(f, T \union {x}) <= Sum(g, T \union {x})
    BY <2>1, <2>2, <2>3
  <2> QED
    BY <2>4
<1>3. S \in P
  <2> HIDE DEF P
  <2> QED
    BY <1>1, <1>2, SetsGrow
<1> QED
  BY <1>3

LEMMA SumSame ==
    ASSUME NEW S, IsFiniteSet(S), NEW f, NEW g, \A x \in S : f[x] \in Int /\ f[x] = g[x]
    PROVE  Sum(f, S) = Sum(g, S)
<1>1. Sum(f, S) <= Sum(g, S)
  BY SumLeq
<1>2. Sum(g, S) <= Sum(f, S)
  BY SumLeq
<1>3. Sum(f, S) \in Int /\ Sum(g, S) \in Int
  BY SumAdds
<1> QED
  BY <1>1, <1>2, <1>3

LEMMA SumPlus ==
    ASSUME NEW S, IsFiniteSet(S), NEW f, NEW g, NEW h,
           \A x \in S : f[x] \in Int /\ g[x] \in Int /\ h[x] = f[x] + g[x]
    PROVE  Sum(h, S) = Sum(f, S) + Sum(g, S)
<1> DEFINE P == {T \in SUBSET S : Sum(h, T) = Sum(f, T) + Sum(g, T)}
<1>0. \A x \in S : h[x] \in Int
  OBVIOUS
<1>1. {} \in P
  <2>1. Sum(f, {}) = 0 /\ Sum(g, {}) = 0 /\ Sum(h, {}) = 0
    BY <1>0, SumAdds
  <2> QED
    BY <2>1
<1>2. ASSUME NEW T \in SUBSET S, NEW x \in S, T \in P, x \notin T
      PROVE  T \union {x} \in P
  <2>1. Sum(f, T \union {x}) = Sum(f, T) + f[x] /\ Sum(f, T) \in Int
    BY <1>2, SumAdds
  <2>2. Sum(g, T \union {x}) = Sum(g, T) + g[x] /\ Sum(g, T) \in Int
    BY <1>2, SumAdds
  <2>3. Sum(h, T \union {x}) = Sum(h, T) + h[x]
    BY <1>0, <1>2, SumAdds
  <2>4. Sum(h, T) = Sum(f, T) + Sum(g, T) /\ f[x] \in Int /\ g[x] \in Int /\ h[x] = f[x] + g[x]
    BY <1>2
  <2>5. Sum(h, T \union {x}) = Sum(f, T \union {x}) + Sum(g, T \union {x})
    BY <2>1, <2>2, <2>3, <2>4
  <2> QED
    BY <2>5
<1>3. S \in P
  <2> HIDE DEF P
  <2> QED
    BY <1>1, <1>2, SetsGrow
<1> QED
  BY <1>3

LEMMA SumJoin ==
    ASSUME NEW S, IsFiniteSet(S), NEW f, \A x \in S : f[x] \in Int,
           NEW A \in SUBSET S, NEW B \in SUBSET S, A \intersect B = {}
    PROVE  /\ Sum(f, A \union B) = Sum(f, A) + Sum(f, B)
           /\ Sum(f, A) \in Int /\ Sum(f, B) \in Int
<1> DEFINE P == {T \in SUBSET B : Sum(f, A \union T) = Sum(f, A) + Sum(f, T)}
<1>0. Sum(f, A) \in Int /\ Sum(f, B) \in Int /\ IsFiniteSet(B)
  BY SumAdds
<1>1. {} \in P
  <2>1. Sum(f, {}) = 0 /\ A \union {} = A
    BY SumAdds
  <2> QED
    BY <1>0, <2>1
<1>2. ASSUME NEW T \in SUBSET B, NEW x \in B, T \in P, x \notin T
      PROVE  T \union {x} \in P
  <2>1. Sum(f, T \union {x}) = Sum(f, T) + f[x] /\ Sum(f, T) \in Int /\ f[x] \in Int
    BY <1>2, SumAdds
  <2> DEFINE R == A \union T
  <2>2. R \in SUBSET S /\ x \in S /\ x \notin R
    BY <1>2
  <2>3. Sum(f, R) = Sum(f, A) + Sum(f, T)
    BY <1>2
  <2> HIDE DEF R
  <2>4. Sum(f, R \union {x}) = Sum(f, R) + f[x]
    BY <2>2, SumAdds
  <2>5. Sum(f, R \union {x}) = Sum(f, A) + Sum(f, T \union {x})
    BY <1>0, <2>1, <2>3, <2>4
  <2>6. R \union {x} = A \union (T \union {x})
    BY DEF R
  <2> QED
    BY <1>2, <2>5, <2>6
<1>3. B \in P
  <2> HIDE DEF P
  <2> QED
    BY <1>0, <1>1, <1>2, SetsGrow
<1> QED
  BY <1>0, <1>3

LEMMA SumSplit ==
    ASSUME NEW S, IsFiniteSet(S), NEW f, \A x \in S : f[x] \in Int, NEW A \in SUBSET S
    PROVE  /\ Sum(f, S) = Sum(f, A) + Sum(f, S \ A)
           /\ Sum(f, A) \in Int /\ Sum(f, S \ A) \in Int
<1> DEFINE R == S \ A
<1>1. R \in SUBSET S /\ A \intersect R = {} /\ A \union R = S
  OBVIOUS
<1> HIDE DEF R
<1>2. Sum(f, A \union R) = Sum(f, A) + Sum(f, R) /\ Sum(f, A) \in Int /\ Sum(f, R) \in Int
  BY <1>1, SumJoin
<1>3. Sum(f, S) = Sum(f, A) + Sum(f, R) /\ Sum(f, A) \in Int /\ Sum(f, R) \in Int
  BY <1>1, <1>2
<1> QED
  BY <1>3 DEF R

LEMMA SumNat ==
    ASSUME NEW S, IsFiniteSet(S), NEW f, \A x \in S : f[x] \in Nat
    PROVE  Sum(f, S) \in Nat
<1> DEFINE P == {T \in SUBSET S : Sum(f, T) \in Nat}
<1>0. \A x \in S : f[x] \in Int
  OBVIOUS
<1>1. {} \in P
  BY <1>0, SumAdds
<1>2. ASSUME NEW T \in SUBSET S, NEW x \in S, T \in P, x \notin T
      PROVE  T \union {x} \in P
  <2>1. Sum(f, T \union {x}) = Sum(f, T) + f[x]
    BY <1>0, <1>2, SumAdds
  <2>2. Sum(f, T) \in Nat /\ f[x] \in Nat
    BY <1>2
  <2>3. Sum(f, T \union {x}) \in Nat
    BY <2>1, <2>2
  <2> QED
    BY <2>3
<1>3. S \in P
  <2> HIDE DEF P
  <2> QED
    BY <1>1, <1>2, SetsGrow
<1> QED
  BY <1>3

(* More elements, each worth as much or more.                              *)
LEMMA SumGrows ==
    ASSUME NEW S, IsFiniteSet(S), NEW f, NEW g, NEW A \in SUBSET S, NEW B \in SUBSET S,
           A \subseteq B,
           \A x \in A : f[x] \in Int /\ f[x] <= g[x],
           \A x \in B : g[x] \in Nat
    PROVE  Sum(f, A) <= Sum(g, B)
<1>1. IsFiniteSet(A) /\ IsFiniteSet(B) /\ IsFiniteSet(B \ A)
  BY FS_Subset
<1>2. \A x \in B : g[x] \in Int
  OBVIOUS
<1>3. Sum(f, A) <= Sum(g, A)
  <2>1. \A x \in A : f[x] \in Int /\ g[x] \in Int /\ f[x] <= g[x]
    BY <1>2
  <2> QED
    BY <1>1, <2>1, SumLeq
<1>4. Sum(f, A) \in Int
  BY <1>1, SumAdds
<1>5. Sum(g, B) = Sum(g, A) + Sum(g, B \ A) /\ Sum(g, A) \in Int
  BY <1>1, <1>2, SumSplit
<1>6. Sum(g, B \ A) \in Nat
  BY <1>1, SumNat
<1> QED
  BY <1>3, <1>4, <1>5, <1>6

LEMMA SumIf ==
    ASSUME NEW S, IsFiniteSet(S), NEW f, \A x \in S : f[x] \in Int, NEW A \in SUBSET S
    PROVE  Sum(f, A) = Sum([x \in S |-> IF x \in A THEN f[x] ELSE 0], S)
<1> DEFINE g == [x \in S |-> IF x \in A THEN f[x] ELSE 0]
<1>1. \A x \in S : g[x] \in Int
  OBVIOUS
<1>2. \A x \in A : f[x] \in Int /\ f[x] = g[x]
  OBVIOUS
<1>3. \A x \in S \ A : g[x] = 0
  OBVIOUS
<1> HIDE DEF g
<1>4. IsFiniteSet(A) /\ IsFiniteSet(S \ A)
  BY FS_Subset
<1>5. Sum(f, A) = Sum(g, A)
  BY <1>2, <1>4, SumSame
<1>6. Sum(g, S \ A) = 0
  <2> DEFINE P == {T \in SUBSET (S \ A) : Sum(g, T) = 0}
  <2>1. {} \in P
    BY <1>1, SumAdds
  <2>2. ASSUME NEW T \in SUBSET (S \ A), NEW x \in S \ A, T \in P, x \notin T
        PROVE  T \union {x} \in P
    <3>1. Sum(g, T \union {x}) = Sum(g, T) + g[x]
      BY <1>1, <2>2, SumAdds
    <3>2. Sum(g, T) = 0 /\ g[x] = 0
      BY <1>3, <2>2
    <3> QED
      BY <2>2, <3>1, <3>2
  <2>3. S \ A \in P
    <3> HIDE DEF P
    <3> QED
      BY <1>4, <2>1, <2>2, SetsGrow
  <2> QED
    BY <2>3
<1>7. Sum(g, S) = Sum(g, A) + Sum(g, S \ A) /\ Sum(g, A) \in Int
  BY <1>1, SumSplit
<1>9. Sum(f, A) = Sum(g, S)
  BY <1>5, <1>6, <1>7
<1> QED
  BY <1>9 DEF g

(* Summing per owner, then over the owners: S falls into one part per k.   *)
LEMMA SumByOwner ==
    ASSUME NEW S, IsFiniteSet(S), NEW f, \A x \in S : f[x] \in Int,
           NEW K, IsFiniteSet(K), NEW of, \A k \in K : of[k] \subseteq S,
           \A x \in S : \E k \in K : x \in of[k],
           \A k, l \in K : k # l => of[k] \intersect of[l] = {},
           NEW h, \A k \in K : h[k] = Sum(f, of[k])
    PROVE  Sum(h, K) = Sum(f, S)
<1> DEFINE Of(T) == UNION {of[k] : k \in T}
           P == {T \in SUBSET K : Sum(h, T) = Sum(f, Of(T))}
<1>0. \A k \in K : h[k] \in Int
  BY SumAdds
<1>1. {} \in P
  <2>1. Of({}) = {}
    OBVIOUS
  <2>2. Sum(h, {}) = 0 /\ Sum(f, {}) = 0
    BY <1>0, SumAdds
  <2> QED
    BY <2>1, <2>2
<1>2. ASSUME NEW T \in SUBSET K, NEW k \in K, T \in P, k \notin T
      PROVE  T \union {k} \in P
  <2>1. Of(T \union {k}) = Of(T) \union of[k] /\ Of(T) \intersect of[k] = {}
    BY <1>2
  <2>2. Sum(h, T \union {k}) = Sum(h, T) + h[k]
    BY <1>0, <1>2, SumAdds
  <2>3. Sum(h, T) = Sum(f, Of(T)) /\ h[k] = Sum(f, of[k])
    BY <1>2
  <2>4. Of(T) \in SUBSET S /\ of[k] \in SUBSET S
    BY <1>2
  <2> HIDE DEF Of
  <2>5. Sum(f, Of(T) \union of[k]) = Sum(f, Of(T)) + Sum(f, of[k])
    BY <2>1, <2>4, SumJoin
  <2>6. Sum(h, T \union {k}) = Sum(f, Of(T \union {k}))
    BY <2>1, <2>2, <2>3, <2>5
  <2> QED
    BY <1>2, <2>6
<1>3. K \in P
  <2> HIDE DEF P
  <2> QED
    BY <1>1, <1>2, SetsGrow
<1>4. Of(K) = S
  OBVIOUS
<1> QED
  BY <1>3, <1>4

-----------------------------------------------------------------------------
(***************************************************************************)
(* The cash of a user.  The balance is nowhere in the state, so that the   *)
(* invariant speaks of what a computation in flight has read: it is never  *)
(* more than the same SELECTs would give now.  Four of the six sums never  *)
(* take away from a user; the two that do are spending, and only the one   *)
(* request of the user changes these.  A claim of an expired packet is the *)
(* exception, and marks the user as late.                                  *)
(***************************************************************************)

(* Slots are filled one by one, and only for packets that exist.           *)
SlotsInv ==
    \A p \in Packet :
        /\ IsFiniteSet(packet[p].slots) /\ Cardinality(packet[p].slots) <= packet[p].total
        /\ packet[p].owner = None => packet[p] = Cash!NoPacket

(* A row says what the chain said.                                         *)
RowsInv ==
    /\ \A d \in Deposit : deposit[d].row = "good" => deposit[d].chain = "good"
    /\ \A c \in Checkout :
          /\ checkout[c].row = "failed" => checkout[c].chain = "failed"
          /\ checkout[c].row # "none" => checkout[c].user \in User

(* A payout without row is the one its request is about to record.         *)
Records(r, c) == req[r].step = "record" /\ req[r].checkout = c

RequestOK(r) ==
    \/ req[r] = Cash!Free
    \/ /\ req[r].step # "idle" /\ req[r].user \in User
       /\ req[r].spends \in {"add", "checkout"}
       /\ req[r].step = "checkouts" => req[r].spends = "checkout"

RecordOK(r) ==
    req[r].step = "record" =>
        /\ req[r].checkout \in Checkout
        /\ checkout[req[r].checkout].user = req[r].user
        /\ checkout[req[r].checkout].amount = req[r].amount
        /\ checkout[req[r].checkout].row = "none"

RequestsInv ==
    /\ \A r \in Request : RequestOK(r) /\ RecordOK(r)
    /\ \A r, s \in Request, c \in Checkout : Records(r, c) /\ Records(s, c) => r = s

OneAtATime == \A u \in User \ overlapped : \A r, s \in Cash!Spending(u) : r = s

(* What a request has read so far, against the same SELECTs now.           *)
Covered(r) ==
    LET u == req[r].user
        paid == IF req[r].spends = "checkout" THEN Cash!CheckedOut(u) ELSE 0
        funded == Cash!CashFunded(u)
    IN
    /\ req[r].step = "income" => req[r].sum <= 0
    /\ req[r].step = "deposits" => req[r].sum <= Cash!Income(u)
    /\ req[r].step = "packets" => req[r].sum <= Cash!Income(u) + Cash!Deposited(u)
    /\ req[r].step = "checkouts" =>
          req[r].sum <= Cash!Income(u) + Cash!Deposited(u) + Cash!ExpiredTotals(u) - funded
    /\ req[r].step = "expired" =>
          req[r].sum <= Cash!Income(u) + Cash!Deposited(u) + Cash!ExpiredTotals(u) - funded - paid
    /\ req[r].step = "spend" =>
          req[r].sum <= Cash!Income(u) + Cash!Deposited(u) + Cash!ExpiredTotals(u) - funded - paid
                        - Cash!ExpiredClaims(u)
    /\ req[r].step = "record" => req[r].amount <= Cash!Cash(u)

Calm == User \ (overlapped \union unseen \union late)

ReadsInv ==
    \A u \in Calm : Cash!Cash(u) >= 0 /\ \A r \in Request : req[r].user = u => Covered(r)

CashInv == Cash!TypeOK /\ SlotsInv /\ RowsInv /\ RequestsInv /\ OneAtATime /\ ReadsInv

-----------------------------------------------------------------------------
(* The six sums. *)

LEMMA SameCashCount == \A S : /\ Cash!IsFiniteSet(S) <=> IsFiniteSet(S)
                              /\ Cash!Cardinality(S) = Cardinality(S)
<1>1. \A S : Cash!IsFiniteSet(S) <=> IsFiniteSet(S)
  BY DEF Cash!IsFiniteSet, IsFiniteSet
<1>2. \A S : Cash!Cardinality(S) = Cardinality(S)
  BY DEF Cash!Cardinality, Cardinality
<1> QED
  BY <1>1, <1>2

LEMMA Tables == /\ IsFiniteSet(User) /\ IsFiniteSet(Packet)
                /\ IsFiniteSet(Deposit) /\ IsFiniteSet(Checkout)
                /\ None \notin User
                /\ MaxAmount \in Nat \ {0}
BY CashAssumption, SameCashCount DEF Cash!TableAssumption, Cash!AmountAssumption

(* The slots of p that are u's, and what they and the packet itself, once  *)
(* it has expired, are worth to u.                                         *)
SlotsOf(u, p) == Cardinality({s \in packet[p].slots : s[2] = u})
Refund(u, p) ==
    IF packet[p].owner = u /\ packet[p].expired
    THEN packet[p].total - Cardinality(packet[p].slots) ELSE 0

CashOf(u) == {p \in Cash!PacketsOf(u) : packet[p].fund = "cash"}
GoodDeposits(u) == {d \in Deposit : deposit[d].user = u /\ deposit[d].row = "good"}
OpenCheckouts(u) == {c \in Checkout : checkout[c].user = u /\ checkout[c].row \in {"sent", "good"}}

ValuesOK ==
    /\ \A p \in Packet :
          /\ Cash!Total[p] = packet[p].total /\ Cash!Total[p] \in Nat
          /\ Cash!Claimed[p] = Cardinality(packet[p].slots) /\ Cash!Claimed[p] \in Nat
          /\ Cash!Claimed[p] <= Cash!Total[p]
          /\ \A u \in User \union {None} : Cash!ClaimedBy(u)[p] = SlotsOf(u, p) /\ SlotsOf(u, p) \in Nat
    /\ \A d \in Deposit : Cash!Deposits[d] = deposit[d].amount /\ Cash!Deposits[d] \in Nat
    /\ \A c \in Checkout : Cash!Checkouts[c] = checkout[c].amount /\ Cash!Checkouts[c] \in Nat

LEMMA ValuesHold == Cash!TypeOK /\ SlotsInv => ValuesOK
<1> SUFFICES ASSUME Cash!TypeOK, SlotsInv PROVE ValuesOK
  OBVIOUS
<1>1. \A p \in Packet : packet[p].total \in Nat
  BY Tables DEF Cash!TypeOK, Cash!Packets
<1>2. \A p \in Packet : Cash!Total[p] = packet[p].total
  BY DEF Cash!Total
<1>3. \A p \in Packet : Cash!Claimed[p] = Cardinality(packet[p].slots)
  BY SameCashCount DEF Cash!Claimed
<1>4. \A p \in Packet : Cardinality(packet[p].slots) \in Nat /\ Cardinality(packet[p].slots) <= packet[p].total
  BY FS_CardinalityType DEF SlotsInv
<1>5. ASSUME NEW p \in Packet, NEW u \in User \union {None}
      PROVE  Cash!ClaimedBy(u)[p] = SlotsOf(u, p) /\ SlotsOf(u, p) \in Nat
  <2>1. IsFiniteSet({s \in packet[p].slots : s[2] = u})
    BY FS_Subset DEF SlotsInv
  <2>2. SlotsOf(u, p) \in Nat
    BY <2>1, FS_CardinalityType DEF SlotsOf
  <2>3. Cash!ClaimedBy(u)[p] = SlotsOf(u, p)
    BY SameCashCount DEF Cash!ClaimedBy, SlotsOf
  <2> QED
    BY <2>2, <2>3
<1>6. \A d \in Deposit : Cash!Deposits[d] = deposit[d].amount /\ Cash!Deposits[d] \in Nat
  BY Tables DEF Cash!TypeOK, Cash!Deposits
<1>7. \A c \in Checkout : Cash!Checkouts[c] = checkout[c].amount /\ Cash!Checkouts[c] \in Nat
  BY Tables DEF Cash!TypeOK, Cash!Checkouts
<1> QED
  BY <1>1, <1>2, <1>3, <1>4, <1>5, <1>6, <1>7 DEF ValuesOK

AsSums(u) ==
    /\ Cash!Income(u) = Sum(Cash!ClaimedBy(u), Packet) /\ Cash!Income(u) \in Nat
    /\ Cash!Deposited(u) = Sum(Cash!Deposits, GoodDeposits(u)) /\ Cash!Deposited(u) \in Nat
    /\ Cash!ExpiredTotals(u) = Sum(Cash!Total, Cash!ExpiredOf(u)) /\ Cash!ExpiredTotals(u) \in Nat
    /\ Cash!CashFunded(u) = Sum(Cash!Total, CashOf(u)) /\ Cash!CashFunded(u) \in Nat
    /\ Cash!CheckedOut(u) = Sum(Cash!Checkouts, OpenCheckouts(u)) /\ Cash!CheckedOut(u) \in Nat
    /\ Cash!ExpiredClaims(u) = Sum(Cash!Claimed, Cash!ExpiredOf(u)) /\ Cash!ExpiredClaims(u) \in Nat
    /\ Cash!Cash(u) = Cash!Income(u) + Cash!Deposited(u) + Cash!ExpiredTotals(u)
                      - Cash!CashFunded(u) - Cash!CheckedOut(u) - Cash!ExpiredClaims(u)
    /\ Cash!Cash(u) \in Int

SumsOK == ValuesOK /\ \A u \in User : AsSums(u)

LEMMA SumsHold == Cash!TypeOK /\ SlotsInv => SumsOK
<1> SUFFICES ASSUME ValuesOK, NEW u \in User PROVE AsSums(u)
  BY ValuesHold DEF SumsOK
<1>1. Cash!Income(u) = Sum(Cash!ClaimedBy(u), Packet) /\ Cash!Income(u) \in Nat
  <2>1. \A p \in Packet : Cash!ClaimedBy(u)[p] \in Nat
    BY DEF ValuesOK
  <2>2. Sum(Cash!ClaimedBy(u), Packet) \in Nat
    BY <2>1, Tables, SumNat
  <2>3. Cash!Income(u) = Sum(Cash!ClaimedBy(u), Packet)
    BY DEF Cash!Income, Sum
  <2> QED
    BY <2>2, <2>3
<1>2. Cash!Deposited(u) = Sum(Cash!Deposits, GoodDeposits(u)) /\ Cash!Deposited(u) \in Nat
  <2>1. IsFiniteSet(GoodDeposits(u)) /\ \A d \in GoodDeposits(u) : Cash!Deposits[d] \in Nat
    BY Tables, FS_Subset DEF ValuesOK, GoodDeposits
  <2>2. Sum(Cash!Deposits, GoodDeposits(u)) \in Nat
    BY <2>1, SumNat
  <2>3. Cash!Deposited(u) = Sum(Cash!Deposits, GoodDeposits(u))
    BY DEF Cash!Deposited, Sum, GoodDeposits
  <2> QED
    BY <2>2, <2>3
<1>3. /\ Cash!ExpiredTotals(u) = Sum(Cash!Total, Cash!ExpiredOf(u)) /\ Cash!ExpiredTotals(u) \in Nat
      /\ Cash!ExpiredClaims(u) = Sum(Cash!Claimed, Cash!ExpiredOf(u)) /\ Cash!ExpiredClaims(u) \in Nat
  <2>1. Cash!ExpiredOf(u) \subseteq Packet
    BY DEF Cash!ExpiredOf, Cash!PacketsOf
  <2>2. IsFiniteSet(Cash!ExpiredOf(u))
    BY <2>1, Tables, FS_Subset
  <2>3. Sum(Cash!Total, Cash!ExpiredOf(u)) \in Nat
    <3>1. \A p \in Cash!ExpiredOf(u) : Cash!Total[p] \in Nat
      BY <2>1 DEF ValuesOK
    <3> QED
      BY <2>2, <3>1, SumNat
  <2>4. Sum(Cash!Claimed, Cash!ExpiredOf(u)) \in Nat
    <3>1. \A p \in Cash!ExpiredOf(u) : Cash!Claimed[p] \in Nat
      BY <2>1 DEF ValuesOK
    <3> QED
      BY <2>2, <3>1, SumNat
  <2>5. Cash!ExpiredTotals(u) = Sum(Cash!Total, Cash!ExpiredOf(u))
    BY DEF Cash!ExpiredTotals, Sum
  <2>6. Cash!ExpiredClaims(u) = Sum(Cash!Claimed, Cash!ExpiredOf(u))
    BY DEF Cash!ExpiredClaims, Sum
  <2> QED
    BY <2>3, <2>4, <2>5, <2>6
<1>4. Cash!CashFunded(u) = Sum(Cash!Total, CashOf(u)) /\ Cash!CashFunded(u) \in Nat
  <2>1. IsFiniteSet(CashOf(u)) /\ \A p \in CashOf(u) : Cash!Total[p] \in Nat
    BY Tables, FS_Subset DEF ValuesOK, CashOf, Cash!PacketsOf
  <2>2. Sum(Cash!Total, CashOf(u)) \in Nat
    BY <2>1, SumNat
  <2>3. Cash!CashFunded(u) = Sum(Cash!Total, CashOf(u))
    BY DEF Cash!CashFunded, Sum, CashOf
  <2> QED
    BY <2>2, <2>3
<1>5. Cash!CheckedOut(u) = Sum(Cash!Checkouts, OpenCheckouts(u)) /\ Cash!CheckedOut(u) \in Nat
  <2>1. IsFiniteSet(OpenCheckouts(u)) /\ \A c \in OpenCheckouts(u) : Cash!Checkouts[c] \in Nat
    BY Tables, FS_Subset DEF ValuesOK, OpenCheckouts
  <2>2. Sum(Cash!Checkouts, OpenCheckouts(u)) \in Nat
    BY <2>1, SumNat
  <2>3. Cash!CheckedOut(u) = Sum(Cash!Checkouts, OpenCheckouts(u))
    BY DEF Cash!CheckedOut, Sum, OpenCheckouts
  <2> QED
    BY <2>2, <2>3
<1>6. Cash!Cash(u) = Cash!Income(u) + Cash!Deposited(u) + Cash!ExpiredTotals(u)
                     - Cash!CashFunded(u) - Cash!CheckedOut(u) - Cash!ExpiredClaims(u)
  BY DEF Cash!Cash
<1> QED
  BY <1>1, <1>2, <1>3, <1>4, <1>5, <1>6 DEF AsSums

(* The three sums that claims and expiry move are one, of what each packet *)
(* is worth to u.                                                          *)
Worth(u) == [p \in Packet |-> SlotsOf(u, p) + Refund(u, p)]

WorthOK ==
    \A u \in User :
        /\ Cash!Income(u) + Cash!ExpiredTotals(u) - Cash!ExpiredClaims(u) = Sum(Worth(u), Packet)
        /\ \A p \in Packet : Worth(u)[p] = SlotsOf(u, p) + Refund(u, p) /\ Worth(u)[p] \in Nat

LEMMA WorthHolds == SumsOK => WorthOK
<1> SUFFICES ASSUME SumsOK, NEW u \in User
             PROVE  /\ Cash!Income(u) + Cash!ExpiredTotals(u) - Cash!ExpiredClaims(u)
                         = Sum(Worth(u), Packet)
                    /\ \A p \in Packet : /\ Worth(u)[p] = SlotsOf(u, p) + Refund(u, p)
                                         /\ Worth(u)[p] \in Nat
  BY DEF WorthOK
<1> DEFINE Own == Cash!ExpiredOf(u)
           totals == [p \in Packet |-> IF p \in Own THEN Cash!Total[p] ELSE 0]
           claims == [p \in Packet |-> IF p \in Own THEN Cash!Claimed[p] ELSE 0]
           gross == [p \in Packet |-> Cash!ClaimedBy(u)[p] + totals[p]]
<1>1. IsFiniteSet(Packet) /\ Own \in SUBSET Packet
  BY Tables DEF Cash!ExpiredOf, Cash!PacketsOf
<1>2. \A p \in Packet :
         /\ Cash!ClaimedBy(u)[p] = SlotsOf(u, p) /\ SlotsOf(u, p) \in Nat
         /\ Cash!Total[p] \in Nat /\ Cash!Claimed[p] \in Nat /\ Cash!Claimed[p] <= Cash!Total[p]
         /\ Cash!Total[p] = packet[p].total /\ Cash!Claimed[p] = Cardinality(packet[p].slots)
  BY DEF SumsOK, ValuesOK
<1>3. \A p \in Packet : p \in Own <=> packet[p].owner = u /\ packet[p].expired
  BY DEF Cash!ExpiredOf, Cash!PacketsOf
<1>4. \A p \in Packet :
         /\ Worth(u)[p] = SlotsOf(u, p) + Refund(u, p)
         /\ Refund(u, p) = totals[p] - claims[p]
         /\ totals[p] \in Nat /\ claims[p] \in Nat /\ claims[p] <= totals[p]
  <2> TAKE p \in Packet
  <2>1. Worth(u)[p] = SlotsOf(u, p) + Refund(u, p)
    BY DEF Worth
  <2>2. Refund(u, p) = IF p \in Own THEN Cash!Total[p] - Cash!Claimed[p] ELSE 0
    BY <1>2, <1>3 DEF Refund
  <2>3. totals[p] = (IF p \in Own THEN Cash!Total[p] ELSE 0)
        /\ claims[p] = (IF p \in Own THEN Cash!Claimed[p] ELSE 0)
    OBVIOUS
  <2> HIDE DEF totals, claims, Own
  <2> QED
    BY <1>2, <2>1, <2>2, <2>3
<1>5. \A p \in Packet : gross[p] = Cash!ClaimedBy(u)[p] + totals[p]
  OBVIOUS
<1>6. Sum(totals, Packet) = Cash!ExpiredTotals(u) /\ Sum(claims, Packet) = Cash!ExpiredClaims(u)
  <2>1. Sum(Cash!Total, Own) = Sum(totals, Packet)
    <3>1. \A p \in Packet : Cash!Total[p] \in Int
      BY <1>2
    <3> QED
      BY <1>1, <3>1, SumIf
  <2>2. Sum(Cash!Claimed, Own) = Sum(claims, Packet)
    <3>1. \A p \in Packet : Cash!Claimed[p] \in Int
      BY <1>2
    <3> QED
      BY <1>1, <3>1, SumIf
  <2> QED
    BY <2>1, <2>2 DEF SumsOK, AsSums
<1> HIDE DEF totals, claims, gross, Own
<1>7. \A p \in Packet : Worth(u)[p] \in Nat
  BY <1>2, <1>4
<1>8. Sum(gross, Packet) = Sum(Cash!ClaimedBy(u), Packet) + Sum(totals, Packet)
  <2>1. \A p \in Packet : /\ Cash!ClaimedBy(u)[p] \in Int /\ totals[p] \in Int
                          /\ gross[p] = Cash!ClaimedBy(u)[p] + totals[p]
    BY <1>2, <1>4, <1>5
  <2> QED
    BY <1>1, <2>1, SumPlus
<1>9. Sum(gross, Packet) = Sum(Worth(u), Packet) + Sum(claims, Packet)
  <2>1. \A p \in Packet : /\ Worth(u)[p] \in Int /\ claims[p] \in Int
                          /\ gross[p] = Worth(u)[p] + claims[p]
    BY <1>2, <1>4, <1>5, <1>7
  <2> QED
    BY <1>1, <2>1, SumPlus
<1>10. Sum(Worth(u), Packet) \in Nat
  BY <1>1, <1>7, SumNat
<1>11. /\ Cash!Income(u) = Sum(Cash!ClaimedBy(u), Packet)
       /\ Cash!Income(u) \in Nat /\ Cash!ExpiredTotals(u) \in Nat /\ Cash!ExpiredClaims(u) \in Nat
  BY DEF SumsOK, AsSums
<1>12. Cash!Income(u) + Cash!ExpiredTotals(u) - Cash!ExpiredClaims(u) = Sum(Worth(u), Packet)
  BY <1>6, <1>8, <1>9, <1>10, <1>11
<1> QED
  BY <1>4, <1>7, <1>12

(* What a step keeps of a user's sums unless the user spends: nothing      *)
(* that counts for the user gets less, and nothing against it more.        *)
Kept(u) ==
    /\ Cash!Income(u) <= Cash!Income(u)' /\ Cash!Deposited(u) <= Cash!Deposited(u)'
    /\ Cash!ExpiredTotals(u) <= Cash!ExpiredTotals(u)'
    /\ Cash!CashFunded(u)' = Cash!CashFunded(u)
    /\ Cash!CheckedOut(u)' <= Cash!CheckedOut(u)
    /\ \/ u \in late'
       \/ Cash!Income(u) + Cash!ExpiredTotals(u) - Cash!ExpiredClaims(u)
            <= Cash!Income(u)' + Cash!ExpiredTotals(u)' - Cash!ExpiredClaims(u)'

PacketKept(u, p) ==
    /\ SlotsOf(u, p) <= SlotsOf(u, p)'
    /\ packet[p].owner = u =>
          /\ packet'[p].owner = u /\ packet'[p].total = packet[p].total
          /\ packet'[p].fund = "cash" <=> packet[p].fund = "cash"
          /\ packet[p].expired => packet'[p].expired
    /\ packet[p].owner # u /\ packet'[p].owner = u => packet'[p].fund # "cash"
    /\ u \in late' \/ SlotsOf(u, p) + Refund(u, p) <= SlotsOf(u, p)' + Refund(u, p)'

LEMMA WorthKept ==
    ASSUME SumsOK, SumsOK', NEW u \in User,
           \A p \in Packet : SlotsOf(u, p) + Refund(u, p) <= SlotsOf(u, p)' + Refund(u, p)'
    PROVE  Cash!Income(u) + Cash!ExpiredTotals(u) - Cash!ExpiredClaims(u)
              <= Cash!Income(u)' + Cash!ExpiredTotals(u)' - Cash!ExpiredClaims(u)'
<1>0. WorthOK /\ WorthOK'
  <2>1. SumsOK' => WorthOK'
    BY WorthHolds, PTL
  <2> QED
    BY <2>1, WorthHolds
<1>1. \A p \in Packet : /\ Worth(u)[p] \in Int /\ Worth(u)'[p] \in Int
                        /\ Worth(u)[p] <= Worth(u)'[p]
  BY <1>0 DEF WorthOK
<1>2. Sum(Worth(u), Packet) <= Sum(Worth(u)', Packet)
  BY <1>1, Tables, SumLeq
<1> QED
  BY <1>0, <1>2 DEF WorthOK

LEMMA PacketsKept ==
    ASSUME SumsOK, SumsOK', NEW u \in User, \A p \in Packet : PacketKept(u, p),
           UNCHANGED <<deposit, checkout>>
    PROVE  Kept(u)
<1>1. IsFiniteSet(Packet)
  BY Tables
<1>2. Cash!Income(u) <= Cash!Income(u)'
  <2>1. \A p \in Packet : /\ Cash!ClaimedBy(u)[p] \in Int /\ Cash!ClaimedBy(u)'[p] \in Int
                          /\ Cash!ClaimedBy(u)[p] <= Cash!ClaimedBy(u)'[p]
    BY DEF SumsOK, ValuesOK, PacketKept
  <2>2. Sum(Cash!ClaimedBy(u), Packet) <= Sum(Cash!ClaimedBy(u)', Packet)
    BY <1>1, <2>1, SumLeq
  <2>3. /\ Cash!Income(u) = Sum(Cash!ClaimedBy(u), Packet)
        /\ Cash!Income(u)' = Sum(Cash!ClaimedBy(u)', Packet)
    BY DEF SumsOK, AsSums
  <2> QED
    BY <2>2, <2>3
<1>3. \A p \in Packet : /\ Cash!Total[p] = packet[p].total /\ Cash!Total[p] \in Nat
                        /\ Cash!Total'[p] = packet'[p].total /\ Cash!Total'[p] \in Nat
  BY DEF SumsOK, ValuesOK
<1>4. Cash!ExpiredTotals(u) <= Cash!ExpiredTotals(u)'
  <2>1. /\ Cash!ExpiredOf(u) \in SUBSET Packet /\ Cash!ExpiredOf(u)' \in SUBSET Packet
        /\ Cash!ExpiredOf(u) \subseteq Cash!ExpiredOf(u)'
    BY DEF Cash!ExpiredOf, Cash!PacketsOf, PacketKept
  <2>2. \A p \in Cash!ExpiredOf(u) : Cash!Total[p] \in Int /\ Cash!Total[p] <= Cash!Total'[p]
    BY <1>3 DEF Cash!ExpiredOf, Cash!PacketsOf, PacketKept
  <2>3. \A p \in Cash!ExpiredOf(u)' : Cash!Total'[p] \in Nat
    BY <1>3, <2>1
  <2>4. Sum(Cash!Total, Cash!ExpiredOf(u)) <= Sum(Cash!Total', Cash!ExpiredOf(u)')
    BY <1>1, <2>1, <2>2, <2>3, SumGrows
  <2>5. /\ Cash!ExpiredTotals(u) = Sum(Cash!Total, Cash!ExpiredOf(u))
        /\ Cash!ExpiredTotals(u)' = Sum(Cash!Total', Cash!ExpiredOf(u)')
    BY DEF SumsOK, AsSums
  <2> QED
    BY <2>4, <2>5
<1>5. Cash!CashFunded(u)' = Cash!CashFunded(u)
  <2>1. CashOf(u)' = CashOf(u) /\ CashOf(u) \subseteq Packet
    BY DEF CashOf, Cash!PacketsOf, PacketKept
  <2>2. \A p \in CashOf(u) : Cash!Total[p] \in Int /\ Cash!Total[p] = Cash!Total'[p]
    BY <1>3 DEF CashOf, Cash!PacketsOf, PacketKept
  <2>3. IsFiniteSet(CashOf(u))
    BY <1>1, <2>1, FS_Subset
  <2>4. Sum(Cash!Total, CashOf(u)) = Sum(Cash!Total', CashOf(u))
    BY <2>2, <2>3, SumSame
  <2>5. /\ Cash!CashFunded(u) = Sum(Cash!Total, CashOf(u))
        /\ Cash!CashFunded(u)' = Sum(Cash!Total', CashOf(u)')
    BY DEF SumsOK, AsSums
  <2> QED
    BY <2>1, <2>4, <2>5
<1>6. Cash!Deposited(u) <= Cash!Deposited(u)' /\ Cash!CheckedOut(u)' <= Cash!CheckedOut(u)
  <2>1. Cash!Deposited(u)' = Cash!Deposited(u) /\ Cash!CheckedOut(u)' = Cash!CheckedOut(u)
    BY DEF Cash!Deposited, Cash!Deposits, Cash!CheckedOut, Cash!Checkouts
  <2>2. Cash!Deposited(u) \in Nat /\ Cash!CheckedOut(u) \in Nat
    BY DEF SumsOK, AsSums
  <2> QED
    BY <2>1, <2>2
<1>7. u \notin late' => Cash!Income(u) + Cash!ExpiredTotals(u) - Cash!ExpiredClaims(u)
                          <= Cash!Income(u)' + Cash!ExpiredTotals(u)' - Cash!ExpiredClaims(u)'
  BY WorthKept DEF PacketKept
<1> QED
  BY <1>2, <1>4, <1>5, <1>6, <1>7 DEF Kept

-----------------------------------------------------------------------------
(* The five SELECTs as one.                                                *)
Selects(r) ==
    \E read, next \in Cash!Steps, value \in Int :
        /\ Cash!Select(r, read, next, value)
        /\ read \in {"income", "deposits", "packets", "checkouts", "expired"}
        /\ next \notin {"idle", "income", "record"}
        /\ next = "checkouts" => req[r].spends = "checkout"

LEMMA SelectsAll ==
    ASSUME Cash!TypeOK, SumsOK, RequestsInv, NEW r \in Request,
           \/ Cash!SelectIncome(r) \/ Cash!SelectDeposits(r) \/ Cash!SelectPackets(r)
           \/ Cash!SelectCheckouts(r) \/ Cash!SelectExpired(r)
    PROVE  Selects(r)
<1> DEFINE u == req[r].user
<1>1. req[r].step \in {"income", "deposits", "packets", "checkouts", "expired"}
  BY DEF Cash!SelectIncome, Cash!SelectDeposits, Cash!SelectPackets, Cash!SelectCheckouts,
         Cash!SelectExpired, Cash!Select
<1>2. u \in User
  BY <1>1 DEF RequestsInv, RequestOK, RecordOK, Cash!Free
<1>3. /\ Cash!Income(u) \in Int /\ Cash!Deposited(u) \in Int
      /\ Cash!ExpiredTotals(u) - Cash!CashFunded(u) \in Int
      /\ -Cash!CheckedOut(u) \in Int /\ -Cash!ExpiredClaims(u) \in Int
  BY <1>2 DEF SumsOK, AsSums
<1>4. CASE Cash!SelectIncome(r)
  BY <1>3, <1>4 DEF Cash!SelectIncome, Selects, Cash!Steps
<1>5. CASE Cash!SelectDeposits(r)
  BY <1>3, <1>5 DEF Cash!SelectDeposits, Selects, Cash!Steps
<1>6. CASE Cash!SelectPackets(r)
  BY <1>3, <1>6 DEF Cash!SelectPackets, Selects, Cash!Steps
<1>7. CASE Cash!SelectCheckouts(r)
  BY <1>3, <1>7 DEF Cash!SelectCheckouts, Selects, Cash!Steps
<1>8. CASE Cash!SelectExpired(r)
  BY <1>3, <1>8 DEF Cash!SelectExpired, Selects, Cash!Steps
<1> QED
  BY <1>4, <1>5, <1>6, <1>7, <1>8

(* Replacing fields of a packet keeps its type.                            *)
LEMMA PacketRecord ==
    ASSUME NEW a \in Cash!Packets
    PROVE  /\ \A o \in User \union {None}, n \in 0..MaxAmount :
                 [a EXCEPT !.owner = o, !.total = n] \in Cash!Packets
           /\ \A o \in User, n \in 0..MaxAmount :
                 [a EXCEPT !.owner = o, !.total = n, !.fund = "sent", !.chain = "pending"]
                    \in Cash!Packets
           /\ \A f \in {"cash", "sent", "good", "failed"} : [a EXCEPT !.fund = f] \in Cash!Packets
           /\ \A ch \in Cash!Chain : [a EXCEPT !.chain = ch] \in Cash!Packets
           /\ [a EXCEPT !.filled = TRUE] \in Cash!Packets
           /\ [a EXCEPT !.expired = TRUE] \in Cash!Packets
           /\ \A s \in SUBSET ((User \union Telegram) \X (User \union {None})) :
                 [a EXCEPT !.slots = s] \in Cash!Packets
<1>1. \A o \in User \union {None}, n \in 0..MaxAmount :
                 [a EXCEPT !.owner = o, !.total = n] \in Cash!Packets
  BY DEF Cash!Packets
<1>2. \A f \in {"cash", "sent", "good", "failed"} : [a EXCEPT !.fund = f] \in Cash!Packets
  BY DEF Cash!Packets
<1>3. \A ch \in Cash!Chain : [a EXCEPT !.chain = ch] \in Cash!Packets
  BY DEF Cash!Packets
<1>4. [a EXCEPT !.filled = TRUE] \in Cash!Packets
  BY DEF Cash!Packets
<1>5. [a EXCEPT !.expired = TRUE] \in Cash!Packets
  BY DEF Cash!Packets
<1>6. \A s \in SUBSET ((User \union Telegram) \X (User \union {None})) :
                 [a EXCEPT !.slots = s] \in Cash!Packets
  BY DEF Cash!Packets
<1>7. \A o \in User, n \in 0..MaxAmount :
         [a EXCEPT !.owner = o, !.total = n, !.fund = "sent", !.chain = "pending"] \in Cash!Packets
  BY DEF Cash!Packets, Cash!Chain
<1> QED
  BY <1>1, <1>2, <1>3, <1>4, <1>5, <1>6, <1>7

LEMMA PacketTyped ==
    ASSUME Cash!TypeOK, NEW p \in Packet, NEW a \in Cash!Packets, packet' = [packet EXCEPT ![p] = a]
    PROVE  packet' \in [Packet -> Cash!Packets]
BY DEF Cash!TypeOK

(* The type of each table, one by one.                                     *)
LEMMA CashTypeStep ==
    ASSUME Cash!TypeOK, SumsOK, RequestsInv, Cash!Next
    PROVE  Cash!TypeOK'
<1> USE DEF Cash!TypeOK, Cash!history
<1>0. /\ 0 \in 0..MaxAmount /\ Cash!Amounts \subseteq 0..MaxAmount
      /\ Cash!Free \in [step : Cash!Steps, spends : {"none", "add", "checkout"},
                        user : User \union {None}, amount : 0..MaxAmount,
                        sum : Int, checkout : Checkout \union {None}]
  BY Tables DEF Cash!Amounts, Cash!Free, Cash!Steps
<1>1. ASSUME NEW r \in Request, NEW u \in User, NEW spends \in {"add", "checkout"},
             NEW n \in Cash!Amounts, Cash!Start(r, u, spends, n)
      PROVE  Cash!TypeOK'
  BY <1>0, <1>1 DEF Cash!Start, Cash!Free, Cash!Steps
<1>2. ASSUME NEW r \in Request, Selects(r) PROVE Cash!TypeOK'
  <2>1. PICK read \in Cash!Steps, next \in Cash!Steps, value \in Int : Cash!Select(r, read, next, value)
    BY <1>2 DEF Selects
  <2>2. req[r].sum + value \in Int
    OBVIOUS
  <2>3. req' = [req EXCEPT ![r] = [req[r] EXCEPT !.step = next, !.sum = req[r].sum + value]]
    BY <2>1 DEF Cash!Select
  <2>4. [req[r] EXCEPT !.step = next, !.sum = req[r].sum + value]
           \in [step : Cash!Steps, spends : {"none", "add", "checkout"},
               user : User \union {None}, amount : 0..MaxAmount,
               sum : Int, checkout : Checkout \union {None}]
    BY <2>2
  <2> QED
    BY <2>1, <2>3, <2>4 DEF Cash!Select
<1>3. ASSUME NEW r \in Request, Cash!Refuse(r) \/ Cash!Abort(r) PROVE Cash!TypeOK'
  BY <1>0, <1>3 DEF Cash!Refuse, Cash!Abort, Cash!End
<1>4. ASSUME NEW r \in Request, Cash!RecordPayOut(r) PROVE Cash!TypeOK'
  BY <1>0, <1>4 DEF Cash!RecordPayOut, Cash!End, Cash!Row, RequestsInv, RequestOK, RecordOK
<1>5. ASSUME NEW r \in Request, NEW p \in Packet, Cash!SpendOnPacket(r, p) PROVE Cash!TypeOK'
  <2>1. req' \in [Request -> [step : Cash!Steps, spends : {"none", "add", "checkout"},
                             user : User \union {None}, amount : 0..MaxAmount,
                             sum : Int, checkout : Checkout \union {None}]]
    BY <1>0, <1>5 DEF Cash!SpendOnPacket, Cash!End
  <2>2. req[r].user \in User
    BY <1>5 DEF Cash!SpendOnPacket, RequestsInv, RequestOK, RecordOK, Cash!Free
  <2>3. packet' \in [Packet -> Cash!Packets]
    <3>1. packet' = [packet EXCEPT ![p] = [packet[p] EXCEPT !.owner = req[r].user, !.total = req[r].amount]]
      BY <1>5 DEF Cash!SpendOnPacket
    <3>2. [packet[p] EXCEPT !.owner = req[r].user, !.total = req[r].amount] \in Cash!Packets
      BY <2>2, PacketRecord
    <3> QED
      BY <3>1, <3>2, PacketTyped
  <2> QED
    BY <1>5, <2>1, <2>2, <2>3 DEF Cash!SpendOnPacket
<1>6. ASSUME NEW r \in Request, NEW c \in Checkout, Cash!PayOut(r, c) PROVE Cash!TypeOK'
  <2>1. req' \in [Request -> [step : Cash!Steps, spends : {"none", "add", "checkout"},
                             user : User \union {None}, amount : 0..MaxAmount,
                             sum : Int, checkout : Checkout \union {None}]]
    <3>1. req' = [req EXCEPT ![r] = [req[r] EXCEPT !.step = "record", !.checkout = c]]
      BY <1>6 DEF Cash!PayOut
    <3>2. [req[r] EXCEPT !.step = "record", !.checkout = c]
             \in [step : Cash!Steps, spends : {"none", "add", "checkout"},
                 user : User \union {None}, amount : 0..MaxAmount,
                 sum : Int, checkout : Checkout \union {None}]
      BY DEF Cash!Steps
    <3> QED
      BY <3>1, <3>2
  <2>2. checkout' \in [Checkout -> [user : User \union {None}, amount : 0..MaxAmount,
                                    row : Cash!Row, chain : Cash!Chain]]
    BY <1>6 DEF Cash!PayOut, Cash!Row, Cash!Chain
  <2> QED
    BY <1>6, <2>1, <2>2 DEF Cash!PayOut
<1>7. ASSUME NEW p \in Packet, NEW u \in User, NEW n \in Cash!Amounts, Cash!AddFromWallet(u, p, n)
      PROVE  Cash!TypeOK'
  <2>1. packet' = [packet EXCEPT ![p] = [packet[p] EXCEPT !.owner = u, !.total = n,
                                                          !.fund = "sent", !.chain = "pending"]]
    BY <1>7 DEF Cash!AddFromWallet
  <2>2. [packet[p] EXCEPT !.owner = u, !.total = n, !.fund = "sent", !.chain = "pending"]
           \in Cash!Packets
    BY <1>0, PacketRecord
  <2>3. packet' \in [Packet -> Cash!Packets]
    BY <2>1, <2>2, PacketTyped
  <2> QED
    BY <1>7, <2>3 DEF Cash!AddFromWallet
<1>8. ASSUME NEW p \in Packet, Cash!FillSlots(p) \/ Cash!Expire(p) PROVE Cash!TypeOK'
  <2>1. \/ packet' = [packet EXCEPT ![p] = [packet[p] EXCEPT !.filled = TRUE]]
        \/ packet' = [packet EXCEPT ![p] = [packet[p] EXCEPT !.expired = TRUE]]
    BY <1>8 DEF Cash!FillSlots, Cash!Expire
  <2>2. /\ [packet[p] EXCEPT !.filled = TRUE] \in Cash!Packets
        /\ [packet[p] EXCEPT !.expired = TRUE] \in Cash!Packets
    BY PacketRecord
  <2>3. packet' \in [Packet -> Cash!Packets]
    BY <2>1, <2>2, PacketTyped
  <2> QED
    BY <1>8, <2>3 DEF Cash!FillSlots, Cash!Expire
<1>9. ASSUME NEW p \in Packet, Cash!ViewPacket(p) PROVE Cash!TypeOK'
  <2>1. packet' = [packet EXCEPT ![p] = [packet[p] EXCEPT !.fund = packet[p].chain]]
    BY <1>9 DEF Cash!ViewPacket
  <2>2. [packet[p] EXCEPT !.fund = packet[p].chain] \in Cash!Packets
    BY <1>9, PacketRecord DEF Cash!ViewPacket
  <2>3. packet' \in [Packet -> Cash!Packets]
    BY <2>1, <2>2, PacketTyped
  <2> QED
    BY <1>9, <2>3 DEF Cash!ViewPacket
<1>10. ASSUME NEW p \in Packet, NEW h \in User \union Telegram, Cash!Claim(h, p) PROVE Cash!TypeOK'
  <2>1. <<h, IF h \in User THEN h ELSE None>> \in (User \union Telegram) \X (User \union {None})
    BY <1>10
  <2> DEFINE s == packet[p].slots \union {<<h, IF h \in User THEN h ELSE None>>}
  <2>2. packet' = [packet EXCEPT ![p] = [packet[p] EXCEPT !.slots = s]]
    BY <1>10 DEF Cash!Claim
  <2>3. s \in SUBSET ((User \union Telegram) \X (User \union {None}))
    BY <2>1 DEF Cash!Packets
  <2> HIDE DEF s
  <2>4. [packet[p] EXCEPT !.slots = s] \in Cash!Packets
    BY <2>3, PacketRecord
  <2>5. packet' \in [Packet -> Cash!Packets]
    BY <2>2, <2>4, PacketTyped
  <2> QED
    BY <1>10, <2>5 DEF Cash!Claim
<1>11. ASSUME NEW u \in User, NEW t \in Telegram, Cash!Link(u, t) PROVE Cash!TypeOK'
  <2>1. <<t, u>> \in (User \union Telegram) \X (User \union {None})
    OBVIOUS
  <2>2. \A p \in Packet : packet[p] \in Cash!Packets
    OBVIOUS
  <2>3. \A p \in Packet :
           [packet[p] EXCEPT !.slots = (@ \ {<<t, None>>}) \union {<<t, u>>}] \in Cash!Packets
    <3> TAKE p \in Packet
    <3>1. (packet[p].slots \ {<<t, None>>}) \union {<<t, u>>}
             \in SUBSET ((User \union Telegram) \X (User \union {None}))
      BY <2>1, <2>2 DEF Cash!Packets
    <3>2. [packet[p] EXCEPT !.slots = (packet[p].slots \ {<<t, None>>}) \union {<<t, u>>}] \in Cash!Packets
      BY <2>2, <3>1, PacketRecord
    <3> QED
      BY <3>2
  <2>4. packet' \in [Packet -> Cash!Packets]
    BY <1>11, <2>2, <2>3 DEF Cash!Link
  <2> QED
    BY <1>11, <2>4 DEF Cash!Link
<1>12. ASSUME NEW d \in Deposit, NEW u \in User, NEW n \in Cash!Amounts, Cash!MakeDeposit(u, d, n)
       PROVE  Cash!TypeOK'
  BY <1>0, <1>12 DEF Cash!MakeDeposit, Cash!Row, Cash!Chain
<1>13. ASSUME NEW d \in Deposit, Cash!CheckDeposit(d) PROVE Cash!TypeOK'
  BY <1>13 DEF Cash!CheckDeposit, Cash!Row
<1>14. ASSUME NEW c \in Checkout, Cash!CheckCheckout(c) PROVE Cash!TypeOK'
  BY <1>14 DEF Cash!CheckCheckout, Cash!Row
<1>15. ASSUME NEW how \in {"good", "failed"}, NEW p \in Packet, Cash!MineFunding(p, how)
       PROVE  Cash!TypeOK'
  <2>1. packet' = [packet EXCEPT ![p] = [packet[p] EXCEPT !.chain = how]]
    BY <1>15 DEF Cash!MineFunding
  <2>2. [packet[p] EXCEPT !.chain = how] \in Cash!Packets
    BY PacketRecord DEF Cash!Chain
  <2>3. packet' \in [Packet -> Cash!Packets]
    BY <2>1, <2>2, PacketTyped
  <2> QED
    BY <1>15, <2>3 DEF Cash!MineFunding
<1>16. ASSUME NEW how \in {"good", "failed"}, NEW d \in Deposit, Cash!MineDeposit(d, how)
       PROVE  Cash!TypeOK'
  BY ZenonT(60), <1>16 DEF Cash!MineDeposit, Cash!Chain
<1>17. ASSUME NEW how \in {"good", "failed"}, NEW c \in Checkout, Cash!MineCheckout(c, how)
       PROVE  Cash!TypeOK'
  BY ZenonT(60), <1>17 DEF Cash!MineCheckout, Cash!Chain
<1> QED
  BY <1>1, <1>2, <1>3, <1>4, <1>5, <1>6, <1>7, <1>8, <1>9, <1>10, <1>11, <1>12, <1>13,
     <1>14, <1>15, <1>16, <1>17, SelectsAll
     DEF Cash!Next, Cash!Spend, Cash!PacketStep, Cash!ChainStep

-----------------------------------------------------------------------------
(* Slots and rows. *)

LEMMA OnePacket ==
    ASSUME Cash!TypeOK, SlotsInv, NEW p \in Packet, NEW a, packet' = [packet EXCEPT ![p] = a],
           IsFiniteSet(a.slots), Cardinality(a.slots) <= a.total, a.owner # None
    PROVE  SlotsInv'
BY DEF Cash!TypeOK, SlotsInv

(* A user may hold each slot once, as a claimer or by a link.              *)
LEMMA NewSlot ==
    ASSUME NEW S, IsFiniteSet(S), NEW x, x \notin S, NEW y
    PROVE  /\ IsFiniteSet(S \union {x}) /\ Cardinality(S \union {x}) = Cardinality(S) + 1
           /\ IsFiniteSet((S \ {y}) \union {x})
           /\ y \in S => Cardinality((S \ {y}) \union {x}) = Cardinality(S)
<1>1. IsFiniteSet(S \union {x}) /\ Cardinality(S \union {x}) = Cardinality(S) + 1
  BY FS_AddElement
<1>2. /\ IsFiniteSet(S \ {y})
      /\ y \in S => Cardinality(S \ {y}) = Cardinality(S) - 1
  BY FS_RemoveElement
<1>3. /\ IsFiniteSet((S \ {y}) \union {x})
      /\ Cardinality((S \ {y}) \union {x}) = Cardinality(S \ {y}) + 1
  BY <1>2, FS_AddElement
<1>4. Cardinality(S) \in Nat
  BY FS_CardinalityType
<1> QED
  BY <1>1, <1>2, <1>3, <1>4

LEMMA SlotsStep ==
    ASSUME Cash!TypeOK, SumsOK, SlotsInv, RequestsInv, Cash!Next
    PROVE  SlotsInv'
<1>0. /\ IsFiniteSet({}) /\ Cardinality({}) = 0
      /\ \A p \in Packet : packet[p] \in Cash!Packets
  BY FS_EmptySet DEF Cash!TypeOK
<1>1. ASSUME packet' = packet PROVE SlotsInv'
  BY <1>1 DEF SlotsInv
<1>2. ASSUME NEW r \in Request, NEW p \in Packet, Cash!SpendOnPacket(r, p) PROVE SlotsInv'
  <2> DEFINE a == [packet[p] EXCEPT !.owner = req[r].user, !.total = req[r].amount]
  <2>1. packet' = [packet EXCEPT ![p] = a]
    BY <1>2 DEF Cash!SpendOnPacket
  <2>2. packet[p].slots = {}
    BY <1>2 DEF Cash!SpendOnPacket, Cash!NoPacket
  <2>3. req[r].user \in User /\ req[r].amount \in Nat
    BY <1>2, Tables DEF Cash!SpendOnPacket, RequestsInv, RequestOK, RecordOK, Cash!Free, Cash!TypeOK
  <2>4. a.slots = {} /\ a.owner = req[r].user /\ a.total = req[r].amount
    BY <1>0, <2>2 DEF Cash!Packets
  <2> HIDE DEF a
  <2>5. IsFiniteSet(a.slots) /\ Cardinality(a.slots) <= a.total /\ a.owner # None
    BY <1>0, <2>3, <2>4, Tables
  <2> QED
    BY <2>1, <2>5, OnePacket
<1>3. ASSUME NEW p \in Packet, NEW u \in User, NEW n \in Cash!Amounts, Cash!AddFromWallet(u, p, n)
      PROVE  SlotsInv'
  <2> DEFINE a == [packet[p] EXCEPT !.owner = u, !.total = n, !.fund = "sent", !.chain = "pending"]
  <2>1. packet' = [packet EXCEPT ![p] = a]
    BY <1>3 DEF Cash!AddFromWallet
  <2>2. packet[p].slots = {}
    BY <1>3 DEF Cash!AddFromWallet, Cash!NoPacket
  <2>3. a.slots = {} /\ a.owner = u /\ a.total = n
    BY <1>0, <2>2 DEF Cash!Packets
  <2>4. n \in Nat
    BY Tables DEF Cash!Amounts
  <2> HIDE DEF a
  <2>5. IsFiniteSet(a.slots) /\ Cardinality(a.slots) <= a.total /\ a.owner # None
    BY <1>0, <2>3, <2>4, Tables
  <2> QED
    BY <2>1, <2>5, OnePacket
<1>4. ASSUME NEW p \in Packet, NEW a, packet' = [packet EXCEPT ![p] = a],
             a.slots = packet[p].slots, a.total = packet[p].total, a.owner = packet[p].owner,
             packet[p].owner # None
      PROVE  SlotsInv'
  <2>1. IsFiniteSet(a.slots) /\ Cardinality(a.slots) <= a.total /\ a.owner # None
    BY <1>4 DEF SlotsInv
  <2> QED
    BY <1>4, <2>1, OnePacket
<1>5. ASSUME NEW p \in Packet, Cash!FillSlots(p) PROVE SlotsInv'
  <2> DEFINE a == [packet[p] EXCEPT !.filled = TRUE]
  <2>1. packet' = [packet EXCEPT ![p] = a] /\ packet[p].owner # None
    BY <1>5 DEF Cash!FillSlots
  <2>2. a.slots = packet[p].slots /\ a.total = packet[p].total /\ a.owner = packet[p].owner
    BY <1>0 DEF Cash!Packets
  <2> QED
    BY <1>4, <2>1, <2>2
<1>6. ASSUME NEW p \in Packet, Cash!Expire(p) PROVE SlotsInv'
  <2> DEFINE a == [packet[p] EXCEPT !.expired = TRUE]
  <2>1. packet' = [packet EXCEPT ![p] = a] /\ packet[p].owner # None
    BY <1>6 DEF Cash!Expire
  <2>2. a.slots = packet[p].slots /\ a.total = packet[p].total /\ a.owner = packet[p].owner
    BY <1>0 DEF Cash!Packets
  <2> QED
    BY <1>4, <2>1, <2>2
<1>7. ASSUME NEW p \in Packet, Cash!ViewPacket(p) PROVE SlotsInv'
  <2> DEFINE a == [packet[p] EXCEPT !.fund = packet[p].chain]
  <2>1. packet' = [packet EXCEPT ![p] = a] /\ packet[p].fund = "sent"
    BY <1>7 DEF Cash!ViewPacket
  <2>2. a.slots = packet[p].slots /\ a.total = packet[p].total /\ a.owner = packet[p].owner
    BY <1>0 DEF Cash!Packets
  <2>3. packet[p].owner # None
    BY <2>1 DEF SlotsInv, Cash!NoPacket
  <2> QED
    BY <1>4, <2>1, <2>2, <2>3
<1>8. ASSUME NEW p \in Packet, NEW how, Cash!MineFunding(p, how) PROVE SlotsInv'
  <2> DEFINE a == [packet[p] EXCEPT !.chain = how]
  <2>1. packet' = [packet EXCEPT ![p] = a] /\ packet[p].chain = "pending"
    BY <1>8 DEF Cash!MineFunding
  <2>2. a.slots = packet[p].slots /\ a.total = packet[p].total /\ a.owner = packet[p].owner
    BY <1>0 DEF Cash!Packets
  <2>3. packet[p].owner # None
    BY <2>1 DEF SlotsInv, Cash!NoPacket
  <2> QED
    BY <1>4, <2>1, <2>2, <2>3
<1>9. ASSUME NEW p \in Packet, NEW h \in User \union Telegram, Cash!Claim(h, p) PROVE SlotsInv'
  <2> DEFINE x == <<h, IF h \in User THEN h ELSE None>>
             a == [packet[p] EXCEPT !.slots = packet[p].slots \union {x}]
  <2>1. packet' = [packet EXCEPT ![p] = a] /\ packet[p].filled
    BY <1>9 DEF Cash!Claim
  <2>2. a.slots = packet[p].slots \union {x} /\ a.total = packet[p].total /\ a.owner = packet[p].owner
    BY <1>0 DEF Cash!Packets
  <2>3. packet[p].owner # None
    BY <2>1 DEF SlotsInv, Cash!NoPacket
  <2>4. x \notin packet[p].slots
    BY <1>9 DEF Cash!Claim
  <2>5. Cardinality(packet[p].slots) < packet[p].total /\ IsFiniteSet(packet[p].slots)
    BY <1>9 DEF Cash!Claim, SumsOK, ValuesOK, SlotsInv
  <2> HIDE DEF x, a
  <2>6. /\ IsFiniteSet(packet[p].slots \union {x})
        /\ Cardinality(packet[p].slots \union {x}) = Cardinality(packet[p].slots) + 1
    BY <2>4, <2>5, NewSlot
  <2>7. Cardinality(packet[p].slots) \in Nat /\ packet[p].total \in Nat
    BY DEF SumsOK, ValuesOK
  <2>8. IsFiniteSet(a.slots) /\ Cardinality(a.slots) <= a.total /\ a.owner # None
    BY <2>2, <2>3, <2>5, <2>6, <2>7
  <2> QED
    BY <2>1, <2>8, OnePacket
<1>10. ASSUME NEW u \in User, NEW t \in Telegram, Cash!Link(u, t) PROVE SlotsInv'
  <2> SUFFICES ASSUME NEW p \in Packet
               PROVE  /\ IsFiniteSet(packet'[p].slots)
                      /\ Cardinality(packet'[p].slots) <= packet'[p].total
                      /\ packet'[p].owner = None => packet'[p] = Cash!NoPacket
    BY DEF SlotsInv
  <2> DEFINE S == packet[p].slots  a == [packet[p] EXCEPT !.slots = (S \ {<<t, None>>}) \union {<<t, u>>}]
  <2>1. CASE <<t, None>> \notin S
    <3>1. packet'[p] = packet[p]
      BY <1>10, <2>1 DEF Cash!Link
    <3> QED
      BY <3>1 DEF SlotsInv
  <2>2. CASE <<t, None>> \in S
    <3>1. packet'[p] = a /\ <<t, u>> \notin S
      BY <1>10, <2>2 DEF Cash!Link
    <3>2. a.slots = (S \ {<<t, None>>}) \union {<<t, u>>} /\ a.total = packet[p].total
          /\ a.owner = packet[p].owner
      BY <1>0 DEF Cash!Packets
    <3>3. packet[p].owner # None
      BY <2>2 DEF SlotsInv, Cash!NoPacket
    <3>4. IsFiniteSet(S) /\ Cardinality(S) <= packet[p].total
      BY DEF SlotsInv
    <3> HIDE DEF S, a
    <3>5. /\ IsFiniteSet((S \ {<<t, None>>}) \union {<<t, u>>})
          /\ Cardinality((S \ {<<t, None>>}) \union {<<t, u>>}) = Cardinality(S)
      BY <2>2, <3>1, <3>4, NewSlot
    <3> QED
      BY <3>1, <3>2, <3>3, <3>4, <3>5
  <2> QED
    BY <2>1, <2>2
<1> QED
  <2>1. ASSUME NEW r \in Request, Cash!Spend(r) PROVE SlotsInv'
    BY <1>1, <1>2, <2>1
       DEF Cash!Spend, Cash!Start, Cash!SelectIncome, Cash!SelectDeposits, Cash!SelectPackets,
           Cash!SelectCheckouts, Cash!SelectExpired, Cash!Select, Cash!Refuse,
           Cash!RecordPayOut, Cash!Abort, Cash!PayOut
  <2>2. ASSUME NEW p \in Packet, Cash!PacketStep(p) PROVE SlotsInv'
    BY <1>3, <1>5, <1>6, <1>7, <1>9, <2>2 DEF Cash!PacketStep
  <2>3. ASSUME NEW d \in Deposit,
               (\E u \in User, n \in Cash!Amounts : Cash!MakeDeposit(u, d, n)) \/ Cash!CheckDeposit(d)
        PROVE  SlotsInv'
    BY <1>1, <2>3 DEF Cash!MakeDeposit, Cash!CheckDeposit
  <2>4. ASSUME NEW c \in Checkout, Cash!CheckCheckout(c) PROVE SlotsInv'
    BY <1>1, <2>4 DEF Cash!CheckCheckout
  <2>5. ASSUME NEW how \in {"good", "failed"}, Cash!ChainStep(how) PROVE SlotsInv'
    BY <1>1, <1>8, <2>5 DEF Cash!ChainStep, Cash!MineDeposit, Cash!MineCheckout
  <2> QED
    BY <1>10, <2>1, <2>2, <2>3, <2>4, <2>5 DEF Cash!Next

LEMMA RowsStep ==
    ASSUME Cash!TypeOK, SumsOK, RowsInv, RequestsInv, Cash!Next
    PROVE  RowsInv'
<1> USE DEF Cash!TypeOK, RowsInv
<1>1. ASSUME UNCHANGED <<deposit, checkout>> PROVE RowsInv'
  BY <1>1
<1>2. ASSUME NEW r \in Request, NEW c \in Checkout, Cash!PayOut(r, c) PROVE RowsInv'
  BY <1>2 DEF Cash!PayOut
<1>3. ASSUME NEW r \in Request, Cash!RecordPayOut(r) PROVE RowsInv'
  <2>1. /\ req[r].checkout \in Checkout /\ checkout[req[r].checkout].user = req[r].user
        /\ req[r].user \in User
    BY <1>3 DEF Cash!RecordPayOut, RequestsInv, RequestOK, RecordOK, Cash!Free
  <2> QED
    BY <1>3, <2>1 DEF Cash!RecordPayOut
<1>4. ASSUME NEW d \in Deposit, NEW u \in User, NEW n \in Cash!Amounts, Cash!MakeDeposit(u, d, n)
      PROVE  RowsInv'
  BY <1>4 DEF Cash!MakeDeposit
<1>5. ASSUME NEW d \in Deposit, Cash!CheckDeposit(d) PROVE RowsInv'
  BY <1>5 DEF Cash!CheckDeposit
<1>6. ASSUME NEW c \in Checkout, Cash!CheckCheckout(c) PROVE RowsInv'
  BY <1>6 DEF Cash!CheckCheckout
<1>7. ASSUME NEW how \in {"good", "failed"}, NEW d \in Deposit, Cash!MineDeposit(d, how) PROVE RowsInv'
  BY <1>7 DEF Cash!MineDeposit
<1>8. ASSUME NEW how \in {"good", "failed"}, NEW c \in Checkout, Cash!MineCheckout(c, how) PROVE RowsInv'
  BY <1>8 DEF Cash!MineCheckout
<1>9. ASSUME NEW r \in Request, Cash!Spend(r) PROVE RowsInv'
  <2>1. ASSUME NEW u \in User, NEW spends, NEW n, Cash!Start(r, u, spends, n) PROVE RowsInv'
    BY <1>1, <2>1 DEF Cash!Start
  <2>2. ASSUME Selects(r) PROVE RowsInv'
    BY <1>1, <2>2 DEF Selects, Cash!Select
  <2>3. ASSUME Cash!Refuse(r) \/ Cash!Abort(r) PROVE RowsInv'
    BY <1>1, <2>3 DEF Cash!Refuse, Cash!Abort
  <2>4. ASSUME NEW p \in Packet, Cash!SpendOnPacket(r, p) PROVE RowsInv'
    BY <1>1, <2>4 DEF Cash!SpendOnPacket
  <2> HIDE DEF Cash!TypeOK, RowsInv
  <2> QED
    BY <1>2, <1>3, <1>9, <2>1, <2>2, <2>3, <2>4, SelectsAll DEF Cash!Spend
<1>10. ASSUME NEW p \in Packet, Cash!PacketStep(p) PROVE RowsInv'
  BY <1>1, <1>10 DEF Cash!PacketStep, Cash!AddFromWallet, Cash!FillSlots, Cash!Expire,
                     Cash!ViewPacket, Cash!Claim
<1>11. ASSUME NEW u \in User, NEW t \in Telegram, Cash!Link(u, t) PROVE RowsInv'
  BY <1>1, <1>11 DEF Cash!Link
<1>12. ASSUME NEW how, NEW p \in Packet, Cash!MineFunding(p, how) PROVE RowsInv'
  BY <1>1, <1>12 DEF Cash!MineFunding
<1> HIDE DEF Cash!TypeOK, RowsInv
<1> QED
  BY <1>4, <1>5, <1>6, <1>7, <1>8, <1>9, <1>10, <1>11, <1>12 DEF Cash!Next, Cash!ChainStep

LEMMA OneRequest ==
    ASSUME RequestsInv, NEW r \in Request, RequestOK(r)', req'[r].step # "record",
           \A s \in Request \ {r} :
              /\ req'[s] = req[s]
              /\ req[s].step = "record" => checkout'[req[s].checkout] = checkout[req[s].checkout]
    PROVE  RequestsInv'
<1>1. \A s \in Request \ {r} : RequestOK(s)'
  BY DEF RequestsInv, RequestOK
<1>2. \A s \in Request \ {r} : RecordOK(s)'
  BY DEF RequestsInv, RecordOK
<1>3. RecordOK(r)'
  BY DEF RecordOK
<1>4. \A s1, s2 \in Request, c \in Checkout : Records(s1, c)' /\ Records(s2, c)' => s1 = s2
  BY DEF RequestsInv, Records
<1> QED
  BY <1>1, <1>2, <1>3, <1>4 DEF RequestsInv

LEMMA RequestsStep ==
    ASSUME Cash!TypeOK, SumsOK, RowsInv, RequestsInv, Cash!Next
    PROVE  RequestsInv'
<1> USE DEF Cash!TypeOK
<1>0. None \notin User
  BY Tables
<1>1. ASSUME UNCHANGED <<checkout, req>> PROVE RequestsInv'
  BY <1>1 DEF RequestsInv, RequestOK, RecordOK, Records
<1>2. ASSUME NEW r \in Request, NEW u \in User, NEW spends \in {"add", "checkout"},
             NEW n \in Cash!Amounts, Cash!Start(r, u, spends, n)
      PROVE  RequestsInv'
  <2>1. /\ req'[r].step = "income" /\ req'[r].user = u /\ req'[r].spends = spends
        /\ \A s \in Request \ {r} : req'[s] = req[s]
        /\ checkout' = checkout
    BY <1>2 DEF Cash!Start, Cash!Free
  <2>2. RequestOK(r)'
    BY <2>1 DEF RequestOK
  <2> QED
    BY <2>1, <2>2, OneRequest
<1>3. ASSUME NEW r \in Request, Selects(r) PROVE RequestsInv'
  <2>1. PICK read \in Cash!Steps, next \in Cash!Steps, value \in Int :
           /\ Cash!Select(r, read, next, value)
           /\ read \in {"income", "deposits", "packets", "checkouts", "expired"}
           /\ next \notin {"idle", "income", "record"}
           /\ next = "checkouts" => req[r].spends = "checkout"
    BY <1>3 DEF Selects
  <2>2. /\ req'[r].step = next /\ req'[r].user = req[r].user /\ req'[r].spends = req[r].spends
        /\ \A s \in Request \ {r} : req'[s] = req[s]
        /\ checkout' = checkout
    BY <2>1 DEF Cash!Select
  <2>3. req[r] # Cash!Free
    BY <2>1 DEF Cash!Select, Cash!Free
  <2>4. RequestOK(r)
    BY DEF RequestsInv
  <2>5. RequestOK(r)'
    BY <2>1, <2>2, <2>3, <2>4 DEF RequestOK
  <2> QED
    BY <2>1, <2>2, <2>5, OneRequest
<1>4. ASSUME NEW r \in Request, Cash!End(r), checkout' = checkout PROVE RequestsInv'
  <2>1. req'[r] = Cash!Free /\ \A s \in Request \ {r} : req'[s] = req[s]
    BY <1>4 DEF Cash!End
  <2>2. Cash!Free.step = "idle"
    BY DEF Cash!Free
  <2>3. RequestOK(r)'
    BY <2>1 DEF RequestOK
  <2> QED
    BY <1>4, <2>1, <2>2, <2>3, OneRequest
<1>5. ASSUME NEW r \in Request, Cash!RecordPayOut(r) PROVE RequestsInv'
  <2> DEFINE c == req[r].checkout
  <2>1. req'[r] = Cash!Free /\ \A s \in Request \ {r} : req'[s] = req[s]
    BY <1>5 DEF Cash!RecordPayOut, Cash!End
  <2>2. Cash!Free.step = "idle"
    BY DEF Cash!Free
  <2>3. c \in Checkout /\ Records(r, c)
    BY <1>5 DEF Cash!RecordPayOut, RequestsInv, RequestOK, RecordOK, Records
  <2>4. \A s \in Request \ {r} : req[s].step = "record" => req[s].checkout # c
    BY <2>3 DEF RequestsInv, RequestOK, RecordOK, Records
  <2>5. \A e \in Checkout \ {c} : checkout'[e] = checkout[e]
    BY <1>5, <2>3 DEF Cash!RecordPayOut
  <2>6. \A s \in Request \ {r} : req[s].step = "record" => req[s].checkout \in Checkout \ {c}
    BY <2>4 DEF RequestsInv, RecordOK
  <2>7. RequestOK(r)'
    BY <2>1 DEF RequestOK
  <2> HIDE DEF c
  <2> QED
    BY <2>1, <2>2, <2>5, <2>6, <2>7, OneRequest
<1>6. ASSUME NEW r \in Request, NEW c \in Checkout, Cash!PayOut(r, c) PROVE RequestsInv'
  <2>1. /\ req'[r].step = "record" /\ req'[r].user = req[r].user /\ req'[r].spends = req[r].spends
        /\ req'[r].checkout = c /\ req'[r].amount = req[r].amount
        /\ \A s \in Request \ {r} : req'[s] = req[s]
    BY <1>6 DEF Cash!PayOut
  <2>2. /\ checkout'[c].user = req[r].user /\ checkout'[c].amount = req[r].amount
        /\ checkout'[c].row = "none"
        /\ \A e \in Checkout \ {c} : checkout'[e] = checkout[e]
    BY <1>6 DEF Cash!PayOut
  <2>3. req[r].step = "spend" /\ checkout[c].user = None
    BY <1>6 DEF Cash!PayOut
  <2>4. req[r] # Cash!Free
    BY <2>3 DEF Cash!Free
  <2>5. \A s \in Request : req[s].step = "record" => req[s].checkout # c
    BY <1>0, <2>3 DEF RequestsInv, RequestOK, RecordOK, Cash!Free
  <2>6. \A s \in Request :
           \/ req'[s] = Cash!Free
           \/ /\ req'[s].step # "idle" /\ req'[s].user \in User
              /\ req'[s].spends \in {"add", "checkout"}
              /\ req'[s].step = "checkouts" => req'[s].spends = "checkout"
    BY <2>1, <2>4 DEF RequestsInv, RequestOK, RecordOK
  <2>7. \A s \in Request :
          req'[s].step = "record" =>
             /\ req'[s].checkout \in Checkout
             /\ checkout'[req'[s].checkout].user = req'[s].user
             /\ checkout'[req'[s].checkout].amount = req'[s].amount
             /\ checkout'[req'[s].checkout].row = "none"
    BY <2>1, <2>2, <2>5 DEF RequestsInv, RequestOK, RecordOK
  <2>8. \A s1, s2 \in Request, e \in Checkout : Records(s1, e)' /\ Records(s2, e)' => s1 = s2
    BY <2>1, <2>5 DEF RequestsInv, RequestOK, RecordOK, Records
  <2> QED
    BY <2>6, <2>7, <2>8 DEF RequestsInv, RequestOK, RecordOK
<1>7. ASSUME NEW c \in Checkout, req' = req, checkout[c].row # "none",
             \A e \in Checkout \ {c} : checkout'[e] = checkout[e]
      PROVE  RequestsInv'
  <2>1. \A s \in Request : req[s].step = "record" => req[s].checkout # c
    BY <1>7 DEF RequestsInv, RequestOK, RecordOK
  <2> QED
    BY <1>7, <2>1 DEF RequestsInv, RequestOK, RecordOK, Records
<1>8. ASSUME NEW c \in Checkout, Cash!CheckCheckout(c) PROVE RequestsInv'
  BY <1>7, <1>8 DEF Cash!CheckCheckout
<1>9. ASSUME NEW how \in {"good", "failed"}, NEW c \in Checkout, Cash!MineCheckout(c, how)
      PROVE  RequestsInv'
  <2>1. /\ checkout'[c].user = checkout[c].user /\ checkout'[c].amount = checkout[c].amount
        /\ checkout'[c].row = checkout[c].row /\ req' = req
        /\ \A e \in Checkout \ {c} : checkout'[e] = checkout[e]
    BY <1>9 DEF Cash!MineCheckout
  <2> QED
    BY <2>1 DEF RequestsInv, RequestOK, RecordOK, Records
<1>10. ASSUME NEW r \in Request, Cash!Spend(r) PROVE RequestsInv'
  <2>1. ASSUME Cash!Refuse(r) \/ Cash!Abort(r) PROVE RequestsInv'
    BY <1>4, <2>1 DEF Cash!Refuse, Cash!Abort
  <2>2. ASSUME NEW p \in Packet, Cash!SpendOnPacket(r, p) PROVE RequestsInv'
    BY <1>4, <2>2 DEF Cash!SpendOnPacket
  <2> HIDE DEF Cash!TypeOK
  <2> QED
    BY <1>2, <1>3, <1>5, <1>6, <1>10, <2>1, <2>2, SelectsAll DEF Cash!Spend
<1>11. ASSUME NEW p \in Packet, Cash!PacketStep(p) PROVE RequestsInv'
  BY <1>1, <1>11 DEF Cash!PacketStep, Cash!AddFromWallet, Cash!FillSlots, Cash!Expire,
                     Cash!ViewPacket, Cash!Claim
<1>12. ASSUME NEW u \in User, NEW t \in Telegram, Cash!Link(u, t) PROVE RequestsInv'
  BY <1>1, <1>12 DEF Cash!Link
<1>13. ASSUME NEW d \in Deposit,
              (\E u \in User, n \in Cash!Amounts : Cash!MakeDeposit(u, d, n)) \/ Cash!CheckDeposit(d)
       PROVE  RequestsInv'
  BY <1>1, <1>13 DEF Cash!MakeDeposit, Cash!CheckDeposit
<1>14. ASSUME NEW how \in {"good", "failed"}, NEW p \in Packet, Cash!MineFunding(p, how)
       PROVE  RequestsInv'
  BY <1>1, <1>14 DEF Cash!MineFunding
<1>15. ASSUME NEW how \in {"good", "failed"}, NEW d \in Deposit, Cash!MineDeposit(d, how)
       PROVE  RequestsInv'
  BY <1>1, <1>15 DEF Cash!MineDeposit
<1> HIDE DEF Cash!TypeOK
<1> QED
  BY <1>8, <1>9, <1>10, <1>11, <1>12, <1>13, <1>14, <1>15 DEF Cash!Next, Cash!ChainStep

(* overlapped only grows, and a second request of a user puts it there.    *)
LEMMA OneStep ==
    ASSUME Cash!TypeOK, SumsOK, RequestsInv, OneAtATime, Cash!Next
    PROVE  OneAtATime'
<1> USE DEF Cash!TypeOK
<1>1. ASSUME overlapped' = overlapped,
             \A s \in Request : req'[s].user \in {req[s].user, None}
      PROVE  OneAtATime'
  BY <1>1, Tables DEF OneAtATime, Cash!Spending
<1>2. ASSUME req' = req, overlapped' = overlapped PROVE OneAtATime'
  BY <1>2 DEF OneAtATime, Cash!Spending
<1>3. ASSUME NEW r \in Request, NEW u \in User, NEW spends \in {"add", "checkout"},
             NEW n \in Cash!Amounts, Cash!Start(r, u, spends, n)
      PROVE  OneAtATime'
  <2>1. req'[r].user = u /\ \A s \in Request \ {r} : req'[s] = req[s]
    BY <1>3 DEF Cash!Start, Cash!Free
  <2>2. /\ overlapped \subseteq overlapped'
        /\ u \notin overlapped' => \A s \in Request : req[s].user # u
    BY <1>3 DEF Cash!Start, Cash!Spending
  <2> QED
    BY <2>1, <2>2 DEF OneAtATime, Cash!Spending
<1>4. ASSUME NEW r \in Request, Selects(r) PROVE OneAtATime'
  <2>1. overlapped' = overlapped /\ \A s \in Request : req'[s].user = req[s].user
    BY <1>4 DEF Selects, Cash!Select, Cash!history
  <2> QED
    BY <1>1, <2>1
<1>5. ASSUME NEW r \in Request, Cash!End(r), overlapped' = overlapped PROVE OneAtATime'
  <2>1. \A s \in Request : req'[s].user \in {req[s].user, None}
    BY <1>5 DEF Cash!End, Cash!Free
  <2> QED
    BY <1>1, <1>5, <2>1
<1>6. ASSUME NEW r \in Request, NEW c \in Checkout, Cash!PayOut(r, c) PROVE OneAtATime'
  <2>1. overlapped' = overlapped /\ \A s \in Request : req'[s].user = req[s].user
    BY <1>6 DEF Cash!PayOut, Cash!history
  <2> QED
    BY <1>1, <2>1
<1>7. ASSUME NEW r \in Request, Cash!Spend(r) PROVE OneAtATime'
  <2>1. ASSUME Cash!Refuse(r) \/ Cash!Abort(r) \/ Cash!RecordPayOut(r) PROVE OneAtATime'
    BY <1>5, <2>1 DEF Cash!Refuse, Cash!Abort, Cash!RecordPayOut, Cash!history
  <2>2. ASSUME NEW p \in Packet, Cash!SpendOnPacket(r, p) PROVE OneAtATime'
    BY <1>5, <2>2 DEF Cash!SpendOnPacket
  <2> HIDE DEF Cash!TypeOK
  <2> QED
    BY <1>3, <1>4, <1>6, <1>7, <2>1, <2>2, SelectsAll DEF Cash!Spend
<1>8. ASSUME NEW p \in Packet, Cash!PacketStep(p) PROVE OneAtATime'
  BY <1>2, <1>8 DEF Cash!PacketStep, Cash!AddFromWallet, Cash!FillSlots, Cash!Expire,
                    Cash!ViewPacket, Cash!Claim, Cash!history
<1>9. ASSUME NEW u \in User, NEW t \in Telegram, Cash!Link(u, t) PROVE OneAtATime'
  BY <1>2, <1>9 DEF Cash!Link, Cash!history
<1>10. ASSUME NEW d \in Deposit,
              (\E u \in User, n \in Cash!Amounts : Cash!MakeDeposit(u, d, n)) \/ Cash!CheckDeposit(d)
       PROVE  OneAtATime'
  BY <1>2, <1>10 DEF Cash!MakeDeposit, Cash!CheckDeposit, Cash!history
<1>11. ASSUME NEW c \in Checkout, Cash!CheckCheckout(c) PROVE OneAtATime'
  BY <1>2, <1>11 DEF Cash!CheckCheckout, Cash!history
<1>12. ASSUME NEW how \in {"good", "failed"}, Cash!ChainStep(how) PROVE OneAtATime'
  BY <1>2, <1>12 DEF Cash!ChainStep, Cash!MineFunding, Cash!MineDeposit, Cash!MineCheckout, Cash!history
<1> HIDE DEF Cash!TypeOK
<1> QED
  BY <1>7, <1>8, <1>9, <1>10, <1>11, <1>12 DEF Cash!Next

-----------------------------------------------------------------------------
(* What each step keeps. *)

LEMMA KeptAll ==
    ASSUME SumsOK, SumsOK', NEW u \in User, UNCHANGED <<packet, deposit, checkout>>
    PROVE  Kept(u)
<1>1. /\ Cash!Income(u)' = Cash!Income(u) /\ Cash!Deposited(u)' = Cash!Deposited(u)
      /\ Cash!ExpiredTotals(u)' = Cash!ExpiredTotals(u) /\ Cash!CashFunded(u)' = Cash!CashFunded(u)
      /\ Cash!CheckedOut(u)' = Cash!CheckedOut(u) /\ Cash!ExpiredClaims(u)' = Cash!ExpiredClaims(u)
  BY DEF Cash!Income, Cash!ClaimedBy, Cash!Deposited, Cash!Deposits, Cash!ExpiredTotals, Cash!Total,
         Cash!ExpiredOf, Cash!PacketsOf, Cash!CashFunded, Cash!CheckedOut, Cash!Checkouts,
         Cash!ExpiredClaims, Cash!Claimed
<1>2. /\ Cash!Income(u) \in Nat /\ Cash!Deposited(u) \in Nat /\ Cash!ExpiredTotals(u) \in Nat
      /\ Cash!CheckedOut(u) \in Nat /\ Cash!ExpiredClaims(u) \in Nat
  BY DEF SumsOK, AsSums
<1> QED
  BY <1>1, <1>2 DEF Kept

(* Packets, deposits and checkouts are in sums of their own.               *)
LEMMA KeptPackets ==
    ASSUME SumsOK, NEW u \in User, packet' = packet,
           Cash!Deposited(u) <= Cash!Deposited(u)', Cash!CheckedOut(u)' <= Cash!CheckedOut(u)
    PROVE  Kept(u)
<1>1. /\ Cash!Income(u)' = Cash!Income(u)
      /\ Cash!ExpiredTotals(u)' = Cash!ExpiredTotals(u) /\ Cash!CashFunded(u)' = Cash!CashFunded(u)
      /\ Cash!ExpiredClaims(u)' = Cash!ExpiredClaims(u)
  BY DEF Cash!Income, Cash!ClaimedBy, Cash!ExpiredTotals, Cash!Total,
         Cash!ExpiredOf, Cash!PacketsOf, Cash!CashFunded, Cash!ExpiredClaims, Cash!Claimed
<1>2. Cash!Income(u) \in Nat /\ Cash!ExpiredTotals(u) \in Nat /\ Cash!ExpiredClaims(u) \in Nat
  BY DEF SumsOK, AsSums
<1> QED
  BY <1>1, <1>2 DEF Kept

LEMMA KeptDeposits ==
    ASSUME SumsOK, SumsOK', NEW u \in User, UNCHANGED <<packet, checkout>>,
           \A d \in GoodDeposits(u) : d \in GoodDeposits(u)' /\ deposit'[d].amount = deposit[d].amount
    PROVE  Kept(u)
<1>1. /\ GoodDeposits(u) \in SUBSET Deposit /\ GoodDeposits(u)' \in SUBSET Deposit
      /\ GoodDeposits(u) \subseteq GoodDeposits(u)'
  BY DEF GoodDeposits
<1>2. \A d \in Deposit : /\ Cash!Deposits[d] = deposit[d].amount /\ Cash!Deposits[d] \in Nat
                         /\ Cash!Deposits'[d] = deposit'[d].amount /\ Cash!Deposits'[d] \in Nat
  BY DEF SumsOK, ValuesOK
<1>3. /\ \A d \in GoodDeposits(u) : Cash!Deposits[d] \in Int /\ Cash!Deposits[d] <= Cash!Deposits'[d]
      /\ \A d \in GoodDeposits(u)' : Cash!Deposits'[d] \in Nat
  BY <1>1, <1>2
<1>4. Sum(Cash!Deposits, GoodDeposits(u)) <= Sum(Cash!Deposits', GoodDeposits(u)')
  BY <1>1, <1>3, Tables, SumGrows
<1>5. Cash!Deposited(u) <= Cash!Deposited(u)'
  BY <1>4 DEF SumsOK, AsSums
<1>6. Cash!CheckedOut(u)' <= Cash!CheckedOut(u)
  <2>1. Cash!CheckedOut(u)' = Cash!CheckedOut(u)
    BY DEF Cash!CheckedOut, Cash!Checkouts
  <2>2. Cash!CheckedOut(u) \in Nat
    BY DEF SumsOK, AsSums
  <2> QED
    BY <2>1, <2>2
<1> QED
  BY <1>5, <1>6, KeptPackets

LEMMA KeptCheckouts ==
    ASSUME SumsOK, SumsOK', NEW u \in User, UNCHANGED <<packet, deposit>>,
           \A c \in OpenCheckouts(u)' :
              c \in OpenCheckouts(u) /\ checkout'[c].amount = checkout[c].amount
    PROVE  Kept(u)
<1>1. /\ OpenCheckouts(u) \in SUBSET Checkout /\ OpenCheckouts(u)' \in SUBSET Checkout
      /\ OpenCheckouts(u)' \subseteq OpenCheckouts(u)
  BY DEF OpenCheckouts
<1>2. \A c \in Checkout : /\ Cash!Checkouts[c] = checkout[c].amount /\ Cash!Checkouts[c] \in Nat
                          /\ Cash!Checkouts'[c] = checkout'[c].amount /\ Cash!Checkouts'[c] \in Nat
  BY DEF SumsOK, ValuesOK
<1>3. /\ \A c \in OpenCheckouts(u)' : Cash!Checkouts'[c] \in Int /\ Cash!Checkouts'[c] <= Cash!Checkouts[c]
      /\ \A c \in OpenCheckouts(u) : Cash!Checkouts[c] \in Nat
  BY <1>1, <1>2
<1>4. Sum(Cash!Checkouts', OpenCheckouts(u)') <= Sum(Cash!Checkouts, OpenCheckouts(u))
  BY <1>1, <1>3, Tables, SumGrows
<1>5. Cash!CheckedOut(u)' <= Cash!CheckedOut(u)
  BY <1>4 DEF SumsOK, AsSums
<1>6. Cash!Deposited(u) <= Cash!Deposited(u)'
  <2>1. Cash!Deposited(u)' = Cash!Deposited(u)
    BY DEF Cash!Deposited, Cash!Deposits
  <2>2. Cash!Deposited(u) \in Nat
    BY DEF SumsOK, AsSums
  <2> QED
    BY <2>1, <2>2
<1> QED
  BY <1>5, <1>6, KeptPackets

(* A packet with the same slots.                                           *)
LEMMA SameSlots ==
    ASSUME SumsOK, NEW u \in User, NEW p \in Packet, packet'[p].slots = packet[p].slots,
           packet'[p].owner = packet[p].owner, packet'[p].total = packet[p].total,
           packet'[p].fund = "cash" <=> packet[p].fund = "cash",
           packet[p].expired => packet'[p].expired
    PROVE  PacketKept(u, p)
<1>1. SlotsOf(u, p)' = SlotsOf(u, p)
  BY DEF SlotsOf
<1>2. /\ SlotsOf(u, p) \in Nat /\ Cardinality(packet[p].slots) \in Nat /\ packet[p].total \in Nat
      /\ Cardinality(packet[p].slots) <= packet[p].total
  BY DEF SumsOK, ValuesOK
<1>3. Refund(u, p) <= Refund(u, p)' /\ Refund(u, p) \in Int /\ Refund(u, p)' \in Int
  BY <1>2 DEF Refund
<1> QED
  BY <1>1, <1>2, <1>3 DEF PacketKept

(* A new packet, of somebody else or not from cash.                        *)
LEMMA NewPacket ==
    ASSUME SumsOK, NEW u \in User, NEW p \in Packet, packet[p] = Cash!NoPacket,
           packet'[p].slots = {}, ~packet'[p].expired,
           packet'[p].owner = u => packet'[p].fund # "cash"
    PROVE  PacketKept(u, p)
<1>1. packet[p].slots = {} /\ ~packet[p].expired /\ packet[p].owner # u
  BY Tables DEF Cash!NoPacket
<1>2. SlotsOf(u, p)' = SlotsOf(u, p)
  BY <1>1 DEF SlotsOf
<1>3. Refund(u, p) = 0 /\ Refund(u, p)' = 0
  BY <1>1 DEF Refund
<1>4. SlotsOf(u, p) \in Nat
  BY DEF SumsOK, ValuesOK
<1> QED
  BY <1>1, <1>2, <1>3, <1>4 DEF PacketKept

LEMMA ClaimKeeps ==
    ASSUME Cash!TypeOK, SlotsInv, SumsOK, NEW u \in User, NEW h \in User \union Telegram,
           NEW q \in Packet, Cash!Claim(h, q), NEW p \in Packet
    PROVE  PacketKept(u, p)
<1>1. CASE p # q
  <2>1. packet'[p] = packet[p]
    BY <1>1 DEF Cash!Claim
  <2> QED
    BY <2>1, SameSlots
<1>2. CASE p = q
  <2> DEFINE v == IF h \in User THEN h ELSE None
             S == packet[p].slots
             Of == {s \in S : s[2] = u}
  <2>1. packet[p] \in Cash!Packets
    BY DEF Cash!TypeOK
  <2>2. /\ packet'[p].slots = S \union {<<h, v>>}
        /\ packet'[p].owner = packet[p].owner /\ packet'[p].total = packet[p].total
        /\ packet'[p].fund = packet[p].fund /\ packet'[p].expired = packet[p].expired
    <3>1. packet'[p] = [packet[p] EXCEPT !.slots = S \union {<<h, v>>}]
      BY <1>2 DEF Cash!Claim, Cash!TypeOK
    <3> HIDE DEF S, v
    <3> QED
      BY <2>1, <3>1 DEF Cash!Packets
  <2>3. <<h, v>> \notin S /\ IsFiniteSet(S) /\ IsFiniteSet(Of)
    BY <1>2, FS_Subset DEF Cash!Claim, SlotsInv
  <2>4. Cardinality(packet'[p].slots) = Cardinality(S) + 1
    <3> DEFINE x == <<h, v>>
    <3>1. packet'[p].slots = S \union {x} /\ x \notin S /\ IsFiniteSet(S)
      BY <2>2, <2>3
    <3> HIDE DEF S, x
    <3>2. Cardinality(S \union {x}) = Cardinality(S) + 1
      BY <3>1, NewSlot
    <3> QED
      BY <3>1, <3>2
  <2>5. SlotsOf(u, p) = Cardinality(Of) /\ SlotsOf(u, p) \in Nat
    BY DEF SlotsOf, SumsOK, ValuesOK
  <2>6. v = u => SlotsOf(u, p)' = SlotsOf(u, p) + 1
    <3> SUFFICES ASSUME v = u PROVE SlotsOf(u, p)' = SlotsOf(u, p) + 1
      OBVIOUS
    <3>1. {s \in packet'[p].slots : s[2] = u} = Of \union {<<h, v>>} /\ <<h, v>> \notin Of
      BY <2>2, <2>3
    <3> HIDE DEF Of, v
    <3>2. Cardinality(Of \union {<<h, v>>}) = Cardinality(Of) + 1
      BY <2>3, <3>1, NewSlot
    <3> QED
      BY <2>5, <3>1, <3>2 DEF SlotsOf
  <2>7. v # u => SlotsOf(u, p)' = SlotsOf(u, p)
    <3> SUFFICES ASSUME v # u PROVE SlotsOf(u, p)' = SlotsOf(u, p)
      OBVIOUS
    <3>1. {s \in packet'[p].slots : s[2] = u} = Of
      BY <2>2
    <3> QED
      BY <2>5, <3>1 DEF SlotsOf
  <2>8. packet[p].owner = u /\ packet[p].expired /\ v # u => u \in late'
    <3>1. v # u => h # u
      OBVIOUS
    <3> QED
      BY <1>2, <3>1 DEF Cash!Claim
  <2>9. /\ Refund(u, p) = IF packet[p].owner = u /\ packet[p].expired
                          THEN packet[p].total - Cardinality(S) ELSE 0
        /\ Refund(u, p)' = IF packet[p].owner = u /\ packet[p].expired
                           THEN packet[p].total - (Cardinality(S) + 1) ELSE 0
    BY <2>2, <2>4 DEF Refund
  <2>10. Cardinality(S) \in Nat /\ packet[p].total \in Nat
    BY DEF SumsOK, ValuesOK
  <2> HIDE DEF S, Of, v
  <2>11. SlotsOf(u, p) <= SlotsOf(u, p)'
    BY <2>5, <2>6, <2>7
  <2>12. u \in late' \/ SlotsOf(u, p) + Refund(u, p) <= SlotsOf(u, p)' + Refund(u, p)'
    <3>1. CASE v = u
      BY <2>5, <2>6, <2>9, <2>10, <3>1
    <3>2. CASE v # u
      BY <2>5, <2>7, <2>8, <2>9, <2>10, <3>2
    <3> QED
      BY <3>1, <3>2
  <2> QED
    BY <2>2, <2>11, <2>12 DEF PacketKept
<1> QED
  BY <1>1, <1>2

LEMMA LinkKeeps ==
    ASSUME Cash!TypeOK, SlotsInv, SumsOK, NEW u \in User, NEW w \in User, NEW t \in Telegram,
           Cash!Link(w, t), NEW p \in Packet
    PROVE  PacketKept(u, p)
<1> DEFINE S == packet[p].slots
           old == <<t, None>>  new == <<t, w>>
           Of == {s \in S : s[2] = u}
<1>1. CASE old \notin S
  <2>1. packet'[p] = packet[p]
    BY <1>1 DEF Cash!Link
  <2> QED
    BY <2>1, SameSlots
<1>2. CASE old \in S
  <2>1. packet[p] \in Cash!Packets
    BY DEF Cash!TypeOK
  <2>2. packet'[p] = [packet[p] EXCEPT !.slots = (S \ {old}) \union {new}]
    BY <1>2 DEF Cash!Link
  <2>3. new \notin S
    BY <1>2 DEF Cash!Link
  <2>4. /\ packet'[p].slots = (S \ {old}) \union {new}
        /\ packet'[p].owner = packet[p].owner /\ packet'[p].total = packet[p].total
        /\ packet'[p].fund = packet[p].fund /\ packet'[p].expired = packet[p].expired
    <3> HIDE DEF S, old, new
    <3> QED
      BY <2>1, <2>2 DEF Cash!Packets
  <2>5. IsFiniteSet(S) /\ IsFiniteSet(Of)
    BY FS_Subset DEF SlotsInv
  <2>6. Cardinality(packet'[p].slots) = Cardinality(S)
    <3> HIDE DEF S, old, new
    <3>1. Cardinality((S \ {old}) \union {new}) = Cardinality(S)
      BY <1>2, <2>3, <2>5, NewSlot
    <3> QED
      BY <2>4, <3>1
  <2>7. SlotsOf(u, p) = Cardinality(Of) /\ SlotsOf(u, p) \in Nat
    BY DEF SlotsOf, SumsOK, ValuesOK
  <2>8. SlotsOf(u, p)' \in {SlotsOf(u, p), SlotsOf(u, p) + 1}
    <3>1. CASE w = u
      <4>1. {s \in packet'[p].slots : s[2] = u} = Of \union {new} /\ new \notin Of
        BY <2>3, <2>4, <3>1, Tables
      <4> HIDE DEF Of, new
      <4>2. Cardinality(Of \union {new}) = Cardinality(Of) + 1
        BY <2>5, <4>1, NewSlot
      <4> QED
        BY <2>7, <4>1, <4>2 DEF SlotsOf
    <3>2. CASE w # u
      <4>1. {s \in packet'[p].slots : s[2] = u} = Of
        BY <2>4, <3>2, Tables
      <4> QED
        BY <2>7, <4>1 DEF SlotsOf
    <3> QED
      BY <3>1, <3>2
  <2>9. Refund(u, p)' = Refund(u, p) /\ Refund(u, p) \in Int
    <3>1. Cardinality(S) \in Nat /\ packet[p].total \in Nat
      BY DEF SumsOK, ValuesOK
    <3> QED
      BY <2>4, <2>6, <3>1 DEF Refund
  <2> HIDE DEF S, Of, old, new
  <2>10. /\ SlotsOf(u, p) <= SlotsOf(u, p)'
         /\ SlotsOf(u, p) + Refund(u, p) <= SlotsOf(u, p)' + Refund(u, p)'
    BY <2>7, <2>8, <2>9
  <2> QED
    BY <2>4, <2>10 DEF PacketKept
<1> QED
  BY <1>1, <1>2

(* No step but the user's own spending takes from the user.                *)
Spends(u) ==
    \E r \in Request :
        /\ req[r].user = u
        /\ Cash!RecordPayOut(r) \/ \E p \in Packet : Cash!SpendOnPacket(r, p)

LEMMA KeptStep ==
    ASSUME Cash!TypeOK, SlotsInv, SumsOK, SumsOK', RowsInv, RequestsInv, Cash!Next,
           NEW u \in User, ~Spends(u)
    PROVE  Kept(u)
<1>0. \A p \in Packet : packet[p] \in Cash!Packets
  BY DEF Cash!TypeOK
<1>1. ASSUME NEW r \in Request, Cash!Spend(r) PROVE Kept(u)
  <2>1. ASSUME UNCHANGED <<packet, deposit, checkout>> PROVE Kept(u)
    BY <2>1, KeptAll
  <2>2. ASSUME NEW p \in Packet, Cash!SpendOnPacket(r, p) PROVE Kept(u)
    <3>1. req[r].user # u
      BY <2>2 DEF Spends
    <3> DEFINE a == [packet[p] EXCEPT !.owner = req[r].user, !.total = req[r].amount]
    <3>2. packet[p] = Cash!NoPacket /\ packet' = [packet EXCEPT ![p] = a]
      BY <2>2 DEF Cash!SpendOnPacket
    <3>3. a.slots = {} /\ ~a.expired /\ a.owner # u
      BY <3>1, <3>2 DEF Cash!NoPacket
    <3> HIDE DEF a
    <3>4. packet'[p] = a /\ \A q \in Packet \ {p} : packet'[q] = packet[q]
      BY <3>2 DEF Cash!TypeOK
    <3>5. \A q \in Packet : PacketKept(u, q)
      <4> TAKE q \in Packet
      <4>1. CASE q = p
        BY <3>2, <3>3, <3>4, <4>1, NewPacket
      <4>2. CASE q # p
        BY <3>4, <4>2, SameSlots
      <4> QED
        BY <4>1, <4>2
    <3> QED
      BY <2>2, <3>5, PacketsKept DEF Cash!SpendOnPacket
  <2>3. ASSUME NEW c \in Checkout, Cash!PayOut(r, c) PROVE Kept(u)
    <3>1. UNCHANGED <<packet, deposit>> /\ checkout'[c].row = "none"
          /\ \A e \in Checkout \ {c} : checkout'[e] = checkout[e]
      BY <2>3 DEF Cash!PayOut, Cash!TypeOK
    <3>2. \A e \in OpenCheckouts(u)' : e \in OpenCheckouts(u) /\ checkout'[e].amount = checkout[e].amount
      BY <3>1 DEF OpenCheckouts
    <3> QED
      BY <3>1, <3>2, KeptCheckouts
  <2>4. ASSUME Cash!RecordPayOut(r) PROVE Kept(u)
    <3> DEFINE c == req[r].checkout
    <3>1. req[r].user # u /\ c \in Checkout /\ checkout[c].user = req[r].user
      BY <2>4 DEF Spends, Cash!RecordPayOut, RequestsInv, RecordOK
    <3>2. UNCHANGED <<packet, deposit>> /\ checkout'[c].user = checkout[c].user
          /\ \A e \in Checkout \ {c} : checkout'[e] = checkout[e]
      BY <2>4, <3>1 DEF Cash!RecordPayOut, Cash!TypeOK
    <3> HIDE DEF c
    <3>3. \A e \in OpenCheckouts(u)' : e \in OpenCheckouts(u) /\ checkout'[e].amount = checkout[e].amount
      BY <3>1, <3>2 DEF OpenCheckouts
    <3> QED
      BY <3>2, <3>3, KeptCheckouts
  <2> QED
    BY <1>1, <2>1, <2>2, <2>3, <2>4
       DEF Cash!Spend, Cash!Start, Cash!SelectIncome, Cash!SelectDeposits, Cash!SelectPackets,
           Cash!SelectCheckouts, Cash!SelectExpired, Cash!Select, Cash!Refuse, Cash!Abort
<1>2. ASSUME NEW p \in Packet, NEW a, packet' = [packet EXCEPT ![p] = a],
             a.slots = packet[p].slots, a.owner = packet[p].owner, a.total = packet[p].total,
             a.fund = "cash" <=> packet[p].fund = "cash", packet[p].expired => a.expired,
             UNCHANGED <<deposit, checkout>>
      PROVE  Kept(u)
  <2>1. packet'[p] = a /\ \A q \in Packet \ {p} : packet'[q] = packet[q]
    BY <1>2 DEF Cash!TypeOK
  <2>2. \A q \in Packet : PacketKept(u, q)
    <3> TAKE q \in Packet
    <3>1. CASE q = p
      BY <1>2, <2>1, <3>1, SameSlots
    <3>2. CASE q # p
      BY <2>1, <3>2, SameSlots
    <3> QED
      BY <3>1, <3>2
  <2> QED
    BY <1>2, <2>2, PacketsKept
<1>3. ASSUME NEW p \in Packet, NEW w \in User, NEW n \in Cash!Amounts, Cash!AddFromWallet(w, p, n)
      PROVE  Kept(u)
  <2> DEFINE a == [packet[p] EXCEPT !.owner = w, !.total = n, !.fund = "sent", !.chain = "pending"]
  <2>1. packet[p] = Cash!NoPacket /\ packet' = [packet EXCEPT ![p] = a]
    BY <1>3 DEF Cash!AddFromWallet
  <2>2. a.slots = {} /\ ~a.expired /\ a.fund # "cash"
    BY <2>1 DEF Cash!NoPacket
  <2> HIDE DEF a
  <2>3. packet'[p] = a /\ \A q \in Packet \ {p} : packet'[q] = packet[q]
    BY <2>1 DEF Cash!TypeOK
  <2>4. \A q \in Packet : PacketKept(u, q)
    <3> TAKE q \in Packet
    <3>1. CASE q = p
      BY <2>1, <2>2, <2>3, <3>1, NewPacket
    <3>2. CASE q # p
      BY <2>3, <3>2, SameSlots
    <3> QED
      BY <3>1, <3>2
  <2> QED
    BY <1>3, <2>4, PacketsKept DEF Cash!AddFromWallet
<1>4. ASSUME NEW p \in Packet, Cash!FillSlots(p) PROVE Kept(u)
  <2> DEFINE a == [packet[p] EXCEPT !.filled = TRUE]
  <2>1. packet' = [packet EXCEPT ![p] = a] /\ UNCHANGED <<deposit, checkout>>
    BY <1>4 DEF Cash!FillSlots
  <2>2. /\ a.slots = packet[p].slots /\ a.owner = packet[p].owner /\ a.total = packet[p].total
        /\ a.fund = packet[p].fund /\ a.expired = packet[p].expired
    BY <1>0 DEF Cash!Packets
  <2> QED
    BY <1>2, <2>1, <2>2
<1>5. ASSUME NEW p \in Packet, Cash!Expire(p) PROVE Kept(u)
  <2> DEFINE a == [packet[p] EXCEPT !.expired = TRUE]
  <2>1. packet' = [packet EXCEPT ![p] = a] /\ UNCHANGED <<deposit, checkout>>
    BY <1>5 DEF Cash!Expire
  <2>2. /\ a.slots = packet[p].slots /\ a.owner = packet[p].owner /\ a.total = packet[p].total
        /\ a.fund = packet[p].fund /\ a.expired
    BY <1>0 DEF Cash!Packets
  <2> QED
    BY <1>2, <2>1, <2>2
<1>6. ASSUME NEW p \in Packet, Cash!ViewPacket(p) PROVE Kept(u)
  <2> DEFINE a == [packet[p] EXCEPT !.fund = packet[p].chain]
  <2>1. packet' = [packet EXCEPT ![p] = a] /\ UNCHANGED <<deposit, checkout>>
    BY <1>6 DEF Cash!ViewPacket
  <2>2. /\ a.slots = packet[p].slots /\ a.owner = packet[p].owner /\ a.total = packet[p].total
        /\ a.fund = packet[p].chain /\ a.expired = packet[p].expired
    BY <1>0 DEF Cash!Packets
  <2>3. packet[p].fund # "cash" /\ packet[p].chain # "cash"
    BY <1>6 DEF Cash!ViewPacket
  <2> QED
    BY <1>2, <2>1, <2>2, <2>3
<1>7. ASSUME NEW how, NEW p \in Packet, Cash!MineFunding(p, how) PROVE Kept(u)
  <2> DEFINE a == [packet[p] EXCEPT !.chain = how]
  <2>1. packet' = [packet EXCEPT ![p] = a] /\ UNCHANGED <<deposit, checkout>>
    BY <1>7 DEF Cash!MineFunding
  <2>2. /\ a.slots = packet[p].slots /\ a.owner = packet[p].owner /\ a.total = packet[p].total
        /\ a.fund = packet[p].fund /\ a.expired = packet[p].expired
    BY <1>0 DEF Cash!Packets
  <2> QED
    BY <1>2, <2>1, <2>2
<1>8. ASSUME NEW p \in Packet, NEW h \in User \union Telegram, Cash!Claim(h, p) PROVE Kept(u)
  <2>1. \A q \in Packet : PacketKept(u, q)
    BY <1>8, ClaimKeeps
  <2> QED
    BY <1>8, <2>1, PacketsKept DEF Cash!Claim
<1>9. ASSUME NEW w \in User, NEW t \in Telegram, Cash!Link(w, t) PROVE Kept(u)
  <2>1. \A q \in Packet : PacketKept(u, q)
    BY <1>9, LinkKeeps
  <2> QED
    BY <1>9, <2>1, PacketsKept DEF Cash!Link
<1>10. ASSUME NEW d \in Deposit, NEW w \in User, NEW n \in Cash!Amounts, Cash!MakeDeposit(w, d, n)
       PROVE  Kept(u)
  <2>1. UNCHANGED <<packet, checkout>> /\ deposit[d].user = None
        /\ \A e \in Deposit \ {d} : deposit'[e] = deposit[e]
    BY <1>10 DEF Cash!MakeDeposit
  <2>2. \A e \in GoodDeposits(u) : e \in GoodDeposits(u)' /\ deposit'[e].amount = deposit[e].amount
    BY <2>1, Tables DEF GoodDeposits
  <2> QED
    BY <2>1, <2>2, KeptDeposits
<1>11. ASSUME NEW d \in Deposit, Cash!CheckDeposit(d) PROVE Kept(u)
  <2>1. UNCHANGED <<packet, checkout>> /\ deposit[d].row = "sent"
        /\ \A e \in Deposit \ {d} : deposit'[e] = deposit[e]
    BY <1>11 DEF Cash!CheckDeposit
  <2>2. \A e \in GoodDeposits(u) : e \in GoodDeposits(u)' /\ deposit'[e].amount = deposit[e].amount
    BY <2>1 DEF GoodDeposits
  <2> QED
    BY <2>1, <2>2, KeptDeposits
<1>12. ASSUME NEW d \in Deposit, NEW how, Cash!MineDeposit(d, how) PROVE Kept(u)
  <2>1. UNCHANGED <<packet, checkout>>
        /\ \A e \in Deposit : /\ deposit'[e].user = deposit[e].user /\ deposit'[e].row = deposit[e].row
                              /\ deposit'[e].amount = deposit[e].amount
    BY <1>12 DEF Cash!MineDeposit, Cash!TypeOK
  <2>2. \A e \in GoodDeposits(u) : e \in GoodDeposits(u)' /\ deposit'[e].amount = deposit[e].amount
    BY <2>1 DEF GoodDeposits
  <2> QED
    BY <2>1, <2>2, KeptDeposits
<1>13. ASSUME NEW c \in Checkout, Cash!CheckCheckout(c) PROVE Kept(u)
  <2>1. UNCHANGED <<packet, deposit>> /\ checkout[c].row = "sent"
        /\ checkout'[c].user = checkout[c].user /\ checkout'[c].amount = checkout[c].amount
        /\ \A e \in Checkout \ {c} : checkout'[e] = checkout[e]
    BY <1>13 DEF Cash!CheckCheckout, Cash!TypeOK
  <2>2. \A e \in OpenCheckouts(u)' : e \in OpenCheckouts(u) /\ checkout'[e].amount = checkout[e].amount
    BY <2>1 DEF OpenCheckouts
  <2> QED
    BY <2>1, <2>2, KeptCheckouts
<1>14. ASSUME NEW c \in Checkout, NEW how, Cash!MineCheckout(c, how) PROVE Kept(u)
  <2>1. UNCHANGED <<packet, deposit>>
        /\ \A e \in Checkout : /\ checkout'[e].user = checkout[e].user /\ checkout'[e].row = checkout[e].row
                               /\ checkout'[e].amount = checkout[e].amount
    BY <1>14 DEF Cash!MineCheckout, Cash!TypeOK
  <2>2. \A e \in OpenCheckouts(u)' : e \in OpenCheckouts(u) /\ checkout'[e].amount = checkout[e].amount
    BY <2>1 DEF OpenCheckouts
  <2> QED
    BY <2>1, <2>2, KeptCheckouts
<1> QED
  BY <1>1, <1>3, <1>4, <1>5, <1>6, <1>7, <1>8, <1>9, <1>10, <1>11, <1>12, <1>13, <1>14
     DEF Cash!Next, Cash!PacketStep, Cash!ChainStep

-----------------------------------------------------------------------------
(* The computations in flight. *)

LEMMA CalmBefore == ASSUME Cash!Next PROVE Calm' \subseteq Calm
<1>1. overlapped \subseteq overlapped' /\ unseen \subseteq unseen' /\ late \subseteq late'
  BY ZenonT(60)
     DEF Cash!Next, Cash!Spend, Cash!PacketStep, Cash!ChainStep, Cash!Start, Cash!SelectIncome,
         Cash!SelectDeposits, Cash!SelectPackets, Cash!SelectCheckouts, Cash!SelectExpired,
         Cash!Select, Cash!Refuse, Cash!Abort, Cash!RecordPayOut, Cash!SpendOnPacket, Cash!PayOut,
         Cash!AddFromWallet, Cash!FillSlots, Cash!Expire, Cash!ViewPacket, Cash!Claim, Cash!Link,
         Cash!MakeDeposit, Cash!CheckDeposit, Cash!CheckCheckout, Cash!MineFunding,
         Cash!MineDeposit, Cash!MineCheckout, Cash!history
<1> QED
  BY <1>1 DEF Calm

LEMMA CashKept ==
    ASSUME SumsOK, SumsOK', NEW u \in User, Kept(u), u \notin late'
    PROVE  Cash!Cash(u) <= Cash!Cash(u)'
BY DEF Kept, SumsOK, AsSums

LEMMA CoveredKept ==
    ASSUME Cash!TypeOK, SumsOK, SumsOK', NEW u \in User, Kept(u), u \notin late',
           NEW r \in Request, req'[r] = req[r], req[r].user = u, Covered(r)
    PROVE  Covered(r)'
<1>1. /\ Cash!Income(u) \in Int /\ Cash!Deposited(u) \in Int /\ Cash!ExpiredTotals(u) \in Int
      /\ Cash!CashFunded(u) \in Int /\ Cash!CheckedOut(u) \in Int /\ Cash!ExpiredClaims(u) \in Int
      /\ Cash!Income(u)' \in Int /\ Cash!Deposited(u)' \in Int /\ Cash!ExpiredTotals(u)' \in Int
      /\ Cash!CashFunded(u)' \in Int /\ Cash!CheckedOut(u)' \in Int /\ Cash!ExpiredClaims(u)' \in Int
      /\ Cash!Cash(u) \in Int /\ Cash!Cash(u)' \in Int
  BY DEF SumsOK, AsSums
<1>2. Cash!Cash(u) <= Cash!Cash(u)'
  BY CashKept
<1>3. req[r].sum \in Int /\ req[r].amount \in Int
  BY Tables DEF Cash!TypeOK
<1>4. /\ Cash!Income(u) <= Cash!Income(u)' /\ Cash!Deposited(u) <= Cash!Deposited(u)'
      /\ Cash!ExpiredTotals(u) <= Cash!ExpiredTotals(u)'
      /\ Cash!CashFunded(u)' = Cash!CashFunded(u)
      /\ Cash!CheckedOut(u)' <= Cash!CheckedOut(u)
      /\ Cash!Income(u) + Cash!ExpiredTotals(u) - Cash!ExpiredClaims(u)
           <= Cash!Income(u)' + Cash!ExpiredTotals(u)' - Cash!ExpiredClaims(u)'
  BY DEF Kept
<1> QED
  BY <1>1, <1>2, <1>3, <1>4 DEF Covered

(* The sums do not move while a request reads one of them.                 *)
LEMMA SumsStay ==
    ASSUME NEW u, UNCHANGED <<packet, deposit, checkout>>
    PROVE  /\ Cash!Income(u)' = Cash!Income(u) /\ Cash!Deposited(u)' = Cash!Deposited(u)
           /\ Cash!ExpiredTotals(u)' = Cash!ExpiredTotals(u)
           /\ Cash!CashFunded(u)' = Cash!CashFunded(u)
           /\ Cash!CheckedOut(u)' = Cash!CheckedOut(u)
           /\ Cash!ExpiredClaims(u)' = Cash!ExpiredClaims(u)
BY DEF Cash!Income, Cash!ClaimedBy, Cash!Deposited, Cash!Deposits, Cash!ExpiredTotals, Cash!Total,
       Cash!ExpiredOf, Cash!PacketsOf, Cash!CashFunded, Cash!CheckedOut, Cash!Checkouts,
       Cash!ExpiredClaims, Cash!Claimed

LEMMA SelectCovers ==
    ASSUME Cash!TypeOK, SumsOK, RequestsInv, NEW r \in Request, NEW u \in User, req[r].user = u,
           Covered(r),
           \/ Cash!SelectIncome(r) \/ Cash!SelectDeposits(r) \/ Cash!SelectPackets(r)
           \/ Cash!SelectCheckouts(r) \/ Cash!SelectExpired(r)
    PROVE  Covered(r)'
<1>1. /\ Cash!Income(u) \in Int /\ Cash!Deposited(u) \in Int /\ Cash!ExpiredTotals(u) \in Int
      /\ Cash!CashFunded(u) \in Int /\ Cash!CheckedOut(u) \in Int /\ Cash!ExpiredClaims(u) \in Int
  BY DEF SumsOK, AsSums
<1>2. req[r].sum \in Int /\ req[r].spends \in {"add", "checkout"}
  <2>1. req[r] # Cash!Free
    BY Tables DEF Cash!Free
  <2> QED
    BY <2>1 DEF Cash!TypeOK, RequestsInv, RequestOK
<1>3. UNCHANGED <<packet, deposit, checkout>>
  BY DEF Cash!SelectIncome, Cash!SelectDeposits, Cash!SelectPackets, Cash!SelectCheckouts,
         Cash!SelectExpired, Cash!Select
<1>4. /\ Cash!Income(u)' = Cash!Income(u) /\ Cash!Deposited(u)' = Cash!Deposited(u)
      /\ Cash!ExpiredTotals(u)' = Cash!ExpiredTotals(u) /\ Cash!CashFunded(u)' = Cash!CashFunded(u)
      /\ Cash!CheckedOut(u)' = Cash!CheckedOut(u) /\ Cash!ExpiredClaims(u)' = Cash!ExpiredClaims(u)
  BY <1>3, SumsStay
<1>5. ASSUME NEW read, NEW next, NEW value, Cash!Select(r, read, next, value)
      PROVE  /\ req[r].step = read /\ req'[r].step = next /\ req'[r].sum = req[r].sum + value
             /\ req'[r].user = u /\ req'[r].spends = req[r].spends
  BY <1>5 DEF Cash!Select, Cash!TypeOK
<1>6. CASE Cash!SelectIncome(r)
  <2>1. /\ req[r].step = "income" /\ req'[r].step = "deposits"
        /\ req'[r].sum = req[r].sum + Cash!Income(u) /\ req'[r].user = u
    BY <1>5, <1>6 DEF Cash!SelectIncome
  <2> QED
    BY <1>1, <1>2, <1>4, <2>1 DEF Covered
<1>7. CASE Cash!SelectDeposits(r)
  <2>1. /\ req[r].step = "deposits" /\ req'[r].step = "packets"
        /\ req'[r].sum = req[r].sum + Cash!Deposited(u) /\ req'[r].user = u
    BY <1>5, <1>7 DEF Cash!SelectDeposits
  <2> QED
    BY <1>1, <1>2, <1>4, <2>1 DEF Covered
<1>8. CASE Cash!SelectPackets(r)
  <2>1. /\ req[r].step = "packets"
        /\ req'[r].step = IF req[r].spends = "checkout" THEN "checkouts" ELSE "expired"
        /\ req'[r].sum = req[r].sum + (Cash!ExpiredTotals(u) - Cash!CashFunded(u))
        /\ req'[r].user = u /\ req'[r].spends = req[r].spends
    BY <1>5, <1>8 DEF Cash!SelectPackets
  <2> QED
    BY <1>1, <1>2, <1>4, <2>1 DEF Covered
<1>9. CASE Cash!SelectCheckouts(r)
  <2>1. /\ req[r].step = "checkouts" /\ req'[r].step = "expired"
        /\ req'[r].sum = req[r].sum + -Cash!CheckedOut(u)
        /\ req'[r].user = u /\ req'[r].spends = req[r].spends
    BY <1>5, <1>9 DEF Cash!SelectCheckouts
  <2>2. req[r].spends = "checkout"
    BY <2>1, Tables DEF RequestsInv, RequestOK, Cash!Free
  <2> QED
    BY <1>1, <1>2, <1>4, <2>1, <2>2 DEF Covered
<1>10. CASE Cash!SelectExpired(r)
  <2>1. /\ req[r].step = "expired" /\ req'[r].step = "spend"
        /\ req'[r].sum = req[r].sum + -Cash!ExpiredClaims(u)
        /\ req'[r].user = u /\ req'[r].spends = req[r].spends
    BY <1>5, <1>10 DEF Cash!SelectExpired
  <2> QED
    BY <1>1, <1>2, <1>4, <2>1 DEF Covered
<1> QED
  BY <1>6, <1>7, <1>8, <1>9, <1>10

(* The two statements that spend.                                          *)
LEMMA PacketPaid ==
    ASSUME Cash!TypeOK, SumsOK, SumsOK', RequestsInv, NEW r \in Request, NEW u \in User,
           req[r].user = u, NEW p \in Packet, Cash!SpendOnPacket(r, p), Covered(r), u \notin unseen'
    PROVE  Cash!Cash(u)' >= 0
<1> DEFINE a == [packet[p] EXCEPT !.owner = u, !.total = req[r].amount]
<1>0. /\ Cash!Income(u) \in Nat /\ Cash!Deposited(u) \in Nat /\ Cash!ExpiredTotals(u) \in Nat
      /\ Cash!CashFunded(u) \in Nat /\ Cash!CheckedOut(u) \in Nat /\ Cash!ExpiredClaims(u) \in Nat
      /\ Cash!Income(u)' \in Nat /\ Cash!Deposited(u)' \in Nat /\ Cash!ExpiredTotals(u)' \in Nat
      /\ Cash!CashFunded(u)' \in Nat /\ Cash!CheckedOut(u)' \in Nat /\ Cash!ExpiredClaims(u)' \in Nat
      /\ Cash!Cash(u)' = Cash!Income(u)' + Cash!Deposited(u)' + Cash!ExpiredTotals(u)'
                         - Cash!CashFunded(u)' - Cash!CheckedOut(u)' - Cash!ExpiredClaims(u)'
  BY DEF SumsOK, AsSums
<1>1. packet[p] = Cash!NoPacket /\ packet' = [packet EXCEPT ![p] = a]
  BY DEF Cash!SpendOnPacket
<1>2. /\ packet[p].slots = {} /\ ~packet[p].expired /\ packet[p].owner # u /\ packet[p].fund = "cash"
      /\ a.slots = {} /\ ~a.expired /\ a.owner = u /\ a.total = req[r].amount /\ a.fund = "cash"
  BY <1>1, Tables DEF Cash!NoPacket
<1>3. req[r].amount \in Nat /\ req[r].sum \in Int /\ req[r].amount <= req[r].sum
  <2>1. req[r].amount \in Nat /\ req[r].sum \in Int
    BY Tables DEF Cash!TypeOK
  <2> QED
    BY <2>1 DEF Cash!SpendOnPacket, Cash!Short
<1> HIDE DEF a
<1>4. packet'[p] = a /\ \A q \in Packet \ {p} : packet'[q] = packet[q]
  BY <1>1 DEF Cash!TypeOK
<1>5. Cash!Income(u) + Cash!ExpiredTotals(u) - Cash!ExpiredClaims(u)
        <= Cash!Income(u)' + Cash!ExpiredTotals(u)' - Cash!ExpiredClaims(u)'
  <2>1. ASSUME NEW q \in Packet
        PROVE  SlotsOf(u, q) + Refund(u, q) <= SlotsOf(u, q)' + Refund(u, q)'
    <3>1. SlotsOf(u, q) = SlotsOf(u, q)' /\ Refund(u, q) = Refund(u, q)'
      <4>1. CASE q = p
        BY <1>2, <1>4, <4>1 DEF SlotsOf, Refund
      <4>2. CASE q # p
        BY <1>4, <4>2 DEF SlotsOf, Refund
      <4> QED
        BY <4>1, <4>2
    <3>2. SlotsOf(u, q) \in Int /\ Refund(u, q) \in Int
      BY DEF SumsOK, ValuesOK, Refund
    <3> QED
      BY <3>1, <3>2
  <2> QED
    BY <2>1, WorthKept
<1>6. Cash!CashFunded(u)' = Cash!CashFunded(u) + req[r].amount
  <2>1. /\ CashOf(u) \in SUBSET Packet /\ p \notin CashOf(u)
        /\ CashOf(u)' = CashOf(u) \union {p}
    BY <1>2, <1>4 DEF CashOf, Cash!PacketsOf
  <2>2. \A q \in Packet : /\ Cash!Total[q] = packet[q].total /\ Cash!Total[q] \in Int
                          /\ Cash!Total'[q] = packet'[q].total /\ Cash!Total'[q] \in Int
    BY DEF SumsOK, ValuesOK
  <2>3. Sum(Cash!Total', CashOf(u) \union {p}) = Sum(Cash!Total', CashOf(u)) + Cash!Total'[p]
    BY <2>1, <2>2, Tables, SumAdds
  <2>4. Sum(Cash!Total, CashOf(u)) = Sum(Cash!Total', CashOf(u))
    <3>1. IsFiniteSet(CashOf(u))
      BY <2>1, Tables, FS_Subset
    <3>2. \A q \in CashOf(u) : Cash!Total[q] \in Int /\ Cash!Total[q] = Cash!Total'[q]
      BY <1>4, <2>1, <2>2
    <3> QED
      BY <3>1, <3>2, SumSame
  <2>5. Cash!Total'[p] = req[r].amount
    BY <1>2, <1>4, <2>2
  <2>6. /\ Cash!CashFunded(u) = Sum(Cash!Total, CashOf(u))
        /\ Cash!CashFunded(u)' = Sum(Cash!Total', CashOf(u)')
    BY DEF SumsOK, AsSums
  <2> QED
    BY <2>1, <2>3, <2>4, <2>5, <2>6
<1>7. Cash!Deposited(u)' = Cash!Deposited(u) /\ Cash!CheckedOut(u)' = Cash!CheckedOut(u)
  BY DEF Cash!SpendOnPacket, Cash!Deposited, Cash!Deposits, Cash!CheckedOut, Cash!Checkouts
<1>8. Cash!CheckedOut(u) = 0
  <2>1. ~(Cash!CheckedOut(u) > 0)
    BY DEF Cash!SpendOnPacket
  <2> QED
    BY <1>0, <2>1
<1>9. req[r].sum <= Cash!Income(u) + Cash!Deposited(u) + Cash!ExpiredTotals(u) - Cash!CashFunded(u)
                    - Cash!ExpiredClaims(u)
  <2>1. req[r].step = "spend" /\ req[r].spends = "add"
    BY DEF Cash!SpendOnPacket
  <2> QED
    BY <1>0, <2>1 DEF Covered
<1> QED
  BY <1>0, <1>3, <1>5, <1>6, <1>7, <1>8, <1>9

LEMMA PayOutPaid ==
    ASSUME Cash!TypeOK, SumsOK, SumsOK', RequestsInv, NEW r \in Request, NEW u \in User,
           req[r].user = u, Cash!RecordPayOut(r), Covered(r)
    PROVE  Cash!Cash(u)' >= 0
<1> DEFINE c == req[r].checkout
<1>0. /\ Cash!Income(u) \in Nat /\ Cash!Deposited(u) \in Nat /\ Cash!ExpiredTotals(u) \in Nat
      /\ Cash!CashFunded(u) \in Nat /\ Cash!CheckedOut(u) \in Nat /\ Cash!ExpiredClaims(u) \in Nat
      /\ Cash!Cash(u) = Cash!Income(u) + Cash!Deposited(u) + Cash!ExpiredTotals(u)
                        - Cash!CashFunded(u) - Cash!CheckedOut(u) - Cash!ExpiredClaims(u)
      /\ Cash!Cash(u)' = Cash!Income(u)' + Cash!Deposited(u)' + Cash!ExpiredTotals(u)'
                         - Cash!CashFunded(u)' - Cash!CheckedOut(u)' - Cash!ExpiredClaims(u)'
  BY DEF SumsOK, AsSums
<1>1. req[r].step = "record" /\ req[r].amount <= Cash!Cash(u) /\ req[r].amount \in Nat
  BY Tables DEF Cash!RecordPayOut, Covered, Cash!TypeOK
<1>2. /\ c \in Checkout /\ checkout[c].user = u /\ checkout[c].amount = req[r].amount
      /\ checkout[c].row = "none"
  BY <1>1 DEF RequestsInv, RecordOK
<1>3. /\ checkout'[c].user = u /\ checkout'[c].amount = req[r].amount /\ checkout'[c].row = "sent"
      /\ \A e \in Checkout \ {c} : checkout'[e] = checkout[e]
  BY <1>2 DEF Cash!RecordPayOut, Cash!TypeOK
<1> HIDE DEF c
<1>4. /\ Cash!Income(u)' = Cash!Income(u) /\ Cash!Deposited(u)' = Cash!Deposited(u)
      /\ Cash!ExpiredTotals(u)' = Cash!ExpiredTotals(u) /\ Cash!CashFunded(u)' = Cash!CashFunded(u)
      /\ Cash!ExpiredClaims(u)' = Cash!ExpiredClaims(u)
  BY DEF Cash!RecordPayOut, Cash!Income, Cash!ClaimedBy, Cash!Deposited, Cash!Deposits,
         Cash!ExpiredTotals, Cash!Total, Cash!ExpiredOf, Cash!PacketsOf, Cash!CashFunded,
         Cash!ExpiredClaims, Cash!Claimed
<1>5. Cash!CheckedOut(u)' = Cash!CheckedOut(u) + req[r].amount
  <2>1. /\ OpenCheckouts(u) \in SUBSET Checkout /\ c \notin OpenCheckouts(u)
        /\ OpenCheckouts(u)' = OpenCheckouts(u) \union {c}
    BY <1>2, <1>3 DEF OpenCheckouts
  <2>2. \A e \in Checkout : /\ Cash!Checkouts[e] = checkout[e].amount /\ Cash!Checkouts[e] \in Int
                            /\ Cash!Checkouts'[e] = checkout'[e].amount /\ Cash!Checkouts'[e] \in Int
    BY DEF SumsOK, ValuesOK
  <2>3. Sum(Cash!Checkouts', OpenCheckouts(u) \union {c})
          = Sum(Cash!Checkouts', OpenCheckouts(u)) + Cash!Checkouts'[c]
    BY <1>2, <2>1, <2>2, Tables, SumAdds
  <2>4. Sum(Cash!Checkouts, OpenCheckouts(u)) = Sum(Cash!Checkouts', OpenCheckouts(u))
    <3>1. IsFiniteSet(OpenCheckouts(u))
      BY <2>1, Tables, FS_Subset
    <3>2. \A e \in OpenCheckouts(u) : /\ Cash!Checkouts[e] \in Int
                                      /\ Cash!Checkouts[e] = Cash!Checkouts'[e]
      BY <1>3, <2>1, <2>2
    <3> QED
      BY <3>1, <3>2, SumSame
  <2>5. Cash!Checkouts'[c] = req[r].amount
    BY <1>2, <1>3, <2>2
  <2>6. /\ Cash!CheckedOut(u) = Sum(Cash!Checkouts, OpenCheckouts(u))
        /\ Cash!CheckedOut(u)' = Sum(Cash!Checkouts', OpenCheckouts(u)')
    BY DEF SumsOK, AsSums
  <2> QED
    BY <2>1, <2>3, <2>4, <2>5, <2>6
<1> QED
  BY <1>0, <1>1, <1>4, <1>5

LEMMA ReadsStep ==
    ASSUME CashInv, SumsOK, SumsOK', Cash!Next
    PROVE  ReadsInv'
<1> USE DEF CashInv
<1>0. SUFFICES ASSUME NEW u \in User, u \in Calm'
               PROVE  Cash!Cash(u)' >= 0 /\ \A s \in Request : req'[s].user = u => Covered(s)'
  BY DEF ReadsInv, Calm
<1>1. /\ u \in Calm /\ u \notin late' /\ u \notin unseen' /\ u \notin overlapped
  BY <1>0, CalmBefore DEF Calm
<1>2. /\ Cash!Cash(u) >= 0 /\ \A s \in Request : req[s].user = u => Covered(s)
      /\ Cash!Cash(u) \in Int /\ Cash!Cash(u)' \in Int
  BY <1>1 DEF ReadsInv, SumsOK, AsSums
<1>3. CASE ~Spends(u)
  <2>1. Kept(u)
    BY <1>3, KeptStep
  <2>2. Cash!Cash(u)' >= 0 /\ Cash!Cash(u) <= Cash!Cash(u)'
    BY <1>1, <1>2, <2>1, CashKept
  <2>3. ASSUME NEW s \in Request, req'[s] = req[s], req'[s].user = u PROVE Covered(s)'
    <3>1. req[s].user = u /\ Covered(s)
      BY <1>2, <2>3
    <3>2. Cash!TypeOK
      OBVIOUS
    <3> HIDE DEF CashInv
    <3> QED
      BY <1>1, <2>1, <2>3, <3>1, <3>2, CoveredKept
  <2>4. ASSUME NEW r \in Request, NEW s \in Request \ {r}, Cash!Spend(r) PROVE req'[s] = req[s]
    <3>1. DOMAIN req = Request
      BY DEF Cash!TypeOK
    <3>2. \E a : req' = [req EXCEPT ![r] = a]
      BY <2>4 DEF Cash!Spend, Cash!Start, Cash!SelectIncome, Cash!SelectDeposits,
                  Cash!SelectPackets, Cash!SelectCheckouts, Cash!SelectExpired, Cash!Select,
                  Cash!Refuse, Cash!Abort, Cash!End, Cash!RecordPayOut, Cash!SpendOnPacket,
                  Cash!PayOut
    <3> HIDE DEF CashInv
    <3> QED
      BY <3>1, <3>2
  <2>5. ASSUME NEW r \in Request, Cash!Spend(r), req'[r].user = u PROVE Covered(r)'
    <3>0. r \in DOMAIN req
      BY DEF Cash!TypeOK
    <3>1. ASSUME NEW w \in User, NEW spends, NEW n, Cash!Start(r, w, spends, n) PROVE Covered(r)'
      <4>1. req'[r].step = "income" /\ req'[r].sum = 0
        BY <3>0, <3>1 DEF Cash!Start, Cash!Free
      <4> QED
        BY <4>1 DEF Covered
    <3>2. ASSUME \/ Cash!SelectIncome(r) \/ Cash!SelectDeposits(r) \/ Cash!SelectPackets(r)
                 \/ Cash!SelectCheckouts(r) \/ Cash!SelectExpired(r)
          PROVE  Covered(r)'
      <4>1. req'[r].user = req[r].user
        BY <3>0, <3>2 DEF Cash!SelectIncome, Cash!SelectDeposits, Cash!SelectPackets,
                          Cash!SelectCheckouts, Cash!SelectExpired, Cash!Select, Cash!TypeOK
      <4>2. req[r].user = u /\ Covered(r)
        BY <1>2, <2>5, <4>1
      <4> QED
        BY <3>2, <4>2, SelectCovers
    <3>3. ASSUME Cash!End(r) PROVE FALSE
      <4>1. req'[r].user = None
        BY <3>0, <3>3 DEF Cash!End, Cash!Free
      <4> QED
        BY <2>5, <4>1, Tables
    <3>4. ASSUME NEW c \in Checkout, Cash!PayOut(r, c) PROVE Covered(r)'
      <4>1. /\ req'[r].step = "record" /\ req'[r].user = req[r].user
            /\ req'[r].amount = req[r].amount
        BY <3>0, <3>4 DEF Cash!PayOut, Cash!TypeOK
      <4>2. /\ req[r].step = "spend" /\ req[r].spends = "checkout" /\ ~(req[r].sum < req[r].amount)
            /\ req[r].user = u /\ Covered(r)
        BY <1>2, <2>5, <3>4, <4>1 DEF Cash!PayOut, Cash!Short
      <4>3. req[r].sum \in Int /\ req[r].amount \in Int
        BY Tables DEF Cash!TypeOK
      <4>4. req[r].sum <= Cash!Cash(u)
        BY <4>2 DEF Covered, SumsOK, AsSums
      <4>5. req[r].amount <= Cash!Cash(u)'
        BY <1>2, <2>2, <4>2, <4>3, <4>4
      <4> QED
        BY <2>5, <4>1, <4>5 DEF Covered
    <3> QED
      BY <2>5, <3>1, <3>2, <3>3, <3>4
         DEF Cash!Spend, Cash!Refuse, Cash!Abort, Cash!RecordPayOut, Cash!SpendOnPacket
  <2>6. CASE \E r \in Request : Cash!Spend(r)
    BY <2>2, <2>3, <2>4, <2>5, <2>6
  <2>7. CASE ~\E r \in Request : Cash!Spend(r)
    <3>1. req' = req
      BY ZenonT(60), <2>7
              DEF Cash!Next, Cash!PacketStep, Cash!ChainStep, Cash!AddFromWallet, Cash!FillSlots,
                  Cash!Expire, Cash!ViewPacket, Cash!Claim, Cash!Link, Cash!MakeDeposit,
                  Cash!CheckDeposit, Cash!CheckCheckout, Cash!MineFunding, Cash!MineDeposit,
                  Cash!MineCheckout
    <3> QED
      BY <2>2, <2>3, <3>1
  <2> QED
    BY <2>6, <2>7
<1>4. CASE Spends(u)
  <2>1. PICK r \in Request :
           /\ req[r].user = u
           /\ Cash!RecordPayOut(r) \/ \E p \in Packet : Cash!SpendOnPacket(r, p)
    BY <1>4 DEF Spends
  <2>2. Cash!Cash(u)' >= 0
    BY <1>1, <1>2, <2>1, PacketPaid, PayOutPaid
  <2>3. \A s \in Request : req'[s].user # u
    <3>1. \A s \in Request \ {r} : req[s].user # u
      BY <1>1, <2>1 DEF OneAtATime, Cash!Spending
    <3>2. req' = [req EXCEPT ![r] = Cash!Free]
      BY <2>1 DEF Cash!RecordPayOut, Cash!SpendOnPacket, Cash!End
    <3>3. Cash!Free.user = None
      BY DEF Cash!Free
    <3> QED
      BY <3>1, <3>2, <3>3, Tables DEF Cash!TypeOK
  <2> QED
    BY <2>2, <2>3
<1> QED
  BY <1>3, <1>4

-----------------------------------------------------------------------------
LEMMA CashStart == Cash!Init => CashInv
<1> SUFFICES ASSUME Cash!Init PROVE CashInv
  OBVIOUS
<1>1. Cash!TypeOK
  <2>1. 0 \in 0..MaxAmount /\ 0 \in Int
    BY Tables
  <2>2. packet \in [Packet -> Cash!Packets]
    <3>1. Cash!NoPacket \in Cash!Packets
      BY <2>1 DEF Cash!NoPacket, Cash!Packets, Cash!Chain
    <3> QED
      BY <3>1 DEF Cash!Init
  <2> QED
    BY <2>1, <2>2 DEF Cash!Init, Cash!TypeOK, Cash!Row, Cash!Chain, Cash!Free, Cash!Steps
<1>2. SlotsInv
  <2>1. IsFiniteSet({}) /\ Cardinality({}) = 0
    BY FS_EmptySet
  <2> QED
    <3>1. \A p \in Packet : packet[p] = Cash!NoPacket
      BY DEF Cash!Init
    <3>2. Cash!NoPacket.slots = {} /\ Cash!NoPacket.total = 0
      BY DEF Cash!NoPacket
    <3> QED
      BY <2>1, <3>1, <3>2 DEF SlotsInv
<1>3. RowsInv /\ RequestsInv /\ OneAtATime
  BY Tables DEF Cash!Init, RowsInv, RequestsInv, RequestOK, RecordOK, Records, OneAtATime,
                Cash!Spending, Cash!Free
<1>4. ReadsInv
  <2> SUFFICES ASSUME NEW u \in User
               PROVE  Cash!Cash(u) >= 0 /\ \A r \in Request : req[r].user # u
    BY DEF ReadsInv, Calm
  <2>1. AsSums(u)
    BY <1>1, <1>2, SumsHold DEF SumsOK
  <2>2. \A r \in Request : req[r].user # u
    BY Tables DEF Cash!Init, Cash!Free
  <2>3. CashOf(u) = {} /\ OpenCheckouts(u) = {} /\ Cash!ExpiredOf(u) = {}
    BY Tables DEF Cash!Init, CashOf, OpenCheckouts, Cash!ExpiredOf, Cash!PacketsOf, Cash!NoPacket
  <2>4. Sum(Cash!Total, {}) = 0 /\ Sum(Cash!Checkouts, {}) = 0 /\ Sum(Cash!Claimed, {}) = 0
    <3>1. IsFiniteSet({})
      BY FS_EmptySet
    <3>2. \A f : Sum(f, {}) = 0
      BY <3>1, SumAdds
    <3> QED
      BY <3>2
  <2>5. Cash!CashFunded(u) = 0 /\ Cash!CheckedOut(u) = 0 /\ Cash!ExpiredClaims(u) = 0
    BY <2>1, <2>3, <2>4 DEF AsSums
  <2> QED
    BY <2>1, <2>2, <2>5 DEF AsSums
<1> QED
  BY <1>1, <1>2, <1>3, <1>4 DEF CashInv

LEMMA CashStep == CashInv /\ Cash!Next => CashInv'
<1> SUFFICES ASSUME CashInv, Cash!Next PROVE CashInv'
  OBVIOUS
<1>1. SumsOK
  BY SumsHold DEF CashInv
<1>2. Cash!TypeOK'
  BY <1>1, CashTypeStep DEF CashInv
<1>3. SlotsInv'
  BY <1>1, SlotsStep DEF CashInv
<1>4. SumsOK'
  <2>1. Cash!TypeOK' /\ SlotsInv' => SumsOK'
    BY SumsHold, PTL
  <2> QED
    BY <1>2, <1>3, <2>1
<1>5. RowsInv' /\ RequestsInv' /\ OneAtATime'
  BY <1>1, RowsStep, RequestsStep, OneStep DEF CashInv
<1>6. ReadsInv'
  BY <1>1, <1>4, ReadsStep
<1> QED
  BY <1>2, <1>3, <1>5, <1>6 DEF CashInv

LEMMA CashRest == CashInv /\ UNCHANGED cashVars => CashInv'
<1> SUFFICES ASSUME CashInv, UNCHANGED cashVars PROVE CashInv'
  OBVIOUS
<1>1. /\ UNCHANGED <<packet, deposit, checkout>>
      /\ req' = req /\ overlapped' = overlapped /\ unseen' = unseen /\ late' = late
  BY DEF cashVars
<1>2. Cash!TypeOK'
  BY <1>1 DEF CashInv, Cash!TypeOK
<1>3. SlotsInv' /\ RowsInv'
  BY <1>1 DEF CashInv, SlotsInv, RowsInv
<1>4. RequestsInv' /\ OneAtATime'
  BY <1>1 DEF CashInv, RequestsInv, RequestOK, RecordOK, Records, OneAtATime, Cash!Spending
<1>5. ReadsInv'
  <2>1. \A u \in User :
           /\ Cash!Income(u)' = Cash!Income(u) /\ Cash!Deposited(u)' = Cash!Deposited(u)
           /\ Cash!ExpiredTotals(u)' = Cash!ExpiredTotals(u)
           /\ Cash!CashFunded(u)' = Cash!CashFunded(u)
           /\ Cash!CheckedOut(u)' = Cash!CheckedOut(u)
           /\ Cash!ExpiredClaims(u)' = Cash!ExpiredClaims(u)
    BY <1>1, SumsStay
  <2>2. \A u \in User : Cash!Cash(u)' = Cash!Cash(u)
    BY <2>1 DEF Cash!Cash
  <2>3. ASSUME NEW r \in Request, req[r].user \in User, Covered(r) PROVE Covered(r)'
    BY <1>1, <2>1, <2>2, <2>3 DEF Covered
  <2>4. Calm' = Calm /\ Calm \subseteq User
    BY <1>1 DEF Calm
  <2> QED
    BY <1>1, <2>2, <2>3, <2>4 DEF CashInv, ReadsInv
<1> QED
  BY <1>2, <1>3, <1>4, <1>5 DEF CashInv

CashPartInv == part \in CashParts => CashInv

LEMMA CashInvariance == PartsSpec => []CashPartInv
<1>1. PartsInit => CashPartInv
  BY CashStart DEF PartsInit, CashPartInv, CashParts
<1>2. CashPartInv /\ [NonceNext \/ CashNext]_allVars => CashPartInv'
  <2> SUFFICES ASSUME CashPartInv, [NonceNext \/ CashNext]_allVars PROVE CashPartInv'
    OBVIOUS
  <2>1. CASE NonceNext
    BY <2>1 DEF NonceNext, CashPartInv, CashParts
  <2>2. CASE CashNext
    <3>1. part \in CashParts /\ Cash!Next
      BY <2>2 DEF CashNext
    <3>2. CashInv'
      BY <3>1, CashStep DEF CashPartInv
    <3> QED
      BY <3>2 DEF CashPartInv
  <2>3. CASE UNCHANGED allVars
    BY <2>3, CashRest DEF allVars, CashPartInv
  <2> QED
    BY <2>1, <2>2, <2>3
<1> QED
  BY <1>1, <1>2, PTL DEF PartsSpec

(* CashLedger, whatever happens between the SELECTs: cash is negative only *)
(* after two requests at a time, a packet after a checkout, or a claim of  *)
(* an expired packet.  Reading the sums at five different times is no      *)
(* fourth reason.                                                          *)
THEOREM OverdraftExplained == PartsSpec => []OverdraftHasCause
<1>1. CashPartInv => OverdraftHasCause
  <2> SUFFICES ASSUME CashInv, NEW u \in User, Cash!Cash(u) < 0
               PROVE  u \in overlapped \union unseen \union late
    BY DEF CashPartInv, OverdraftHasCause, Cash!OverdraftHasCause
  <2>1. Cash!Cash(u) \in Int
    BY SumsHold DEF CashInv, SumsOK, AsSums
  <2>2. u \notin Calm
    BY <2>1 DEF CashInv, ReadsInv
  <2> QED
    BY <2>2 DEF Calm
<1> QED
  BY <1>1, CashInvariance, PTL

-----------------------------------------------------------------------------
(* All users together. *)

(* Every claimed slot is one user's, or nobody's.                          *)
LEMMA ClaimsTotal ==
    ASSUME Cash!TypeOK, SlotsInv, SumsOK
    PROVE  /\ Sum([u \in User |-> Cash!Income(u)], User) + Sum(Cash!ClaimedBy(None), Packet)
                = Sum(Cash!Claimed, Packet)
           /\ Sum([u \in User |-> Cash!Income(u)], User) \in Int
           /\ Sum(Cash!ClaimedBy(None), Packet) \in Int /\ Sum(Cash!Claimed, Packet) \in Int
<1> DEFINE income == [u \in User |-> Cash!Income(u)]
           Held(T, p) == {s \in packet[p].slots : s[2] \in T}
           By(T) == [p \in Packet |-> Cardinality(Held(T, p))]
           P == {T \in SUBSET User : Sum(income, T) = Sum(By(T), Packet)}
<1>0. IsFiniteSet(User) /\ IsFiniteSet(Packet) /\ None \notin User
  BY Tables
<1>1. \A u \in User : income[u] = Cash!Income(u) /\ income[u] \in Int
                      /\ Cash!Income(u) = Sum(Cash!ClaimedBy(u), Packet)
  BY DEF SumsOK, AsSums
<1>2. \A T, p : p \in Packet => /\ IsFiniteSet(Held(T, p))
                                /\ By(T)[p] = Cardinality(Held(T, p)) /\ By(T)[p] \in Nat
  <2> TAKE T, p
  <2> HAVE p \in Packet
  <2>1. IsFiniteSet(Held(T, p))
    BY FS_Subset DEF SlotsInv
  <2>2. Cardinality(Held(T, p)) \in Nat
    BY <2>1, FS_CardinalityType
  <2> HIDE DEF Held
  <2> QED
    BY <2>1, <2>2
<1>3. ASSUME NEW u \in User \union {None}, NEW p \in Packet
      PROVE  Cash!ClaimedBy(u)[p] = Cardinality({s \in packet[p].slots : s[2] = u})
             /\ Cash!ClaimedBy(u)[p] \in Int
  BY <1>3 DEF SumsOK, ValuesOK, SlotsOf
<1>4. ASSUME NEW T, NEW u \in User \union {None}, u \notin T, NEW p \in Packet
      PROVE  By(T \union {u})[p] = By(T)[p] + Cash!ClaimedBy(u)[p]
  <2> DEFINE own == {s \in packet[p].slots : s[2] = u}
  <2>1. Held(T \union {u}, p) = Held(T, p) \union own /\ Held(T, p) \intersect own = {}
    BY <1>4
  <2>2. IsFiniteSet(own)
    BY FS_Subset DEF SlotsInv
  <2>3. Cash!ClaimedBy(u)[p] = Cardinality(own)
    BY <1>3
  <2> HIDE DEF own, Held
  <2>4. Cardinality(Held(T, p) \union own) = Cardinality(Held(T, p)) + Cardinality(own)
    BY <1>2, <2>1, <2>2, JoinApart
  <2> QED
    BY <2>1, <2>3, <2>4
<1>5. {} \in P
  <2>1. Sum(income, {}) = 0
    BY <1>0, <1>1, SumAdds
  <2>2. Sum(By({}), Packet) = 0
    <3>1. \A p \in Packet : By({})[p] = 0
      <4> TAKE p \in Packet
      <4>1. Held({}, p) = {} /\ Cardinality({}) = 0
        BY FS_EmptySet
      <4> HIDE DEF Held
      <4> QED
        BY <4>1
    <3> HIDE DEF By
    <3>2. Sum(By({}), Packet) = Sum(By({}), Packet) + Sum(By({}), Packet)
      <4>1. \A p \in Packet : By({})[p] \in Int /\ By({})[p] = By({})[p] + By({})[p]
        BY <3>1
      <4> QED
        BY <1>0, <4>1, SumPlus
    <3>3. Sum(By({}), Packet) \in Int
      <4>1. \A p \in Packet : By({})[p] \in Int
        BY <3>1
      <4> QED
        BY <1>0, <4>1, SumAdds
    <3> DEFINE total == Sum(By({}), Packet)
    <3>4. total \in Int /\ total = total + total
      BY <3>2, <3>3, Zenon
    <3> HIDE DEF total
    <3>5. total = 0
      BY <3>4
    <3> QED
      BY <3>5 DEF total
  <2> QED
    BY <2>1, <2>2
<1> HIDE DEF income, By, Held
<1>6. \A T, p : p \in Packet => By(T)[p] \in Int
  BY <1>2
<1>7. \A u, p : u \in User /\ p \in Packet => Cash!ClaimedBy(u)[p] \in Int
  BY <1>3
<1>8. \A p : p \in Packet => Cash!ClaimedBy(None)[p] \in Int
  BY <1>3
<1>9. ASSUME NEW T \in SUBSET User, NEW u \in User, T \in P, u \notin T
      PROVE  T \union {u} \in P
  <2>1. Sum(income, T \union {u}) = Sum(income, T) + income[u]
    BY <1>0, <1>1, <1>9, SumAdds
  <2>2. Sum(By(T \union {u}), Packet) = Sum(By(T), Packet) + Sum(Cash!ClaimedBy(u), Packet)
    <3>1. \A p \in Packet : /\ By(T)[p] \in Int /\ Cash!ClaimedBy(u)[p] \in Int
                            /\ By(T \union {u})[p] = By(T)[p] + Cash!ClaimedBy(u)[p]
      BY <1>6, <1>7, <1>4, <1>9
    <3> QED
      BY <1>0, <3>1, SumPlus
  <2> QED
    BY <1>1, <1>9, <2>1, <2>2
<1>10. Sum(income, User) = Sum(By(User), Packet)
  <2>1. User \in P
    <3> HIDE DEF P
    <3> QED
      BY <1>0, <1>5, <1>9, SetsGrow
  <2> QED
    BY <2>1
<1>11. Sum(Cash!Claimed, Packet) = Sum(By(User), Packet) + Sum(Cash!ClaimedBy(None), Packet)
  <2>1. ASSUME NEW p \in Packet
        PROVE  /\ By(User)[p] \in Int /\ Cash!ClaimedBy(None)[p] \in Int
               /\ Cash!Claimed[p] = By(User)[p] + Cash!ClaimedBy(None)[p]
    <3>1. By(User \union {None})[p] = By(User)[p] + Cash!ClaimedBy(None)[p]
      BY <1>0, <1>4
    <3>2. Held(User \union {None}, p) = packet[p].slots
      BY DEF Held, Cash!TypeOK, Cash!Packets
    <3>3. By(User \union {None})[p] = Cardinality(Held(User \union {None}, p))
      BY <1>2
    <3>4. Cash!Claimed[p] = Cardinality(packet[p].slots)
      BY DEF SumsOK, ValuesOK
    <3> QED
      BY <1>6, <1>8, <3>1, <3>2, <3>3, <3>4
  <2> QED
    BY <1>0, <2>1, SumPlus
<1>12. Sum(By(User), Packet) \in Int /\ Sum(Cash!ClaimedBy(None), Packet) \in Int
  <2>1. \A p \in Packet : By(User)[p] \in Int /\ Cash!ClaimedBy(None)[p] \in Int
    BY <1>6, <1>8
  <2> QED
    BY <1>0, <2>1, SumAdds
<1>13. Sum(income, User) + Sum(Cash!ClaimedBy(None), Packet) = Sum(Cash!Claimed, Packet)
       /\ Sum(income, User) \in Int /\ Sum(Cash!Claimed, Packet) \in Int
  BY <1>10, <1>11, <1>12
<1> QED
  BY <1>12, <1>13 DEF income

ExpiredPackets == {p \in Cash!AllPackets : packet[p].expired}
LivePackets == {p \in Cash!AllPackets : ~packet[p].expired}
CashPackets == {p \in Cash!AllPackets : packet[p].fund = "cash"}

(* The packets of all users are all packets.                               *)
LEMMA PacketTotals ==
    ASSUME Cash!TypeOK, SumsOK
    PROVE  /\ Sum([u \in User |-> Cash!ExpiredTotals(u)], User) = Sum(Cash!Total, ExpiredPackets)
           /\ Sum([u \in User |-> Cash!ExpiredClaims(u)], User) = Sum(Cash!Claimed, ExpiredPackets)
           /\ Sum([u \in User |-> Cash!CashFunded(u)], User) = Sum(Cash!Total, CashPackets)
<1> DEFINE expired == [u \in User |-> Cash!ExpiredOf(u)]
           funded == [u \in User |-> CashOf(u)]
           totals == [u \in User |-> Cash!ExpiredTotals(u)]
           claims == [u \in User |-> Cash!ExpiredClaims(u)]
           spent == [u \in User |-> Cash!CashFunded(u)]
<1>0. IsFiniteSet(User) /\ IsFiniteSet(ExpiredPackets) /\ IsFiniteSet(CashPackets)
  BY Tables, FS_Subset DEF ExpiredPackets, CashPackets, Cash!AllPackets
<1>1. \A p \in Packet : packet[p].owner \in User \union {None}
  BY DEF Cash!TypeOK, Cash!Packets
<1>2. /\ \A p \in ExpiredPackets : Cash!Total[p] \in Int /\ Cash!Claimed[p] \in Int
      /\ \A p \in CashPackets : Cash!Total[p] \in Int
  BY DEF SumsOK, ValuesOK, ExpiredPackets, CashPackets, Cash!AllPackets
<1>3. /\ \A u \in User : expired[u] \subseteq ExpiredPackets
      /\ \A p \in ExpiredPackets : \E u \in User : p \in expired[u]
      /\ \A u, v \in User : u # v => expired[u] \intersect expired[v] = {}
  BY <1>1, Tables DEF ExpiredPackets, Cash!AllPackets, Cash!ExpiredOf, Cash!PacketsOf
<1>4. /\ \A u \in User : funded[u] \subseteq CashPackets
      /\ \A p \in CashPackets : \E u \in User : p \in funded[u]
      /\ \A u, v \in User : u # v => funded[u] \intersect funded[v] = {}
  BY <1>1, Tables DEF CashPackets, Cash!AllPackets, CashOf, Cash!PacketsOf
<1>5. \A u \in User : /\ totals[u] = Sum(Cash!Total, expired[u])
                      /\ claims[u] = Sum(Cash!Claimed, expired[u])
                      /\ spent[u] = Sum(Cash!Total, funded[u])
  BY DEF SumsOK, AsSums
<1> HIDE DEF expired, funded, totals, claims, spent
<1>6. Sum(totals, User) = Sum(Cash!Total, ExpiredPackets)
  BY <1>0, <1>2, <1>3, <1>5, SumByOwner
<1>7. Sum(claims, User) = Sum(Cash!Claimed, ExpiredPackets)
  BY <1>0, <1>2, <1>3, <1>5, SumByOwner
<1>8. Sum(spent, User) = Sum(Cash!Total, CashPackets)
  BY <1>0, <1>2, <1>4, <1>5, SumByOwner
<1> QED
  BY <1>6, <1>7, <1>8 DEF totals, claims, spent

GoodRows == {d \in Deposit : deposit[d].row = "good" /\ deposit[d].user \in User}
OpenRows == {c \in Checkout : checkout[c].row \in {"sent", "good"}}

(* The rows of all users: deposits that arrived, checkouts with a row.     *)
LEMMA RowTotals ==
    ASSUME Cash!TypeOK, SumsOK, RowsInv
    PROVE  /\ Sum([u \in User |-> Cash!Deposited(u)], User) = Sum(Cash!Deposits, GoodRows)
           /\ Sum([u \in User |-> Cash!CheckedOut(u)], User) = Sum(Cash!Checkouts, OpenRows)
<1> DEFINE good == [u \in User |-> GoodDeposits(u)]
           open == [u \in User |-> OpenCheckouts(u)]
           ins == [u \in User |-> Cash!Deposited(u)]
           outs == [u \in User |-> Cash!CheckedOut(u)]
<1>0. IsFiniteSet(User) /\ IsFiniteSet(GoodRows) /\ IsFiniteSet(OpenRows)
  BY Tables, FS_Subset DEF GoodRows, OpenRows
<1>1. /\ \A d \in GoodRows : Cash!Deposits[d] \in Int
      /\ \A c \in OpenRows : Cash!Checkouts[c] \in Int
  BY DEF SumsOK, ValuesOK, GoodRows, OpenRows
<1>2. /\ \A u \in User : good[u] \subseteq GoodRows
      /\ \A d \in GoodRows : \E u \in User : d \in good[u]
      /\ \A u, v \in User : u # v => good[u] \intersect good[v] = {}
  BY DEF GoodDeposits, GoodRows
<1>3. /\ \A u \in User : open[u] \subseteq OpenRows
      /\ \A c \in OpenRows : \E u \in User : c \in open[u]
      /\ \A u, v \in User : u # v => open[u] \intersect open[v] = {}
  BY DEF OpenCheckouts, OpenRows, RowsInv
<1>4. \A u \in User : /\ ins[u] = Sum(Cash!Deposits, good[u])
                      /\ outs[u] = Sum(Cash!Checkouts, open[u])
  BY DEF SumsOK, AsSums
<1> HIDE DEF good, open, ins, outs
<1>5. Sum(ins, User) = Sum(Cash!Deposits, GoodRows)
  BY <1>0, <1>1, <1>2, <1>4, SumByOwner
<1>6. Sum(outs, User) = Sum(Cash!Checkouts, OpenRows)
  BY <1>0, <1>1, <1>3, <1>4, SumByOwner
<1> QED
  BY <1>5, <1>6 DEF ins, outs

LEMMA CashTotal ==
    ASSUME SumsOK
    PROVE  /\ Sum([u \in User |-> Cash!Cash(u)], User)
                = Sum([u \in User |-> Cash!Income(u)], User)
                  + Sum([u \in User |-> Cash!Deposited(u)], User)
                  + Sum([u \in User |-> Cash!ExpiredTotals(u)], User)
                  - Sum([u \in User |-> Cash!CashFunded(u)], User)
                  - Sum([u \in User |-> Cash!CheckedOut(u)], User)
                  - Sum([u \in User |-> Cash!ExpiredClaims(u)], User)
           /\ Sum([u \in User |-> Cash!Deposited(u)], User) \in Int
           /\ Sum([u \in User |-> Cash!CheckedOut(u)], User) \in Int
<1> DEFINE cash == [u \in User |-> Cash!Cash(u)]
           i == [u \in User |-> Cash!Income(u)]
           d == [u \in User |-> Cash!Deposited(u)]
           e == [u \in User |-> Cash!ExpiredTotals(u)]
           f == [u \in User |-> Cash!CashFunded(u)]
           c == [u \in User |-> Cash!CheckedOut(u)]
           x == [u \in User |-> Cash!ExpiredClaims(u)]
           id == [u \in User |-> i[u] + d[u]]
           gains == [u \in User |-> id[u] + e[u]]
           fc == [u \in User |-> f[u] + c[u]]
           losses == [u \in User |-> fc[u] + x[u]]
<1>0. IsFiniteSet(User)
  BY Tables
<1>1. \A u \in User : /\ i[u] \in Int /\ d[u] \in Int /\ e[u] \in Int
                      /\ f[u] \in Int /\ c[u] \in Int /\ x[u] \in Int /\ cash[u] \in Int
                      /\ cash[u] = i[u] + d[u] + e[u] - f[u] - c[u] - x[u]
  BY DEF SumsOK, AsSums
<1>2. \A u \in User : /\ id[u] = i[u] + d[u] /\ gains[u] = id[u] + e[u]
                      /\ fc[u] = f[u] + c[u] /\ losses[u] = fc[u] + x[u]
  OBVIOUS
<1> HIDE DEF cash, i, d, e, f, c, x, id, gains, fc, losses
<1>3. \A u \in User : /\ id[u] \in Int /\ gains[u] \in Int /\ fc[u] \in Int /\ losses[u] \in Int
                      /\ gains[u] = cash[u] + losses[u]
  BY <1>1, <1>2
<1>4. Sum(id, User) = Sum(i, User) + Sum(d, User)
  BY <1>0, <1>1, <1>2, SumPlus
<1>5. Sum(gains, User) = Sum(id, User) + Sum(e, User)
  BY <1>0, <1>1, <1>2, <1>3, SumPlus
<1>6. Sum(fc, User) = Sum(f, User) + Sum(c, User)
  BY <1>0, <1>1, <1>2, SumPlus
<1>7. Sum(losses, User) = Sum(fc, User) + Sum(x, User)
  BY <1>0, <1>1, <1>2, <1>3, SumPlus
<1>8. Sum(gains, User) = Sum(cash, User) + Sum(losses, User)
  BY <1>0, <1>1, <1>3, SumPlus
<1>9. /\ Sum(i, User) \in Int /\ Sum(d, User) \in Int /\ Sum(e, User) \in Int
      /\ Sum(f, User) \in Int /\ Sum(c, User) \in Int /\ Sum(x, User) \in Int
      /\ Sum(cash, User) \in Int
  BY <1>0, <1>1, SumAdds
<1>10. Sum(cash, User) = Sum(i, User) + Sum(d, User) + Sum(e, User)
                         - Sum(f, User) - Sum(c, User) - Sum(x, User)
  BY <1>4, <1>5, <1>6, <1>7, <1>8, <1>9
<1> QED
  BY <1>9, <1>10 DEF cash, i, d, e, f, c, x

LEMMA HeldTokens ==
    ASSUME Cash!TypeOK, SlotsInv, SumsOK
    PROVE  /\ Sum([u \in User |-> Cash!Cash(u)], User) + Cash!Outstanding
                = Sum([u \in User |-> Cash!Deposited(u)], User) + Sum(Cash!Total, Cash!WalletFunded)
                  - Sum([u \in User |-> Cash!CheckedOut(u)], User)
           /\ Cash!Outstanding \in Int /\ Sum(Cash!Total, Cash!WalletFunded) \in Int
<1> DEFINE income == Sum([u \in User |-> Cash!Income(u)], User)
           ins == Sum([u \in User |-> Cash!Deposited(u)], User)
           refunds == Sum([u \in User |-> Cash!ExpiredTotals(u)], User)
           spent == Sum([u \in User |-> Cash!CashFunded(u)], User)
           outs == Sum([u \in User |-> Cash!CheckedOut(u)], User)
           claims == Sum([u \in User |-> Cash!ExpiredClaims(u)], User)
           cash == Sum([u \in User |-> Cash!Cash(u)], User)
           anonymous == Sum(Cash!ClaimedBy(None), Packet)
           left == [p \in Packet |-> Cash!Total[p] - Cash!Claimed[p]]
           All == Cash!AllPackets
<1>1. /\ All \subseteq Packet /\ IsFiniteSet(Packet) /\ IsFiniteSet(All)
      /\ ExpiredPackets \in SUBSET All /\ LivePackets \in SUBSET All /\ CashPackets \in SUBSET All
      /\ IsFiniteSet(LivePackets)
  BY Tables, FS_Subset DEF Cash!AllPackets, ExpiredPackets, LivePackets, CashPackets
<1>2. All \ ExpiredPackets = LivePackets /\ All \ CashPackets = Cash!WalletFunded
  BY DEF ExpiredPackets, LivePackets, CashPackets, Cash!WalletFunded
<1>3. \A p \in Packet : /\ Cash!Total[p] \in Int /\ Cash!Claimed[p] \in Int /\ left[p] \in Int
                        /\ Cash!Total[p] = left[p] + Cash!Claimed[p]
  BY DEF SumsOK, ValuesOK
<1>4. \A p \in Packet \ All : Cash!Claimed[p] = 0
  <2> SUFFICES ASSUME NEW p \in Packet, p \notin All PROVE Cash!Claimed[p] = 0
    OBVIOUS
  <2>1. packet[p].slots = {}
    BY DEF SlotsInv, Cash!AllPackets, Cash!NoPacket
  <2>2. Cash!Claimed[p] = Cardinality(packet[p].slots)
    BY DEF SumsOK, ValuesOK
  <2> QED
    BY <2>1, <2>2, FS_EmptySet
<1>5. Cash!Outstanding = Sum(left, LivePackets) + anonymous
  BY DEF Cash!Outstanding, Sum, LivePackets
<1>6. /\ income + anonymous = Sum(Cash!Claimed, Packet) /\ income \in Int /\ anonymous \in Int
      /\ refunds = Sum(Cash!Total, ExpiredPackets) /\ claims = Sum(Cash!Claimed, ExpiredPackets)
      /\ spent = Sum(Cash!Total, CashPackets)
      /\ cash = income + ins + refunds - spent - outs - claims
      /\ ins \in Int /\ outs \in Int
  BY ClaimsTotal, PacketTotals, CashTotal
<1> HIDE DEF income, ins, refunds, spent, outs, claims, cash, anonymous, left, All
<1>7. Sum(Cash!Claimed, Packet) = Sum(Cash!Claimed, All)
  <2> DEFINE Rest == Packet \ All
  <2>1. \A p \in Rest : Cash!Claimed[p] = 0
    BY <1>4
  <2>2. IsFiniteSet(Rest)
    BY <1>1, FS_Subset
  <2>3. /\ Sum(Cash!Claimed, Packet) = Sum(Cash!Claimed, All) + Sum(Cash!Claimed, Rest)
        /\ Sum(Cash!Claimed, All) \in Int
    BY <1>1, <1>3, SumSplit
  <2> HIDE DEF Rest
  <2>4. Sum(Cash!Claimed, Rest) = Sum(Cash!Claimed, Rest) + Sum(Cash!Claimed, Rest)
    <3>1. \A p \in Rest : /\ Cash!Claimed[p] \in Int
                          /\ Cash!Claimed[p] = Cash!Claimed[p] + Cash!Claimed[p]
      BY <2>1
    <3> QED
      BY <2>2, <3>1, SumPlus
  <2>5. Sum(Cash!Claimed, Rest) \in Int
    BY <2>1, <2>2, SumAdds
  <2>6. Sum(Cash!Claimed, Rest) = 0
    <3> DEFINE rest == Sum(Cash!Claimed, Rest)
    <3>1. rest \in Int /\ rest = rest + rest
      BY <2>4, <2>5, Zenon
    <3> HIDE DEF rest
    <3>2. rest = 0
      BY <3>1
    <3> QED
      BY <3>2 DEF rest
  <2> QED
    BY <2>3, <2>6
<1>8. /\ Sum(Cash!Claimed, All) = Sum(Cash!Claimed, ExpiredPackets) + Sum(Cash!Claimed, LivePackets)
      /\ Sum(Cash!Total, All) = Sum(Cash!Total, ExpiredPackets) + Sum(Cash!Total, LivePackets)
      /\ Sum(Cash!Total, All) = Sum(Cash!Total, CashPackets) + Sum(Cash!Total, Cash!WalletFunded)
      /\ Sum(Cash!Claimed, ExpiredPackets) \in Int /\ Sum(Cash!Claimed, LivePackets) \in Int
      /\ Sum(Cash!Total, ExpiredPackets) \in Int /\ Sum(Cash!Total, LivePackets) \in Int
      /\ Sum(Cash!Total, CashPackets) \in Int /\ Sum(Cash!Total, Cash!WalletFunded) \in Int
  <2>1. \A p \in All : Cash!Total[p] \in Int /\ Cash!Claimed[p] \in Int
    BY <1>1, <1>3
  <2>2. /\ Sum(Cash!Claimed, All) = Sum(Cash!Claimed, ExpiredPackets) + Sum(Cash!Claimed, All \ ExpiredPackets)
        /\ Sum(Cash!Claimed, ExpiredPackets) \in Int /\ Sum(Cash!Claimed, All \ ExpiredPackets) \in Int
    BY <1>1, <2>1, SumSplit
  <2>3. /\ Sum(Cash!Total, All) = Sum(Cash!Total, ExpiredPackets) + Sum(Cash!Total, All \ ExpiredPackets)
        /\ Sum(Cash!Total, ExpiredPackets) \in Int /\ Sum(Cash!Total, All \ ExpiredPackets) \in Int
    BY <1>1, <2>1, SumSplit
  <2>4. /\ Sum(Cash!Total, All) = Sum(Cash!Total, CashPackets) + Sum(Cash!Total, All \ CashPackets)
        /\ Sum(Cash!Total, CashPackets) \in Int /\ Sum(Cash!Total, All \ CashPackets) \in Int
    BY <1>1, <2>1, SumSplit
  <2> QED
    BY <1>2, <2>2, <2>3, <2>4
<1>9. Sum(Cash!Total, LivePackets) = Sum(left, LivePackets) + Sum(Cash!Claimed, LivePackets)
      /\ Sum(left, LivePackets) \in Int
  <2>1. \A p \in LivePackets : /\ left[p] \in Int /\ Cash!Claimed[p] \in Int
                               /\ Cash!Total[p] = left[p] + Cash!Claimed[p]
    BY <1>1, <1>3
  <2> QED
    BY <1>1, <2>1, SumPlus, SumAdds
<1>10. cash + Cash!Outstanding = ins + Sum(Cash!Total, Cash!WalletFunded) - outs
       /\ Cash!Outstanding \in Int /\ Sum(Cash!Total, Cash!WalletFunded) \in Int
  BY <1>5, <1>6, <1>7, <1>8, <1>9
<1> QED
  BY <1>10 DEF cash, ins, outs

(* What is owed has arrived, or is one of the two named exceptions.        *)
LEMMA OwedArrived ==
    ASSUME Cash!TypeOK, SlotsInv, SumsOK, RowsInv
    PROVE  /\ Cash!Paid + Sum(Cash!Deposits, GoodRows) + Sum(Cash!Total, Cash!WalletFunded)
                <= Cash!Received + Cash!Unfunded + Cash!Unrecorded + Sum(Cash!Checkouts, OpenRows)
           /\ Cash!Paid \in Int /\ Cash!Received \in Int /\ Cash!Unfunded \in Int
           /\ Cash!Unrecorded \in Int
<1> DEFINE MinedD == {d \in Deposit : deposit[d].chain = "good"}
           MinedC == {c \in Checkout : checkout[c].chain = "good"}
           MinedP == {p \in Packet : packet[p].chain = "good"}
           Bare == {c \in Checkout : checkout[c].row = "none"}
           WF == Cash!WalletFunded
           Missing == {p \in WF : packet[p].chain # "good"}
<1>1. /\ IsFiniteSet(Deposit) /\ IsFiniteSet(Checkout) /\ IsFiniteSet(Packet)
      /\ GoodRows \in SUBSET Deposit /\ OpenRows \in SUBSET Checkout
      /\ MinedD \in SUBSET Deposit /\ MinedC \in SUBSET Checkout /\ MinedP \in SUBSET Packet
      /\ Bare \in SUBSET Checkout /\ WF \in SUBSET Packet /\ Missing \in SUBSET WF
  BY Tables DEF GoodRows, OpenRows, Cash!WalletFunded, Cash!AllPackets
<1>2. GoodRows \subseteq MinedD /\ WF \ Missing \subseteq MinedP
  BY DEF GoodRows, RowsInv, Cash!WalletFunded, Cash!AllPackets
<1>3. OpenRows \intersect Bare = {} /\ MinedC \subseteq OpenRows \union Bare
  BY DEF OpenRows, RowsInv, Cash!TypeOK, Cash!Row
<1>4. /\ Cash!Paid = Sum(Cash!Checkouts, MinedC)
      /\ Cash!Received = Sum(Cash!Deposits, MinedD) + Sum(Cash!Total, MinedP)
      /\ Cash!Unfunded = Sum(Cash!Total, Missing) /\ Cash!Unrecorded = Sum(Cash!Checkouts, Bare)
  BY DEF Cash!Paid, Cash!Received, Cash!Unfunded, Cash!Unrecorded, Sum
<1>5. /\ \A d \in Deposit : Cash!Deposits[d] \in Nat /\ Cash!Deposits[d] \in Int
      /\ \A c \in Checkout : Cash!Checkouts[c] \in Nat /\ Cash!Checkouts[c] \in Int
      /\ \A p \in Packet : Cash!Total[p] \in Nat /\ Cash!Total[p] \in Int
  BY DEF SumsOK, ValuesOK
<1> HIDE DEF MinedD, MinedC, MinedP, Bare, WF, Missing
<1>6. /\ Sum(Cash!Deposits, GoodRows) <= Sum(Cash!Deposits, MinedD)
      /\ Sum(Cash!Deposits, GoodRows) \in Int /\ Sum(Cash!Deposits, MinedD) \in Int
  <2>1. /\ \A d \in GoodRows : Cash!Deposits[d] \in Int /\ Cash!Deposits[d] <= Cash!Deposits[d]
        /\ \A d \in MinedD : Cash!Deposits[d] \in Nat
    BY <1>1, <1>5
  <2>2. Sum(Cash!Deposits, GoodRows) <= Sum(Cash!Deposits, MinedD)
    BY <1>1, <1>2, <2>1, SumGrows
  <2> QED
    BY <1>1, <1>5, <2>2, SumAdds
<1>7. /\ Sum(Cash!Checkouts, MinedC) <= Sum(Cash!Checkouts, OpenRows) + Sum(Cash!Checkouts, Bare)
      /\ Sum(Cash!Checkouts, MinedC) \in Int /\ Sum(Cash!Checkouts, OpenRows) \in Int
      /\ Sum(Cash!Checkouts, Bare) \in Int
  <2> DEFINE Both == OpenRows \union Bare
  <2>1. Both \in SUBSET Checkout /\ MinedC \subseteq Both
    BY <1>1, <1>3
  <2>2. /\ Sum(Cash!Checkouts, Both) = Sum(Cash!Checkouts, OpenRows) + Sum(Cash!Checkouts, Bare)
        /\ Sum(Cash!Checkouts, OpenRows) \in Int /\ Sum(Cash!Checkouts, Bare) \in Int
    <3>1. OpenRows \intersect Bare = {} /\ \A c \in Checkout : Cash!Checkouts[c] \in Int
      BY <1>3, <1>5
    <3> QED
      BY <1>1, <3>1, SumJoin
  <2> HIDE DEF Both
  <2>3. /\ \A c \in MinedC : Cash!Checkouts[c] \in Int /\ Cash!Checkouts[c] <= Cash!Checkouts[c]
        /\ \A c \in Both : Cash!Checkouts[c] \in Nat
    BY <1>1, <1>5, <2>1
  <2>4. Sum(Cash!Checkouts, MinedC) <= Sum(Cash!Checkouts, Both)
    BY <1>1, <2>1, <2>3, SumGrows
  <2>5. Sum(Cash!Checkouts, MinedC) \in Int
    BY <1>1, <1>5, SumAdds
  <2> QED
    BY <2>2, <2>4, <2>5
<1>8. /\ Sum(Cash!Total, WF) <= Sum(Cash!Total, Missing) + Sum(Cash!Total, MinedP)
      /\ Sum(Cash!Total, WF) \in Int /\ Sum(Cash!Total, Missing) \in Int
      /\ Sum(Cash!Total, MinedP) \in Int
  <2> DEFINE Arrived == WF \ Missing
  <2>1. IsFiniteSet(WF) /\ \A p \in WF : Cash!Total[p] \in Int
    BY <1>1, <1>5, FS_Subset
  <2>2. /\ Sum(Cash!Total, WF) = Sum(Cash!Total, Missing) + Sum(Cash!Total, Arrived)
        /\ Sum(Cash!Total, Missing) \in Int /\ Sum(Cash!Total, Arrived) \in Int
    BY <1>1, <2>1, SumSplit
  <2>3. Arrived \in SUBSET Packet /\ Arrived \subseteq MinedP
    BY <1>1, <1>2
  <2> HIDE DEF Arrived
  <2>4. /\ \A p \in Arrived : Cash!Total[p] \in Int /\ Cash!Total[p] <= Cash!Total[p]
        /\ \A p \in MinedP : Cash!Total[p] \in Nat
    BY <1>1, <1>5, <2>3
  <2>5. Sum(Cash!Total, Arrived) <= Sum(Cash!Total, MinedP)
    BY <1>1, <2>3, <2>4, SumGrows
  <2>6. Sum(Cash!Total, MinedP) \in Int /\ Sum(Cash!Total, WF) \in Int
    BY <1>1, <1>5, SumAdds
  <2> QED
    BY <2>2, <2>5, <2>6
<1>9. /\ Cash!Paid + Sum(Cash!Deposits, GoodRows) + Sum(Cash!Total, WF)
            <= Cash!Received + Cash!Unfunded + Cash!Unrecorded + Sum(Cash!Checkouts, OpenRows)
      /\ Cash!Paid \in Int /\ Cash!Received \in Int /\ Cash!Unfunded \in Int
      /\ Cash!Unrecorded \in Int
  BY <1>4, <1>6, <1>7, <1>8
<1> QED
  BY <1>9 DEF WF

LEMMA CashSolvent == CashInv => Cash!Solvent
<1> SUFFICES ASSUME CashInv PROVE Cash!Solvent
  OBVIOUS
<1>0. Cash!TypeOK /\ SlotsInv /\ RowsInv /\ SumsOK
  BY SumsHold DEF CashInv
<1> DEFINE cash == [u \in User |-> Cash!Cash(u)]
           ins == [u \in User |-> Cash!Deposited(u)]
           outs == [u \in User |-> Cash!CheckedOut(u)]
<1>1. /\ Sum(cash, User) + Cash!Outstanding
            = Sum(ins, User) + Sum(Cash!Total, Cash!WalletFunded) - Sum(outs, User)
      /\ Cash!Outstanding \in Int /\ Sum(Cash!Total, Cash!WalletFunded) \in Int
  BY <1>0, HeldTokens
<1>2. Sum(ins, User) = Sum(Cash!Deposits, GoodRows) /\ Sum(outs, User) = Sum(Cash!Checkouts, OpenRows)
  BY <1>0, RowTotals
<1>3. /\ Cash!Paid + Sum(Cash!Deposits, GoodRows) + Sum(Cash!Total, Cash!WalletFunded)
            <= Cash!Received + Cash!Unfunded + Cash!Unrecorded + Sum(Cash!Checkouts, OpenRows)
      /\ Cash!Paid \in Int /\ Cash!Received \in Int /\ Cash!Unfunded \in Int /\ Cash!Unrecorded \in Int
  BY <1>0, OwedArrived
<1>4. Sum(ins, User) \in Int /\ Sum(outs, User) \in Int
  BY <1>0, CashTotal
<1>5. /\ Cash!SumFunction(cash) = Sum(cash, User) /\ Cash!SumFunction(ins) = Sum(ins, User)
      /\ Cash!SumFunction(outs) = Sum(outs, User)
  <2>1. DOMAIN cash = User /\ DOMAIN ins = User /\ DOMAIN outs = User
    OBVIOUS
  <2> HIDE DEF cash, ins, outs
  <2> QED
    BY <2>1 DEF Cash!SumFunction, Sum
<1>6. Cash!SumFunctionOnSet(Cash!Total, Cash!WalletFunded) = Sum(Cash!Total, Cash!WalletFunded)
  BY DEF Sum
<1> DEFINE held == Cash!SumFunction(cash) + Cash!Outstanding
<1>7. held = Cash!SumFunction(ins) + Cash!SumFunctionOnSet(Cash!Total, Cash!WalletFunded)
             - Cash!SumFunction(outs)
  <2> HIDE DEF cash, ins, outs
  <2> QED
    BY <1>1, <1>5, <1>6
<1>8. Cash!Paid + held <= Cash!Received + Cash!Unfunded + Cash!Unrecorded
  <2> HIDE DEF cash, ins, outs
  <2> QED
    BY <1>1, <1>2, <1>3, <1>4, <1>5
<1> QED
  BY <1>7, <1>8 DEF Cash!Solvent

(* CashLedger: however many users, packets, deposits and checkouts there   *)
(* are, the five SELECTs count every token exactly once, and what the      *)
(* service owes it has received, but for the two named exceptions.         *)
THEOREM SolventAlways == PartsSpec => []Solvent
<1>1. CashPartInv => Solvent
  BY CashSolvent DEF CashPartInv, CashInv, Solvent
<1> QED
  BY <1>1, CashInvariance, PTL

=============================================================================
