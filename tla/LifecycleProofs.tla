--------------------------- MODULE LifecycleProofs ---------------------------
(* Theorems about Lifecycle for any number of processes and submissions.   *)
EXTENDS Lifecycle, FiniteSetTheorems, WellFoundedInduction, TLAPS

-----------------------------------------------------------------------------
(* What the node answers. *)

(* A finite set of numbers has a lowest one: of the sets of its members    *)
(* not above a member, take a smallest.                                    *)
LEMMA LowestExists ==
    ASSUME NEW S, S \subseteq Int, IsFiniteSet(S), S # {}
    PROVE  \E s \in S : \A r \in S : s <= r
<1> DEFINE Below(s) == {r \in S : r <= s}
           Belows == {Below(s) : s \in S}
<1>1. Belows \subseteq FiniteSubsetsOf(S) /\ Belows # {}
  <2>1. FiniteSubsetsOf(S) = SUBSET S
    BY FS_FiniteSubsetsOfFinite
  <2>2. Belows \subseteq SUBSET S
    OBVIOUS
  <2>3. Belows # {}
    OBVIOUS
  <2> QED
    BY <2>1, <2>2, <2>3
<1>2. PICK A \in Belows : \A B \in Belows : <<B, A>> \notin StrictSubsetOrdering(S)
  BY <1>1, FS_StrictSubsetOrderingWellFounded, WFMin
<1>3. PICK s \in S : A = Below(s)
  OBVIOUS
<1>4. ASSUME NEW r \in S, ~(s <= r) PROVE FALSE
  <2>0. s \in Int /\ r \in Int /\ r < s
    BY <1>4
  <2>1. \A q \in S : q <= r => q <= s
    BY <2>0
  <2>2. Below(r) \subseteq Below(s)
    BY <2>1
  <2>3. s \in Below(s) /\ s \notin Below(r)
    BY <2>0
  <2>4. <<Below(r), A>> \in StrictSubsetOrdering(S)
    BY <2>2, <2>3, <1>3 DEF StrictSubsetOrdering
  <2> QED
    BY <1>2, <2>4
<1> QED
  BY <1>4

(* Fewer transactions than nonces: one is free. *)
LEMMA SomeNonceFree ==
    ASSUME TypeOK
    PROVE  \E n \in 0..MaxTx : Live(n) = {}
<1> SUFFICES ASSUME \A n \in 0..MaxTx : Live(n) # {}
             PROVE  FALSE
  OBVIOUS
<1> DEFINE f == [n \in 0..MaxTx |-> CHOOSE i \in Live(n) : TRUE]
<1>1. \A n \in 0..MaxTx : f[n] \in Live(n)
  OBVIOUS
<1>2. Len(txs) \in Nat /\ DOMAIN txs = 1..Len(txs) /\ Len(txs) <= MaxTx /\ MaxTx \in Nat
  BY BoundAssumption DEF TypeOK
<1>3. f \in [0..MaxTx -> 1..Len(txs)]
  BY <1>1, <1>2 DEF Live
<1>4. IsFiniteSet(0..MaxTx) /\ Cardinality(0..MaxTx) = MaxTx + 1
  BY <1>2, FS_Interval
<1>5. IsFiniteSet(1..Len(txs)) /\ Cardinality(1..Len(txs)) = Len(txs)
  <2>1. PICK k \in Nat : k = Len(txs)
    BY <1>2
  <2>2. IsFiniteSet(1..k) /\ Cardinality(1..k) = IF 1 > k THEN 0 ELSE k - 1 + 1
    BY FS_Interval
  <2> QED
    BY <2>1, <2>2
<1>6. PICK x \in 0..MaxTx, y \in 0..MaxTx : x # y /\ f[x] = f[y]
  <2> HIDE DEF f
  <2>1. Cardinality(1..Len(txs)) < Cardinality(0..MaxTx)
    BY <1>2, <1>4, <1>5
  <2> QED
    BY <1>3, <1>4, <1>5, <2>1, FS_PigeonHole
<1>7. txs[f[x]].nonce = x /\ txs[f[x]].nonce = y
  <2> HIDE DEF f
  <2> QED
    BY <1>1, <1>6 DEF Live
<1> QED
  BY <1>6, <1>7

LEMMA PendingIsNonce ==
    ASSUME TypeOK
    PROVE  PendingNonceAt \in 0..MaxTx
<1> DEFINE Free == {n \in 0..MaxTx : Live(n) = {}}
<1>1. MaxTx \in Nat
  BY BoundAssumption
<1>2. IsFiniteSet(Free)
  <2>1. IsFiniteSet(0..MaxTx)
    BY <1>1, FS_Interval
  <2> QED
    BY <2>1, FS_Subset
<1>3. PICK s \in Free : \A r \in Free : s <= r
  <2>1. Free # {}
    BY SomeNonceFree
  <2>2. Free \subseteq Int
    OBVIOUS
  <2> QED
    BY <1>2, <2>1, <2>2, LowestExists
<1>4. \A m \in 0..(s - 1) : Live(m) # {}
  <2> SUFFICES ASSUME NEW m \in 0..(s - 1), Live(m) = {} PROVE FALSE
    OBVIOUS
  <2>1. m \in 0..MaxTx /\ ~(s <= m)
    BY <1>1
  <2> QED
    BY <2>1, <1>3
<1> QED
  BY <1>3, <1>4 DEF PendingNonceAt

-----------------------------------------------------------------------------
(* Types. *)

LEMMA IdleIsDropper == Idle \in Dropper /\ Started \in Dropper
  BY DEF Idle, Started, Dropper

(* A loop with one field changed. *)
LEMMA FieldType ==
    ASSUME NEW d \in [Process -> Dropper], NEW p \in Process
    PROVE  /\ \A s \in {"off", "sleep", "select", "next", "ended"} \union Chunk :
                [d EXCEPT ![p].step = s] \in [Process -> Dropper]
           /\ \A b \in SUBSET Sub : /\ [d EXCEPT ![p].batch = b] \in [Process -> Dropper]
                                   /\ [d EXCEPT ![p].todo = b] \in [Process -> Dropper]
           /\ \A n \in Nat : /\ [d EXCEPT ![p].nonce = n] \in [Process -> Dropper]
                             /\ [d EXCEPT ![p].pending = n] \in [Process -> Dropper]
           /\ \A l \in BOOLEAN : [d EXCEPT ![p].late = l] \in [Process -> Dropper]
  BY DEF Dropper

LEMMA ChunkEndsType ==
    ASSUME TypeOK, NEW p \in Process, ChunkEnds(p)
    PROVE  /\ proc' \in [Process -> Main] /\ drop' \in [Process -> Dropper]
           /\ \A q \in Process \ {p} : drop'[q] = drop[q] /\ proc'[q] = proc[q]
           /\ drop'[p] = [Idle EXCEPT !.step = "next", !.todo = drop[p].todo]
           /\ drop'[p].step = "next" /\ drop'[p].batch = {} /\ drop'[p].todo = drop[p].todo
           /\ proc'[p].phase =
                IF proc[p].phase = "wait" THEN "released" ELSE proc[p].phase
           /\ proc'[p].cancelled = proc[p].cancelled
<1>1. drop \in [Process -> Dropper] /\ proc \in [Process -> Main]
  BY DEF TypeOK
<1>2. [Idle EXCEPT !.step = "next", !.todo = drop[p].todo] \in Dropper
  BY <1>1 DEF Idle, Dropper
<1>3. drop' = [drop EXCEPT ![p] = [Idle EXCEPT !.step = "next", !.todo = drop[p].todo]]
  BY DEF ChunkEnds
<1>4. drop' \in [Process -> Dropper]
  BY <1>1, <1>2, <1>3
<1>5. proc' \in [Process -> Main]
  BY <1>1 DEF ChunkEnds, Main
<1>6. drop'[p] = [Idle EXCEPT !.step = "next", !.todo = drop[p].todo]
  BY <1>1, <1>3
<1>7. drop'[p].step = "next" /\ drop'[p].batch = {} /\ drop'[p].todo = drop[p].todo
  BY <1>6 DEF Idle
<1>8. \A q \in Process \ {p} : drop'[q] = drop[q] /\ proc'[q] = proc[q]
  BY <1>1 DEF ChunkEnds
<1>9. /\ proc'[p].phase = IF proc[p].phase = "wait" THEN "released" ELSE proc[p].phase
      /\ proc'[p].cancelled = proc[p].cancelled
  BY <1>1 DEF ChunkEnds, Main
<1> QED
  BY <1>4, <1>5, <1>6, <1>7, <1>8, <1>9

LEMMA AcceptsType ==
    ASSUME TypeOK, NEW p \in Process, Accepts(p)
    PROVE  /\ txs' \in Seq(Tx) /\ Len(txs') <= MaxTx /\ Len(txs') = Len(txs) + 1
           /\ late' \in [Process -> Nat]
           /\ \A i \in DOMAIN txs :
                /\ i \in DOMAIN txs'
                /\ txs'[i].nonce = txs[i].nonce /\ txs'[i].subs = txs[i].subs
                /\ txs'[i].replaced = (txs[i].replaced \/ i \in Live(drop[p].nonce))
           /\ txs'[Len(txs) + 1].nonce = drop[p].nonce
           /\ txs'[Len(txs) + 1].subs = drop[p].batch
           /\ txs'[Len(txs) + 1].replaced = FALSE
           /\ \A i \in DOMAIN txs' : i \in DOMAIN txs \/ i = Len(txs) + 1
<1> DEFINE old == [i \in DOMAIN txs |->
                     IF i \in Live(drop[p].nonce) THEN [txs[i] EXCEPT !.replaced = TRUE]
                     ELSE txs[i]]
           tx == [nonce |-> drop[p].nonce, subs |-> drop[p].batch, replaced |-> FALSE]
<1>1. Len(txs) \in Nat /\ DOMAIN txs = 1..Len(txs) /\ \A i \in DOMAIN txs : txs[i] \in Tx
  BY DEF TypeOK
<1>2. drop[p] \in Dropper
  BY DEF TypeOK
<1>3. tx \in Tx
  BY <1>2 DEF Tx, Dropper
<1>4. \A i \in DOMAIN txs : old[i] \in Tx
  BY <1>1 DEF Tx
<1>5. old \in Seq(Tx) /\ Len(old) = Len(txs) /\ DOMAIN old = DOMAIN txs
  BY <1>1, <1>4
<1>6. txs' = Append(old, tx) /\ Len(txs) < MaxTx
  BY DEF Accepts
<1>7. txs' \in Seq(Tx) /\ Len(txs') = Len(txs) + 1
  <2> HIDE DEF old, tx
  <2> QED
    BY <1>3, <1>5, <1>6
<1>8. (\A i \in DOMAIN txs : txs'[i] = old[i]) /\ txs'[Len(txs) + 1] = tx
  <2> HIDE DEF old, tx
  <2> QED
    BY <1>1, <1>3, <1>5, <1>6
<1>9. DOMAIN txs' = 1..(Len(txs) + 1)
  BY <1>1, <1>7
<1>10. \A i \in DOMAIN txs :
          /\ txs'[i].nonce = txs[i].nonce /\ txs'[i].subs = txs[i].subs
          /\ txs'[i].replaced = (txs[i].replaced \/ i \in Live(drop[p].nonce))
  <2> SUFFICES ASSUME NEW i \in DOMAIN txs
               PROVE  /\ txs'[i].nonce = txs[i].nonce /\ txs'[i].subs = txs[i].subs
                      /\ txs'[i].replaced = (txs[i].replaced \/ i \in Live(drop[p].nonce))
    OBVIOUS
  <2>1. txs'[i] = old[i] /\ txs[i] \in Tx
    BY <1>1, <1>8
  <2>2. CASE i \in Live(drop[p].nonce)
    <3>1. txs'[i] = [txs[i] EXCEPT !.replaced = TRUE]
      BY <2>1, <2>2
    <3> QED
      BY <2>1, <2>2, <3>1 DEF Tx
  <2>3. CASE i \notin Live(drop[p].nonce)
    <3>1. txs'[i] = txs[i]
      BY <2>1, <2>3
    <3> QED
      BY <2>1, <2>3, <3>1 DEF Tx
  <2> QED
    BY <2>2, <2>3
<1>11. late' \in [Process -> Nat]
  BY DEF Accepts, TypeOK
<1>12. Len(txs') <= MaxTx
  BY <1>1, <1>6, <1>7, BoundAssumption
<1> QED
  BY <1>1, <1>7, <1>8, <1>9, <1>10, <1>11, <1>12

LEMMA TypeInit == Init => TypeOK
<1> SUFFICES ASSUME Init PROVE TypeOK
  OBVIOUS
<1>1. proc \in [Process -> Main]
  BY DEF Init, Main
<1>2. drop \in [Process -> Dropper]
  BY IdleIsDropper DEF Init
<1>3. txs \in Seq(Tx) /\ Len(txs) <= MaxTx
  BY BoundAssumption DEF Init
<1> QED
  BY <1>1, <1>2, <1>3 DEF Init, TypeOK

(* A payout loop takes a step: what is common to the steps that change     *)
(* one field of it.                                                        *)
LEMMA StepType ==
    ASSUME TypeOK, NEW p \in Process,
           NEW s \in {"off", "sleep", "select", "next", "ended"} \union Chunk, Step(p, s)
    PROVE  /\ drop' \in [Process -> Dropper]
           /\ \A q \in Process \ {p} : drop'[q] = drop[q]
           /\ drop'[p] = [drop[p] EXCEPT !.step = s]
           /\ drop'[p].step = s /\ drop'[p].todo = drop[p].todo
           /\ drop'[p].batch = drop[p].batch /\ drop'[p].late = drop[p].late
           /\ drop'[p].nonce = drop[p].nonce /\ drop'[p].pending = drop[p].pending
  BY DEF Step, TypeOK, Dropper

LEMMA EndsType ==
    ASSUME TypeOK, NEW p \in Process, NEW why \in {"kill", "late", "sync", "early"}, Ends(p, why)
    PROVE  /\ proc' \in [Process -> Main] /\ drop' \in [Process -> Dropper]
           /\ cut' \subseteq Sub \X {"kill", "late", "sync", "early", "fault"}
           /\ \A q \in Process \ {p} : drop'[q] = drop[q] /\ proc'[q] = proc[q]
           /\ drop'[p] = Idle /\ proc'[p] = [proc[p] EXCEPT !.phase = "gone"]
           /\ proc'[p].phase = "gone" /\ proc'[p].cancelled = proc[p].cancelled
           /\ drop'[p].step = "off" /\ drop'[p].batch = {} /\ drop'[p].todo = {}
<1>1. proc' \in [Process -> Main] /\ proc'[p] = [proc[p] EXCEPT !.phase = "gone"]
  BY DEF Ends, TypeOK, Main
<1>2. drop' \in [Process -> Dropper] /\ drop'[p] = Idle
  BY IdleIsDropper DEF Ends, TypeOK
<1>3. cut' \subseteq Sub \X {"kill", "late", "sync", "early", "fault"}
  <2>1. drop[p].batch \subseteq Sub
    BY DEF TypeOK, Dropper
  <2> QED
    BY <2>1 DEF Ends, Lost, TypeOK
<1>4. \A q \in Process \ {p} : drop'[q] = drop[q] /\ proc'[q] = proc[q]
  BY DEF Ends, TypeOK
<1>5. proc'[p].phase = "gone" /\ proc'[p].cancelled = proc[p].cancelled
  BY <1>1 DEF TypeOK, Main
<1>6. drop'[p].step = "off" /\ drop'[p].batch = {} /\ drop'[p].todo = {}
  BY <1>2 DEF Idle
<1> QED
  BY <1>1, <1>2, <1>3, <1>4, <1>5, <1>6

LEMMA WhyIsReason ==
    ASSUME NEW p \in Process
    PROVE  Why(p) \in {"late", "sync", "early"}
  BY DEF Why

LEMMA LostIsRecord ==
    ASSUME TypeOK, NEW p \in Process, NEW why \in {"kill", "late", "sync", "early", "fault"}
    PROVE  Lost(p, why) \subseteq Sub \X {"kill", "late", "sync", "early", "fault"}
<1>1. drop[p].batch \subseteq Sub
  BY DEF TypeOK, Dropper
<1> QED
  BY <1>1 DEF Lost

LEMMA TypeStep == TypeOK /\ [Next]_vars => TypeOK'
<1> SUFFICES ASSUME TypeOK, [Next]_vars
             PROVE  TypeOK'
  OBVIOUS
<1> USE DEF shop, history
<1>0. /\ proc \in [Process -> Main] /\ drop \in [Process -> Dropper]
      /\ saved \in Nat /\ filed \subseteq Sub /\ shared \subseteq Sub
  BY DEF TypeOK
<1>1. ASSUME NEW p \in Process, Wake(p) PROVE TypeOK'
  <2>1. drop' \in [Process -> Dropper]
    BY <1>1, StepType DEF Wake
  <2> QED
    BY <1>1, <2>1 DEF Wake, TypeOK
<1>2. ASSUME NEW p \in Process, Select(p) PROVE TypeOK'
  <2>1. drop' \in [Process -> Dropper]
    <3>1. PICK s \in {"sleep", "next"} :
            drop' = [drop EXCEPT ![p].step = s, ![p].todo = Sub \ filed]
      BY <1>2 DEF Select
    <3> QED
      BY ZenonT(60), <1>0, <3>1 DEF Dropper
  <2>2. shared' \subseteq Sub
    BY <1>0, <1>2 DEF Select
  <2> QED
    BY <1>2, <2>1, <2>2 DEF Select, TypeOK
<1>3. ASSUME NEW p \in Process, NextBatch(p) PROVE TypeOK'
  <2>1. drop' \in [Process -> Dropper]
    <3>1. CASE drop[p].todo = {}
      BY <1>3, <3>1, StepType DEF NextBatch
    <3>2. CASE drop[p].todo # {}
      <4>1. PICK b \in SUBSET drop[p].todo \ {{}} :
              drop' = [drop EXCEPT ![p].step = "get", ![p].batch = b, ![p].todo = @ \ b,
                             ![p].late = ~sync /\ proc[p].phase = "released"]
        BY <1>3, <3>2 DEF NextBatch
      <4>2. PICK l \in BOOLEAN : l = (~sync /\ proc[p].phase = "released")
        OBVIOUS
      <4> DEFINE d1 == [drop EXCEPT ![p].step = "get"]
                 d2 == [d1 EXCEPT ![p].batch = b]
                 d3 == [d2 EXCEPT ![p].todo = @ \ b]
                 d4 == [d3 EXCEPT ![p].late = l]
      <4>3. drop' = d4
        BY <4>1, <4>2
      <4>4. b \subseteq Sub
        BY <1>0 DEF Dropper
      <4>5. d1 \in [Process -> Dropper]
        BY <1>0, FieldType DEF Chunk
      <4>6. d2 \in [Process -> Dropper]
        BY <4>4, <4>5, FieldType
      <4>7. d3 \in [Process -> Dropper]
        <5>1. d2[p].todo \ b \in SUBSET Sub
          BY <4>6 DEF Dropper
        <5> HIDE DEF d2
        <5> QED
          BY <4>6, <5>1, FieldType
      <4>8. d4 \in [Process -> Dropper]
        <5> HIDE DEF d3
        <5> QED
          BY <4>2, <4>7, FieldType
      <4> QED
        BY <4>3, <4>8
    <3> QED
      BY <3>1, <3>2
  <2> QED
    BY <1>3, <2>1 DEF NextBatch, TypeOK
<1>4. ASSUME NEW p \in Process, NonceGet(p) PROVE TypeOK'
  <2>1. drop' \in [Process -> Dropper]
    BY ZenonT(60), <1>0, <1>4 DEF NonceGet, Dropper, Chunk, Window
  <2>2. met' \in BOOLEAN
    BY <1>4 DEF NonceGet
  <2> QED
    BY <1>4, <2>1, <2>2 DEF NonceGet, TypeOK
<1>5. ASSUME NEW p \in Process, NonceAsk(p) PROVE TypeOK'
  <2>1. PendingNonceAt \in Nat
    BY PendingIsNonce, BoundAssumption
  <2>2. drop' \in [Process -> Dropper]
    BY ZenonT(60), <1>0, <1>5, <2>1 DEF NonceAsk, Dropper, Chunk, Window
  <2> QED
    BY <1>5, <2>2 DEF NonceAsk, TypeOK
<1>6. ASSUME NEW p \in Process, NonceFails(p) PROVE TypeOK'
  <2>1. trouble' \in Nat
    BY <1>6 DEF NonceFails, Trouble, TypeOK
  <2>2. ChunkEnds(p)
    BY <1>6 DEF NonceFails
  <2> QED
    BY <1>6, <2>1, <2>2, ChunkEndsType DEF NonceFails, TypeOK
<1>7. ASSUME NEW p \in Process, NonceSet(p) PROVE TypeOK'
  <2>1. drop[p].nonce \in Nat /\ drop[p].pending \in Nat
    BY <1>0 DEF Dropper
  <2>2. drop' \in [Process -> Dropper]
    <3>1. PICK n \in Nat :
            drop' = [drop EXCEPT ![p].step = "send", ![p].pending = 0, ![p].nonce = n]
      BY <1>7, <2>1 DEF NonceSet
    <3> DEFINE d1 == [drop EXCEPT ![p].step = "send"]
               d2 == [d1 EXCEPT ![p].pending = 0]
    <3>2. d1 \in [Process -> Dropper]
      BY <1>0, FieldType DEF Chunk, Window
    <3>3. d2 \in [Process -> Dropper]
      <4> HIDE DEF d1
      <4> QED
        BY <3>2, FieldType
    <3>4. drop' = [d2 EXCEPT ![p].nonce = n]
      BY <3>1
    <3> HIDE DEF d2
    <3> QED
      BY <3>3, <3>4, FieldType
  <2>3. saved' \in Nat
    BY <1>0, <1>7, <2>1 DEF NonceSet
  <2> QED
    BY <1>7, <2>2, <2>3 DEF NonceSet, TypeOK
<1>8. ASSUME NEW p \in Process, Send(p) PROVE TypeOK'
  <2>1. drop' \in [Process -> Dropper]
    BY <1>8, StepType DEF Send, Chunk, Window
  <2>2. txs' \in Seq(Tx) /\ Len(txs') <= MaxTx /\ late' \in [Process -> Nat]
    BY <1>8, AcceptsType DEF Send
  <2> QED
    BY <1>8, <2>1, <2>2 DEF Send, TypeOK
<1>9. ASSUME NEW p \in Process, SendLost(p) PROVE TypeOK'
  <2>1. trouble' \in Nat
    BY <1>9 DEF SendLost, Trouble, TypeOK
  <2>2. proc' \in [Process -> Main] /\ drop' \in [Process -> Dropper]
    BY <1>9, ChunkEndsType DEF SendLost
  <2>3. txs' \in Seq(Tx) /\ Len(txs') <= MaxTx /\ late' \in [Process -> Nat]
    BY <1>9, AcceptsType DEF SendLost
  <2>4. cut' \subseteq Sub \X {"kill", "late", "sync", "early", "fault"}
    BY <1>9, WhyIsReason, LostIsRecord DEF SendLost, TypeOK
  <2> QED
    BY <1>9, <2>1, <2>2, <2>3, <2>4 DEF SendLost, TypeOK
<1>10. ASSUME NEW p \in Process, SendRefused(p) PROVE TypeOK'
  <2>1. trouble' \in Nat
    BY <1>10 DEF SendRefused, Trouble, TypeOK
  <2>2. ChunkEnds(p)
    BY <1>10 DEF SendRefused
  <2> QED
    BY <1>10, <2>1, <2>2, ChunkEndsType DEF SendRefused, TypeOK
<1>11. ASSUME NEW p \in Process, NonceIncr(p) PROVE TypeOK'
  <2>1. drop' \in [Process -> Dropper]
    BY <1>11, StepType DEF NonceIncr, Chunk
  <2> QED
    BY <1>0, <1>11, <2>1 DEF NonceIncr, TypeOK
<1>12. ASSUME NEW p \in Process, File(p) PROVE TypeOK'
  <2>1. filed' \subseteq Sub
    BY <1>0, <1>12 DEF File, Dropper
  <2>2. ChunkEnds(p)
    BY <1>12 DEF File
  <2> QED
    BY <1>12, <2>1, <2>2, ChunkEndsType DEF File, TypeOK
<1>13. ASSUME NEW p \in Process, FileFails(p) PROVE TypeOK'
  <2>1. trouble' \in Nat
    BY <1>13 DEF FileFails, Trouble, TypeOK
  <2>2. cut' \subseteq Sub \X {"kill", "late", "sync", "early", "fault"}
    BY <1>13, LostIsRecord DEF FileFails, TypeOK
  <2>3. ChunkEnds(p)
    BY <1>13 DEF FileFails
  <2> QED
    BY <1>13, <2>1, <2>2, <2>3, ChunkEndsType DEF FileFails, TypeOK
<1>14. ASSUME NEW p \in Process, StopDropper(p) PROVE TypeOK'
  <2>1. PICK f \in {"wait", "released"} :
          proc' = [proc EXCEPT ![p].phase = f, ![p].stop = TRUE]
    BY <1>14 DEF StopDropper
  <2>2. proc' \in [Process -> Main]
    BY <1>0, <2>1 DEF Main
  <2> QED
    BY <1>14, <2>2 DEF StopDropper, shop, history, TypeOK
<1>15. ASSUME NEW p \in Process, MainReturns(p) PROVE TypeOK'
  BY <1>15, WhyIsReason, EndsType DEF MainReturns, TypeOK
<1>16. ASSUME NEW p \in Process, Cancel(p) PROVE TypeOK'
  BY <1>0, <1>16 DEF Cancel, Main, TypeOK
<1>17. ASSUME NEW p \in Process, Boot(p) PROVE TypeOK'
  BY <1>0, <1>17, IdleIsDropper DEF Boot, Main, TypeOK
<1>18. ASSUME NEW p \in Process, Terminate(p) PROVE TypeOK'
  BY <1>0, <1>18 DEF Terminate, Main, TypeOK
<1>19. ASSUME NEW p \in Process, Kill(p) PROVE TypeOK'
  <2>1. trouble' \in Nat
    BY <1>19 DEF Kill, Trouble, TypeOK
  <2> QED
    BY <1>19, <2>1, EndsType DEF Kill, TypeOK
<1>20. CASE UNCHANGED vars
  BY <1>20 DEF vars, TypeOK
<1> QED
  BY <1>1, <1>2, <1>3, <1>4, <1>5, <1>6, <1>7, <1>8, <1>9, <1>10, <1>11, <1>12, <1>13,
     <1>14, <1>15, <1>16, <1>17, <1>18, <1>19, <1>20
     DEF Next, Loop, Stopping

(* Every variable keeps its type, for any number of processes,            *)
(* submissions, transactions and faults.                                   *)
THEOREM TypeCorrect == Spec => []TypeOK
  BY TypeInit, TypeStep, PTL DEF Spec

-----------------------------------------------------------------------------
(* What each step of the loop leaves, field by field. *)

Others(p) == \A q \in Process \ {p} : drop'[q] = drop[q]
SameBatch(p) == drop'[p].todo = drop[p].todo /\ drop'[p].batch = drop[p].batch
SameLate(p) == drop'[p].late = drop[p].late

LEMMA SelectFacts ==
    ASSUME TypeOK, NEW p \in Process, Select(p)
    PROVE  /\ Others(p) /\ SameLate(p) /\ drop'[p].step \in {"sleep", "next"}
           /\ drop'[p].todo = Sub \ filed /\ drop'[p].batch = drop[p].batch
<1>1. PICK s \in {"sleep", "next"} :
        drop' = [drop EXCEPT ![p].step = s, ![p].todo = Sub \ filed]
  BY DEF Select
<1>2. drop \in [Process -> Dropper]
  BY DEF TypeOK
<1> QED
  BY <1>1, <1>2 DEF Dropper, Others, SameLate

LEMMA NextBatchFacts ==
    ASSUME TypeOK, NEW p \in Process, NextBatch(p)
    PROVE  /\ Others(p)
           /\ \/ drop'[p].step = "sleep" /\ SameBatch(p) /\ SameLate(p)
              \/ /\ drop'[p].step = "get" /\ drop'[p].batch \subseteq drop[p].todo
                 /\ drop'[p].todo = drop[p].todo \ drop'[p].batch
                 /\ drop'[p].late = (~sync /\ proc[p].phase = "released")
<1>2. drop \in [Process -> Dropper]
  BY DEF TypeOK
<1>3. CASE drop[p].todo = {}
  BY <1>3, StepType DEF NextBatch, Others, SameBatch, SameLate
<1>4. CASE drop[p].todo # {}
  <2>1. PICK b \in SUBSET drop[p].todo \ {{}} :
          drop' = [drop EXCEPT ![p].step = "get", ![p].batch = b, ![p].todo = @ \ b,
                         ![p].late = ~sync /\ proc[p].phase = "released"]
    BY <1>4 DEF NextBatch
  <2>2. /\ drop'[p].step = "get" /\ drop'[p].batch = b /\ drop'[p].todo = drop[p].todo \ b
        /\ drop'[p].late = (~sync /\ proc[p].phase = "released")
    BY <1>2, <2>1 DEF Dropper
  <2>3. Others(p)
    BY <1>2, <2>1 DEF Others
  <2> QED
    BY <2>2, <2>3
<1> QED
  BY <1>3, <1>4

LEMMA NonceGetFacts ==
    ASSUME TypeOK, NEW p \in Process, NonceGet(p)
    PROVE  /\ Others(p) /\ SameBatch(p) /\ SameLate(p)
           /\ drop'[p].step = "ask" /\ drop'[p].nonce = saved
<1>1. drop \in [Process -> Dropper]
  BY DEF TypeOK
<1> QED
  BY <1>1 DEF NonceGet, Dropper, Others, SameBatch, SameLate

LEMMA NonceAskFacts ==
    ASSUME TypeOK, NEW p \in Process, NonceAsk(p)
    PROVE  /\ Others(p) /\ SameBatch(p) /\ SameLate(p)
           /\ drop'[p].step = "set" /\ drop'[p].nonce = drop[p].nonce
           /\ drop'[p].pending = PendingNonceAt
<1>1. drop \in [Process -> Dropper]
  BY DEF TypeOK
<1> QED
  BY <1>1 DEF NonceAsk, Dropper, Others, SameBatch, SameLate

LEMMA NonceSetFacts ==
    ASSUME TypeOK, NEW p \in Process, NonceSet(p)
    PROVE  /\ Others(p) /\ SameBatch(p) /\ SameLate(p)
           /\ drop'[p].step = "send"
           /\ drop'[p].nonce = IF drop[p].nonce < drop[p].pending THEN drop[p].pending
                               ELSE drop[p].nonce
           /\ saved' = IF drop[p].nonce < drop[p].pending THEN drop[p].pending ELSE saved
<1> DEFINE n == IF drop[p].nonce < drop[p].pending THEN drop[p].pending ELSE drop[p].nonce
<1>1. drop \in [Process -> Dropper]
  BY DEF TypeOK
<1>2. drop' = [drop EXCEPT ![p].step = "send", ![p].pending = 0, ![p].nonce = n]
      /\ saved' = IF drop[p].nonce < drop[p].pending THEN drop[p].pending ELSE saved
  BY DEF NonceSet
<1> HIDE DEF n
<1>3. /\ drop'[p].step = "send" /\ drop'[p].nonce = n
      /\ drop'[p].todo = drop[p].todo /\ drop'[p].batch = drop[p].batch
      /\ drop'[p].late = drop[p].late
  BY <1>1, <1>2 DEF Dropper
<1>4. Others(p)
  BY <1>1, <1>2 DEF Others
<1> QED
  BY <1>2, <1>3, <1>4 DEF n, SameBatch, SameLate

(* The steps of main and its environment that leave the loop where it is.  *)
LEMMA MainFacts ==
    ASSUME TypeOK, NEW p \in Process,
           StopDropper(p) \/ Cancel(p) \/ Terminate(p)
    PROVE  /\ UNCHANGED <<sync, drop, shop, history>>
           /\ \A q \in Process \ {p} : proc'[q] = proc[q]
           /\ \/ /\ proc[p].phase = "drain" /\ proc'[p].cancelled = proc[p].cancelled
                 /\ proc'[p].phase = IF Waited(p) THEN "wait" ELSE "released"
              \/ /\ proc[p].phase = "released" /\ proc'[p].phase = "released"
                 /\ proc'[p].cancelled = TRUE
              \/ /\ proc[p].phase = "up" /\ proc'[p].phase = "drain"
                 /\ proc'[p].cancelled = proc[p].cancelled
<1>1. proc \in [Process -> Main]
  BY DEF TypeOK
<1>2. CASE StopDropper(p)
  BY <1>1, <1>2 DEF StopDropper, Main
<1>3. CASE Cancel(p)
  BY <1>1, <1>3 DEF Cancel, Main
<1>4. CASE Terminate(p)
  BY <1>1, <1>4 DEF Terminate, Main
<1> QED
  BY <1>2, <1>3, <1>4

LEMMA BootFacts ==
    ASSUME TypeOK, NEW p \in Process, Boot(p)
    PROVE  /\ UNCHANGED <<sync, shop, history>>
           /\ proc[p].phase = "off" /\ proc'[p].phase = "up"
           /\ proc'[p].cancelled = proc[p].cancelled
           /\ Others(p) /\ \A q \in Process \ {p} : proc'[q] = proc[q]
           /\ drop'[p].step = "select" /\ drop'[p].batch = {} /\ drop'[p].todo = {}
<1>1. proc \in [Process -> Main] /\ drop \in [Process -> Dropper]
  BY DEF TypeOK
<1>2. drop'[p] = Started /\ Others(p)
  BY <1>1 DEF Boot, Others
<1>3. Started.step = "select" /\ Started.batch = {} /\ Started.todo = {}
  BY DEF Started, Idle
<1> QED
  BY <1>1, <1>2, <1>3 DEF Boot, Main

-----------------------------------------------------------------------------
(* The invariants. *)

(* Stop waits only for a chunk; what it leaves of a chunk began later; and *)
(* only a loop in a chunk has a batch.                                     *)
StopPart(p) ==
    /\ proc[p].phase = "wait" => ~sync /\ drop[p].step \in Chunk
    /\ proc[p].phase = "released" /\ ~sync /\ drop[p].step \in Chunk => drop[p].late
    /\ proc[p].phase \in {"off", "gone"} => drop[p].step = "off"
    /\ proc[p].cancelled => proc[p].phase \in {"released", "gone"}
    /\ drop[p].batch # {} => drop[p].step \in Chunk

StopInv == (\A p \in Process : StopPart(p)) /\ StopWaitsForChunk

(* A loop that has sent after cancel() is past the send for good. *)
CancelPart(p) ==
    /\ late[p] <= 1
    /\ ~proc[p].cancelled => late[p] = 0
    /\ late[p] = 1 => drop[p].step \notin {"set", "send"}

CancelInv == \A p \in Process : CancelPart(p)

(* While no two processes have met, nonces are used in order, each once,   *)
(* and the one inside Nonce..Incr knows the counter and the node.          *)
InOrder ==
    /\ \A p, q \in Process : drop[p].step \in Window /\ drop[q].step \in Window => p = q
    /\ \A i \in DOMAIN txs : txs[i].nonce = i - 1 /\ ~txs[i].replaced
    /\ saved <= Len(txs)
    /\ \A p \in Process :
        /\ drop[p].step \in Window => drop[p].nonce = saved
        /\ drop[p].step = "set" => drop[p].pending = Len(txs)
        /\ drop[p].step = "send" => saved = Len(txs)
        /\ drop[p].step = "incr" => Len(txs) = saved + 1

NonceInv == met \/ InOrder

Pays(p, s) == s \in drop[p].batch /\ drop[p].step \in {"incr", "file"}
Sent(s) == {i \in DOMAIN txs : s \in txs[i].subs}
Blamed(s) == s \in shared \/ \E c \in cut : c[1] = s

(* A submission nothing happened to is held by one loop at most, and has   *)
(* a transaction only if it is filed or about to be.                       *)
HeldInv(s) ==
    /\ \A p, q \in Process : s \in Held(p) /\ s \in Held(q) => p = q
    /\ \A p \in Process :
        s \in Held(p) => s \notin filed /\ s \notin drop[p].todo \intersect drop[p].batch
    /\ Sent(s) # {} => s \in filed \/ \E p \in Process : Pays(p, s)
    /\ \A i, j \in Sent(s) : i = j

PayInv == \A s \in Sub : Blamed(s) \/ HeldInv(s)

-----------------------------------------------------------------------------
(* StopInv. *)

LEMMA StopInit == Init => StopInv
<1> SUFFICES ASSUME Init PROVE StopInv
  OBVIOUS
<1>1. ASSUME NEW p \in Process PROVE StopPart(p)
  <2>1. /\ proc[p].phase \in {"up", "off"} /\ (proc[p].phase = "off" => p # Parent)
        /\ proc[p].cancelled = FALSE
    BY DEF Init
  <2>2. drop[p] = IF p = Parent THEN Started ELSE Idle
    BY DEF Init
  <2>3. Idle.step = "off" /\ Idle.batch = {} /\ Started.batch = {}
    BY DEF Idle, Started
  <2> QED
    BY <2>1, <2>2, <2>3 DEF StopPart
<1>2. StopWaitsForChunk
  BY DEF Init, StopWaitsForChunk
<1> QED
  BY <1>1, <1>2 DEF StopInv

(* The others keep their part if only p moves. *)
LEMMA StopFrame ==
    ASSUME StopInv, NEW p \in Process, sync' = sync, Others(p),
           \A q \in Process \ {p} : proc'[q] = proc[q],
           StopPart(p)', \A s \in Sub : <<s, "early">> \in cut' => <<s, "early">> \in cut
    PROVE  StopInv'
<1>1. \A q \in Process \ {p} : StopPart(q)'
  BY DEF StopInv, StopPart, Others, Chunk, Window
<1>2. StopWaitsForChunk'
  BY DEF StopInv, StopWaitsForChunk
<1> QED
  BY <1>1, <1>2 DEF StopInv

(* The chunk or transfer of p ends. *)
LEMMA StopChunkEnds ==
    ASSUME TypeOK, StopInv, NEW p \in Process, ChunkEnds(p), sync' = sync,
           drop[p].step \in Chunk,
           \A s \in Sub : <<s, "early">> \in cut' => <<s, "early">> \in cut
    PROVE  StopInv'
<1>1. StopPart(p)
  BY DEF StopInv
<1>2. StopPart(p)'
  BY <1>1, ChunkEndsType DEF StopPart, Chunk, Window
<1>3. Others(p) /\ \A q \in Process \ {p} : proc'[q] = proc[q]
  BY ChunkEndsType DEF Others
<1> QED
  BY <1>2, <1>3, StopFrame

LEMMA StopEndsBy ==
    ASSUME TypeOK, StopInv, NEW p \in Process, NEW why \in {"kill", "late", "sync", "early"},
           Ends(p, why), sync' = sync,
           why = "early" => drop[p].step \notin Chunk
    PROVE  StopInv'
<1>1. Idle.step = "off" /\ Idle.batch = {}
  BY DEF Idle
<1>2. StopPart(p)'
  BY <1>1, EndsType DEF StopPart
<1>3. \A s \in Sub : <<s, "early">> \in cut' => <<s, "early">> \in cut
  BY DEF Ends, Lost, Chunk, Window
<1>4. Others(p) /\ \A q \in Process \ {p} : proc'[q] = proc[q]
  BY EndsType DEF Others
<1> QED
  BY <1>2, <1>3, <1>4, StopFrame

(* A process whose Stop has waited leaves no chunk behind that it had to   *)
(* wait for.                                                               *)
LEMMA ReleasedIsNotEarly ==
    ASSUME StopInv, NEW p \in Process, proc[p].phase = "released", drop[p].step \in Chunk
    PROVE  Why(p) # "early"
  BY DEF StopInv, StopPart, Why

LEMMA StopStep == TypeOK /\ StopInv /\ [Next]_vars => StopInv'
<1> SUFFICES ASSUME TypeOK, StopInv, [Next]_vars
             PROVE  StopInv'
  OBVIOUS
<1> USE DEF shop, history
<1>0. \A p \in Process : StopPart(p)
  BY DEF StopInv
<1>1. ASSUME NEW p \in Process, Wake(p) PROVE StopInv'
  <2>1. Others(p) /\ drop'[p].step \in {"ended", "select"} /\ SameBatch(p)
    BY <1>1, StepType DEF Wake, Others, SameBatch
  <2>2. StopPart(p)'
    BY <1>0, <1>1, <2>1 DEF Wake, StopPart, SameBatch, Chunk, Window
  <2> QED
    BY <1>1, <2>1, <2>2, StopFrame DEF Wake
<1>2. ASSUME NEW p \in Process, Select(p) PROVE StopInv'
  <2>1. StopPart(p)'
    BY <1>0, <1>2, SelectFacts DEF Select, StopPart, Chunk, Window
  <2> QED
    BY <1>2, <2>1, SelectFacts, StopFrame DEF Select
<1>3. ASSUME NEW p \in Process, NextBatch(p) PROVE StopInv'
  <2>1. StopPart(p)'
    BY <1>0, <1>3, NextBatchFacts DEF NextBatch, StopPart, SameBatch, Chunk, Window
  <2> QED
    BY <1>3, <2>1, NextBatchFacts, StopFrame DEF NextBatch
<1>4. ASSUME NEW p \in Process, NonceGet(p) PROVE StopInv'
  <2>1. StopPart(p)'
    BY <1>0, <1>4, NonceGetFacts DEF NonceGet, StopPart, SameBatch, SameLate, Chunk, Window
  <2> QED
    BY <1>4, <2>1, NonceGetFacts, StopFrame DEF NonceGet
<1>5. ASSUME NEW p \in Process, NonceAsk(p) PROVE StopInv'
  <2>1. StopPart(p)'
    BY ZenonT(60), <1>0, <1>5, NonceAskFacts DEF NonceAsk, StopPart, SameBatch, SameLate, Chunk, Window
  <2> QED
    BY <1>5, <2>1, NonceAskFacts, StopFrame DEF NonceAsk
<1>6. ASSUME NEW p \in Process, NonceFails(p) PROVE StopInv'
  BY <1>6, StopChunkEnds DEF NonceFails, Chunk, Window
<1>7. ASSUME NEW p \in Process, NonceSet(p) PROVE StopInv'
  <2>1. StopPart(p)'
    BY ZenonT(60), <1>0, <1>7, NonceSetFacts DEF NonceSet, StopPart, SameBatch, SameLate, Chunk, Window
  <2> QED
    BY <1>7, <2>1, NonceSetFacts, StopFrame DEF NonceSet
<1>8. ASSUME NEW p \in Process, Send(p) PROVE StopInv'
  <2>1. /\ Others(p) /\ drop'[p].step = "incr" /\ SameBatch(p) /\ SameLate(p)
        /\ proc' = proc /\ cut' = cut /\ sync' = sync /\ drop[p].step = "send"
    BY <1>8, StepType DEF Send, Others, SameBatch, SameLate, Chunk, Window
  <2>2. StopPart(p)'
    BY <1>0, <2>1 DEF StopPart, SameBatch, SameLate, Chunk, Window
  <2> QED
    BY <2>1, <2>2, StopFrame
<1>9. ASSUME NEW p \in Process, SendLost(p) PROVE StopInv'
  <2>1. /\ ChunkEnds(p) /\ drop[p].step \in Chunk /\ sync' = sync
        /\ cut' = cut \union Lost(p, IF proc[p].cancelled THEN Why(p) ELSE "fault")
    BY <1>9 DEF SendLost, Chunk, Window
  <2>2. proc[p].cancelled => Why(p) # "early"
    <3>1. SUFFICES ASSUME proc[p].cancelled PROVE Why(p) # "early"
      OBVIOUS
    <3>2. proc[p].phase \in {"released", "gone"} /\ drop[p].step # "off"
      BY <1>0, <1>9, <3>1 DEF StopPart, SendLost
    <3>3. proc[p].phase = "released"
      BY <1>0, <3>2 DEF StopPart
    <3> QED
      BY <2>1, <3>3, ReleasedIsNotEarly
  <2>3. \A s \in Sub : <<s, "early">> \in cut' => <<s, "early">> \in cut
    BY <2>1, <2>2 DEF Lost
  <2> QED
    BY <2>1, <2>3, StopChunkEnds
<1>10. ASSUME NEW p \in Process, SendRefused(p) PROVE StopInv'
  BY <1>10, StopChunkEnds DEF SendRefused, Chunk, Window
<1>11. ASSUME NEW p \in Process, NonceIncr(p) PROVE StopInv'
  <2>1. /\ Others(p) /\ drop'[p].step = "file" /\ SameBatch(p) /\ SameLate(p)
        /\ proc' = proc /\ cut' = cut /\ sync' = sync /\ drop[p].step = "incr"
    BY <1>11, StepType DEF NonceIncr, Others, SameBatch, SameLate, Chunk, Window
  <2>2. StopPart(p)'
    BY <1>0, <2>1 DEF StopPart, SameBatch, SameLate, Chunk, Window
  <2> QED
    BY <2>1, <2>2, StopFrame
<1>12. ASSUME NEW p \in Process, File(p) PROVE StopInv'
  BY <1>12, StopChunkEnds DEF File, Chunk, Window
<1>13. ASSUME NEW p \in Process, FileFails(p) PROVE StopInv'
  <2>1. \A s \in Sub : <<s, "early">> \in cut' => <<s, "early">> \in cut
    BY <1>13 DEF FileFails, Lost
  <2> QED
    BY <1>13, <2>1, StopChunkEnds DEF FileFails, Chunk, Window
<1>14. ASSUME NEW p \in Process, StopDropper(p) \/ Cancel(p) \/ Terminate(p) PROVE StopInv'
  <2>0. drop' = drop /\ sync' = sync
    BY <1>14, MainFacts
  <2>1. StopPart(p)'
    <3>1. CASE /\ proc[p].phase = "drain" /\ proc'[p].cancelled = proc[p].cancelled
               /\ proc'[p].phase = IF Waited(p) THEN "wait" ELSE "released"
      BY <1>0, <2>0, <3>1 DEF StopPart, Waited
    <3>2. CASE proc[p].phase = "released" /\ proc'[p].phase = "released"
      BY <1>0, <2>0, <3>2 DEF StopPart
    <3>3. CASE /\ proc[p].phase = "up" /\ proc'[p].phase = "drain"
               /\ proc'[p].cancelled = proc[p].cancelled
      BY <1>0, <2>0, <3>3 DEF StopPart
    <3> QED
      BY <1>14, <3>1, <3>2, <3>3, MainFacts
  <2>2. Others(p) /\ sync' = sync /\ cut' = cut /\ \A q \in Process \ {p} : proc'[q] = proc[q]
    BY <1>14, MainFacts DEF Others
  <2> QED
    BY <2>1, <2>2, StopFrame
<1>15. ASSUME NEW p \in Process, MainReturns(p) PROVE StopInv'
  <2>1. Ends(p, Why(p)) /\ proc[p].phase = "released" /\ sync' = sync
    BY <1>15 DEF MainReturns
  <2> QED
    BY <2>1, WhyIsReason, ReleasedIsNotEarly, StopEndsBy
<1>16. ASSUME NEW p \in Process, Boot(p) PROVE StopInv'
  <2>1. StopPart(p)'
    BY <1>0, <1>16, BootFacts DEF StopPart
  <2> QED
    BY <1>16, <2>1, BootFacts, StopFrame
<1>17. ASSUME NEW p \in Process, Kill(p) PROVE StopInv'
  BY <1>17, StopEndsBy DEF Kill
<1>18. CASE UNCHANGED vars
  BY <1>18 DEF vars, StopInv, StopPart, StopWaitsForChunk
<1> QED
  BY <1>1, <1>2, <1>3, <1>4, <1>5, <1>6, <1>7, <1>8, <1>9, <1>10, <1>11, <1>12, <1>13,
     <1>14, <1>15, <1>16, <1>17, <1>18
     DEF Next, Loop, Stopping

(* Airdropper.Stop leaves no chunk behind that was under way when it was   *)
(* called: for any number of processes, restarts and faults.               *)
THEOREM StopIsOrderly == Spec => []StopWaitsForChunk
<1>1. StopInv => StopWaitsForChunk
  BY DEF StopInv
<1> QED
  BY <1>1, TypeInit, TypeStep, StopInit, StopStep, PTL DEF Spec

-----------------------------------------------------------------------------
(* CancelInv. *)

LEMMA CancelInit == Init => CancelInv
  BY DEF Init, CancelInv, CancelPart

LEMMA CancelFrame ==
    ASSUME CancelInv, NEW p \in Process, Others(p),
           \A q \in Process \ {p} : proc'[q] = proc[q] /\ late'[q] = late[q],
           CancelPart(p)'
    PROVE  CancelInv'
  BY DEF CancelInv, CancelPart, Others

(* A step that sends nothing and does not come nearer to a send. *)
LEMMA CancelQuiet ==
    ASSUME CancelInv, NEW p \in Process, Others(p), late' = late,
           \A q \in Process \ {p} : proc'[q] = proc[q],
           proc'[p].cancelled = proc[p].cancelled \/ proc'[p].cancelled,
           drop'[p].step \in {"set", "send"} => drop[p].step = drop'[p].step
    PROVE  CancelInv'
<1>1. CancelPart(p)
  BY DEF CancelInv
<1>2. CancelPart(p)'
  BY <1>1 DEF CancelPart
<1> QED
  BY <1>2, CancelFrame

LEMMA CancelChunkEnds ==
    ASSUME TypeOK, CancelInv, NEW p \in Process, ChunkEnds(p), late' = late
    PROVE  CancelInv'
  BY ZenonT(60), ChunkEndsType, CancelQuiet DEF Others

LEMMA CancelStep == TypeOK /\ CancelInv /\ [Next]_vars => CancelInv'
<1> SUFFICES ASSUME TypeOK, CancelInv, [Next]_vars
             PROVE  CancelInv'
  OBVIOUS
<1> USE DEF shop, history
<1>0. \A p \in Process : CancelPart(p) /\ late[p] \in Nat
  BY DEF CancelInv, TypeOK
<1>1. ASSUME NEW p \in Process, Wake(p) PROVE CancelInv'
  <2>1. Others(p) /\ drop'[p].step \in {"ended", "select"}
    BY <1>1, StepType DEF Wake, Others
  <2> QED
    BY <1>1, <2>1, CancelQuiet DEF Wake
<1>2. ASSUME NEW p \in Process, Select(p) PROVE CancelInv'
  BY <1>2, SelectFacts, CancelQuiet DEF Select
<1>3. ASSUME NEW p \in Process, NextBatch(p) PROVE CancelInv'
  <2>1. drop'[p].step \in {"sleep", "get"} /\ Others(p)
    BY <1>3, NextBatchFacts
  <2> QED
    BY <1>3, <2>1, CancelQuiet DEF NextBatch
<1>4. ASSUME NEW p \in Process, NonceGet(p) PROVE CancelInv'
  BY <1>4, NonceGetFacts, CancelQuiet DEF NonceGet
<1>5. ASSUME NEW p \in Process, NonceAsk(p) PROVE CancelInv'
  <2>1. late[p] = 0 /\ proc' = proc /\ late' = late /\ Others(p)
    BY <1>0, <1>5, NonceAskFacts DEF NonceAsk, CancelPart
  <2>2. CancelPart(p)'
    BY <2>1 DEF CancelPart
  <2> QED
    BY <2>1, <2>2, CancelFrame
<1>6. ASSUME NEW p \in Process, NonceFails(p) PROVE CancelInv'
  BY <1>6, CancelChunkEnds DEF NonceFails
<1>7. ASSUME NEW p \in Process, NonceSet(p) PROVE CancelInv'
  <2>1. /\ late[p] # 1 /\ proc' = proc /\ late' = late /\ Others(p)
    BY <1>0, <1>7, NonceSetFacts DEF NonceSet, CancelPart
  <2>2. CancelPart(p)'
    BY <1>0, <2>1 DEF CancelPart
  <2> QED
    BY <2>1, <2>2, CancelFrame
<1>8. ASSUME NEW p \in Process, Send(p) PROVE CancelInv'
  <2>1. drop'[p].step = "incr" /\ Others(p) /\ proc' = proc /\ late' = late
    BY <1>8, StepType DEF Send, Others, Accepts, Chunk, Window
  <2> QED
    BY <2>1, CancelQuiet
<1>9. ASSUME NEW p \in Process, SendLost(p) PROVE CancelInv'
  <2>1. /\ Others(p) /\ drop'[p].step = "next" /\ proc'[p].cancelled = proc[p].cancelled
        /\ \A q \in Process \ {p} : proc'[q] = proc[q]
    BY <1>9, ChunkEndsType DEF SendLost, Others
  <2>2. late' = IF proc[p].cancelled THEN [late EXCEPT ![p] = @ + 1] ELSE late
    BY <1>9 DEF SendLost, Accepts
  <2>3. late[p] = 0
    <3>1. late[p] # 1 /\ late[p] <= 1
      BY <1>0, <1>9 DEF SendLost, CancelPart
    <3> QED
      BY <1>0, <3>1
  <2>4. late'[p] <= 1 /\ (~proc[p].cancelled => late'[p] = 0)
    BY <2>2, <2>3 DEF TypeOK
  <2>5. \A q \in Process \ {p} : late'[q] = late[q]
    BY <2>2 DEF TypeOK
  <2>6. CancelPart(p)'
    BY <2>1, <2>4 DEF CancelPart
  <2> QED
    BY <2>1, <2>5, <2>6, CancelFrame
<1>10. ASSUME NEW p \in Process, SendRefused(p) PROVE CancelInv'
  BY <1>10, CancelChunkEnds DEF SendRefused
<1>11. ASSUME NEW p \in Process, NonceIncr(p) PROVE CancelInv'
  <2>1. drop'[p].step = "file" /\ Others(p)
    BY <1>11, StepType DEF NonceIncr, Others, Chunk
  <2> QED
    BY <1>11, <2>1, CancelQuiet DEF NonceIncr
<1>12. ASSUME NEW p \in Process, File(p) PROVE CancelInv'
  BY <1>12, CancelChunkEnds DEF File
<1>13. ASSUME NEW p \in Process, FileFails(p) PROVE CancelInv'
  BY <1>13, CancelChunkEnds DEF FileFails
<1>14. ASSUME NEW p \in Process, StopDropper(p) \/ Cancel(p) \/ Terminate(p) PROVE CancelInv'
  <2>1. /\ drop' = drop /\ late' = late /\ \A q \in Process \ {p} : proc'[q] = proc[q]
        /\ proc'[p].cancelled = proc[p].cancelled \/ proc'[p].cancelled
    BY <1>14, MainFacts
  <2> QED
    BY <2>1, CancelQuiet DEF Others
<1>15. ASSUME NEW p \in Process, MainReturns(p) PROVE CancelInv'
  <2>1. Ends(p, Why(p)) /\ late' = late
    BY <1>15 DEF MainReturns
  <2>2. drop'[p].step = "off"
    BY <2>1, EndsType, WhyIsReason
  <2>3. /\ Others(p) /\ proc'[p].cancelled = proc[p].cancelled
        /\ \A q \in Process \ {p} : proc'[q] = proc[q]
    BY <2>1, EndsType, WhyIsReason DEF Others
  <2> QED
    BY <2>1, <2>2, <2>3, CancelQuiet
<1>16. ASSUME NEW p \in Process, Boot(p) PROVE CancelInv'
  BY <1>16, BootFacts, CancelQuiet
<1>17. ASSUME NEW p \in Process, Kill(p) PROVE CancelInv'
  <2>1. Ends(p, "kill") /\ late' = late
    BY <1>17 DEF Kill
  <2>2. drop'[p].step = "off"
    BY <2>1, EndsType
  <2> QED
    BY <2>1, <2>2, EndsType, CancelQuiet DEF Others
<1>18. CASE UNCHANGED vars
  BY <1>18 DEF vars, CancelInv, CancelPart
<1> QED
  BY <1>1, <1>2, <1>3, <1>4, <1>5, <1>6, <1>7, <1>8, <1>9, <1>10, <1>11, <1>12, <1>13,
     <1>14, <1>15, <1>16, <1>17, <1>18
     DEF Next, Loop, Stopping

(* After cancel() a loop sends at most the transaction whose nonce it had. *)
THEOREM OneLateSend == Spec => []OneAfterCancel
<1>1. CancelInv => OneAfterCancel
  BY DEF CancelInv, CancelPart, OneAfterCancel
<1> QED
  BY <1>1, TypeInit, TypeStep, CancelInit, CancelStep, PTL DEF Spec

-----------------------------------------------------------------------------
(* NonceInv. *)

LEMMA PendingIsCount ==
    ASSUME TypeOK, InOrder
    PROVE  PendingNonceAt = Len(txs)
<1>1. Len(txs) \in Nat /\ DOMAIN txs = 1..Len(txs) /\ Len(txs) \in 0..MaxTx /\ MaxTx \in Nat
  BY BoundAssumption DEF TypeOK
<1>2. Live(Len(txs)) = {}
  BY <1>1 DEF Live, InOrder
<1>3. \A m \in 0..(Len(txs) - 1) : Live(m) # {}
  <2> SUFFICES ASSUME NEW m \in 0..(Len(txs) - 1) PROVE m + 1 \in Live(m)
    OBVIOUS
  <2>1. m + 1 \in DOMAIN txs
    BY <1>1
  <2> QED
    BY <1>1, <2>1 DEF Live, InOrder
<1>4. ASSUME NEW n \in 0..MaxTx, Live(n) = {}, \A m \in 0..(n - 1) : Live(m) # {}
      PROVE  n = Len(txs)
  <2>1. ~(n < Len(txs))
    BY <1>1, <1>3, <1>4
  <2>2. ~(Len(txs) < n)
    BY <1>1, <1>2, <1>4
  <2>3. n \in Nat
    BY <1>1
  <2>4. PICK k \in Nat : k = Len(txs)
    BY <1>1
  <2>5. ~(n < k) /\ ~(k < n)
    BY <2>1, <2>2, <2>4
  <2>6. n = k
    BY <2>3, <2>5
  <2> QED
    BY <2>4, <2>6
<1> QED
  BY <1>1, <1>2, <1>3, <1>4 DEF PendingNonceAt

LEMMA NonceInit == Init => NonceInv
<1> SUFFICES ASSUME Init PROVE InOrder
  BY DEF NonceInv
<1>1. \A p \in Process : drop[p].step \notin Window
  BY DEF Init, Started, Idle, Window
<1>2. txs = <<>> /\ saved = 0 /\ Len(txs) = 0
  BY DEF Init
<1> QED
  BY <1>1, <1>2 DEF InOrder, Window

(* A step of a loop that is not inside Nonce..Incr afterwards. *)
LEMMA NonceQuiet ==
    ASSUME NonceInv, NEW p \in Process, Others(p), drop'[p].step \notin Window,
           UNCHANGED <<saved, txs, met>>
    PROVE  NonceInv'
<1>1. CASE met
  BY <1>1 DEF NonceInv
<1>2. CASE InOrder
  <2>1. \A q \in Process : drop'[q].step \in Window => q # p /\ drop'[q] = drop[q]
    BY DEF Others
  <2>2. \A q, r \in Process : drop'[q].step \in Window /\ drop'[r].step \in Window => q = r
    BY <1>2, <2>1 DEF InOrder
  <2> QED
    BY <1>2, <2>1, <2>2 DEF InOrder, NonceInv, Window
<1> QED
  BY <1>1, <1>2 DEF NonceInv

LEMMA NonceChunkEnds ==
    ASSUME TypeOK, NonceInv, NEW p \in Process, ChunkEnds(p), UNCHANGED <<saved, txs, met>>
    PROVE  NonceInv'
  BY ZenonT(60), ChunkEndsType, NonceQuiet DEF Others, Window

(* A step of the loop that is inside, and alone there. *)
LEMMA NonceInside ==
    ASSUME TypeOK, InOrder, NEW p \in Process, Others(p), drop[p].step \in Window,
           met' = met,
           \A i \in DOMAIN txs' : txs'[i].nonce = i - 1 /\ ~txs'[i].replaced,
           saved' <= Len(txs'),
           drop'[p].step \in Window => drop'[p].nonce = saved',
           drop'[p].step = "set" => drop'[p].pending = Len(txs'),
           drop'[p].step = "send" => saved' = Len(txs'),
           drop'[p].step = "incr" => Len(txs') = saved' + 1
    PROVE  NonceInv'
<1>1. \A q \in Process : drop'[q].step \in Window => q = p
  <2> SUFFICES ASSUME NEW q \in Process, drop'[q].step \in Window, q # p
               PROVE  FALSE
    OBVIOUS
  <2>1. drop[q].step \in Window
    BY DEF Others
  <2> QED
    BY <2>1 DEF InOrder
<1> QED
  BY <1>1 DEF InOrder, NonceInv, Window

(* The node takes the next nonce, which no transaction had. *)
LEMMA NonceAccepted ==
    ASSUME TypeOK, InOrder, NEW p \in Process, Accepts(p), drop[p].step = "send"
    PROVE  /\ \A i \in DOMAIN txs' : txs'[i].nonce = i - 1 /\ ~txs'[i].replaced
           /\ Len(txs') = saved + 1 /\ saved <= Len(txs')
<1>1. /\ Len(txs) \in Nat /\ DOMAIN txs = 1..Len(txs) /\ saved \in Nat
      /\ drop[p].nonce = saved /\ saved = Len(txs)
  BY DEF TypeOK, InOrder, Window
<1>2. Live(drop[p].nonce) = {}
  <2> SUFFICES ASSUME NEW i \in DOMAIN txs, txs[i].nonce = Len(txs) PROVE FALSE
    BY <1>1 DEF Live
  <2>1. txs[i].nonce = i - 1 /\ i \in 1..Len(txs)
    BY <1>1 DEF InOrder
  <2> QED
    BY <1>1, <2>1
<1>3. \A i \in DOMAIN txs : txs'[i].nonce = i - 1 /\ ~txs'[i].replaced
  BY <1>2, AcceptsType DEF InOrder
<1>4. txs'[Len(txs) + 1].nonce = Len(txs) /\ ~txs'[Len(txs) + 1].replaced
  BY <1>1, AcceptsType
<1>5. \A i \in DOMAIN txs' : i \in DOMAIN txs \/ i = Len(txs) + 1
  BY AcceptsType
<1>6. Len(txs') = Len(txs) + 1
  BY AcceptsType
<1> QED
  BY <1>1, <1>3, <1>4, <1>5, <1>6

LEMMA NonceStep == TypeOK /\ NonceInv /\ [Next]_vars => NonceInv'
<1> SUFFICES ASSUME TypeOK, NonceInv, [Next]_vars
             PROVE  NonceInv'
  OBVIOUS
<1> USE DEF shop, history
<1>0. Len(txs) \in Nat /\ saved \in Nat
  BY DEF TypeOK
<1>1. ASSUME NEW p \in Process, Wake(p) PROVE NonceInv'
  <2>1. Others(p) /\ drop'[p].step \in {"ended", "select"}
    BY <1>1, StepType DEF Wake, Others
  <2> QED
    BY <1>1, <2>1, NonceQuiet DEF Wake, Window
<1>2. ASSUME NEW p \in Process, Select(p) PROVE NonceInv'
  BY <1>2, SelectFacts, NonceQuiet DEF Select, Window
<1>3. ASSUME NEW p \in Process, NextBatch(p) PROVE NonceInv'
  <2>1. drop'[p].step \in {"sleep", "get"} /\ Others(p)
    BY <1>3, NextBatchFacts
  <2> QED
    BY <1>3, <2>1, NonceQuiet DEF NextBatch, Window
<1>4. ASSUME NEW p \in Process, NonceGet(p) PROVE NonceInv'
  <2>1. CASE met'
    BY <2>1 DEF NonceInv
  <2>2. CASE ~met'
    <3>1. InOrder /\ \A q \in Process \ {p} : drop[q].step \notin Window
      BY <1>4, <2>2 DEF NonceGet, NonceInv
    <3>2. /\ Others(p) /\ drop'[p].step = "ask" /\ drop'[p].nonce = saved
          /\ saved' = saved /\ txs' = txs
      BY <1>4, NonceGetFacts DEF NonceGet
    <3>3. \A q \in Process : drop'[q].step \in Window => q = p
      BY <3>1, <3>2 DEF Others
    <3> QED
      BY <3>1, <3>2, <3>3 DEF InOrder, NonceInv, Window
  <2> QED
    BY <2>1, <2>2
<1>5. ASSUME NEW p \in Process, NonceAsk(p) PROVE NonceInv'
  <2>1. CASE met
    BY <1>5, <2>1 DEF NonceAsk, NonceInv
  <2>2. CASE InOrder
    <3>1. /\ Others(p) /\ drop[p].step \in Window /\ drop'[p].step = "set"
          /\ drop'[p].nonce = saved /\ drop'[p].pending = Len(txs)
          /\ saved' = saved /\ txs' = txs /\ met' = met
      BY <1>5, <2>2, NonceAskFacts, PendingIsCount DEF NonceAsk, InOrder, Window
    <3> QED
      BY <2>2, <3>1, NonceInside DEF InOrder
  <2> QED
    BY <2>1, <2>2 DEF NonceInv
<1>6. ASSUME NEW p \in Process, NonceFails(p) PROVE NonceInv'
  BY <1>6, NonceChunkEnds DEF NonceFails
<1>7. ASSUME NEW p \in Process, NonceSet(p) PROVE NonceInv'
  <2>1. CASE met
    BY <1>7, <2>1 DEF NonceSet, NonceInv
  <2>2. CASE InOrder
    <3>1. drop[p].nonce = saved /\ drop[p].pending = Len(txs) /\ saved <= Len(txs)
      BY <1>7, <2>2 DEF NonceSet, InOrder, Window
    <3>2. /\ Others(p) /\ drop[p].step \in Window /\ drop'[p].step = "send"
          /\ txs' = txs /\ met' = met
      BY <1>7, NonceSetFacts DEF NonceSet, Window
    <3>3. saved' = Len(txs) /\ drop'[p].nonce = Len(txs)
      BY <1>0, <1>7, <3>1, NonceSetFacts
    <3> QED
      BY <1>0, <2>2, <3>2, <3>3, NonceInside DEF InOrder
  <2> QED
    BY <2>1, <2>2 DEF NonceInv
<1>8. ASSUME NEW p \in Process, Send(p) PROVE NonceInv'
  <2>1. CASE met
    BY <1>8, <2>1 DEF Send, NonceInv
  <2>2. CASE InOrder
    <3>1. /\ Others(p) /\ drop[p].step = "send" /\ drop'[p].step = "incr"
          /\ drop'[p].nonce = drop[p].nonce /\ saved' = saved /\ met' = met /\ Accepts(p)
      BY <1>8, StepType DEF Send, Others, Chunk, Window
    <3>2. drop[p].nonce = saved
      BY <2>2, <3>1 DEF InOrder, Window
    <3> QED
      BY <2>2, <3>1, <3>2, NonceAccepted, NonceInside DEF Window
  <2> QED
    BY <2>1, <2>2 DEF NonceInv
<1>9. ASSUME NEW p \in Process, SendLost(p) PROVE NonceInv'
  <2>1. CASE met
    BY <1>9, <2>1 DEF SendLost, NonceInv
  <2>2. CASE InOrder
    <3>1. drop[p].step = "send" /\ saved' = saved /\ met' = met /\ Accepts(p) /\ ChunkEnds(p)
      BY <1>9 DEF SendLost
    <3>2. Others(p) /\ drop'[p].step = "next"
      BY <3>1, ChunkEndsType DEF Others
    <3> QED
      BY <2>2, <3>1, <3>2, NonceAccepted, NonceInside DEF Window
  <2> QED
    BY <2>1, <2>2 DEF NonceInv
<1>10. ASSUME NEW p \in Process, SendRefused(p) PROVE NonceInv'
  BY <1>10, NonceChunkEnds DEF SendRefused
<1>11. ASSUME NEW p \in Process, NonceIncr(p) PROVE NonceInv'
  <2>1. CASE met
    BY <1>11, <2>1 DEF NonceIncr, NonceInv
  <2>2. CASE InOrder
    <3>1. /\ Others(p) /\ drop[p].step = "incr" /\ drop'[p].step = "file"
          /\ saved' = saved + 1 /\ txs' = txs /\ met' = met
      BY <1>11, StepType DEF NonceIncr, Others, Chunk
    <3>2. Len(txs) = saved + 1
      BY <2>2, <3>1 DEF InOrder
    <3> QED
      BY <1>0, <2>2, <3>1, <3>2, NonceInside DEF InOrder, Window
  <2> QED
    BY <2>1, <2>2 DEF NonceInv
<1>12. ASSUME NEW p \in Process, File(p) PROVE NonceInv'
  BY <1>12, NonceChunkEnds DEF File
<1>13. ASSUME NEW p \in Process, FileFails(p) PROVE NonceInv'
  BY <1>13, NonceChunkEnds DEF FileFails
<1>14. ASSUME NEW p \in Process, StopDropper(p) \/ Cancel(p) \/ Terminate(p) PROVE NonceInv'
  <2>1. drop' = drop /\ saved' = saved /\ txs' = txs /\ met' = met
    BY <1>14, MainFacts
  <2> QED
    BY <2>1 DEF NonceInv, InOrder
<1>15. ASSUME NEW p \in Process, MainReturns(p) PROVE NonceInv'
  <2>1. Ends(p, Why(p)) /\ UNCHANGED <<saved, txs, met>>
    BY <1>15 DEF MainReturns
  <2>2. drop'[p].step = "off" /\ Others(p)
    BY <2>1, EndsType, WhyIsReason DEF Others
  <2> QED
    BY <2>1, <2>2, NonceQuiet DEF Window
<1>16. ASSUME NEW p \in Process, Boot(p) PROVE NonceInv'
  BY <1>16, BootFacts, NonceQuiet DEF Window
<1>17. ASSUME NEW p \in Process, Kill(p) PROVE NonceInv'
  <2>1. Ends(p, "kill") /\ UNCHANGED <<saved, txs, met>>
    BY <1>17 DEF Kill
  <2>2. drop'[p].step = "off" /\ Others(p)
    BY <2>1, EndsType DEF Others
  <2> QED
    BY <2>1, <2>2, NonceQuiet DEF Window
<1>18. CASE UNCHANGED vars
  BY <1>18 DEF vars, NonceInv, InOrder
<1> QED
  BY <1>1, <1>2, <1>3, <1>4, <1>5, <1>6, <1>7, <1>8, <1>9, <1>10, <1>11, <1>12, <1>13,
     <1>14, <1>15, <1>16, <1>17, <1>18
     DEF Next, Loop, Stopping

(* Only processes that meet between a nonce and its INCR replace a         *)
(* transaction or push the counter past the node.                          *)
THEOREM NoncesNeedOverlap == Spec => []NonceNeedsOverlap
<1>1. TypeOK /\ NonceInv => NonceNeedsOverlap
  <2> SUFFICES ASSUME TypeOK, NonceInv PROVE NonceNeedsOverlap
    OBVIOUS
  <2>1. CASE met
    BY <2>1 DEF NonceNeedsOverlap
  <2>2. CASE InOrder
    <3>1. PendingNonceAt = Len(txs) /\ saved <= Len(txs) /\ Len(txs) \in Nat /\ saved \in Nat
      BY <2>2, PendingIsCount DEF InOrder, TypeOK
    <3>2. ~(saved > PendingNonceAt)
      BY <3>1
    <3> QED
      BY <2>2, <3>2 DEF NonceNeedsOverlap, InOrder
  <2> QED
    BY <2>1, <2>2 DEF NonceInv
<1> QED
  BY <1>1, TypeInit, TypeStep, NonceInit, NonceStep, PTL DEF Spec

-----------------------------------------------------------------------------
(* PayInv. *)

LEMMA PayInit == Init => PayInv
<1> SUFFICES ASSUME Init, NEW s \in Sub PROVE HeldInv(s)
  BY DEF PayInv
<1>1. \A p \in Process : drop[p].todo = {} /\ drop[p].batch = {}
  BY DEF Init, Started, Idle
<1>2. Sent(s) = {}
  BY DEF Init, Sent
<1> QED
  BY <1>1, <1>2 DEF HeldInv, Held

(* What a loop holds and does not pay at the moment has no transaction.    *)
LEMMA HeldIsUnsent ==
    ASSUME NEW s \in Sub, HeldInv(s), NEW p \in Process, s \in Held(p), ~Pays(p, s)
    PROVE  Sent(s) = {}
<1>1. \A q \in Process : Pays(q, s) => q = p
  BY DEF HeldInv, Held, Pays
<1> QED
  BY <1>1 DEF HeldInv

(* The loop keeps what it holds, and goes on paying what it pays. *)
LEMMA PayKeeps ==
    ASSUME PayInv, NEW p \in Process, Others(p), SameBatch(p),
           drop[p].step \in {"incr", "file"} => drop'[p].step \in {"incr", "file"},
           UNCHANGED <<filed, txs, shared, cut>>
    PROVE  PayInv'
<1> SUFFICES ASSUME NEW s \in Sub, HeldInv(s) PROVE HeldInv(s)'
  BY DEF PayInv, Blamed
<1>1. \A q \in Process : /\ drop'[q].todo = drop[q].todo /\ drop'[q].batch = drop[q].batch
                         /\ Pays(q, s) => Pays(q, s)'
  BY DEF Others, SameBatch, Pays
<1>2. \A q \in Process : Held(q)' = Held(q)
  BY <1>1 DEF Held
<1>3. Sent(s)' = Sent(s)
  BY DEF Sent
<1> QED
  BY <1>1, <1>2, <1>3 DEF HeldInv

(* The loop lets its batch go, and nothing that it was paying is left      *)
(* without a reason.                                                       *)
LEMMA PayDrops ==
    ASSUME PayInv, NEW p \in Process, Others(p),
           drop'[p].batch = {}, drop'[p].todo \subseteq drop[p].todo,
           UNCHANGED <<filed, txs, shared>>, cut \subseteq cut',
           drop[p].step \in {"incr", "file"} =>
               \A s \in drop[p].batch : \E c \in cut' : c[1] = s
    PROVE  PayInv'
<1> SUFFICES ASSUME NEW s \in Sub, HeldInv(s), ~Blamed(s)' PROVE HeldInv(s)'
  BY DEF PayInv, Blamed
<1>1. ~Pays(p, s)
  BY DEF Pays, Blamed
<1>2. \A q \in Process : Held(q)' \subseteq Held(q) /\ (Pays(q, s) => Pays(q, s)')
  BY <1>1 DEF Others, Held, Pays
<1>3. \A q \in Process : drop'[q].todo \intersect drop'[q].batch
                            \subseteq drop[q].todo \intersect drop[q].batch
  BY DEF Others
<1>4. Sent(s)' = Sent(s)
  BY DEF Sent
<1> QED
  BY <1>2, <1>3, <1>4 DEF HeldInv

(* The chunk ends before its transaction was sent, or with a reason.       *)
LEMMA PayChunkEnds ==
    ASSUME TypeOK, PayInv, NEW p \in Process, ChunkEnds(p),
           UNCHANGED <<filed, txs, shared>>, cut \subseteq cut',
           drop[p].step \in {"incr", "file"} =>
               \A s \in drop[p].batch : \E c \in cut' : c[1] = s
    PROVE  PayInv'
  BY ChunkEndsType, PayDrops DEF Others

LEMMA PayEnds ==
    ASSUME TypeOK, PayInv, NEW p \in Process, NEW why \in {"kill", "late", "sync", "early"},
           Ends(p, why), UNCHANGED <<filed, txs, shared>>
    PROVE  PayInv'
<1>1. Others(p) /\ drop'[p].batch = {} /\ drop'[p].todo = {}
  BY EndsType DEF Others
<1>2. cut \subseteq cut'
  BY DEF Ends
<1>3. ASSUME drop[p].step \in {"incr", "file"}, NEW s \in drop[p].batch
      PROVE  \E c \in cut' : c[1] = s
  <2>1. <<s, why>> \in cut'
    BY <1>3 DEF Ends, Lost
  <2> QED
    BY <2>1
<1> QED
  BY <1>1, <1>2, <1>3, PayDrops

LEMMA AcceptsSends ==
    ASSUME TypeOK, NEW p \in Process, Accepts(p), NEW s \in Sub
    PROVE  /\ s \notin drop[p].batch => Sent(s)' = Sent(s)
           /\ s \in drop[p].batch => Sent(s)' = Sent(s) \union {Len(txs) + 1}
<1>1. \A i \in DOMAIN txs : i \in DOMAIN txs' /\ txs'[i].subs = txs[i].subs
  BY AcceptsType
<1>2. txs'[Len(txs) + 1].subs = drop[p].batch
  BY AcceptsType
<1>3. \A i \in DOMAIN txs' : i \in DOMAIN txs \/ i = Len(txs) + 1
  BY AcceptsType
<1>4. Len(txs) + 1 \in DOMAIN txs' /\ Len(txs) + 1 \notin DOMAIN txs
  <2>1. DOMAIN txs = 1..Len(txs) /\ Len(txs) \in Nat
    BY DEF TypeOK
  <2>2. txs' \in Seq(Tx) /\ Len(txs') = Len(txs) + 1
    BY AcceptsType
  <2>3. DOMAIN txs' = 1..(Len(txs) + 1)
    BY <2>2
  <2> QED
    BY <2>1, <2>3
<1> QED
  BY <1>1, <1>2, <1>3, <1>4 DEF Sent

LEMMA PayStep == TypeOK /\ StopInv /\ PayInv /\ [Next]_vars => PayInv'
<1> SUFFICES ASSUME TypeOK, StopInv, PayInv, [Next]_vars
             PROVE  PayInv'
  OBVIOUS
<1> USE DEF shop, history
<1>0. \A p \in Process : drop[p].step \notin Chunk => drop[p].batch = {}
  BY DEF StopInv, StopPart
<1>1. ASSUME NEW p \in Process, Wake(p) PROVE PayInv'
  <2>1. Others(p) /\ SameBatch(p) /\ drop[p].step = "sleep"
    BY <1>1, StepType DEF Wake, Others, SameBatch
  <2> QED
    BY <1>1, <2>1, PayKeeps DEF Wake
<1>2. ASSUME NEW p \in Process, Select(p) PROVE PayInv'
  <2>1. /\ Others(p) /\ drop[p].batch = {} /\ drop'[p].batch = {}
        /\ drop'[p].todo = Sub \ filed
    BY <1>0, <1>2, SelectFacts DEF Select, Chunk, Window
  <2>2. /\ filed' = filed /\ txs' = txs /\ cut' = cut
        /\ shared' = shared \union ((Sub \ filed) \intersect UNION {Held(q) : q \in Process \ {p}})
    BY <1>2 DEF Select
  <2> SUFFICES ASSUME NEW s \in Sub, HeldInv(s), ~Blamed(s)' PROVE HeldInv(s)'
    BY <2>2 DEF PayInv, Blamed
  <2>3. \A q \in Process \ {p} : /\ drop'[q] = drop[q] /\ Held(q)' = Held(q)
                                 /\ Pays(q, s) => Pays(q, s)'
    BY <2>1 DEF Others, Held, Pays
  <2>4. ~Pays(p, s) /\ Held(p)' = Sub \ filed
    BY <2>1 DEF Pays, Held
  <2>5. ASSUME s \notin filed PROVE \A q \in Process \ {p} : s \notin Held(q)
    BY <2>2, <2>5 DEF Blamed
  <2>6. Sent(s)' = Sent(s)
    BY <2>2 DEF Sent
  <2>7. \A q, r \in Process : s \in Held(q)' /\ s \in Held(r)' => q = r
    BY <2>3, <2>4, <2>5 DEF HeldInv
  <2>8. \A q \in Process : s \in Held(q)' =>
            s \notin filed' /\ s \notin drop'[q].todo \intersect drop'[q].batch
    BY <2>1, <2>2, <2>3, <2>4 DEF HeldInv
  <2>9. Sent(s)' # {} => s \in filed' \/ \E q \in Process : Pays(q, s)'
    BY <2>2, <2>3, <2>4, <2>6 DEF HeldInv
  <2> QED
    BY <2>6, <2>7, <2>8, <2>9 DEF HeldInv
<1>3. ASSUME NEW p \in Process, NextBatch(p) PROVE PayInv'
  <2>1. /\ Others(p) /\ drop[p].batch = {} /\ filed' = filed /\ txs' = txs /\ cut' = cut
        /\ shared' = shared
    BY <1>0, <1>3, NextBatchFacts DEF NextBatch, Chunk, Window
  <2>2. /\ drop'[p].todo \union drop'[p].batch = drop[p].todo
        /\ drop'[p].todo \intersect drop'[p].batch = {}
    BY <1>3, <2>1, NextBatchFacts DEF SameBatch
  <2> SUFFICES ASSUME NEW s \in Sub, HeldInv(s) PROVE HeldInv(s)'
    BY <2>1 DEF PayInv, Blamed
  <2>3. \A q \in Process : Held(q)' = Held(q)
    BY <2>1, <2>2 DEF Held, Others
  <2>4. \A q \in Process : /\ Pays(q, s) => Pays(q, s)'
                           /\ drop'[q].todo \intersect drop'[q].batch
                                \subseteq drop[q].todo \intersect drop[q].batch
    BY <2>1, <2>2 DEF Pays, Others
  <2>5. Sent(s)' = Sent(s)
    BY <2>1 DEF Sent
  <2> QED
    BY <2>1, <2>3, <2>4, <2>5 DEF HeldInv
<1>4. ASSUME NEW p \in Process, NonceGet(p) PROVE PayInv'
  BY <1>4, NonceGetFacts, PayKeeps DEF NonceGet
<1>5. ASSUME NEW p \in Process, NonceAsk(p) PROVE PayInv'
  BY <1>5, NonceAskFacts, PayKeeps DEF NonceAsk
<1>6. ASSUME NEW p \in Process, NonceFails(p) PROVE PayInv'
  BY <1>6, PayChunkEnds DEF NonceFails
<1>7. ASSUME NEW p \in Process, NonceSet(p) PROVE PayInv'
  BY <1>7, NonceSetFacts, PayKeeps DEF NonceSet
<1>8. ASSUME NEW p \in Process, Send(p) PROVE PayInv'
  <2>1. /\ Others(p) /\ SameBatch(p) /\ drop[p].step = "send" /\ drop'[p].step = "incr"
        /\ Accepts(p) /\ UNCHANGED <<filed, shared, cut>>
    BY <1>8, StepType DEF Send, Others, SameBatch, Chunk, Window
  <2> SUFFICES ASSUME NEW s \in Sub, HeldInv(s) PROVE HeldInv(s)'
    BY <2>1 DEF PayInv, Blamed
  <2>2. \A q \in Process : /\ drop'[q].todo = drop[q].todo /\ drop'[q].batch = drop[q].batch
                           /\ Pays(q, s) => Pays(q, s)'
    BY <2>1 DEF Others, SameBatch, Pays
  <2>3. \A q \in Process : Held(q)' = Held(q)
    BY <2>2 DEF Held
  <2>4. CASE s \notin drop[p].batch
    <3>1. Sent(s)' = Sent(s)
      BY <2>1, <2>4, AcceptsSends
    <3> QED
      BY <2>1, <2>2, <2>3, <3>1 DEF HeldInv
  <2>5. CASE s \in drop[p].batch
    <3>1. Sent(s) = {}
      BY <2>1, <2>5, HeldIsUnsent DEF Held, Pays
    <3>2. Sent(s)' = {Len(txs) + 1}
      BY <2>1, <2>5, <3>1, AcceptsSends
    <3>3. Pays(p, s)'
      BY <2>1, <2>5 DEF Pays, SameBatch
    <3> QED
      BY <2>1, <2>2, <2>3, <3>2, <3>3 DEF HeldInv
  <2> QED
    BY <2>4, <2>5
<1>9. ASSUME NEW p \in Process, SendLost(p) PROVE PayInv'
  <2>1. /\ ChunkEnds(p) /\ Accepts(p) /\ drop[p].step = "send"
        /\ filed' = filed /\ shared' = shared
        /\ cut' = cut \union Lost(p, IF proc[p].cancelled THEN Why(p) ELSE "fault")
    BY <1>9 DEF SendLost
  <2>2. Others(p) /\ drop'[p].batch = {} /\ drop'[p].todo = drop[p].todo
    BY <2>1, ChunkEndsType DEF Others
  <2> SUFFICES ASSUME NEW s \in Sub, HeldInv(s), ~Blamed(s)' PROVE HeldInv(s)'
    BY <2>1 DEF PayInv, Blamed
  <2>3. s \notin drop[p].batch
    <3> SUFFICES ASSUME s \in drop[p].batch PROVE \E c \in cut' : c[1] = s
      BY DEF Blamed
    <3>1. \E why \in {"late", "sync", "early", "fault"} : <<s, why>> \in cut'
      BY <2>1, WhyIsReason DEF Lost
    <3> QED
      BY <3>1
  <2>4. Sent(s)' = Sent(s)
    BY <2>1, <2>3, AcceptsSends
  <2>5. \A q \in Process : /\ Held(q)' \subseteq Held(q) /\ (Pays(q, s) => Pays(q, s)')
                           /\ drop'[q].todo \intersect drop'[q].batch
                                \subseteq drop[q].todo \intersect drop[q].batch
    BY <2>2, <2>3 DEF Others, Held, Pays
  <2> QED
    BY <2>1, <2>4, <2>5 DEF HeldInv
<1>10. ASSUME NEW p \in Process, SendRefused(p) PROVE PayInv'
  BY <1>10, PayChunkEnds DEF SendRefused
<1>11. ASSUME NEW p \in Process, NonceIncr(p) PROVE PayInv'
  <2>1. Others(p) /\ SameBatch(p) /\ drop'[p].step = "file"
    BY <1>11, StepType DEF NonceIncr, Others, SameBatch, Chunk
  <2> QED
    BY <1>11, <2>1, PayKeeps DEF NonceIncr
<1>12. ASSUME NEW p \in Process, File(p) PROVE PayInv'
  <2>1. /\ ChunkEnds(p) /\ filed' = filed \union drop[p].batch
        /\ UNCHANGED <<txs, shared, cut>>
    BY <1>12 DEF File
  <2>2. Others(p) /\ drop'[p].batch = {} /\ drop'[p].todo = drop[p].todo
    BY <2>1, ChunkEndsType DEF Others
  <2> SUFFICES ASSUME NEW s \in Sub, HeldInv(s) PROVE HeldInv(s)'
    BY <2>1 DEF PayInv, Blamed
  <2>3. Sent(s)' = Sent(s)
    BY <2>1 DEF Sent
  <2>4. \A q \in Process : Held(q)' \subseteq Held(q)
    BY <2>2 DEF Others, Held
  <2>5. \A q \in Process : s \in Held(q)' => s \notin filed'
    <3> SUFFICES ASSUME NEW q \in Process, s \in Held(q)', s \in drop[p].batch PROVE FALSE
      BY <2>1, <2>4 DEF HeldInv
    <3>1. s \in Held(q) /\ s \in Held(p) /\ s \notin drop[p].todo
      BY <2>4 DEF HeldInv, Held
    <3>2. q = p
      BY <3>1 DEF HeldInv
    <3> QED
      BY <2>2, <3>1, <3>2 DEF Held
  <2>6. \A q \in Process : drop'[q].todo \intersect drop'[q].batch
                              \subseteq drop[q].todo \intersect drop[q].batch
    BY <2>2 DEF Others
  <2>7. \A q \in Process : Pays(q, s) => s \in filed' \/ Pays(q, s)'
    BY <2>1, <2>2 DEF Others, Pays
  <2>8. \A q, r \in Process : s \in Held(q)' /\ s \in Held(r)' => q = r
    BY <2>4 DEF HeldInv
  <2>9. \A q \in Process : s \in Held(q)' =>
            s \notin filed' /\ s \notin drop'[q].todo \intersect drop'[q].batch
    BY <2>4, <2>5, <2>6 DEF HeldInv
  <2>10. Sent(s)' # {} => s \in filed' \/ \E q \in Process : Pays(q, s)'
    BY <2>1, <2>3, <2>7 DEF HeldInv
  <2> QED
    BY <2>3, <2>8, <2>9, <2>10 DEF HeldInv
<1>13. ASSUME NEW p \in Process, FileFails(p) PROVE PayInv'
  <2>1. ChunkEnds(p) /\ UNCHANGED <<filed, txs, shared>> /\ cut' = cut \union Lost(p, "fault")
    BY <1>13 DEF FileFails
  <2>2. ASSUME NEW s \in drop[p].batch PROVE \E c \in cut' : c[1] = s
    <3>1. <<s, "fault">> \in cut'
      BY <2>1 DEF Lost
    <3> QED
      BY <3>1
  <2> QED
    BY <2>1, <2>2, PayChunkEnds
<1>14. ASSUME NEW p \in Process, StopDropper(p) \/ Cancel(p) \/ Terminate(p) PROVE PayInv'
  <2>1. drop' = drop /\ UNCHANGED <<filed, txs, shared, cut>>
    BY <1>14, MainFacts
  <2> QED
    BY <2>1, PayKeeps DEF Others, SameBatch
<1>15. ASSUME NEW p \in Process, MainReturns(p) PROVE PayInv'
  BY <1>15, WhyIsReason, PayEnds DEF MainReturns
<1>16. ASSUME NEW p \in Process, Boot(p) PROVE PayInv'
  <2>1. drop[p].step = "off"
    BY <1>16, BootFacts DEF StopInv, StopPart
  <2> QED
    BY <1>16, <2>1, BootFacts, PayDrops
<1>17. ASSUME NEW p \in Process, Kill(p) PROVE PayInv'
  BY <1>17, PayEnds DEF Kill
<1>18. CASE UNCHANGED vars
  BY <1>18 DEF vars, PayInv, HeldInv, Blamed, Sent, Pays, Held
<1> QED
  BY <1>1, <1>2, <1>3, <1>4, <1>5, <1>6, <1>7, <1>8, <1>9, <1>10, <1>11, <1>12, <1>13,
     <1>14, <1>15, <1>16, <1>17, <1>18
     DEF Next, Loop, Stopping

(* Nobody is paid twice unless the record of a payment was lost or two     *)
(* processes held the submission: for any number of processes and faults.  *)
THEOREM SecondPaymentsExplained == Spec => []PaidTwiceHasCause
<1>1. TypeOK /\ StopInv /\ PayInv => PaidTwiceHasCause
  <2> SUFFICES ASSUME TypeOK, StopInv, PayInv,
                      NEW s \in Sub, Cardinality(Payments(s)) > 1
               PROVE  s \in shared \/ \E why \in {"kill", "late", "sync", "fault"} : <<s, why>> \in cut
    BY DEF PaidTwiceHasCause
  <2>1. ~HeldInv(s)
    <3> SUFFICES ASSUME HeldInv(s) PROVE FALSE
      OBVIOUS
    <3>1. Payments(s) \subseteq Sent(s)
      BY DEF Payments, Sent
    <3>2. \A i, j \in Payments(s) : i = j
      BY <3>1 DEF HeldInv
    <3>3. CASE Payments(s) = {}
      BY <3>3, FS_EmptySet
    <3>4. CASE Payments(s) # {}
      <4>1. PICK i \in Payments(s) : Payments(s) = {i}
        BY <3>2, <3>4
      <4>2. Cardinality({i}) = 1
        BY FS_Singleton
      <4> QED
        BY <4>1, <4>2
    <3> QED
      BY <3>3, <3>4
  <2>2. Blamed(s)
    BY <2>1 DEF PayInv
  <2>3. ASSUME NEW c \in cut, c[1] = s
        PROVE  \E why \in {"kill", "late", "sync", "fault"} : <<s, why>> \in cut
    <3>1. PICK why \in {"kill", "late", "sync", "early", "fault"} : c = <<s, why>>
      BY <2>3 DEF TypeOK
    <3>2. why # "early"
      BY <2>3, <3>1 DEF StopInv, StopWaitsForChunk
    <3> QED
      BY <2>3, <3>1, <3>2
  <2> QED
    BY <2>2, <2>3 DEF Blamed
<1> QED
  BY <1>1, TypeInit, TypeStep, StopInit, StopStep, PayInit, PayStep, PTL DEF Spec
===============================================================================
