---------------------------- MODULE ValuesProofs ----------------------------
(***************************************************************************)
(* Proofs about the parts of MCValues: how a packet is cut, for every      *)
(* width of the integers, every amount and every number of recipients; how *)
(* long a token lives, for every timeout, refresh window and set of users; *)
(* how codes are written and read, for every base and length; and how      *)
(* links are, for every message and every size of a byte and a buffer.     *)
(***************************************************************************)
EXTENDS MCValues, FiniteSetTheorems, WellFoundedInduction, SequenceTheorems, TLAPS

(***************************************************************************)
(* The cut of a packet.  The inductive invariant says what the loop of     *)
(* Generate keeps: with k slots to come after the next one, k units are    *)
(* left (so the difference does not wrap), and 2 * k if there were that    *)
(* many to begin with (so the safe maximum is not below the minimum).      *)
(***************************************************************************)

(* Facts about division that the provers find only on their own.           *)
LEMMA DivFacts ==
    ASSUME NEW x \in Nat, NEW k \in Nat \ {0}
    PROVE  x \div k \in Nat /\ (x \div k) * k <= x /\ x \div k <= x
  OBVIOUS

LEMMA ModFacts ==
    ASSUME NEW x \in Int, NEW m \in Nat \ {0}
    PROVE  x % m \in 0..(m - 1) /\ (x \in 0..(m - 1) => x % m = x)
  OBVIOUS

(* As much is left as is needed to give k people twice the minimum: the    *)
(* quotient is at least the minimum.                                       *)
LEMMA DivAtLeastOne ==
    ASSUME NEW x \in Nat, NEW k \in Nat \ {0}, x >= k
    PROVE  x \div k >= 1
  OBVIOUS

(* A share of what is left leaves twice the minimum for one person less.   *)
LEMMA ShareLeavesTwice ==
    ASSUME NEW left_ \in Nat, NEW k \in Nat \ {0}, NEW q \in Nat,
           left_ >= q * k + k, q >= 1
    PROVE  left_ - q >= 2 * (k - 1) /\ left_ - q >= k /\ left_ - q >= 1
  <1>1. q * k = q * (k - 1) + q
    OBVIOUS
  <1>2. q * (k - 1) >= k - 1
    OBVIOUS
  <1> QED
    BY <1>1, <1>2

(* Units and recorded amount of a request.                                 *)
LEMMA AmountFacts ==
    ASSUME NEW p \in Packet, Enough(p), NEW u \in Units(p), NEW rec \in Recorded(p)
    PROVE  /\ u \in 1..(Word - 1) /\ rec \in Nat
           /\ ~p.coarse => u <= rec /\ rec - u <= 1
  <1> USE WordAssumption, MinAssumption, RequestAssumption DEF Packet
  <1>1. p.amount \in 0..(2 * Word - 1) /\ p.coarse \in BOOLEAN
    OBVIOUS
  <1>2. rec \in Nat
    BY <1>1 DEF Recorded
  <1>3. CASE p.coarse
    <2> DEFINE d == 2 * Pow40
    <2>1. d \in Nat \ {0} /\ d >= 2
      OBVIOUS
    <2>2. u = p.amount \div d
      BY <1>3 DEF Units
    <2>7. MinCoarse * 2 * Pow40 = MinCoarse * d
      OBVIOUS
    <2> HIDE DEF d
    <2>3. u \in Nat /\ u * d <= p.amount
      BY <1>1, <2>1, <2>2, DivFacts
    <2>4. u * d >= u * 2
      BY <2>1, <2>3
    <2>5. u <= Word - 1
      <3>1. 2 * u <= p.amount
        <4>1. u * d \in Nat
          BY <2>1, <2>3
        <4> QED
          BY <1>1, <2>3, <2>4, <4>1
      <3> QED
        BY <1>1, <2>3, <3>1
    <2>6. p.amount >= d
      <3>1. p.amount >= MinCoarse * 2 * Pow40
        BY <1>3 DEF Enough
      <3>3. MinCoarse * d >= d
        BY <2>1
      <3> QED
        BY <1>1, <2>1, <2>7, <3>1, <3>3
    <2>8. u >= 1
      BY <1>1, <2>1, <2>2, <2>6, DivAtLeastOne
    <2> QED
      BY <1>2, <1>3, <2>3, <2>5, <2>8
  <1>4. CASE ~p.coarse
    BY <1>1, <1>2, <1>4 DEF Units, Recorded, Enough
  <1> QED
    BY <1>3, <1>4

(* A request that is refused has units of the right width too.             *)
LEMMA RefusedTypes ==
    ASSUME NEW p \in Packet, NEW u \in Units(p), NEW rec \in Recorded(p)
    PROVE  u \in 0..(Word - 1) /\ rec \in Nat
  <1> USE WordAssumption, RequestAssumption DEF Packet
  <1>1. p.amount \in 0..(2 * Word - 1) /\ p.coarse \in BOOLEAN
    OBVIOUS
  <1>2. CASE p.coarse
    <2> DEFINE d == 2 * Pow40
    <2>1. d \in Nat /\ d >= 2
      OBVIOUS
    <2>2. u = p.amount \div d
      BY <1>2 DEF Units
    <2> HIDE DEF d
    <2>3. u \in Nat /\ u * d <= p.amount
      BY <1>1, <2>1, <2>2, DivFacts
    <2>4. u * d \in Nat /\ u * d >= u * 2
      BY <2>1, <2>3
    <2>5. 2 * u <= p.amount
      BY <1>1, <2>3, <2>4
    <2> QED
      BY <1>1, <2>3, <2>5 DEF Recorded
  <1>3. CASE ~p.coarse
    BY <1>1, <1>3 DEF Units, Recorded
  <1> QED
    BY <1>2, <1>3

(* What Lo, Hi and Panics come to when the difference does not wrap.       *)
LEMMA DrawFacts ==
    ASSUME NEW total \in 0..(Word - 1), NEW k \in Nat \ {0}, total >= k,
           NEW money \in Lo(Safe(total, k))..Hi(Safe(total, k))
    PROVE  /\ Safe(total, k) \in Nat /\ Safe(total, k) * k + k <= total
           /\ money \in Nat /\ money <= total /\ total - money >= k - 1
           /\ total >= 2 * k => /\ money >= 1
                                /\ total - money >= 2 * (k - 1) /\ total - money >= 1
  <1> DEFINE q == Safe(total, k)
  <1> USE WordAssumption
  <1>1. total - k \in 0..(Word - 1)
    OBVIOUS
  <1>2. q = (total - k) \div k
    <2>1. Word \in Nat \ {0} /\ total - k \in Int
      OBVIOUS
    <2>2. (total - k) % Word = total - k
      BY <1>1, <2>1, ModFacts
    <2> QED
      BY <2>2 DEF Safe
  <1>3. q \in Nat /\ q * k <= total - k /\ q <= total - k
    BY <1>1, <1>2, DivFacts
  <1>4. q * k \in Nat /\ q * k + k <= total
    BY <1>3
  <1> HIDE DEF q
  <1>5. CASE q = 0
    <2>1. money \in 0..1
      BY <1>5 DEF Lo, Hi, q
    <2>2. total < 2 * k
      <3>1. SUFFICES ASSUME total >= 2 * k PROVE FALSE
        BY <1>1
      <3>2. total - k \in Nat /\ total - k >= k
        BY <1>1, <3>1
      <3> QED
        BY <1>2, <1>5, <3>2, DivAtLeastOne
    <2> QED
      BY <1>3, <1>4, <2>1, <2>2 DEF q
  <1>6. CASE q >= 1
    <2>1. money \in 1..q
      BY <1>3, <1>6 DEF Lo, Hi, q
    <2>2. total - q >= 2 * (k - 1) /\ total - q >= k /\ total - q >= 1
      BY <1>3, <1>4, <1>6, ShareLeavesTwice
    <2>3. total - money >= total - q
      BY <1>3, <2>1
    <2> QED
      BY <1>3, <1>4, <2>1, <2>2, <2>3 DEF q
  <1> QED
    BY <1>3, <1>5, <1>6

-----------------------------------------------------------------------------
NoWrap == packet.num <= units + 1
Plenty == units >= 2 * (packet.num - 1)

(* What the loop keeps from one draw to the next.                          *)
LoopInv ==
    pc = "draw" =>
        /\ Len(slots) < packet.num
        /\ NoWrap => given + left = units /\ left >= ToCome
        /\ Plenty => left >= 2 * ToCome /\ left >= 1

(* What the slots are when the loop is done.                               *)
FullInv ==
    pc \in {"file", "open"} => Len(slots) = packet.num /\ (NoWrap => given = units)

SlotInv == Plenty => \A i \in DOMAIN slots : slots[i] >= 1

FiledInv ==
    /\ filed # <<>> => filed = slots /\ Len(slots) = packet.num /\ (NoWrap => given = units)
    /\ pc = "open" => filed = slots
    /\ outcome = "ok" => filed = slots /\ Len(slots) = packet.num

AmountInv ==
    pc # "check" /\ outcome # "refused" =>
        units >= 1 /\ (~packet.coarse => units <= recorded /\ recorded - units <= 1)

EarlyInv ==
    /\ pc \in {"check", "insert"} => slots = <<>> /\ given = 0
    /\ pc \in {"check", "insert", "draw", "file"} => filed = <<>>
    /\ pc = "insert" => left = units
    /\ outcome = "refused" => pc = "ended" /\ filed = <<>>
    /\ pc # "ended" => outcome = "none"

PanicInv == outcome = "panicked" => ~NoWrap \/ units > Word \div 2

IInv ==
    /\ TypeOK /\ LoopInv /\ FullInv /\ SlotInv
    /\ FiledInv /\ AmountInv /\ EarlyInv /\ PanicInv

THEOREM InitIInv == Init => IInv
  <1> USE WordAssumption, RequestAssumption
  <1> SUFFICES ASSUME Init PROVE IInv
    OBVIOUS
  <1>1. TypeOK
    BY DEF Init, TypeOK
  <1> QED
    BY <1>1 DEF Init, IInv, LoopInv, FullInv, SlotInv, FiledInv, AmountInv, EarlyInv, PanicInv

(* Typing of a draw, wrapped or not.                                       *)
LEMMA DrawTypes ==
    ASSUME NEW total \in 0..(Word - 1), NEW k \in Nat \ {0},
           NEW money \in Lo(Safe(total, k))..Hi(Safe(total, k))
    PROVE  money \in 0..(Word - 1) /\ (total - money) % Word \in 0..(Word - 1)
  <1> USE WordAssumption
  <1>1. Word \in Nat \ {0} /\ total - k \in Int
    OBVIOUS
  <1>2. (total - k) % Word \in 0..(Word - 1)
    BY <1>1, ModFacts
  <1>3. Safe(total, k) \in 0..(Word - 1)
    BY <1>2, DivFacts DEF Safe
  <1>4. money \in 0..(Word - 1)
    BY <1>3 DEF Lo, Hi
  <1>5. total - money \in Int
    BY <1>4
  <1> QED
    BY <1>1, <1>4, <1>5, ModFacts

(* Int63n does not panic on a range that is not wrapped and not negative.  *)
LEMMA NoPanic ==
    ASSUME NEW total \in 0..(Word - 1), NEW k \in Nat \ {0}, total >= k,
           total <= Word \div 2
    PROVE  ~Panics(Safe(total, k))
  <1> USE WordAssumption
  <1>1. total - k \in 0..(Word - 1) /\ total - k \in Int /\ Word \in Nat \ {0}
    OBVIOUS
  <1>2. (total - k) % Word = total - k
    BY <1>1, ModFacts
  <1>3. Safe(total, k) \in Nat /\ Safe(total, k) <= total - k
    BY <1>1, <1>2, DivFacts DEF Safe
  <1>4. Safe(total, k) <= Word \div 2 - 1
    BY <1>3
  <1> QED
    BY <1>3, <1>4 DEF Panics, Lo, Hi

(* The types a step may use.                                               *)
LEMMA TypeFacts ==
    ASSUME TypeOK
    PROVE  /\ packet.num \in 1..(Word - 1) /\ units \in 0..(Word - 1) /\ left \in 0..(Word - 1)
           /\ slots \in Seq(0..(Word - 1)) /\ given \in Nat /\ packet \in Packet
           /\ Len(slots) \in Nat /\ recorded \in Nat /\ Word \in Nat /\ Word > 4
  <1>1. packet \in Packet /\ packet.num \in Recipients
    BY DEF TypeOK, Packet
  <1>2. packet.num \in 1..(Word - 1)
    BY <1>1, RequestAssumption
  <1>3. slots \in Seq(0..(Word - 1)) /\ Len(slots) \in Nat
    BY DEF TypeOK
  <1> QED
    BY <1>1, <1>2, <1>3, WordAssumption DEF TypeOK

LEMMA StepIInv == IInv /\ [Next]_vars => IInv'
  <1> SUFFICES ASSUME IInv, [Next]_vars PROVE IInv'
    OBVIOUS
  <1>t. /\ packet.num \in 1..(Word - 1) /\ units \in 0..(Word - 1) /\ left \in 0..(Word - 1)
        /\ slots \in Seq(0..(Word - 1)) /\ given \in Nat /\ packet \in Packet
        /\ Len(slots) \in Nat /\ recorded \in Nat /\ Word \in Nat /\ Word > 4
    BY TypeFacts DEF IInv
  <1>0. pc = "check" => slots = <<>> /\ given = 0 /\ filed = <<>> /\ outcome = "none"
    BY DEF IInv, EarlyInv
  <1>1. CASE Check
    <2>1. CASE Enough(packet) /\ pc' = "insert"
      <3>1. /\ units' \in 1..(Word - 1) /\ recorded' \in Nat
            /\ ~packet.coarse => units' <= recorded' /\ recorded' - units' <= 1
        BY <1>1, <1>t, <2>1, AmountFacts DEF Check
      <3>2. pc' = "insert" /\ outcome' = "none" /\ left' = units'
            /\ slots' = <<>> /\ given' = 0 /\ filed' = <<>> /\ packet' = packet
        BY <1>0, <1>1, <2>1 DEF Check
      <3>3. TypeOK'
        BY <1>t, <3>1, <3>2 DEF TypeOK
      <3>4. SlotInv'
        BY <3>2 DEF SlotInv
      <3>5. AmountInv'
        <4>1. units' >= 1
          BY <1>t, <3>1
        <4> QED
          BY <3>1, <3>2, <4>1 DEF AmountInv
      <3> QED
        BY <3>2, <3>3, <3>4, <3>5 DEF IInv, LoopInv, FullInv, EarlyInv, PanicInv, FiledInv
    <2>2. CASE pc' = "ended"
      <3>1. units' \in 0..(Word - 1) /\ recorded' \in Nat
        BY <1>1, <1>t, RefusedTypes DEF Check
      <3>2. pc' = "ended" /\ outcome' = "refused" /\ left' = units'
            /\ slots' = <<>> /\ given' = 0 /\ filed' = <<>> /\ packet' = packet
        BY <1>0, <1>1, <2>2 DEF Check
      <3>3. TypeOK'
        BY <1>t, <3>1, <3>2 DEF TypeOK
      <3>4. SlotInv'
        BY <3>2 DEF SlotInv
      <3> QED
        BY <3>2, <3>3, <3>4 DEF IInv, LoopInv, FullInv, AmountInv, EarlyInv, PanicInv, FiledInv
    <2> QED
      BY <1>1, <2>1, <2>2 DEF Check
  <1>2. CASE Insert
    <2>1. pc' = "draw" => Len(slots') < packet'.num /\ ToCome' = packet.num - 1
      BY <1>2, <1>t DEF Insert, IInv, EarlyInv, ToCome
    <2> QED
      BY <1>2, <1>t, <2>1
      DEF Insert, IInv, TypeOK, LoopInv, FullInv, SlotInv, FiledInv, AmountInv, EarlyInv, PanicInv, NoWrap, Plenty
  <1>3. CASE Draw
    <2> DEFINE k == ToCome
    <2>1. k \in Nat \ {0} /\ pc = "draw"
      BY <1>3, <1>t DEF Draw, ToCome
    <2>2. PICK money \in Lo(Safe(left, ToCome))..Hi(Safe(left, ToCome)) :
            /\ slots' = Append(slots, money) /\ given' = given + money
            /\ left' = (left - money) % Word
      BY <1>3 DEF Draw
    <2>3. /\ pc' = pc /\ packet' = packet /\ units' = units /\ recorded' = recorded
          /\ filed' = filed /\ outcome' = outcome
      BY <1>3 DEF Draw
    <2>4. money \in 0..(Word - 1) /\ left' \in 0..(Word - 1)
      BY <1>t, <2>1, <2>2, DrawTypes
    <2>5. /\ slots' \in Seq(0..(Word - 1)) /\ Len(slots') = Len(slots) + 1
          /\ \A i \in DOMAIN slots' : slots'[i] = money \/ (i \in DOMAIN slots /\ slots'[i] = slots[i])
      BY <1>t, <2>2, <2>4
    <2>6. k' = k - 1 /\ Len(slots') < packet'.num
      <3>1. k = packet.num - Len(slots) - 1 /\ k' = packet'.num - Len(slots') - 1
        BY DEF ToCome
      <3> QED
        BY SMTT(30), <1>t, <2>1, <2>3, <2>5, <3>1
    <2>7. ASSUME left >= k
          PROVE  /\ left' = left - money /\ left' >= k'
                 /\ left >= 2 * k => money >= 1 /\ left' >= 2 * k' /\ left' >= 1
      <3>1. /\ money \in Nat /\ money <= left /\ left - money >= k - 1
            /\ left >= 2 * k => money >= 1 /\ left - money >= 2 * (k - 1) /\ left - money >= 1
        BY <1>t, <2>1, <2>2, <2>7, DrawFacts
      <3>2. left - money \in 0..(Word - 1) /\ left - money \in Int /\ Word \in Nat \ {0}
        BY <1>t, <3>1
      <3>3. left' = left - money
        BY <2>2, <3>2, ModFacts
      <3> QED
        BY <2>6, <3>1, <3>3
    <2>8. /\ NoWrap => given + left = units /\ left >= k
          /\ Plenty => left >= 2 * k /\ left >= k
      BY <1>t, <2>1 DEF IInv, LoopInv
    <2>9. TypeOK'
      BY <2>2, <2>3, <2>4, <2>5, <1>t DEF IInv, TypeOK
    <2>10. LoopInv'
      <3>1. NoWrap' => given' + left' = units' /\ left' >= k'
        <4> SUFFICES ASSUME NoWrap PROVE given' + left' = units /\ left' >= k'
          BY <2>3 DEF NoWrap
        <4>1. left' = left - money /\ left' >= k'
          BY <2>7, <2>8
        <4>2. given + left = units /\ given' = given + money
          BY <2>2, <2>8
        <4> QED
          BY <1>t, <2>4, <4>1, <4>2
      <3>2. Plenty' => left' >= 2 * k' /\ left' >= 1
        BY <2>3, <2>7, <2>8 DEF Plenty
      <3> QED
        BY <2>6, <3>1, <3>2 DEF LoopInv
    <2>11. SlotInv'
      <3>1. Plenty => money >= 1
        BY <2>7, <2>8
      <3> QED
        BY <2>3, <2>5, <3>1 DEF IInv, SlotInv, Plenty
    <2>12. FiledInv' /\ FullInv' /\ EarlyInv'
      BY <2>1, <2>3 DEF IInv, FiledInv, EarlyInv, FullInv
    <2> QED
      BY <2>3, <2>9, <2>10, <2>11, <2>12 DEF IInv, AmountInv, PanicInv, NoWrap
  <1>4. CASE DrawPanics
    <2>1. ToCome \in Nat \ {0}
      BY <1>4, <1>t DEF DrawPanics, ToCome
    <2>2. NoWrap => left >= ToCome /\ left <= units
      BY <1>4, <1>t DEF DrawPanics, IInv, LoopInv
    <2>3. NoWrap => units > Word \div 2
      BY <1>4, <1>t, <2>1, <2>2, NoPanic DEF DrawPanics
    <2> QED
      BY <1>4, <1>t, <2>3
      DEF DrawPanics, IInv, TypeOK, LoopInv, FullInv, SlotInv, FiledInv, AmountInv, EarlyInv, PanicInv, NoWrap, Plenty
  <1>5. CASE DrawLast
    <2>1. /\ slots' = Append(slots, left) /\ given' = given + left /\ pc' = "file" /\ pc = "draw"
          /\ UNCHANGED <<packet, units, recorded, left, filed, outcome>>
      BY <1>5 DEF DrawLast
    <2>2. /\ slots' \in Seq(0..(Word - 1)) /\ Len(slots') = Len(slots) + 1
          /\ \A i \in DOMAIN slots' : slots'[i] = left \/ (i \in DOMAIN slots /\ slots'[i] = slots[i])
      BY <1>t, <2>1
    <2>3. TypeOK'
      BY <1>t, <2>1, <2>2 DEF IInv, TypeOK
    <2>4. FullInv'
      BY SMTT(30), <1>5, <1>t, <2>1, <2>2 DEF DrawLast, ToCome, IInv, LoopInv, FullInv, NoWrap
    <2>5. SlotInv'
      BY <2>1, <2>2 DEF IInv, LoopInv, SlotInv, Plenty
    <2> QED
      BY <2>1, <2>3, <2>4, <2>5 DEF IInv, LoopInv, FiledInv, AmountInv, EarlyInv, PanicInv, NoWrap
  <1>6. CASE File
    BY <1>6, <1>t
    DEF File, IInv, TypeOK, LoopInv, FullInv, SlotInv, FiledInv, AmountInv, EarlyInv, PanicInv, NoWrap, Plenty
  <1>7. CASE Open
    BY <1>7, <1>t
    DEF Open, IInv, TypeOK, LoopInv, FullInv, SlotInv, FiledInv, AmountInv, EarlyInv, PanicInv, NoWrap, Plenty
  <1>8. CASE UNCHANGED vars
    BY <1>8
    DEF vars, IInv, TypeOK, LoopInv, FullInv, SlotInv, FiledInv, AmountInv, EarlyInv, PanicInv, NoWrap, Plenty, ToCome
  <1> QED
    BY <1>1, <1>2, <1>3, <1>4, <1>5, <1>6, <1>7, <1>8 DEF Next

LEMMA InvariantIInv == Spec => []IInv
  BY InitIInv, StepIInv, PTL DEF Spec

(* Every integer stays within its width.                                   *)
THEOREM TypeCorrect == Spec => []TypeOK
  <1>1. IInv => TypeOK
    BY DEF IInv
  <1> QED
    BY <1>1, InvariantIInv, PTL

(* Whatever is drawn, the slots filed hold the units of the packet, unless *)
(* there are two recipients more than units (generate.go:14).              *)
THEOREM SplitKeepsSum == Spec => []SumKept
  <1>1. IInv => SumKept
    BY DEF IInv, FiledInv, SumKept, NoWrap
  <1> QED
    BY <1>1, InvariantIInv, PTL

(* Two units per recipient and nobody draws an empty slot, in any draw of  *)
(* any packet; a handler that ends well filed a slot for every recipient,  *)
(* and only too many recipients or too many units make the cutting panic.  *)
THEOREM SplitFeedsAll == Spec => []NobodyGetsNothing
  <1>1. IInv => NobodyGetsNothing
    <2> SUFFICES ASSUME IInv PROVE NobodyGetsNothing
      OBVIOUS
    <2>1. Plenty => \A i \in DOMAIN filed : filed[i] >= 1
      <3> SUFFICES ASSUME Plenty, NEW i \in DOMAIN filed PROVE filed[i] >= 1
        OBVIOUS
      <3>1. filed # <<>>
        OBVIOUS
      <3> QED
        BY <3>1 DEF IInv, FiledInv, SlotInv
    <2>2. /\ outcome = "ok" => Len(filed) = packet.num
          /\ outcome = "panicked" => packet.num > units + 1 \/ units > Word \div 2
      BY TypeFacts DEF IInv, FiledInv, PanicInv, NoWrap
    <2> QED
      BY <2>1, <2>2 DEF NobodyGetsNothing, Plenty
  <1> QED
    BY <1>1, InvariantIInv, PTL

(* A packet of a token with four decimals or more loses at most a unit     *)
(* between its row and its slots.                                          *)
THEOREM SplitWorth == Spec => []WorthHasCause
  <1>1. IInv => WorthHasCause
    BY TypeFacts DEF IInv, FiledInv, AmountInv, EarlyInv, WorthHasCause, NoWrap
  <1> QED
    BY <1>1, InvariantIInv, PTL

-----------------------------------------------------------------------------
(***************************************************************************)
(* The life of a token.  A refresh keeps orig_iat, which is the time of    *)
(* the login, so exp stays within the two spans from it.  A key is found   *)
(* in wx_oauth until its user's next login through the same app, and the   *)
(* row then has a later key of the same user and app, whose token may not  *)
(* have been issued.                                                       *)
(***************************************************************************)

Session == part = "session"

(* The types, and no key beyond those made.                                *)
SessionType ==
    /\ now \in 0..MaxTime
    /\ made \in Seq(User \X App) /\ Len(made) <= MaxKeys
    /\ login \subseteq 1..Len(made)
    /\ wx \in [User \X App -> 0..Len(made)]
    /\ tokens \subseteq Sessions!Tokens

(* The row of a user and an app has the last key made for them.            *)
RowInv ==
    \A k \in 1..Len(made) : wx[made[k]] >= k /\ made[wx[made[k]]] = made[k]

AgeInv(t) ==
    /\ t.iat = t.login /\ t.login <= now
    /\ t.exp <= t.login + MaxRefresh + Timeout
    /\ t.login - t.proof <= Window

NameInv(t) ==
    /\ t.id.by = "wechat" => t.id.key \in 1..Len(made)
    /\ t.id.by = "nobody" => t.user \in Phoneless

TokenInv == SessionType /\ RowInv /\ \A t \in tokens : AgeInv(t) /\ NameInv(t)

LEMMA SessionConstants ==
    /\ Phoneless \subseteq User
    /\ Timeout \in Nat /\ MaxRefresh \in Nat /\ Window \in Nat
    /\ MaxTime \in Nat /\ MaxKeys \in Nat
  BY SessionAssumption DEF Sessions!UserAssumption, Sessions!TimeAssumption

LEMMA TokenInit == PartsInit /\ Session => TokenInv
  <1> SUFFICES ASSUME Sessions!Init PROVE TokenInv
    BY DEF PartsInit, Session
  <1> USE SessionConstants DEF Sessions!Init
  <1>1. SessionType
    BY DEF SessionType
  <1>2. RowInv
    BY DEF RowInv
  <1> QED
    BY <1>1, <1>2 DEF TokenInv

(* A token as its login makes it.                                          *)
LEMMA NewToken ==
    ASSUME TokenInv, UNCHANGED <<now, wx, made>>, login' \subseteq login,
           NEW id \in Sessions!Ids, NEW u \in User, NEW proof \in 0..MaxTime,
           proof <= now, now - proof <= Window,
           id.by = "wechat" => id.key \in 1..Len(made),
           id.by = "nobody" => u \in Phoneless,
           Sessions!Issue(id, u, proof)
    PROVE  TokenInv'
  <1> USE SessionConstants
  <1> DEFINE t == [id |-> id, iat |-> now, exp |-> now + Timeout,
                   user |-> u, login |-> now, proof |-> proof]
  <1>1. tokens' = tokens \union {t}
    BY DEF Sessions!Issue
  <1>2. t \in Sessions!Tokens
    BY DEF TokenInv, SessionType, Sessions!Tokens, Sessions!Times
  <1>3. AgeInv(t) /\ NameInv(t)
    BY DEF TokenInv, SessionType, AgeInv, NameInv
  <1> HIDE DEF t
  <1>4. SessionType'
    BY <1>1, <1>2 DEF TokenInv, SessionType
  <1>5. RowInv'
    BY DEF TokenInv, RowInv
  <1>6. \A x \in tokens' : AgeInv(x)' /\ NameInv(x)'
    BY <1>1, <1>3 DEF TokenInv, AgeInv, NameInv
  <1> QED
    BY <1>4, <1>5, <1>6 DEF TokenInv

(* A refresh starts the timeout again, if the login is not too long ago.   *)
LEMMA Refreshed ==
    ASSUME TokenInv, NEW t \in tokens, Sessions!RefreshHandler(t)
    PROVE  TokenInv'
  <1> USE SessionConstants
  <1> DEFINE new == [t EXCEPT !.exp = now + Timeout]
  <1>1. tokens' = tokens \union {new} /\ UNCHANGED <<now, wx, login, made>>
        /\ ~(t.iat < now - MaxRefresh)
    BY DEF Sessions!RefreshHandler
  <1>2. t \in Sessions!Tokens /\ now \in Nat
    BY DEF TokenInv, SessionType
  <1>3. new \in Sessions!Tokens
    BY <1>2 DEF Sessions!Tokens
  <1>4. /\ new.id = t.id /\ new.iat = t.iat /\ new.user = t.user
        /\ new.login = t.login /\ new.proof = t.proof /\ new.exp = now + Timeout
    BY <1>2 DEF Sessions!Tokens
  <1> HIDE DEF new
  <1>5. AgeInv(new) /\ NameInv(new)
    <2>1. t.login \in Nat /\ t.iat = t.login /\ AgeInv(t) /\ NameInv(t)
      BY <1>2 DEF TokenInv, Sessions!Tokens, Sessions!Times, AgeInv
    <2> QED
      BY <1>1, <1>2, <1>4, <2>1 DEF AgeInv, NameInv
  <1>6. SessionType'
    BY <1>1, <1>3 DEF TokenInv, SessionType
  <1>7. RowInv'
    BY <1>1 DEF TokenInv, RowInv
  <1>8. \A x \in tokens' : AgeInv(x)' /\ NameInv(x)'
    BY <1>1, <1>5 DEF TokenInv, AgeInv, NameInv
  <1> QED
    BY <1>6, <1>7, <1>8 DEF TokenInv

LEMMA UpdatedIn ==
    ASSUME NEW D, NEW C, NEW f \in [D -> C], NEW x \in D, NEW v \in C
    PROVE  [f EXCEPT ![x] = v] \in [D -> C]
  OBVIOUS

(* A WeChat login makes the next key, which becomes that of its row.       *)
LEMMA KeyStored ==
    ASSUME TokenInv, NEW u \in User, NEW a \in App, Sessions!StoreKey(u, a)
    PROVE  TokenInv'
  <1> USE SessionConstants
  <1> DEFINE n == Len(made) + 1
  <1>1. /\ n <= MaxKeys /\ made' = Append(made, <<u, a>>)
        /\ wx' = [wx EXCEPT ![<<u, a>>] = n] /\ login' = login \union {n}
        /\ UNCHANGED <<now, tokens>>
    BY DEF Sessions!StoreKey, TokenInv, SessionType
  <1>2. made \in Seq(User \X App) /\ <<u, a>> \in User \X App /\ n \in Nat
    BY DEF TokenInv, SessionType
  <1>3. /\ made' \in Seq(User \X App) /\ Len(made') = n /\ made'[n] = <<u, a>>
        /\ \A k \in 1..Len(made) : made'[k] = made[k]
    BY <1>1, <1>2
  <1> DEFINE x == <<u, a>>
  <1>a. x \in User \X App /\ wx \in [User \X App -> 0..Len(made)] /\ login \subseteq 1..Len(made)
    BY <1>2 DEF TokenInv, SessionType
  <1>b. /\ made'[n] = x /\ wx' = [wx EXCEPT ![x] = n]
        /\ wx'[x] = n /\ \A y \in (User \X App) \ {x} : wx'[y] = wx[y]
    BY <1>1, <1>3, <1>a
  <1> HIDE DEF x
  <1>4. SessionType'
    <2>1. wx' \in [User \X App -> 0..n]
      <3>1. 0..Len(made) \subseteq 0..n /\ n \in 0..n
        BY <1>2
      <3>2. wx \in [User \X App -> 0..n]
        BY <1>a, <3>1
      <3> HIDE DEF n
      <3>3. [wx EXCEPT ![x] = n] \in [User \X App -> 0..n]
        BY <1>a, <3>1, <3>2, UpdatedIn
      <3> QED
        BY <1>b, <3>3
    <2>2. login' \subseteq 1..n
      <3>1. 1..Len(made) \subseteq 1..n /\ n \in 1..n
        BY <1>2
      <3> HIDE DEF n
      <3> QED
        BY <1>1, <1>a, <3>1
    <2> QED
      BY <1>1, <1>2, <1>3, <2>1, <2>2 DEF TokenInv, SessionType
  <1>5. ASSUME NEW k \in 1..n
        PROVE  wx'[made'[k]] >= k /\ made'[wx'[made'[k]]] = made'[k]
    <2>1. wx \in [User \X App -> 0..Len(made)]
      BY DEF TokenInv, SessionType
    <2>2. CASE made'[k] = x
      BY <1>2, <1>b, <2>2
    <2>3. CASE made'[k] # x
      <3>1. k \in 1..Len(made) /\ made'[k] = made[k]
        <4>1. k # n /\ Len(made) \in Nat
          BY <1>2, <1>b, <2>3
        <4>2. k \in 1..Len(made)
          BY <4>1
        <4> QED
          BY <1>3, <4>2
      <3>2. made[k] \in User \X App
        BY <1>2, <3>1
      <3>3. wx'[made[k]] = wx[made[k]]
        BY <1>b, <2>3, <3>1, <3>2
      <3>4. wx[made[k]] >= k /\ made[wx[made[k]]] = made[k]
        BY <3>1 DEF TokenInv, RowInv
      <3>5. wx[made[k]] \in 1..Len(made)
        BY <1>2, <2>1, <3>1, <3>2, <3>4
      <3> QED
        BY <1>3, <3>1, <3>3, <3>4, <3>5
    <2> QED
      BY <2>2, <2>3
  <1>6. RowInv'
    BY <1>3, <1>5 DEF RowInv
  <1>7. \A t \in tokens' : AgeInv(t)' /\ NameInv(t)'
    BY <1>1, <1>2, <1>3 DEF TokenInv, AgeInv, NameInv
  <1> QED
    BY <1>4, <1>6, <1>7 DEF TokenInv

LEMMA TokenStep ==
    Session /\ TokenInv /\ [SplitNext \/ CodecNext \/ TokenNext \/ SessionNext]_allVars
        => TokenInv'
  <1> SUFFICES ASSUME Session, TokenInv,
                      [SplitNext \/ CodecNext \/ TokenNext \/ SessionNext]_allVars
               PROVE  TokenInv'
    OBVIOUS
  <1> USE SessionConstants
  <1>1. CASE UNCHANGED allVars
    BY <1>1 DEF allVars, sessionVars, TokenInv, SessionType, RowInv, AgeInv, NameInv
  <1>2. CASE Sessions!Next
    <2>1. now \in 0..MaxTime /\ now <= now /\ now - now <= Window
      BY DEF TokenInv, SessionType
    <2>2. ASSUME NEW u \in User PROVE Sessions!Name(u) \in Sessions!Ids
      BY DEF Sessions!Name, Sessions!Ids
    <2>3. ASSUME NEW u \in User
          PROVE  /\ Sessions!Name(u).by # "wechat"
                 /\ Sessions!Name(u).by = "nobody" => u \in Phoneless
      BY DEF Sessions!Name
    <2>4. ASSUME NEW u \in User, Sessions!LoginPassword(u) PROVE TokenInv'
      BY <2>1, <2>2, <2>3, <2>4, NewToken DEF Sessions!LoginPassword
    <2>5. ASSUME NEW u \in User, NEW date \in Sessions!Times, Sessions!LoginTelegram(u, date)
          PROVE  TokenInv'
      <3>1. date \in 0..MaxTime /\ date <= now /\ now - date <= Window
        BY <2>5 DEF Sessions!LoginTelegram, Sessions!TelegramAuthCheck, Sessions!Times
      <3> QED
        BY <2>2, <2>3, <2>5, <3>1, NewToken DEF Sessions!LoginTelegram
    <2>6. ASSUME NEW u \in User, NEW a \in App, Sessions!StoreKey(u, a) PROVE TokenInv'
      BY <2>6, KeyStored
    <2>7. ASSUME NEW k \in login, Sessions!LoginWechat(k) PROVE TokenInv'
      <3>1. k \in 1..Len(made) /\ k \in Sessions!Keys /\ made[k][1] \in User
        BY DEF TokenInv, SessionType, Sessions!Keys
      <3>2. CASE UNCHANGED tokens
        BY <2>7, <3>2 DEF Sessions!LoginWechat, TokenInv, SessionType, RowInv, AgeInv, NameInv
      <3>3. CASE Sessions!Issue([by |-> "wechat", key |-> k], made[k][1], now)
        <4>1. login' \subseteq login /\ UNCHANGED <<now, wx, made>>
          BY <2>7 DEF Sessions!LoginWechat
        <4>2. [by |-> "wechat", key |-> k] \in Sessions!Ids
          BY <3>1 DEF Sessions!Ids
        <4> QED
          BY <2>1, <3>1, <3>3, <4>1, <4>2, NewToken
      <3> QED
        BY <2>7, <3>2, <3>3 DEF Sessions!LoginWechat
    <2>8. ASSUME NEW t \in tokens, Sessions!RefreshHandler(t) PROVE TokenInv'
      BY <2>8, Refreshed
    <2>9. ASSUME Sessions!Tick PROVE TokenInv'
      <3>1. now' = now + 1 /\ now' \in 0..MaxTime /\ UNCHANGED <<tokens, wx, login, made>>
        BY <2>9 DEF Sessions!Tick, TokenInv, SessionType
      <3>2. \A x \in tokens : x.login \in Nat
        BY DEF TokenInv, SessionType, Sessions!Tokens, Sessions!Times
      <3>3. \A x \in tokens : AgeInv(x)'
        BY <3>1, <3>2 DEF TokenInv, SessionType, AgeInv
      <3> QED
        BY <3>1, <3>3 DEF TokenInv, SessionType, RowInv, NameInv
    <2> QED
      BY <1>2, <2>4, <2>5, <2>6, <2>7, <2>8, <2>9 DEF Sessions!Next
  <1> QED
    BY <1>1, <1>2 DEF Session, SplitNext, CodecNext, TokenNext, SessionNext

(* A token lives at most MaxRefresh + Timeout from its login and dies      *)
(* sooner only by a later login through the same app, or without a name    *)
(* (auth_jwt.go, RefreshHandler; handler/auth/auth.go).                    *)
THEOREM TokensLive == PartsSpec => []TokenLife
  <1> DEFINE Next_ == SplitNext \/ CodecNext \/ TokenNext \/ SessionNext
  <1>1. PartsInit => (Session => TokenInv)
    BY TokenInit
  <1>2. (Session => TokenInv) /\ [Next_]_allVars => (Session => TokenInv)'
    <2> SUFFICES ASSUME Session => TokenInv, [Next_]_allVars, Session' PROVE TokenInv'
      OBVIOUS
    <2>1. Session
      BY DEF Session, allVars, SplitNext, CodecNext, TokenNext, SessionNext
    <2> QED
      BY <2>1, TokenStep
  <1>3. (Session => TokenInv) => TokenLife
    <2> SUFFICES ASSUME TokenInv PROVE Sessions!TypeOK /\ Sessions!TokenLife
      BY DEF Session, TokenLife
    <2> USE SessionConstants
    <2>1. Sessions!TypeOK
      BY DEF TokenInv, SessionType, Sessions!TypeOK, Sessions!Times, Sessions!Keys
    <2>2. ASSUME NEW t \in tokens
          PROVE  /\ t.login \in Nat /\ t.proof \in Nat /\ t.exp \in Nat /\ now \in Nat
                 /\ t.id \in Sessions!Ids /\ AgeInv(t) /\ NameInv(t)
      BY DEF TokenInv, SessionType, Sessions!Tokens, Sessions!Times
    <2>3. ASSUME NEW t \in tokens, Sessions!Authorized(t)
          PROVE  /\ now - t.login <= MaxRefresh + Timeout
                 /\ now - t.proof <= Window + MaxRefresh + Timeout
      BY <2>2, <2>3 DEF Sessions!Authorized, Sessions!Valid, AgeInv
    <2>4. ASSUME NEW t \in tokens, Sessions!Valid(t), ~Sessions!Authorized(t)
          PROVE  \/ t.id.by = "nobody" /\ t.user \in Phoneless
                 \/ /\ t.id.by = "wechat"
                    /\ wx[made[t.id.key]] > t.id.key
                    /\ made[wx[made[t.id.key]]] = made[t.id.key]
      <3>1. t.id.by \in {"nobody", "wechat"}
        BY <2>2, <2>4 DEF Sessions!Authorized, Sessions!Resolves, Sessions!Ids
      <3>2. CASE t.id.by = "nobody"
        BY <2>2, <3>2 DEF NameInv
      <3>3. CASE t.id.by = "wechat"
        <4>1. t.id.key \in 1..Len(made)
          BY <2>2, <3>3 DEF NameInv
        <4>2. made[t.id.key] \in DOMAIN wx /\ wx[made[t.id.key]] \in Nat
          BY <4>1 DEF TokenInv, SessionType
        <4>3. wx[made[t.id.key]] # t.id.key
          BY <2>4, <3>3, <4>2 DEF Sessions!Authorized, Sessions!Resolves
        <4>4. wx[made[t.id.key]] >= t.id.key /\ made[wx[made[t.id.key]]] = made[t.id.key]
          BY <4>1 DEF TokenInv, RowInv
        <4> QED
          BY <3>3, <4>1, <4>2, <4>3, <4>4
      <3> QED
        BY <3>1, <3>2, <3>3
    <2> QED
      BY <2>1, <2>3, <2>4 DEF Sessions!TokenLife
  <1> QED
    BY <1>1, <1>2, <1>3, PTL DEF PartsSpec

-----------------------------------------------------------------------------
(***************************************************************************)
(* Recursion.  Induction is over a set: of the numbers not in it, one      *)
(* would be the least.  A function defined by recursion exists as it does  *)
(* up to each number.                                                      *)
(***************************************************************************)

LEMMA NatStrong ==
    ASSUME NEW P, \A n \in Nat : (\A m \in 0..(n - 1) : m \in P) => n \in P
    PROVE  \A n \in Nat : n \in P
<1> DEFINE Bad_ == {n \in Nat : n \notin P}
<1> SUFFICES ASSUME Bad_ # {} PROVE FALSE
  OBVIOUS
<1>1. IsWellFoundedOn({ss \in Nat \X Nat : ss[1] < ss[2]}, Nat)
  BY NatLessThanWellFounded DEF OpToRel
<1>2. PICK n \in Bad_ : \A m \in Bad_ : <<m, n>> \notin {ss \in Nat \X Nat : ss[1] < ss[2]}
  <2>1. Bad_ \subseteq Nat
    OBVIOUS
  <2> HIDE DEF Bad_
  <2> QED
    BY <1>1, <2>1, WFMin
<1>3. \A m \in 0..(n - 1) : m \in P
  <2> SUFFICES ASSUME NEW m \in 0..(n - 1), m \notin P PROVE FALSE
    OBVIOUS
  <2>1. m \in Bad_ /\ n \in Nat /\ m \in Nat /\ m < n
    BY <1>2
  <2> HIDE DEF Bad_
  <2> QED
    BY <1>2, <2>1
<1> QED
  BY <1>2, <1>3

LEMMA NatInduct ==
    ASSUME NEW P, 0 \in P, \A n \in Nat : n \in P => n + 1 \in P
    PROVE  \A n \in Nat : n \in P
<1>1. ASSUME NEW n \in Nat, \A m \in 0..(n - 1) : m \in P PROVE n \in P
  <2>1. CASE n = 0
    BY <2>1
  <2>2. CASE n # 0
    <3>1. n - 1 \in Nat /\ n - 1 \in 0..(n - 1) /\ (n - 1) + 1 = n
      BY <2>2
    <3>2. n - 1 \in P
      BY <1>1, <3>1
    <3> QED
      BY <3>1, <3>2
  <2> QED
    BY <2>1, <2>2
<1> QED
  BY <1>1, NatStrong

(* Each value from the one before.                                         *)
Iterates(g, N, base, step) == g[0] = base /\ \A n \in 1..N : g[n] = step[n][g[n - 1]]

LEMMA Recursion ==
    ASSUME NEW N \in Nat, NEW V, NEW base \in V, NEW step \in [1..N -> [V -> V]]
    PROVE  \E g \in [0..N -> V] : Iterates(g, N, base, step)
<1> DEFINE Good(M, g) == g[0] = base /\ \A n \in 1..M : g[n] = step[n][g[n - 1]]
           P == {M \in Nat : M <= N => \E g \in [0..M -> V] : Good(M, g)}
<1>1. 0 \in P
  <2> DEFINE g == [n \in 0..0 |-> base]
  <2>1. g \in [0..0 -> V] /\ Good(0, g)
    OBVIOUS
  <2> QED
    BY <2>1
<1>2. ASSUME NEW M \in Nat, M \in P PROVE M + 1 \in P
  <2> SUFFICES ASSUME M + 1 <= N PROVE \E h \in [0..(M + 1) -> V] : Good(M + 1, h)
    OBVIOUS
  <2>1. PICK g \in [0..M -> V] : Good(M, g)
    BY <1>2
  <2> DEFINE h == [n \in 0..(M + 1) |-> IF n = M + 1 THEN step[M + 1][g[M]] ELSE g[n]]
  <2>2. M \in 0..M /\ M + 1 \in 1..N
    OBVIOUS
  <2>3. g[M] \in V /\ step[M + 1][g[M]] \in V
    BY <2>2
  <2>4. h \in [0..(M + 1) -> V]
    BY <2>3
  <2>5. h[0] = base
    BY <2>1
  <2>6. ASSUME NEW n \in 1..(M + 1) PROVE h[n] = step[n][h[n - 1]]
    <3>1. CASE n = M + 1
      <4>1. h[n] = step[M + 1][g[M]] /\ n - 1 = M /\ h[M] = g[M]
        BY <3>1
      <4> QED
        BY <3>1, <4>1
    <3>2. CASE n # M + 1
      <4>1. n \in 1..M /\ n - 1 \in 0..M /\ h[n] = g[n] /\ h[n - 1] = g[n - 1]
        BY <3>2
      <4> QED
        BY <2>1, <4>1
    <3> QED
      BY <3>1, <3>2
  <2> QED
    BY <2>4, <2>5, <2>6
<1>3. \A M \in Nat : M \in P
  <2> HIDE DEF P
  <2> QED
    BY <1>1, <1>2, NatInduct
<1> QED
  BY <1>3 DEF Iterates

LEMMA TokenConstants ==
    /\ Base \in Nat /\ Base > 1 /\ Word \in Nat /\ Bad \notin 0..(Base - 1)
    /\ MaxLen \in Nat /\ DefaultLen \in 1..MaxLen
    /\ Token!Power[MaxLen] <= Word
    /\ \A s \in Typos : s \in Seq(Token!Char \union {Bad})
  BY TokenAssumption DEF Token!BaseAssumption, Token!LengthAssumption, Token!TypoAssumption, Token!Char

LEMMA Powers ==
    /\ Token!Power[0] = 1
    /\ \A n \in 1..MaxLen : Token!Power[n] = Base * Token!Power[n - 1]
    /\ \A n \in 0..MaxLen : Token!Power[n] \in Nat \ {0}
<1> DEFINE Pos == Nat \ {0}
           one == 1
           step == [n \in 1..MaxLen |-> [v \in Pos |-> Base * v]]
           Folds(g) == g = [n \in 0..MaxLen |-> IF n = 0 THEN 1 ELSE Base * g[n - 1]]
           power == CHOOSE g : Folds(g)
<1>1. MaxLen \in Nat /\ Base \in Nat \ {0}
  BY TokenConstants
<1>2. \A v \in Nat \ {0} : Base * v \in Nat \ {0}
  BY <1>1
<1>3. step \in [1..MaxLen -> [Pos -> Pos]] /\ one \in Pos
  BY <1>2
<1>4. \A n \in 1..MaxLen, v \in Pos : step[n][v] = Base * v
  OBVIOUS
<1> HIDE DEF step, Pos, one
<1>5. PICK g \in [0..MaxLen -> Pos] : Iterates(g, MaxLen, one, step)
  BY <1>1, <1>3, Recursion
<1>6. ASSUME NEW n \in 1..MaxLen PROVE g[n] = Base * g[n - 1]
  <2>1. n - 1 \in 0..MaxLen
    BY <1>1
  <2>2. g[n - 1] \in Pos
    BY <2>1
  <2> QED
    BY <1>4, <1>5, <2>2 DEF Iterates
<1>7. Folds(g)
  <2>1. \A n \in 0..MaxLen : g[n] = IF n = 0 THEN 1 ELSE Base * g[n - 1]
    BY <1>1, <1>5, <1>6 DEF one, Iterates
  <2> QED
    BY <1>5, <2>1 DEF one
<1>8. Folds(power)
  <2> HIDE DEF Folds
  <2> QED
    BY <1>7
<1>9. power = Token!Power
  BY DEF Token!Power
<1> HIDE DEF power
<1>10. power[0] = 1 /\ \A n \in 1..MaxLen : power[n] = Base * power[n - 1]
  BY <1>1, <1>8
<1> DEFINE P == {n \in Nat : n <= MaxLen => power[n] \in Nat \ {0}}
<1>11. \A n \in Nat : n \in P
  <2>1. 0 \in P
    BY <1>10
  <2>2. ASSUME NEW n \in Nat, n \in P PROVE n + 1 \in P
    <3> SUFFICES ASSUME n + 1 <= MaxLen PROVE power[n + 1] \in Nat \ {0}
      OBVIOUS
    <3>1. power[n] \in Nat \ {0} /\ n + 1 \in 1..MaxLen /\ (n + 1) - 1 = n
      BY <1>1, <2>2
    <3> QED
      BY <1>2, <1>10, <3>1
  <2> HIDE DEF P
  <2> QED
    BY <2>1, <2>2, NatInduct
<1> QED
  BY <1>9, <1>10, <1>11


(***************************************************************************)
(* The code of a page.  Without the wrap, what a row of characters is      *)
(* worth grows by one character as Horner's rule says, so that it is less  *)
(* than the power of its length, which a word holds; and reading it undoes *)
(* MarshalText, but for zeros in front.                                    *)
(***************************************************************************)

Sums(s) == CHOOSE sum : sum = [i \in 0..Len(s) |->
              IF i = 0 THEN 0 ELSE sum[i - 1] + s[i] * Token!Power[Len(s) - i]]
Number(s) == Sums(s)[Len(s)]

LEMMA ValueIsNumber == \A s : Token!Value(s) = Number(s) % Word
  BY DEF Token!Value, Number, Sums

LEMMA SumsUp ==
    ASSUME NEW s \in Seq(Token!Char), Len(s) <= MaxLen
    PROVE  /\ Sums(s)[0] = 0
           /\ \A i \in 1..Len(s) : Sums(s)[i] = Sums(s)[i - 1] + s[i] * Token!Power[Len(s) - i]
           /\ \A i \in 0..Len(s) : Sums(s)[i] \in Nat
<1> DEFINE N == Len(s)
           step == [i \in 1..N |-> [v \in Nat |-> v + s[i] * Token!Power[N - i]]]
           zero == 0
           Folds(g) == g = [i \in 0..N |->
                               IF i = 0 THEN 0 ELSE g[i - 1] + s[i] * Token!Power[N - i]]
           sums == CHOOSE g : Folds(g)
<1>1. N \in Nat /\ MaxLen \in Nat
  BY TokenConstants
<1>2. ASSUME NEW i \in 1..N PROVE s[i] * Token!Power[N - i] \in Nat
  <2>1. s[i] \in Nat
    BY TokenConstants DEF Token!Char
  <2>2. N - i \in 0..MaxLen
    BY <1>1
  <2>3. Token!Power[N - i] \in Nat
    BY <2>2, Powers
  <2> QED
    BY <2>1, <2>3
<1>3. step \in [1..N -> [Nat -> Nat]] /\ zero \in Nat
  BY <1>2
<1>4. \A i \in 1..N, v \in Nat : step[i][v] = v + s[i] * Token!Power[N - i]
  OBVIOUS
<1>5. sums = Sums(s)
  BY DEF Sums
<1> HIDE DEF N, step, zero, sums
<1>6. PICK g \in [0..N -> Nat] : Iterates(g, N, zero, step)
  BY <1>1, <1>3, Recursion
<1>7. ASSUME NEW i \in 1..N PROVE g[i] = g[i - 1] + s[i] * Token!Power[N - i]
  <2>1. i - 1 \in 0..N
    BY <1>1
  <2>2. g[i - 1] \in Nat
    BY <2>1
  <2> QED
    BY <1>4, <1>6, <2>2 DEF Iterates
<1>8. Folds(g)
  <2>1. \A i \in 0..N : g[i] = IF i = 0 THEN 0 ELSE g[i - 1] + s[i] * Token!Power[N - i]
    BY <1>1, <1>6, <1>7 DEF zero, Iterates
  <2> QED
    BY <1>6, <2>1
<1>9. Folds(sums)
  <2> HIDE DEF Folds
  <2> QED
    BY <1>8 DEF sums
<1>10. sums[0] = 0 /\ \A i \in 1..N : sums[i] = sums[i - 1] + s[i] * Token!Power[N - i]
  BY <1>1, <1>9
<1> DEFINE P == {i \in Nat : i <= N => sums[i] \in Nat}
<1>11. \A i \in Nat : i \in P
  <2>1. 0 \in P
    BY <1>10
  <2>2. ASSUME NEW i \in Nat, i \in P PROVE i + 1 \in P
    <3> SUFFICES ASSUME i + 1 <= N PROVE sums[i + 1] \in Nat
      OBVIOUS
    <3>1. sums[i] \in Nat /\ i + 1 \in 1..N /\ (i + 1) - 1 = i
      BY <1>1, <2>2
    <3> QED
      BY <1>2, <1>10, <3>1
  <2> HIDE DEF P
  <2> QED
    BY <2>1, <2>2, NatInduct
<1> QED
  BY <1>5, <1>10, <1>11 DEF N

LEMMA Horner ==
    ASSUME NEW s \in Seq(Token!Char), NEW c \in Token!Char, Len(s) < MaxLen
    PROVE  Number(Append(s, c)) = Base * Number(s) + c
<1> DEFINE e == Append(s, c)
           N == Len(s)
           a == Sums(e)
           b == Sums(s)
<1>1. /\ N \in Nat /\ MaxLen \in Nat /\ N + 1 <= MaxLen
      /\ e \in Seq(Token!Char) /\ Len(e) = N + 1 /\ e[N + 1] = c
      /\ \A i \in 1..N : e[i] = s[i]
  BY TokenConstants, AppendProperties
<1>2. /\ b[0] = 0 /\ \A i \in 1..N : b[i] = b[i - 1] + s[i] * Token!Power[N - i]
      /\ \A i \in 0..N : b[i] \in Nat
  <2> HIDE DEF b, N
  <2> QED
    BY <1>1, SumsUp DEF b, N
<1>3. /\ a[0] = 0
      /\ \A i \in 1..(N + 1) : a[i] = a[i - 1] + e[i] * Token!Power[(N + 1) - i]
  <2> HIDE DEF e
  <2> QED
    BY <1>1, SumsUp
<1> HIDE DEF e, N, a, b
<1> DEFINE P == {i \in Nat : i <= N => a[i] = Base * b[i]}
<1>4. \A i \in Nat : i \in P
  <2>1. 0 \in P
    BY <1>2, <1>3, TokenConstants
  <2>2. ASSUME NEW i \in Nat, i \in P PROVE i + 1 \in P
    <3> SUFFICES ASSUME i + 1 <= N PROVE a[i + 1] = Base * b[i + 1]
      OBVIOUS
    <3> DEFINE k == N - (i + 1)
    <3>1. /\ i + 1 \in 1..N /\ i + 1 \in 1..(N + 1) /\ (i + 1) - 1 = i
          /\ (N + 1) - (i + 1) = k + 1 /\ k \in Nat /\ k + 1 \in 1..MaxLen /\ k \in 0..MaxLen
          /\ (k + 1) - 1 = k /\ i \in 0..N
      BY <1>1
    <3>2. b[i + 1] = b[i] + s[i + 1] * Token!Power[k] /\ b[i] \in Nat
      BY <1>2, <3>1
    <3>3. a[i + 1] = a[i] + s[i + 1] * Token!Power[k + 1]
      <4>1. a[i + 1] = a[i] + e[i + 1] * Token!Power[(N + 1) - (i + 1)]
        BY <1>3, <3>1
      <4> QED
        BY <1>1, <3>1, <4>1
    <3>4. Token!Power[k + 1] = Base * Token!Power[k] /\ Token!Power[k] \in Nat
      <4> HIDE DEF k
      <4> QED
        BY <3>1, Powers
    <3>5. a[i] = Base * b[i]
      BY <2>2, <3>1
    <3>6. s[i + 1] \in Nat /\ Base \in Nat
      BY <3>1, TokenConstants DEF Token!Char, N
    <3> DEFINE p == Token!Power[k]
               x == s[i + 1]
               y == b[i]
    <3>7. a[i + 1] = Base * y + x * (Base * p) /\ b[i + 1] = y + x * p
          /\ x \in Nat /\ y \in Nat /\ p \in Nat /\ Base \in Nat
      BY <3>2, <3>3, <3>4, <3>5, <3>6
    <3> HIDE DEF p, x, y
    <3>8. Base * (y + x * p) = Base * y + x * (Base * p)
      BY <3>7
    <3> QED
      BY <3>7, <3>8
  <2> HIDE DEF P
  <2> QED
    BY <2>1, <2>2, NatInduct
<1>5. a[N] = Base * b[N] /\ b[N] \in Nat
  BY <1>1, <1>2, <1>4
<1>6. a[N + 1] = a[N] + e[N + 1] * Token!Power[0]
  <2>1. N + 1 \in 1..(N + 1) /\ (N + 1) - 1 = N /\ (N + 1) - (N + 1) = 0
    BY <1>1
  <2> QED
    BY <1>3, <2>1
<1>7. a[N + 1] = Base * b[N] + c
  <2>1. c \in Nat /\ Base \in Nat
    BY TokenConstants DEF Token!Char
  <2> QED
    BY <1>1, <1>5, <1>6, <2>1, Powers
<1> QED
  BY <1>1, <1>7 DEF Number, a, b, e, N

(* Every row of characters is nothing, or one with a character more.       *)
LEMMA Shorter ==
    ASSUME NEW S, NEW s \in Seq(S), NEW n \in Nat, Len(s) = n + 1
    PROVE  \E f \in Seq(S), c \in S : s = Append(f, c) /\ Len(f) = n
<1>1. s # <<>>
  OBVIOUS
<1>2. PICK f \in Seq(S), c \in S : s = Append(f, c)
  BY <1>1, SequenceEmptyOrAppend
<1>3. Len(s) = Len(f) + 1 /\ Len(f) \in Nat
  BY <1>2, AppendProperties
<1> QED
  BY <1>2, <1>3

LEMMA NumberBelow ==
    ASSUME NEW s \in Seq(Token!Char), Len(s) <= MaxLen
    PROVE  Number(s) \in 0..(Token!Power[Len(s)] - 1)
<1> DEFINE P == {n \in Nat : n <= MaxLen =>
                    \A t \in Seq(Token!Char) :
                        Len(t) = n => Number(t) \in 0..(Token!Power[n] - 1)}
<1>1. 0 \in P
  <2> SUFFICES ASSUME NEW t \in Seq(Token!Char), Len(t) = 0
               PROVE  Number(t) \in 0..(Token!Power[0] - 1)
    OBVIOUS
  <2>1. Len(t) <= MaxLen
    BY TokenConstants
  <2>2. Sums(t)[0] = 0
    BY <2>1, SumsUp
  <2> QED
    BY <2>2, Powers DEF Number
<1>2. ASSUME NEW n \in Nat, n \in P PROVE n + 1 \in P
  <2> SUFFICES ASSUME n + 1 <= MaxLen, NEW t \in Seq(Token!Char), Len(t) = n + 1
               PROVE  Number(t) \in 0..(Token!Power[n + 1] - 1)
    OBVIOUS
  <2>1. PICK f \in Seq(Token!Char), c \in Token!Char : t = Append(f, c) /\ Len(f) = n
    BY Shorter
  <2>2. Number(f) \in 0..(Token!Power[n] - 1)
    BY <1>2, <2>1, TokenConstants
  <2>3. Number(t) = Base * Number(f) + c
    BY <2>1, Horner, TokenConstants
  <2>4. Token!Power[n + 1] = Base * Token!Power[n] /\ Token!Power[n] \in Nat \ {0}
    <3>1. n + 1 \in 1..MaxLen /\ n \in 0..MaxLen /\ (n + 1) - 1 = n
      BY TokenConstants
    <3> QED
      BY <3>1, Powers
  <2>5. c \in 0..(Base - 1) /\ Base \in Nat /\ Base > 1
    BY TokenConstants DEF Token!Char
  <2> DEFINE x == Number(f)
             p == Token!Power[n]
  <2>6. x \in Nat /\ p \in Nat /\ x <= p - 1
    BY <2>2, <2>4
  <2> HIDE DEF x, p
  <2>7. Base * x <= Base * (p - 1) /\ Base * (p - 1) = Base * p - Base /\ Base * x \in Nat
        /\ Base * p \in Nat
    BY <2>5, <2>6
  <2>8. Base * x + c \in 0..(Base * p - 1)
    BY <2>5, <2>7
  <2> QED
    BY <2>3, <2>4, <2>8 DEF x, p
<1>3. \A n \in Nat : n \in P
  <2> HIDE DEF P
  <2> QED
    BY <1>1, <1>2, NatInduct
<1> QED
  BY <1>3

LEMMA PowersGrow == \A n \in 0..MaxLen : Token!Power[n] <= Token!Power[MaxLen]
<1> DEFINE P == {k \in Nat : k <= MaxLen => Token!Power[MaxLen - k] <= Token!Power[MaxLen]}
<1>0. MaxLen \in Nat /\ Base \in Nat /\ Base > 1
  BY TokenConstants
<1>1. 0 \in P
  BY <1>0, Powers
<1>2. ASSUME NEW k \in Nat, k \in P PROVE k + 1 \in P
  <2> SUFFICES ASSUME k + 1 <= MaxLen
               PROVE  Token!Power[MaxLen - (k + 1)] <= Token!Power[MaxLen]
    OBVIOUS
  <2> DEFINE n == MaxLen - k
             p == Token!Power[n - 1]
             q == Token!Power[n]
             m == Token!Power[MaxLen]
  <2>1. /\ n \in 1..MaxLen /\ n - 1 \in 0..MaxLen /\ n \in 0..MaxLen /\ MaxLen \in 0..MaxLen
        /\ n - 1 = MaxLen - (k + 1)
    BY <1>0
  <2>2. q = Base * p /\ p \in Nat /\ q \in Nat /\ m \in Nat
    <3> HIDE DEF n
    <3> QED
      BY <2>1, Powers
  <2>3. q <= m
    BY <1>0, <1>2
  <2> HIDE DEF n, p, q, m
  <2>4. p <= q
    BY <1>0, <2>2
  <2> QED
    BY <2>1, <2>2, <2>3, <2>4 DEF p, m
<1>3. \A k \in Nat : k \in P
  <2> HIDE DEF P
  <2> QED
    BY <1>1, <1>2, NatInduct
<1> QED
  <2> SUFFICES ASSUME NEW n \in 0..MaxLen PROVE Token!Power[n] <= Token!Power[MaxLen]
    OBVIOUS
  <2>1. MaxLen - n \in Nat /\ MaxLen - n <= MaxLen /\ MaxLen - (MaxLen - n) = n
    BY <1>0
  <2>2. MaxLen - n \in P
    BY <1>3, <2>1
  <2> QED
    BY <2>1, <2>2


(* MarshalText stops, and puts the last character last.                    *)
Chars(t) == CHOOSE chars : chars = [n \in 0..t |->
               IF n = 0 THEN <<>> ELSE Append(chars[n \div Base], n % Base)]

LEMMA Quotients ==
    ASSUME NEW n \in Nat
    PROVE  /\ n \div Base \in Nat /\ n % Base \in Token!Char
           /\ n = Base * (n \div Base) + (n % Base)
           /\ n > 0 => n \div Base \in 0..(n - 1)
<1>1. Base \in Nat /\ Base > 1
  BY TokenConstants
<1>2. n \div Base \in Nat /\ n % Base \in 0..(Base - 1) /\ n = Base * (n \div Base) + (n % Base)
  BY <1>1
<1> DEFINE q == n \div Base
           m == n % Base
<1>3. q \in Nat /\ m \in Nat /\ n = Base * q + m
  BY <1>1, <1>2
<1> HIDE DEF q, m
<1>4. 2 * q <= n
  <2>1. Base * q >= 2 * q /\ Base * q \in Nat
    BY <1>1, <1>3
  <2> QED
    BY <1>3, <2>1
<1>5. n > 0 => q \in 0..(n - 1)
  <2>1. q \in Nat
    BY <1>3
  <2> QED
    BY <1>4, <2>1
<1> QED
  BY <1>2, <1>5 DEF q, Token!Char

LEMMA CharsExist ==
    ASSUME NEW t \in Nat
    PROVE  /\ Chars(t)[0] = <<>>
           /\ \A n \in 1..t : Chars(t)[n] = Append(Chars(t)[n \div Base], n % Base)
<1> DEFINE Folds(k, g) == g = [n \in 0..k |->
                             IF n = 0 THEN <<>> ELSE Append(g[n \div Base], n % Base)]
           P == {k \in Nat : \E g : Folds(k, g)}
<1>1. 0 \in P
  <2> DEFINE g == [n \in 0..0 |-> <<>>]
  <2>1. Folds(0, g)
    OBVIOUS
  <2> QED
    BY <2>1
<1>2. ASSUME NEW k \in Nat, k \in P PROVE k + 1 \in P
  <2>1. PICK g : Folds(k, g)
    BY <1>2
  <2> DEFINE h == [n \in 0..(k + 1) |->
                      IF n = k + 1 THEN Append(g[n \div Base], n % Base) ELSE g[n]]
  <2>2. ASSUME NEW n \in 0..(k + 1), n # 0
        PROVE  h[n] = Append(h[n \div Base], n % Base)
    <3> DEFINE q == n \div Base
               m == n % Base
    <3>1. q \in 0..(n - 1)
      BY <2>2, Quotients
    <3> HIDE DEF q
    <3>2. h[q] = g[q]
      BY <3>1
    <3>3. CASE n = k + 1
      BY <3>2, <3>3 DEF q
    <3>4. CASE n # k + 1
      <4>1. h[n] = g[n] /\ n \in 0..k
        BY <3>4
      <4>2. g[n] = Append(g[q], m)
        BY <2>1, <2>2, <4>1 DEF q
      <4> QED
        BY <3>2, <4>1, <4>2 DEF q
    <3> QED
      BY <3>3, <3>4
  <2>3. h[0] = <<>>
    BY <2>1
  <2>4. \A n \in 0..(k + 1) : h[n] = IF n = 0 THEN <<>> ELSE Append(h[n \div Base], n % Base)
    BY <2>2, <2>3
  <2>5. Folds(k + 1, h)
    <3>1. h = [n \in 0..(k + 1) |-> h[n]]
      OBVIOUS
    <3> HIDE DEF h
    <3> QED
      BY <2>4, <3>1
  <2> HIDE DEF Folds
  <2> QED
    BY <2>5
<1>3. \A k \in Nat : k \in P
  <2> HIDE DEF P
  <2> QED
    BY <1>1, <1>2, NatInduct
<1>4. PICK g : Folds(t, g)
  BY <1>3
<1> DEFINE chars == CHOOSE f : Folds(t, f)
<1>5. Folds(t, chars)
  <2> HIDE DEF Folds
  <2> QED
    BY <1>4
<1>6. chars = Chars(t)
  BY DEF Chars
<1> HIDE DEF chars
<1>7. \A n \in 0..t : chars[n] = IF n = 0 THEN <<>> ELSE Append(chars[n \div Base], n % Base)
  <2> DEFINE next == [n \in 0..t |->
                        IF n = 0 THEN <<>> ELSE Append(chars[n \div Base], n % Base)]
  <2>1. chars = next
    BY <1>5
  <2>2. \A n \in 0..t :
           next[n] = IF n = 0 THEN <<>> ELSE Append(chars[n \div Base], n % Base)
    BY Zenon
  <2> HIDE DEF next
  <2>3. \A n : chars[n] = next[n]
    BY <2>1
  <2> QED
    BY <2>2, <2>3
<1>8. chars[0] = <<>> /\ \A n \in 1..t : chars[n] = Append(chars[n \div Base], n % Base)
  <2>1. 0 \in 0..t /\ \A n \in 1..t : n \in 0..t /\ n # 0
    OBVIOUS
  <2> QED
    BY <1>7, <2>1, Zenon
<1> QED
  BY <1>6, <1>8

LEMMA CharsAgree == \A n, t \in Nat : n <= t => Chars(t)[n] = Chars(n)[n]
<1> DEFINE P == {n \in Nat : \A t \in Nat : n <= t => Chars(t)[n] = Chars(n)[n]}
<1>1. ASSUME NEW n \in Nat, \A m \in 0..(n - 1) : m \in P PROVE n \in P
  <2> SUFFICES ASSUME NEW t \in Nat, n <= t PROVE Chars(t)[n] = Chars(n)[n]
    OBVIOUS
  <2>1. CASE n = 0
    BY <2>1, CharsExist
  <2>2. CASE n # 0
    <3> DEFINE q == n \div Base
    <3>1. q \in 0..(n - 1) /\ q \in Nat /\ q <= t /\ q <= n /\ n \in 1..t /\ n \in 1..n
      BY <2>2, Quotients
    <3>2. Chars(t)[n] = Append(Chars(t)[q], n % Base) /\ Chars(n)[n] = Append(Chars(n)[q], n % Base)
      <4> HIDE DEF q
      <4>1. Chars(t)[n] = Append(Chars(t)[n \div Base], n % Base)
        BY <3>1, CharsExist
      <4>2. Chars(n)[n] = Append(Chars(n)[n \div Base], n % Base)
        BY <3>1, CharsExist
      <4> QED
        BY <4>1, <4>2 DEF q
    <3> HIDE DEF q
    <3>3. q \in P
      BY <1>1, <3>1
    <3>4. Chars(t)[q] = Chars(q)[q] /\ Chars(n)[q] = Chars(q)[q]
      BY <3>1, <3>3
    <3> QED
      BY <3>2, <3>4
  <2> QED
    BY <2>1, <2>2
<1>2. \A n \in Nat : n \in P
  <2> HIDE DEF P
  <2> QED
    BY <1>1, NatStrong
<1> QED
  BY <1>2

LEMMA EncodeStep ==
    /\ Token!Encode(0) = <<>>
    /\ \A t \in Nat \ {0} : Token!Encode(t) = Append(Token!Encode(t \div Base), t % Base)
    /\ \A t \in Nat : Token!Encode(t) \in Seq(Token!Char)
<1>1. \A t : Token!Encode(t) = Chars(t)[t]
  BY DEF Token!Encode, Chars
<1>2. Token!Encode(0) = <<>>
  BY <1>1, CharsExist
<1>3. ASSUME NEW t \in Nat \ {0}
      PROVE  Token!Encode(t) = Append(Token!Encode(t \div Base), t % Base)
  <2> DEFINE q == t \div Base
  <2>1. q \in Nat /\ q <= t /\ t \in 1..t
    BY Quotients
  <2>2. Chars(t)[t] = Append(Chars(t)[t \div Base], t % Base)
    BY <2>1, CharsExist
  <2> HIDE DEF q
  <2>3. Chars(t)[q] = Chars(q)[q]
    BY <2>1, CharsAgree
  <2> QED
    BY <1>1, <2>2, <2>3 DEF q
<1> DEFINE P == {t \in Nat : Token!Encode(t) \in Seq(Token!Char)}
<1>4. ASSUME NEW t \in Nat, \A m \in 0..(t - 1) : m \in P PROVE t \in P
  <2>1. CASE t = 0
    <3>1. <<>> \in Seq(Token!Char)
      OBVIOUS
    <3> QED
      BY <1>2, <2>1, <3>1
  <2>2. CASE t # 0
    <3>1. t \div Base \in P /\ t % Base \in Token!Char
      BY <1>4, <2>2, Quotients
    <3>2. Token!Encode(t \div Base) \in Seq(Token!Char)
      BY <3>1
    <3>3. Append(Token!Encode(t \div Base), t % Base) \in Seq(Token!Char)
      BY <3>1, <3>2, AppendProperties
    <3> QED
      BY <1>3, <2>2, <3>3
  <2> QED
    BY <2>1, <2>2
<1>5. \A t \in Nat : t \in P
  <2> HIDE DEF P
  <2> QED
    BY <1>4, NatStrong
<1> QED
  BY <1>2, <1>3, <1>5


Nils(z) == [i \in 1..z |-> 0]

LEMMA NilsGrow ==
    ASSUME NEW z \in Nat
    PROVE  /\ Nils(z) \in Seq(Token!Char) /\ Len(Nils(z)) = z
           /\ Nils(0) = <<>> /\ Nils(z + 1) = Append(Nils(z), 0)
<1>1. 0 \in Token!Char
  BY TokenConstants DEF Token!Char
<1>2. \A k \in Nat : Nils(k) \in Seq(Token!Char) /\ Len(Nils(k)) = k /\ DOMAIN Nils(k) = 1..k
  BY <1>1 DEF Nils
<1>3. Nils(0) = <<>>
  BY DEF Nils
<1>4. Nils(z + 1) = Append(Nils(z), 0)
  <2> DEFINE s == Nils(z + 1)
             t == Append(Nils(z), 0)
  <2>1. s \in Seq(Token!Char) /\ Len(s) = z + 1
    BY <1>2
  <2>2. /\ t \in Seq(Token!Char) /\ Len(t) = z + 1
        /\ \A i \in 1..z : t[i] = Nils(z)[i]
        /\ t[z + 1] = 0
    <3> DEFINE u == Nils(z)
    <3>1. u \in Seq(Token!Char) /\ Len(u) = z
      BY <1>2
    <3> HIDE DEF u
    <3>2. /\ Append(u, 0) \in Seq(Token!Char) /\ Len(Append(u, 0)) = z + 1
          /\ \A i \in 1..z : Append(u, 0)[i] = u[i]
          /\ Append(u, 0)[z + 1] = 0
      BY <1>1, <3>1, AppendProperties
    <3> QED
      BY <3>2 DEF u
  <2>3. \A i \in 1..(z + 1) : s[i] = 0
    BY DEF Nils
  <2>4. \A i \in 1..z : Nils(z)[i] = 0
    BY DEF Nils
  <2>5. \A i \in 1..(z + 1) : s[i] = t[i]
    BY <2>2, <2>3, <2>4
  <2> HIDE DEF s, t
  <2>6. s = t
    BY <2>1, <2>2, <2>5, SeqEqual
  <2> QED
    BY <2>6 DEF s, t
<1> QED
  BY <1>2, <1>3, <1>4

LEMMA QuotientBack ==
    ASSUME NEW b \in Nat \ {0}, NEW x \in Nat, NEW c \in 0..(b - 1)
    PROVE  (b * x + c) \div b = x /\ (b * x + c) % b = c
<1> DEFINE y == b * x + c
           q == y \div b
           m == y % b
<1>1. b * x \in Nat /\ y \in Nat /\ y = b * x + c
  OBVIOUS
<1> HIDE DEF y
<1>2. q \in Int /\ m \in 0..(b - 1) /\ y = b * q + m
  BY <1>1
<1> HIDE DEF q, m
<1>3. b * (x - q) = m - c
  BY <1>1, <1>2
<1>4. m - c < b /\ m - c > -b
  BY <1>2
<1>5. CASE x - q >= 1
  <2>1. b * (x - q) >= b
    BY <1>2, <1>5
  <2> QED
    BY <1>2, <1>3, <1>4, <2>1
<1>6. CASE x - q <= -1
  <2>1. b * (x - q) <= -b
    BY <1>2, <1>6
  <2> QED
    BY <1>2, <1>3, <1>4, <2>1
<1>7. CASE x = q
  <2>1. m = c
    BY <1>2, <1>3, <1>7
  <2> QED
    BY <1>7, <2>1 DEF y, q, m
<1> QED
  BY <1>2, <1>5, <1>6, <1>7

LEMMA AppendLast ==
    ASSUME NEW S, NEW s \in Seq(S), NEW t \in Seq(S), NEW c \in S
    PROVE  /\ s \o Append(t, c) = Append(s \o t, c)
           /\ s \o t \in Seq(S) /\ Len(s \o t) = Len(s) + Len(t)
           /\ Len(s \o Append(t, c)) = Len(s \o t) + 1
  OBVIOUS

LEMMA NothingWritten == \A z \in Nat : Nils(z) \o Token!Encode(0) = Nils(z)
<1> TAKE z \in Nat
<1>1. Nils(z) \in Seq(Token!Char) /\ Token!Encode(0) = <<>>
  BY NilsGrow, EncodeStep
<1> HIDE DEF Nils
<1> QED
  BY <1>1, ConcatEmptySeq

Fits(s) == \E z \in 0..Len(s) : s = Nils(z) \o Token!Encode(Number(s))

(* A row of characters is zeros and the number that it is read as.         *)
LEMMA NumberWritten ==
    ASSUME NEW s \in Seq(Token!Char), Len(s) <= MaxLen
    PROVE  Fits(s)
<1> DEFINE P == {n \in Nat : n <= MaxLen => \A t \in Seq(Token!Char) : Len(t) = n => Fits(t)}
<1>0. MaxLen \in Nat /\ Base \in Nat /\ Base > 1
  BY TokenConstants
<1>1. 0 \in P
  <2> SUFFICES ASSUME NEW t \in Seq(Token!Char), Len(t) = 0 PROVE Fits(t)
    OBVIOUS
  <2>1. t = <<>> /\ Len(t) <= MaxLen
    BY <1>0
  <2>2. Number(t) = 0
    <3>1. Sums(t)[0] = 0
      BY <2>1, SumsUp
    <3> QED
      BY <3>1 DEF Number
  <2>3. <<>> = Nils(0) \o Token!Encode(0)
    <3>1. Nils(0) = <<>>
      BY DEF Nils
    <3>2. Token!Encode(0) = <<>>
      BY EncodeStep
    <3>3. <<>> \o <<>> = <<>>
      OBVIOUS
    <3> QED
      BY <3>1, <3>2, <3>3
  <2>4. 0 \in 0..Len(t)
    OBVIOUS
  <2> QED
    BY <2>1, <2>2, <2>3, <2>4 DEF Fits
<1>2. ASSUME NEW n \in Nat, n \in P PROVE n + 1 \in P
  <2> SUFFICES ASSUME n + 1 <= MaxLen, NEW t \in Seq(Token!Char), Len(t) = n + 1 PROVE Fits(t)
    OBVIOUS
  <2>1. PICK f \in Seq(Token!Char), c \in Token!Char : t = Append(f, c) /\ Len(f) = n
    BY Shorter
  <2> DEFINE x == Number(f)
             y == Number(t)
  <2>2. PICK z \in 0..n : f = Nils(z) \o Token!Encode(x)
    <3>1. n <= MaxLen
      BY <1>0
    <3>2. Fits(f)
      BY <1>2, <2>1, <3>1
    <3> QED
      BY <2>1, <3>2 DEF Fits
  <2>3. y = Base * x + c /\ x \in Nat /\ c \in 0..(Base - 1)
    <3>1. Number(f) \in 0..(Token!Power[Len(f)] - 1)
      BY <1>0, <2>1, NumberBelow
    <3>2. Len(f) < MaxLen
      BY <1>0, <2>1
    <3> QED
      BY <2>1, <3>1, <3>2, Horner DEF Token!Char
  <2> HIDE DEF x, y
  <2>4. z \in Nat /\ Nils(z) \in Seq(Token!Char) /\ Nils(z + 1) = Append(Nils(z), 0)
    <3>1. z \in Nat
      OBVIOUS
    <3> QED
      BY <3>1, NilsGrow
  <2>5. Token!Encode(x) \in Seq(Token!Char)
    BY <2>3, EncodeStep
  <2>6. CASE y = 0
    <3>1. x = 0 /\ c = 0
      <4>1. Base * x \in Nat /\ Base * x >= x
        BY <1>0, <2>3
      <4> QED
        BY <2>3, <2>6, <4>1
    <3>2. f = Nils(z)
      BY <2>2, <2>4, <3>1, NothingWritten
    <3>3. t = Nils(z + 1)
      BY <2>1, <2>4, <3>1, <3>2
    <3>4. t = Nils(z + 1) \o Token!Encode(y)
      <4>1. z + 1 \in Nat
        BY <2>4
      <4>2. Nils(z + 1) \o Token!Encode(0) = Nils(z + 1)
        BY <4>1, NothingWritten
      <4> QED
        BY <2>6, <3>3, <4>2
    <3>5. z + 1 \in 0..(n + 1)
      BY <2>2
    <3> QED
      BY <2>1, <3>4, <3>5 DEF y, Fits
  <2>7. CASE y # 0
    <3>1. y \in Nat \ {0} /\ y \div Base = x /\ y % Base = c
      <4>1. Base * x \in Nat /\ c \in Nat
        BY <1>0, <2>3
      <4>2. y \in Nat \ {0}
        BY <2>3, <2>7, <4>1
      <4>3. Base \in Nat \ {0} /\ c \in 0..(Base - 1)
        BY <1>0, <2>3
      <4>4. (Base * x + c) \div Base = x /\ (Base * x + c) % Base = c
        BY <2>3, <4>3, QuotientBack
      <4> QED
        BY <2>3, <4>2, <4>4, Zenon
    <3>2. Token!Encode(y) = Append(Token!Encode(x), c)
      BY <3>1, EncodeStep
    <3>3. Nils(z) \o Append(Token!Encode(x), c) = Append(Nils(z) \o Token!Encode(x), c)
      BY <2>1, <2>4, <2>5, AppendLast
    <3>4. t = Nils(z) \o Token!Encode(y)
      BY <2>1, <2>2, <3>2, <3>3
    <3>5. z \in 0..(n + 1)
      BY <2>2
    <3> QED
      BY <2>1, <3>4, <3>5 DEF y, Fits
  <2> QED
    BY <2>6, <2>7
<1>3. \A n \in Nat : n \in P
  <2> HIDE DEF P
  <2> QED
    BY <1>1, <1>2, NatInduct
<1> QED
  BY <1>3

(* And zeros and a number are read as that number.                         *)
LEMMA NumberRead ==
    ASSUME NEW z \in Nat, NEW n \in Nat, Len(Nils(z) \o Token!Encode(n)) <= MaxLen
    PROVE  Number(Nils(z) \o Token!Encode(n)) = n
<1>0. MaxLen \in Nat /\ Base \in Nat /\ Base > 1 /\ 0 \in Token!Char
  BY TokenConstants DEF Token!Char
<1> DEFINE Z == {k \in Nat : k <= MaxLen => Number(Nils(k)) = 0}
<1>1. \A k \in Nat : k \in Z
  <2>1. 0 \in Z
    <3>1. Nils(0) \in Seq(Token!Char) /\ Len(Nils(0)) = 0 /\ Len(Nils(0)) <= MaxLen
      BY <1>0, NilsGrow
    <3>2. Sums(Nils(0))[0] = 0
      BY <3>1, SumsUp
    <3> QED
      BY <3>1, <3>2 DEF Number
  <2>2. ASSUME NEW k \in Nat, k \in Z PROVE k + 1 \in Z
    <3> SUFFICES ASSUME k + 1 <= MaxLen PROVE Number(Nils(k + 1)) = 0
      OBVIOUS
    <3>1. /\ Nils(k) \in Seq(Token!Char) /\ Len(Nils(k)) = k
          /\ Nils(k + 1) = Append(Nils(k), 0)
      BY NilsGrow
    <3>2. Len(Nils(k)) < MaxLen
      BY <1>0, <3>1
    <3>3. Number(Append(Nils(k), 0)) = Base * Number(Nils(k)) + 0
      BY <1>0, <3>1, <3>2, Horner
    <3>4. Number(Nils(k)) = 0
      BY <1>0, <2>2
    <3>5. Base * 0 + 0 = 0
      BY <1>0
    <3> QED
      BY <3>1, <3>3, <3>4, <3>5
  <2> HIDE DEF Z
  <2> QED
    BY <2>1, <2>2, NatInduct
<1> DEFINE Row(m) == Nils(z) \o Token!Encode(m)
           P == {m \in Nat : Len(Row(m)) <= MaxLen => Number(Row(m)) = m}
<1>2. Nils(z) \in Seq(Token!Char) /\ Len(Nils(z)) = z
  BY NilsGrow
<1>3. ASSUME NEW m \in Nat, \A k \in 0..(m - 1) : k \in P PROVE m \in P
  <2> SUFFICES ASSUME Len(Row(m)) <= MaxLen PROVE Number(Row(m)) = m
    OBVIOUS
  <2>1. CASE m = 0
    <3>1. Row(0) = Nils(z)
      BY NothingWritten
    <3>2. z \in Z /\ z <= MaxLen
      BY <1>1, <1>2, <2>1, <3>1
    <3> QED
      BY <2>1, <3>1, <3>2
  <2>2. CASE m # 0
    <3> DEFINE q == m \div Base
               c == m % Base
    <3>1. q \in 0..(m - 1) /\ q \in Nat /\ c \in Token!Char /\ m = Base * q + c
      BY <2>2, Quotients
    <3>2. Token!Encode(m) = Append(Token!Encode(q), c)
      BY <2>2, EncodeStep
    <3> HIDE DEF q, c
    <3>3. Token!Encode(q) \in Seq(Token!Char)
      BY <3>1, EncodeStep
    <3>4. /\ Row(m) = Append(Row(q), c) /\ Row(q) \in Seq(Token!Char)
          /\ Len(Row(m)) = Len(Row(q)) + 1 /\ Len(Row(q)) \in Nat
      <4> DEFINE u == Nils(z)
                 w_ == Token!Encode(q)
      <4>1. u \in Seq(Token!Char) /\ w_ \in Seq(Token!Char)
        BY <1>2, <3>3
      <4> HIDE DEF u, w_
      <4>2. c \in Token!Char
        BY <3>1
      <4>3. /\ u \o Append(w_, c) = Append(u \o w_, c) /\ u \o w_ \in Seq(Token!Char)
            /\ Len(u \o Append(w_, c)) = Len(u \o w_) + 1
        BY <4>1, <4>2, AppendLast
      <4>4. Len(u \o w_) \in Nat
        BY <4>3
      <4> QED
        BY <3>2, <4>3, <4>4 DEF u, w_
    <3>5. q \in P
      BY <1>3, <3>1
    <3>6. Len(Row(q)) < MaxLen /\ Number(Row(q)) = q
      BY <1>0, <3>4, <3>5
    <3> HIDE DEF Row
    <3>7. Number(Append(Row(q), c)) = Base * Number(Row(q)) + c
      BY <3>1, <3>4, <3>6, Horner
    <3> QED
      BY <3>1, <3>4, <3>6, <3>7
  <2> QED
    BY <2>1, <2>2
<1>4. \A m \in Nat : m \in P
  <2> HIDE DEF P
  <2> QED
    BY <1>3, NatStrong
<1> QED
  BY <1>4


-----------------------------------------------------------------------------
(* What the bot has read is what was typed.                                *)
CodeInv ==
    /\ Token!TypeOK
    /\ tokenPc = "read" =>
          /\ error = Token!ErrorOf(typed)
          /\ number = IF error = "none" THEN Token!Value(typed) ELSE 0

LEMMA CharsAreRead ==
    ASSUME NEW s \in Seq(Token!Char \union {Bad}), Token!ErrorOf(s) = "none"
    PROVE  /\ s \in Seq(Token!Char) /\ Len(s) \in 1..MaxLen
           /\ Token!Value(s) = Number(s) /\ Number(s) \in 0..(Token!Power[MaxLen] - 1)
<1>1. Len(s) \in Nat /\ Len(s) <= MaxLen /\ Len(s) >= 1 /\ \A i \in DOMAIN s : s[i] \in Token!Char
  BY TokenConstants DEF Token!ErrorOf
<1>2. s \in Seq(Token!Char)
  BY <1>1
<1>3. Number(s) \in 0..(Token!Power[Len(s)] - 1)
  BY <1>1, <1>2, NumberBelow
<1>4. Token!Power[Len(s)] <= Token!Power[MaxLen] /\ Token!Power[Len(s)] \in Nat
      /\ Token!Power[MaxLen] \in Nat
  <2>1. Len(s) \in 0..MaxLen /\ MaxLen \in 0..MaxLen
    BY <1>1, TokenConstants
  <2> QED
    BY <2>1, Powers, PowersGrow
<1>5. Number(s) \in 0..(Token!Power[MaxLen] - 1)
  BY <1>3, <1>4
<1>6. Word \in Nat \ {0} /\ Number(s) \in 0..(Word - 1)
  BY <1>4, <1>5, TokenConstants
<1>7. Number(s) % Word = Number(s)
  <2> DEFINE x == Number(s)
  <2>1. x \in Int /\ x \in 0..(Word - 1)
    BY <1>6
  <2> HIDE DEF x
  <2>2. x % Word = x
    BY <1>6, <2>1, ModFacts
  <2> QED
    BY <2>2 DEF x
<1> QED
  BY <1>1, <1>2, <1>5, <1>7, ValueIsNumber

LEMMA CodeStart == Token!Init => CodeInv
<1> SUFFICES ASSUME Token!Init PROVE CodeInv
  OBVIOUS
<1> DEFINE top == Token!Power[DefaultLen]
           all == Token!Power[MaxLen]
<1>1. top \in Nat \ {0} /\ all \in Nat \ {0}
  BY TokenConstants, Powers
<1>2. Rows \subseteq 0..(top - 1)
  BY TokenAssumption DEF Token!RowAssumption
<1> HIDE DEF top, all
<1>3. rows \subseteq 0..(top - 1) /\ code \in 0..(top - 1) /\ number \in 0..(all - 1)
  BY <1>1, <1>2 DEF Token!Init
<1> QED
  BY <1>3 DEF CodeInv, Token!TypeOK, Token!Init, Token!Errors, top, all

LEMMA CodeStep == CodeInv /\ Token!Next => CodeInv'
<1> SUFFICES ASSUME CodeInv, Token!Next PROVE CodeInv'
  OBVIOUS
<1> DEFINE top == Token!Power[DefaultLen]
           all == Token!Power[MaxLen]
<1>1. top \in Nat \ {0} /\ all \in Nat \ {0}
  BY TokenConstants, Powers
<1>2. Rows \subseteq 0..(top - 1)
  BY TokenAssumption DEF Token!RowAssumption
<1>3. /\ rows \subseteq 0..(top - 1) /\ code \in 0..(top - 1)
      /\ typed \in Seq(Token!Char \union {Bad}) /\ error \in Token!Errors
      /\ number \in 0..(all - 1)
  BY DEF CodeInv, Token!TypeOK
<1> HIDE DEF top, all
<1>4. CASE Token!Issue
  <2>1. tokenPc' = "shown" /\ rows' \subseteq 0..(top - 1) /\ code' \in 0..(top - 1)
        /\ typed' = typed /\ error' = error /\ number' = number
    BY <1>3, <1>4 DEF Token!Issue, top
  <2> QED
    BY <1>3, <2>1 DEF CodeInv, Token!TypeOK, Token!Errors, top, all
<1>5. CASE Token!IssueElsewhere
  <2>1. tokenPc' = "draw" /\ rows' \subseteq 0..(top - 1) /\ code' = code
        /\ typed' = typed /\ error' = error /\ number' = number
    BY <1>2, <1>3, <1>5 DEF Token!IssueElsewhere
  <2> QED
    BY <1>3, <2>1 DEF CodeInv, Token!TypeOK, Token!Errors, top, all
<1>6. CASE Token!Type
  <2>1. tokenPc' = "typed" /\ rows' = rows /\ code' = code /\ error' = error /\ number' = number
    BY <1>6 DEF Token!Type
  <2>2. typed' \in Seq(Token!Char \union {Bad})
    <3>1. CASE typed' = Token!Encode(code)
      <4>1. Token!Encode(code) \in Seq(Token!Char)
        BY <1>1, <1>3, EncodeStep
      <4> QED
        BY <3>1, <4>1, SeqMonotonic
    <3>2. CASE typed' \in Typos
      BY <3>2, TokenConstants
    <3> QED
      BY <1>6, <3>1, <3>2 DEF Token!Type
  <2> QED
    BY <1>3, <2>1, <2>2 DEF CodeInv, Token!TypeOK, Token!Errors, top, all
<1>7. CASE Token!Decode
  <2>1. /\ tokenPc' = "read" /\ rows' = rows /\ code' = code /\ typed' = typed
        /\ error' = Token!ErrorOf(typed')
        /\ number' = IF error' = "none" THEN Token!Value(typed') ELSE 0
    BY <1>7 DEF Token!Decode
  <2>2. error' \in Token!Errors
    BY <2>1 DEF Token!ErrorOf, Token!Errors
  <2>3. number' \in 0..(all - 1)
    <3>1. CASE error' = "none"
      BY <1>3, <2>1, <3>1, CharsAreRead DEF all
    <3>2. CASE error' # "none"
      BY <1>1, <2>1, <3>2
    <3> QED
      BY <3>1, <3>2
  <2> QED
    BY <1>3, <2>1, <2>2, <2>3 DEF CodeInv, Token!TypeOK, Token!Errors, top, all
<1> QED
  BY <1>4, <1>5, <1>6, <1>7 DEF Token!Next

LEMMA CodeRead == CodeInv => Token!ReadAsIssued
<1> DEFINE taken == error = "none" /\ number = code
           shown == /\ Len(typed) \in 1..MaxLen
                    /\ \E zeros \in 0..MaxLen :
                          typed = [i \in 1..zeros |-> 0] \o Token!Encode(code)
<1> SUFFICES ASSUME CodeInv, tokenPc = "read" PROVE taken = shown
  BY DEF Token!ReadAsIssued
<1>1. /\ error = Token!ErrorOf(typed) /\ number = IF error = "none" THEN Token!Value(typed) ELSE 0
      /\ typed \in Seq(Token!Char \union {Bad}) /\ code \in Nat
  <2>1. Token!Power[DefaultLen] \in Nat
    BY TokenConstants, Powers
  <2> QED
    BY <2>1 DEF CodeInv, Token!TypeOK
<1>2. ASSUME taken PROVE shown
  <2>1. /\ typed \in Seq(Token!Char) /\ Len(typed) \in 1..MaxLen
        /\ Token!Value(typed) = Number(typed)
    BY <1>1, <1>2, CharsAreRead
  <2>2. Len(typed) <= MaxLen
    BY <2>1, TokenConstants
  <2>3. PICK z \in 0..Len(typed) : typed = Nils(z) \o Token!Encode(Number(typed))
    BY <2>1, <2>2, NumberWritten DEF Fits
  <2>4. Number(typed) = code
    BY <1>1, <1>2, <2>1
  <2>5. z \in 0..MaxLen
    BY <2>1, <2>2, <2>3, TokenConstants
  <2> QED
    BY <2>1, <2>3, <2>4, <2>5 DEF Nils
<1>3. ASSUME shown PROVE taken
  <2>1. PICK z \in 0..MaxLen : typed = Nils(z) \o Token!Encode(code)
    BY <1>3 DEF Nils
  <2>2. z \in Nat /\ Len(typed) >= 1 /\ Len(typed) <= MaxLen /\ Len(typed) \in Nat
    BY <1>3, <2>1, TokenConstants
  <2>3. typed \in Seq(Token!Char)
    <3>1. Nils(z) \in Seq(Token!Char)
      BY <2>2, NilsGrow
    <3>2. Token!Encode(code) \in Seq(Token!Char)
      BY <1>1, EncodeStep
    <3> HIDE DEF shown
    <3>3. Nils(z) \o Token!Encode(code) \in Seq(Token!Char)
      BY <3>1, <3>2, ConcatProperties
    <3> QED
      BY <2>1, <3>3
  <2>4. \A i \in DOMAIN typed : typed[i] \in Token!Char
    BY <2>3
  <2>5. error = "none"
    BY <1>1, <2>2, <2>4, TokenConstants DEF Token!ErrorOf
  <2>6. Number(typed) = code
    BY <1>1, <2>1, <2>2, NumberRead
  <2>7. Token!Value(typed) = Number(typed)
    BY <1>1, <2>5, CharsAreRead
  <2> QED
    BY <1>1, <2>5, <2>6, <2>7
<1> HIDE DEF taken, shown
<1>4. taken \in BOOLEAN /\ shown \in BOOLEAN
  BY DEF taken, shown
<1> QED
  BY <1>2, <1>3, <1>4

CodePartInv == part = "token" => CodeInv

(* TokenCode: for every base, length of codes and width of the words, the  *)
(* bot takes a message for the code of the page exactly if it is the code, *)
(* with zeros in front or without, of 1 to MaxLen characters.              *)
THEOREM CodesReadAsIssued == PartsSpec => []ReadAsIssued
<1>1. PartsInit => CodePartInv
  BY CodeStart DEF PartsInit, CodePartInv
<1>2. CodePartInv /\ [SplitNext \/ CodecNext \/ TokenNext \/ SessionNext]_allVars => CodePartInv'
  <2> SUFFICES ASSUME CodePartInv, [SplitNext \/ CodecNext \/ TokenNext \/ SessionNext]_allVars
               PROVE  CodePartInv'
    OBVIOUS
  <2>1. CASE TokenNext
    <3>1. part = "token" /\ Token!Next
      BY <2>1 DEF TokenNext
    <3> QED
      BY <3>1, CodeStep DEF CodePartInv
  <2>2. CASE SplitNext \/ CodecNext \/ SessionNext
    BY <2>2 DEF SplitNext, CodecNext, SessionNext, CodePartInv
  <2>3. CASE UNCHANGED allVars
    BY <2>3 DEF allVars, tokenVars, CodePartInv, CodeInv, Token!TypeOK, Token!ErrorOf
  <2> QED
    BY <2>1, <2>2, <2>3
<1>3. CodePartInv => ReadAsIssued
  BY CodeRead DEF CodePartInv, CodeInv, ReadAsIssued
<1> QED
  BY <1>1, <1>2, <1>3, PTL DEF PartsSpec

-----------------------------------------------------------------------------
(***************************************************************************)
(* Links.  Encoding puts the fields into the buffer one after the other,   *)
(* and no later field or larger buffer disturbs them; a link is the        *)
(* beginning of it; and decoding finds each of them where it was put.      *)
(***************************************************************************)

LEMMA CodecConstants ==
    /\ Byte \in Nat /\ Byte > 1
    /\ Cap \in Nat /\ Cap >= 8 /\ Spare \in Nat /\ BlockSize \in Nat /\ BlockSize > 0
    /\ \A m \in Messages : Codec!Message(m)
  BY CodecAssumption DEF Codec!SizeAssumption, Codec!MessageAssumption

(* Of any base, as of Base: the powers exist.                              *)
LEMMA BytePowers ==
    /\ Codec!Power[0] = 1
    /\ \A n \in 1..8 : Codec!Power[n] = Byte * Codec!Power[n - 1]
    /\ \A n \in 0..8 : Codec!Power[n] \in Nat \ {0}
<1> DEFINE Pos == Nat \ {0}
           one == 1
           top == 8
           step == [n \in 1..top |-> [v \in Pos |-> Byte * v]]
           Folds(g) == g = [n \in 0..8 |-> IF n = 0 THEN 1 ELSE Byte * g[n - 1]]
           power == CHOOSE g : Folds(g)
<1>1. top \in Nat /\ Byte \in Nat \ {0}
  BY CodecConstants
<1>2. \A v \in Nat \ {0} : Byte * v \in Nat \ {0}
  BY <1>1
<1>3. step \in [1..top -> [Pos -> Pos]] /\ one \in Pos
  BY <1>2
<1>4. \A n \in 1..top, v \in Pos : step[n][v] = Byte * v
  OBVIOUS
<1> HIDE DEF step, Pos, one, top
<1>5. PICK g \in [0..top -> Pos] : Iterates(g, top, one, step)
  BY <1>1, <1>3, Recursion
<1>6. ASSUME NEW n \in 1..top PROVE g[n] = Byte * g[n - 1]
  <2>1. n - 1 \in 0..top
    BY <1>1
  <2>2. g[n - 1] \in Pos
    BY <2>1
  <2> QED
    BY <1>4, <1>5, <2>2 DEF Iterates
<1>7. Folds(g)
  <2>1. \A n \in 0..top : g[n] = IF n = 0 THEN 1 ELSE Byte * g[n - 1]
    BY <1>1, <1>5, <1>6 DEF one, Iterates
  <2> QED
    BY <1>5, <2>1 DEF one, top
<1>8. Folds(power)
  <2> HIDE DEF Folds
  <2> QED
    BY <1>7
<1>9. power = Codec!Power
  BY DEF Codec!Power
<1> HIDE DEF power
<1>10. power[0] = 1 /\ \A n \in 1..8 : power[n] = Byte * power[n - 1]
  BY <1>1, <1>8
<1> DEFINE P == {n \in Nat : n <= 8 => power[n] \in Nat \ {0}}
<1>11. \A n \in Nat : n \in P
  <2>1. 0 \in P
    BY <1>10
  <2>2. ASSUME NEW n \in Nat, n \in P PROVE n + 1 \in P
    <3> SUFFICES ASSUME n + 1 <= 8 PROVE power[n + 1] \in Nat \ {0}
      OBVIOUS
    <3>1. power[n] \in Nat \ {0} /\ n + 1 \in 1..8 /\ (n + 1) - 1 = n
      BY <1>1, <2>2
    <3> QED
      BY <1>2, <1>10, <3>1
  <2> HIDE DEF P
  <2> QED
    BY <2>1, <2>2, NatInduct
<1> QED
  BY <1>9, <1>10, <1>11

LEMMA SizeFacts ==
    /\ \A k \in DOMAIN Codec!Size : Codec!Size[k] \in {1, 2, 4, 8}
    /\ Codec!Size["bool"] = 1 /\ Codec!Size["uint"] = 4 /\ Codec!Size["int"] = 4
    /\ {"string", "bytes", "slice", "map", "other"} \intersect DOMAIN Codec!Size = {}
    /\ "bool" \notin Codec!Signed /\ "uint" \notin Codec!Signed /\ "int" \in Codec!Signed
  BY DEF Codec!Size, Codec!Signed

-----------------------------------------------------------------------------
(* Digits, and the number that they are. *)

(* The word up to a digit, and that digit: Euclid, twice.                  *)
LEMMA DigitStep ==
    ASSUME NEW v \in Int, NEW p \in Nat \ {0}, NEW b \in Nat \ {0}
    PROVE  v % (b * p) = (v % p) + ((v \div p) % b) * p
<1> DEFINE q == v \div p
           r_ == v % p
           q2 == q \div b
           d == q % b
<1>1. q \in Int /\ r_ \in 0..(p - 1) /\ v = q * p + r_
  OBVIOUS
<1>2. q2 \in Int /\ d \in 0..(b - 1) /\ q = q2 * b + d
  <2> HIDE DEF q
  <2> QED
    BY <1>1
<1> DEFINE m == b * p
           low == d * p + r_
<1>3. m \in Nat \ {0}
  OBVIOUS
<1> HIDE DEF q, r_, q2, d
<1>4. v = q2 * m + low
  <2>1. v = (q2 * b + d) * p + r_
    BY <1>1, <1>2
  <2>2. (q2 * b + d) * p = (q2 * b) * p + d * p
    BY <1>1, <1>2
  <2>3. (q2 * b) * p = q2 * m
    BY <1>2
  <2> QED
    BY <1>1, <1>2, <2>1, <2>2, <2>3
<1>5. low \in 0..(m - 1)
  <2>1. d * p >= 0 /\ d * p \in Int
    BY <1>2
  <2>2. d * p <= (b - 1) * p
    BY <1>2
  <2>3. (b - 1) * p = m - p
    OBVIOUS
  <2> HIDE DEF m
  <2> QED
    BY <1>1, <1>3, <2>1, <2>2, <2>3
<1>6. \A x \in Int, k \in Int, n \in Nat \ {0} : \A l \in 0..(n - 1) : x = k * n + l => x % n = l
  OBVIOUS
<1> HIDE DEF low
<1>7. v % m = low
  <2> HIDE DEF m
  <2> QED
    BY <1>2, <1>3, <1>4, <1>5, <1>6
<1> QED
  BY <1>7 DEF m, low, r_, d, q

LEMMA ModNegative ==
    ASSUME NEW x \in Int, NEW m \in Nat \ {0}, -m <= x, x < 0
    PROVE  x % m = x + m
  OBVIOUS

ByteSums(b) == CHOOSE sum : sum = [i \in 0..Len(b) |->
                  IF i = 0 THEN 0 ELSE sum[i - 1] + b[i] * Codec!Power[i - 1]]

LEMMA BytesAdd ==
    ASSUME NEW b \in Seq(Codec!Bytes), Len(b) <= 8
    PROVE  /\ Codec!Unsigned(b) = ByteSums(b)[Len(b)]
           /\ ByteSums(b)[0] = 0
           /\ \A i \in 1..Len(b) : ByteSums(b)[i] = ByteSums(b)[i - 1] + b[i] * Codec!Power[i - 1]
           /\ \A i \in 0..Len(b) : ByteSums(b)[i] \in Nat
<1> DEFINE N == Len(b)
           step == [i \in 1..N |-> [v \in Nat |-> v + b[i] * Codec!Power[i - 1]]]
           zero == 0
           Folds(g) == g = [i \in 0..N |-> IF i = 0 THEN 0 ELSE g[i - 1] + b[i] * Codec!Power[i - 1]]
           sums == CHOOSE g : Folds(g)
<1>1. N \in Nat /\ N <= 8
  OBVIOUS
<1>2. ASSUME NEW i \in 1..N PROVE b[i] * Codec!Power[i - 1] \in Nat
  <2>1. b[i] \in Nat
    BY CodecConstants DEF Codec!Bytes
  <2>2. i - 1 \in 0..8
    BY <1>1
  <2>3. Codec!Power[i - 1] \in Nat
    BY <2>2, BytePowers
  <2> QED
    BY <2>1, <2>3
<1>3. step \in [1..N -> [Nat -> Nat]] /\ zero \in Nat
  BY <1>2
<1>4. \A i \in 1..N, v \in Nat : step[i][v] = v + b[i] * Codec!Power[i - 1]
  OBVIOUS
<1>5. sums = ByteSums(b) /\ Codec!Unsigned(b) = ByteSums(b)[N]
  BY DEF ByteSums, Codec!Unsigned
<1> HIDE DEF N, step, zero, sums
<1>6. PICK g \in [0..N -> Nat] : Iterates(g, N, zero, step)
  BY <1>1, <1>3, Recursion
<1>7. ASSUME NEW i \in 1..N PROVE g[i] = g[i - 1] + b[i] * Codec!Power[i - 1]
  <2>1. i - 1 \in 0..N
    BY <1>1
  <2>2. g[i - 1] \in Nat
    BY <2>1
  <2> QED
    BY <1>4, <1>6, <2>2 DEF Iterates
<1>8. Folds(g)
  <2>1. \A i \in 0..N : g[i] = IF i = 0 THEN 0 ELSE g[i - 1] + b[i] * Codec!Power[i - 1]
    BY <1>1, <1>6, <1>7 DEF zero, Iterates
  <2> QED
    BY <1>6, <2>1
<1>9. Folds(sums)
  <2> HIDE DEF Folds
  <2> QED
    BY <1>8 DEF sums
<1>10. sums[0] = 0 /\ \A i \in 1..N : sums[i] = sums[i - 1] + b[i] * Codec!Power[i - 1]
  BY <1>1, <1>9
<1> DEFINE P == {i \in Nat : i <= N => sums[i] \in Nat}
<1>11. \A i \in Nat : i \in P
  <2>1. 0 \in P
    BY <1>10
  <2>2. ASSUME NEW i \in Nat, i \in P PROVE i + 1 \in P
    <3> SUFFICES ASSUME i + 1 <= N PROVE sums[i + 1] \in Nat
      OBVIOUS
    <3>1. sums[i] \in Nat /\ i + 1 \in 1..N /\ (i + 1) - 1 = i
      BY <1>1, <2>2
    <3> QED
      BY <1>2, <1>10, <3>1
  <2> HIDE DEF P
  <2> QED
    BY <2>1, <2>2, NatInduct
<1> QED
  BY <1>5, <1>10, <1>11 DEF N

LEMMA DigitTypes ==
    ASSUME NEW v \in Int, NEW n \in 0..8
    PROVE  Codec!Digits(v, n) \in Seq(Codec!Bytes) /\ Len(Codec!Digits(v, n)) = n
<1>1. ASSUME NEW i \in 1..n PROVE (v \div Codec!Power[i - 1]) % Byte \in Codec!Bytes
  <2> DEFINE p == Codec!Power[i - 1]
             q == v \div p
  <2>1. p \in Nat \ {0}
    <3>1. i - 1 \in 0..8
      OBVIOUS
    <3> QED
      BY <3>1, BytePowers
  <2> HIDE DEF p
  <2>2. q \in Int
    BY <2>1
  <2> HIDE DEF q
  <2>3. q % Byte \in 0..(Byte - 1)
    BY <2>2, CodecConstants
  <2> QED
    BY <2>3 DEF q, p, Codec!Bytes
<1> QED
  BY <1>1 DEF Codec!Digits

(* The digits of a word are what the word is modulo the power.             *)
LEMMA DigitSum ==
    ASSUME NEW v \in Int, NEW n \in 0..8
    PROVE  Codec!Unsigned(Codec!Digits(v, n)) = v % Codec!Power[n]
<1> DEFINE b == Codec!Digits(v, n)
           sums == ByteSums(b)
           P == {k \in Nat : k <= n => sums[k] = v % Codec!Power[k]}
<1>1. b \in Seq(Codec!Bytes) /\ Len(b) = n
  BY DigitTypes
<1>2. \A i \in 1..n : b[i] = (v \div Codec!Power[i - 1]) % Byte
  BY DEF Codec!Digits
<1>3. n \in Nat /\ n <= 8
  OBVIOUS
<1> HIDE DEF b
<1>4. /\ Codec!Unsigned(b) = sums[n] /\ sums[0] = 0
      /\ \A i \in 1..n : sums[i] = sums[i - 1] + b[i] * Codec!Power[i - 1]
  BY <1>1, <1>3, BytesAdd
<1> HIDE DEF sums
<1>5. 0 \in P
  <2>1. v % 1 = 0
    OBVIOUS
  <2> QED
    BY <1>4, <2>1, BytePowers
<1>6. ASSUME NEW k \in Nat, k \in P PROVE k + 1 \in P
  <2> SUFFICES ASSUME k + 1 <= n PROVE sums[k + 1] = v % Codec!Power[k + 1]
    OBVIOUS
  <2>1. k + 1 \in 1..n /\ (k + 1) - 1 = k /\ k \in 0..8 /\ k + 1 \in 1..8
    BY <1>3
  <2> DEFINE p == Codec!Power[k]
  <2>2. p \in Nat \ {0} /\ Codec!Power[k + 1] = Byte * p /\ Byte \in Nat \ {0}
    BY <2>1, BytePowers, CodecConstants
  <2>3. sums[k + 1] = sums[k] + b[k + 1] * p /\ b[k + 1] = (v \div p) % Byte
    BY <1>2, <1>4, <2>1
  <2>4. sums[k] = v % p
    BY <1>3, <1>6, <2>1
  <2> HIDE DEF p
  <2>5. v % (Byte * p) = (v % p) + ((v \div p) % Byte) * p
    BY <2>2, DigitStep
  <2> QED
    BY <2>2, <2>3, <2>4, <2>5
<1>7. n \in P
  <2> HIDE DEF P
  <2> QED
    BY <1>3, <1>5, <1>6, NatInduct
<1> QED
  BY <1>3, <1>4, <1>7 DEF b

LEMMA WordDigits ==
    \A v \in Int : LET d == Codec!Digits(v, 8)
                  IN  d \in Seq(Codec!Bytes) /\ Len(d) = 8 /\ Codec!Unsigned(d) = v % Codec!Power[8]
<1> DEFINE n == 8
<1>1. n \in 0..8
  OBVIOUS
<1> HIDE DEF n
<1>2. ASSUME NEW v \in Int
      PROVE  LET d == Codec!Digits(v, n)
             IN  d \in Seq(Codec!Bytes) /\ Len(d) = n /\ Codec!Unsigned(d) = v % Codec!Power[n]
  BY <1>1, DigitTypes, DigitSum
<1> QED
  BY <1>2 DEF n

(* A number of n bytes is read as it was written.                          *)
LEMMA NumberBack ==
    ASSUME NEW k \in DOMAIN Codec!Size, NEW v \in Int, NEW n \in 1..8, Codec!Fits(k, v, n)
    PROVE  Codec!Number(k, Codec!Digits(v, n)) = v
<1> DEFINE u == Codec!Unsigned(Codec!Digits(v, n))
           p == Codec!Power[n]
           len == Len(Codec!Digits(v, n))
<1>1. len = n /\ u = v % p
  <2>1. n \in 0..8
    OBVIOUS
  <2> QED
    BY <2>1, DigitTypes, DigitSum
<1>2. p \in Nat \ {0} /\ p >= 2
  <2>1. n - 1 \in 0..8 /\ n \in 0..8
    OBVIOUS
  <2> DEFINE o == Codec!Power[n - 1]
  <2>2. o \in Nat \ {0} /\ p = Byte * o
    BY <2>1, BytePowers
  <2> HIDE DEF o, p
  <2>3. Byte * o >= Byte
    BY <2>2, CodecConstants
  <2> QED
    BY <2>2, <2>3, CodecConstants
<1>3. Codec!Number(k, Codec!Digits(v, n)) =
          IF k \in Codec!Signed /\ 2 * u >= p THEN u - p
          ELSE IF k = "bool" /\ u # 0 THEN 1 ELSE u
  BY <1>1 DEF Codec!Number
<1>4. IF k \in Codec!Signed THEN -p <= 2 * v /\ 2 * v < p ELSE v \in 0..(IF k = "bool" THEN 1 ELSE p - 1)
  BY DEF Codec!Fits
<1> HIDE DEF u, p
<1>5. CASE k \in Codec!Signed
  <2>1. -p <= 2 * v /\ 2 * v < p /\ k # "bool"
    BY <1>4, <1>5, SizeFacts
  <2>2. CASE v >= 0
    <3>1. v \in 0..(p - 1)
      BY <1>2, <2>1, <2>2
    <3>2. v % p = v
      BY <1>2, <3>1, ModFacts
    <3> QED
      BY <1>1, <1>2, <1>3, <2>1, <2>2, <3>2
  <2>3. CASE v < 0
    <3>1. -p <= v
      BY <1>2, <2>1, <2>3
    <3>2. v % p = v + p
      BY <1>2, <2>3, <3>1, ModNegative
    <3> QED
      BY <1>1, <1>2, <1>3, <1>5, <2>1, <2>3, <3>2
  <2> QED
    BY <2>2, <2>3
<1>6. CASE k \notin Codec!Signed
  <2>1. v \in 0..(p - 1) /\ (k = "bool" => v \in 0..1)
    BY <1>2, <1>4, <1>6
  <2>2. v % p = v
    BY <1>2, <2>1, ModFacts
  <2> QED
    BY <1>1, <1>3, <1>6, <2>1, <2>2
<1> QED
  BY <1>5, <1>6

-----------------------------------------------------------------------------
(* What lies in a buffer or a link b after position o.  A link may be cut, *)
(* so only the bytes that are there are told.                              *)

Same(b, c, e) == \A i \in 1..e : i \in DOMAIN c => i \in DOMAIN b /\ c[i] = b[i]

Written(b, o, v, n) == \A i \in 1..n : o + i \in DOMAIN b => b[o + i] = Codec!Digits(v, n)[i]

Spelt(b, o, s) == \A i \in 1..Len(s) : o + i \in DOMAIN b => b[o + i] = s[i]

InRow(b, o, s, n) == \A k \in 1..Len(s) : Written(b, o + n * (k - 1), s[k], n)

Encoder == [buf : Seq(Codec!Bytes), w : Nat, dead : BOOLEAN]
Ready(e) == e \in Encoder /\ ~e.dead /\ e.w <= Len(e.buf) /\ Len(e.buf) >= Cap

LEMMA SameTrans ==
    ASSUME NEW b, NEW c, NEW d, NEW m \in Nat, NEW n \in Nat, m <= n, Same(b, c, m), Same(c, d, n)
    PROVE  Same(b, d, m)
<1>1. \A i \in 1..m : i \in 1..n
  OBVIOUS
<1> QED
  BY <1>1 DEF Same

LEMMA WrittenStays ==
    ASSUME NEW b, NEW c, NEW e \in Nat, Same(b, c, e), NEW o \in Nat, NEW n \in Nat, NEW v, o + n <= e,
           Written(b, o, v, n)
    PROVE  Written(c, o, v, n)
<1>1. \A i \in 1..n : o + i \in 1..e
  OBVIOUS
<1> QED
  BY <1>1 DEF Same, Written

LEMMA GrownFacts ==
    ASSUME NEW e \in Encoder, e.w <= Len(e.buf), NEW n \in Nat
    PROVE  /\ Codec!Grown(e, n) \in Seq(Codec!Bytes)
           /\ Len(Codec!Grown(e, n)) >= Len(e.buf)
           /\ n <= Len(e.buf) => e.w + n <= Len(Codec!Grown(e, n))
           /\ \A i \in 1..e.w : Codec!Grown(e, n)[i] = e.buf[i]
<1> DEFINE b == e.buf
           L == Len(b)
           old == SubSeq(b, 1, e.w)
           blank == Codec!Zeros(2 * L - e.w)
<1>1. b \in Seq(Codec!Bytes) /\ L \in Nat /\ e.w \in Nat /\ e.w <= L
  BY DEF Encoder
<1>2. CASE ~(e.w + n > L)
  BY <1>1, <1>2 DEF Codec!Grown
<1>3. CASE e.w + n > L
  <2>1. Codec!Grown(e, n) = old \o blank
    BY <1>3 DEF Codec!Grown
  <2>2. old \in Seq(Codec!Bytes) /\ Len(old) = e.w /\ \A i \in 1..e.w : old[i] = b[i]
    <3> HIDE DEF b
    <3> QED
      BY <1>1
  <2>3. blank \in Seq(Codec!Bytes) /\ Len(blank) = 2 * L - e.w
    <3> DEFINE m == 2 * L - e.w
    <3>1. m \in Nat /\ 0 \in Codec!Bytes
      BY <1>1, CodecConstants DEF Codec!Bytes
    <3> HIDE DEF m
    <3>2. [i \in 1..m |-> 0] \in Seq(Codec!Bytes) /\ Len([i \in 1..m |-> 0]) = m
      BY <3>1
    <3> QED
      BY <3>2 DEF m, Codec!Zeros
  <2> HIDE DEF old, blank
  <2>4. /\ old \o blank \in Seq(Codec!Bytes) /\ Len(old \o blank) = 2 * L
        /\ \A i \in 1..e.w : (old \o blank)[i] = old[i]
    <3>1. Len(old \o blank) = Len(old) + Len(blank)
      BY <2>2, <2>3, ConcatProperties
    <3> HIDE DEF L
    <3> QED
      BY <1>1, <2>2, <2>3, <3>1, ConcatProperties
  <2> HIDE DEF L
  <2> QED
    BY <1>1, <2>1, <2>2, <2>4 DEF L
<1> QED
  BY <1>2, <1>3

LEMMA CopiedFacts ==
    ASSUME NEW b \in Seq(Codec!Bytes), NEW from \in Nat, NEW s \in Seq(Codec!Bytes)
    PROVE  /\ Codec!Copied(b, from, s) \in Seq(Codec!Bytes)
           /\ Len(Codec!Copied(b, from, s)) = Len(b)
           /\ \A i \in 1..from : i \in DOMAIN b => Codec!Copied(b, from, s)[i] = b[i]
           /\ Spelt(Codec!Copied(b, from, s), from, s)
<1> DEFINE c == Codec!Copied(b, from, s)
<1>1. c = [i \in 1..Len(b) |-> IF i - from \in 1..Len(s) THEN s[i - from] ELSE b[i]]
  BY DEF Codec!Copied
<1>2. Len(b) \in Nat /\ \A i \in 1..Len(b) : c[i] \in Codec!Bytes
  BY <1>1
<1>3. c \in Seq(Codec!Bytes) /\ Len(c) = Len(b)
  BY <1>1, <1>2
<1>4. \A i \in 1..from : i \in DOMAIN b => c[i] = b[i]
  BY <1>1
<1>5. Spelt(c, from, s)
  <2> SUFFICES ASSUME NEW i \in 1..Len(s), from + i \in DOMAIN c PROVE c[from + i] = s[i]
    BY DEF Spelt
  <2>1. from + i \in 1..Len(b) /\ (from + i) - from = i
    BY <1>1
  <2> QED
    BY <1>1, <2>1
<1> QED
  BY <1>3, <1>4, <1>5

LEMMA PutNumberFacts ==
    ASSUME NEW e, Ready(e), NEW v \in Int, NEW n \in 1..8
    PROVE  LET p == Codec!PutNumber(e, v, n)
           IN  Ready(p) /\ p.w = e.w + n /\ Same(e.buf, p.buf, e.w) /\ Written(p.buf, e.w, v, n)
<1> DEFINE p == Codec!PutNumber(e, v, n)
           g == Codec!Grown(e, n)
           d == Codec!Digits(v, n)
           c == Codec!Copied(g, e.w, d)
<1>1. e \in Encoder /\ ~e.dead /\ e.w \in Nat /\ e.w <= Len(e.buf) /\ Len(e.buf) \in Nat
      /\ Len(e.buf) >= 8 /\ Len(e.buf) >= Cap /\ Cap \in Nat /\ n \in Nat /\ n \in 0..8
  BY CodecConstants DEF Ready, Encoder
<1>2. /\ g \in Seq(Codec!Bytes) /\ Len(g) \in Nat /\ Len(g) >= Len(e.buf) /\ e.w + n <= Len(g)
      /\ \A i \in 1..e.w : g[i] = e.buf[i]
  <2>1. n <= Len(e.buf)
    BY <1>1
  <2>2. /\ g \in Seq(Codec!Bytes) /\ Len(g) >= Len(e.buf) /\ e.w + n <= Len(g)
        /\ \A i \in 1..e.w : g[i] = e.buf[i]
    <3> HIDE DEF g
    <3> QED
      BY <1>1, <2>1, GrownFacts DEF g
  <2> HIDE DEF g
  <2>3. Len(g) \in Nat
    BY <2>2
  <2> QED
    BY <2>2, <2>3
<1>3. p = [buf |-> c, w |-> e.w + n, dead |-> FALSE]
  BY <1>1, <1>2 DEF Codec!PutNumber
<1>4. d \in Seq(Codec!Bytes) /\ Len(d) = n
  BY <1>1, DigitTypes
<1> HIDE DEF g, d
<1>5. /\ c \in Seq(Codec!Bytes) /\ Len(c) = Len(g) /\ Spelt(c, e.w, d)
      /\ \A i \in 1..e.w : i \in DOMAIN g => c[i] = g[i]
  BY <1>1, <1>2, <1>4, CopiedFacts
<1> HIDE DEF c
<1>6. Ready(p) /\ p.w = e.w + n /\ p.buf = c
  BY <1>1, <1>2, <1>3, <1>5 DEF Ready, Encoder
<1>7. Same(e.buf, c, e.w)
  <2>1. \A i \in 1..e.w : i \in DOMAIN g /\ i \in DOMAIN e.buf
    BY <1>1, <1>2 DEF Encoder
  <2> QED
    BY <1>2, <1>5, <2>1 DEF Same
<1>8. Written(c, e.w, v, n)
  BY <1>4, <1>5 DEF Spelt, Written, d
<1> QED
  BY <1>6, <1>7, <1>8

-----------------------------------------------------------------------------
(* Rows of numbers, one after the other. *)

Puts(e, s, n) == CHOOSE put : put = [i \in 0..Len(s) |->
                    IF i = 0 THEN e ELSE Codec!PutNumber(put[i - 1], s[i], n)]

LEMMA PutSteps ==
    ASSUME NEW V, NEW e \in V, NEW s, Len(s) \in Nat, NEW n,
           \A a \in V, i \in 1..Len(s) : Codec!PutNumber(a, s[i], n) \in V
    PROVE  /\ Codec!PutNumbers(e, s, n) = Puts(e, s, n)[Len(s)]
           /\ Puts(e, s, n)[0] = e
           /\ \A i \in 1..Len(s) : Puts(e, s, n)[i] = Codec!PutNumber(Puts(e, s, n)[i - 1], s[i], n)
           /\ \A i \in 0..Len(s) : Puts(e, s, n)[i] \in V
<1> DEFINE N == Len(s)
           step == [i \in 1..N |-> [a \in V |-> Codec!PutNumber(a, s[i], n)]]
           Folds(g) == g = [i \in 0..N |-> IF i = 0 THEN e ELSE Codec!PutNumber(g[i - 1], s[i], n)]
           puts == CHOOSE g : Folds(g)
<1>1. puts = Puts(e, s, n) /\ Codec!PutNumbers(e, s, n) = Puts(e, s, n)[N]
  BY DEF Puts, Codec!PutNumbers
<1>2. step \in [1..N -> [V -> V]] /\ N \in Nat
  OBVIOUS
<1>3. \A i \in 1..N, a \in V : step[i][a] = Codec!PutNumber(a, s[i], n)
  OBVIOUS
<1>4. \A a \in V, i \in 1..N : Codec!PutNumber(a, s[i], n) \in V
  OBVIOUS
<1> HIDE DEF N, step, puts
<1>5. PICK g \in [0..N -> V] : Iterates(g, N, e, step)
  BY <1>2, Recursion
<1>6. ASSUME NEW i \in 1..N PROVE g[i] = Codec!PutNumber(g[i - 1], s[i], n)
  <2>1. i - 1 \in 0..N
    BY <1>2
  <2>2. g[i - 1] \in V
    BY <2>1
  <2> QED
    BY <1>3, <1>5, <2>2 DEF Iterates
<1>7. Folds(g)
  <2>1. \A i \in 0..N : g[i] = IF i = 0 THEN e ELSE Codec!PutNumber(g[i - 1], s[i], n)
    BY <1>2, <1>5, <1>6 DEF Iterates
  <2> QED
    BY <1>5, <2>1
<1>8. Folds(puts)
  <2> HIDE DEF Folds
  <2> QED
    BY <1>7 DEF puts
<1>9. puts[0] = e /\ \A i \in 1..N : puts[i] = Codec!PutNumber(puts[i - 1], s[i], n)
  BY <1>2, <1>8
<1> DEFINE P == {i \in Nat : i <= N => puts[i] \in V}
<1>10. \A i \in Nat : i \in P
  <2>1. 0 \in P
    BY <1>9
  <2>2. ASSUME NEW i \in Nat, i \in P PROVE i + 1 \in P
    <3> SUFFICES ASSUME i + 1 <= N PROVE puts[i + 1] \in V
      OBVIOUS
    <3>1. puts[i] \in V /\ i + 1 \in 1..N /\ (i + 1) - 1 = i
      BY <1>2, <2>2
    <3> QED
      BY <1>4, <1>9, <3>1
  <2> HIDE DEF P
  <2> QED
    BY <2>1, <2>2, NatInduct
<1> QED
  BY <1>1, <1>2, <1>9, <1>10 DEF N

(* What has got no room stays as it is.                                    *)
LEMMA PutsDead ==
    ASSUME NEW e \in Encoder, e.dead, NEW s, Len(s) \in Nat, NEW n
    PROVE  Codec!PutNumbers(e, s, n) = e
<1>1. \A a \in {e}, i \in 1..Len(s) : Codec!PutNumber(a, s[i], n) \in {e}
  BY DEF Encoder, Codec!PutNumber
<1>2. Puts(e, s, n)[Len(s)] \in {e} /\ Codec!PutNumbers(e, s, n) = Puts(e, s, n)[Len(s)]
  <2> DEFINE V == {e}
  <2>1. e \in V /\ \A a \in V, i \in 1..Len(s) : Codec!PutNumber(a, s[i], n) \in V
    BY <1>1
  <2> HIDE DEF V
  <2>2. /\ Codec!PutNumbers(e, s, n) = Puts(e, s, n)[Len(s)]
        /\ \A i \in 0..Len(s) : Puts(e, s, n)[i] \in V
    BY <2>1, PutSteps
  <2> QED
    BY <2>2 DEF V
<1> QED
  BY <1>2

LEMMA PutNumbersFacts ==
    ASSUME NEW e, Ready(e), NEW s \in Seq(Int), NEW n \in 1..8
    PROVE  LET p == Codec!PutNumbers(e, s, n)
           IN  Ready(p) /\ p.w = e.w + n * Len(s) /\ Same(e.buf, p.buf, e.w) /\ InRow(p.buf, e.w, s, n)
<1> DEFINE V == {a \in Encoder : Ready(a)}
           N == Len(s)
           put == Puts(e, s, n)
           Good(i) == /\ Ready(put[i]) /\ put[i].w = e.w + n * i
                      /\ Same(e.buf, put[i].buf, e.w)
                      /\ \A k \in 1..i : Written(put[i].buf, e.w + n * (k - 1), s[k], n)
           P == {i \in Nat : i <= N => Good(i)}
<1>1. N \in Nat /\ e \in V /\ e.w \in Nat /\ n \in Nat /\ \A i \in 1..N : s[i] \in Int
  BY DEF Ready, Encoder
<1>2. \A a \in V, i \in 1..N : Codec!PutNumber(a, s[i], n) \in V
  <2> SUFFICES ASSUME NEW a \in V, NEW i \in 1..N PROVE Codec!PutNumber(a, s[i], n) \in V
    OBVIOUS
  <2>1. Ready(a)
    OBVIOUS
  <2>2. Ready(Codec!PutNumber(a, s[i], n))
    BY <1>1, <2>1, PutNumberFacts
  <2> QED
    BY <2>2 DEF Ready
<1> HIDE DEF V
<1>3. /\ Codec!PutNumbers(e, s, n) = put[N] /\ put[0] = e
      /\ \A i \in 1..N : put[i] = Codec!PutNumber(put[i - 1], s[i], n)
  BY <1>1, <1>2, PutSteps
<1> HIDE DEF put, N
<1>4. 0 \in P
  <2>1. Same(e.buf, e.buf, e.w)
    BY DEF Same
  <2> QED
    BY <1>1, <1>3, <2>1 
<1>5. ASSUME NEW i \in Nat, i \in P PROVE i + 1 \in P
  <2> SUFFICES ASSUME i + 1 <= N PROVE Good(i + 1)
    OBVIOUS
  <2>1. Good(i) /\ i + 1 \in 1..N /\ (i + 1) - 1 = i
    BY <1>1, <1>5
  <2> DEFINE a == put[i]
             c == put[i + 1]
             o == e.w + n * i
             v == s[i + 1]
  <2>2. c = Codec!PutNumber(a, v, n) /\ v \in Int /\ o \in Nat
    <3>1. n * i \in Nat
      OBVIOUS
    <3>2. s[i + 1] \in Int
      BY <1>1, <2>1
    <3>3. put[i + 1] = Codec!PutNumber(put[i], s[i + 1], n)
      BY <1>3, <2>1
    <3> QED
      BY <1>1, <3>1, <3>2, <3>3
  <2>3. Ready(a) /\ a.w = o
    BY <2>1
  <2> HIDE DEF a, v
  <2>4. Ready(c) /\ c.w = a.w + n /\ Same(a.buf, c.buf, a.w) /\ Written(c.buf, a.w, v, n)
    <3> HIDE DEF c, o
    <3> QED
      BY <2>2, <2>3, PutNumberFacts
  <2>5. c.w = e.w + n * (i + 1)
    BY <1>1, <2>3, <2>4
  <2>6. e.w <= o
    BY <1>1
  <2>7. Same(e.buf, c.buf, e.w)
    <3>1. Same(e.buf, a.buf, e.w)
      BY <2>1 DEF a
    <3> HIDE DEF c, o
    <3> QED
      BY <1>1, <2>2, <2>3, <2>4, <2>6, <3>1, SameTrans
  <2>8. ASSUME NEW k \in 1..(i + 1) PROVE Written(c.buf, e.w + n * (k - 1), s[k], n)
    <3>1. CASE k = i + 1
      <4>1. e.w + n * (k - 1) = a.w /\ s[k] = v
        BY <2>3, <3>1 DEF v
      <4> QED
        BY <2>4, <4>1
    <3>2. CASE k # i + 1
      <4> DEFINE q == e.w + n * (k - 1)
      <4>1. k \in 1..i /\ k - 1 \in Nat
        BY <3>2
      <4>2. Written(a.buf, q, s[k], n)
        BY <2>1, <4>1 DEF a
      <4>3. q \in Nat /\ q + n <= o
        <5>1. n * (k - 1) \in Nat /\ n * (k - 1) + n = n * k /\ n * k <= n * i
          BY <1>1, <4>1
        <5> QED
          BY <1>1, <5>1
      <4> HIDE DEF q, o, c
      <4>4. Written(c.buf, q, s[k], n)
        BY <1>1, <2>2, <2>3, <2>4, <4>2, <4>3, WrittenStays
      <4> QED
        BY <4>4 DEF q
    <3> QED
      BY <3>1, <3>2
  <2> QED
    BY <2>4, <2>5, <2>7, <2>8
<1>6. N \in P
  <2> HIDE DEF P
  <2> QED
    BY <1>1, <1>4, <1>5, NatInduct
<1> QED
  BY <1>1, <1>3, <1>6 DEF InRow, N

LEMMA PutBytesFacts ==
    ASSUME NEW e, Ready(e), NEW s \in Seq(Codec!Bytes)
    PROVE  LET p == Codec!PutBytes(e, s)
           IN  /\ p \in Encoder /\ ~p.dead /\ p.w = e.w + 2 + Len(s) /\ Len(p.buf) >= Cap
               /\ Same(e.buf, p.buf, e.w)
               /\ Written(p.buf, e.w, Len(s), 2) /\ Spelt(p.buf, e.w + 2, s)
               /\ p.w <= Len(p.buf) \/ Len(s) > Cap
<1> DEFINE N == Len(s)
           c == Codec!PutNumber(e, N, 2)
           g == Codec!Grown(c, N)
           b == Codec!Copied(g, c.w, s)
           p == Codec!PutBytes(e, s)
<1>1. N \in Nat /\ N \in Int /\ 2 \in 1..8 /\ 2 \in Nat /\ e.w \in Nat /\ Cap \in Nat
  BY CodecConstants DEF Ready, Encoder
<1>2. Ready(c) /\ c.w = e.w + 2 /\ Same(e.buf, c.buf, e.w) /\ Written(c.buf, e.w, N, 2)
  <2> HIDE DEF N
  <2> QED
    BY <1>1, PutNumberFacts
<1>3. p = [buf |-> b, w |-> c.w + N, dead |-> FALSE]
  BY <1>2 DEF Codec!PutBytes, Ready
<1>4. c \in Encoder /\ c.w \in Nat /\ c.w <= Len(c.buf) /\ Len(c.buf) >= Cap /\ Len(c.buf) \in Nat
  BY <1>2 DEF Ready, Encoder
<1> HIDE DEF c, N
<1>5. /\ g \in Seq(Codec!Bytes) /\ Len(g) \in Nat /\ Len(g) >= Len(c.buf)
      /\ N <= Len(c.buf) => c.w + N <= Len(g)
      /\ \A i \in 1..c.w : g[i] = c.buf[i]
  BY <1>1, <1>4, GrownFacts
<1> HIDE DEF g
<1>6. /\ b \in Seq(Codec!Bytes) /\ Len(b) = Len(g) /\ Spelt(b, c.w, s)
      /\ \A i \in 1..c.w : i \in DOMAIN g => b[i] = g[i]
  BY <1>4, <1>5, CopiedFacts
<1> HIDE DEF b
<1>7. Same(c.buf, b, c.w)
  <2>1. \A i \in 1..c.w : i \in DOMAIN g /\ i \in DOMAIN c.buf
    BY <1>4, <1>5 DEF Encoder
  <2> QED
    BY <1>5, <1>6, <2>1 DEF Same
<1>8. Same(e.buf, b, e.w)
  <2>1. e.w <= c.w
    BY <1>1, <1>2
  <2> QED
    BY <1>1, <1>2, <1>4, <1>7, <2>1, SameTrans
<1>9. Written(b, e.w, N, 2)
  <2>1. e.w + 2 <= c.w
    BY <1>1, <1>2
  <2> QED
    BY <1>1, <1>2, <1>4, <1>7, <2>1, WrittenStays
<1>10. p \in Encoder /\ ~p.dead /\ p.buf = b /\ p.w = e.w + 2 + N
  BY <1>1, <1>2, <1>3, <1>4, <1>6 DEF Encoder
<1>11. p.w <= Len(b) \/ N > Cap
  BY <1>1, <1>2, <1>3, <1>4, <1>5, <1>6
<1> QED
  BY <1>1, <1>2, <1>4, <1>5, <1>6, <1>8, <1>9, <1>10, <1>11 DEF N

-----------------------------------------------------------------------------
(* Where a field lies. *)

LEMMA SameCodecCount == \A S : Codec!Cardinality(S) = Cardinality(S)
  BY DEF Codec!Cardinality, Cardinality

LEMMA MapKeys ==
    ASSUME NEW S, S \subseteq Codec!Bytes, NEW keys \in Codec!SetToSeqs(S)
    PROVE  /\ keys \in Seq(S) /\ Len(keys) \in Nat /\ Len(keys) <= Byte
           /\ \A i, j \in 1..Len(keys) : i # j => keys[i] # keys[j]
           /\ \A x \in S : \E i \in 1..Len(keys) : keys[i] = x
<1> DEFINE n == Cardinality(S)
<1>1. IsFiniteSet(S) /\ n \in Nat /\ n <= Byte
  <2>1. IsFiniteSet(0..(Byte - 1)) /\ Cardinality(0..(Byte - 1)) = Byte
    <3>1. 0 \in Int /\ Byte - 1 \in Int /\ Byte \in Nat /\ ~(0 > Byte - 1) /\ ((Byte - 1) - 0) + 1 = Byte
      BY CodecConstants
    <3> DEFINE lo == 0
               hi == Byte - 1
    <3>2. lo \in Int /\ hi \in Int /\ ~(lo > hi) /\ (hi - lo) + 1 = Byte
      BY <3>1
    <3> HIDE DEF lo, hi
    <3>3. IsFiniteSet(lo..hi) /\ Cardinality(lo..hi) = IF lo > hi THEN 0 ELSE hi - lo + 1
      BY <3>2, FS_Interval
    <3> QED
      BY <3>2, <3>3 DEF lo, hi
  <2>2. S \subseteq 0..(Byte - 1)
    BY DEF Codec!Bytes
  <2> DEFINE T == 0..(Byte - 1)
  <2> HIDE DEF T
  <2>3. IsFiniteSet(S) /\ Cardinality(S) <= Cardinality(T)
    BY <2>1, <2>2, FS_Subset DEF T
  <2> QED
    BY <2>1, <2>3, FS_CardinalityType DEF T
<1>2. keys \in [1..n -> S] /\ \A i, j \in 1..n : i # j => keys[i] # keys[j]
  BY SameCodecCount DEF Codec!SetToSeqs
<1> HIDE DEF n
<1>3. keys \in Seq(S) /\ Len(keys) = n
  BY <1>1, <1>2
<1>4. ASSUME NEW x \in S PROVE \E i \in 1..n : keys[i] = x
  <2> SUFFICES ASSUME \A i \in 1..n : keys[i] # x PROVE FALSE
    OBVIOUS
  <2> DEFINE T == S \ {x}
             D == 1..n
  <2>1. IsFiniteSet(T) /\ Cardinality(T) = n - 1
    BY <1>1, FS_RemoveElement DEF n
  <2>2. keys \in [D -> T] /\ \A i, j \in D : i # j => keys[i] # keys[j]
    BY <1>2
  <2>3. keys \in Injection(D, T)
    BY <2>2 DEF Injection, IsInjective
  <2>4. IsFiniteSet(D) /\ Cardinality(D) = n
    <3> DEFINE lo == 1
    <3>1. lo \in Int /\ n \in Int
      BY <1>1
    <3> HIDE DEF lo
    <3>2. IsFiniteSet(lo..n) /\ Cardinality(lo..n) = IF lo > n THEN 0 ELSE n - lo + 1
      BY <3>1, FS_Interval
    <3> QED
      BY <1>1, <3>2 DEF lo
  <2> HIDE DEF T, D
  <2>5. Cardinality(D) <= Cardinality(T)
    BY <2>1, <2>3, FS_Injection DEF ExistsInjection
  <2> QED
    BY <1>1, <2>1, <2>4, <2>5
<1> QED
  BY <1>1, <1>2, <1>3, <1>4

LEMMA PairsFacts ==
    ASSUME NEW f, DOMAIN f \subseteq Codec!Bytes, f \in [DOMAIN f -> Codec!Bytes],
           NEW keys \in Seq(DOMAIN f)
    PROVE  /\ Codec!Pairs(f, keys) \in Seq(Codec!Bytes)
           /\ Len(Codec!Pairs(f, keys)) = 2 * Len(keys)
           /\ \A i \in 1..Len(keys) : /\ Codec!Pairs(f, keys)[2 * i - 1] = keys[i]
                                      /\ Codec!Pairs(f, keys)[2 * i] = f[keys[i]]
<1> DEFINE N == Len(keys)
           p == Codec!Pairs(f, keys)
<1>1. N \in Nat /\ 2 * N \in Nat /\ \A i \in 1..N : keys[i] \in DOMAIN f
  OBVIOUS
<1>2. p = [i \in 1..(2 * N) |-> IF i % 2 = 1 THEN keys[(i + 1) \div 2] ELSE f[keys[i \div 2]]]
  BY DEF Codec!Pairs
<1> HIDE DEF N, p
<1>3. ASSUME NEW i \in 1..(2 * N) PROVE p[i] \in Codec!Bytes
  <2>1. CASE i % 2 = 1
    <3>1. (i + 1) \div 2 \in 1..N
      BY <1>1, <2>1
    <3> QED
      BY <1>1, <1>2, <2>1, <3>1
  <2>2. CASE i % 2 # 1
    <3>1. i \div 2 \in 1..N
      BY <1>1, <2>2
    <3>2. keys[i \div 2] \in DOMAIN f
      BY <1>1, <3>1
    <3> QED
      BY <1>2, <2>2, <3>2
  <2> QED
    BY <2>1, <2>2
<1>4. p \in Seq(Codec!Bytes) /\ Len(p) = 2 * N
  <2> DEFINE M == 2 * N
  <2>1. M \in Nat
    BY <1>1
  <2>2. p \in [1..M -> Codec!Bytes]
    BY <1>2, <1>3
  <2> HIDE DEF M
  <2>3. p \in Seq(Codec!Bytes) /\ Len(p) = M
    BY <2>1, <2>2
  <2> QED
    BY <2>3 DEF M
<1>5. ASSUME NEW i \in 1..N PROVE p[2 * i - 1] = keys[i] /\ p[2 * i] = f[keys[i]]
  <2>1. 2 * i - 1 \in 1..(2 * N) /\ (2 * i - 1) % 2 = 1 /\ ((2 * i - 1) + 1) \div 2 = i
    BY <1>1
  <2>2. 2 * i \in 1..(2 * N) /\ (2 * i) % 2 = 0 /\ (2 * i) \div 2 = i
    BY <1>1
  <2> QED
    BY <1>2, <2>1, <2>2
<1> QED
  BY <1>4, <1>5 DEF N, p

(* The bytes of a field are those from o to e.                             *)
Lies(f, b, o, e) ==
    \/ ~f.exported /\ e = o
    \/ /\ f.exported /\ Codec!Fixed(f) /\ e = o + Codec!Size[f.kind]
       /\ Written(b, o, f.val, Codec!Size[f.kind])
    \/ /\ f.exported /\ f.kind \in {"string", "bytes"} /\ e = o + 2 + Len(f.val)
       /\ Written(b, o, Len(f.val), 2) /\ Spelt(b, o + 2, f.val)
    \/ /\ f.exported /\ f.kind = "slice" /\ e = o + 4 + 2 * Len(f.val)
       /\ Written(b, o, Len(f.val), 4) /\ InRow(b, o + 4, f.val, 2)
    \/ /\ f.exported /\ f.kind = "map"
       /\ \E keys \in Codec!SetToSeqs(DOMAIN f.val) :
             /\ e = o + 4 + 2 * Len(keys)
             /\ Written(b, o, Len(keys), 4) /\ InRow(b, o + 4, Codec!Pairs(f.val, keys), 1)

LEMMA FieldFacts ==
    ASSUME NEW f, Codec!Field(f)
    PROVE  /\ f.exported \in BOOLEAN /\ f.room \in Nat
           /\ \/ /\ f.kind \in DOMAIN Codec!Size /\ f.val \in Int /\ Codec!Size[f.kind] \in 1..8
                 /\ f.kind \notin {"string", "bytes", "slice", "map", "other"}
                 /\ Codec!Fits(f.kind, f.val, Codec!Size[f.kind]) \/ Codec!Narrowed(f)
              \/ /\ f.kind \in {"string", "bytes"} /\ f.kind \notin DOMAIN Codec!Size
                 /\ f.val \in Seq(Codec!Bytes) /\ Len(f.val) \in Nat
              \/ /\ f.kind = "slice" /\ f.kind \notin DOMAIN Codec!Size
                 /\ f.val \in Seq(0..(Codec!Power[2] - 1)) /\ Len(f.val) \in Nat
              \/ /\ f.kind = "map" /\ f.kind \notin DOMAIN Codec!Size
                 /\ DOMAIN f.val \subseteq Codec!Bytes /\ f.val \in [DOMAIN f.val -> Codec!Bytes]
              \/ f.kind = "other" /\ f.kind \notin DOMAIN Codec!Size
<1>1. Codec!Power[2] = Byte * Byte
  <2>1. Codec!Power[0] = 1 /\ Codec!Power[1] = Byte * Codec!Power[0] /\ Codec!Power[2] = Byte * Codec!Power[1]
    <3>1. 1 \in 1..8 /\ 2 \in 1..8 /\ 1 - 1 = 0 /\ 2 - 1 = 1
      OBVIOUS
    <3> QED
      BY <3>1, BytePowers
  <2> QED
    BY <2>1, CodecConstants
<1>2. f.exported \in BOOLEAN /\ f.room \in Nat
  BY DEF Codec!Field
<1>3. CASE Codec!Fixed(f) /\ f.val \in Int
           /\ Codec!Fits(f.kind, f.val, IF f.kind \in {"int", "uint"} THEN 8 ELSE Codec!Size[f.kind])
  <2>1. f.kind \in DOMAIN Codec!Size
    BY <1>3 DEF Codec!Fixed
  <2>2. Codec!Size[f.kind] \in 1..8 /\ f.kind \notin {"string", "bytes", "slice", "map", "other"}
    BY <2>1, SizeFacts
  <2>3. Codec!Fits(f.kind, f.val, Codec!Size[f.kind]) \/ Codec!Narrowed(f)
    <3>1. CASE f.kind \in {"int", "uint"}
      <4>1. Codec!Size[f.kind] = 4
        BY <3>1, SizeFacts
      <4> QED
        BY <3>1, <4>1 DEF Codec!Narrowed
    <3>2. CASE f.kind \notin {"int", "uint"}
      BY <1>3, <3>2
    <3> QED
      BY <3>1, <3>2
  <2> QED
    BY <1>2, <1>3, <2>1, <2>2, <2>3
<1>4. CASE f.kind \in {"string", "bytes"} /\ f.val \in Seq(Codec!Bytes)
  <2>1. Len(f.val) \in Nat /\ f.kind \notin DOMAIN Codec!Size
    BY <1>4, SizeFacts
  <2> QED
    BY <1>2, <1>4, <2>1
<1>5. CASE f.kind = "slice" /\ f.val \in Seq(0..(Byte * Byte - 1))
  <2>1. Len(f.val) \in Nat /\ f.kind \notin DOMAIN Codec!Size
    BY <1>5, SizeFacts
  <2> QED
    BY <1>1, <1>2, <1>5, <2>1
<1>6. CASE f.kind = "map" /\ DOMAIN f.val \subseteq Codec!Bytes /\ f.val \in [DOMAIN f.val -> Codec!Bytes]
  <2>1. f.kind \notin DOMAIN Codec!Size
    BY <1>6, SizeFacts
  <2> QED
    BY <1>2, <1>6, <2>1
<1>7. CASE f.kind = "other"
  <2>1. f.kind \notin DOMAIN Codec!Size
    BY <1>7, SizeFacts
  <2> QED
    BY <1>2, <1>7, <2>1
<1> QED
  BY <1>3, <1>4, <1>5, <1>6, <1>7 DEF Codec!Field

LEMMA InRowStays ==
    ASSUME NEW b, NEW c, NEW e \in Nat, Same(b, c, e), NEW o \in Nat, NEW n \in 1..8, NEW s, Len(s) \in Nat,
           o + n * Len(s) <= e, InRow(b, o, s, n)
    PROVE  InRow(c, o, s, n)
<1> SUFFICES ASSUME NEW k \in 1..Len(s) PROVE Written(c, o + n * (k - 1), s[k], n)
  BY DEF InRow
<1> DEFINE q == o + n * (k - 1)
           N == Len(s)
           v == s[k]
<1>1. n * (k - 1) \in Nat /\ n * (k - 1) + n = n * k /\ n * k <= n * N /\ n * N \in Nat
  OBVIOUS
<1>2. q \in Nat /\ q + n <= e /\ n \in Nat
  BY <1>1
<1>3. Written(b, q, v, n)
  BY DEF InRow
<1> HIDE DEF q, v
<1>4. Written(c, q, v, n)
  BY <1>2, <1>3, WrittenStays
<1> QED
  BY <1>4 DEF q, v

LEMMA LiesFacts ==
    ASSUME NEW f, Codec!Field(f), NEW b, NEW o \in Nat, NEW e, Lies(f, b, o, e)
    PROVE  e \in Nat /\ o <= e
<1> DEFINE N == Len(f.val)
<1>1. CASE ~f.exported /\ e = o
  BY <1>1
<1>2. CASE f.exported /\ Codec!Fixed(f) /\ e = o + Codec!Size[f.kind]
  <2> DEFINE n == Codec!Size[f.kind]
  <2>1. n \in Nat /\ e = o + n
    BY <1>2, SizeFacts DEF Codec!Fixed
  <2> HIDE DEF n
  <2> QED
    BY <2>1
<1>3. CASE f.exported /\ f.kind \in {"string", "bytes", "slice"} /\ (e = o + 2 + N \/ e = o + 4 + 2 * N)
  <2>1. N \in Nat
    BY <1>3, FieldFacts, SizeFacts
  <2>2. e = o + 2 + N \/ e = o + 4 + 2 * N
    BY <1>3
  <2> HIDE DEF N
  <2> QED
    BY <2>1, <2>2
<1>4. ASSUME f.exported, f.kind = "map", NEW keys \in Codec!SetToSeqs(DOMAIN f.val), e = o + 4 + 2 * Len(keys)
      PROVE  e \in Nat /\ o <= e
  <2>1. DOMAIN f.val \subseteq Codec!Bytes
    BY <1>4, FieldFacts, SizeFacts
  <2> DEFINE K == Len(keys)
  <2>2. K \in Nat
    BY <2>1, MapKeys
  <2>3. e = o + 4 + 2 * K
    BY <1>4
  <2> HIDE DEF K
  <2> QED
    BY <2>2, <2>3
<1> QED
  BY <1>1, <1>2, <1>3, <1>4 DEF Lies

LEMMA LiesStays ==
    ASSUME NEW f, Codec!Field(f), NEW b, NEW c, NEW o \in Nat, NEW e, NEW m \in Nat, e <= m,
           Same(b, c, m), Lies(f, b, o, e)
    PROVE  Lies(f, c, o, e)
<1>0. e \in Nat /\ o <= e
  BY LiesFacts
<1>1. \A n \in Nat : \A v : o + n <= e /\ Written(b, o, v, n) => Written(c, o, v, n)
  <2> SUFFICES ASSUME NEW n \in Nat, NEW v, o + n <= e, Written(b, o, v, n) PROVE Written(c, o, v, n)
    OBVIOUS
  <2>1. o + n <= m
    BY <1>0
  <2> QED
    BY <2>1, WrittenStays
<1>2. CASE ~f.exported /\ e = o
  BY <1>2 DEF Lies
<1>3. CASE f.exported /\ Codec!Fixed(f) /\ e = o + Codec!Size[f.kind] /\ Written(b, o, f.val, Codec!Size[f.kind])
  <2> DEFINE n == Codec!Size[f.kind]
  <2>1. n \in Nat /\ o + n <= e
    BY <1>0, <1>3, FieldFacts, SizeFacts DEF Codec!Fixed
  <2> HIDE DEF n
  <2>2. Written(c, o, f.val, n)
    BY <1>1, <1>3, <2>1 DEF n
  <2> QED
    BY <1>3, <2>2 DEF Lies, n
<1>4. CASE /\ f.exported /\ f.kind \in {"string", "bytes"} /\ e = o + 2 + Len(f.val)
           /\ Written(b, o, Len(f.val), 2) /\ Spelt(b, o + 2, f.val)
  <2> DEFINE N == Len(f.val)
  <2>1. N \in Nat /\ e = o + 2 + N
    BY <1>4, FieldFacts, SizeFacts
  <2> HIDE DEF N
  <2>2. Written(c, o, N, 2)
    <3>1. 2 \in Nat /\ o + 2 <= e
      BY <2>1
    <3> QED
      BY <1>1, <1>4, <3>1 DEF N
  <2>3. Spelt(c, o + 2, f.val)
    <3>1. \A i \in 1..N : (o + 2) + i \in 1..m
      BY <2>1
    <3> QED
      BY <1>4, <3>1 DEF Spelt, Same, N
  <2> QED
    BY <1>4, <2>2, <2>3 DEF Lies, N
<1>5. CASE /\ f.exported /\ f.kind = "slice" /\ e = o + 4 + 2 * Len(f.val)
           /\ Written(b, o, Len(f.val), 4) /\ InRow(b, o + 4, f.val, 2)
  <2> DEFINE s == f.val
             N == Len(s)
             q == o + 4
             n == 2
  <2>1. N \in Nat /\ e = q + n * N
    BY <1>5, FieldFacts, SizeFacts
  <2>2. InRow(b, q, s, n) /\ Written(b, o, N, 4)
    BY <1>5
  <2> HIDE DEF N, s
  <2>3. n \in 1..8 /\ q \in Nat /\ q + n * N <= m /\ q <= e
    BY <1>0, <2>1
  <2>4. Written(c, o, N, 4)
    <3>1. 4 \in Nat /\ o + 4 <= e
      BY <2>3
    <3> QED
      BY <1>1, <2>2, <3>1
  <2> HIDE DEF n, q
  <2>5. InRow(c, q, s, n)
    BY <2>1, <2>2, <2>3, InRowStays DEF N
  <2> QED
    BY <1>5, <2>4, <2>5 DEF Lies, n, q, s, N
<1>6. CASE /\ f.exported /\ f.kind = "map"
           /\ \E keys \in Codec!SetToSeqs(DOMAIN f.val) :
                 /\ e = o + 4 + 2 * Len(keys)
                 /\ Written(b, o, Len(keys), 4) /\ InRow(b, o + 4, Codec!Pairs(f.val, keys), 1)
  <2>1. PICK keys \in Codec!SetToSeqs(DOMAIN f.val) :
                 /\ e = o + 4 + 2 * Len(keys)
                 /\ Written(b, o, Len(keys), 4) /\ InRow(b, o + 4, Codec!Pairs(f.val, keys), 1)
    BY <1>6
  <2>2. DOMAIN f.val \subseteq Codec!Bytes /\ f.val \in [DOMAIN f.val -> Codec!Bytes]
    BY <1>6, FieldFacts, SizeFacts
  <2>3. keys \in Seq(DOMAIN f.val) /\ Len(keys) \in Nat
    BY <2>2, MapKeys
  <2> DEFINE s == Codec!Pairs(f.val, keys)
             q == o + 4
             n == 1
             K == Len(keys)
  <2>4. Len(s) = 2 * K
    BY <2>2, <2>3, PairsFacts
  <2>5. Written(c, o, K, 4)
    <3>0. e = o + 4 + 2 * K /\ K \in Nat
      BY <2>1, <2>3
    <3> HIDE DEF K
    <3>1. 4 \in Nat /\ o + 4 <= e
      BY <3>0
    <3> QED
      BY <1>1, <2>1, <3>1 DEF K
  <2>6. n \in 1..8 /\ q \in Nat /\ InRow(b, q, s, n)
    BY <2>1
  <2> HIDE DEF s
  <2>7. Len(s) \in Nat /\ q + n * Len(s) <= m
    BY <1>0, <2>1, <2>3, <2>4
  <2> HIDE DEF n, q
  <2>8. InRow(c, q, s, n)
    BY <2>6, <2>7, InRowStays
  <2> QED
    BY <1>6, <2>1, <2>5, <2>8 DEF Lies, n, q, s
<1> QED
  BY <1>2, <1>3, <1>4, <1>5, <1>6 DEF Lies

(* Encoding puts a field after the ones before.                            *)
LEMMA PutFacts ==
    ASSUME NEW e, Ready(e), NEW f, Codec!Field(f), NEW p \in Codec!Put(e, f)
    PROVE  IF p.dead THEN f.kind = "other" /\ f.exported /\ p.buf = e.buf /\ p.w = e.w
           ELSE /\ p \in Encoder /\ Len(p.buf) >= Cap
                /\ Same(e.buf, p.buf, e.w) /\ Lies(f, p.buf, e.w, p.w)
                /\ p.w <= Len(p.buf) \/ (f.kind \in {"string", "bytes"} /\ Len(f.val) > Cap)
<1>0. e \in Encoder /\ ~e.dead /\ e.w \in Nat /\ Len(e.buf) >= Cap /\ e.w <= Len(e.buf)
  BY DEF Ready, Encoder
<1>1. CASE ~f.exported
  <2>1. p = e
    BY <1>1 DEF Codec!Put
  <2> QED
    BY <1>0, <1>1, <2>1 DEF Same, Lies
<1>2. CASE f.exported /\ Codec!Fixed(f)
  <2> DEFINE n == Codec!Size[f.kind]
             v == f.val
  <2>1. p = Codec!PutNumber(e, v, n)
    BY <1>2 DEF Codec!Put
  <2>2. v \in Int /\ n \in 1..8
    BY <1>2, FieldFacts, SizeFacts DEF Codec!Fixed
  <2> HIDE DEF n, v
  <2>3. Ready(p) /\ p.w = e.w + n /\ Same(e.buf, p.buf, e.w) /\ Written(p.buf, e.w, v, n)
    BY <2>1, <2>2, PutNumberFacts
  <2>4. Lies(f, p.buf, e.w, p.w)
    BY <1>2, <2>3 DEF Lies, n, v
  <2> QED
    BY <2>3, <2>4 DEF Ready
<1>3. CASE f.exported /\ f.kind \in {"string", "bytes"}
  <2> DEFINE s == f.val
  <2>1. p = Codec!PutBytes(e, s)
    BY <1>3, SizeFacts DEF Codec!Put, Codec!Fixed
  <2>2. s \in Seq(Codec!Bytes)
    BY <1>3, FieldFacts, SizeFacts
  <2> HIDE DEF s
  <2>3. /\ p \in Encoder /\ ~p.dead /\ p.w = e.w + 2 + Len(s) /\ Len(p.buf) >= Cap
        /\ Same(e.buf, p.buf, e.w)
        /\ Written(p.buf, e.w, Len(s), 2) /\ Spelt(p.buf, e.w + 2, s)
        /\ p.w <= Len(p.buf) \/ Len(s) > Cap
    BY <2>1, <2>2, PutBytesFacts
  <2>4. Lies(f, p.buf, e.w, p.w)
    BY <1>3, <2>3 DEF Lies, s
  <2> QED
    BY <1>3, <2>3, <2>4 DEF s
<1>4. CASE f.exported /\ f.kind = "slice"
  <2> DEFINE s == f.val
             N == Len(s)
             c == Codec!PutNumber(e, N, 4)
  <2>1. p = Codec!PutNumbers(c, s, 2)
    BY <1>4, SizeFacts DEF Codec!Put, Codec!Fixed, Codec!PutSlice
  <2>2. s \in Seq(0..(Codec!Power[2] - 1)) /\ N \in Nat
    BY <1>4, FieldFacts, SizeFacts
  <2>3. s \in Seq(Int) /\ N \in Int
    <3> DEFINE B == 0..(Codec!Power[2] - 1)
    <3>1. s \in Seq(B) /\ B \subseteq Int /\ N \in Int
      BY <2>2
    <3> HIDE DEF B, s, N
    <3> QED
      BY <3>1, SeqMonotonic
  <2>4. 4 \in 1..8 /\ 2 \in 1..8
    OBVIOUS
  <2> HIDE DEF s
  <2>5. Ready(c) /\ c.w = e.w + 4 /\ Same(e.buf, c.buf, e.w) /\ Written(c.buf, e.w, N, 4)
    <3> HIDE DEF N
    <3> QED
      BY <2>3, <2>4, PutNumberFacts
  <2> HIDE DEF c
  <2>6. Ready(p) /\ p.w = c.w + 2 * N /\ Same(c.buf, p.buf, c.w) /\ InRow(p.buf, c.w, s, 2)
    BY <2>1, <2>3, <2>4, <2>5, PutNumbersFacts
  <2> HIDE DEF N
  <2>7. c.w \in Nat /\ e.w <= c.w /\ e.w + 4 <= c.w /\ p.w = e.w + 4 + 2 * N
    BY <1>0, <2>2, <2>5, <2>6
  <2>8. Same(e.buf, p.buf, e.w)
    BY <1>0, <2>5, <2>6, <2>7, SameTrans
  <2>9. Written(p.buf, e.w, N, 4)
    <3>1. 4 \in Nat
      OBVIOUS
    <3> QED
      BY <1>0, <2>5, <2>6, <2>7, <3>1, WrittenStays
  <2>10. Lies(f, p.buf, e.w, p.w)
    BY <1>4, <2>5, <2>6, <2>7, <2>9 DEF Lies, s, N
  <2> QED
    BY <2>6, <2>8, <2>10 DEF Ready
<1>5. CASE f.exported /\ f.kind = "map"
  <2>1. PICK keys \in Codec!SetToSeqs(DOMAIN f.val) : p = Codec!PutMap(e, f.val, keys)
    BY <1>5, SizeFacts DEF Codec!Put, Codec!Fixed
  <2>2. DOMAIN f.val \subseteq Codec!Bytes /\ f.val \in [DOMAIN f.val -> Codec!Bytes]
    BY <1>5, FieldFacts, SizeFacts
  <2>3. keys \in Seq(DOMAIN f.val) /\ Len(keys) \in Nat
    BY <2>2, MapKeys
  <2> DEFINE s == Codec!Pairs(f.val, keys)
             K == Len(keys)
             c == Codec!PutNumber(e, K, 4)
  <2>4. p = Codec!PutNumbers(c, s, 1)
    BY <2>1 DEF Codec!PutMap
  <2>5. s \in Seq(Codec!Bytes) /\ Len(s) = 2 * K
    BY <2>2, <2>3, PairsFacts
  <2>6. s \in Seq(Int) /\ K \in Int /\ K \in Nat
    BY <2>3, <2>5, CodecConstants DEF Codec!Bytes
  <2>7. 4 \in 1..8 /\ 1 \in 1..8
    OBVIOUS
  <2> HIDE DEF s, K
  <2>8. Ready(c) /\ c.w = e.w + 4 /\ Same(e.buf, c.buf, e.w) /\ Written(c.buf, e.w, K, 4)
    BY <2>6, <2>7, PutNumberFacts
  <2> HIDE DEF c
  <2>9. Ready(p) /\ p.w = c.w + 1 * Len(s) /\ Same(c.buf, p.buf, c.w) /\ InRow(p.buf, c.w, s, 1)
    BY <2>4, <2>6, <2>7, <2>8, PutNumbersFacts
  <2>10. c.w \in Nat /\ e.w <= c.w /\ e.w + 4 <= c.w /\ p.w = e.w + 4 + 2 * K
    BY <1>0, <2>5, <2>6, <2>8, <2>9
  <2>11. Same(e.buf, p.buf, e.w)
    BY <1>0, <2>8, <2>9, <2>10, SameTrans
  <2>12. Written(p.buf, e.w, K, 4)
    <3>1. 4 \in Nat
      OBVIOUS
    <3> QED
      BY <1>0, <2>8, <2>9, <2>10, <3>1, WrittenStays
  <2>13. Lies(f, p.buf, e.w, p.w)
    BY <1>5, <2>8, <2>9, <2>10, <2>12 DEF Lies, s, K
  <2> QED
    BY <2>9, <2>11, <2>13 DEF Ready
<1>6. CASE f.exported /\ f.kind = "other"
  <2>1. p = [e EXCEPT !.dead = TRUE]
    BY <1>6, SizeFacts DEF Codec!Put, Codec!Fixed
  <2>2. p.dead /\ p.buf = e.buf /\ p.w = e.w
    BY <1>0, <2>1 DEF Encoder
  <2> QED
    BY <1>6, <2>2
<1> QED
  BY <1>1, <1>2, <1>3, <1>4, <1>5, <1>6, FieldFacts DEF Codec!Fixed

(* After a string that was longer than the buffer there is no room.        *)
LEMMA PutNowhere ==
    ASSUME NEW e \in Encoder, ~e.dead, e.w > Len(e.buf), NEW f, Codec!Field(f), NEW p \in Codec!Put(e, f)
    PROVE  p.buf = e.buf /\ p.w = e.w /\ p.dead = f.exported
<1> DEFINE x == [e EXCEPT !.dead = TRUE]
<1>1. x \in Encoder /\ x.dead = TRUE /\ x.buf = e.buf /\ x.w = e.w /\ e.dead = FALSE
  BY DEF Encoder
<1>2. \A v, n : Codec!PutNumber(e, v, n) = x
  BY DEF Codec!PutNumber
<1> HIDE DEF x
<1>3. ASSUME ~f.exported PROVE p = e
  BY <1>3 DEF Codec!Put
<1>4. ASSUME f.exported PROVE p = x
  <2>1. CASE Codec!Fixed(f)
    BY <1>2, <1>4, <2>1 DEF Codec!Put
  <2>2. CASE f.kind \in {"string", "bytes"}
    <3>1. p = Codec!PutBytes(e, f.val)
      BY <1>4, <2>2, SizeFacts DEF Codec!Put, Codec!Fixed
    <3> QED
      BY <1>1, <1>2, <3>1 DEF Codec!PutBytes
  <2>3. CASE f.kind = "slice"
    <3>1. p = Codec!PutNumbers(x, f.val, 2)
      BY <1>2, <1>4, <2>3, SizeFacts DEF Codec!Put, Codec!Fixed, Codec!PutSlice
    <3>2. Len(f.val) \in Nat
      BY <2>3, FieldFacts, SizeFacts
    <3> QED
      BY <1>1, <3>1, <3>2, PutsDead
  <2>4. CASE f.kind = "map"
    <3>1. PICK keys \in Codec!SetToSeqs(DOMAIN f.val) : p = Codec!PutMap(e, f.val, keys)
      BY <1>4, <2>4, SizeFacts DEF Codec!Put, Codec!Fixed
    <3>2. p = Codec!PutNumbers(x, Codec!Pairs(f.val, keys), 1)
      BY <1>2, <3>1 DEF Codec!PutMap
    <3>3. DOMAIN f.val \subseteq Codec!Bytes /\ f.val \in [DOMAIN f.val -> Codec!Bytes]
      BY <2>4, FieldFacts, SizeFacts
    <3>4. keys \in Seq(DOMAIN f.val)
      BY <3>3, MapKeys
    <3>5. Len(Codec!Pairs(f.val, keys)) \in Nat
      BY <3>3, <3>4, PairsFacts
    <3> QED
      BY <1>1, <3>2, <3>5, PutsDead
  <2>5. CASE f.kind = "other"
    BY <1>4, <2>5, SizeFacts DEF Codec!Put, Codec!Fixed, x
  <2> QED
    BY <2>1, <2>2, <2>3, <2>4, <2>5, FieldFacts DEF Codec!Fixed
<1>5. f.exported \in BOOLEAN
  BY FieldFacts
<1> QED
  BY <1>1, <1>3, <1>4, <1>5

-----------------------------------------------------------------------------
(* Decoding.  A number is there or the index panics. *)

Reader(o, z) == [r |-> o, val |-> z, dead |-> FALSE]
Broken(o, z) == [r |-> o, val |-> z, dead |-> TRUE]

LEMMA ReaderFacts ==
    \A o, z : /\ Reader(o, z).r = o /\ Reader(o, z).val = z /\ ~Reader(o, z).dead /\ Broken(o, z).dead
              /\ [Reader(o, z) EXCEPT !.dead = TRUE].dead /\ [Broken(o, z) EXCEPT !.dead = TRUE].dead
  BY DEF Reader, Broken

LEMMA TakeFacts ==
    ASSUME NEW o \in Nat, NEW z, NEW n \in Nat, NEW k, Len(text) \in Nat
    PROVE  LET t == Codec!TakeNumber(Reader(o, z), k, n)
           IN  IF o + n > Len(text) THEN t = Broken(o, z)
               ELSE t = Reader(o + n, Codec!Number(k, SubSeq(text, o + 1, o + n)))
<1> DEFINE d == Reader(o, z)
           t == Codec!Take(d, n)
           v == Codec!Number(k, SubSeq(text, o + 1, o + n))
<1>1. d = [r |-> o, val |-> z, dead |-> FALSE]
  BY DEF Reader
<1>2. Codec!TakeNumber(d, k, n) = Codec!With(t, Codec!Number(k, t.val))
  BY DEF Codec!TakeNumber
<1>3. CASE o + n > Len(text)
  <2>1. Codec!Take([r |-> o, val |-> z, dead |-> FALSE], n) = [r |-> o, val |-> z, dead |-> TRUE]
    BY <1>3 DEF Codec!Take
  <2>2. t = [r |-> o, val |-> z, dead |-> TRUE]
    BY <1>1, <2>1
  <2>3. \A x : Codec!With(t, x) = t
    BY <2>2 DEF Codec!With
  <2> QED
    BY <1>2, <1>3, <2>2, <2>3 DEF Broken
<1>4. CASE ~(o + n > Len(text))
  <2>1. t = [r |-> o + n, val |-> SubSeq(text, o + 1, o + n), dead |-> FALSE]
    BY <1>1, <1>4 DEF Codec!Take
  <2>2. t.val = SubSeq(text, o + 1, o + n)
    BY <2>1
  <2>3. ~t.dead /\ t.r = o + n
    BY <2>1
  <2>4. Codec!With(t, v) = [r |-> o + n, val |-> v, dead |-> FALSE]
    <3> HIDE DEF t, v
    <3> QED
      BY <2>3 DEF Codec!With
  <2> QED
    BY <1>2, <1>4, <2>2, <2>4 DEF Reader, v
<1> QED
  BY <1>3, <1>4

LEMMA DigitsThere ==
    ASSUME NEW s \in Seq(Codec!Bytes), NEW o \in Nat, NEW n \in 0..8, NEW v \in Int,
           Written(s, o, v, n), o + n <= Len(s)
    PROVE  SubSeq(s, o + 1, o + n) = Codec!Digits(v, n)
<1> DEFINE a == SubSeq(s, o + 1, o + n)
           d == Codec!Digits(v, n)
<1>1. a \in Seq(Codec!Bytes) /\ Len(a) = n /\ \A i \in 1..n : a[i] = s[o + i]
  OBVIOUS
<1>2. d \in Seq(Codec!Bytes) /\ Len(d) = n
  BY DigitTypes
<1>3. \A i \in 1..n : o + i \in DOMAIN s
  OBVIOUS
<1> HIDE DEF a, d
<1>4. \A i \in 1..n : a[i] = d[i]
  BY <1>1, <1>3 DEF Written, d
<1>5. a = d
  BY <1>1, <1>2, <1>4, SeqEqual
<1> QED
  BY <1>5 DEF a, d

(* A count is a natural number, and the one that was written if it fits.   *)
LEMMA CountFacts ==
    ASSUME NEW s \in Seq(Codec!Bytes), NEW o \in Nat, NEW n \in {1, 2, 4}, o + n <= Len(s),
           NEW k \in {"uint8", "uint16", "uint32"}
    PROVE  /\ Codec!Number(k, SubSeq(s, o + 1, o + n)) \in Nat
           /\ \A v \in 0..(Codec!Power[n] - 1) :
                  Written(s, o, v, n) => Codec!Number(k, SubSeq(s, o + 1, o + n)) = v
<1> DEFINE a == SubSeq(s, o + 1, o + n)
<1>0. n \in 1..8 /\ n \in 0..8 /\ n \in Nat /\ Codec!Power[n] \in Nat \ {0}
  <2>1. n \in 1..8 /\ n \in 0..8 /\ n \in Nat
    OBVIOUS
  <2> QED
    BY <2>1, BytePowers
<1>1. a \in Seq(Codec!Bytes) /\ Len(a) = n
  BY <1>0
<1>2. k \in DOMAIN Codec!Size /\ k \notin Codec!Signed /\ k # "bool"
  BY DEF Codec!Size, Codec!Signed
<1>3. Codec!Number(k, a) \in Nat
  <2> HIDE DEF a
  <2>1. Codec!Number(k, a) = Codec!Unsigned(a)
    BY <1>2 DEF Codec!Number
  <2>2. Codec!Unsigned(a) = ByteSums(a)[Len(a)] /\ \A i \in 0..Len(a) : ByteSums(a)[i] \in Nat
    BY <1>0, <1>1, BytesAdd
  <2>3. Len(a) \in 0..Len(a)
    BY <1>0, <1>1
  <2> QED
    BY <2>1, <2>2, <2>3
<1>4. ASSUME NEW v \in 0..(Codec!Power[n] - 1), Written(s, o, v, n)
      PROVE  Codec!Number(k, a) = v
  <2>1. v \in Int
    OBVIOUS
  <2>2. a = Codec!Digits(v, n)
    BY <1>0, <1>4, <2>1, DigitsThere
  <2>3. Codec!Fits(k, v, n)
    BY <1>2 DEF Codec!Fits
  <2> HIDE DEF a
  <2>4. Codec!Number(k, Codec!Digits(v, n)) = v
    BY <1>0, <1>2, <2>1, <2>3, NumberBack
  <2> QED
    BY <2>2, <2>4
<1> QED
  BY <1>3, <1>4

LEMMA MinFacts ==
    ASSUME NEW a \in Int, NEW b \in Int, a <= b
    PROVE  Codec!Min({a, b}) = a
<1>1. \E x \in {a, b} : \A y \in {a, b} : x <= y
  OBVIOUS
<1>2. Codec!Min({a, b}) \in {a, b} /\ \A y \in {a, b} : Codec!Min({a, b}) <= y
  BY <1>1 DEF Codec!Min
<1> QED
  BY <1>2

(* The text is what lies there.                                            *)
LEMMA SpeltThere ==
    ASSUME NEW b \in Seq(Codec!Bytes), NEW s \in Seq(Codec!Bytes), NEW o \in Nat,
           o + Len(s) <= Len(b), Spelt(b, o, s)
    PROVE  SubSeq(b, o + 1, o + Len(s)) = s
<1> DEFINE N == Len(s)
           a == SubSeq(b, o + 1, o + N)
<1>1. N \in Nat /\ o + N <= Len(b) /\ Len(s) = N
  OBVIOUS
<1> HIDE DEF N
<1>2. a \in Seq(Codec!Bytes) /\ Len(a) = N /\ \A i \in 1..N : a[i] = b[o + i]
  BY <1>1
<1>3. \A i \in 1..N : o + i \in DOMAIN b
  BY <1>1
<1>4. \A i \in 1..N : a[i] = s[i]
  BY <1>2, <1>3 DEF Spelt, N
<1> HIDE DEF a
<1>5. a = s
  BY <1>1, <1>2, <1>4, SeqEqual
<1> QED
  BY <1>5 DEF a, N

LEMMA CountRead ==
    ASSUME text \in Seq(Codec!Bytes), NEW o \in Nat, NEW z, NEW n \in {1, 2, 4},
           NEW k \in {"uint8", "uint16", "uint32"}
    PROVE  IF o + n > Len(text) THEN Codec!TakeNumber(Reader(o, z), k, n) = Broken(o, z)
           ELSE \E v \in Nat : /\ Codec!TakeNumber(Reader(o, z), k, n) = Reader(o + n, v)
                               /\ \A x \in 0..(Codec!Power[n] - 1) : Written(text, o, x, n) => v = x
<1>1. Len(text) \in Nat /\ n \in Nat
  OBVIOUS
<1>2. CASE o + n > Len(text)
  BY <1>1, <1>2, TakeFacts
<1>3. CASE ~(o + n > Len(text))
  <2> DEFINE v == Codec!Number(k, SubSeq(text, o + 1, o + n))
  <2>1. Codec!TakeNumber(Reader(o, z), k, n) = Reader(o + n, v)
    BY <1>1, <1>3, TakeFacts
  <2>2. o + n <= Len(text)
    BY <1>1, <1>3
  <2>3. v \in Nat /\ \A x \in 0..(Codec!Power[n] - 1) : Written(text, o, x, n) => v = x
    BY <2>2, CountFacts
  <2> HIDE DEF v
  <2> QED
    BY <1>3, <2>1, <2>3
<1> QED
  BY <1>2, <1>3

(* A string is read as it was written, but for a lost end.                 *)
TextRead(g, o) ==
    /\ ~g.dead => o < Len(text) /\ g.r \in Nat
    /\ \A x \in Seq(Codec!Bytes) :
          Len(x) \in 0..(Codec!Power[2] - 1) /\ Written(text, o, Len(x), 2) /\ Spelt(text, o + 2, x) =>
              /\ ~g.dead => g.r = o + 2 + Len(x)
              /\ o + 2 + Len(x) <= Len(text) => ~g.dead /\ g.val = x

LEMMA StringRead ==
    ASSUME text \in Seq(Codec!Bytes), NEW o \in Nat, NEW z
    PROVE  TextRead(Codec!TakeString(Reader(o, z)), o)
<1> DEFINE c == Codec!TakeNumber(Reader(o, z), "uint16", 2)
           g == Codec!TakeString(Reader(o, z))
           L == Len(text)
<1>0. L \in Nat
  OBVIOUS
<1>1. g = IF c.dead THEN c
          ELSE [r |-> c.r + c.val, dead |-> FALSE, val |-> SubSeq(text, c.r + 1, Codec!Min({c.r + c.val, L}))]
  BY DEF Codec!TakeString
<1>2. IF o + 2 > L THEN c = Broken(o, z)
      ELSE \E v \in Nat : /\ c = Reader(o + 2, v)
                          /\ \A x \in 0..(Codec!Power[2] - 1) : Written(text, o, x, 2) => v = x
  BY CountRead
<1> HIDE DEF c, g, L
<1>3. CASE o + 2 > L
  <2>1. g.dead
    BY <1>1, <1>2, <1>3, ReaderFacts
  <2>2. \A x \in Seq(Codec!Bytes) : ~(o + 2 + Len(x) <= L)
    <3> SUFFICES ASSUME NEW x \in Seq(Codec!Bytes) PROVE ~(o + 2 + Len(x) <= L)
      OBVIOUS
    <3> DEFINE N == Len(x)
    <3>1. N \in Nat
      OBVIOUS
    <3> HIDE DEF N
    <3> QED
      BY <1>0, <1>3, <3>1 DEF N
  <2> QED
    BY <2>1, <2>2 DEF TextRead, g, L
<1>4. CASE ~(o + 2 > L)
  <2>1. PICK v \in Nat : /\ c = Reader(o + 2, v)
                         /\ \A x \in 0..(Codec!Power[2] - 1) : Written(text, o, x, 2) => v = x
    BY <1>2, <1>4
  <2>2. g = [r |-> (o + 2) + v, dead |-> FALSE,
             val |-> SubSeq(text, (o + 2) + 1, Codec!Min({(o + 2) + v, L}))]
    BY <1>1, <2>1, ReaderFacts
  <2>3. ~g.dead /\ g.r = (o + 2) + v /\ g.val = SubSeq(text, (o + 2) + 1, Codec!Min({(o + 2) + v, L}))
    BY <2>2
  <2>4. o < L /\ g.r \in Nat
    BY <1>0, <1>4, <2>3
  <2>5. ASSUME NEW x \in Seq(Codec!Bytes), Len(x) \in 0..(Codec!Power[2] - 1), Written(text, o, Len(x), 2),
               Spelt(text, o + 2, x)
        PROVE  g.r = o + 2 + Len(x) /\ (o + 2 + Len(x) <= L => g.val = x)
    <3>1. v = Len(x)
      BY <2>1, <2>5
    <3>2. ASSUME o + 2 + Len(x) <= L PROVE g.val = x
      <4> DEFINE q == o + 2
                 m == q + v
      <4>1. m \in Int /\ L \in Int /\ m <= L /\ q \in Nat
        BY <1>0, <3>1, <3>2
      <4>2. Codec!Min({m, L}) = m
        <5> HIDE DEF m
        <5> QED
          BY <4>1, MinFacts
      <4>3. g.val = SubSeq(text, q + 1, q + Len(x))
        BY <2>3, <3>1, <4>2
      <4>4. q + Len(x) <= Len(text)
        BY <3>1, <4>1 DEF L
      <4> HIDE DEF q
      <4>5. SubSeq(text, q + 1, q + Len(x)) = x
        BY <2>5, <4>1, <4>4, SpeltThere DEF q
      <4> QED
        BY <4>3, <4>5
    <3> QED
      BY <2>3, <3>1, <3>2
  <2> QED
    BY <2>3, <2>4, <2>5 DEF TextRead, g, L
<1> QED
  BY <1>3, <1>4

LEMMA BytesRead ==
    ASSUME text \in Seq(Codec!Bytes), NEW o \in Nat, NEW z
    PROVE  TextRead(Codec!TakeBytes(Reader(o, z)), o)
<1> DEFINE c == Codec!TakeNumber(Reader(o, z), "uint16", 2)
           g == Codec!TakeBytes(Reader(o, z))
           L == Len(text)
           memory == text \o Codec!Zeros(Spare)
<1>0. L \in Nat /\ Spare \in Nat
  BY CodecConstants
<1>1. g = IF c.dead \/ c.r + c.val > L + Spare THEN [c EXCEPT !.dead = TRUE]
          ELSE [r |-> c.r + c.val, dead |-> FALSE, val |-> SubSeq(memory, c.r + 1, c.r + c.val)]
  BY DEF Codec!TakeBytes
<1>2. IF o + 2 > L THEN c = Broken(o, z)
      ELSE \E v \in Nat : /\ c = Reader(o + 2, v)
                          /\ \A x \in 0..(Codec!Power[2] - 1) : Written(text, o, x, 2) => v = x
  BY CountRead
<1>3. memory \in Seq(Codec!Bytes) /\ Len(memory) = L + Spare /\ \A i \in 1..L : memory[i] = text[i]
  <2> DEFINE blank == Codec!Zeros(Spare)
  <2>1. blank \in Seq(Codec!Bytes) /\ Len(blank) = Spare
    <3>1. 0 \in Codec!Bytes
      BY CodecConstants DEF Codec!Bytes
    <3> QED
      BY <1>0, <3>1 DEF Codec!Zeros
  <2> HIDE DEF blank
  <2>2. text \o blank \in Seq(Codec!Bytes) /\ Len(text \o blank) = L + Spare
        /\ \A i \in 1..L : (text \o blank)[i] = text[i]
    BY <1>0, <2>1
  <2> QED
    BY <2>2 DEF blank
<1> HIDE DEF c, g, L, memory
<1>4. CASE o + 2 > L
  <2>1. g.dead
    BY <1>1, <1>2, <1>4, ReaderFacts
  <2>2. \A x \in Seq(Codec!Bytes) : ~(o + 2 + Len(x) <= L)
    <3> SUFFICES ASSUME NEW x \in Seq(Codec!Bytes) PROVE ~(o + 2 + Len(x) <= L)
      OBVIOUS
    <3> DEFINE N == Len(x)
    <3>1. N \in Nat
      OBVIOUS
    <3> HIDE DEF N
    <3> QED
      BY <1>0, <1>4, <3>1 DEF N
  <2> QED
    BY <2>1, <2>2 DEF TextRead, g, L
<1>5. CASE ~(o + 2 > L)
  <2>1. PICK v \in Nat : /\ c = Reader(o + 2, v)
                         /\ \A x \in 0..(Codec!Power[2] - 1) : Written(text, o, x, 2) => v = x
    BY <1>2, <1>5
  <2> DEFINE q == o + 2
  <2>2. IF q + v > L + Spare THEN g.dead
        ELSE g = [r |-> q + v, dead |-> FALSE, val |-> SubSeq(memory, q + 1, q + v)]
    BY <1>1, <2>1, ReaderFacts
  <2>3. ~g.dead => g.r = q + v /\ g.val = SubSeq(memory, q + 1, q + v)
    BY <2>2
  <2>4. ~g.dead => o < L /\ g.r \in Nat
    BY <1>0, <1>5, <2>3
  <2>5. ASSUME NEW x \in Seq(Codec!Bytes), Len(x) \in 0..(Codec!Power[2] - 1), Written(text, o, Len(x), 2),
               Spelt(text, o + 2, x)
        PROVE  /\ ~g.dead => g.r = o + 2 + Len(x)
               /\ o + 2 + Len(x) <= L => ~g.dead /\ g.val = x
    <3>1. v = Len(x)
      BY <2>1, <2>5
    <3>2. ASSUME o + 2 + Len(x) <= L PROVE ~g.dead /\ g.val = x
      <4>1. q \in Nat /\ q + v <= L /\ ~(q + v > L + Spare)
        BY <1>0, <3>1, <3>2
      <4>2. ~g.dead
        BY <2>2, <4>1
      <4> HIDE DEF q
      <4>3. Spelt(memory, q, x)
        <5>1. \A i \in 1..Len(x) : q + i \in 1..L
          BY <1>0, <3>1, <4>1
        <5>2. \A i \in 1..Len(x) : q + i \in DOMAIN text
          BY <5>1 DEF L
        <5> QED
          BY <1>3, <2>5, <5>1, <5>2 DEF Spelt, q
      <4>4. q + Len(x) <= Len(memory)
        BY <1>0, <1>3, <3>1, <4>1
      <4>5. SubSeq(memory, q + 1, q + Len(x)) = x
        BY <1>3, <4>1, <4>3, <4>4, SpeltThere
      <4> QED
        BY <2>3, <3>1, <4>2, <4>5
    <3> QED
      BY <2>3, <3>1, <3>2
  <2> QED
    BY <2>4, <2>5 DEF TextRead, g, L
<1> QED
  BY <1>4, <1>5

-----------------------------------------------------------------------------
(* Rows of numbers are read as they were written. *)

LEMMA RowThere ==
    ASSUME NEW a \in Seq(Codec!Bytes), NEW o \in Nat, NEW n \in 1..8, NEW s \in Seq(Int), InRow(a, o, s, n),
           o + n * Len(s) <= Len(a), NEW k \in 1..Len(s)
    PROVE  SubSeq(a, (o + n * (k - 1)) + 1, (o + n * (k - 1)) + n) = Codec!Digits(s[k], n)
<1> DEFINE q == o + n * (k - 1)
           v == s[k]
           N == Len(s)
<1>1. n * (k - 1) \in Nat /\ n * (k - 1) + n = n * k /\ n * k <= n * N /\ n * N \in Nat /\ n * k \in Nat
  OBVIOUS
<1>2. q \in Nat /\ q + n <= Len(a) /\ n \in 0..8 /\ v \in Int
  BY <1>1
<1>3. Written(a, q, v, n)
  BY DEF InRow
<1> HIDE DEF q, v
<1> QED
  BY <1>2, <1>3, DigitsThere DEF q, v

LEMMA ByteThere == \A x \in Codec!Bytes : Codec!Digits(x, 1)[1] = x
<1> SUFFICES ASSUME NEW x \in Codec!Bytes PROVE Codec!Digits(x, 1)[1] = x
  OBVIOUS
<1>1. Codec!Power[0] = 1 /\ x \in 0..(Byte - 1) /\ Byte \in Nat \ {0} /\ x \in Int
  BY BytePowers, CodecConstants DEF Codec!Bytes
<1>2. x \div 1 = x /\ x % Byte = x
  <2>1. x \div 1 = x
    BY <1>1
  <2>2. x % Byte = x
    BY <1>1, ModFacts
  <2> QED
    BY <2>1, <2>2
<1>3. Codec!Digits(x, 1)[1] = (x \div Codec!Power[1 - 1]) % Byte
  BY DEF Codec!Digits
<1>4. 1 - 1 = 0
  OBVIOUS
<1> QED
  BY <1>1, <1>2, <1>3, <1>4

SliceOf(g, o, room) ==
    /\ ~g.dead => o < Len(text) /\ g.r \in Nat
    /\ \A x \in Seq(0..(Codec!Power[2] - 1)) :
          Len(x) \in 0..(Codec!Power[4] - 1) /\ Written(text, o, Len(x), 4) /\ InRow(text, o + 4, x, 2) =>
              /\ ~g.dead => g.r = o + 4 + 2 * Len(x) /\ g.val = x
              /\ o + 4 + 2 * Len(x) <= Len(text) /\ Len(x) <= room => ~g.dead

LEMMA SliceRead ==
    ASSUME text \in Seq(Codec!Bytes), NEW o \in Nat, NEW z, NEW room \in Nat
    PROVE  SliceOf(Codec!TakeSlice(Reader(o, z), room), o, room)
<1> DEFINE c == Codec!TakeNumber(Reader(o, z), "uint32", 4)
           t == Codec!Take(c, 2 * c.val)
           g == Codec!TakeSlice(Reader(o, z), room)
           L == Len(text)
<1>0. L \in Nat
  OBVIOUS
<1>1. g = IF c.dead \/ c.val > room THEN [c EXCEPT !.dead = TRUE]
          ELSE Codec!With(t, [i \in 1..c.val |-> Codec!Unsigned(SubSeq(t.val, 2 * i - 1, 2 * i))])
  BY DEF Codec!TakeSlice
<1>2. IF o + 4 > L THEN c = Broken(o, z)
      ELSE \E v \in Nat : /\ c = Reader(o + 4, v)
                          /\ \A x \in 0..(Codec!Power[4] - 1) : Written(text, o, x, 4) => v = x
  BY CountRead
<1> HIDE DEF c, g, L
<1>3. CASE o + 4 > L
  <2>1. g.dead
    BY <1>1, <1>2, <1>3, ReaderFacts
  <2>2. \A x \in Seq(0..(Codec!Power[2] - 1)) : ~(o + 4 + 2 * Len(x) <= L)
    <3> SUFFICES ASSUME NEW x \in Seq(0..(Codec!Power[2] - 1)) PROVE ~(o + 4 + 2 * Len(x) <= L)
      OBVIOUS
    <3> DEFINE N == Len(x)
    <3>1. N \in Nat
      OBVIOUS
    <3> HIDE DEF N
    <3> QED
      BY <1>0, <1>3, <3>1 DEF N
  <2> QED
    BY <2>1, <2>2 DEF SliceOf, g, L
<1>4. CASE ~(o + 4 > L)
  <2>1. PICK v \in Nat : /\ c = Reader(o + 4, v)
                         /\ \A x \in 0..(Codec!Power[4] - 1) : Written(text, o, x, 4) => v = x
    BY <1>2, <1>4
  <2> DEFINE q == o + 4
             a == SubSeq(text, q + 1, q + 2 * v)
             val == [i \in 1..v |-> Codec!Unsigned(SubSeq(a, 2 * i - 1, 2 * i))]
  <2>2. q \in Nat /\ q <= L /\ o < L
    BY <1>0, <1>4
  <2>3. ~c.dead /\ c.val = v /\ c.r = q
    BY <2>1, ReaderFacts
  <2>4. t = IF q + 2 * v > L THEN [c EXCEPT !.dead = TRUE] ELSE Reader(q + 2 * v, a)
    BY <2>3 DEF Codec!Take, Reader, L
  <2>5. IF v > room \/ q + 2 * v > L THEN g.dead ELSE g = Reader(q + 2 * v, val)
    <3>1. CASE v > room
      <4>1. g = [c EXCEPT !.dead = TRUE]
        BY <1>1, <2>3, <3>1
      <4>2. [c EXCEPT !.dead = TRUE].dead
        BY <2>1, ReaderFacts
      <4> QED
        BY <3>1, <4>1, <4>2
    <3>2. CASE ~(v > room) /\ q + 2 * v > L
      <4>1. t.dead
        <5>1. t = [c EXCEPT !.dead = TRUE]
          BY <2>4, <3>2
        <5>2. [c EXCEPT !.dead = TRUE].dead
          BY <2>1, ReaderFacts
        <5> QED
          BY <5>1, <5>2
      <4>2. \A y : Codec!With(t, y).dead
        <5> HIDE DEF t
        <5> QED
          BY <4>1 DEF Codec!With
      <4> QED
        BY <1>1, <2>3, <3>2, <4>2
    <3>3. CASE ~(v > room) /\ ~(q + 2 * v > L)
      <4>1. t = Reader(q + 2 * v, a) /\ t.val = a /\ ~t.dead /\ t.r = q + 2 * v
        <5> HIDE DEF t, a, q
        <5>1. t = Reader(q + 2 * v, a)
          BY <2>4, <3>3
        <5> QED
          BY <5>1, ReaderFacts
      <4>2. g = Codec!With(t, val)
        BY <1>1, <2>3, <3>3, <4>1
      <4> HIDE DEF t, val
      <4>3. g = Reader(q + 2 * v, val)
        BY <4>1, <4>2 DEF Codec!With, Reader
      <4> QED
        BY <3>3, <4>3
    <3> QED
      BY <3>1, <3>2, <3>3
  <2>6. ~g.dead => g.r = q + 2 * v /\ g.val = val /\ ~(q + 2 * v > L)
    <3> HIDE DEF val, q
    <3> QED
      BY <2>5, ReaderFacts
  <2>7. ~g.dead => g.r \in Nat
    BY <2>2, <2>6
  <2>8. ASSUME NEW x \in Seq(0..(Codec!Power[2] - 1)), Len(x) \in 0..(Codec!Power[4] - 1),
               Written(text, o, Len(x), 4), InRow(text, o + 4, x, 2)
        PROVE  /\ ~g.dead => g.r = o + 4 + 2 * Len(x) /\ g.val = x
               /\ o + 4 + 2 * Len(x) <= L /\ Len(x) <= room => ~g.dead
    <3>1. v = Len(x)
      BY <2>1, <2>8
    <3>2. ASSUME ~g.dead PROVE val = x
      <4>1. q + 2 * v <= L /\ 2 \in 1..8 /\ 2 \in 0..8
        BY <1>0, <2>2, <2>6, <3>2
      <4>2. a \in Seq(Codec!Bytes) /\ Len(a) = 2 * v /\ \A i \in 1..(2 * v) : a[i] = text[q + i]
        <5> DEFINE m == 2 * v
        <5>1. m \in Nat /\ q + m <= Len(text)
          BY <4>1 DEF L
        <5> HIDE DEF m, q
        <5>2. /\ SubSeq(text, q + 1, q + m) \in Seq(Codec!Bytes) /\ Len(SubSeq(text, q + 1, q + m)) = m
              /\ \A i \in 1..m : SubSeq(text, q + 1, q + m)[i] = text[q + i]
          BY <2>2, <5>1
        <5> QED
          BY <5>2 DEF m
      <4>3. x \in Seq(Int)
        <5> DEFINE B == 0..(Codec!Power[2] - 1)
        <5>1. x \in Seq(B) /\ B \subseteq Int
          OBVIOUS
        <5> HIDE DEF B
        <5> QED
          BY <5>1, SeqMonotonic
      <4> DEFINE none == 0
                 two == 2
      <4>4. InRow(a, none, x, two)
        <5> SUFFICES ASSUME NEW k \in 1..v, NEW i \in 1..2, (0 + 2 * (k - 1)) + i \in DOMAIN a
                     PROVE  a[(0 + 2 * (k - 1)) + i] = Codec!Digits(x[k], 2)[i]
          BY <3>1 DEF InRow, Written
        <5> DEFINE j == 2 * (k - 1) + i
        <5>1. j \in 1..(2 * v) /\ (0 + 2 * (k - 1)) + i = j /\ (q + 2 * (k - 1)) + i = q + j
          BY <2>2
        <5>2. q + j \in DOMAIN text
          BY <2>2, <4>1, <5>1 DEF L
        <5>3. text[q + j] = Codec!Digits(x[k], 2)[i]
          BY <2>8, <3>1, <5>1, <5>2 DEF InRow, Written
        <5> HIDE DEF j, a
        <5> QED
          BY <4>2, <5>1, <5>3
      <4>5. ASSUME NEW k \in 1..v PROVE val[k] = x[k]
        <5>1. none \in Nat /\ two \in 1..8 /\ none + two * Len(x) <= Len(a) /\ k \in 1..Len(x)
          BY <3>1, <4>2
        <5> HIDE DEF a, none, two
        <5>2. SubSeq(a, (none + two * (k - 1)) + 1, (none + two * (k - 1)) + two) = Codec!Digits(x[k], two)
          BY <4>2, <4>3, <4>4, <5>1, RowThere
        <5>3. (none + two * (k - 1)) + 1 = 2 * k - 1 /\ (none + two * (k - 1)) + two = 2 * k
          BY DEF none, two
        <5>4. SubSeq(a, 2 * k - 1, 2 * k) = Codec!Digits(x[k], 2)
          BY <5>2, <5>3 DEF two
        <5>5. x[k] \in 0..(Codec!Power[2] - 1) /\ Codec!Power[2] \in Nat \ {0} /\ x[k] \in Int
          <6>1. Codec!Power[2] \in Nat \ {0}
            BY BytePowers
          <6> DEFINE B == 0..(Codec!Power[2] - 1)
          <6>2. x \in Seq(B) /\ k \in 1..Len(x)
            BY <3>1
          <6> HIDE DEF B
          <6>3. x[k] \in B
            BY <6>2, ElementOfSeq
          <6> QED
            BY <6>1, <6>3 DEF B
        <5>6. Codec!Unsigned(Codec!Digits(x[k], 2)) = x[k] % Codec!Power[2]
          BY <4>1, <5>5, DigitSum
        <5>7. x[k] % Codec!Power[2] = x[k]
          <6> DEFINE y == x[k]
                     m == Codec!Power[2]
          <6>1. y \in Int /\ m \in Nat \ {0} /\ y \in 0..(m - 1)
            BY <5>5
          <6> HIDE DEF y, m
          <6>2. y % m = y
            BY <6>1, ModFacts
          <6> QED
            BY <6>2 DEF y, m
        <5> QED
          BY <5>4, <5>6, <5>7
      <4>6. val = x
        <5>1. val = [i \in 1..v |-> val[i]]
          OBVIOUS
        <5>2. x = [i \in 1..v |-> x[i]]
          BY <3>1
        <5> HIDE DEF val
        <5> QED
          BY <4>5, <5>1, <5>2
      <4> QED
        BY <4>6
    <3>3. ASSUME o + 4 + 2 * Len(x) <= L, Len(x) <= room PROVE ~g.dead
      <4>1. ~(v > room) /\ ~(q + 2 * v > L)
        BY <1>0, <2>2, <3>1, <3>3
      <4> HIDE DEF val, q
      <4> QED
        BY <2>5, <4>1, ReaderFacts
    <3>4. ~g.dead => g.r = o + 4 + 2 * Len(x)
      BY <2>6, <3>1
    <3> HIDE DEF val
    <3> QED
      BY <2>6, <3>2, <3>3, <3>4
  <2> QED
    BY <2>2, <2>7, <2>8 DEF SliceOf, g, L
<1> QED
  BY <1>3, <1>4

MapOf(g, o, room) ==
    /\ ~g.dead => o < Len(text) /\ g.r \in Nat
    /\ \A f, keys :
          /\ DOMAIN f \subseteq Codec!Bytes /\ f \in [DOMAIN f -> Codec!Bytes]
          /\ keys \in Codec!SetToSeqs(DOMAIN f)
          /\ Written(text, o, Len(keys), 4) /\ InRow(text, o + 4, Codec!Pairs(f, keys), 1)
          => /\ ~g.dead => g.r = o + 4 + 2 * Len(keys) /\ g.val = f
             /\ o + 4 + 2 * Len(keys) <= Len(text) /\ room # 0 => ~g.dead

(* A word has room for as many keys as there are bytes.                    *)
LEMMA KeysCounted == Byte < Codec!Power[4]
<1>1. 0 \in 0..8 /\ 1 \in 1..8 /\ 2 \in 1..8 /\ 3 \in 1..8 /\ 4 \in 1..8
      /\ 1 - 1 = 0 /\ 2 - 1 = 1 /\ 3 - 1 = 2 /\ 4 - 1 = 3
  OBVIOUS
<1>2. /\ Codec!Power[0] = 1 /\ Codec!Power[1] = Byte * Codec!Power[0]
      /\ Codec!Power[2] = Byte * Codec!Power[1]
      /\ Codec!Power[3] = Byte * Codec!Power[2] /\ Codec!Power[4] = Byte * Codec!Power[3]
  BY <1>1, BytePowers
<1>3. Codec!Power[1] = Byte /\ Byte \in Nat /\ Byte >= 2
  BY <1>2, CodecConstants
<1> DEFINE p2 == Codec!Power[2]
           p3 == Codec!Power[3]
<1>4. p2 \in Nat /\ p2 > Byte
  <2>1. Byte * Byte >= 2 * Byte /\ Byte * Byte \in Nat
    BY <1>3
  <2> QED
    BY <1>2, <1>3, <2>1
<1>5. p3 \in Nat /\ p3 >= p2
  <2> HIDE DEF p2
  <2>1. Byte * p2 >= p2 /\ Byte * p2 \in Nat
    BY <1>3, <1>4
  <2> QED
    BY <1>2, <2>1 DEF p2
<1>6. Codec!Power[4] >= p3
  <2> HIDE DEF p3
  <2>1. Byte * p3 >= p3
    BY <1>3, <1>5
  <2> QED
    BY <1>2, <2>1 DEF p3
<1>7. Codec!Power[4] \in Nat
  BY <1>1, BytePowers
<1> HIDE DEF p2, p3
<1> QED
  BY <1>3, <1>4, <1>5, <1>6, <1>7

LEMMA MapRead ==
    ASSUME text \in Seq(Codec!Bytes), NEW o \in Nat, NEW z, NEW room \in Nat
    PROVE  MapOf(Codec!TakeMap(Reader(o, z), room), o, room)
<1> DEFINE c == Codec!TakeNumber(Reader(o, z), "uint32", 4)
           t == Codec!Take(c, 2 * c.val)
           g == Codec!TakeMap(Reader(o, z), room)
           L == Len(text)
           Built(a, n) == [k \in {a[2 * i - 1] : i \in 1..n} |->
                              a[2 * Codec!Max({i \in 1..n : a[2 * i - 1] = k})]]
<1>0. L \in Nat
  OBVIOUS
<1>1. g = IF c.dead \/ (room = 0 /\ c.val > 0) THEN [c EXCEPT !.dead = TRUE]
          ELSE Codec!With(t, Built(t.val, c.val))
  BY DEF Codec!TakeMap
<1>2. IF o + 4 > L THEN c = Broken(o, z)
      ELSE \E v \in Nat : /\ c = Reader(o + 4, v)
                          /\ \A x \in 0..(Codec!Power[4] - 1) : Written(text, o, x, 4) => v = x
  BY CountRead
<1> HIDE DEF c, g, L, Built
<1>3. CASE o + 4 > L
  <2>1. g.dead
    BY <1>1, <1>2, <1>3, ReaderFacts
  <2>2. ASSUME NEW f, DOMAIN f \subseteq Codec!Bytes, NEW keys \in Codec!SetToSeqs(DOMAIN f)
        PROVE  ~(o + 4 + 2 * Len(keys) <= L)
    <3> DEFINE N == Len(keys)
    <3>1. N \in Nat
      BY <2>2, MapKeys
    <3> HIDE DEF N
    <3> QED
      BY <1>0, <1>3, <3>1 DEF N
  <2> QED
    BY <2>1, <2>2 DEF MapOf, g, L
<1>4. CASE ~(o + 4 > L)
  <2>1. PICK v \in Nat : /\ c = Reader(o + 4, v)
                         /\ \A x \in 0..(Codec!Power[4] - 1) : Written(text, o, x, 4) => v = x
    BY <1>2, <1>4
  <2> DEFINE q == o + 4
             a == SubSeq(text, q + 1, q + 2 * v)
             val == Built(a, v)
  <2>2. q \in Nat /\ q <= L /\ o < L
    BY <1>0, <1>4
  <2>3. ~c.dead /\ c.val = v /\ c.r = q
    BY <2>1, ReaderFacts
  <2>4. t = IF q + 2 * v > L THEN [c EXCEPT !.dead = TRUE] ELSE Reader(q + 2 * v, a)
    BY <2>3 DEF Codec!Take, Reader, L
  <2>5. IF (room = 0 /\ v > 0) \/ q + 2 * v > L THEN g.dead ELSE g = Reader(q + 2 * v, val)
    <3>1. CASE room = 0 /\ v > 0
      <4>1. g = [c EXCEPT !.dead = TRUE]
        BY <1>1, <2>3, <3>1
      <4>2. [c EXCEPT !.dead = TRUE].dead
        BY <2>1, ReaderFacts
      <4> QED
        BY <3>1, <4>1, <4>2
    <3>2. CASE ~(room = 0 /\ v > 0) /\ q + 2 * v > L
      <4>1. t.dead
        <5>1. t = [c EXCEPT !.dead = TRUE]
          BY <2>4, <3>2
        <5>2. [c EXCEPT !.dead = TRUE].dead
          BY <2>1, ReaderFacts
        <5> QED
          BY <5>1, <5>2
      <4>2. \A y : Codec!With(t, y).dead
        <5> HIDE DEF t
        <5> QED
          BY <4>1 DEF Codec!With
      <4> QED
        BY <1>1, <2>3, <3>2, <4>2
    <3>3. CASE ~(room = 0 /\ v > 0) /\ ~(q + 2 * v > L)
      <4>1. t = Reader(q + 2 * v, a) /\ t.val = a /\ ~t.dead /\ t.r = q + 2 * v
        <5> HIDE DEF t, a, q
        <5>1. t = Reader(q + 2 * v, a)
          BY <2>4, <3>3
        <5> QED
          BY <5>1, ReaderFacts
      <4>2. g = Codec!With(t, val)
        BY <1>1, <2>3, <3>3, <4>1
      <4> HIDE DEF t, val
      <4>3. g = Reader(q + 2 * v, val)
        BY <4>1, <4>2 DEF Codec!With, Reader
      <4> QED
        BY <3>3, <4>3
    <3> QED
      BY <3>1, <3>2, <3>3
  <2>6. ~g.dead => g.r = q + 2 * v /\ g.val = val /\ ~(q + 2 * v > L)
    <3> HIDE DEF val, q
    <3> QED
      BY <2>5, ReaderFacts
  <2>7. ~g.dead => g.r \in Nat
    BY <2>2, <2>6
  <2>8. ASSUME NEW f, NEW keys, DOMAIN f \subseteq Codec!Bytes, f \in [DOMAIN f -> Codec!Bytes],
               keys \in Codec!SetToSeqs(DOMAIN f),
               Written(text, o, Len(keys), 4), InRow(text, o + 4, Codec!Pairs(f, keys), 1)
        PROVE  /\ ~g.dead => g.r = o + 4 + 2 * Len(keys) /\ g.val = f
               /\ o + 4 + 2 * Len(keys) <= L /\ room # 0 => ~g.dead
    <3> DEFINE x == Codec!Pairs(f, keys)
    <3>1. /\ keys \in Seq(DOMAIN f) /\ Len(keys) \in Nat /\ Len(keys) <= Byte
          /\ \A i, j \in 1..Len(keys) : i # j => keys[i] # keys[j]
          /\ \A k \in DOMAIN f : \E i \in 1..Len(keys) : keys[i] = k
      BY <2>8, MapKeys
    <3>2. v = Len(keys)
      <4> DEFINE n == Len(keys)
      <4>1. n \in 0..(Codec!Power[4] - 1)
        <5>1. n \in Nat /\ n <= Byte /\ Byte \in Nat /\ Codec!Power[4] \in Nat
          <6>1. Codec!Power[4] \in Nat
            BY BytePowers
          <6> QED
            BY <3>1, <6>1, CodecConstants
        <5> HIDE DEF n
        <5> QED
          BY <5>1, KeysCounted
      <4> QED
        BY <2>1, <2>8, <4>1
    <3>3. /\ x \in Seq(Codec!Bytes) /\ Len(x) = 2 * v
          /\ \A i \in 1..v : x[2 * i - 1] = keys[i] /\ x[2 * i] = f[keys[i]]
      <4>1. /\ x \in Seq(Codec!Bytes) /\ Len(x) = 2 * Len(keys)
            /\ \A i \in 1..Len(keys) : x[2 * i - 1] = keys[i] /\ x[2 * i] = f[keys[i]]
        <5>1. keys \in Seq(DOMAIN f)
          BY <3>1
        <5>2. DOMAIN f \subseteq Codec!Bytes /\ f \in [DOMAIN f -> Codec!Bytes]
          BY <2>8
        <5> QED
          BY <5>1, <5>2, PairsFacts
      <4> HIDE DEF x
      <4> QED
        BY <3>2, <4>1
    <3> HIDE DEF x
    <3>4. ASSUME ~g.dead PROVE val = f
      <4> DEFINE m == 2 * v
      <4>1. m \in Nat /\ q + m <= L /\ m = 2 * v
        BY <1>0, <2>2, <2>6, <3>4
      <4> HIDE DEF m, q
      <4>2. a \in Seq(Codec!Bytes) /\ Len(a) = m /\ \A i \in 1..m : a[i] = text[q + i]
        <5>1. /\ SubSeq(text, q + 1, q + m) \in Seq(Codec!Bytes) /\ Len(SubSeq(text, q + 1, q + m)) = m
              /\ \A i \in 1..m : SubSeq(text, q + 1, q + m)[i] = text[q + i]
          <6>1. m \in Nat /\ q \in Nat /\ q + m <= Len(text)
            BY <2>2, <4>1 DEF L
          <6> QED
            BY <6>1
        <5> QED
          BY <4>1, <5>1
      <4>3. \A i \in 1..m : a[i] = x[i]
        <5> SUFFICES ASSUME NEW i \in 1..m PROVE a[i] = x[i]
          OBVIOUS
        <5>1. i \in 1..Len(x) /\ q + i \in DOMAIN text /\ (q + 1 * (i - 1)) + 1 = q + i
          BY <2>2, <3>3, <4>1 DEF L
        <5>2. Written(text, q + 1 * (i - 1), x[i], 1)
          BY <2>8, <5>1 DEF InRow, q, x
        <5>3. 1 \in 1..1
          OBVIOUS
        <5>4. text[q + i] = Codec!Digits(x[i], 1)[1]
          BY <5>1, <5>2, <5>3 DEF Written
        <5>5. x[i] \in Codec!Bytes
          BY <3>3, <5>1
        <5> QED
          BY <4>2, <5>4, <5>5, ByteThere
      <4> HIDE DEF a
      <4>4. \A i \in 1..v : a[2 * i - 1] = keys[i] /\ a[2 * i] = f[keys[i]]
        <5> SUFFICES ASSUME NEW i \in 1..v PROVE a[2 * i - 1] = keys[i] /\ a[2 * i] = f[keys[i]]
          OBVIOUS
        <5>1. 2 * i - 1 \in 1..m /\ 2 * i \in 1..m
          BY <4>1
        <5> QED
          BY <3>3, <4>3, <5>1
      <4>5. {a[2 * i - 1] : i \in 1..v} = DOMAIN f
        <5>1. \A i \in 1..v : keys[i] \in DOMAIN f
          BY <3>1, <3>2
        <5>2. \A i \in 1..v : a[2 * i - 1] \in DOMAIN f
          BY <4>4, <5>1
        <5>3. \A k \in DOMAIN f : \E i \in 1..v : a[2 * i - 1] = k
          <6> SUFFICES ASSUME NEW k \in DOMAIN f PROVE \E i \in 1..v : a[2 * i - 1] = k
            OBVIOUS
          <6>1. PICK i \in 1..v : keys[i] = k
            BY <3>1, <3>2
          <6> QED
            BY <4>4, <6>1
        <5> QED
          BY <5>2, <5>3
      <4>6. ASSUME NEW k \in DOMAIN f PROVE a[2 * Codec!Max({i \in 1..v : a[2 * i - 1] = k})] = f[k]
        <5>1. PICK j \in 1..v : keys[j] = k
          BY <3>1, <3>2
        <5>2. {i \in 1..v : a[2 * i - 1] = k} = {j}
          <6>1. a[2 * j - 1] = k
            BY <4>4, <5>1
          <6>2. ASSUME NEW i \in 1..v, a[2 * i - 1] = k PROVE i = j
            <7>1. keys[i] = keys[j]
              BY <4>4, <5>1, <6>2
            <7> QED
              BY <3>1, <3>2, <7>1
          <6> QED
            BY <6>1, <6>2
        <5>3. Codec!Max({j}) = j
          BY DEF Codec!Max
        <5> QED
          BY <4>4, <5>1, <5>2, <5>3
      <4>7. val = [k \in DOMAIN f |-> f[k]]
        BY <4>5, <4>6 DEF Built
      <4>8. f = [k \in DOMAIN f |-> f[k]]
        BY <2>8
      <4> QED
        BY <4>7, <4>8
    <3>5. ASSUME o + 4 + 2 * Len(keys) <= L, room # 0 PROVE ~g.dead
      <4>1. ~(room = 0 /\ v > 0) /\ ~(q + 2 * v > L)
        BY <1>0, <2>2, <3>2, <3>5
      <4> HIDE DEF val, q
      <4> QED
        BY <2>5, <4>1, ReaderFacts
    <3>6. ~g.dead => g.r = o + 4 + 2 * Len(keys)
      BY <2>6, <3>2
    <3> HIDE DEF val
    <3> QED
      BY <2>6, <3>4, <3>5, <3>6
  <2> QED
    BY <2>2, <2>7, <2>8 DEF MapOf, g, L
<1> QED
  BY <1>3, <1>4

(* Decoding a field at its place gives the field, or panics for a cause.   *)
LEMMA GetFacts ==
    ASSUME text \in Seq(Codec!Bytes), NEW o \in Nat, NEW z, NEW f, Codec!Field(f)
    PROVE  LET g == Codec!Get(Reader(o, z), f)
           IN  /\ ~g.dead => g.r \in Nat /\ (IF f.exported THEN o < Len(text) ELSE g.r = o)
               /\ \A e : Lies(f, text, o, e) /\ ~Codec!Outgrown(f) =>
                     /\ ~g.dead => /\ g.r = e
                                   /\ \/ ~f.exported \/ Codec!Narrowed(f) \/ g.val = f.val
                                      \/ f.kind \in {"string", "bytes"} /\ e > Len(text)
                     /\ g.dead => \/ e > Len(text)
                                  \/ f.kind = "slice" /\ f.room < Len(f.val)
                                  \/ f.kind = "map" /\ f.room = 0
<1> DEFINE g == Codec!Get(Reader(o, z), f)
           L == Len(text)
<1>0. L \in Nat
  OBVIOUS
<1>1. CASE ~f.exported
  <2>1. g = Reader(o, z)
    BY <1>1 DEF Codec!Get
  <2>2. ~g.dead /\ g.r = o
    BY <2>1, ReaderFacts
  <2>3. \A e : Lies(f, text, o, e) => e = o
    BY <1>1 DEF Lies
  <2> QED
    BY <1>1, <2>2, <2>3
<1>2. CASE f.exported /\ f.kind \in DOMAIN Codec!Size
  <2> DEFINE n == Codec!Size[f.kind]
             v == f.val
  <2>1. g = Codec!TakeNumber(Reader(o, z), f.kind, n)
    BY <1>2 DEF Codec!Get, Codec!Fixed
  <2>2. v \in Int /\ n \in 1..8 /\ f.kind \notin {"string", "bytes", "slice", "map"}
        /\ (Codec!Fits(f.kind, v, n) \/ Codec!Narrowed(f))
    BY <1>2, FieldFacts, SizeFacts
  <2>3. n \in Nat /\ n \in 0..8 /\ n >= 1
    BY <2>2
  <2> HIDE DEF n, v
  <2>4. IF o + n > L THEN g = Broken(o, z)
        ELSE g = Reader(o + n, Codec!Number(f.kind, SubSeq(text, o + 1, o + n)))
    BY <1>0, <2>1, <2>3, TakeFacts
  <2>5. ~g.dead => g.r = o + n /\ ~(o + n > L) /\ g.val = Codec!Number(f.kind, SubSeq(text, o + 1, o + n))
    BY <2>4, ReaderFacts
  <2>6. g.dead => o + n > L
    BY <2>4, ReaderFacts
  <2>7. ~g.dead => g.r \in Nat /\ o < L
    <3> HIDE DEF L
    <3> QED
      BY <1>0, <2>3, <2>5
  <2>8. ASSUME NEW e, Lies(f, text, o, e)
        PROVE  /\ ~g.dead => g.r = e /\ (Codec!Narrowed(f) \/ g.val = v)
               /\ g.dead => e > L
    <3>1. e = o + n /\ Written(text, o, v, n)
      BY <1>2, <2>2, <2>8 DEF Lies, n, v
    <3>2. ASSUME ~g.dead, ~Codec!Narrowed(f) PROVE g.val = v
      <4>1. o + n <= Len(text)
        <5>1. ~(o + n > L)
          BY <2>5, <3>2
        <5> QED
          BY <1>0, <2>3, <5>1
      <4>2. SubSeq(text, o + 1, o + n) = Codec!Digits(v, n)
        BY <2>2, <2>3, <3>1, <4>1, DigitsThere
      <4>3. Codec!Number(f.kind, Codec!Digits(v, n)) = v
        BY <1>2, <2>2, <3>2, NumberBack
      <4> QED
        BY <2>5, <3>2, <4>2, <4>3
    <3> QED
      BY <2>5, <2>6, <3>1, <3>2
  <2> QED
    BY <1>2, <2>7, <2>8 DEF v
<1>3. CASE f.exported /\ f.kind \in {"string", "bytes"}
  <2>1. TextRead(g, o)
    <3>1. CASE f.kind = "string"
      <4>1. g = Codec!TakeString(Reader(o, z))
        BY <1>3, <3>1, SizeFacts DEF Codec!Get, Codec!Fixed
      <4> QED
        BY <4>1, StringRead
    <3>2. CASE f.kind = "bytes"
      <4>1. g = Codec!TakeBytes(Reader(o, z))
        BY <1>3, <3>2, SizeFacts DEF Codec!Get, Codec!Fixed
      <4> QED
        BY <4>1, BytesRead
    <3> QED
      BY <1>3, <3>1, <3>2
  <2> HIDE DEF g, L
  <2>2. ~g.dead => o < L /\ g.r \in Nat
    BY <2>1 DEF TextRead, L
  <2>3. ASSUME NEW e, Lies(f, text, o, e), ~Codec!Outgrown(f)
        PROVE  /\ ~g.dead => g.r = e /\ (g.val = f.val \/ e > L)
               /\ g.dead => e > L
    <3> DEFINE x == f.val
               N == Len(x)
    <3>1. x \in Seq(Codec!Bytes) /\ N \in Nat /\ f.kind \notin DOMAIN Codec!Size
      BY <1>3, FieldFacts, SizeFacts
    <3>2. e = o + 2 + N /\ Written(text, o, N, 2) /\ Spelt(text, o + 2, x)
      BY <1>3, <2>3, <3>1 DEF Lies, Codec!Fixed
    <3>3. N \in 0..(Codec!Power[2] - 1)
      <4>1. ~(N >= Codec!Power[2]) /\ N \in Nat
        BY <1>3, <2>3, <3>1 DEF Codec!Outgrown
      <4>2. Codec!Power[2] \in Nat
        BY BytePowers
      <4> HIDE DEF N
      <4> QED
        BY <4>1, <4>2
    <3>4. /\ ~g.dead => g.r = o + 2 + Len(x)
          /\ o + 2 + Len(x) <= Len(text) => ~g.dead /\ g.val = x
      BY <2>1, <3>1, <3>2, <3>3 DEF TextRead
    <3>5. e \in Nat
      <4> HIDE DEF N
      <4> QED
        BY <3>1, <3>2
    <3>6. e <= L => ~g.dead /\ g.val = x
      BY <3>2, <3>4 DEF L
    <3>7. e <= L \/ e > L
      BY <1>0, <3>5
    <3> QED
      BY <3>2, <3>4, <3>6, <3>7
  <2> QED
    BY <1>3, <2>2, <2>3 DEF g, L
<1>4. CASE f.exported /\ f.kind = "slice"
  <2>1. SliceOf(g, o, f.room)
    <3>1. g = Codec!TakeSlice(Reader(o, z), f.room)
      BY <1>4, SizeFacts DEF Codec!Get, Codec!Fixed
    <3>2. f.room \in Nat
      BY FieldFacts
    <3> QED
      BY <3>1, <3>2, SliceRead
  <2> HIDE DEF g, L
  <2>2. ~g.dead => o < L /\ g.r \in Nat
    BY <2>1 DEF SliceOf, L
  <2>3. ASSUME NEW e, Lies(f, text, o, e), ~Codec!Outgrown(f)
        PROVE  /\ ~g.dead => g.r = e /\ g.val = f.val
               /\ g.dead => e > L \/ f.room < Len(f.val)
    <3> DEFINE x == f.val
               N == Len(x)
    <3>1. x \in Seq(0..(Codec!Power[2] - 1)) /\ N \in Nat /\ f.kind \notin DOMAIN Codec!Size
      BY <1>4, FieldFacts, SizeFacts
    <3>2. e = o + 4 + 2 * N /\ Written(text, o, N, 4) /\ InRow(text, o + 4, x, 2)
      BY <1>4, <2>3, <3>1 DEF Lies, Codec!Fixed
    <3>3. N \in 0..(Codec!Power[4] - 1)
      <4>1. ~(N >= Codec!Power[4]) /\ N \in Nat
        BY <1>4, <2>3, <3>1 DEF Codec!Outgrown
      <4>2. Codec!Power[4] \in Nat
        BY BytePowers
      <4> HIDE DEF N
      <4> QED
        BY <4>1, <4>2
    <3>4. /\ ~g.dead => g.r = o + 4 + 2 * Len(x) /\ g.val = x
          /\ o + 4 + 2 * Len(x) <= Len(text) /\ Len(x) <= f.room => ~g.dead
      BY <2>1, <3>1, <3>2, <3>3 DEF SliceOf
    <3>5. e \in Nat
      <4> HIDE DEF N
      <4> QED
        BY <3>1, <3>2
    <3>6. e <= L /\ N <= f.room => ~g.dead
      BY <3>2, <3>4 DEF L
    <3>7. (e <= L \/ e > L) /\ (N <= f.room \/ f.room < N)
      <4>1. f.room \in Nat
        BY FieldFacts
      <4> HIDE DEF N
      <4> QED
        BY <1>0, <3>1, <3>5, <4>1
    <3> QED
      BY <3>2, <3>4, <3>6, <3>7
  <2> QED
    BY <1>4, <2>2, <2>3 DEF g, L
<1>5. CASE f.exported /\ f.kind = "map"
  <2>1. MapOf(g, o, f.room)
    <3>1. g = Codec!TakeMap(Reader(o, z), f.room)
      BY <1>5, SizeFacts DEF Codec!Get, Codec!Fixed
    <3>2. f.room \in Nat
      BY FieldFacts
    <3> QED
      BY <3>1, <3>2, MapRead
  <2> HIDE DEF g, L
  <2>2. ~g.dead => o < L /\ g.r \in Nat
    BY <2>1 DEF MapOf, L
  <2>3. ASSUME NEW e, Lies(f, text, o, e)
        PROVE  /\ ~g.dead => g.r = e /\ g.val = f.val
               /\ g.dead => e > L \/ f.room = 0
    <3>1. DOMAIN f.val \subseteq Codec!Bytes /\ f.val \in [DOMAIN f.val -> Codec!Bytes]
          /\ f.kind \notin DOMAIN Codec!Size
      BY <1>5, FieldFacts, SizeFacts
    <3>2. PICK keys \in Codec!SetToSeqs(DOMAIN f.val) :
             /\ e = o + 4 + 2 * Len(keys)
             /\ Written(text, o, Len(keys), 4) /\ InRow(text, o + 4, Codec!Pairs(f.val, keys), 1)
      BY <1>5, <2>3, <3>1 DEF Lies, Codec!Fixed
    <3>3. /\ ~g.dead => g.r = o + 4 + 2 * Len(keys) /\ g.val = f.val
          /\ o + 4 + 2 * Len(keys) <= Len(text) /\ f.room # 0 => ~g.dead
      BY <2>1, <3>1, <3>2 DEF MapOf
    <3>4. e \in Nat
      BY <2>3, LiesFacts
    <3>5. e <= L /\ f.room # 0 => ~g.dead
      BY <3>2, <3>3 DEF L
    <3>6. e <= L \/ e > L
      BY <1>0, <3>4
    <3> QED
      BY <3>2, <3>3, <3>5, <3>6
  <2> QED
    BY <1>5, <2>2, <2>3 DEF g, L
<1>6. CASE f.exported /\ f.kind = "other"
  <2>1. g = [Reader(o, z) EXCEPT !.dead = TRUE]
    BY <1>6, SizeFacts DEF Codec!Get, Codec!Fixed
  <2>2. g.dead
    BY <2>1, ReaderFacts
  <2>3. \A e : ~Lies(f, text, o, e)
    BY <1>6, SizeFacts DEF Lies, Codec!Fixed
  <2> QED
    BY <2>2, <2>3
<1> QED
  BY <1>1, <1>2, <1>3, <1>4, <1>5, <1>6, FieldFacts

-----------------------------------------------------------------------------
(* The fields lie one after the other, off telling where each ends; what a *)
(* reader has read is what lies there, until something a count cannot tell *)
(* comes; and only the fields named in PanicHasCause stop anybody.         *)

InPlace(fs, b, off, k) ==
    /\ off \in [0..k -> Nat] /\ off[0] = 4
    /\ \A j \in 1..k : off[j] <= off[k] /\ Lies(fs[j], b, off[j - 1], off[j])

Cause(f) ==
    \/ f.kind \in {"string", "bytes"} /\ Len(f.val) > Cap
    \/ f.kind = "other" /\ f.exported
    \/ Codec!Outgrown(f)
    \/ f.kind = "slice" /\ f.room < Len(f.val)
    \/ f.kind = "map" /\ f.room = 0

HasCause(fs) == \E j \in 1..Len(fs) : Cause(fs[j])

Lost(fs, k) == \E j \in 1..k : Codec!Outgrown(fs[j])

ReadBack(fs, c, t, o, k, g, i) ==
    \/ g[i] = fs[i].val
    \/ ~fs[i].exported
    \/ Codec!Narrowed(fs[i])
    \/ Lost(fs, i)
    \/ /\ c /\ fs[i].kind \in {"string", "bytes"} /\ o > Len(t)
       /\ \A j \in (i + 1)..k : ~fs[j].exported

IsSequence(s) == \E S : s \in Seq(S)

Encoding ==
    /\ r = 4 /\ got = <<>> /\ ~cut /\ text = <<>>
    /\ msg.form = "packet" => at = 0
    /\ msg.form = "codec" =>
          IF w <= Len(buf) THEN \E off : InPlace(msg.fields, buf, off, at) /\ off[at] = w
          ELSE HasCause(msg.fields)

Sent(off) ==
    /\ InPlace(msg.fields, text, off, Len(msg.fields))
    /\ ~cut => off[Len(msg.fields)] = Len(text)
    /\ Lost(msg.fields, at) \/ r = off[at]

Reading ==
    /\ codecPc = "sent" => at = 0 /\ r = 4
    /\ codecPc = "decoded" => at = Len(msg.fields)
    /\ Len(got) = at
    /\ \E off : Sent(off)
    /\ \A i \in 1..at : ReadBack(msg.fields, cut, text, r, at, got, i)

Opening ==
    /\ codecPc \in {"sent", "decode"} =>
          /\ at = 0 /\ got = <<>>
          /\ IF cut THEN Len(text) < 8 ELSE text = Codec!Reverse(Codec!Digits(msg.fields[1].val, 8))
    /\ codecPc = "decoded" => at = 1 /\ got = <<msg.fields[1].val>>

CodecInv ==
    /\ Codec!TypeOK /\ IsSequence(got) /\ Len(buf) >= Cap
    /\ codecPc = "panic" /\ ~cut => HasCause(msg.fields)
    /\ codecPc = "encode" => Encoding
    /\ codecPc \in {"sent", "decode", "decoded"} =>
          IF msg.form = "codec" THEN Reading ELSE Opening

LEMMA MessageFacts ==
    ASSUME Codec!Message(msg)
    PROVE  /\ Len(msg.fields) \in Nat /\ DOMAIN msg.fields = 1..Len(msg.fields)
           /\ \A i \in 1..Len(msg.fields) : Codec!Field(msg.fields[i])
           /\ msg.form \in {"codec", "packet"}
           /\ msg.form = "packet" => /\ Len(msg.fields) = 1 /\ msg.fields[1].val \in Nat
                                     /\ msg.fields[1].val % Codec!Power[8] = msg.fields[1].val
<1>1. /\ Len(msg.fields) \in Nat /\ DOMAIN msg.fields = 1..Len(msg.fields)
      /\ msg.form \in {"codec", "packet"}
  <2> DEFINE S == {msg.fields[i] : i \in DOMAIN msg.fields}
  <2>1. msg.fields \in Seq(S) /\ msg.form \in {"codec", "packet"}
    BY DEF Codec!Message
  <2> HIDE DEF S
  <2> QED
    BY <2>1
<1>2. \A i \in 1..Len(msg.fields) : Codec!Field(msg.fields[i])
  BY <1>1 DEF Codec!Message
<1>3. ASSUME msg.form = "packet"
      PROVE  Len(msg.fields) = 1 /\ msg.fields[1].val \in 0..(Codec!Power[8] - 1)
  <2> DEFINE f == msg.fields[1]
  <2>1. Len(msg.fields) = 1 /\ f.kind = "uint64"
    BY <1>3 DEF Codec!Message
  <2>2. Codec!Field(f)
    BY <1>2, <2>1
  <2> HIDE DEF f
  <2>3. "uint64" \in DOMAIN Codec!Size /\ Codec!Size["uint64"] = 8 /\ "uint64" \notin Codec!Signed
    BY DEF Codec!Size, Codec!Signed
  <2>4. Codec!Fits("uint64", f.val, 8)
    BY <2>1, <2>2, <2>3 DEF Codec!Field
  <2>5. f.val \in 0..(Codec!Power[8] - 1)
    BY <2>3, <2>4 DEF Codec!Fits
  <2> QED
    BY <2>1, <2>5 DEF f
<1>4. Codec!Power[8] \in Nat \ {0}
  BY BytePowers
<1>5. ASSUME NEW x \in 0..(Codec!Power[8] - 1) PROVE x \in Nat /\ x % Codec!Power[8] = x
  <2> DEFINE p == Codec!Power[8]
  <2>1. p \in Nat \ {0} /\ x \in 0..(p - 1)
    BY <1>4
  <2> HIDE DEF p
  <2>2. x \in Int /\ x \in Nat
    BY <2>1
  <2>3. x % p = x
    BY <2>1, <2>2, ModFacts
  <2> QED
    BY <2>2, <2>3 DEF p
<1> QED
  BY <1>1, <1>2, <1>3, <1>5

(* Off the end of what is written there is nothing to disturb.             *)
LEMMA InPlaceStays ==
    ASSUME NEW fs, NEW b, NEW c, NEW off, NEW k \in Nat, NEW m \in Nat,
           \A i \in 1..k : Codec!Field(fs[i]),
           InPlace(fs, b, off, k), off[k] <= m, Same(b, c, m)
    PROVE  InPlace(fs, c, off, k)
<1>1. off \in [0..k -> Nat] /\ off[0] = 4 /\ off[k] \in Nat
  BY DEF InPlace
<1>2. ASSUME NEW j \in 1..k PROVE off[j] <= off[k] /\ Lies(fs[j], c, off[j - 1], off[j])
  <2>1. off[j] <= off[k] /\ Lies(fs[j], b, off[j - 1], off[j])
    BY <1>2 DEF InPlace
  <2>2. off[j - 1] \in Nat /\ off[j] \in Nat /\ off[j] <= m
    BY <1>1, <2>1
  <2>3. Codec!Field(fs[j])
    BY <1>2
  <2> QED
    BY <2>1, <2>2, <2>3, LiesStays
<1> QED
  BY <1>1, <1>2 DEF InPlace

LEMMA InPlaceGrows ==
    ASSUME NEW fs, NEW b, NEW off, NEW k \in Nat, NEW e,
           \A i \in 1..(k + 1) : Codec!Field(fs[i]),
           InPlace(fs, b, off, k), Lies(fs[k + 1], b, off[k], e)
    PROVE  \E more : InPlace(fs, b, more, k + 1) /\ more[k + 1] = e
<1>1. off \in [0..k -> Nat] /\ off[0] = 4 /\ off[k] \in Nat
      /\ \A j \in 1..k : off[j] <= off[k] /\ Lies(fs[j], b, off[j - 1], off[j])
  BY DEF InPlace
<1>2. e \in Nat /\ off[k] <= e
  <2>1. Codec!Field(fs[k + 1])
    OBVIOUS
  <2> QED
    BY <1>1, <2>1, LiesFacts
<1> DEFINE more == [j \in 0..(k + 1) |-> IF j = k + 1 THEN e ELSE off[j]]
<1>3. more \in [0..(k + 1) -> Nat] /\ more[k + 1] = e /\ \A j \in 0..k : more[j] = off[j]
  BY <1>1, <1>2
<1> HIDE DEF more
<1>4. more[0] = 4 /\ more[k] = off[k]
  BY <1>1, <1>3
<1>5. ASSUME NEW j \in 1..(k + 1) PROVE more[j] <= e /\ Lies(fs[j], b, more[j - 1], more[j])
  <2>1. CASE j = k + 1
    BY <1>2, <1>3, <1>4, <2>1
  <2>2. CASE j \in 1..k
    <3>1. j - 1 \in 0..k /\ j \in 0..k
      BY <2>2
    <3>2. more[j] = off[j] /\ more[j - 1] = off[j - 1] /\ off[j] \in Nat
      BY <1>1, <1>3, <3>1
    <3> QED
      BY <1>1, <1>2, <2>2, <3>2
  <2> QED
    BY <2>1, <2>2
<1>6. InPlace(fs, b, more, k + 1)
  BY <1>3, <1>4, <1>5 DEF InPlace
<1> QED
  BY <1>3, <1>6

LEMMA LostGrows ==
    \A fs : \A j, k \in Nat : j <= k /\ Lost(fs, j) => Lost(fs, k)
  BY DEF Lost

LEMMA CausePointed ==
    (Codec!Message(msg) /\ HasCause(msg.fields)) => \E f \in Codec!Fields : Cause(f)
<1> SUFFICES ASSUME Codec!Message(msg), NEW j \in 1..Len(msg.fields), Cause(msg.fields[j])
             PROVE  \E f \in Codec!Fields : Cause(f)
  BY DEF HasCause
<1>1. msg.fields[j] \in Codec!Fields
  BY MessageFacts DEF Codec!Fields
<1> QED
  BY <1>1

LEMMA NothingYet == IsSequence(<<>>) /\ \A S : <<>> \in Seq(S)
  BY DEF IsSequence

LEMMA CodecStart == Codec!Init => CodecInv
<1> SUFFICES ASSUME Codec!Init PROVE CodecInv
  OBVIOUS
<1>1. Codec!Message(msg)
  BY CodecConstants DEF Codec!Init
<1>2. buf \in Seq(Codec!Bytes) /\ Len(buf) = Cap
  <2>1. \A i \in 1..Cap : 0 \in Codec!Bytes
    BY CodecConstants DEF Codec!Bytes
  <2> QED
    BY <2>1, CodecConstants DEF Codec!Init, Codec!Zeros
<1>3. /\ codecPc = "encode" /\ w = 4 /\ text = <<>> /\ whole = FALSE /\ cut = FALSE
      /\ r = 4 /\ at = 0 /\ got = <<>>
  BY DEF Codec!Init
<1>4. Codec!TypeOK
  <2>1. text \in Seq(Codec!Bytes) /\ Len(got) = 0 /\ at \in 0..Len(msg.fields) /\ w \in Nat /\ r \in Nat
    BY <1>1, <1>3, MessageFacts, NothingYet
  <2>2. whole \in BOOLEAN /\ cut \in BOOLEAN
    BY <1>3
  <2> QED
    BY <1>1, <1>2, <1>3, <2>1, <2>2 DEF Codec!TypeOK
<1>5. w <= Len(buf) /\ Len(buf) >= Cap
  BY <1>2, <1>3, CodecConstants
<1>6. \E off : InPlace(msg.fields, buf, off, at) /\ off[at] = w
  <2> DEFINE off == [j \in 0..0 |-> 4]
  <2>1. off \in [0..0 -> Nat] /\ off[0] = 4
    OBVIOUS
  <2> HIDE DEF off
  <2>2. InPlace(msg.fields, buf, off, 0)
    BY <2>1 DEF InPlace
  <2> QED
    BY <1>3, <2>1, <2>2
<1>7. Encoding
  BY <1>3, <1>5, <1>6 DEF Encoding
<1> QED
  BY <1>3, <1>4, <1>5, <1>7, NothingYet DEF CodecInv

(* What every state knows, without its primes.                             *)
LEMMA CodecTypes ==
    ASSUME CodecInv
    PROVE  /\ Codec!Message(msg) /\ buf \in Seq(Codec!Bytes) /\ w \in Nat
           /\ text \in Seq(Codec!Bytes) /\ Len(text) \in Nat /\ Len(buf) \in Nat
           /\ whole \in BOOLEAN /\ cut \in BOOLEAN
           /\ r \in Nat /\ at \in Nat /\ at <= Len(msg.fields) /\ at \in 0..Len(msg.fields)
           /\ Len(got) \in {0, at} /\ IsSequence(got) /\ Len(buf) >= Cap
<1>1. Codec!TypeOK /\ IsSequence(got) /\ Len(buf) >= Cap
  BY DEF CodecInv
<1>2. at \in 0..Len(msg.fields) /\ Len(msg.fields) \in Nat
  BY <1>1, MessageFacts DEF Codec!TypeOK
<1> QED
  BY <1>1, <1>2 DEF Codec!TypeOK

LEMMA EncodeKeeps == CodecInv /\ Codec!Encode => CodecInv'
<1> SUFFICES ASSUME CodecInv, Codec!Encode PROVE CodecInv'
  OBVIOUS
<1> DEFINE e == [buf |-> buf, w |-> w, dead |-> FALSE]
           f == msg.fields[at + 1]
<1>1. PICK p \in Codec!Put(e, f) :
        buf' = p.buf /\ w' = p.w /\ codecPc' = IF p.dead THEN "panic" ELSE "encode"
  BY DEF Codec!Encode
<1>2. /\ codecPc = "encode" /\ msg.form = "codec" /\ at < Len(msg.fields) /\ at' = at + 1
      /\ msg' = msg /\ text' = text /\ whole' = whole /\ cut' = cut /\ r' = r /\ got' = got
  BY DEF Codec!Encode, Codec!link, Codec!decoder
<1>3. /\ r = 4 /\ got = <<>> /\ ~cut /\ text = <<>>
      /\ IF w <= Len(buf) THEN \E off : InPlace(msg.fields, buf, off, at) /\ off[at] = w
         ELSE HasCause(msg.fields)
  BY <1>2 DEF CodecInv, Encoding
<1>4. /\ Len(msg.fields) \in Nat /\ at + 1 \in 1..Len(msg.fields) /\ Codec!Field(f)
      /\ \A i \in 1..Len(msg.fields) : Codec!Field(msg.fields[i])
  BY <1>2, CodecTypes, MessageFacts
<1>5. e \in Encoder /\ e.buf = buf /\ e.w = w /\ ~e.dead
  BY CodecTypes DEF Encoder
<1>6. /\ p.buf \in Seq(Codec!Bytes) /\ p.w \in Nat /\ Len(p.buf) >= Cap
      /\ p.dead => HasCause(msg.fields)
      /\ ~p.dead => IF p.w <= Len(p.buf)
                    THEN \E off : InPlace(msg.fields, p.buf, off, at + 1) /\ off[at + 1] = p.w
                    ELSE HasCause(msg.fields)
  <2> HIDE DEF e, f
  <2>0. Cause(f) => HasCause(msg.fields)
    BY <1>4 DEF HasCause, f
  <2>1. CASE w > Len(buf)
    <3>1. p.buf = buf /\ p.w = w /\ p.dead = f.exported
      BY <1>4, <1>5, <2>1, PutNowhere
    <3>2. HasCause(msg.fields)
      BY <1>3, <2>1, CodecTypes
    <3> QED
      BY <2>1, <3>1, <3>2, CodecTypes
  <2>2. CASE w <= Len(buf)
    <3>1. Ready(e)
      BY <1>5, <2>2, CodecTypes DEF Ready
    <3>2. IF p.dead THEN f.kind = "other" /\ f.exported /\ p.buf = buf /\ p.w = w
          ELSE /\ p \in Encoder /\ Len(p.buf) >= Cap
               /\ Same(buf, p.buf, w) /\ Lies(f, p.buf, w, p.w)
               /\ p.w <= Len(p.buf) \/ (f.kind \in {"string", "bytes"} /\ Len(f.val) > Cap)
      BY <1>4, <1>5, <3>1, PutFacts
    <3>3. CASE p.dead
      <4>1. f.kind = "other" /\ f.exported /\ p.buf = buf /\ p.w = w
        BY <3>2, <3>3
      <4>2. Cause(f)
        BY <4>1 DEF Cause
      <4> QED
        BY <2>0, <3>3, <4>1, <4>2, CodecTypes
    <3>4. CASE ~p.dead
      <4>1. /\ p \in Encoder /\ Len(p.buf) >= Cap
            /\ Same(buf, p.buf, w) /\ Lies(f, p.buf, w, p.w)
            /\ p.w <= Len(p.buf) \/ (f.kind \in {"string", "bytes"} /\ Len(f.val) > Cap)
        BY <3>2, <3>4
      <4>2. p.buf \in Seq(Codec!Bytes) /\ p.w \in Nat
        BY <4>1 DEF Encoder
      <4>3. CASE p.w <= Len(p.buf)
        <5>1. PICK off : InPlace(msg.fields, buf, off, at) /\ off[at] = w
          BY <1>3, <2>2
        <5>2. InPlace(msg.fields, p.buf, off, at)
          <6>1. at \in Nat /\ w \in Nat /\ off[at] <= w /\ \A i \in 1..at : Codec!Field(msg.fields[i])
            BY <1>4, <5>1, CodecTypes
          <6> QED
            BY <4>1, <5>1, <6>1, InPlaceStays
        <5>3. \E off2 : InPlace(msg.fields, p.buf, off2, at + 1) /\ off2[at + 1] = p.w
          <6>1. at \in Nat /\ (\A i \in 1..(at + 1) : Codec!Field(msg.fields[i]))
                /\ Lies(msg.fields[at + 1], p.buf, off[at], p.w)
            BY <1>4, <4>1, <5>1, CodecTypes DEF f
          <6> QED
            BY <5>2, <6>1, InPlaceGrows
        <5> QED
          BY <3>4, <4>1, <4>2, <4>3, <5>3
      <4>4. CASE ~(p.w <= Len(p.buf))
        <5>1. Cause(f)
          BY <4>1, <4>4 DEF Cause
        <5> QED
          BY <2>0, <3>4, <4>1, <4>2, <4>4, <5>1
      <4> QED
        BY <4>3, <4>4
    <3> QED
      BY <3>3, <3>4
  <2> QED
    BY <2>1, <2>2, CodecTypes
<1> HIDE DEF e, f
<1>7. Codec!TypeOK' /\ IsSequence(got)' /\ (Len(buf) >= Cap)'
  <2>1. at' \in 0..Len(msg.fields) /\ Len(got) = 0
    BY <1>2, <1>3, <1>4
  <2>2. codecPc' \in {"encode", "panic"}
    BY <1>1
  <2> QED
    BY <1>1, <1>2, <1>6, <2>1, <2>2, CodecTypes DEF Codec!TypeOK, IsSequence
<1>8. CASE p.dead
  <2>1. codecPc' = "panic" /\ HasCause(msg.fields)'
    BY <1>1, <1>2, <1>6, <1>8
  <2> QED
    BY <1>7, <2>1 DEF CodecInv
<1>9. CASE ~p.dead
  <2>1. codecPc' = "encode"
    BY <1>1, <1>9
  <2>2. Encoding'
    BY <1>1, <1>2, <1>3, <1>6, <1>9 DEF Encoding
  <2> QED
    BY <1>7, <2>1, <2>2 DEF CodecInv
<1> QED
  BY <1>8, <1>9

LEMMA ReverseTwice ==
    ASSUME NEW S, NEW s \in Seq(S)
    PROVE  /\ Codec!Reverse(s) \in Seq(S) /\ Len(Codec!Reverse(s)) = Len(s)
           /\ Codec!Reverse(Codec!Reverse(s)) = s
<1> DEFINE N == Len(s)
           t == Codec!Reverse(s)
           u == Codec!Reverse(t)
<1>1. N \in Nat /\ \A i \in 1..N : s[i] \in S
  OBVIOUS
<1>2. t = [i \in 1..N |-> s[N - i + 1]]
  BY DEF Codec!Reverse
<1> HIDE DEF t, N
<1>3. t \in Seq(S) /\ Len(t) = N /\ \A i \in 1..N : t[i] = s[N - i + 1]
  <2>1. \A i \in 1..N : N - i + 1 \in 1..N
    BY <1>1
  <2>2. \A i \in 1..N : t[i] \in S
    BY <1>1, <1>2, <2>1
  <2> QED
    BY <1>1, <1>2, <2>2
<1>4. u = [i \in 1..N |-> t[N - i + 1]]
  BY <1>3 DEF Codec!Reverse
<1>5. u \in Seq(S) /\ Len(u) = N
  <2>1. \A i \in 1..N : N - i + 1 \in 1..N
    BY <1>1
  <2>2. \A i \in 1..N : u[i] \in S
    BY <1>3, <1>4, <2>1, ElementOfSeq
  <2> HIDE DEF u
  <2> QED
    BY <1>1, <1>4, <2>2
<1>6. ASSUME NEW i \in 1..N PROVE u[i] = s[i]
  <2>1. N - i + 1 \in 1..N /\ N - (N - i + 1) + 1 = i
    BY <1>1
  <2> HIDE DEF u
  <2> QED
    BY <1>3, <1>4, <2>1
<1> HIDE DEF u
<1>7. u = s
  BY <1>5, <1>6 DEF N
<1> QED
  BY <1>3, <1>7 DEF t, u, N

LEMMA SealKeeps == CodecInv /\ Codec!Seal => CodecInv'
<1> SUFFICES ASSUME CodecInv, Codec!Seal PROVE CodecInv'
  OBVIOUS
<1> DEFINE N == Len(msg.fields)
<1>1. /\ codecPc = "encode" /\ msg.form = "codec" /\ at = N /\ at' = 0
      /\ msg' = msg /\ buf' = buf /\ w' = w /\ cut' = cut /\ r' = r /\ got' = got
  BY DEF Codec!Seal, Codec!encoder, Codec!decoder
<1>2. /\ r = 4 /\ got = <<>> /\ ~cut /\ text = <<>>
      /\ IF w <= Len(buf) THEN \E off : InPlace(msg.fields, buf, off, at) /\ off[at] = w
         ELSE HasCause(msg.fields)
  BY <1>1 DEF CodecInv, Encoding
<1>3. N \in Nat /\ \A i \in 1..N : Codec!Field(msg.fields[i])
  BY CodecTypes, MessageFacts
<1>4. Len(got) = 0 /\ 0 \in 0..Len(msg.fields)
  BY <1>2, <1>3
<1>5. CASE w > Len(buf)
  <2>1. codecPc' = "panic" /\ text' = text /\ whole' = whole
    BY <1>5 DEF Codec!Seal
  <2>2. HasCause(msg.fields)
    BY <1>2, <1>5, CodecTypes
  <2>3. Codec!TypeOK' /\ IsSequence(got)' /\ (Len(buf) >= Cap)'
    BY <1>1, <1>4, <2>1, CodecTypes DEF Codec!TypeOK, IsSequence
  <2>4. HasCause(msg.fields)'
    BY <1>1, <2>2
  <2> QED
    BY <2>1, <2>3, <2>4 DEF CodecInv
<1>6. CASE ~(w > Len(buf))
  <2>1. codecPc' = "sent" /\ text' = SubSeq(buf, 1, w) /\ whole' = TRUE
    BY <1>6 DEF Codec!Seal
  <2>2. w <= Len(buf) /\ w \in Nat /\ buf \in Seq(Codec!Bytes)
    BY <1>6, CodecTypes
  <2>3. text' \in Seq(Codec!Bytes) /\ Len(text') = w /\ \A i \in 1..w : text'[i] = buf[i]
    BY <2>1, <2>2
  <2>4. Same(buf, text', w)
    BY <2>2, <2>3 DEF Same
  <2>5. PICK off : InPlace(msg.fields, buf, off, at) /\ off[at] = w
    BY <1>2, <2>2
  <2>6. InPlace(msg.fields, text', off, N)
    <3>1. off[N] <= w /\ InPlace(msg.fields, buf, off, N)
      BY <1>1, <2>2, <2>5
    <3> HIDE DEF N
    <3> QED
      BY <1>3, <2>2, <2>4, <3>1, InPlaceStays
  <2>7. off[N] = w /\ off[0] = 4
    BY <1>1, <2>5 DEF InPlace
  <2>8. Sent(off)'
    BY <1>1, <1>2, <2>3, <2>6, <2>7 DEF Sent
  <2>9. Reading'
    <3>1. at' = 0 /\ r' = 4 /\ codecPc' = "sent" /\ Len(got') = at' /\ 1..at' = {}
      BY <1>1, <1>2, <1>4, <2>1
    <3> QED
      BY <2>8, <3>1 DEF Reading
  <2>10. Codec!TypeOK' /\ IsSequence(got)' /\ (Len(buf) >= Cap)'
    <3>1. Len(got') = 0 /\ at' = 0 /\ at' \in 0..Len(msg'.fields) /\ whole' \in BOOLEAN /\ cut' \in BOOLEAN
      BY <1>1, <1>4, <2>1, CodecTypes
    <3> QED
      BY <1>1, <2>1, <2>3, <3>1, CodecTypes DEF Codec!TypeOK, IsSequence
  <2> QED
    BY <1>1, <2>1, <2>9, <2>10 DEF CodecInv
<1> QED
  BY <1>5, <1>6

LEMMA SealPacketKeeps == CodecInv /\ Codec!SealPacket => CodecInv'
<1> SUFFICES ASSUME CodecInv, Codec!SealPacket PROVE CodecInv'
  OBVIOUS
<1> DEFINE v == msg.fields[1].val
           d == Codec!Digits(v, 8)
<1>1. /\ codecPc = "encode" /\ msg.form = "packet"
      /\ codecPc' = "sent" /\ text' = Codec!Reverse(d) /\ whole' = TRUE
      /\ msg' = msg /\ buf' = buf /\ w' = w /\ cut' = cut /\ r' = r /\ got' = got /\ at' = at
  BY DEF Codec!SealPacket, Codec!encoder, Codec!decoder
<1>2. got = <<>> /\ ~cut /\ at = 0
  BY <1>1 DEF CodecInv, Encoding
<1>3. text' \in Seq(Codec!Bytes)
  <2>1. v \in Int
    BY <1>1, CodecTypes, MessageFacts
  <2> HIDE DEF v
  <2>2. d \in Seq(Codec!Bytes)
    BY <2>1, DigitTypes
  <2> HIDE DEF d
  <2>3. Codec!Reverse(d) \in Seq(Codec!Bytes)
    BY <2>2, ReverseTwice
  <2> QED
    BY <1>1, <2>3
<1> HIDE DEF d
<1>4. Opening'
  BY <1>1, <1>2 DEF Opening, d, v
<1>5. Codec!TypeOK' /\ IsSequence(got)' /\ (Len(buf) >= Cap)'
  <2>1. whole' \in BOOLEAN /\ cut' \in BOOLEAN
    BY <1>1, CodecTypes
  <2> QED
    BY <1>1, <1>3, <2>1, CodecTypes DEF Codec!TypeOK, IsSequence
<1> QED
  BY <1>1, <1>4, <1>5 DEF CodecInv

LEMMA CutKeeps == CodecInv /\ Codec!Cut => CodecInv'
<1> SUFFICES ASSUME CodecInv, Codec!Cut PROVE CodecInv'
  OBVIOUS
<1>1. PICK n \in 1..(Len(text) + BlockSize) :
        whole' = (n <= Len(text)) /\ text' = SubSeq(text, 1, Len(text) - n)
  BY DEF Codec!Cut
<1>2. /\ codecPc = "sent" /\ codecPc' = "sent" /\ ~cut /\ cut' = TRUE
      /\ msg' = msg /\ buf' = buf /\ w' = w /\ r' = r /\ got' = got /\ at' = at
  BY DEF Codec!Cut, Codec!encoder, Codec!decoder
<1> DEFINE L == Len(text)
<1>3. L \in Nat /\ n \in Nat /\ n >= 1 /\ text \in Seq(Codec!Bytes)
  BY CodecTypes, CodecConstants
<1>4. /\ Len(text') < L \/ Len(text') = 0
      /\ \A i \in DOMAIN text' : i \in DOMAIN text /\ text'[i] = text[i]
  <2>1. CASE n <= L
    <3>1. L - n \in Nat /\ L - n <= L
      BY <1>3, <2>1
    <3> QED
      BY <1>1, <1>3, <3>1
  <2>2. CASE n > L
    <3>1. text' = <<>>
      BY <1>1, <1>3, <2>2
    <3> QED
      BY <1>3, <3>1
  <2> QED
    BY <1>3, <2>1, <2>2
<1>5. \A m : Same(text, text', m)
  BY <1>4 DEF Same
<1>6. text' \in Seq(Codec!Bytes)
  BY <1>1, <1>3
<1>7. Codec!TypeOK' /\ IsSequence(got)' /\ (Len(buf) >= Cap)'
  <2>1. whole' \in BOOLEAN /\ cut' \in BOOLEAN
    BY <1>1, <1>2
  <2> QED
    BY <1>2, <1>6, <2>1, CodecTypes DEF Codec!TypeOK, IsSequence
<1>8. CASE msg.form = "codec"
  <2> DEFINE N == Len(msg.fields)
  <2>1. Reading /\ at = 0 /\ r = 4
    BY <1>2, <1>8 DEF CodecInv, Reading
  <2>2. PICK off : Sent(off)
    BY <2>1 DEF Reading
  <2>3. N \in Nat /\ off[N] \in Nat /\ InPlace(msg.fields, text, off, N)
        /\ \A i \in 1..N : Codec!Field(msg.fields[i])
    <3>1. N \in Nat /\ \A i \in 1..N : Codec!Field(msg.fields[i])
      BY CodecTypes, MessageFacts
    <3>2. InPlace(msg.fields, text, off, N)
      BY <2>2 DEF Sent
    <3> HIDE DEF N
    <3>3. off[N] \in Nat
      BY <3>1, <3>2 DEF InPlace
    <3> QED
      BY <3>1, <3>2, <3>3
  <2>4. InPlace(msg.fields, text', off, N)
    <3>1. off[N] <= off[N] /\ Same(text, text', off[N])
      BY <1>5, <2>3
    <3> HIDE DEF N
    <3> QED
      BY <2>3, <3>1, InPlaceStays
  <2>5. Sent(off)'
    BY <1>2, <2>2, <2>4 DEF Sent
  <2>6. Reading'
    <3>1. at' = 0 /\ r' = 4 /\ codecPc' = "sent" /\ Len(got') = at' /\ 1..at' = {}
      BY <1>2, <2>1 DEF Reading
    <3> QED
      BY <2>5, <3>1 DEF Reading
  <2> QED
    BY <1>2, <1>7, <1>8, <2>6 DEF CodecInv
<1>9. CASE msg.form # "codec"
  <2>1. at = 0 /\ got = <<>> /\ text = Codec!Reverse(Codec!Digits(msg.fields[1].val, 8))
    BY <1>2, <1>9 DEF CodecInv, Opening
  <2>2. L = 8
    <3> DEFINE v == msg.fields[1].val
               d == Codec!Digits(v, 8)
    <3>1. v \in Int
      BY <1>9, CodecTypes, MessageFacts
    <3> HIDE DEF v
    <3>2. d \in Seq(Codec!Bytes) /\ Len(d) = 8
      BY <3>1, WordDigits
    <3> HIDE DEF d
    <3>3. Len(Codec!Reverse(d)) = 8
      BY <3>2, ReverseTwice
    <3> QED
      BY <2>1, <3>3 DEF d, v
  <2>3. Len(text') < 8
    <3>1. Len(text') \in Nat
      BY <1>6
    <3> HIDE DEF L
    <3> QED
      BY <1>4, <2>2, <3>1
  <2>4. Opening'
    BY <1>2, <2>1, <2>3 DEF Opening
  <2> QED
    BY <1>2, <1>7, <1>9, <2>4 DEF CodecInv
<1> QED
  BY <1>8, <1>9

LEMMA OpenLinkKeeps == CodecInv /\ Codec!OpenLink => CodecInv'
<1> SUFFICES ASSUME CodecInv, Codec!OpenLink PROVE CodecInv'
  OBVIOUS
<1>1. /\ codecPc = "sent" /\ codecPc' \in {"decode", "error"}
      /\ msg' = msg /\ buf' = buf /\ w' = w /\ text' = text /\ whole' = whole /\ cut' = cut
      /\ r' = r /\ got' = got /\ at' = at
  BY DEF Codec!OpenLink, Codec!encoder, Codec!link, Codec!decoder
<1>2. Codec!TypeOK' /\ IsSequence(got)' /\ (Len(buf) >= Cap)'
  BY <1>1, CodecTypes DEF Codec!TypeOK, IsSequence
<1>3. CASE msg.form = "codec"
  <2>1. Reading
    BY <1>1, <1>3 DEF CodecInv
  <2>2. Reading'
    BY <1>1, <2>1 DEF Reading, Sent
  <2> QED
    BY <1>1, <1>2, <1>3, <2>2 DEF CodecInv
<1>4. CASE msg.form # "codec"
  <2>1. Opening
    BY <1>1, <1>4 DEF CodecInv
  <2>2. Opening'
    BY <1>1, <2>1 DEF Opening
  <2> QED
    BY <1>1, <1>2, <1>4, <2>2 DEF CodecInv
<1> QED
  BY <1>3, <1>4

LEMMA DecodeEndsKeeps == CodecInv /\ Codec!DecodeEnds => CodecInv'
<1> SUFFICES ASSUME CodecInv, Codec!DecodeEnds PROVE CodecInv'
  OBVIOUS
<1>1. /\ codecPc = "decode" /\ codecPc' = "decoded" /\ msg.form = "codec" /\ at = Len(msg.fields)
      /\ msg' = msg /\ buf' = buf /\ w' = w /\ text' = text /\ whole' = whole /\ cut' = cut
      /\ r' = r /\ got' = got /\ at' = at
  BY DEF Codec!DecodeEnds, Codec!encoder, Codec!link, Codec!decoder
<1>2. Codec!TypeOK' /\ IsSequence(got)' /\ (Len(buf) >= Cap)'
  BY <1>1, CodecTypes DEF Codec!TypeOK, IsSequence
<1>3. Reading
  BY <1>1 DEF CodecInv
<1>4. Reading'
  BY <1>1, <1>3 DEF Reading, Sent
<1> QED
  BY <1>1, <1>2, <1>4 DEF CodecInv

(* The field at hand: either it cannot be told from what came before, or   *)
(* it is read where it lies.                                               *)
LEMMA DecodeKeeps == CodecInv /\ Codec!Decode => CodecInv'
<1> SUFFICES ASSUME CodecInv, Codec!Decode PROVE CodecInv'
  OBVIOUS
<1> DEFINE fs == msg.fields
           k == at + 1
           f == fs[k]
           g == Codec!Get(Reader(r, Codec!Zero(f)), f)
           N == Len(fs)
           L == Len(text)
<1>1. /\ codecPc = "decode" /\ msg.form = "codec" /\ at < N
      /\ msg' = msg /\ buf' = buf /\ w' = w /\ text' = text /\ whole' = whole /\ cut' = cut
      /\ IF g.dead THEN codecPc' = "panic" /\ r' = r /\ got' = got /\ at' = at
         ELSE r' = g.r /\ got' = Append(got, g.val) /\ at' = k /\ codecPc' = codecPc
  BY DEF Codec!Decode, Codec!encoder, Codec!link, Reader
<1>2. /\ N \in Nat /\ k \in 1..N /\ at \in Nat /\ L \in Nat /\ r \in Nat /\ text \in Seq(Codec!Bytes)
      /\ \A i \in 1..N : Codec!Field(fs[i])
  BY <1>1, CodecTypes, MessageFacts
<1>3. Reading
  BY <1>1 DEF CodecInv
<1>4. PICK off : Sent(off)
  BY <1>3 DEF Reading
<1>5. /\ off \in [0..N -> Nat] /\ off[k] <= off[N] /\ Lies(f, text, off[at], off[k])
      /\ ~cut => off[N] = L
      /\ Lost(fs, at) \/ r = off[at]
  <2>1. InPlace(fs, text, off, N)
    BY <1>4 DEF Sent
  <2>2. k - 1 = at
    BY <1>2
  <2> QED
    BY <1>2, <1>4, <2>1, <2>2 DEF InPlace, Sent
<1>6. Codec!Field(f) /\ off[k] \in Nat /\ off[N] \in Nat
  <2>1. k \in 0..N /\ N \in 0..N
    BY <1>2
  <2>2. Codec!Field(f)
    BY <1>2
  <2> HIDE DEF k, N, f
  <2> QED
    BY <1>5, <2>1, <2>2
<1>7. /\ ~g.dead => g.r \in Nat /\ (IF f.exported THEN r < L ELSE g.r = r)
      /\ Lies(f, text, r, off[k]) /\ ~Codec!Outgrown(f) =>
            /\ ~g.dead => /\ g.r = off[k]
                          /\ \/ ~f.exported \/ Codec!Narrowed(f) \/ g.val = f.val
                             \/ f.kind \in {"string", "bytes"} /\ off[k] > L
            /\ g.dead => \/ off[k] > L
                         \/ f.kind = "slice" /\ f.room < Len(f.val)
                         \/ f.kind = "map" /\ f.room = 0
  <2> DEFINE z == Codec!Zero(f)
  <2> HIDE DEF f, z
  <2> QED
    BY <1>2, <1>6, GetFacts DEF g, z
<1> HIDE DEF g
<1>8. Len(got) = at /\ \A i \in 1..at : ReadBack(fs, cut, text, r, at, got, i)
  BY <1>3 DEF Reading
<1>9. Lost(fs, k) \/ (Lies(f, text, r, off[k]) /\ ~Codec!Outgrown(f))
  <2>1. CASE Lost(fs, at)
    <3>1. k \in Nat /\ at <= k
      BY <1>2
    <3> HIDE DEF k
    <3> QED
      BY <1>2, <2>1, <3>1, LostGrows
  <2>2. CASE ~Lost(fs, at)
    <3>1. k \in 1..k /\ r = off[at]
      BY <1>2, <1>5, <2>2
    <3>2. Codec!Outgrown(f) => Lost(fs, k)
      BY <3>1 DEF Lost
    <3> QED
      BY <1>5, <3>1, <3>2
  <2> QED
    BY <2>1, <2>2
<1>10. CASE g.dead
  <2>1. codecPc' = "panic" /\ r' = r /\ got' = got /\ at' = at
    BY <1>1, <1>10
  <2>2. Codec!TypeOK' /\ IsSequence(got)' /\ (Len(buf) >= Cap)'
    BY <1>1, <2>1, CodecTypes DEF Codec!TypeOK, IsSequence
  <2>3. ASSUME ~cut PROVE HasCause(fs)
    <3>1. CASE Lost(fs, k)
      <4>1. PICK j \in 1..k : Codec!Outgrown(fs[j])
        BY <3>1 DEF Lost
      <4>2. j \in 1..Len(fs) /\ Cause(fs[j])
        BY <1>2, <4>1 DEF Cause
      <4> QED
        BY <4>2 DEF HasCause
    <3>2. CASE Lies(f, text, r, off[k]) /\ ~Codec!Outgrown(f)
      <4>1. ~(off[k] > L)
        BY <1>5, <1>6, <2>3
      <4>2. \/ f.kind = "slice" /\ f.room < Len(f.val)
            \/ f.kind = "map" /\ f.room = 0
        BY <1>7, <1>10, <3>2, <4>1
      <4>3. Cause(f)
        BY <4>2 DEF Cause
      <4> QED
        BY <1>2, <4>3 DEF HasCause
    <3> QED
      BY <1>9, <3>1, <3>2
  <2>4. (codecPc = "panic" /\ ~cut => HasCause(msg.fields))'
    BY <1>1, <2>3
  <2> QED
    BY <2>1, <2>2, <2>4 DEF CodecInv
<1>11. CASE ~g.dead
  <2>1. r' = g.r /\ got' = Append(got, g.val) /\ at' = k /\ codecPc' = "decode" /\ g.r \in Nat
    BY <1>1, <1>7, <1>11
  <2>2. /\ IsSequence(got') /\ Len(got') = k
        /\ got'[k] = g.val /\ \A i \in 1..at : got'[i] = got[i]
    <3>1. PICK S : got \in Seq(S)
      BY CodecTypes DEF IsSequence
    <3> DEFINE T == S \union {g.val}
               x == g.val
    <3>2. S \subseteq T /\ x \in T
      OBVIOUS
    <3>3. got \in Seq(T)
      <4> HIDE DEF T
      <4> QED
        BY <3>1, <3>2, SeqMonotonic
    <3> HIDE DEF T, x
    <3>4. Append(got, x) \in Seq(T) /\ Len(Append(got, x)) = k /\ Append(got, x)[k] = x
          /\ \A i \in 1..at : Append(got, x)[i] = got[i]
      BY <1>2, <1>8, <3>2, <3>3
    <3> QED
      BY <2>1, <3>4 DEF IsSequence, x
  <2>3. Codec!TypeOK' /\ IsSequence(got)' /\ (Len(buf) >= Cap)'
    <3>1. at' \in 0..Len(msg'.fields) /\ Len(got') \in {0, at'} /\ r' \in Nat
      BY <1>1, <1>2, <2>1, <2>2
    <3> QED
      BY <1>1, <2>1, <2>2, <3>1, CodecTypes DEF Codec!TypeOK
  <2>4. Sent(off)'
    <3>1. Lost(fs, k) \/ g.r = off[k]
      BY <1>7, <1>9, <1>11
    <3> QED
      BY <1>1, <1>4, <2>1, <3>1 DEF Sent
  <2>5. ASSUME NEW i \in 1..at PROVE ReadBack(fs, cut, text, g.r, k, got', i)
    <3>1. ReadBack(fs, cut, text, r, at, got, i) /\ got'[i] = got[i]
      BY <1>8, <2>2
    <3>2. CASE r > L /\ \A j \in (i + 1)..at : ~fs[j].exported
      <4>1. ~f.exported /\ g.r = r
        <5>1. ~(r < L)
          BY <1>2, <3>2
        <5> QED
          BY <1>7, <1>11, <5>1
      <4>2. \A j \in (i + 1)..k : j = k \/ j \in (i + 1)..at
        BY <1>2
      <4>3. \A j \in (i + 1)..k : ~fs[j].exported
        BY <3>2, <4>1, <4>2
      <4> QED
        BY <3>1, <3>2, <4>1, <4>3 DEF ReadBack
    <3> QED
      BY <3>1, <3>2 DEF ReadBack
  <2>6. ReadBack(fs, cut, text, g.r, k, got', k)
    <3>1. CASE Lost(fs, k)
      BY <3>1 DEF ReadBack
    <3>2. CASE Lies(f, text, r, off[k]) /\ ~Codec!Outgrown(f)
      <4>1. /\ g.r = off[k]
            /\ \/ ~f.exported \/ Codec!Narrowed(f) \/ g.val = f.val
               \/ f.kind \in {"string", "bytes"} /\ off[k] > L
        BY <1>7, <1>11, <3>2
      <4>2. CASE f.kind \in {"string", "bytes"} /\ off[k] > L
        <5>1. cut
          BY <1>5, <1>6, <4>2, CodecTypes
        <5>2. (k + 1)..k = {}
          BY <1>2
        <5> QED
          BY <4>1, <4>2, <5>1, <5>2 DEF ReadBack
      <4> QED
        BY <2>2, <4>1, <4>2 DEF ReadBack
    <3> QED
      BY <1>9, <3>1, <3>2
  <2>7. Reading'
    <3>1. \A i \in 1..k : ReadBack(fs, cut, text, g.r, k, got', i)
      <4>1. \A i \in 1..k : i = k \/ i \in 1..at
        BY <1>2
      <4> QED
        BY <2>5, <2>6, <4>1
    <3>2. \E any : Sent(any)'
      BY <2>4
    <3>3. codecPc' # "sent" /\ codecPc' # "decoded" /\ Len(got') = at'
      BY <2>1, <2>2
    <3> QED
      BY <1>1, <2>1, <3>1, <3>2, <3>3 DEF Reading
  <2> QED
    BY <1>1, <2>1, <2>3, <2>7 DEF CodecInv
<1> QED
  BY <1>10, <1>11

LEMMA DecodePacketKeeps == CodecInv /\ Codec!DecodePacket => CodecInv'
<1> SUFFICES ASSUME CodecInv, Codec!DecodePacket PROVE CodecInv'
  OBVIOUS
<1> DEFINE v == msg.fields[1].val
           d == Codec!Digits(v, 8)
<1>1. /\ codecPc = "decode" /\ msg.form = "packet"
      /\ msg' = msg /\ buf' = buf /\ w' = w /\ text' = text /\ whole' = whole /\ cut' = cut /\ r' = r
      /\ IF Len(text) < 8 THEN codecPc' = "panic" /\ got' = got /\ at' = at
         ELSE /\ codecPc' = "decoded" /\ at' = 1
              /\ got' = <<Codec!Unsigned(Codec!Reverse(SubSeq(text, 1, 8)))>>
  BY DEF Codec!DecodePacket, Codec!encoder, Codec!link
<1>2. /\ at = 0 /\ got = <<>>
      /\ IF cut THEN Len(text) < 8 ELSE text = Codec!Reverse(d)
  BY <1>1 DEF CodecInv, Opening
<1>3. Len(msg.fields) = 1 /\ v \in Nat /\ v % Codec!Power[8] = v
  BY <1>1, CodecTypes, MessageFacts
<1> HIDE DEF v
<1>4. d \in Seq(Codec!Bytes) /\ Len(d) = 8
  BY <1>3, WordDigits
<1>5. Codec!Unsigned(d) = v
  BY <1>3, WordDigits
<1> HIDE DEF d
<1>6. CASE Len(text) < 8
  <2>1. codecPc' = "panic" /\ got' = got /\ at' = at
    BY <1>1, <1>6
  <2>2. Codec!TypeOK' /\ IsSequence(got)' /\ (Len(buf) >= Cap)'
    BY <1>1, <2>1, CodecTypes DEF Codec!TypeOK, IsSequence
  <2>3. cut' = TRUE
    <3>1. Len(Codec!Reverse(d)) = 8
      BY <1>4, ReverseTwice
    <3>2. text # Codec!Reverse(d)
      <4>1. ASSUME text = Codec!Reverse(d) PROVE Len(text) = 8
        BY <3>1, <4>1, Zenon
      <4>2. Len(text) \in Nat
        BY CodecTypes
      <4>3. \A n \in Nat : n < 8 => ~(n = 8)
        OBVIOUS
      <4> QED
        BY <1>6, <4>1, <4>2, <4>3, Zenon
    <3>3. cut \in BOOLEAN
      BY CodecTypes
    <3>4. cut = TRUE
      BY <1>2, <3>2, <3>3, Zenon
    <3> QED
      BY <1>1, <3>4
  <2> QED
    BY <2>1, <2>2, <2>3 DEF CodecInv
<1>7. CASE ~(Len(text) < 8)
  <2>1. /\ codecPc' = "decoded" /\ at' = 1
        /\ got' = <<Codec!Unsigned(Codec!Reverse(SubSeq(text, 1, 8)))>>
    BY <1>1, <1>7
  <2>2. text = Codec!Reverse(d)
    BY <1>2, <1>7
  <2>3. Codec!Reverse(SubSeq(text, 1, 8)) = d
    <3>1. text \in Seq(Codec!Bytes) /\ Len(text) = 8 /\ Codec!Reverse(text) = d
      BY <1>4, <2>2, ReverseTwice
    <3>2. SubSeq(text, 1, 8) = text
      BY <3>1
    <3> QED
      BY <3>1, <3>2
  <2>4. got' = <<v>>
    BY <1>5, <2>1, <2>3
  <2>5. Opening'
    BY <1>1, <2>1, <2>4 DEF Opening, v
  <2>6. Codec!TypeOK' /\ IsSequence(got)' /\ (Len(buf) >= Cap)'
    <3>1. at' \in 0..Len(msg'.fields) /\ Len(got') = at'
      BY <1>1, <1>3, <2>1, <2>4
    <3>2. IsSequence(got')
      <4>1. <<v>> \in Seq({v})
        OBVIOUS
      <4> QED
        BY <2>4, <4>1 DEF IsSequence
    <3> QED
      BY <1>1, <2>1, <3>1, <3>2, CodecTypes DEF Codec!TypeOK
  <2> QED
    BY <1>1, <2>1, <2>5, <2>6 DEF CodecInv
<1> QED
  BY <1>6, <1>7

LEMMA CodecRead == CodecInv => Codec!LinkReads
<1> SUFFICES ASSUME CodecInv, codecPc = "decoded", NEW i \in DOMAIN msg.fields
             PROVE  \/ got[i] = msg.fields[i].val
                    \/ ~msg.fields[i].exported
                    \/ Codec!Narrowed(msg.fields[i])
                    \/ \E j \in 1..i : Codec!Outgrown(msg.fields[j])
                    \/ /\ cut /\ msg.fields[i].kind \in {"string", "bytes"}
                       /\ \A j \in DOMAIN msg.fields : j > i => ~msg.fields[j].exported
  BY DEF Codec!LinkReads
<1>1. /\ Len(msg.fields) \in Nat /\ i \in 1..Len(msg.fields) /\ DOMAIN msg.fields = 1..Len(msg.fields)
      /\ msg.form \in {"codec", "packet"} /\ (msg.form = "packet" => Len(msg.fields) = 1)
  BY CodecTypes, MessageFacts
<1>2. CASE msg.form = "codec"
  <2>1. at = Len(msg.fields) /\ \A j \in 1..at : ReadBack(msg.fields, cut, text, r, at, got, j)
    BY <1>2 DEF CodecInv, Reading
  <2>2. ReadBack(msg.fields, cut, text, r, Len(msg.fields), got, i)
    BY <1>1, <2>1
  <2>3. \A j \in DOMAIN msg.fields : j > i => j \in (i + 1)..Len(msg.fields)
    BY <1>1
  <2> QED
    BY <2>2, <2>3 DEF ReadBack, Lost
<1>3. CASE msg.form = "packet"
  <2>1. got = <<msg.fields[1].val>>
    BY <1>3 DEF CodecInv, Opening
  <2>2. i = 1
    <3>1. Len(msg.fields) = 1 /\ i \in 1..Len(msg.fields)
      BY <1>1, <1>3
    <3>2. i \in 1..1
      BY <3>1
    <3> QED
      BY <3>2
  <2> QED
    BY <2>1, <2>2
<1> QED
  BY <1>1, <1>2, <1>3

LEMMA CodecPanics == CodecInv => Codec!PanicHasCause
<1> SUFFICES ASSUME CodecInv, codecPc = "panic", ~cut PROVE \E f \in Codec!Fields : Cause(f)
  BY DEF Codec!PanicHasCause, Cause
<1> QED
  BY CausePointed, CodecTypes DEF CodecInv

LEMMA CodecStep == CodecInv /\ Codec!Next => CodecInv'
  BY EncodeKeeps, SealKeeps, SealPacketKeeps, CutKeeps, OpenLinkKeeps, DecodeKeeps, DecodeEndsKeeps,
     DecodePacketKeeps DEF Codec!Next

CodecPartInv == part = "codec" => CodecInv

LEMMA CodecAlways == PartsSpec => []CodecPartInv
<1>1. PartsInit => CodecPartInv
  BY CodecStart DEF PartsInit, CodecPartInv
<1>2. CodecPartInv /\ [SplitNext \/ CodecNext \/ TokenNext \/ SessionNext]_allVars => CodecPartInv'
  <2> SUFFICES ASSUME CodecPartInv, [SplitNext \/ CodecNext \/ TokenNext \/ SessionNext]_allVars
               PROVE  CodecPartInv'
    OBVIOUS
  <2>1. CASE CodecNext
    BY <2>1, CodecStep DEF CodecNext, CodecPartInv
  <2>2. CASE SplitNext \/ TokenNext \/ SessionNext
    BY <2>2 DEF SplitNext, TokenNext, SessionNext, CodecPartInv
  <2>3. CASE UNCHANGED allVars
    <3>1. part' = part /\ UNCHANGED codecVars
      BY <2>3 DEF allVars
    <3>2. CodecInv => CodecInv'
      BY <3>1 DEF codecVars, CodecInv, Codec!TypeOK, IsSequence, Encoding, Reading, Sent, Opening
    <3> QED
      BY <3>1, <3>2 DEF CodecPartInv
  <2> QED
    BY <2>1, <2>2, <2>3
<1> QED
  BY <1>1, <1>2, PTL DEF PartsSpec

(* BinaryCodec: for every size of a byte, first buffer and memory, and all *)
(* messages whose values are of their types, a link is read as it was      *)
(* written, whatever the order of its fields and however often the buffer  *)
(* grew, but for the exceptions named there.                               *)
THEOREM LinksAreRead == PartsSpec => []LinkReads
<1>1. CodecPartInv => LinkReads
  BY CodecRead DEF CodecPartInv, CodecInv, LinkReads
<1> QED
  BY <1>1, CodecAlways, PTL

(* BinaryCodec: no whole link of such a message stops the program, on the  *)
(* way out or on the way in, but for the fields named there.               *)
THEOREM PanicsHaveCause == PartsSpec => []PanicHasCause
<1>1. CodecPartInv => PanicHasCause
  BY CodecPanics DEF CodecPartInv, PanicHasCause
<1> QED
  BY <1>1, CodecAlways, PTL
=============================================================================
