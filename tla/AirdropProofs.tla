--------------------------- MODULE AirdropProofs ---------------------------
(***************************************************************************)
(* Theorems about the payout of one airdrop, for any submissions, wallets, *)
(* main wallets, chunk size and number of transactions, and about its      *)
(* money, for any prices, bonus and decimals, by chunks or by sync_drop;   *)
(* and theorems about getting any number of airdrops ready for it.         *)
(***************************************************************************)
EXTENDS MCAirdrops, FiniteSetTheorems, WellFoundedInduction, TLAPS

(* Facts about the operators the steps are built from. *)

LEMMA PlanConstants ==
    /\ Subs \subseteq Nat \ {0} /\ IsFiniteSet(Subs)
    /\ NoWallet \notin Wallets /\ IsFiniteSet(Wallets)
    /\ Wallet \in [Subs -> Wallets] /\ Referrer \in [Subs -> Wallets \union {NoWallet}]
    /\ PromoterId \in [Subs -> Promoters] /\ ChunkSize \in Nat \ {0}
BY PlanAssumption DEF SubsAssumption, WalletsAssumption, ChunkAssumption

LEMMA TxsFacts == NoTx \notin Txs /\ Txs \subseteq Nat
BY BoundAssumption DEF NoTx, Txs

LEMMA NothingIsPayment ==
    Nothing \in Payment /\ Nothing.give = {} /\ Nothing.bonus = {} /\ GivenTo(Nothing) = {}
BY DEF Nothing, Payment, GivenTo

LEMMA TotalIsPayment ==
    ASSUME NEW B, B \subseteq Payment
    PROVE  /\ Total(B) \in Payment
           /\ Total(B).give = UNION {u.give : u \in B}
           /\ Total(B).bonus = UNION {u.bonus : u \in B}
BY DEF Total, Payment

LEMMA PaymentFacts ==
    ASSUME NEW p \in Payment
    PROVE  /\ p.give \subseteq Row /\ p.bonus \subseteq Row \X Wallets
           /\ GivenTo(p) \subseteq Subs
BY DEF Payment, GivenTo, Row

LEMMA TotalGivenTo ==
    ASSUME NEW B, NEW s PROVE s \in GivenTo(Total(B)) <=> \E u \in B : s \in GivenTo(u)
BY DEF GivenTo, Total

(* Whatever sync_drop says, a batch is part of what is left to send. *)
LEMMA BatchIsPart == \A U, sy : \A B \in Batches(U, sy) : B \subseteq U
BY DEF Batches, NextTransfers

(* Of finitely many finite sets, one has no other strictly inside. *)
IsFamily(All, S) == All \subseteq SUBSET S /\ All # {}

LEMMA MinimalExists ==
    ASSUME NEW S, IsFiniteSet(S), NEW All, IsFamily(All, S)
    PROVE  \E A \in All : \A B \in All : B \subseteq A => B = A
<1>1. All \subseteq FiniteSubsetsOf(S) /\ All # {}
  BY FS_FiniteSubsetsOfFinite DEF IsFamily
<1>2. PICK A \in All : \A B \in All : <<B, A>> \notin StrictSubsetOrdering(S)
  BY <1>1, FS_StrictSubsetOrderingWellFounded, WFMin
<1>3. ASSUME NEW B \in All, B \subseteq A PROVE B = A
  BY <1>2, <1>3 DEF StrictSubsetOrdering, IsFamily
<1> QED
  BY <1>3

LEMMA HighestExists ==
    ASSUME NEW S, S \subseteq Int, IsFiniteSet(S), S # {}
    PROVE  \E s \in S : \A r \in S : r <= s
<1> DEFINE Side(s) == {r \in S : s <= r}
           All == {Side(s) : s \in S}
<1>1. IsFamily(All, S)
  BY DEF IsFamily
<1>2. PICK A \in All : \A B \in All : B \subseteq A => B = A
  <2> HIDE DEF All
  <2> QED
    BY <1>1, MinimalExists
<1>3. PICK s \in S : A = Side(s)
  OBVIOUS
<1>4. ASSUME NEW r \in S, ~(r <= s) PROVE FALSE
  <2>1. s \in Int /\ r \in Int /\ s < r
    BY <1>4
  <2>2. \A q \in S : r <= q => s <= q
    BY <2>1
  <2>3. Side(r) \subseteq Side(s)
    BY <2>2
  <2>4. s \in Side(s) /\ s \notin Side(r)
    BY <2>1
  <2> QED
    BY <1>2, <1>3, <2>3, <2>4
<1> QED
  BY <1>4

LEMMA LowestExists ==
    ASSUME NEW S, S \subseteq Int, IsFiniteSet(S), S # {}
    PROVE  \E s \in S : \A r \in S : s <= r
<1> DEFINE Side(s) == {r \in S : r <= s}
           All == {Side(s) : s \in S}
<1>1. IsFamily(All, S)
  BY DEF IsFamily
<1>2. PICK A \in All : \A B \in All : B \subseteq A => B = A
  <2> HIDE DEF All
  <2> QED
    BY <1>1, MinimalExists
<1>3. PICK s \in S : A = Side(s)
  OBVIOUS
<1>4. ASSUME NEW r \in S, ~(s <= r) PROVE FALSE
  <2>1. s \in Int /\ r \in Int /\ r < s
    BY <1>4
  <2>2. \A q \in S : q <= r => q <= s
    BY <2>1
  <2>3. Side(r) \subseteq Side(s)
    BY <2>2
  <2>4. s \in Side(s) /\ s \notin Side(r)
    BY <2>1
  <2> QED
    BY <1>2, <1>3, <2>3, <2>4
<1> QED
  BY <1>4

LEMMA RowFacts ==
    ASSUME NEW R, R \subseteq Row
    PROVE  /\ IsFiniteSet(R)
           /\ \A r \in R : r[1] \in Subs /\ r[1] \in Int /\ r[2] \in Wallets /\ r = <<r[1], r[2]>>
           /\ R # {} => /\ \E r \in R : \A q \in R : q[1] <= r[1]
                        /\ \E r \in R : \A q \in R : r[1] <= q[1]
<1>1. IsFiniteSet(R)
  <2>1. IsFiniteSet(Row)
    BY PlanConstants, FS_Product DEF Row
  <2> QED
    BY <2>1, FS_Subset
<1>2. \A r \in R : r[1] \in Subs /\ r[1] \in Int /\ r[2] \in Wallets /\ r = <<r[1], r[2]>>
  <2>1. \A s \in Subs : s \in Int
    BY PlanConstants
  <2> QED
    BY <2>1 DEF Row
<1>3. ASSUME R # {}
      PROVE  /\ \E r \in R : \A q \in R : q[1] <= r[1]
             /\ \E r \in R : \A q \in R : r[1] <= q[1]
  <2> DEFINE ids == {r[1] : r \in R}
  <2>1. ids \subseteq Subs /\ ids \subseteq Int /\ ids # {}
    BY <1>2, <1>3
  <2>2. IsFiniteSet(ids)
    BY <2>1, PlanConstants, FS_Subset
  <2>3. (\E s \in ids : \A r \in ids : r <= s) /\ (\E s \in ids : \A r \in ids : s <= r)
    <3> HIDE DEF ids
    <3> QED
      BY <2>1, <2>2, HighestExists, LowestExists
  <2> QED
    BY <2>3
<1> QED
  BY <1>1, <1>2, <1>3

(* The promoter of a pass is the promoter of one of its rows. *)
LEMMA PromoWalletFacts ==
    ASSUME NEW R, R \subseteq Row, NEW promo \in PromoWallets(R)
    PROVE  /\ promo \in Wallets
           /\ \E q \in R : promo = q[2] /\ \A o \in R : o[1] <= q[1]
BY RowFacts DEF PromoWallets

LEMMA EarnerIsWallet ==
    ASSUME NEW r \in Row, NEW promo \in Wallets PROVE Earner(r, promo) \in Wallets
BY PlanConstants DEF Earner, Referred, Row

-----------------------------------------------------------------------------
(* Whom a wallet's entry of the recipients pays: the row with the lowest   *)
(* id of those of this wallet, and nobody who has another.                 *)
UnitSays(u, R, promo, w) ==
    /\ u \in Payment
    /\ u.give \subseteq {r \in R : Wallet[r[1]] = w}
    /\ (\E r \in R : Wallet[r[1]] = w) =>
          \E r \in R : /\ u.give = {r} /\ Wallet[r[1]] = w
                       /\ \A q \in R : Wallet[q[1]] = w => r[1] <= q[1]
    /\ \A b : b \in u.bonus <=>
          /\ b = <<b[1], w>> /\ b[1] \in R
          /\ Earns(b[1], promo) /\ Earner(b[1], promo) = w
          /\ \A q \in R : Wallet[q[1]] = w => b[1][1] < q[1]

LEMMA UnitFacts ==
    ASSUME NEW R, R \subseteq Row, NEW promo \in Wallets, NEW w \in Wallets
    PROVE  UnitSays(WalletUnit(R, promo, w), R, promo, w)
<1> SUFFICES ASSUME NEW u, u = WalletUnit(R, promo, w) PROVE UnitSays(u, R, promo, w)
  OBVIOUS
<1> USE DEF UnitSays
<1> DEFINE own == {r \in R : Wallet[r[1]] = w}
           last == {r \in own : \A q \in own : r[1] <= q[1]}
           earned == {r \in R : /\ Earns(r, promo) /\ Earner(r, promo) = w
                                /\ \A q \in own : r[1] < q[1]}
<1>1. u = [give |-> IF own = {} THEN {} ELSE {CHOOSE r \in last : TRUE}, bonus |-> earned \X {w}]
  BY DEF WalletUnit
<1>2. own # {} => last # {}
  <2>1. own \subseteq Row
    OBVIOUS
  <2> HIDE DEF own
  <2> QED
    BY <2>1, RowFacts
<1>3. CASE own = {}
  <2>1. u.give = {} /\ u.bonus = earned \X {w}
    BY <1>1, <1>3
  <2>2. u = [give |-> u.give, bonus |-> u.bonus]
    BY <1>1
  <2>3. u.bonus \subseteq Row \X Wallets
    BY <2>1
  <2>4. u \in Payment
    BY <2>1, <2>2, <2>3 DEF Payment
  <2>5. \A b : b \in u.bonus <=>
                 /\ b = <<b[1], w>> /\ b[1] \in R
                 /\ Earns(b[1], promo) /\ Earner(b[1], promo) = w
                 /\ \A q \in R : Wallet[q[1]] = w => b[1][1] < q[1]
    BY <2>1
  <2> QED
    BY <1>3, <2>1, <2>4, <2>5
<1>4. CASE own # {}
  <2> DEFINE c == CHOOSE r \in last : TRUE
  <2>0. c \in last
    BY <1>2, <1>4
  <2>1. u.give = {c} /\ u.bonus = earned \X {w}
    BY <1>1, <1>4
  <2>2. u = [give |-> u.give, bonus |-> u.bonus]
    BY <1>1
  <2>3. u.bonus \subseteq Row \X Wallets
    BY <2>1
  <2>4. c \in R /\ Wallet[c[1]] = w /\ \A q \in R : Wallet[q[1]] = w => c[1] <= q[1]
    BY <2>0
  <2> HIDE DEF c
  <2>5. u \in Payment
    BY <2>1, <2>2, <2>3, <2>4 DEF Payment
  <2>6. \A b : b \in u.bonus <=>
                 /\ b = <<b[1], w>> /\ b[1] \in R
                 /\ Earns(b[1], promo) /\ Earner(b[1], promo) = w
                 /\ \A q \in R : Wallet[q[1]] = w => b[1][1] < q[1]
    BY <2>1
  <2> QED
    BY <2>1, <2>4, <2>5, <2>6
<1> QED
  BY <1>3, <1>4

LEMMA TransferTypes ==
    /\ \A r \in Row : GiveOutTransfer(r) \in Payment
    /\ \A r \in Row : Referred(r) => ReferralTransfer(r) \in Payment
  <1>1. \A r \in Row : GiveOutTransfer(r) \in Payment
    BY DEF GiveOutTransfer, Payment
  <1>2. \A r \in Row : Referred(r) => Referrer[r[1]] \in Wallets
    BY PlanConstants DEF Referred, Row
  <1>3. \A r \in Row : Referred(r) => ReferralTransfer(r) \in Payment
    BY <1>2 DEF ReferralTransfer, Payment
  <1> QED
    BY <1>1, <1>3

(* What a plan for the rows R is made of. *)
PlanOf(R, promo, sy) == IF sy THEN SyncTransfers(R, promo) ELSE ChunkRecipients(R, promo)

LEMMA PlansArePlansOf ==
    ASSUME NEW R, R \subseteq Row, NEW sy, NEW plan \in Plans(R, sy)
    PROVE  \/ plan = {}
           \/ /\ R # {}
              /\ \E promo \in Wallets : promo \in PromoWallets(R) /\ plan = PlanOf(R, promo, sy)
<1>1. CASE R = {}
  BY <1>1 DEF Plans
<1>2. CASE R # {}
  <2>1. PICK promo \in PromoWallets(R) : plan = PlanOf(R, promo, sy)
    BY <1>2 DEF Plans, PlanOf
  <2> QED
    BY <1>2, <2>1, PromoWalletFacts
<1> QED
  BY <1>1, <1>2

(* Payments of a plan share no row, pay a row one bonus at most, and give  *)
(* it to whom it earns.  Those of a chunk give one row each, of different  *)
(* wallets.                                                                *)
GoodPlan(plan, R, promo, sy) ==
    /\ plan \subseteq Payment
    /\ \A u \in plan : u.give \subseteq R
    /\ \A u \in plan : \A b \in u.bonus :
          b[1] \in R /\ Earns(b[1], promo) /\ b[2] = Earner(b[1], promo)
    /\ \A u, v \in plan : u # v => u.give \intersect v.give = {} /\ u.bonus \intersect v.bonus = {}
    /\ \A u \in plan : \A r, q \in u.give : r = q
    /\ ~sy => \A u, v \in plan : u # v => GivenTo(u) \intersect GivenTo(v) = {}

LEMMA SyncPlan ==
    ASSUME NEW R, R \subseteq Row, NEW promo \in Wallets
    PROVE  GoodPlan(SyncTransfers(R, promo), R, promo, TRUE)
<1> DEFINE promoted == {r \in R : ~Referred(r) /\ Earns(r, promo)}
           lump == [give |-> {}, bonus |-> promoted \X {promo}]
           plan == SyncTransfers(R, promo)
<1>1. \A u \in plan : \/ \E r \in R : u = GiveOutTransfer(r)
                      \/ \E r \in R : Referred(r) /\ u = ReferralTransfer(r)
                      \/ u = lump
  BY DEF SyncTransfers
<1>2. lump \in Payment
  BY DEF Payment
<1>3. plan \subseteq Payment
  BY <1>1, <1>2, TransferTypes
<1>4. \A r \in R : GiveOutTransfer(r).give = {r} /\ GiveOutTransfer(r).bonus = {}
                   /\ ReferralTransfer(r).give = {}
                   /\ ReferralTransfer(r).bonus = {<<r, Referrer[r[1]]>>}
  BY DEF GiveOutTransfer, ReferralTransfer
<1>5. lump.give = {} /\ lump.bonus = promoted \X {promo}
  OBVIOUS
<1>6. \A b \in lump.bonus : b = <<b[1], promo>> /\ b[1] \in R /\ ~Referred(b[1]) /\ Earns(b[1], promo)
  BY <1>5
<1> HIDE DEF plan, lump, promoted
<1>7. \A u \in plan : u.give \subseteq R
  BY <1>1, <1>4, <1>5
<1>8. ASSUME NEW u \in plan, NEW b \in u.bonus
      PROVE  b[1] \in R /\ Earns(b[1], promo) /\ b[2] = Earner(b[1], promo)
  <2>1. CASE \E r \in R : Referred(r) /\ u = ReferralTransfer(r)
    <3>1. PICK r \in R : Referred(r) /\ u = ReferralTransfer(r)
      BY <2>1
    <3>2. b = <<r, Referrer[r[1]]>>
      BY <1>4, <3>1
    <3> QED
      BY <3>1, <3>2 DEF Earns, Earner
  <2>2. CASE u = lump
    <3>1. b = <<b[1], promo>> /\ b[1] \in R /\ ~Referred(b[1]) /\ Earns(b[1], promo)
      BY <1>6, <2>2
    <3> QED
      BY <3>1 DEF Earner
  <2> QED
    BY <1>1, <1>4, <2>1, <2>2
<1>9. ASSUME NEW u \in plan, NEW v \in plan, u # v PROVE u.give \intersect v.give = {}
  <2>1. ASSUME NEW x \in u.give, x \in v.give PROVE FALSE
    <3>1. PICK r \in R : u = GiveOutTransfer(r) /\ x = r
      BY <1>1, <1>4, <1>5, <2>1
    <3>2. PICK q \in R : v = GiveOutTransfer(q) /\ x = q
      BY <1>1, <1>4, <1>5, <2>1
    <3> QED
      BY <1>9, <3>1, <3>2
  <2> QED
    BY <2>1
<1>10. ASSUME NEW u \in plan, NEW v \in plan, u # v PROVE u.bonus \intersect v.bonus = {}
  <2>1. ASSUME NEW x \in u.bonus, x \in v.bonus PROVE FALSE
    <3>1. \A w \in plan : x \in w.bonus =>
             IF Referred(x[1]) THEN w = ReferralTransfer(x[1]) ELSE w = lump
      <4> SUFFICES ASSUME NEW w \in plan, x \in w.bonus
                   PROVE  IF Referred(x[1]) THEN w = ReferralTransfer(x[1]) ELSE w = lump
        OBVIOUS
      <4>1. CASE \E r \in R : Referred(r) /\ w = ReferralTransfer(r)
        <5>1. PICK r \in R : Referred(r) /\ w = ReferralTransfer(r)
          BY <4>1
        <5>2. x = <<r, Referrer[r[1]]>>
          BY <1>4, <5>1
        <5> QED
          BY <5>1, <5>2
      <4>2. CASE w = lump
        BY <1>6, <4>2
      <4> QED
        BY <1>1, <1>4, <4>1, <4>2
    <3> QED
      BY <1>10, <2>1, <3>1
  <2> QED
    BY <2>1
<1>11. \A u \in plan : \A r, q \in u.give : r = q
  BY <1>1, <1>4, <1>5
<1> QED
  BY <1>3, <1>7, <1>8, <1>9, <1>10, <1>11 DEF GoodPlan, plan

LEMMA ChunkPlan ==
    ASSUME NEW R, R \subseteq Row, NEW promo \in Wallets
    PROVE  GoodPlan(ChunkRecipients(R, promo), R, promo, FALSE)
<1> DEFINE plan == ChunkRecipients(R, promo)
<1>1. \A u \in plan : \E w \in Wallets : u = WalletUnit(R, promo, w)
  BY DEF ChunkRecipients
<1>2. ASSUME NEW w \in Wallets, NEW u, u = WalletUnit(R, promo, w)
      PROVE  /\ u \in Payment
             /\ u.give \subseteq R /\ \A r \in u.give : Wallet[r[1]] = w
             /\ \A r, q \in u.give : r = q
             /\ \A b \in u.bonus : /\ b[2] = w /\ b[1] \in R /\ Earns(b[1], promo)
                                   /\ Earner(b[1], promo) = w
  <2>0. UnitSays(u, R, promo, w)
    BY <1>2, UnitFacts
  <2>1. \/ \E r \in R : u.give = {r}
        \/ u.give = {}
    BY <2>0 DEF UnitSays
  <2>2. u \in Payment /\ u.give \subseteq {r \in R : Wallet[r[1]] = w}
    BY <2>0 DEF UnitSays
  <2>3. \A b \in u.bonus : b = <<b[1], w>> /\ b[1] \in R /\ Earns(b[1], promo) /\ Earner(b[1], promo) = w
    BY <2>0 DEF UnitSays
  <2>4. \A b \in u.bonus : b[2] = w
    BY <2>3
  <2> QED
    BY <2>1, <2>2, <2>3, <2>4
<1>3. ASSUME NEW u \in plan
      PROVE  \E w \in Wallets :
                /\ u = WalletUnit(R, promo, w)
                /\ u \in Payment
                /\ u.give \subseteq R /\ \A r \in u.give : Wallet[r[1]] = w
                /\ \A r, q \in u.give : r = q
                /\ \A b \in u.bonus : /\ b[2] = w /\ b[1] \in R /\ Earns(b[1], promo)
                                      /\ Earner(b[1], promo) = w
  BY <1>1, <1>2
<1> HIDE DEF plan
<1>4. plan \subseteq Payment /\ \A u \in plan : u.give \subseteq R
  BY <1>3
<1>5. \A u \in plan : \A b \in u.bonus :
          b[1] \in R /\ Earns(b[1], promo) /\ b[2] = Earner(b[1], promo)
  BY <1>3
<1>6. \A u \in plan : \A r, q \in u.give : r = q
  BY <1>3
<1>7. ASSUME NEW u \in plan, NEW v \in plan, u # v
      PROVE  /\ u.give \intersect v.give = {} /\ u.bonus \intersect v.bonus = {}
             /\ GivenTo(u) \intersect GivenTo(v) = {}
  <2>1. PICK w \in Wallets : /\ u = WalletUnit(R, promo, w)
                             /\ \A r \in u.give : Wallet[r[1]] = w
                             /\ \A b \in u.bonus : b[2] = w
    BY <1>3
  <2>2. PICK x \in Wallets : /\ v = WalletUnit(R, promo, x)
                             /\ \A r \in v.give : Wallet[r[1]] = x
                             /\ \A b \in v.bonus : b[2] = x
    BY <1>3
  <2>3. w # x
    BY <1>7, <2>1, <2>2
  <2>4. /\ \A s \in GivenTo(u) : Wallet[s] = w
        /\ \A s \in GivenTo(v) : Wallet[s] = x
    BY <2>1, <2>2 DEF GivenTo
  <2> QED
    BY <2>1, <2>2, <2>3, <2>4
<1> QED
  BY <1>4, <1>5, <1>6, <1>7 DEF GoodPlan, plan

LEMMA PlanIsGood ==
    ASSUME NEW R, R \subseteq Row, NEW sy \in BOOLEAN, NEW plan \in Plans(R, sy)
    PROVE  \/ plan = {}
           \/ /\ R # {}
              /\ \E promo \in Wallets : /\ promo \in PromoWallets(R)
                                        /\ plan = PlanOf(R, promo, sy)
                                        /\ GoodPlan(plan, R, promo, sy)
<1>1. CASE plan = {}
  BY <1>1
<1>2. CASE plan # {}
  <2>1. R # {} /\ \E promo \in Wallets : promo \in PromoWallets(R) /\ plan = PlanOf(R, promo, sy)
    BY <1>2, PlansArePlansOf
  <2>2. \A promo \in Wallets : GoodPlan(PlanOf(R, promo, sy), R, promo, sy)
    BY SyncPlan, ChunkPlan DEF PlanOf
  <2> QED
    BY <2>1, <2>2
<1> QED
  BY <1>1, <1>2

-----------------------------------------------------------------------------
(* Types. *)

LEMMA TypeInit == Init => TypeOK
<1> SUFFICES ASSUME Init PROVE TypeOK
  OBVIOUS
<1>1. part \in Payment /\ pay \in [Txs -> Payment]
  BY NothingIsPayment DEF Init
<1> QED
  BY <1>1 DEF Init, TypeOK

LEMMA OwedAreRows == Owed \subseteq Row
BY DEF Owed, Rows

LEMMA PlanIsPayments ==
    ASSUME NEW plan \in Plans(Owed, syncDrop), syncDrop \in BOOLEAN PROVE plan \subseteq Payment
BY OwedAreRows, PlanIsGood DEF GoodPlan

LEMMA BatchIsPayment ==
    ASSUME units \subseteq Payment, NEW B \in Batches(units, syncDrop) PROVE Total(B) \in Payment
<1>1. B \subseteq Payment
  BY BatchIsPart
<1> QED
  BY <1>1, TotalIsPayment

LEMMA TypeStep == TypeOK /\ [Next]_vars => TypeOK'
<1> SUFFICES ASSUME TypeOK, [Next]_vars PROVE TypeOK'
  OBVIOUS
<1> USE DEF TypeOK, rows, dropper, checker, chain, errors
<1>1. ASSUME NEW s \in Subs, Submit(s) PROVE TypeOK'
  BY <1>1 DEF Submit
<1>2. ASSUME NEW s \in Subs, Block(s) PROVE TypeOK'
  BY <1>2 DEF Block
<1>3. ASSUME NEW t \in Txs, Settle(t) PROVE TypeOK'
  BY <1>3 DEF Settle
<1>18. ASSUME NEW p \in Promoters, InsertMainWallet(p) PROVE TypeOK'
  <2>1. MainWallets \in [Promoters -> SUBSET Wallets]
    BY BoundAssumption
  <2>2. /\ mains' \in [Promoters -> SUBSET Wallets]
        /\ \A q \in Promoters : mains'[q] \subseteq MainWallets[q]
    <3>1. PICK w \in MainWallets[p] : mains' = [mains EXCEPT ![p] = @ \union {w}]
      BY <1>18 DEF InsertMainWallet
    <3>2. w \in Wallets
      BY <2>1, <3>1
    <3>3. mains \in [Promoters -> SUBSET Wallets] /\ mains[p] \union {w} \in SUBSET Wallets
      BY <3>2
    <3>4. mains' \in [Promoters -> SUBSET Wallets]
      BY <3>1, <3>3
    <3>5. \A q \in Promoters : mains'[q] = IF q = p THEN mains[p] \union {w} ELSE mains[q]
      BY <3>1, <3>3
    <3> QED
      BY <3>1, <3>4, <3>5
  <2> QED
    BY <1>18, <2>2 DEF InsertMainWallet
<1>4. CASE Drop
  BY <1>4 DEF Drop
<1>5. CASE DropAirdrop
  BY <1>5, PlanIsPayments DEF DropAirdrop, Continue
<1>6. CASE DropSend
  <2>1. PICK B \in Batches(units, syncDrop), t \in Txs :
          /\ Send(t, Total(B))
          /\ units' = units \ B
          /\ dpc' \in {"idle", "send", "update", "insert"}
          /\ part' \in {part, Total(B)}
          /\ dtx' \in {dtx, t}
    BY <1>6 DEF DropSend, Continue
  <2>2. Total(B) \in Payment
    BY BatchIsPayment
  <2>3. node' \in [Txs -> {"none", "pending", "ok", "reverted"}] /\ pay' \in [Txs -> Payment]
    BY <2>1, <2>2 DEF Send
  <2> QED
    BY <1>6, <2>1, <2>2, <2>3 DEF DropSend
<1>7. CASE DropSendLostAnswer
  <2>1. PICK B \in Batches(units, syncDrop), t \in Txs :
          Send(t, Total(B)) /\ units' = units \ B /\ dpc' = Continue(units \ B)
    BY <1>7 DEF DropSendLostAnswer
  <2>2. Total(B) \in Payment
    BY BatchIsPayment
  <2>3. node' \in [Txs -> {"none", "pending", "ok", "reverted"}] /\ pay' \in [Txs -> Payment]
    BY <2>1, <2>2 DEF Send
  <2> QED
    BY <1>7, <2>1, <2>3 DEF DropSendLostAnswer, Continue, Fault
<1>8. CASE DropSendRefused
  BY <1>8 DEF DropSendRefused, Continue
<1>9. CASE DropInsertTx
  BY <1>9, NothingIsPayment DEF DropInsertTx, Return, Continue, Fault
<1>10. CASE DropUpdateSubs
  BY <1>10, NothingIsPayment DEF DropUpdateSubs, Return, Continue, Fault
<1>11. ASSUME NEW t \in Txs, CheckReceipt(t) PROVE TypeOK'
  BY <1>11 DEF CheckReceipt
<1>12. CASE CheckTx
  BY <1>12 DEF CheckTx
<1>13. CASE CheckSubs
  <2>1. settled' \in [Subs -> BOOLEAN]
    BY <1>13, Zenon DEF CheckSubs
  <2>2. status' \in [Subs -> {"none", "new", "sent", "done", "failed"}]
    BY <1>13 DEF CheckSubs
  <2>3. cpc' \in {"idle", "tx", "subs", "count"} /\ ctx' \in Txs \union {NoTx}
    BY <1>13 DEF CheckSubs, CheckEnds
  <2>4. UNCHANGED <<subTx, blocked, mains, syncDrop, txRow, chain, dropper, counted, errors>>
    BY <1>13 DEF CheckSubs
  <2> QED
    BY <2>1, <2>2, <2>3, <2>4
<1>14. CASE CheckCount
  BY <1>14 DEF CheckCount, CheckEnds
<1>15. CASE AirdropTXRecycle
  BY <1>15 DEF AirdropTXRecycle
<1>16. CASE Crash
  BY <1>16, NothingIsPayment DEF Crash, Fault
<1>17. CASE UNCHANGED vars
  BY <1>17 DEF vars
<1> QED
  BY <1>1, <1>2, <1>3, <1>4, <1>5, <1>6, <1>7, <1>8, <1>9, <1>10, <1>11, <1>12,
     <1>13, <1>14, <1>15, <1>16, <1>17, <1>18 DEF Next, DropperStep, CheckerStep

-----------------------------------------------------------------------------
(* What a step may do to the chain and to the submissions. *)

(* A transaction stays on the chain with its payment, and settles once. *)
ChainKept ==
    \A t \in Txs :
        /\ node[t] # "none" => node'[t] # "none" /\ pay'[t] = pay[t]
        /\ node[t] \in {"ok", "reverted"} => node'[t] = node[t]

LEMMA ChainStep == TypeOK /\ [Next]_vars => ChainKept
<1> SUFFICES ASSUME TypeOK, [Next]_vars PROVE ChainKept
  OBVIOUS
<1>1. CASE \E t \in Txs : \E B : Send(t, Total(B))
  BY <1>1 DEF ChainKept, Send, TypeOK
<1>2. CASE \E t \in Txs : Settle(t)
  BY <1>2 DEF ChainKept, Settle, TypeOK
<1>3. CASE UNCHANGED chain
  BY <1>3 DEF ChainKept, chain
<1>4. \/ \E t \in Txs : \E B : Send(t, Total(B))
      \/ \E t \in Txs : Settle(t)
      \/ UNCHANGED chain
  <2>1. CASE DropperStep
    BY <2>1 DEF DropperStep, Drop, DropAirdrop, DropSend, DropSendLostAnswer,
                DropSendRefused, DropInsertTx, DropUpdateSubs
  <2>2. CASE CheckerStep
    BY <2>2 DEF CheckerStep, CheckReceipt, CheckTx, CheckSubs, CheckCount
  <2>3. CASE \/ \E s \in Subs : Submit(s) \/ Block(s)
             \/ \E p \in Promoters : InsertMainWallet(p)
    BY <2>3 DEF Submit, Block, InsertMainWallet
  <2>4. CASE AirdropTXRecycle \/ Crash \/ UNCHANGED vars
    BY <2>4 DEF AirdropTXRecycle, Crash, vars
  <2> QED
    BY <2>1, <2>2, <2>3, <2>4 DEF Next
<1> QED
  BY <1>1, <1>2, <1>3, <1>4

(* Main wallets are only ever added, and sync_drop is not changed. *)
LEMMA MainsStep ==
    ASSUME TypeOK, [Next]_vars
    PROVE  /\ syncDrop' = syncDrop
           /\ \A p \in Promoters : mains[p] \subseteq mains'[p]
<1>1. CASE DropperStep
  BY <1>1 DEF DropperStep, Drop, DropAirdrop, DropSend, DropSendLostAnswer,
              DropSendRefused, DropInsertTx, DropUpdateSubs
<1>2. CASE CheckerStep
  BY <1>2 DEF CheckerStep, CheckReceipt, CheckTx, CheckSubs, CheckCount
<1>3. CASE (\E s \in Subs : Submit(s) \/ Block(s)) \/ \E t \in Txs : Settle(t)
  BY <1>3 DEF Submit, Block, Settle
<1>4. CASE AirdropTXRecycle \/ Crash \/ UNCHANGED vars
  BY <1>4 DEF AirdropTXRecycle, Crash, vars
<1>5. ASSUME NEW p \in Promoters, InsertMainWallet(p)
      PROVE  /\ syncDrop' = syncDrop
             /\ \A q \in Promoters : mains[q] \subseteq mains'[q]
  BY <1>5 DEF InsertMainWallet, TypeOK
<1> QED
  BY <1>1, <1>2, <1>3, <1>4, <1>5 DEF Next

LEMMA MainsFinite ==
    ASSUME TypeOK, NEW s \in Subs
    PROVE  /\ Mains(s) \subseteq Wallets /\ IsFiniteSet(Mains(s)) /\ Cardinality(Mains(s)) \in Nat
<1>1. Mains(s) \subseteq Wallets
  BY PlanConstants DEF TypeOK, Mains
<1>2. IsFiniteSet(Mains(s))
  BY <1>1, PlanConstants, FS_Subset
<1> QED
  BY <1>1, <1>2, FS_CardinalityType

LEMMA MainsGrow ==
    ASSUME TypeOK, [Next]_vars, NEW s \in Subs
    PROVE  /\ Mains(s) \subseteq Mains(s)'
           /\ IsFiniteSet(Mains(s)') /\ Cardinality(Mains(s)') \in Nat
           /\ Cardinality(Mains(s)) <= Cardinality(Mains(s)')
           /\ Single(s)' => Single(s)
<1>1. Mains(s) \subseteq Mains(s)' /\ syncDrop' = syncDrop
  BY MainsStep, PlanConstants DEF Mains
<1>2. TypeOK'
  BY TypeStep
<1>3. IsFiniteSet(Mains(s)') /\ Cardinality(Mains(s)') \in Nat
  <2>1. Mains(s)' \subseteq Wallets
    BY <1>2, PlanConstants DEF TypeOK, Mains
  <2>2. IsFiniteSet(Mains(s)')
    BY <2>1, PlanConstants, FS_Subset
  <2> QED
    BY <2>2, FS_CardinalityType
<1>4. Cardinality(Mains(s)) <= Cardinality(Mains(s)')
  BY <1>1, <1>3, FS_Subset
<1>5. Single(s)' => Single(s)
  <2>1. Cardinality(Mains(s)') <= 1 => Cardinality(Mains(s)) <= 1
    BY <1>3, <1>4, MainsFinite
  <2> QED
    BY <1>1, <2>1 DEF Single
<1> QED
  BY <1>1, <1>3, <1>4, <1>5

(* Three steps write submissions; every other one leaves the rows alone. *)
LEMMA RowsStep ==
    [Next]_vars =>
        \/ UNCHANGED rows
        \/ \E s \in Subs : Submit(s)
        \/ DropUpdateSubs
        \/ CheckSubs
<1> SUFFICES ASSUME [Next]_vars, ~DropUpdateSubs, ~CheckSubs,
                    ~\E s \in Subs : Submit(s)
             PROVE  UNCHANGED rows
  OBVIOUS
<1>1. CASE DropperStep
  BY <1>1 DEF DropperStep, Drop, DropAirdrop, DropSend, DropSendLostAnswer,
              DropSendRefused, DropInsertTx
<1>2. CASE CheckerStep
  BY <1>2 DEF CheckerStep, CheckReceipt, CheckTx, CheckCount
<1>3. CASE \/ \E s \in Subs : Block(s)
           \/ \E t \in Txs : Settle(t)
           \/ \E p \in Promoters : InsertMainWallet(p)
  BY <1>3 DEF Block, Settle, InsertMainWallet
<1>4. CASE AirdropTXRecycle \/ Crash \/ UNCHANGED vars
  BY <1>4 DEF AirdropTXRecycle, Crash, vars
<1> QED
  BY <1>1, <1>2, <1>3, <1>4 DEF Next

InHands(s) == s \in GivenTo(part) \/ \E u \in units : s \in GivenTo(u)

(* What the dropper holds of a submission with one row is still owed, and  *)
(* it holds it once.                                                       *)
OnceInHands(s) ==
    /\ InHands(s) => status[s] \in {"new", "failed"}
    /\ \A u \in units : s \in GivenTo(u) =>
          s \notin GivenTo(part) /\ \A v \in units : s \in GivenTo(v) => u = v

(* No payment of a pass repeats a row of another. *)
HandsInv ==
    /\ \A u, v \in units : u # v => u.give \intersect v.give = {} /\ u.bonus \intersect v.bonus = {}
    /\ \A s \in Subs : InHands(s) => status[s] # "none"
    /\ \A s \in Subs : Single(s) => OnceInHands(s)

(* The transaction the dropper is about to record is on the chain and      *)
(* recorded nowhere.                                                       *)
SendInv ==
    /\ dpc \in {"insert", "update"} =>
          /\ dtx \in Txs
          /\ node[dtx] # "none"
          /\ part.give \subseteq pay[dtx].give
          /\ Filed(dtx) = {}
    /\ dpc \notin {"insert", "update"} => part = Nothing
    /\ dpc \in {"idle", "found"} => units = {}
    /\ \A t \in Txs : node[t] = "none" => pay[t] = Nothing

DropperInv == HandsInv /\ SendInv

(* A submission with a hash was sent in that transaction, and all that     *)
(* share a hash share a status.                                            *)
FiledInv ==
    \A s \in Subs :
        /\ subTx[s] = NoTx <=> status[s] \in {"none", "new"}
        /\ subTx[s] # NoTx =>
              /\ node[subTx[s]] # "none"
              /\ s \in GivenTo(pay[subTx[s]])
              /\ status[s] = "sent" \/ settled[s]
              /\ \A r \in Subs : subTx[r] = subTx[s] => status[r] = status[s]
        /\ status[s] = "done" => node[subTx[s]] = "ok"
        /\ status[s] = "failed" => node[subTx[s]] = "reverted"

(* The checker works on one settled transaction, which the dropper does    *)
(* not hold and whose submissions nobody else settles.                     *)
CheckerInv ==
    /\ cpc # "idle" =>
          /\ ctx \in Txs /\ counted[ctx] = 0
          /\ dpc \in {"insert", "update"} => dtx # ctx
    /\ cpc \in {"tx", "subs"} =>
          /\ node[ctx] \in {"ok", "reverted"}
          /\ \A s \in Filed(ctx) : status[s] = "sent"
    /\ cpc = "count" =>
          /\ node[ctx] = "ok"
          /\ \A s \in Filed(ctx) : status[s] = "done"

(* A counted transaction gets no new submissions, and what it still has    *)
(* are done.                                                               *)
CountInv ==
    \A t \in Txs : counted[t] > 0 =>
        /\ counted[t] = 1
        /\ node[t] = "ok"
        /\ dpc \in {"insert", "update"} => dtx # t
        /\ \A s \in Filed(t) : status[s] = "done"

IInv == TypeOK /\ DropperInv /\ FiledInv /\ CheckerInv /\ CountInv

-----------------------------------------------------------------------------
(* What the two updates do, errors included. *)
LEMMA UpdateEffect ==
    ASSUME TypeOK, DropperInv, DropUpdateSubs
    PROVE  /\ dtx \in Txs /\ Filed(dtx) = {} /\ settled' = settled
           /\ \/ \A s \in Subs : IF s \in GivenTo(part)
                               THEN status'[s] = "sent" /\ subTx'[s] = dtx
                               ELSE status'[s] = status[s] /\ subTx'[s] = subTx[s]
              \/ UNCHANGED rows
BY DEF DropUpdateSubs, DropperInv, SendInv, TypeOK, rows

LEMMA SettleEffect ==
    ASSUME TypeOK, CheckerInv, CheckSubs
    PROVE  /\ ctx \in Txs /\ subTx' = subTx
           /\ node[ctx] \in {"ok", "reverted"}
           /\ \A s \in Filed(ctx) : status[s] = "sent"
           /\ \/ \A s \in Subs :
                    IF subTx[s] = ctx
                    THEN settled'[s] /\ status'[s] = IF node[ctx] = "ok" THEN "done" ELSE "failed"
                    ELSE settled'[s] = settled[s] /\ status'[s] = status[s]
              \/ UNCHANGED rows
<1>1. ctx \in Txs /\ subTx' = subTx /\ node[ctx] \in {"ok", "reverted"}
      /\ \A s \in Filed(ctx) : status[s] = "sent"
  BY DEF CheckSubs, CheckerInv
<1>2. CASE UNCHANGED <<status, settled>>
  BY <1>1, <1>2 DEF rows
<1>3. CASE ~UNCHANGED <<status, settled>>
  <2>1. /\ status' = [s \in Subs |-> IF s \notin Filed(ctx) THEN status[s]
                                     ELSE IF node[ctx] = "ok" THEN "done" ELSE "failed"]
        /\ settled' = [s \in Subs |-> settled[s] \/ s \in Filed(ctx)]
    BY <1>3 DEF CheckSubs
  <2>2. \A s \in Subs : s \in Filed(ctx) <=> subTx[s] = ctx
    BY DEF Filed
  <2>3. \A s \in Subs : settled'[s] = (settled[s] \/ s \in Filed(ctx))
    BY <2>1, Zenon
  <2>4. \A s \in Subs : subTx[s] # ctx => settled'[s] = settled[s]
    BY <2>2, <2>3, Zenon DEF TypeOK
  <2>5. \A s \in Subs : subTx[s] = ctx => settled'[s]
    BY <2>2, <2>3, Zenon
  <2>6. \A s \in Subs : status'[s] = IF subTx[s] # ctx THEN status[s]
                                     ELSE IF node[ctx] = "ok" THEN "done" ELSE "failed"
    BY <2>1, <2>2
  <2> QED
    BY <1>1, <2>4, <2>5, <2>6
<1> QED
  BY <1>2, <1>3

(* The transaction of a send is new to the chain, and carries its batch.   *)
LEMMA SendEffect ==
    ASSUME TypeOK, NEW t \in Txs, NEW p \in Payment, Send(t, p)
    PROVE  /\ node[t] = "none" /\ node'[t] = "pending" /\ pay'[t] = p
           /\ \A u \in Txs : u # t => node'[u] = node[u] /\ pay'[u] = pay[u]
BY DEF Send, TypeOK

(* A step of the dropper that sends: the batch leaves what is planned.     *)
LEMMA DropSendEffect ==
    ASSUME TypeOK, DropSend
    PROVE  \E B \in Batches(units, syncDrop), t \in Txs :
              /\ Send(t, Total(B)) /\ Total(B) \in Payment /\ B \subseteq units
              /\ units' = units \ B
              /\ \/ /\ dpc' = Continue(units \ B) /\ part' = part /\ dtx' = dtx
                    /\ Total(B).give = {} /\ syncDrop
                 \/ dpc' \in {"insert", "update"} /\ part' = Total(B) /\ dtx' = t
<1>1. PICK B \in Batches(units, syncDrop), t \in Txs :
              /\ Send(t, Total(B))
              /\ units' = units \ B
              /\ \/ /\ dpc' = Continue(units \ B) /\ part' = part /\ dtx' = dtx
                    /\ Total(B).give = {} /\ syncDrop
                 \/ dpc' \in {"insert", "update"} /\ part' = Total(B) /\ dtx' = t
  BY DEF DropSend
<1>2. Total(B) \in Payment /\ B \subseteq units
  BY BatchIsPart, BatchIsPayment DEF TypeOK
<1> QED
  BY <1>1, <1>2

-----------------------------------------------------------------------------
(* The inductive invariant. *)

LEMMA InvInit == Init => IInv
<1> SUFFICES ASSUME Init PROVE IInv
  OBVIOUS
<1>1. TypeOK
  BY TypeInit
<1>2. DropperInv
  BY NothingIsPayment DEF Init, DropperInv, SendInv, HandsInv, InHands, OnceInHands
<1>3. FiledInv
  BY DEF Init, FiledInv
<1>4. CheckerInv /\ CountInv
  BY DEF Init, CheckerInv, CountInv
<1> QED
  BY <1>1, <1>2, <1>3, <1>4 DEF IInv

LEMMA FiledStep == IInv /\ [Next]_vars => FiledInv'
<1> SUFFICES ASSUME IInv, [Next]_vars PROVE FiledInv'
  OBVIOUS
<1> USE DEF IInv
<1>1. ChainKept
  BY ChainStep
<1>2. \A s \in Subs : subTx[s] # NoTx => subTx[s] \in Txs
  BY DEF TypeOK
<1>3. CASE UNCHANGED rows
  BY <1>1, <1>2, <1>3 DEF rows, FiledInv, ChainKept
<1>4. ASSUME NEW s \in Subs, Submit(s) PROVE FiledInv'
  BY <1>4 DEF Submit, FiledInv, TypeOK, chain
<1>5. CASE DropUpdateSubs
  <2>1. UNCHANGED chain /\ dtx # NoTx /\ node[dtx] # "none" /\ part.give \subseteq pay[dtx].give
    BY <1>5, TxsFacts DEF DropUpdateSubs, DropperInv, SendInv
  <2>2. \A s \in Subs : subTx[s] # dtx
    BY <1>5, UpdateEffect DEF Filed
  <2>3. CASE \A s \in Subs : IF s \in GivenTo(part)
                             THEN status'[s] = "sent" /\ subTx'[s] = dtx
                             ELSE status'[s] = status[s] /\ subTx'[s] = subTx[s]
    <3> SUFFICES ASSUME NEW s \in Subs
                 PROVE  /\ subTx'[s] = NoTx <=> status'[s] \in {"none", "new"}
                        /\ subTx'[s] # NoTx =>
                              /\ node'[subTx'[s]] # "none"
                              /\ s \in GivenTo(pay'[subTx'[s]])
                              /\ status'[s] = "sent" \/ settled'[s]
                              /\ \A r \in Subs : subTx'[r] = subTx'[s] => status'[r] = status'[s]
                        /\ status'[s] = "done" => node'[subTx'[s]] = "ok"
                        /\ status'[s] = "failed" => node'[subTx'[s]] = "reverted"
      BY DEF FiledInv, GivenTo
    <3>0. settled' = settled /\ node' = node /\ pay' = pay
      BY <1>5, <2>1, UpdateEffect DEF chain
    <3>1. CASE s \in GivenTo(part)
      <4>1. status'[s] = "sent" /\ subTx'[s] = dtx
        BY <2>3, <3>1
      <4>2. \A r \in Subs : subTx'[r] = dtx => status'[r] = "sent"
        BY <2>2, <2>3
      <4>3. s \in GivenTo(pay[dtx])
        BY <2>1, <3>1 DEF GivenTo
      <4> QED
        BY <2>1, <3>0, <4>1, <4>2, <4>3
    <3>2. CASE s \notin GivenTo(part)
      <4>1. status'[s] = status[s] /\ subTx'[s] = subTx[s]
        BY <2>3, <3>2
      <4>2. \A r \in Subs : subTx'[r] = subTx[s] => subTx[r] = subTx[s] /\ status'[r] = status[r]
        BY <2>2, <2>3
      <4> QED
        BY <3>0, <4>1, <4>2 DEF FiledInv
    <3> QED
      BY <3>1, <3>2
  <2> QED
    BY <1>3, <1>5, <2>3, UpdateEffect
<1>6. CASE CheckSubs
  <2>1. UNCHANGED chain
    BY <1>6 DEF CheckSubs
  <2>2. CASE \A s \in Subs :
               IF subTx[s] = ctx
               THEN settled'[s] /\ status'[s] = IF node[ctx] = "ok" THEN "done" ELSE "failed"
               ELSE settled'[s] = settled[s] /\ status'[s] = status[s]
    <3>1. /\ subTx' = subTx /\ ctx # NoTx
          /\ node[ctx] \in {"ok", "reverted"} /\ node' = node /\ pay' = pay
      BY <1>6, <2>1, SettleEffect, TxsFacts DEF chain
    <3>2. \A s \in Subs : subTx[s] = ctx => status'[s] \in {"done", "failed"}
      BY <2>2
    <3> QED
      BY <2>2, <3>1, <3>2 DEF FiledInv
  <2> QED
    BY <1>3, <1>6, <2>2, SettleEffect
<1> QED
  BY <1>3, <1>4, <1>5, <1>6, RowsStep

(* Only recording a payment touches what is owed. *)
LEMMA OwedKept ==
    ASSUME IInv, [Next]_vars, ~DropUpdateSubs
    PROVE  /\ subTx' = subTx
           /\ \A s \in Subs : status[s] \in {"new", "failed"} => status'[s] = status[s]
           /\ \A s \in Subs : status[s] # "none" => status'[s] # "none"
<1>1. CASE UNCHANGED rows
  BY <1>1 DEF rows
<1>2. ASSUME NEW s \in Subs, Submit(s)
      PROVE  /\ subTx' = subTx
             /\ \A r \in Subs : status[r] \in {"new", "failed"} => status'[r] = status[r]
             /\ \A r \in Subs : status[r] # "none" => status'[r] # "none"
  BY <1>2 DEF Submit, IInv, TypeOK
<1>3. CASE CheckSubs
  <2>1. \A s \in Subs : subTx[s] = ctx => status[s] = "sent"
    BY <1>3, SettleEffect DEF IInv, Filed
  <2>2. \A s \in Subs : status[s] # "none" => status'[s] # "none"
    BY <1>1, <1>3, SettleEffect DEF IInv, rows
  <2> QED
    BY <1>1, <1>3, <2>1, <2>2, SettleEffect DEF IInv
<1> QED
  BY <1>1, <1>2, <1>3, RowsStep

(* The plan of a pass: what it pays is owed, and a submission with one row *)
(* gets one payment.                                                       *)
LEMMA PlanHands ==
    ASSUME TypeOK, NEW plan \in Plans(Owed, syncDrop)
    PROVE  /\ \A u, v \in plan : u # v => u.give \intersect v.give = {} /\ u.bonus \intersect v.bonus = {}
           /\ \A u \in plan : \A s \in GivenTo(u) :
                 s \in Subs /\ status[s] \in {"new", "failed"} /\ ~blocked[s]
           /\ \A s \in Subs : Single(s) =>
                 \A u, v \in plan : s \in GivenTo(u) /\ s \in GivenTo(v) => u = v
<1>1. CASE plan = {}
  BY <1>1
<1>2. CASE plan # {}
  <2>1. PICK promo \in Wallets : GoodPlan(plan, Owed, promo, syncDrop)
    BY <1>2, OwedAreRows, PlanIsGood DEF TypeOK
  <2>2. \A r \in Owed : r[1] \in Subs /\ status[r[1]] \in {"new", "failed"} /\ ~blocked[r[1]]
                        /\ r[2] \in Mains(r[1]) /\ r = <<r[1], r[2]>>
    BY DEF Owed, Rows, Row
  <2>3. \A u \in plan : u.give \subseteq Owed
    BY <2>1 DEF GoodPlan
  <2>4. \A u \in plan : \A s \in GivenTo(u) :
                 s \in Subs /\ status[s] \in {"new", "failed"} /\ ~blocked[s]
    BY <2>2, <2>3 DEF GivenTo
  <2>5. \A u, v \in plan : u # v => u.give \intersect v.give = {} /\ u.bonus \intersect v.bonus = {}
    BY <2>1 DEF GoodPlan
  <2>6. ASSUME NEW s \in Subs, Single(s), NEW u \in plan, NEW v \in plan,
               s \in GivenTo(u), s \in GivenTo(v)
        PROVE  u = v
    <3>1. CASE ~syncDrop
      BY <2>1, <2>6, <3>1 DEF GoodPlan
    <3>2. CASE syncDrop
      <4>1. PICK r \in u.give : r[1] = s
        BY <2>6 DEF GivenTo
      <4>2. PICK q \in v.give : q[1] = s
        BY <2>6 DEF GivenTo
      <4>3. r \in Owed /\ q \in Owed /\ r[2] \in Mains(s) /\ q[2] \in Mains(s)
        BY <2>2, <2>3, <4>1, <4>2
      <4>4. r[2] = q[2]
        <5>1. IsFiniteSet(Mains(s)) /\ Cardinality(Mains(s)) \in Nat
          BY MainsFinite
        <5>2. Cardinality(Mains(s)) <= 1
          BY <2>6, <3>2 DEF Single
        <5>3. Cardinality(Mains(s)) = 0 \/ Cardinality(Mains(s)) = 1
          BY <5>1, <5>2
        <5>4. Mains(s) # {}
          BY <4>3
        <5>5. Cardinality(Mains(s)) # 0
          BY <5>1, <5>4, FS_EmptySet, Zenon
        <5>6. \E x : Mains(s) = {x}
          BY <5>1, <5>3, <5>5, FS_Singleton, Zenon
        <5> QED
          BY <4>3, <5>6
      <4>5. r = q
        BY <2>2, <4>1, <4>2, <4>3, <4>4
      <4> QED
        BY <2>5, <4>1, <4>2, <4>5
    <3> QED
      BY <3>1, <3>2
  <2> QED
    BY <2>4, <2>5, <2>6
<1> QED
  BY <1>1, <1>2

(* A step that only takes something out of the dropper's hands. *)
LEMMA LessInHands ==
    ASSUME IInv, [Next]_vars, units' \subseteq units,
           part' = part \/ GivenTo(part)' = {}, ~DropUpdateSubs
    PROVE  HandsInv'
<1>1. \A s \in Subs : InHands(s)' => InHands(s)
  BY DEF InHands
<1>2. /\ \A s \in Subs : status[s] # "none" => status'[s] # "none"
      /\ \A s \in Subs : status[s] \in {"new", "failed"} => status'[s] = status[s]
  BY OwedKept
<1>3. \A s \in Subs : Single(s)' => Single(s)
  BY MainsGrow DEF IInv
<1>4. \A s \in Subs : GivenTo(part)' = GivenTo(part) \/ s \notin GivenTo(part)'
  OBVIOUS
<1>5. HandsInv
  BY DEF IInv, DropperInv
<1>6. \A s \in Subs : Single(s)' => OnceInHands(s)'
  <2> SUFFICES ASSUME NEW s \in Subs, Single(s)' PROVE OnceInHands(s)'
    OBVIOUS
  <2>1. OnceInHands(s)
    BY <1>3, <1>5 DEF HandsInv
  <2>2. InHands(s)' => status'[s] \in {"new", "failed"}
    BY <1>1, <1>2, <2>1 DEF OnceInHands
  <2>3. \A u \in units' : s \in GivenTo(u) =>
          s \notin GivenTo(part)' /\ \A v \in units' : s \in GivenTo(v) => u = v
    BY <1>4, <2>1 DEF OnceInHands
  <2> QED
    BY <2>2, <2>3 DEF OnceInHands, GivenTo
<1>7. \A s \in Subs : InHands(s)' => status'[s] # "none"
  BY <1>1, <1>2, <1>5 DEF HandsInv
<1>8. \A u, v \in units' : u # v => u.give \intersect v.give = {} /\ u.bonus \intersect v.bonus = {}
  BY <1>5 DEF HandsInv
<1> QED
  BY <1>6, <1>7, <1>8 DEF HandsInv

LEMMA HandsInvStep == IInv /\ [Next]_vars => HandsInv'
<1> SUFFICES ASSUME IInv, [Next]_vars PROVE HandsInv'
  OBVIOUS
<1>0. TypeOK /\ HandsInv /\ SendInv
  BY DEF IInv, DropperInv
<1>1. CASE UNCHANGED <<units, part>> /\ ~DropUpdateSubs
  BY <1>1, LessInHands
<1>2. CASE DropAirdrop
  <2>1. /\ units' \in Plans(Owed, syncDrop) /\ status' = status /\ part' = Nothing
        /\ \A s \in Subs : Single(s)' <=> Single(s)
    BY <1>0, <1>2 DEF DropAirdrop, SendInv, rows, Single, Mains
  <2>2. /\ \A u, v \in units' : u # v => u.give \intersect v.give = {} /\ u.bonus \intersect v.bonus = {}
        /\ \A u \in units' : \A s \in GivenTo(u) : s \in Subs /\ status[s] \in {"new", "failed"}
        /\ \A s \in Subs : Single(s) =>
              \A u, v \in units' : s \in GivenTo(u) /\ s \in GivenTo(v) => u = v
    BY <1>0, <2>1, PlanHands
  <2>3. \A s \in Subs : InHands(s)' => status[s] \in {"new", "failed"}
    BY <2>1, <2>2, NothingIsPayment DEF InHands, GivenTo
  <2>4. GivenTo(part)' = {}
    BY <2>1, NothingIsPayment DEF GivenTo
  <2>5. \A s \in Subs : Single(s) => OnceInHands(s)'
    BY <2>1, <2>2, <2>3, <2>4 DEF OnceInHands, GivenTo
  <2> QED
    BY <2>1, <2>2, <2>3, <2>5 DEF HandsInv
<1>3. CASE DropSend
  <2>1. PICK B \in Batches(units, syncDrop), t \in Txs :
              /\ B \subseteq units /\ units' = units \ B
              /\ \/ part' = part /\ Total(B).give = {}
                 \/ part' = Total(B)
    BY <1>0, <1>3, DropSendEffect
  <2>2. part = Nothing /\ status' = status /\ \A s \in Subs : Single(s)' <=> Single(s)
    BY <1>0, <1>3 DEF DropSend, SendInv, rows, Single, Mains
  <2>3. GivenTo(part) = {}
    BY <2>2, NothingIsPayment
  <2>4. \A s : s \in GivenTo(part)' <=> \E u \in B : s \in GivenTo(u)
    <3>1. GivenTo(part)' = GivenTo(part')
      BY DEF GivenTo
    <3>2. \A s : s \in GivenTo(Total(B)) <=> \E u \in B : s \in GivenTo(u)
      BY TotalGivenTo
    <3>3. Total(B).give = {} => GivenTo(Total(B)) = {}
      BY DEF GivenTo
    <3> QED
      BY <2>1, <2>3, <3>1, <3>2, <3>3
  <2>5. \A s \in Subs : InHands(s)' <=> InHands(s)
    <3>1. \A s \in Subs : InHands(s) <=> \E u \in units : s \in GivenTo(u)
      BY <2>3 DEF InHands
    <3>2. \A s \in Subs : InHands(s)' <=> s \in GivenTo(part)' \/ \E u \in units \ B : s \in GivenTo(u)
      BY <2>1 DEF InHands, GivenTo
    <3> QED
      BY <2>1, <2>4, <3>1, <3>2
  <2>6. ASSUME NEW s \in Subs, Single(s)' PROVE OnceInHands(s)'
    <3>1. OnceInHands(s)
      BY <1>0, <2>2, <2>6 DEF HandsInv
    <3>2. \A u, v \in units : s \in GivenTo(u) /\ s \in GivenTo(v) => u = v
      BY <3>1 DEF OnceInHands
    <3>3. \A u \in units' : s \in GivenTo(u) => s \notin GivenTo(part)'
      BY <2>1, <2>4, <3>2
    <3>4. InHands(s)' => status'[s] \in {"new", "failed"}
      BY <2>2, <2>5, <3>1 DEF OnceInHands
    <3>5. \A u, v \in units' : s \in GivenTo(u) /\ s \in GivenTo(v) => u = v
      BY <2>1, <3>2
    <3> QED
      BY <3>3, <3>4, <3>5 DEF OnceInHands, GivenTo
  <2>7. \A s \in Subs : InHands(s)' => status'[s] # "none"
    BY <1>0, <2>2, <2>5 DEF HandsInv
  <2>8. \A u, v \in units' : u # v => u.give \intersect v.give = {} /\ u.bonus \intersect v.bonus = {}
    BY <1>0, <2>1 DEF HandsInv
  <2> QED
    BY <2>6, <2>7, <2>8 DEF HandsInv
<1>4. CASE DropUpdateSubs
  <2>1. part' = Nothing /\ units' = units
    BY <1>4 DEF DropUpdateSubs, Return
  <2>2. \A s \in Subs : s \notin GivenTo(part) => status'[s] = status[s]
    BY <1>4, UpdateEffect DEF rows, IInv
  <2>3. \A s \in Subs : s \in GivenTo(part) => status'[s] \in {"sent", status[s]}
    BY <1>4, UpdateEffect DEF rows, IInv
  <2>4. GivenTo(part)' = {}
    BY <2>1, NothingIsPayment DEF GivenTo
  <2>5. \A s \in Subs : InHands(s)' <=> \E u \in units : s \in GivenTo(u)
    BY <2>1, <2>4 DEF InHands, GivenTo
  <2>6. \A s \in Subs : InHands(s)' => status'[s] # "none"
    BY <1>0, <2>2, <2>3, <2>5 DEF HandsInv, InHands
  <2>7. ASSUME NEW s \in Subs, Single(s)' PROVE OnceInHands(s)'
    <3>1. OnceInHands(s)
      BY <1>0, <2>7, MainsGrow DEF HandsInv
    <3>2. InHands(s)' => status'[s] \in {"new", "failed"}
      BY <2>2, <2>5, <3>1 DEF OnceInHands, InHands
    <3>3. \A u, v \in units' : s \in GivenTo(u) /\ s \in GivenTo(v) => u = v
      BY <2>1, <3>1 DEF OnceInHands
    <3> QED
      BY <2>4, <3>2, <3>3 DEF OnceInHands, GivenTo
  <2> QED
    BY <1>0, <2>1, <2>6, <2>7 DEF HandsInv
<1>5. CASE DropSendLostAnswer \/ DropSendRefused \/ Crash \/ DropInsertTx
  <2>1. units' \subseteq units /\ (part' = part \/ part' = Nothing)
    BY <1>5 DEF DropSendLostAnswer, DropSendRefused, Crash, DropInsertTx, Return
  <2>3. part' = Nothing => GivenTo(part)' = {}
    BY NothingIsPayment DEF GivenTo
  <2> QED
    BY <1>4, <2>1, <2>3, LessInHands
<1>6. CASE Drop \/ CheckerStep \/ (\E s \in Subs : Submit(s) \/ Block(s))
           \/ (\E t \in Txs : Settle(t)) \/ (\E p \in Promoters : InsertMainWallet(p))
           \/ AirdropTXRecycle \/ UNCHANGED vars
  <2>1. UNCHANGED <<units, part>>
    <3>1. CASE CheckerStep
      BY <3>1 DEF CheckerStep, CheckReceipt, CheckTx, CheckSubs, CheckCount, dropper
    <3>2. CASE \/ \E s \in Subs : Submit(s) \/ Block(s)
               \/ \E t \in Txs : Settle(t)
               \/ \E p \in Promoters : InsertMainWallet(p)
      BY <3>2 DEF Submit, Block, Settle, InsertMainWallet, dropper
    <3>3. CASE Drop \/ AirdropTXRecycle \/ UNCHANGED vars
      BY <3>3 DEF Drop, AirdropTXRecycle, vars, dropper
    <3> QED
      BY <1>6, <3>1, <3>2, <3>3
  <2> QED
    BY <1>1, <1>4, <2>1
<1> QED
  BY <1>2, <1>3, <1>5, <1>4, <1>6 DEF Next, DropperStep

LEMMA SendInvStep == IInv /\ [Next]_vars => SendInv'
<1> SUFFICES ASSUME IInv, [Next]_vars PROVE SendInv'
  OBVIOUS
<1>0. TypeOK /\ SendInv /\ FiledInv /\ ChainKept
  BY ChainStep DEF IInv, DropperInv
(* What is not on the chain pays nothing.                                  *)
<1>1. \A t \in Txs : node'[t] = "none" => pay'[t] = Nothing
  <2>1. CASE UNCHANGED chain
    BY <1>0, <2>1 DEF SendInv, chain
  <2>2. CASE \E t \in Txs : \E B : Send(t, Total(B))
    BY <1>0, <2>2 DEF SendInv, Send, TypeOK
  <2>3. CASE \E t \in Txs : Settle(t)
    BY <1>0, <2>3 DEF SendInv, Settle, TypeOK
  <2>4. \/ UNCHANGED chain
        \/ \E t \in Txs : \E B : Send(t, Total(B))
        \/ \E t \in Txs : Settle(t)
    <3>1. CASE DropperStep
      BY <3>1 DEF DropperStep, Drop, DropAirdrop, DropSend, DropSendLostAnswer,
                  DropSendRefused, DropInsertTx, DropUpdateSubs
    <3>2. CASE CheckerStep
      BY <3>2 DEF CheckerStep, CheckReceipt, CheckTx, CheckSubs, CheckCount
    <3>3. CASE \/ \E s \in Subs : Submit(s) \/ Block(s)
               \/ \E p \in Promoters : InsertMainWallet(p)
      BY <3>3 DEF Submit, Block, InsertMainWallet
    <3>4. CASE AirdropTXRecycle \/ Crash \/ UNCHANGED vars
      BY <3>4 DEF AirdropTXRecycle, Crash, vars
    <3> QED
      BY <3>1, <3>2, <3>3, <3>4 DEF Next
  <2> QED
    BY <2>1, <2>2, <2>3, <2>4
<1>2. CASE UNCHANGED dropper /\ ~DropUpdateSubs
  <2>1. subTx' = subTx
    BY <1>2, OwedKept
  <2>2. dpc' \in {"insert", "update"} =>
          /\ dtx' \in Txs /\ node'[dtx'] # "none" /\ part'.give \subseteq pay'[dtx'].give
          /\ Filed(dtx)' = {}
    BY <1>0, <1>2, <2>1 DEF dropper, SendInv, Filed, ChainKept
  <2> QED
    BY <1>0, <1>1, <1>2, <2>2 DEF dropper, SendInv
<1>3. CASE Drop
  BY <1>0, <1>1, <1>3 DEF Drop, SendInv
<1>4. CASE DropAirdrop
  BY <1>0, <1>1, <1>4 DEF DropAirdrop, SendInv, Continue
<1>5. CASE DropSend
  <2>1. PICK B \in Batches(units, syncDrop), t \in Txs :
              /\ Send(t, Total(B)) /\ Total(B) \in Payment
              /\ units' = units \ B
              /\ \/ dpc' = Continue(units \ B) /\ part' = part
                 \/ dpc' \in {"insert", "update"} /\ part' = Total(B) /\ dtx' = t
    BY <1>0, <1>5, DropSendEffect
  <2>2. part = Nothing /\ UNCHANGED rows
    BY <1>0, <1>5 DEF DropSend, SendInv
  <2>3. node[t] = "none" /\ node'[t] = "pending" /\ pay'[t] = Total(B)
    BY <1>0, <2>1, SendEffect
  <2>4. Filed(t) = {} /\ Filed(t)' = {}
    BY <1>0, <2>2, <2>3, TxsFacts DEF FiledInv, Filed, rows
  <2>5. CASE dpc' = Continue(units \ B) /\ part' = part
    BY <1>1, <2>1, <2>2, <2>5 DEF SendInv, Continue
  <2>6. CASE dpc' \in {"insert", "update"} /\ part' = Total(B) /\ dtx' = t
    <3>1. Filed(dtx)' = {}
      BY <2>4, <2>6 DEF Filed
    <3>2. dtx' \in Txs /\ node'[dtx'] # "none" /\ part'.give \subseteq pay'[dtx'].give
      BY <2>3, <2>6
    <3> QED
      BY <1>1, <2>6, <3>1, <3>2 DEF SendInv
  <2> QED
    BY <2>1, <2>5, <2>6
<1>6. CASE DropSendLostAnswer \/ DropSendRefused \/ Crash
  <2>1. part = Nothing \/ part' = Nothing
    BY <1>0, <1>6 DEF DropSendLostAnswer, DropSendRefused, Crash, SendInv
  <2>2. /\ dpc' \notin {"insert", "update"} /\ (dpc' \in {"idle", "found"} => units' = {})
        /\ part' = Nothing
    BY <1>6, <2>1 DEF DropSendLostAnswer, DropSendRefused, Crash, Continue
  <2> QED
    BY <1>1, <2>2 DEF SendInv
<1>7. CASE DropInsertTx
  <2>1. /\ UNCHANGED <<rows, chain, units>>
        /\ dpc = "insert"
        /\ \/ dpc' = "update" /\ part' = part /\ dtx' = dtx
           \/ dpc' = Continue(units) /\ part' = Nothing
    BY <1>7 DEF DropInsertTx, Return
  <2>2. CASE dpc' = "update" /\ part' = part /\ dtx' = dtx
    BY <1>0, <1>1, <2>1, <2>2 DEF SendInv, Filed, rows, chain
  <2>3. CASE dpc' = Continue(units) /\ part' = Nothing
    BY <1>1, <2>1, <2>3 DEF SendInv, Continue
  <2> QED
    BY <2>1, <2>2, <2>3
<1>8. CASE DropUpdateSubs
  <2>1. dpc' = Continue(units) /\ part' = Nothing /\ units' = units
    BY <1>8 DEF DropUpdateSubs, Return
  <2> QED
    BY <1>1, <2>1 DEF SendInv, Continue
<1>9. CASE CheckerStep
  BY <1>2, <1>8, <1>9 DEF CheckerStep, CheckReceipt, CheckTx, CheckSubs, CheckCount
<1>10. CASE \/ \E s \in Subs : Submit(s) \/ Block(s)
            \/ \E t \in Txs : Settle(t)
            \/ \E p \in Promoters : InsertMainWallet(p)
  BY <1>2, <1>8, <1>10 DEF Submit, Block, Settle, InsertMainWallet
<1>11. CASE AirdropTXRecycle \/ UNCHANGED vars
  BY <1>2, <1>8, <1>11 DEF AirdropTXRecycle, vars
<1> QED
  BY <1>3, <1>4, <1>5, <1>6, <1>7, <1>8, <1>9, <1>10, <1>11 DEF Next, DropperStep

(* Nobody but the dropper files a submission under a transaction, and it   *)
(* files under the one it holds.                                           *)
LEMMA FiledShrinks ==
    ASSUME IInv, [Next]_vars, NEW t \in Txs, dpc \in {"insert", "update"} => dtx # t
    PROVE  Filed(t)' \subseteq Filed(t)
<1>1. CASE subTx' = subTx
  BY <1>1 DEF Filed
<1>2. CASE DropUpdateSubs
  <2>1. t # dtx
    BY <1>2 DEF DropUpdateSubs
  <2>2. \A s \in Subs : subTx'[s] = subTx[s] \/ subTx'[s] = dtx
    BY <1>2, UpdateEffect DEF IInv, rows
  <2> QED
    BY <2>1, <2>2 DEF Filed
<1> QED
  BY <1>1, <1>2, OwedKept

(* What all its submissions have in common remains, unless the checker     *)
(* settles them.                                                           *)
LEMMA FiledKept ==
    ASSUME IInv, [Next]_vars, NEW t \in Txs, dpc \in {"insert", "update"} => dtx # t,
           NEW x \in {"sent", "done"}, \A s \in Filed(t) : status[s] = x,
           x = "done" \/ ~CheckSubs
    PROVE  \A s \in Filed(t)' : status'[s] = x
<1>0. Filed(t)' \subseteq Filed(t)
  BY FiledShrinks
<1>1. CASE UNCHANGED rows
  BY <1>0, <1>1 DEF rows
<1>2. ASSUME NEW s \in Subs, Submit(s)
      PROVE  \A r \in Filed(t)' : status'[r] = x
  BY <1>0, <1>2 DEF Submit, IInv, TypeOK, Filed
<1>3. CASE DropUpdateSubs
  <2>1. t # dtx
    BY <1>3 DEF DropUpdateSubs
  <2>2. \A s \in Filed(t)' : subTx'[s] = t /\ s \in Subs
    BY DEF Filed
  <2> QED
    BY <1>0, <1>1, <1>3, <2>1, <2>2, UpdateEffect DEF IInv
<1>4. CASE CheckSubs
  <2>1. \A s \in Filed(t) : status[s] = "done" /\ s \in Subs
    BY <1>4 DEF Filed
  <2>2. \A s \in Subs : subTx[s] = ctx => status[s] = "sent"
    BY <1>4, SettleEffect DEF IInv, Filed
  <2>3. \A s \in Filed(t) : subTx[s] # ctx
    BY <2>1, <2>2
  <2> QED
    BY <1>0, <1>1, <1>4, <2>1, <2>3, SettleEffect DEF IInv
<1> QED
  BY <1>1, <1>2, <1>3, <1>4, RowsStep

(* The dropper comes to hold a transaction only by sending it. *)
LEMMA NewlyHeld ==
    ASSUME IInv, [Next]_vars, NEW t \in Txs, node[t] # "none",
           dpc \in {"insert", "update"} => dtx # t
    PROVE  dpc' \in {"insert", "update"} => dtx' # t
<1>0. TypeOK
  BY DEF IInv
<1>1. CASE UNCHANGED <<dpc, dtx>>
  BY <1>1
<1>2. CASE dpc' \notin {"insert", "update"}
  BY <1>2
<1>3. CASE DropSend
  <2>1. PICK B \in Batches(units, syncDrop), u \in Txs :
              /\ Send(u, Total(B)) /\ Total(B) \in Payment
              /\ \/ dpc' = Continue(units \ B)
                 \/ dtx' = u
    BY <1>0, <1>3, DropSendEffect
  <2>2. node[u] = "none"
    BY <1>0, <2>1, SendEffect
  <2> QED
    BY <2>1, <2>2 DEF Continue
<1>4. CASE DropInsertTx
  BY <1>4 DEF DropInsertTx, Return, Continue
<1>5. CASE Drop \/ DropAirdrop \/ DropSendLostAnswer \/ DropSendRefused \/ DropUpdateSubs \/ Crash
  BY <1>2, <1>5 DEF Drop, DropAirdrop, DropSendLostAnswer, DropSendRefused, DropUpdateSubs, Crash,
                    Return, Continue
<1>6. CASE CheckerStep
  BY <1>1, <1>6 DEF CheckerStep, CheckReceipt, CheckTx, CheckSubs, CheckCount, dropper
<1>7. CASE \/ \E s \in Subs : Submit(s) \/ Block(s)
           \/ \E u \in Txs : Settle(u)
           \/ \E p \in Promoters : InsertMainWallet(p)
  BY <1>1, <1>7 DEF Submit, Block, Settle, InsertMainWallet, dropper
<1>8. CASE AirdropTXRecycle \/ UNCHANGED vars
  BY <1>1, <1>8 DEF AirdropTXRecycle, vars, dropper
<1> QED
  BY <1>3, <1>4, <1>5, <1>6, <1>7, <1>8 DEF Next, DropperStep

LEMMA CheckerInvStep == IInv /\ [Next]_vars => CheckerInv'
<1> SUFFICES ASSUME IInv, [Next]_vars PROVE CheckerInv'
  OBVIOUS
<1> USE DEF IInv
<1>1. ChainKept
  BY ChainStep
<1>2. CASE UNCHANGED <<cpc, ctx, counted>> /\ ~CheckSubs
  <2>1. CASE cpc = "idle"
    BY <1>2, <2>1 DEF CheckerInv
  <2>2. CASE cpc # "idle"
    <3>1. /\ ctx \in Txs /\ counted[ctx] = 0 /\ node[ctx] \in {"ok", "reverted"}
          /\ dpc \in {"insert", "update"} => dtx # ctx
      BY <2>2 DEF CheckerInv, TypeOK
    <3>2. dpc' \in {"insert", "update"} => dtx' # ctx
      BY <3>1, NewlyHeld
    <3>3. node'[ctx] = node[ctx]
      BY <1>1, <3>1 DEF ChainKept
    <3>4. Filed(ctx)' = {s \in Subs : subTx'[s] = ctx}
      BY <1>2 DEF Filed
    <3>5. ASSUME NEW x \in {"sent", "done"}, \A s \in Filed(ctx) : status[s] = x
          PROVE  \A s \in Filed(ctx)' : status'[s] = x
      <4>1. ASSUME NEW t \in Txs, t = ctx PROVE \A s \in Filed(t)' : status'[s] = x
        BY <1>2, <3>1, <3>5, <4>1, FiledKept
      <4> QED
        BY <1>2, <3>1, <3>4, <4>1 DEF Filed
    <3>6. cpc \in {"tx", "subs"} => \A s \in Filed(ctx)' : status'[s] = "sent"
      BY <3>5 DEF CheckerInv
    <3>7. cpc = "count" => \A s \in Filed(ctx)' : status'[s] = "done"
      BY <3>5 DEF CheckerInv
    <3> QED
      BY <1>2, <3>1, <3>2, <3>3, <3>6, <3>7 DEF CheckerInv
  <2> QED
    BY <2>1, <2>2
<1>3. ASSUME NEW t \in Txs, CheckReceipt(t) PROVE CheckerInv'
  <2>1. /\ UNCHANGED <<rows, chain, dropper, counted>> /\ ctx' = t /\ cpc' = "tx"
        /\ node[t] \in {"ok", "reverted"}
    BY <1>3 DEF CheckReceipt
  <2>2. PICK s \in Filed(t) : status[s] = "sent" \/ ~settled[s]
    BY <1>3 DEF CheckReceipt
  <2>3. \A r \in Filed(t) : status[r] = "sent"
    BY <2>2, TxsFacts DEF FiledInv, Filed
  <2>4. counted[t] = 0
    BY <2>2, <2>3 DEF CountInv, TypeOK
  <2>5. dpc \in {"insert", "update"} => dtx # t
    BY <2>2 DEF DropperInv, SendInv
  <2> QED
    BY <2>1, <2>3, <2>4, <2>5 DEF CheckerInv, Filed, rows, chain, dropper
<1>4. CASE CheckTx
  BY <1>4 DEF CheckTx, CheckerInv, Filed, rows, chain, dropper
<1>5. CASE CheckSubs
  <2>1. UNCHANGED <<chain, counted, dropper>> /\ cpc = "subs"
    BY <1>5 DEF CheckSubs
  <2>2. CASE CheckEnds
    BY <2>2 DEF CheckEnds, CheckerInv
  <2>3. CASE ~CheckEnds
    <3>1. /\ cpc' = "count" /\ ctx' = ctx /\ node[ctx] = "ok" /\ subTx' = subTx
          /\ status' = [s \in Subs |-> IF s \notin Filed(ctx) THEN status[s]
                                       ELSE IF node[ctx] = "ok" THEN "done" ELSE "failed"]
      BY <1>5, <2>3 DEF CheckSubs
    <3>2. ctx \in Txs /\ counted[ctx] = 0 /\ (dpc \in {"insert", "update"} => dtx # ctx)
      BY <2>1 DEF CheckerInv
    <3> QED
      BY <2>1, <3>1, <3>2 DEF CheckerInv, Filed, chain, dropper
  <2> QED
    BY <2>2, <2>3
<1>6. CASE CheckCount \/ Crash
  BY <1>6 DEF CheckCount, Crash, CheckEnds, CheckerInv
<1>7. CASE DropperStep
  BY <1>2, <1>5, <1>7 DEF DropperStep, Drop, DropAirdrop, DropSend, DropSendLostAnswer,
                    DropSendRefused, DropInsertTx, DropUpdateSubs, checker
<1>8. CASE \/ \E s \in Subs : Submit(s) \/ Block(s)
           \/ \E t \in Txs : Settle(t)
           \/ \E p \in Promoters : InsertMainWallet(p)
  BY <1>2, <1>5, <1>8 DEF Submit, Block, Settle, InsertMainWallet, checker
<1>9. CASE AirdropTXRecycle \/ UNCHANGED vars
  BY <1>2, <1>5, <1>9 DEF AirdropTXRecycle, vars, checker
<1> QED
  BY <1>3, <1>4, <1>5, <1>6, <1>7, <1>8, <1>9 DEF Next, CheckerStep

LEMMA CountInvStep == IInv /\ [Next]_vars => CountInv'
<1> SUFFICES ASSUME IInv, [Next]_vars PROVE CountInv'
  OBVIOUS
<1> USE DEF IInv
<1>1. ChainKept
  BY ChainStep
<1>2. ASSUME NEW t \in Txs, counted[t] > 0
      PROVE  /\ counted[t] = 1 /\ node'[t] = "ok"
             /\ dpc' \in {"insert", "update"} => dtx' # t
             /\ \A s \in Filed(t)' : status'[s] = "done"
  <2>1. /\ counted[t] = 1 /\ node[t] = "ok"
        /\ dpc \in {"insert", "update"} => dtx # t
        /\ \A s \in Filed(t) : status[s] = "done"
    BY <1>2 DEF CountInv
  <2>2. node'[t] = "ok"
    BY <1>1, <2>1 DEF ChainKept
  <2>3. dpc' \in {"insert", "update"} => dtx' # t
    BY <2>1, NewlyHeld
  <2>4. \A s \in Filed(t)' : status'[s] = "done"
    BY <2>1, FiledKept
  <2> QED
    BY <2>1, <2>2, <2>3, <2>4
<1>3. CASE counted' = counted
  BY <1>2, <1>3 DEF CountInv
<1>4. CASE CheckCount
  <2>1. /\ UNCHANGED <<rows, chain, dropper>>
        /\ ctx \in Txs /\ node[ctx] = "ok" /\ counted[ctx] = 0
        /\ dpc \in {"insert", "update"} => dtx # ctx
        /\ \A s \in Filed(ctx) : status[s] = "done"
        /\ counted' = [counted EXCEPT ![ctx] = @ + 1] \/ counted' = counted
    BY <1>4 DEF CheckCount, CheckerInv
  <2>2. \A t \in Txs : t # ctx => counted'[t] = counted[t]
    BY <2>1 DEF TypeOK
  <2>3. counted'[ctx] \in {0, 1}
    BY <2>1 DEF TypeOK
  <2>4. \A t \in Txs : Filed(t)' = Filed(t)
    BY <2>1 DEF Filed, rows
  <2> SUFFICES ASSUME NEW t \in Txs, counted'[t] > 0
               PROVE  /\ counted'[t] = 1 /\ node'[t] = "ok"
                      /\ dpc' \in {"insert", "update"} => dtx' # t
                      /\ \A s \in Filed(t)' : status'[s] = "done"
    BY DEF CountInv
  <2>5. CASE t = ctx
    BY <2>1, <2>3, <2>4, <2>5 DEF rows, chain, dropper
  <2>6. CASE t # ctx
    BY <1>2, <2>2, <2>6
  <2> QED
    BY <2>5, <2>6
<1>5. counted' = counted \/ CheckCount
  <2>1. CASE DropperStep
    BY <2>1 DEF DropperStep, Drop, DropAirdrop, DropSend, DropSendLostAnswer,
                DropSendRefused, DropInsertTx, DropUpdateSubs
  <2>2. CASE CheckerStep
    BY <2>2 DEF CheckerStep, CheckReceipt, CheckTx, CheckSubs
  <2>3. CASE \/ \E s \in Subs : Submit(s) \/ Block(s)
             \/ \E t \in Txs : Settle(t)
             \/ \E p \in Promoters : InsertMainWallet(p)
    BY <2>3 DEF Submit, Block, Settle, InsertMainWallet
  <2>4. CASE AirdropTXRecycle \/ Crash \/ UNCHANGED vars
    BY <2>4 DEF AirdropTXRecycle, Crash, vars
  <2> QED
    BY <2>1, <2>2, <2>3, <2>4 DEF Next
<1> QED
  BY <1>3, <1>4, <1>5

LEMMA InvStep == IInv /\ [Next]_vars => IInv'
<1> SUFFICES ASSUME IInv, [Next]_vars PROVE IInv'
  OBVIOUS
<1>1. TypeOK' /\ HandsInv' /\ SendInv' /\ FiledInv' /\ CheckerInv' /\ CountInv'
  BY TypeStep, HandsInvStep, SendInvStep, FiledStep, CheckerInvStep, CountInvStep DEF IInv
<1> QED
  BY <1>1 DEF IInv, DropperInv

-----------------------------------------------------------------------------
(* Every variable of the payout keeps its type: no table ever holds a      *)
(* status the code does not define.                                        *)
THEOREM TypeCorrect == Spec => []TypeOK
<1>1. Init => TypeOK
  BY TypeInit
<1>2. TypeOK /\ [Next]_vars => TypeOK'
  BY TypeStep
<1> QED
  BY <1>1, <1>2, PTL DEF Spec

(* The inductive invariant holds in every reachable state. *)
THEOREM Invariance == Spec => []IInv
<1> QED
  BY InvInit, InvStep, PTL DEF Spec

(* The status the checker and the dropper record is the truth about the    *)
(* recorded transaction, whatever is lost or crashes in between.           *)
THEOREM TruthfulStatus == Spec => []StatusMatchesChain
<1>1. IInv => StatusMatchesChain
  BY TxsFacts DEF IInv, FiledInv, StatusMatchesChain, TypeOK
<1> QED
  BY <1>1, Invariance, PTL

(* No transaction enters the statistics twice, however its submissions     *)
(* move on: the checker never takes up a transaction again whose           *)
(* submissions are done.                                                   *)
THEOREM StatisticsOnce == Spec => []CountedOnce
<1>1. IInv => CountedOnce
  <2> SUFFICES ASSUME IInv, NEW t \in Txs
               PROVE  counted[t] <= 1 /\ (counted[t] > 0 => node[t] = "ok")
    BY DEF CountedOnce
  <2> QED
    BY DEF IInv, CountInv, TypeOK
<1> QED
  BY <1>1, Invariance, PTL

(* Whatever is planned or paid as a bonus is earned: the plan is made from *)
(* the referrer columns and a main wallet of the promoter of the highest   *)
(* id, and no later step adds a bonus to it.                               *)
EarnerInv ==
    /\ \A u \in units : \A b \in u.bonus : b[1] \in Row /\ Earned(b[1], b[2])
    /\ \A t \in Txs : \A b \in pay[t].bonus : b[1] \in Row /\ Earned(b[1], b[2])

LEMMA EarnedStays ==
    ASSUME TypeOK, [Next]_vars, NEW r \in Row, NEW w, Earned(r, w) PROVE Earned(r, w)'
<1>1. \A q \in Subs : Mains(q) \subseteq Mains(q)'
  BY MainsGrow
<1> QED
  BY <1>1 DEF Earned

LEMMA PlannedBonusesAreEarned ==
    ASSUME TypeOK, NEW plan \in Plans(Owed, syncDrop), NEW u \in plan, NEW b \in u.bonus
    PROVE  b[1] \in Row /\ Earned(b[1], b[2])
<1>1. PICK promo \in Wallets : promo \in PromoWallets(Owed) /\ GoodPlan(plan, Owed, promo, syncDrop)
  BY OwedAreRows, PlanIsGood DEF TypeOK
<1>2. PICK top \in Owed : promo = top[2] /\ \A o \in Owed : o[1] <= top[1]
  BY <1>1, OwedAreRows, PromoWalletFacts
<1>3. /\ b[1] \in Owed /\ b[1] \in Row /\ Earns(b[1], promo)
      /\ b[2] = Earner(b[1], promo)
  BY <1>1, OwedAreRows DEF GoodPlan
<1>4. top[2] \in Mains(top[1]) /\ top[1] \in Subs
  BY <1>2 DEF Owed, Rows, Row
<1>5. CASE Referred(b[1])
  BY <1>3, <1>5 DEF Earner, Referred, Earned
<1>6. CASE ~Referred(b[1])
  <2>1. b[2] = promo /\ b[2] # Wallet[b[1][1]]
    BY <1>3, <1>6 DEF Earner, Earns
  <2> QED
    BY <1>2, <1>3, <1>4, <1>6, <2>1 DEF Earned
<1> QED
  BY <1>3, <1>5, <1>6

LEMMA EarnerStep == TypeOK /\ EarnerInv /\ [Next]_vars => EarnerInv'
<1> SUFFICES ASSUME TypeOK, EarnerInv, [Next]_vars PROVE EarnerInv'
  OBVIOUS
<1>0. /\ \A r \in Row : \A w : Earned(r, w) => Earned(r, w)'
  BY EarnedStays
<1> DEFINE Good(p) == \A b \in p.bonus : b[1] \in Row /\ Earned(b[1], b[2])
<1>g. /\ \A u \in units : Good(u)
      /\ \A t \in Txs : Good(pay[t])
  BY DEF EarnerInv
<1>h. ASSUME \A u \in units' : Good(u), \A t \in Txs : Good(pay'[t]) PROVE EarnerInv'
  BY <1>0, <1>h DEF EarnerInv
<1>1. CASE DropAirdrop
  <2>1. \A u \in units' : Good(u)
    BY <1>1, PlannedBonusesAreEarned DEF DropAirdrop
  <2>2. pay' = pay
    BY <1>1 DEF DropAirdrop, chain
  <2> QED
    BY <1>g, <1>h, <2>1, <2>2
<1>2. ASSUME NEW B \in Batches(units, syncDrop), NEW t \in Txs, Send(t, Total(B)), units' = units \ B
      PROVE  EarnerInv'
  <2>1. B \subseteq units /\ Total(B) \in Payment
    BY BatchIsPart, BatchIsPayment DEF TypeOK
  <2>2. \A b \in Total(B).bonus : \E u \in B : b \in u.bonus
    BY DEF Total
  <2>3. Good(Total(B))
    BY <1>g, <2>1, <2>2
  <2>4. pay'[t] = Total(B) /\ \A r \in Txs : r # t => pay'[r] = pay[r]
    BY <1>2, <2>1, SendEffect
  <2> QED
    BY <1>2, <1>g, <1>h, <2>3, <2>4
<1>3. CASE pay' = pay /\ units' \subseteq units
  BY <1>3, <1>g, <1>h
<1> HIDE DEF Good
<1>4. CASE DropperStep
  BY <1>1, <1>2, <1>3, <1>4 DEF DropperStep, Drop, DropSend, DropSendLostAnswer,
     DropSendRefused, DropInsertTx, DropUpdateSubs, chain
<1>5. CASE CheckerStep
  BY <1>3, <1>5 DEF CheckerStep, CheckReceipt, CheckTx, CheckSubs, CheckCount, chain, dropper
<1>6. CASE \/ \E s \in Subs : Submit(s) \/ Block(s)
           \/ \E t \in Txs : Settle(t)
           \/ \E p \in Promoters : InsertMainWallet(p)
  BY <1>3, <1>6 DEF Submit, Block, Settle, InsertMainWallet, chain, dropper
<1>7. CASE AirdropTXRecycle \/ Crash \/ UNCHANGED vars
  BY <1>3, <1>7 DEF AirdropTXRecycle, Crash, vars, chain, dropper
<1> QED
  BY <1>4, <1>5, <1>6, <1>7 DEF Next

(* Every bonus on the chain goes to whoever earned it, never to the        *)
(* submitter, whatever faults, retries and crashes there are.              *)
THEOREM BonusesAreEarned == Spec => []BonusToEarner
<1>1. Init => EarnerInv
  BY DEF Init, EarnerInv, Nothing
<1>2. EarnerInv => BonusToEarner
  BY DEF EarnerInv, BonusToEarner
<1> QED
  BY <1>1, <1>2, EarnerStep, TypeCorrect, PTL DEF Spec

(* A submission that is sent or done is not sent again, unless a pass of   *)
(* sync_drop has several rows for it: the dropper and the checker together *)
(* move statuses only forward or into a retry.                             *)
THEOREM StatusesAreLegal == Spec => LegalStatus
<1> DEFINE Legal == \A s \in Subs : status'[s] # status[s] =>
              \/ <<status[s], status'[s]>> \in
                  {<<"none", "new">>, <<"new", "sent">>, <<"sent", "done">>,
                   <<"sent", "failed">>, <<"failed", "sent">>}
              \/ ~Single(s) /\ <<status[s], status'[s]>> = <<"done", "sent">>
<1>1. IInv /\ [Next]_vars => [Legal]_vars
  <2> SUFFICES ASSUME IInv, [Next]_vars PROVE Legal
    OBVIOUS
  <2>1. CASE UNCHANGED rows
    BY <2>1 DEF rows
  <2>2. ASSUME NEW s \in Subs, Submit(s) PROVE Legal
    BY <2>2 DEF Submit, IInv, TypeOK
  <2>3. CASE DropUpdateSubs
    <3> SUFFICES ASSUME NEW s \in Subs, status'[s] # status[s]
                 PROVE  \/ <<status[s], status'[s]>> \in {<<"new", "sent">>, <<"failed", "sent">>}
                        \/ ~Single(s) /\ <<status[s], status'[s]>> = <<"done", "sent">>
      OBVIOUS
    <3>1. s \in GivenTo(part) /\ status'[s] = "sent"
      BY <2>3, UpdateEffect DEF IInv, rows
    <3>2. status[s] # "none" /\ status[s] \in {"none", "new", "sent", "done", "failed"}
      BY <3>1 DEF IInv, DropperInv, HandsInv, InHands, TypeOK
    <3>3. Single(s) => status[s] \in {"new", "failed"}
      BY <3>1 DEF IInv, DropperInv, HandsInv, InHands, OnceInHands
    <3> QED
      BY <3>1, <3>2, <3>3
  <2>4. CASE CheckSubs
    <3>1. \A s \in Subs : subTx[s] = ctx => status[s] = "sent"
      BY <2>4, SettleEffect DEF IInv, Filed
    <3> QED
      BY <2>1, <2>4, <3>1, SettleEffect DEF IInv
  <2> QED
    BY <2>1, <2>2, <2>3, <2>4, RowsStep
<1>2. Spec => [][Legal]_vars
  BY <1>1, Invariance, PTL DEF Spec
<1> QED
  BY <1>2 DEF LegalStatus

-----------------------------------------------------------------------------
(***************************************************************************)
(* How often a submission is paid.  Its load is what the chain carries and *)
(* the pass at work still plans for it, of give-outs or of bonuses.  A     *)
(* pass adds one for each main wallet of its promoter, and takes the       *)
(* submission up only if it is back: in nobody's hands, and not paid by    *)
(* the transaction it is recorded for.  Nothing brings it back but a       *)
(* setback.                                                                *)
(***************************************************************************)
Items(k, p, s) ==
    IF k = "give" THEN {r \in p.give : r[1] = s} ELSE {b \in p.bonus : b[1][1] = s}
OnChain(k, s) == UNION {{t} \X Items(k, pay[t], s) : t \in Txs}
Planned(k, s) == Items(k, Total(units), s)
Load(k, s) == Cardinality(OnChain(k, s)) + Cardinality(Planned(k, s))

Back(s) ==
    /\ ~InHands(s)
    /\ \/ status[s] \in {"none", "new", "failed"}
       \/ status[s] = "sent" /\ node[subTx[s]] = "reverted"
Doomed(s) == s \in GivenTo(part) /\ node[dtx] = "reverted"

LoadBound(k, s) ==
    /\ Load(k, s) <= Cardinality(Mains(s)) * (1 + Setbacks)
    /\ Back(s) \/ Doomed(s) => Load(k, s) <= Cardinality(Mains(s)) * Setbacks

(* A bonus counts only of a submission that gets its give-out with it. *)
LoadInv ==
    \A s \in Subs : \A k \in {"give", "bonus"} : k = "give" \/ OwnWallet(s) => LoadBound(k, s)

-----------------------------------------------------------------------------
(* Sets and their sizes. *)

LEMMA OneMore ==
    ASSUME NEW S, IsFiniteSet(S), NEW x, NEW T, T \subseteq S \union {x}
    PROVE  IsFiniteSet(T) /\ Cardinality(T) <= Cardinality(S) + 1
<1>1. /\ IsFiniteSet(S \union {x})
      /\ Cardinality(S \union {x}) = IF x \in S THEN Cardinality(S) ELSE Cardinality(S) + 1
  BY FS_AddElement
<1>2. IsFiniteSet(T) /\ Cardinality(T) <= Cardinality(S \union {x})
  BY <1>1, FS_Subset
<1>3. Cardinality(S) \in Nat /\ Cardinality(T) \in Nat
  BY <1>2, FS_CardinalityType
<1> QED
  BY <1>1, <1>2, <1>3

LEMMA SubsetSize ==
    ASSUME NEW S, IsFiniteSet(S), NEW T, T \subseteq S
    PROVE  /\ IsFiniteSet(T) /\ Cardinality(T) \in Nat /\ Cardinality(S) \in Nat
           /\ Cardinality(T) <= Cardinality(S)
<1>1. IsFiniteSet(T) /\ Cardinality(T) <= Cardinality(S)
  BY FS_Subset
<1> QED
  BY <1>1, FS_CardinalityType

(* Of two sets, one that can be mapped into the other apart is no larger.  *)
LEMMA MappedSize ==
    ASSUME NEW S, NEW T, IsFiniteSet(T), NEW f \in [S -> T],
           \A x, y \in S : f[x] = f[y] => x = y
    PROVE  IsFiniteSet(S) /\ Cardinality(S) <= Cardinality(T)
<1>1. f \in Injection(S, T)
  BY DEF Injection, IsInjective
<1> QED
  BY <1>1, FS_Injection

LEMMA TxsFinite == IsFiniteSet(Txs)
BY BoundAssumption, FS_Interval DEF Txs

LEMMA ItemsFinite ==
    ASSUME NEW p \in Payment, NEW k, NEW s
    PROVE  /\ IsFiniteSet(Items(k, p, s))
           /\ Items(k, p, s) \subseteq Row \union (Row \X Wallets)
<1>1. IsFiniteSet(Row) /\ IsFiniteSet(Row \X Wallets)
  BY PlanConstants, FS_Product DEF Row
<1>2. IsFiniteSet(Row \union (Row \X Wallets))
  BY <1>1, FS_Union
<1>3. Items(k, p, s) \subseteq Row \union (Row \X Wallets)
  BY PaymentFacts DEF Items
<1> QED
  BY <1>2, <1>3, FS_Subset

LEMMA LoadTypes ==
    ASSUME TypeOK, NEW k, NEW s
    PROVE  /\ IsFiniteSet(OnChain(k, s)) /\ Cardinality(OnChain(k, s)) \in Nat
           /\ IsFiniteSet(Planned(k, s)) /\ Cardinality(Planned(k, s)) \in Nat
           /\ Load(k, s) \in Nat
<1>1. IsFiniteSet(Row \union (Row \X Wallets))
  BY PlanConstants, FS_Product, FS_Union DEF Row
<1>2. OnChain(k, s) \subseteq Txs \X (Row \union (Row \X Wallets))
  BY ItemsFinite DEF OnChain, TypeOK
<1>3. IsFiniteSet(OnChain(k, s))
  BY <1>1, <1>2, TxsFinite, FS_Product, FS_Subset
<1>4. IsFiniteSet(Planned(k, s))
  BY ItemsFinite, TotalIsPayment DEF Planned, TypeOK
<1>5. Cardinality(OnChain(k, s)) \in Nat /\ Cardinality(Planned(k, s)) \in Nat
  BY <1>3, <1>4, FS_CardinalityType
<1> QED
  BY <1>3, <1>4, <1>5 DEF Load

LEMMA LoadTypesNext ==
    ASSUME TypeOK', NEW k, NEW s
    PROVE  /\ IsFiniteSet(OnChain(k, s)') /\ Cardinality(OnChain(k, s)') \in Nat
           /\ IsFiniteSet(Planned(k, s)') /\ Cardinality(Planned(k, s)') \in Nat
           /\ Load(k, s)' \in Nat
<1>1. IsFiniteSet(Row \union (Row \X Wallets))
  BY PlanConstants, FS_Product, FS_Union DEF Row
<1>2. OnChain(k, s)' = UNION {{t} \X Items(k, pay'[t], s) : t \in Txs}
  BY DEF OnChain, Items
<1>3. \A t \in Txs : pay'[t] \in Payment
  BY DEF TypeOK
<1>4. UNION {{t} \X Items(k, pay'[t], s) : t \in Txs} \subseteq Txs \X (Row \union (Row \X Wallets))
  BY <1>3, ItemsFinite
<1>5. IsFiniteSet(OnChain(k, s)')
  BY <1>1, <1>2, <1>4, TxsFinite, FS_Product, FS_Subset
<1>6. Planned(k, s)' = Items(k, Total(units'), s)
  BY DEF Planned, Items, Total
<1>7. units' \subseteq Payment
  BY DEF TypeOK
<1>8. IsFiniteSet(Planned(k, s)')
  BY <1>6, <1>7, ItemsFinite, TotalIsPayment
<1>9. Cardinality(OnChain(k, s)') \in Nat /\ Cardinality(Planned(k, s)') \in Nat
  BY <1>5, <1>8, FS_CardinalityType
<1>10. Load(k, s)' = Cardinality(OnChain(k, s)') + Cardinality(Planned(k, s)')
  BY DEF Load
<1> QED
  BY <1>5, <1>8, <1>9, <1>10

(* What a smaller plan plans. *)
LEMMA PlannedShrinks ==
    ASSUME NEW U, NEW V, V \subseteq U, NEW k, NEW s
    PROVE  Items(k, Total(V), s) \subseteq Items(k, Total(U), s)
BY DEF Items, Total

(* Dropping planned payments can only lower the load. *)
LEMMA LoadShrinks ==
    ASSUME TypeOK, TypeOK', pay' = pay, units' \subseteq units, NEW k, NEW s
    PROVE  Load(k, s)' <= Load(k, s)
<1>1. OnChain(k, s)' = OnChain(k, s)
  BY DEF OnChain, Items
<1>2. Planned(k, s)' = Items(k, Total(units'), s)
  BY DEF Planned, Items, Total
<1>3. Planned(k, s)' \subseteq Planned(k, s)
  BY <1>2, PlannedShrinks DEF Planned
<1>4. Cardinality(Planned(k, s)') <= Cardinality(Planned(k, s))
      /\ Cardinality(Planned(k, s)') \in Nat
  BY <1>3, LoadTypes, SubsetSize
<1>5. Load(k, s)' = Cardinality(OnChain(k, s)) + Cardinality(Planned(k, s)')
  BY <1>1 DEF Load
<1> QED
  BY <1>4, <1>5, LoadTypes DEF Load

(* Sending a batch moves what is planned to the chain. *)
LEMMA LoadMoves ==
    ASSUME TypeOK, TypeOK', HandsInv, SendInv,
           NEW B, B \subseteq units, NEW t \in Txs, Send(t, Total(B)), units' \subseteq units \ B,
           NEW k \in {"give", "bonus"}, NEW s
    PROVE  Load(k, s)' <= Load(k, s)
<1> DEFINE I == Items(k, Total(B), s)
           C == OnChain(k, s)  P == Planned(k, s)
<1>1. B \subseteq Payment /\ Total(B) \in Payment
  BY TotalIsPayment DEF TypeOK
<1>2. /\ node[t] = "none" /\ pay[t] = Nothing /\ pay'[t] = Total(B)
      /\ \A u \in Txs : u # t => pay'[u] = pay[u]
  BY <1>1, SendEffect DEF SendInv
<1>3. C' \subseteq C \union ({t} \X I)
  <2>1. \A u \in Txs : u # t => Items(k, pay'[u], s) = Items(k, pay[u], s)
    BY <1>2
  <2>2. Items(k, pay'[t], s) = I
    BY <1>2
  <2>3. C' = UNION {{u} \X Items(k, pay'[u], s) : u \in Txs}
    BY DEF OnChain, Items
  <2> HIDE DEF I
  <2> QED
    BY <2>1, <2>2, <2>3 DEF OnChain
<1>4. IsFiniteSet(I) /\ Cardinality(I) \in Nat
  BY <1>1, ItemsFinite, FS_CardinalityType
<1>5. IsFiniteSet(C) /\ IsFiniteSet(P) /\ IsFiniteSet(C') /\ IsFiniteSet(P')
  BY LoadTypes, LoadTypesNext
<1>6. I \subseteq P
  BY PlannedShrinks DEF Planned
<1>7. P' \subseteq P \ I
  <2>1. P' = Items(k, Total(units'), s)
    BY DEF Planned, Items, Total
  <2>2. P' \subseteq P
    BY <2>1, PlannedShrinks DEF Planned
  <2>3. ASSUME NEW x \in P', x \in I PROVE FALSE
    <3>1. CASE k = "give"
      <4>1. PICK u \in units' : x \in u.give
        BY <2>1, <2>3, <3>1 DEF Items, Total
      <4>2. PICK v \in B : x \in v.give
        BY <2>3, <3>1 DEF Items, Total
      <4>3. u \in units /\ v \in units /\ u # v
        BY <4>1, <4>2
      <4> QED
        BY <4>1, <4>2, <4>3 DEF HandsInv
    <3>2. CASE k = "bonus"
      <4>1. PICK u \in units' : x \in u.bonus
        BY <2>1, <2>3, <3>2 DEF Items, Total
      <4>2. PICK v \in B : x \in v.bonus
        BY <2>3, <3>2 DEF Items, Total
      <4>3. u \in units /\ v \in units /\ u # v
        BY <4>1, <4>2
      <4> QED
        BY <4>1, <4>2, <4>3 DEF HandsInv
    <3> QED
      BY <3>1, <3>2
  <2> QED
    BY <2>2, <2>3
<1> DEFINE D == C'  Q == P'
<1> HIDE DEF I, C, P, D, Q
<1>8. D \subseteq C \union ({t} \X I) /\ Q \subseteq P \ I /\ IsFiniteSet(D) /\ IsFiniteSet(Q)
  BY <1>3, <1>5, <1>7 DEF D, Q
<1>9. Cardinality(D) <= Cardinality(C) + Cardinality(I) /\ Cardinality(D) \in Nat
  <2>1. IsFiniteSet({t}) /\ Cardinality({t}) = 1
    BY FS_Singleton
  <2>2. IsFiniteSet({t} \X I) /\ Cardinality({t} \X I) = 1 * Cardinality(I)
    BY <1>4, <2>1, FS_Product
  <2>3. /\ IsFiniteSet(C \union ({t} \X I))
        /\ Cardinality(C \union ({t} \X I))
             = Cardinality(C) + Cardinality({t} \X I) - Cardinality(C \intersect ({t} \X I))
    BY <1>5, <2>2, FS_Union
  <2>4. Cardinality(C \intersect ({t} \X I)) \in Nat /\ Cardinality(C) \in Nat
    BY <1>5, FS_Intersection, FS_CardinalityType
  <2>5. Cardinality(D) <= Cardinality(C \union ({t} \X I)) /\ Cardinality(D) \in Nat
        /\ Cardinality(C \union ({t} \X I)) \in Nat
    BY <1>8, <2>3, SubsetSize
  <2> QED
    BY <1>4, <2>2, <2>3, <2>4, <2>5
<1>10. Cardinality(Q) <= Cardinality(P) - Cardinality(I) /\ Cardinality(Q) \in Nat
  <2>1. IsFiniteSet(P \ I) /\ Cardinality(P \ I) = Cardinality(P) - Cardinality(P \intersect I)
    BY <1>5, FS_Difference
  <2>2. P \intersect I = I
    BY <1>6
  <2> QED
    BY <1>8, <2>1, <2>2, SubsetSize
<1>11. Cardinality(C) \in Nat /\ Cardinality(P) \in Nat
  BY <1>5, FS_CardinalityType
<1>12. Load(k, s) = Cardinality(C) + Cardinality(P) /\ Load(k, s)' = Cardinality(D) + Cardinality(Q)
  BY DEF Load, C, P, D, Q
<1> QED
  BY <1>4, <1>9, <1>10, <1>11, <1>12

-----------------------------------------------------------------------------
(* Setbacks only accumulate. *)
Reverted == {t \in Txs : node[t] = "reverted"}

LEMMA ErrorsStep ==
    ASSUME TypeOK, [Next]_vars
    PROVE  \/ UNCHANGED errors
           \/ faults' = faults + 1 /\ refused' = refused
           \/ faults' = faults /\ refused' = refused + 1
<1>1. CASE DropperStep
  BY <1>1 DEF DropperStep, Drop, DropAirdrop, DropSend, DropSendLostAnswer,
              DropSendRefused, DropInsertTx, DropUpdateSubs, Fault, errors
<1>2. CASE CheckerStep
  BY <1>2 DEF CheckerStep, CheckReceipt, CheckTx, CheckSubs, CheckCount
<1>3. CASE \/ \E s \in Subs : Submit(s) \/ Block(s)
           \/ \E t \in Txs : Settle(t)
           \/ \E p \in Promoters : InsertMainWallet(p)
  BY <1>3 DEF Submit, Block, Settle, InsertMainWallet
<1>4. CASE AirdropTXRecycle \/ Crash \/ UNCHANGED vars
  BY <1>4 DEF AirdropTXRecycle, Crash, vars, Fault, errors
<1> QED
  BY <1>1, <1>2, <1>3, <1>4 DEF Next

LEMMA SetbacksType == TypeOK => Setbacks \in Nat
<1>1. IsFiniteSet(Reverted)
  BY TxsFinite, FS_Subset DEF Reverted
<1>2. Cardinality(Reverted) \in Nat
  BY <1>1, FS_CardinalityType
<1> QED
  BY <1>2 DEF Setbacks, Reverted, TypeOK

LEMMA SetbacksGrow ==
    ASSUME TypeOK, [Next]_vars
    PROVE  /\ Setbacks \in Nat /\ Setbacks' \in Nat /\ Setbacks <= Setbacks'
           /\ ~UNCHANGED errors => Setbacks + 1 <= Setbacks'
           /\ \A t \in Txs : node[t] # "reverted" /\ node'[t] = "reverted" => Setbacks + 1 <= Setbacks'
<1>1. IsFiniteSet(Reverted) /\ IsFiniteSet(Reverted')
  BY TxsFinite, FS_Subset DEF Reverted
<1>2. Reverted \subseteq Reverted'
  BY ChainStep DEF ChainKept, Reverted
<1>3. /\ Cardinality(Reverted) \in Nat /\ Cardinality(Reverted') \in Nat
      /\ Cardinality(Reverted) <= Cardinality(Reverted')
  BY <1>1, <1>2, SubsetSize
<1>4. ASSUME NEW t \in Txs, node[t] # "reverted", node'[t] = "reverted"
      PROVE  Cardinality(Reverted) + 1 <= Cardinality(Reverted')
  <2>1. t \notin Reverted /\ Reverted \union {t} \subseteq Reverted'
    BY <1>2, <1>4 DEF Reverted
  <2>2. IsFiniteSet(Reverted \union {t}) /\ Cardinality(Reverted \union {t}) = Cardinality(Reverted) + 1
    BY <1>1, <2>1, FS_AddElement
  <2>3. Cardinality(Reverted \union {t}) <= Cardinality(Reverted')
    BY <1>1, <2>1, FS_Subset
  <2> QED
    BY <2>2, <2>3
<1>5. Setbacks = faults + refused + Cardinality(Reverted)
      /\ Setbacks' = faults' + refused' + Cardinality(Reverted')
  BY DEF Setbacks, Reverted
<1>6. faults \in Nat /\ refused \in Nat
  BY DEF TypeOK
<1>7. \/ faults' = faults /\ refused' = refused
      \/ faults' = faults + 1 /\ refused' = refused
      \/ faults' = faults /\ refused' = refused + 1
  BY ErrorsStep DEF errors
<1>8. ~UNCHANGED errors => ~(faults' = faults /\ refused' = refused)
  BY DEF errors
<1>9. Setbacks \in Nat /\ Setbacks' \in Nat /\ Setbacks <= Setbacks'
  BY <1>3, <1>5, <1>6, <1>7
<1>10. ~UNCHANGED errors => Setbacks + 1 <= Setbacks'
  BY <1>3, <1>5, <1>6, <1>7, <1>8
<1>11. \A t \in Txs : node[t] # "reverted" /\ node'[t] = "reverted" => Setbacks + 1 <= Setbacks'
  BY <1>3, <1>4, <1>5, <1>6, <1>7
<1> QED
  BY <1>9, <1>10, <1>11

LEMMA ProductsGrow ==
    ASSUME NEW a \in Nat, NEW b \in Nat, NEW c \in Nat, NEW d \in Nat, a <= b, c <= d
    PROVE  a * c <= b * d /\ a * c \in Nat /\ b * d \in Nat
<1>1. a * c <= a * d
  OBVIOUS
<1>2. a * d <= b * d
  OBVIOUS
<1>3. a * c \in Nat /\ a * d \in Nat /\ b * d \in Nat
  OBVIOUS
<1> QED
  BY <1>1, <1>2, <1>3

-----------------------------------------------------------------------------
(* A submission that shares its wallet with no other of the pass gets its  *)
(* give-out when any of its rows is paid for.                              *)
LEMMA GivenInPlan ==
    ASSUME NEW R, R \subseteq Row, NEW promo \in Wallets, NEW sy, NEW r \in R,
           \A q \in R : Wallet[q[1]] = Wallet[r[1]] => q[1] = r[1]
    PROVE  \E u \in PlanOf(R, promo, sy) : r[1] \in GivenTo(u)
<1>1. CASE sy
  <2>1. GiveOutTransfer(r) \in PlanOf(R, promo, sy)
    BY <1>1 DEF PlanOf, SyncTransfers
  <2>2. r[1] \in GivenTo(GiveOutTransfer(r))
    BY DEF GivenTo, GiveOutTransfer
  <2> QED
    BY <2>1, <2>2
<1>2. CASE ~sy
  <2> DEFINE w == Wallet[r[1]]  u == WalletUnit(R, promo, w)
  <2>1. w \in Wallets
    BY PlanConstants, RowFacts
  <2>2. UnitSays(u, R, promo, w)
    BY <2>1, UnitFacts
  <2>3. PICK q \in R : u.give = {q} /\ Wallet[q[1]] = w
    BY <2>2 DEF UnitSays
  <2>4. r[1] \in GivenTo(u)
    BY <2>3 DEF GivenTo
  <2>5. u \in PlanOf(R, promo, sy)
    <3>1. u # Nothing
      BY <2>3, NothingIsPayment
    <3> QED
      BY <1>2, <2>1, <3>1 DEF PlanOf, ChunkRecipients
  <2> QED
    BY <2>4, <2>5
<1> QED
  BY <1>1, <1>2

(* What a pass plans for a submission: at most one item for each main      *)
(* wallet, and only if it takes it up.                                     *)
LEMMA PlanLoad ==
    ASSUME TypeOK, NEW plan \in Plans(Owed, syncDrop), NEW s \in Subs,
           NEW k \in {"give", "bonus"}, k = "give" \/ OwnWallet(s)
    PROVE  /\ Cardinality(Items(k, Total(plan), s)) <= Cardinality(Mains(s))
           /\ Items(k, Total(plan), s) # {} =>
                 /\ status[s] \in {"new", "failed"}
                 /\ \E u \in plan : s \in GivenTo(u)
<1> DEFINE I == Items(k, Total(plan), s)
<1>1. CASE plan = {}
  <2>1. I = {}
    BY <1>1 DEF Items, Total
  <2>2. Cardinality(I) = 0
    BY <2>1, FS_EmptySet, Zenon
  <2> QED
    BY <2>1, <2>2, MainsFinite
<1>2. CASE plan # {}
  <2>1. PICK promo \in Wallets : plan = PlanOf(Owed, promo, syncDrop)
                                 /\ GoodPlan(plan, Owed, promo, syncDrop)
    BY <1>2, OwedAreRows, PlanIsGood DEF TypeOK
  <2>2. \A r \in Owed : status[r[1]] \in {"new", "failed"} /\ r[2] \in Mains(r[1])
                        /\ r = <<r[1], r[2]>>
    BY DEF Owed, Rows, Row
  <2>3. CASE k = "give"
    <3>1. \A r \in I : r \in Owed /\ r[1] = s /\ \E u \in plan : r \in u.give
      BY <2>1, <2>3 DEF GoodPlan, Items, Total
    <3> DEFINE f == [r \in I |-> r[2]]
    <3> HIDE DEF I
    <3>2. f \in [I -> Mains(s)] /\ \A x, y \in I : f[x] = f[y] => x = y
      BY <2>2, <3>1
    <3> HIDE DEF f
    <3>3. Cardinality(I) <= Cardinality(Mains(s))
      BY <3>2, MainsFinite, MappedSize
    <3>4. I # {} => status[s] \in {"new", "failed"} /\ \E u \in plan : s \in GivenTo(u)
      BY <2>2, <3>1 DEF GivenTo
    <3> QED
      BY <3>3, <3>4 DEF I
  <2>4. CASE k = "bonus"
    <3>1. \A b \in I : /\ b[1] \in Owed /\ b[1][1] = s /\ b[2] = Earner(b[1], promo)
                       /\ b = <<b[1], b[2]>>
      <4>1. \A u \in plan : u.bonus \subseteq Row \X Wallets
        BY <2>1, PaymentFacts DEF GoodPlan
      <4>2. \A b \in I : b[1][1] = s /\ \E u \in plan : b \in u.bonus
        BY <2>4 DEF Items, Total
      <4> HIDE DEF I
      <4> QED
        BY <2>1, <4>1, <4>2 DEF GoodPlan
    <3> DEFINE f == [b \in I |-> b[1][2]]
    <3> HIDE DEF I
    <3>2. f \in [I -> Mains(s)]
      BY <2>2, <3>1
    <3>3. ASSUME NEW x \in I, NEW y \in I, f[x] = f[y] PROVE x = y
      <4>1. x[1] = y[1]
        BY <2>2, <3>1, <3>3
      <4> QED
        BY <3>1, <4>1
    <3> HIDE DEF f
    <3>4. Cardinality(I) <= Cardinality(Mains(s))
      BY <3>2, <3>3, MainsFinite, MappedSize
    <3>5. ASSUME I # {} PROVE status[s] \in {"new", "failed"} /\ \E u \in plan : s \in GivenTo(u)
      <4>1. PICK b \in I : TRUE
        BY <3>5
      <4>2. b[1] \in Owed /\ b[1][1] = s
        BY <3>1
      <4>3. \A q \in Owed : Wallet[q[1]] = Wallet[s] => q[1] = s
        BY <2>4, OwedAreRows, RowFacts DEF OwnWallet
      <4>4. \E u \in plan : s \in GivenTo(u)
        BY <2>1, <4>2, <4>3, OwedAreRows, GivenInPlan
      <4> QED
        BY <2>2, <4>2, <4>4
    <3> QED
      BY <3>4, <3>5 DEF I
  <2> QED
    BY <2>3, <2>4
<1> QED
  BY <1>1, <1>2

-----------------------------------------------------------------------------
(* Only a plan adds to the load. *)
LEMMA LoadKept ==
    ASSUME IInv, TypeOK', [Next]_vars, ~DropAirdrop, NEW k \in {"give", "bonus"}, NEW s
    PROVE  Load(k, s)' <= Load(k, s)
<1>0. TypeOK /\ HandsInv /\ SendInv
  BY DEF IInv, DropperInv
<1>1. CASE UNCHANGED pay /\ units' \subseteq units
  BY <1>0, <1>1, LoadShrinks
<1>2. CASE DropSend \/ DropSendLostAnswer
  <2>1. PICK B \in Batches(units, syncDrop), t \in Txs : Send(t, Total(B)) /\ units' = units \ B
    BY <1>2 DEF DropSend, DropSendLostAnswer
  <2> QED
    BY <1>0, <2>1, BatchIsPart, LoadMoves
<1>3. CASE DropSendRefused \/ DropInsertTx \/ DropUpdateSubs \/ Drop
  BY <1>1, <1>3 DEF DropSendRefused, DropInsertTx, DropUpdateSubs, Drop, Return, chain
<1>4. CASE CheckerStep
  BY <1>1, <1>4 DEF CheckerStep, CheckReceipt, CheckTx, CheckSubs, CheckCount, dropper, chain
<1>5. CASE \/ \E r \in Subs : Submit(r) \/ Block(r)
           \/ \E t \in Txs : Settle(t)
           \/ \E p \in Promoters : InsertMainWallet(p)
  BY <1>1, <1>5 DEF Submit, Block, Settle, InsertMainWallet, dropper, chain
<1>6. CASE AirdropTXRecycle \/ Crash \/ UNCHANGED vars
  BY <1>1, <1>6 DEF AirdropTXRecycle, Crash, vars, dropper, chain
<1> QED
  BY <1>2, <1>3, <1>4, <1>5, <1>6 DEF Next, DropperStep

(* A batch that is sent stays in hands until it is recorded. *)
LEMMA SendKeepsHands ==
    ASSUME IInv, DropSend, NEW s
    PROVE  InHands(s)' <=> InHands(s)
<1>0. TypeOK /\ part = Nothing
  BY DEF IInv, DropperInv, SendInv, DropSend
<1>1. PICK B \in Batches(units, syncDrop), t \in Txs :
              /\ B \subseteq units /\ units' = units \ B
              /\ \/ part' = part /\ Total(B).give = {}
                 \/ part' = Total(B)
  BY <1>0, DropSendEffect
<1>2. GivenTo(part)' = GivenTo(part') /\ GivenTo(part) = {}
  BY <1>0, NothingIsPayment DEF GivenTo
<1>3. s \in GivenTo(Total(B)) <=> \E u \in B : s \in GivenTo(u)
  BY TotalGivenTo
<1>4. Total(B).give = {} => GivenTo(Total(B)) = {}
  BY DEF GivenTo
<1>5. s \in GivenTo(part)' <=> \E u \in B : s \in GivenTo(u)
  BY <1>1, <1>2, <1>3, <1>4
<1>6. InHands(s) <=> \E u \in units : s \in GivenTo(u)
  BY <1>2 DEF InHands
<1>7. InHands(s)' <=> s \in GivenTo(part)' \/ \E u \in units \ B : s \in GivenTo(u)
  BY <1>1 DEF InHands, GivenTo
<1> QED
  BY <1>1, <1>5, <1>6, <1>7

(* Without a setback no submission comes back. *)
LEMMA BackHasCause ==
    ASSUME IInv, [Next]_vars, NEW s \in Subs, Back(s)' \/ Doomed(s)'
    PROVE  Back(s) \/ Doomed(s) \/ Setbacks + 1 <= Setbacks'
<1>0. TypeOK /\ DropperInv /\ SendInv /\ CheckerInv /\ FiledInv
  BY DEF IInv, DropperInv
<1>a. ~UNCHANGED errors => Setbacks + 1 <= Setbacks'
  BY <1>0, SetbacksGrow
<1>b. Fault => ~UNCHANGED errors
  BY <1>0 DEF Fault, errors, TypeOK
<1>c. UNCHANGED <<units, part>> => (InHands(s)' <=> InHands(s))
  BY DEF InHands, GivenTo
<1>d. part' = Nothing => ~Doomed(s)'
  BY NothingIsPayment DEF Doomed, GivenTo
<1>1. CASE UNCHANGED <<units, part, dtx, status, subTx, node>>
  BY <1>1 DEF Back, Doomed, InHands, GivenTo
<1>2. CASE DropAirdrop
  <2>1. part' = Nothing /\ part = Nothing /\ units = {} /\ UNCHANGED <<status, subTx, node>>
    BY <1>0, <1>2 DEF DropAirdrop, SendInv, rows, chain
  <2>2. ~InHands(s)
    BY <2>1, NothingIsPayment DEF InHands
  <2> QED
    BY <1>d, <2>1, <2>2 DEF Back
<1>3. ASSUME NEW r \in Subs, Submit(r) PROVE Back(s) \/ Doomed(s)
  <2>1. UNCHANGED <<units, part, dtx, subTx, node>> /\ status[r] = "none"
        /\ \A q \in Subs : q # r => status'[q] = status[q]
    BY <1>0, <1>3 DEF Submit, dropper, chain, TypeOK
  <2>2. CASE s = r
    BY <1>c, <2>1, <2>2 DEF Back, Doomed, GivenTo
  <2>3. CASE s # r
    BY <1>c, <2>1, <2>3 DEF Back, Doomed, GivenTo
  <2> QED
    BY <2>2, <2>3
<1>4. ASSUME NEW t \in Txs, Settle(t) PROVE Back(s) \/ Doomed(s) \/ Setbacks + 1 <= Setbacks'
  <2>1. /\ UNCHANGED <<units, part, dtx, status, subTx>> /\ node[t] = "pending"
        /\ node' = [node EXCEPT ![t] = "ok"] \/ node' = [node EXCEPT ![t] = "reverted"]
    BY <1>4 DEF Settle, dropper, rows
  <2>2. CASE node'[t] = "reverted"
    BY <1>0, <2>1, <2>2, SetbacksGrow
  <2>3. CASE node'[t] # "reverted"
    <3>1. \A u \in Txs : node'[u] = "reverted" => node[u] = "reverted"
      BY <1>0, <2>1, <2>3 DEF TypeOK
    <3>2. status[s] = "sent" => subTx[s] \in Txs
      BY <1>0 DEF FiledInv, TypeOK
    <3>3. s \in GivenTo(part) => dtx \in Txs
      BY <1>0, NothingIsPayment DEF SendInv
    <3> QED
      BY <1>c, <2>1, <3>1, <3>2, <3>3 DEF Back, Doomed, GivenTo
  <2> QED
    BY <2>2, <2>3
<1>5. CASE DropSend
  <2>1. PICK B \in Batches(units, syncDrop), t \in Txs :
              /\ Send(t, Total(B)) /\ Total(B) \in Payment
              /\ part' = part \/ dtx' = t
    BY <1>0, <1>5, DropSendEffect
  <2>2. UNCHANGED <<status, subTx>> /\ part = Nothing
    BY <1>0, <1>5 DEF DropSend, SendInv, rows
  <2>3. node'[t] = "pending" /\ \A u \in Txs : u # t => node'[u] = node[u]
    BY <1>0, <2>1, SendEffect
  <2>4. ~Doomed(s)'
    BY <1>d, <2>1, <2>2, <2>3 DEF Doomed
  <2>5. Back(s)
    <3>1. status[s] = "sent" => subTx[s] \in Txs
      BY <1>0 DEF FiledInv, TypeOK
    <3>2. Back(s)'
      BY <2>4
    <3>3. ~InHands(s)
      BY <1>5, <3>2, SendKeepsHands DEF Back
    <3> QED
      BY <2>2, <2>3, <3>1, <3>2, <3>3 DEF Back
  <2> QED
    BY <2>5
<1>6. CASE DropSendLostAnswer \/ DropSendRefused \/ Crash
  <2>1. ~UNCHANGED errors
    BY <1>0, <1>b, <1>6 DEF DropSendLostAnswer, DropSendRefused, Crash, errors, TypeOK
  <2> QED
    BY <1>a, <2>1
<1>7. CASE DropInsertTx
  <2>1. UNCHANGED <<units, status, subTx, node>>
    BY <1>7 DEF DropInsertTx, rows, chain
  <2>2. CASE Fault
    BY <1>a, <1>b, <2>2
  <2>3. CASE UNCHANGED <<part, dtx>>
    BY <1>1, <2>1, <2>3
  <2>4. CASE Return /\ part.give = {}
    <3>1. GivenTo(part) = {} /\ part' = Nothing
      BY <2>4 DEF GivenTo, Return
    <3>2. InHands(s)' <=> InHands(s)
      BY <2>1, <3>1, NothingIsPayment DEF InHands, GivenTo
    <3> QED
      BY <1>d, <2>1, <3>1, <3>2 DEF Back
  <2> QED
    BY <1>7, <2>2, <2>3, <2>4 DEF DropInsertTx
<1>8. CASE DropUpdateSubs
  <2>1. UNCHANGED <<units, node>> /\ part' = Nothing
    BY <1>8 DEF DropUpdateSubs, Return, chain
  <2>2. CASE Fault
    BY <1>a, <1>b, <2>2
  <2>3. CASE ~Fault
    <3>1. IF s \in GivenTo(part)
          THEN status'[s] = "sent" /\ subTx'[s] = dtx
          ELSE status'[s] = status[s] /\ subTx'[s] = subTx[s]
      BY <1>8, <2>3 DEF DropUpdateSubs
    <3>2. s \notin GivenTo(part) => (InHands(s)' <=> InHands(s))
      BY <2>1, NothingIsPayment DEF InHands, GivenTo
    <3> QED
      BY <1>d, <2>1, <3>1, <3>2 DEF Back, Doomed
  <2> QED
    BY <2>2, <2>3
<1>9. CASE CheckSubs
  <2>1. UNCHANGED <<units, part, dtx, node, subTx>>
    BY <1>9 DEF CheckSubs, dropper, chain
  <2>2. /\ subTx[s] = ctx => status[s] = "sent" /\ status'[s] \in {"sent", "done", "failed"}
                              /\ (status'[s] = "failed" => node[ctx] = "reverted")
        /\ subTx[s] # ctx => status'[s] = status[s]
    <3>1. \/ IF subTx[s] = ctx
             THEN status'[s] = IF node[ctx] = "ok" THEN "done" ELSE "failed"
             ELSE status'[s] = status[s]
          \/ status'[s] = status[s]
      BY <1>0, <1>9, SettleEffect DEF rows
    <3>2. node[ctx] \in {"ok", "reverted"} /\ (subTx[s] = ctx => status[s] = "sent")
      BY <1>0, <1>9, SettleEffect DEF Filed
    <3> QED
      BY <3>1, <3>2
  <2> QED
    BY <1>c, <2>1, <2>2 DEF Back, Doomed, GivenTo
<1>10. CASE \/ Drop \/ AirdropTXRecycle \/ CheckTx \/ CheckCount \/ UNCHANGED vars
            \/ \E t \in Txs : CheckReceipt(t)
            \/ \E r \in Subs : Block(r)
            \/ \E p \in Promoters : InsertMainWallet(p)
  <2>1. UNCHANGED <<units, part, dtx, status, subTx, node>>
    BY <1>10 DEF Drop, AirdropTXRecycle, CheckTx, CheckCount, CheckReceipt, Block,
                 InsertMainWallet, vars, rows, dropper, chain
  <2> QED
    BY <1>1, <2>1
<1> QED
  BY <1>2, <1>3, <1>4, <1>5, <1>6, <1>7, <1>8, <1>9, <1>10 DEF Next, DropperStep, CheckerStep

-----------------------------------------------------------------------------
LEMMA LoadInit == Init => LoadInv
<1> SUFFICES ASSUME Init, NEW s \in Subs, NEW k \in {"give", "bonus"} PROVE LoadBound(k, s)
  BY DEF LoadInv
<1>1. TypeOK
  BY TypeInit
<1>2. \A t \in Txs : Items(k, pay[t], s) = {}
  BY NothingIsPayment DEF Init, Items
<1>3. OnChain(k, s) = {} /\ Planned(k, s) = {}
  BY <1>2 DEF Init, OnChain, Planned, Items, Total
<1>4. Load(k, s) = 0
  BY <1>3, FS_EmptySet DEF Load
<1>5. Setbacks \in Nat
  <2>1. IsFiniteSet({t \in Txs : node[t] = "reverted"})
    BY TxsFinite, FS_Subset
  <2>2. Cardinality({t \in Txs : node[t] = "reverted"}) \in Nat
    BY <2>1, FS_CardinalityType
  <2> QED
    BY <2>2 DEF Init, Setbacks
<1>6. Cardinality(Mains(s)) * Setbacks \in Nat /\ Cardinality(Mains(s)) * (1 + Setbacks) \in Nat
  <2>1. Cardinality(Mains(s)) \in Nat
    BY <1>1, MainsFinite
  <2>2. 1 + Setbacks \in Nat
    BY <1>5
  <2> QED
    BY <1>5, <2>1, <2>2, ProductsGrow
<1> QED
  BY <1>4, <1>6 DEF LoadBound

LEMMA LoadStep ==
    ASSUME IInv, TypeOK', [Next]_vars, LoadInv
    PROVE  LoadInv'
<1> SUFFICES ASSUME NEW s \in Subs, NEW k \in {"give", "bonus"}, k = "give" \/ OwnWallet(s)
             PROVE  LoadBound(k, s)'
  <2>1. \A s \in Subs : OwnWallet(s)' <=> OwnWallet(s)
    BY DEF OwnWallet
  <2> QED
    BY <2>1 DEF LoadInv
<1> DEFINE L == Load(k, s)  M == Cardinality(Mains(s))  S == Setbacks
           L1 == Load(k, s)'  M1 == Cardinality(Mains(s)')  S1 == Setbacks'
<1>0. TypeOK
  BY DEF IInv
<1>1. L \in Nat /\ L1 \in Nat
  BY <1>0, LoadTypes, LoadTypesNext
<1>2. M \in Nat /\ M1 \in Nat /\ M <= M1
  BY <1>0, MainsFinite, MainsGrow
<1>3. S \in Nat /\ S1 \in Nat /\ S <= S1
  BY <1>0, SetbacksGrow
<1>4. L <= M * (1 + S) /\ (Back(s) \/ Doomed(s) => L <= M * S)
  BY DEF LoadInv, LoadBound
<1>5. SUFFICES L1 <= M1 * (1 + S1) /\ (Back(s)' \/ Doomed(s)' => L1 <= M1 * S1)
  BY DEF LoadBound
<1>6. CASE ~DropAirdrop
  <2>1. L1 <= L
    BY <1>6, LoadKept
  <2>2. Back(s)' \/ Doomed(s)' => Back(s) \/ Doomed(s) \/ S + 1 <= S1
    BY BackHasCause
  <2> HIDE DEF L, L1, M, M1, S, S1
  <2>3. M * (1 + S) <= M1 * (1 + S1) /\ M * (1 + S) \in Nat /\ M1 * (1 + S1) \in Nat
    BY <1>2, <1>3, ProductsGrow
  <2>4. M * S <= M1 * S1 /\ M * S \in Nat /\ M1 * S1 \in Nat
    BY <1>2, <1>3, ProductsGrow
  <2>5. S + 1 <= S1 => M * (1 + S) <= M1 * S1
    BY <1>2, <1>3, ProductsGrow
  <2> QED
    BY <1>1, <1>4, <2>1, <2>2, <2>3, <2>4, <2>5
<1>7. CASE DropAirdrop
  <2>1. /\ part = Nothing /\ part' = Nothing /\ units = {} /\ pay' = pay
        /\ units' \in Plans(Owed, syncDrop)
        /\ UNCHANGED <<status, subTx, node, mains, errors>>
    BY <1>7 DEF DropAirdrop, IInv, DropperInv, SendInv, rows, chain
  <2>2. ~InHands(s)
    BY <2>1, NothingIsPayment DEF InHands
  <2>3. OnChain(k, s)' = OnChain(k, s) /\ Planned(k, s)' = Items(k, Total(units'), s)
    BY <2>1 DEF OnChain, Planned, Items, Total
  <2>4. /\ Cardinality(Planned(k, s)') <= M
        /\ Planned(k, s)' # {} => status[s] \in {"new", "failed"} /\ InHands(s)'
    <3>1. /\ Cardinality(Items(k, Total(units'), s)) <= M
          /\ Items(k, Total(units'), s) # {} =>
                status[s] \in {"new", "failed"} /\ \E u \in units' : s \in GivenTo(u)
      BY <1>0, <2>1, PlanLoad
    <3> QED
      BY <2>3, <3>1 DEF InHands, GivenTo
  <2>5. L1 = Cardinality(OnChain(k, s)) + Cardinality(Planned(k, s)')
    BY <2>3 DEF Load
  <2>6. /\ Cardinality(OnChain(k, s)) \in Nat /\ Cardinality(OnChain(k, s)) <= L
        /\ Cardinality(Planned(k, s)') \in Nat
    BY <1>0, LoadTypes, LoadTypesNext DEF Load
  <2>7. M1 = M /\ S1 = S
    BY <2>1 DEF Mains, Setbacks, errors
  <2>8. ~Doomed(s)'
    BY <2>1, NothingIsPayment DEF Doomed, GivenTo
  <2>9. CASE Planned(k, s)' = {}
    <3>1. Cardinality(Planned(k, s)') = 0
      BY <2>9, FS_EmptySet, Zenon
    <3>2. L1 <= L
      BY <1>1, <2>5, <2>6, <3>1
    <3>3. Back(s)' => Back(s)
      BY <2>1, <2>2 DEF Back
    <3> HIDE DEF L, L1, M, M1, S, S1
    <3>4. M * (1 + S) \in Nat /\ M * S \in Nat
      BY <1>2, <1>3, ProductsGrow
    <3> QED
      BY <1>1, <1>4, <2>7, <2>8, <3>2, <3>3, <3>4
  <2>10. CASE Planned(k, s)' # {}
    <3>1. Back(s) /\ ~Back(s)'
      BY <2>2, <2>4, <2>10 DEF Back
    <3> DEFINE C == Cardinality(OnChain(k, s))  P1 == Cardinality(Planned(k, s)')
    <3>2. P1 <= M /\ L1 = C + P1 /\ C <= L /\ C \in Nat /\ P1 \in Nat
      BY <2>4, <2>5, <2>6
    <3> HIDE DEF L, L1, M, M1, S, S1, C, P1
    <3>3. M * (1 + S) = M * S + M /\ M * S \in Nat
      BY <1>2, <1>3, ProductsGrow
    <3>4. L1 <= M * (1 + S)
      BY <1>1, <1>2, <1>4, <3>1, <3>2, <3>3
    <3> QED
      BY <2>7, <2>8, <3>1, <3>4
  <2> QED
    BY <2>9, <2>10
<1> QED
  BY <1>6, <1>7

(* What the chain carries bounds what was paid. *)
LEMMA GiveTxsOnChain ==
    ASSUME TypeOK, NEW s \in Subs
    PROVE  Cardinality(GiveTxs(s)) <= Load("give", s) /\ Cardinality(GiveTxs(s)) \in Nat
<1> DEFINE G == GiveTxs(s)  C == OnChain("give", s)
           f == [t \in G |-> <<t, CHOOSE r \in pay[t].give : r[1] = s>>]
<1>1. \A t \in G : t \in Txs /\ \E r \in pay[t].give : r[1] = s
  BY DEF GiveTxs, GivenTo
<1>2. \A t \in G : f[t] \in C
  <2> SUFFICES ASSUME NEW t \in G PROVE f[t] \in C
    OBVIOUS
  <2> DEFINE r == CHOOSE r \in pay[t].give : r[1] = s
  <2>1. t \in Txs /\ r \in pay[t].give /\ r[1] = s
    BY <1>1
  <2>2. f[t] = <<t, r>>
    OBVIOUS
  <2> HIDE DEF r
  <2>3. r \in Items("give", pay[t], s)
    BY <2>1 DEF Items
  <2>4. f[t] \in {t} \X Items("give", pay[t], s)
    BY <2>2, <2>3
  <2> HIDE DEF f
  <2> QED
    BY <2>1, <2>4 DEF OnChain
<1>3. \A x, y \in G : f[x] = f[y] => x = y
  OBVIOUS
<1>4. f \in [G -> C]
  BY <1>2
<1>5. IsFiniteSet(C) /\ Cardinality(C) \in Nat /\ Cardinality(Planned("give", s)) \in Nat
  BY LoadTypes
<1> HIDE DEF f, G, C
<1>6. IsFiniteSet(G) /\ Cardinality(G) <= Cardinality(C)
  BY <1>3, <1>4, <1>5, MappedSize
<1>7. Cardinality(G) \in Nat
  BY <1>6, FS_CardinalityType
<1>8. Cardinality(G) <= Load("give", s)
  BY <1>5, <1>6, <1>7 DEF Load, C
<1> QED
  BY <1>7, <1>8 DEF G

LEMMA BonusesOnChain ==
    ASSUME TypeOK, NEW s \in Subs
    PROVE  Cardinality(Bonuses(s)) <= Load("bonus", s)
<1>1. Bonuses(s) = OnChain("bonus", s)
  BY DEF Bonuses, OnChain, Items
<1> QED
  BY <1>1, LoadTypes DEF Load

-----------------------------------------------------------------------------
(***************************************************************************)
(* A submission with one row is paid less: beside the transaction it is    *)
(* recorded for and the one about to be recorded, each of its payments has *)
(* cost a fault.                                                           *)
(***************************************************************************)
Lost(s) == {t \in GiveTxs(s) : t # subTx[s] /\ ~(s \in GivenTo(part) /\ t = dtx)}

BoundInv == \A s \in Subs : Single(s) => Cardinality(Lost(s)) <= faults

LEMMA LostFinite ==
    ASSUME NEW s \in Subs
    PROVE  /\ IsFiniteSet(GiveTxs(s)) /\ IsFiniteSet(Lost(s))
           /\ Cardinality(GiveTxs(s)) \in Nat /\ Cardinality(Lost(s)) \in Nat
<1>1. GiveTxs(s) \subseteq Txs /\ Lost(s) \subseteq Txs
  BY DEF Lost, GiveTxs
<1>2. IsFiniteSet(GiveTxs(s)) /\ IsFiniteSet(Lost(s))
  BY <1>1, TxsFinite, FS_Subset
<1> QED
  BY <1>2, FS_CardinalityType

(* What is owed has no recorded transaction that pays. *)
LEMMA OwedIsUnpaid ==
    ASSUME IInv, NEW s \in Subs, Single(s), s \in GivenTo(part)
    PROVE  subTx[s] \notin GiveTxs(s)
<1>1. status[s] \in {"new", "failed"}
  BY DEF IInv, DropperInv, HandsInv, OnceInHands, InHands
<1> QED
  BY <1>1, TxsFacts DEF IInv, FiledInv, GiveTxs

(* A step adds at most one unrecorded payment, and then it is a fault. *)
LEMMA LostStep ==
    ASSUME IInv, [Next]_vars, NEW s \in Subs, Single(s)
    PROVE  \/ Lost(s)' \subseteq Lost(s) /\ faults' >= faults
           \/ faults' = faults + 1 /\ \E x : Lost(s)' \subseteq Lost(s) \union {x}
<1> DEFINE Goal == \/ Lost(s)' \subseteq Lost(s) /\ faults' >= faults
                   \/ faults' = faults + 1 /\ \E x : Lost(s)' \subseteq Lost(s) \union {x}
<1>0. TypeOK /\ faults \in Nat /\ SendInv
  BY DEF IInv, TypeOK, DropperInv
<1>1. CASE UNCHANGED <<chain, subTx, part, dtx>> /\ faults' = faults
  BY <1>0, <1>1 DEF Lost, GiveTxs, chain, GivenTo
<1>2. ASSUME NEW t \in Txs, Settle(t) PROVE Goal
  <2>1. \A u \in Txs : node'[u] \in {"pending", "ok"} => node[u] \in {"pending", "ok"}
    BY <1>0, <1>2 DEF Settle, TypeOK
  <2>2. UNCHANGED <<pay, subTx, part, dtx, faults>>
    BY <1>2 DEF Settle, rows, dropper, errors
  <2>3. Lost(s)' \subseteq Lost(s)
    BY <2>1, <2>2 DEF Lost, GiveTxs, GivenTo
  <2> QED
    BY <1>0, <2>2, <2>3
(* A send starts with nothing to record. *)
<1>3. ASSUME NEW B \in Batches(units, syncDrop), NEW t \in Txs, Send(t, Total(B)), dpc = "send",
             subTx' = subTx
      PROVE  /\ s \notin GivenTo(part)
             /\ GiveTxs(s)' \subseteq GiveTxs(s) \union {t}
             /\ t \in GiveTxs(s)' => s \in GivenTo(Total(B))
  <2>1. s \notin GivenTo(part)
    BY <1>0, <1>3, NothingIsPayment DEF SendInv
  <2>2. pay'[t] = Total(B) /\ \A u \in Txs : u # t => node'[u] = node[u] /\ pay'[u] = pay[u]
    BY <1>0, <1>3, BatchIsPayment, SendEffect DEF TypeOK
  <2>3. GiveTxs(s)' = {u \in Txs : s \in GivenTo(pay'[u]) /\ node'[u] \in {"pending", "ok"}}
    BY DEF GiveTxs, GivenTo
  <2> QED
    BY <2>1, <2>2, <2>3 DEF GiveTxs
<1>4. CASE DropSend
  <2>1. PICK B \in Batches(units, syncDrop), t \in Txs :
          /\ Send(t, Total(B))
          /\ \/ Total(B).give = {} /\ part' = part
             \/ part' = Total(B) /\ dtx' = t
    BY <1>0, <1>4, DropSendEffect
  <2>2. dpc = "send" /\ subTx' = subTx /\ faults' = faults
    BY <1>4 DEF DropSend, rows, errors
  <2>3. /\ s \notin GivenTo(part)
        /\ GiveTxs(s)' \subseteq GiveTxs(s) \union {t}
        /\ t \in GiveTxs(s)' => s \in GivenTo(Total(B))
    BY <1>3, <2>1, <2>2
  <2>4. Total(B).give = {} => GivenTo(Total(B)) = {}
    BY DEF GivenTo
  <2>5. GivenTo(part)' = GivenTo(part')
    BY DEF GivenTo
  <2>6. Lost(s)' \subseteq Lost(s)
    BY <2>1, <2>2, <2>3, <2>4, <2>5 DEF Lost
  <2> QED
    BY <1>0, <2>2, <2>6
<1>5. CASE DropSendLostAnswer
  <2>1. PICK B \in Batches(units, syncDrop), t \in Txs : Send(t, Total(B))
    BY <1>5 DEF DropSendLostAnswer
  <2>2. dpc = "send" /\ subTx' = subTx /\ part' = part /\ faults' = faults + 1
    BY <1>5 DEF DropSendLostAnswer, Fault, rows
  <2>3. s \notin GivenTo(part) /\ GiveTxs(s)' \subseteq GiveTxs(s) \union {t}
    BY <1>3, <2>1, <2>2
  <2>4. Lost(s)' \subseteq Lost(s) \union {t}
    BY <2>2, <2>3 DEF Lost
  <2> QED
    BY <2>2, <2>4
(* Giving up recording loses the transaction at hand. *)
<1>6. CASE UNCHANGED <<chain, subTx>> /\ faults' = faults + 1
  <2>1. GiveTxs(s)' = GiveTxs(s)
    BY <1>6 DEF GiveTxs, chain, GivenTo
  <2>2. Lost(s)' \subseteq Lost(s) \union {dtx}
    BY <1>6, <2>1 DEF Lost
  <2> QED
    BY <1>6, <2>2
<1>7. CASE DropInsertTx
  <2>1. UNCHANGED <<chain, subTx>>
    BY <1>7 DEF DropInsertTx, rows
  <2>2. \/ faults' = faults + 1
        \/ UNCHANGED <<part, dtx>> /\ faults' = faults
        \/ part.give = {} /\ faults' = faults
    BY <1>7 DEF DropInsertTx, Fault, errors
  <2>3. CASE part.give = {} /\ faults' = faults
    <3>1. GivenTo(part) = {}
      BY <2>3 DEF GivenTo
    <3>2. GiveTxs(s)' = GiveTxs(s)
      BY <2>1 DEF GiveTxs, chain, GivenTo
    <3>3. Lost(s)' \subseteq Lost(s)
      BY <2>1, <3>1, <3>2 DEF Lost
    <3> QED
      BY <1>0, <2>3, <3>3
  <2> QED
    BY <1>1, <1>6, <2>1, <2>2, <2>3
<1>8. CASE DropUpdateSubs
  <2>1. UNCHANGED chain
    BY <1>8 DEF DropUpdateSubs
  <2>2. CASE UNCHANGED subTx /\ faults' = faults + 1
    BY <1>6, <2>1, <2>2
  <2>3. CASE faults' = faults /\ subTx' = [r \in Subs |-> IF r \in GivenTo(part) THEN dtx ELSE subTx[r]]
    <3>1. s \in GivenTo(part) => subTx[s] \notin GiveTxs(s)
      BY OwedIsUnpaid
    <3>2. subTx'[s] = IF s \in GivenTo(part) THEN dtx ELSE subTx[s]
      BY <2>3
    <3>3. GiveTxs(s)' = GiveTxs(s)
      BY <2>1 DEF GiveTxs, chain, GivenTo
    <3>4. Lost(s)' \subseteq Lost(s)
      BY <3>1, <3>2, <3>3 DEF Lost
    <3> QED
      BY <1>0, <2>3, <3>4
  <2> QED
    BY <1>8, <2>2, <2>3 DEF DropUpdateSubs, Fault, errors
<1>9. CASE Crash
  BY <1>6, <1>9 DEF Crash, Fault, rows
<1>10. CASE Drop \/ DropAirdrop \/ DropSendRefused
  BY <1>1, <1>10 DEF Drop, DropAirdrop, DropSendRefused, rows, errors
<1>11. CASE CheckerStep
  BY <1>1, <1>11 DEF CheckerStep, CheckReceipt, CheckTx, CheckSubs, CheckCount,
                     rows, dropper, errors
<1>12. CASE (\E r \in Subs : Submit(r) \/ Block(r)) \/ \E p \in Promoters : InsertMainWallet(p)
  BY <1>1, <1>12 DEF Submit, Block, InsertMainWallet, rows, dropper, errors
<1>13. CASE AirdropTXRecycle \/ UNCHANGED vars
  BY <1>1, <1>13 DEF AirdropTXRecycle, vars, rows, dropper, errors
<1> QED
  BY <1>2, <1>4, <1>5, <1>7, <1>8, <1>9, <1>10, <1>11, <1>12, <1>13 DEF Next, DropperStep

LEMMA BoundStep == IInv /\ BoundInv /\ [Next]_vars => BoundInv'
<1> SUFFICES ASSUME IInv, BoundInv, [Next]_vars, NEW s \in Subs, Single(s)'
             PROVE  Cardinality(Lost(s)') <= faults'
  BY DEF BoundInv
<1>0. Single(s) /\ faults \in Nat
  BY MainsGrow DEF IInv, TypeOK
<1>1. IsFiniteSet(Lost(s)) /\ Cardinality(Lost(s)) <= faults /\ Cardinality(Lost(s)) \in Nat
  BY <1>0, LostFinite DEF BoundInv
<1>3. CASE Lost(s)' \subseteq Lost(s) /\ faults' >= faults
  <2>1. Cardinality(Lost(s)') <= Cardinality(Lost(s)) /\ Cardinality(Lost(s)') \in Nat
    BY <1>1, <1>3, FS_Subset, FS_CardinalityType
  <2>2. faults' \in Nat
    BY InvStep DEF IInv, TypeOK
  <2> QED
    BY <1>0, <1>1, <1>3, <2>1, <2>2
<1>4. CASE faults' = faults + 1 /\ \E x : Lost(s)' \subseteq Lost(s) \union {x}
  <2>1. IsFiniteSet(Lost(s)') /\ Cardinality(Lost(s)') <= Cardinality(Lost(s)) + 1
    BY <1>1, <1>4, OneMore
  <2>2. Cardinality(Lost(s)') \in Nat
    BY <2>1, FS_CardinalityType
  <2> QED
    BY <1>0, <1>1, <1>4, <2>1, <2>2
<1> QED
  BY <1>0, <1>3, <1>4, LostStep

(* A give-out is paid once and once more for each fault, however the       *)
(* dropper, the checker, retries and crashes interleave.  Where sync_drop  *)
(* meets a promoter with several main wallets, every pass that takes the   *)
(* submission up may pay it for each of them, and only the first pass and  *)
(* one after each setback take it up.                                      *)
THEOREM PaymentsAreBounded == Spec => []PaymentsBound
<1>1. Init => BoundInv
  <2> SUFFICES ASSUME Init, NEW s \in Subs PROVE Cardinality(Lost(s)) <= faults
    BY DEF BoundInv
  <2>1. Lost(s) = {}
    BY DEF Init, Lost, GiveTxs
  <2> QED
    BY <2>1, FS_EmptySet DEF Init
<1>2. IInv /\ BoundInv /\ LoadInv => PaymentsBound
  <2> SUFFICES ASSUME IInv, BoundInv, LoadInv, NEW s \in Subs
               PROVE  Cardinality(GiveTxs(s)) <=
                         IF Single(s) THEN 1 + faults ELSE Cardinality(Mains(s)) * (1 + Setbacks)
    BY DEF PaymentsBound
  <2>0. TypeOK
    BY DEF IInv
  <2>1. CASE Single(s)
    <3>1. \E x : GiveTxs(s) \subseteq Lost(s) \union {x}
      <4>1. CASE s \in GivenTo(part)
        <5>1. GiveTxs(s) \subseteq Lost(s) \union {dtx}
          BY <2>1, <4>1, OwedIsUnpaid DEF Lost
        <5> QED
          BY <5>1
      <4>2. CASE s \notin GivenTo(part)
        <5>1. GiveTxs(s) \subseteq Lost(s) \union {subTx[s]}
          BY <4>2 DEF Lost
        <5> QED
          BY <5>1
      <4> QED
        BY <4>1, <4>2
    <3>2. Cardinality(GiveTxs(s)) <= Cardinality(Lost(s)) + 1
      BY <3>1, LostFinite, OneMore
    <3>3. Cardinality(Lost(s)) <= faults /\ faults \in Nat
      BY <2>0, <2>1 DEF BoundInv, TypeOK
    <3> QED
      BY <2>1, <3>2, <3>3, LostFinite
  <2>2. CASE ~Single(s)
    <3>1. Load("give", s) <= Cardinality(Mains(s)) * (1 + Setbacks)
      BY DEF LoadInv, LoadBound
    <3>2. Cardinality(GiveTxs(s)) <= Load("give", s) /\ Cardinality(GiveTxs(s)) \in Nat
      BY <2>0, GiveTxsOnChain
    <3>3. Load("give", s) \in Nat
      BY <2>0, LoadTypes
    <3>4. Cardinality(Mains(s)) * (1 + Setbacks) \in Nat
      <4>1. Cardinality(Mains(s)) \in Nat /\ Setbacks \in Nat
        BY <2>0, MainsFinite, SetbacksType
      <4>2. 1 + Setbacks \in Nat
        BY <4>1
      <4> QED
        BY <4>1, <4>2, ProductsGrow
    <3> QED
      BY <2>2, <3>1, <3>2, <3>3, <3>4
  <2> QED
    BY <2>1, <2>2
<1>3. IInv /\ LoadInv /\ [Next]_vars => LoadInv'
  <2>1. IInv /\ [Next]_vars => TypeOK'
    BY TypeStep DEF IInv
  <2> QED
    BY <2>1, LoadStep
<1> QED
  BY <1>1, <1>2, <1>3, LoadInit, InvInit, InvStep, BoundStep, PTL DEF Spec

-----------------------------------------------------------------------------
(***************************************************************************)
(* Why a submission earns a bonus at all.  Whatever a pass has taken up is *)
(* followed by its bonus, planned or on the chain, or there is an excuse.  *)
(***************************************************************************)
Excused(s) ==
    \E w \in Mains(s) :
        LET earners == IF Referred(<<s, w>>) THEN {Referrer[s]}
                       ELSE UNION {Mains(r) : r \in Subs}
        IN \E r \in Subs : /\ Wallet[r] \in earners
                           /\ r = s \/ (r < s /\ ~syncDrop)
Carries(u, s) == \E b \in u.bonus : b[1][1] = s
Treated(s) == InHands(s) \/ status[s] \in {"sent", "done"}
Paying(s) == BonusTxs(s) # {} \/ (\E u \in units : Carries(u, s)) \/ Excused(s)

KeptInv == Setbacks = 0 => \A s \in Subs : OwnWallet(s) /\ Treated(s) => Paying(s)

LEMMA PlanKept ==
    ASSUME TypeOK, NEW plan \in Plans(Owed, syncDrop), NEW s \in Subs,
           NEW u \in plan, s \in GivenTo(u)
    PROVE  (\E v \in plan : Carries(v, s)) \/ Excused(s)
<1>1. PICK promo \in Wallets : /\ promo \in PromoWallets(Owed)
                               /\ plan = PlanOf(Owed, promo, syncDrop)
                               /\ GoodPlan(plan, Owed, promo, syncDrop)
  BY OwedAreRows, PlanIsGood DEF TypeOK
<1>2. PICK r \in Owed : r[1] = s
  BY <1>1 DEF GoodPlan, GivenTo
<1>3. PICK top \in Owed : promo = top[2]
  BY <1>1, OwedAreRows, PromoWalletFacts
<1>4. /\ r = <<s, r[2]>> /\ r[2] \in Mains(s) /\ r \in Row
      /\ top[1] \in Subs /\ promo \in Mains(top[1])
  BY <1>2, <1>3 DEF Owed, Rows, Row
<1>5. promo \in UNION {Mains(q) : q \in Subs}
  BY <1>4
<1>6. CASE ~Earns(r, promo)
  <2>1. ~Referred(<<s, r[2]>>) /\ Wallet[s] = promo
    BY <1>2, <1>4, <1>6 DEF Earns
  <2> QED
    BY <1>4, <1>5, <2>1 DEF Excused
<1>7. CASE Earns(r, promo) /\ syncDrop
  <2>1. CASE Referred(r)
    <3>1. ReferralTransfer(r) \in plan
      BY <1>1, <1>2, <1>7, <2>1 DEF PlanOf, SyncTransfers
    <3>2. Carries(ReferralTransfer(r), s)
      BY <1>2 DEF ReferralTransfer, Carries
    <3> QED
      BY <3>1, <3>2
  <2>2. CASE ~Referred(r)
    <3> DEFINE promoted == {q \in Owed : ~Referred(q) /\ Earns(q, promo)}
               lump == [give |-> {}, bonus |-> promoted \X {promo}]
    <3>1. r \in promoted
      BY <1>2, <1>7, <2>2
    <3>2. <<r, promo>> \in lump.bonus
      BY <3>1
    <3>3. lump # Nothing
      BY <3>2, NothingIsPayment
    <3>4. lump \in plan
      BY <1>1, <1>7, <3>3 DEF PlanOf, SyncTransfers
    <3>5. Carries(lump, s)
      BY <1>2, <3>2 DEF Carries
    <3> QED
      BY <3>4, <3>5
  <2> QED
    BY <2>1, <2>2
<1>8. CASE Earns(r, promo) /\ ~syncDrop
  <2> DEFINE e == Earner(r, promo)  v == WalletUnit(Owed, promo, e)
  <2>1. e \in Wallets
    BY <1>4, EarnerIsWallet
  <2>2. UnitSays(v, Owed, promo, e)
    BY <2>1, OwedAreRows, UnitFacts
  <2>3. CASE \A q \in Owed : Wallet[q[1]] = e => s < q[1]
    <3> DEFINE b == <<r, e>>
    <3>1. b = <<b[1], e>> /\ b[1] = r
      OBVIOUS
    <3>2. b \in v.bonus
      <4> HIDE DEF b, v, e
      <4>1. \A q \in Owed : Wallet[q[1]] = e => b[1][1] < q[1]
        BY <1>2, <2>3, <3>1
      <4>2. Earns(b[1], promo) /\ Earner(b[1], promo) = e
        BY <1>8, <3>1 DEF e
      <4> QED
        BY <1>2, <2>2, <3>1, <4>1, <4>2 DEF UnitSays
    <3>3. Carries(v, s)
      BY <1>2, <3>1, <3>2 DEF Carries
    <3>4. v # Nothing
      BY <3>2, NothingIsPayment
    <3>5. v \in plan
      BY <1>1, <1>8, <2>1, <3>4 DEF PlanOf, ChunkRecipients
    <3> QED
      BY <3>3, <3>5
  <2>4. CASE ~ \A q \in Owed : Wallet[q[1]] = e => s < q[1]
    <3>1. PICK q \in Owed : Wallet[q[1]] = e /\ ~(s < q[1])
      BY <2>4
    <3>2. q[1] \in Subs /\ (q[1] = s \/ q[1] < s)
      BY <3>1, OwedAreRows, RowFacts, PlanConstants
    <3>3. Wallet[q[1]] \in IF Referred(<<s, r[2]>>) THEN {Referrer[s]}
                           ELSE UNION {Mains(o) : o \in Subs}
      BY <1>2, <1>4, <1>5, <3>1 DEF Earner
    <3> QED
      BY <1>4, <1>8, <3>2, <3>3 DEF Excused
  <2> QED
    BY <2>3, <2>4
<1> QED
  BY <1>6, <1>7, <1>8

(* An excuse is not lost by another main wallet. *)
LEMMA ExcusedStays ==
    ASSUME TypeOK, [Next]_vars, NEW s \in Subs, Excused(s)
    PROVE  Excused(s)'
<1>1. \A r \in Subs : Mains(r) \subseteq Mains(r)'
  BY MainsGrow
<1>2. syncDrop' = syncDrop
  BY MainsStep
<1>3. PICK w \in Mains(s), r \in Subs :
         /\ Wallet[r] \in IF Referred(<<s, w>>) THEN {Referrer[s]}
                          ELSE UNION {Mains(q) : q \in Subs}
         /\ r = s \/ (r < s /\ ~syncDrop)
  BY DEF Excused
<1>4. w \in Mains(s)'
  BY <1>1, <1>3
<1>5. UNION {Mains(q) : q \in Subs} \subseteq UNION {Mains(q)' : q \in Subs}
  BY <1>1
<1>6. Wallet[r] \in IF Referred(<<s, w>>) THEN {Referrer[s]}
                    ELSE UNION {Mains(q)' : q \in Subs}
  BY <1>3, <1>5
<1>7. \E x \in Mains(s)', y \in Subs :
         /\ Wallet[y] \in IF Referred(<<s, x>>) THEN {Referrer[s]}
                          ELSE UNION {Mains(q)' : q \in Subs}
         /\ y = s \/ (y < s /\ ~syncDrop')
  BY <1>2, <1>3, <1>4, <1>6
<1> QED
  BY <1>7 DEF Excused

(* Without an error a submission is taken up by a plan only, and what is   *)
(* planned as its bonus is not dropped.                                    *)
LEMMA TreatedByPlan ==
    ASSUME IInv, [Next]_vars, ~DropAirdrop, UNCHANGED errors, NEW s \in Subs, Treated(s)'
    PROVE  Treated(s)
<1>0. TypeOK /\ DropperInv /\ CheckerInv
  BY DEF IInv
<1>1. CASE DropSend
  BY <1>1, SendKeepsHands DEF Treated, DropSend, rows
<1>2. CASE DropUpdateSubs
  <2>1. units' = units /\ part' = Nothing
    BY <1>2 DEF DropUpdateSubs, Return
  <2>2. InHands(s)' => InHands(s)
    BY <2>1, NothingIsPayment DEF InHands, GivenTo
  <2>3. status'[s] = status[s] \/ s \in GivenTo(part)
    BY <1>0, <1>2, UpdateEffect DEF rows
  <2> QED
    BY <2>2, <2>3 DEF Treated, InHands
<1>3. CASE ~DropSend /\ ~DropUpdateSubs
  <2>1. units' \subseteq units /\ (part' = part \/ part' = Nothing)
    <3>1. CASE DropperStep
      BY <1>3, <3>1 DEF DropperStep, Drop, DropSendLostAnswer, DropSendRefused, DropInsertTx, Return
    <3>2. CASE CheckerStep
      BY <3>2 DEF CheckerStep, CheckReceipt, CheckTx, CheckSubs, CheckCount, dropper
    <3>3. CASE \/ \E r \in Subs : Submit(r) \/ Block(r)
               \/ \E t \in Txs : Settle(t)
               \/ \E p \in Promoters : InsertMainWallet(p)
      BY <3>3 DEF Submit, Block, Settle, InsertMainWallet, dropper
    <3>4. CASE AirdropTXRecycle \/ Crash \/ UNCHANGED vars
      BY <3>4 DEF AirdropTXRecycle, Crash, vars, dropper
    <3> QED
      BY <3>1, <3>2, <3>3, <3>4 DEF Next
  <2>2. InHands(s)' => InHands(s)
    BY <2>1, NothingIsPayment DEF InHands, GivenTo
  <2>3. status'[s] \in {"sent", "done"} => status[s] \in {"sent", "done"}
    <3>1. CASE UNCHANGED rows
      BY <3>1 DEF rows
    <3>2. ASSUME NEW r \in Subs, Submit(r)
          PROVE  status'[s] \in {"sent", "done"} => status[s] \in {"sent", "done"}
      BY <1>0, <3>2 DEF Submit, TypeOK
    <3>3. CASE CheckSubs
      BY <1>0, <3>1, <3>3, SettleEffect DEF Filed
    <3> QED
      BY <1>3, <3>1, <3>2, <3>3, RowsStep
  <2> QED
    BY <2>2, <2>3 DEF Treated
<1> QED
  BY <1>1, <1>2, <1>3

LEMMA PayingStays ==
    ASSUME IInv, [Next]_vars, ~DropAirdrop, UNCHANGED errors, NEW s \in Subs, Paying(s)
    PROVE  Paying(s)'
<1>0. TypeOK /\ SendInv /\ faults \in Nat /\ refused \in Nat
  BY DEF IInv, DropperInv, TypeOK
<1>a. ~Fault /\ ~DropSendRefused
  BY <1>0 DEF Fault, errors, DropSendRefused
<1>b. CASE Excused(s)
  BY <1>0, <1>b, ExcusedStays DEF Paying
<1>c. ASSUME UNCHANGED <<pay, units>>, ~Excused(s) PROVE Paying(s)'
  BY <1>c DEF Paying, BonusTxs, Carries
<1>1. CASE DropSend /\ ~Excused(s)
  <2>1. PICK B \in Batches(units, syncDrop), t \in Txs :
              Send(t, Total(B)) /\ Total(B) \in Payment /\ units' = units \ B
    BY <1>0, <1>1, DropSendEffect
  <2>2. /\ node[t] = "none" /\ pay'[t] = Total(B)
        /\ \A v \in Txs : v # t => pay'[v] = pay[v]
    BY <1>0, <2>1, SendEffect
  <2>3. CASE BonusTxs(s) # {}
    <3>1. PICK v \in Txs : \E b \in pay[v].bonus : b[1][1] = s
      BY <2>3 DEF BonusTxs
    <3>2. v # t
      BY <1>0, <2>2, <3>1, NothingIsPayment DEF SendInv
    <3> QED
      BY <2>2, <3>1, <3>2 DEF Paying, BonusTxs
  <2>4. ASSUME NEW u \in units, Carries(u, s) PROVE Paying(s)'
    <3>1. CASE u \in B
      <4>1. PICK b \in u.bonus : b[1][1] = s
        BY <2>4 DEF Carries
      <4>2. b \in pay'[t].bonus
        BY <2>2, <3>1, <4>1 DEF Total
      <4> QED
        BY <4>1, <4>2 DEF Paying, BonusTxs
    <3>2. CASE u \notin B
      BY <2>1, <2>4, <3>2 DEF Paying, Carries
    <3> QED
      BY <3>1, <3>2
  <2> QED
    BY <1>1, <2>3, <2>4 DEF Paying
<1>2. CASE UNCHANGED <<pay, units>>
  BY <1>b, <1>c, <1>2
<1>3. CASE Drop \/ DropInsertTx \/ DropUpdateSubs \/ DropSendLostAnswer \/ Crash
  BY <1>2, <1>3, <1>a DEF Drop, DropInsertTx, DropUpdateSubs, Return, chain,
                          DropSendLostAnswer, Crash
<1>4. CASE CheckerStep
  BY <1>2, <1>4 DEF CheckerStep, CheckReceipt, CheckTx, CheckSubs, CheckCount, dropper, chain
<1>5. CASE \/ \E r \in Subs : Submit(r) \/ Block(r)
           \/ \E t \in Txs : Settle(t)
           \/ \E p \in Promoters : InsertMainWallet(p)
  BY <1>2, <1>5 DEF Submit, Block, Settle, InsertMainWallet, dropper, chain
<1>6. CASE AirdropTXRecycle \/ UNCHANGED vars
  BY <1>2, <1>6 DEF AirdropTXRecycle, vars, dropper, chain
<1> QED
  BY <1>a, <1>b, <1>1, <1>3, <1>4, <1>5, <1>6 DEF Next, DropperStep

LEMMA KeptStep == IInv /\ KeptInv /\ [Next]_vars => KeptInv'
<1> SUFFICES ASSUME IInv, KeptInv, [Next]_vars, Setbacks' = 0,
                    NEW s \in Subs, OwnWallet(s), Treated(s)'
             PROVE  Paying(s)'
  BY DEF KeptInv, OwnWallet
<1>0. TypeOK /\ SendInv
  BY DEF IInv, DropperInv
<1>1. Setbacks = 0 /\ UNCHANGED errors
  BY <1>0, SetbacksGrow
<1>2. Treated(s) => Paying(s)
  BY <1>1 DEF KeptInv
<1>3. CASE ~DropAirdrop
  BY <1>1, <1>2, <1>3, TreatedByPlan, PayingStays
<1>4. CASE DropAirdrop
  <2>1. /\ part' = Nothing /\ units = {} /\ units' \in Plans(Owed, syncDrop)
        /\ UNCHANGED <<status, pay>>
    BY <1>0, <1>4 DEF DropAirdrop, SendInv, rows, chain
  <2>2. CASE InHands(s)'
    <3>1. PICK u \in units' : s \in GivenTo(u)
      BY <2>1, <2>2, NothingIsPayment DEF InHands, GivenTo
    <3>2. (\E v \in units' : Carries(v, s)) \/ Excused(s)
      BY <1>0, <2>1, <3>1, PlanKept
    <3> QED
      BY <1>0, <3>2, ExcusedStays DEF Paying, Carries
  <2>3. CASE ~InHands(s)'
    <3>1. Paying(s)
      BY <1>2, <2>1, <2>3 DEF Treated
    <3>2. BonusTxs(s)' = BonusTxs(s)
      BY <2>1 DEF BonusTxs
    <3> QED
      BY <1>0, <2>1, <3>1, <3>2, ExcusedStays DEF Paying
  <2> QED
    BY <2>2, <2>3
<1> QED
  BY <1>3, <1>4

(* A submission with a wallet of its own earns at most one bonus for each  *)
(* main wallet of its promoter and each pass that takes it up, and while   *)
(* nothing goes wrong the first pass pays it one, unless nobody is to have *)
(* it or the entry of its earner is overwritten.                           *)
THEOREM BonusesArePaidOnce == Spec => []BonusOnceEach
<1>1. Init => KeptInv
  <2> SUFFICES ASSUME Init, NEW s \in Subs PROVE ~Treated(s)
    BY DEF KeptInv
  <2> QED
    BY NothingIsPayment DEF Init, Treated, InHands
<1>2. IInv /\ LoadInv /\ KeptInv => BonusOnceEach
  <2> SUFFICES ASSUME IInv, LoadInv, KeptInv PROVE BonusOnceEach
    OBVIOUS
  <2>0. TypeOK /\ SendInv
    BY DEF IInv, DropperInv
  <2>1. BonusBound
    <3> SUFFICES ASSUME NEW s \in Subs, OwnWallet(s)
                 PROVE  Cardinality(Bonuses(s)) <= Cardinality(Mains(s)) * (1 + Setbacks)
      BY DEF BonusBound
    <3>1. Load("bonus", s) <= Cardinality(Mains(s)) * (1 + Setbacks)
      BY DEF LoadInv, LoadBound
    <3>2. Bonuses(s) = OnChain("bonus", s)
      BY DEF Bonuses, OnChain, Items
    <3>3. Cardinality(Bonuses(s)) <= Load("bonus", s) /\ Cardinality(Bonuses(s)) \in Nat
      BY <2>0, <3>2, BonusesOnChain, LoadTypes
    <3>4. Load("bonus", s) \in Nat
      BY <2>0, LoadTypes
    <3>5. Cardinality(Mains(s)) * (1 + Setbacks) \in Nat
      <4>1. Cardinality(Mains(s)) \in Nat /\ Setbacks \in Nat
        BY <2>0, MainsFinite, SetbacksType
      <4>2. 1 + Setbacks \in Nat
        BY <4>1
      <4> QED
        BY <4>1, <4>2, ProductsGrow
    <3> QED
      BY <3>1, <3>3, <3>4, <3>5
  <2>2. BonusKept
    <3> SUFFICES ASSUME Setbacks = 0, dpc = "idle", NEW s \in Subs,
                        OwnWallet(s), status[s] \in {"sent", "done"}, BonusTxs(s) = {}
                 PROVE  Excused(s)
      BY DEF BonusKept, Excused
    <3>1. Paying(s)
      BY DEF KeptInv, Treated
    <3> QED
      BY <2>0, <3>1 DEF Paying, SendInv
  <2> QED
    BY <2>0, <2>1, <2>2 DEF BonusOnceEach
<1>3. IInv /\ LoadInv /\ [Next]_vars => LoadInv'
  <2>1. IInv /\ [Next]_vars => TypeOK'
    BY TypeStep DEF IInv
  <2> QED
    BY <2>1, LoadStep
<1> QED
  BY <1>1, <1>2, <1>3, LoadInit, KeptStep, InvInit, InvStep, PTL DEF Spec

-----------------------------------------------------------------------------
(***************************************************************************)
(* What an airdrop pays and books.  The money plans with its own name of   *)
(* the operators of the payout.                                            *)
(***************************************************************************)

LEMMA SameMoneyCount == \A S : /\ Money!IsFiniteSet(S) <=> IsFiniteSet(S)
                               /\ Money!Cardinality(S) = Cardinality(S)
<1>1. \A S : Money!IsFiniteSet(S) <=> IsFiniteSet(S)
  BY DEF Money!IsFiniteSet, IsFiniteSet
<1>2. \A S : Money!Cardinality(S) = Cardinality(S)
  BY DEF Money!Cardinality, Cardinality
<1> QED
  BY <1>1, <1>2

LEMMA SamePayments ==
    /\ Money!Row = Row /\ Money!Payment = Payment /\ Money!Nothing = Nothing
    /\ \A p : Money!GivenTo(p) = GivenTo(p)
    /\ \A B : Money!Total(B) = Total(B)
  BY DEF Money!Row, Row, Money!Payment, Payment, Money!Nothing, Nothing,
         Money!GivenTo, GivenTo, Money!Total, Total

LEMMA SamePlans == \A R, s : Money!Plans(R, s) = Plans(R, s)
<1>1. \A R : Money!PromoWallets(R) = PromoWallets(R)
  BY DEF Money!PromoWallets, PromoWallets
<1>2. \A r : Money!Referred(r) <=> Referred(r)
  BY DEF Money!Referred, Referred
<1>3. \A r, promo : /\ Money!Earns(r, promo) <=> Earns(r, promo)
                    /\ Money!Earner(r, promo) = Earner(r, promo)
  BY <1>2 DEF Money!Earns, Earns, Money!Earner, Earner
<1>4. \A R, promo, w : Money!WalletUnit(R, promo, w) = WalletUnit(R, promo, w)
  <2> SUFFICES ASSUME NEW R, NEW promo, NEW w
               PROVE  Money!WalletUnit(R, promo, w) = WalletUnit(R, promo, w)
    OBVIOUS
  <2> DEFINE own == {r \in R : Wallet[r[1]] = w}
             last == {r \in own : \A q \in own : r[1] <= q[1]}
             give == IF own = {} THEN {} ELSE {CHOOSE r \in last : TRUE}
             one == {r \in R : /\ Money!Earns(r, promo) /\ Money!Earner(r, promo) = w
                               /\ \A q \in own : r[1] < q[1]}
             two == {r \in R : /\ Earns(r, promo) /\ Earner(r, promo) = w
                               /\ \A q \in own : r[1] < q[1]}
  <2>1. one = two
    <3> HIDE DEF own
    <3> QED
      BY <1>3
  <2>2. Money!WalletUnit(R, promo, w) = [give |-> give, bonus |-> one \X {w}]
    BY DEF Money!WalletUnit
  <2>3. WalletUnit(R, promo, w) = [give |-> give, bonus |-> two \X {w}]
    BY DEF WalletUnit
  <2> HIDE DEF give, one, two
  <2> QED
    BY <2>1, <2>2, <2>3
<1>5. \A R, promo : Money!ChunkRecipients(R, promo) = ChunkRecipients(R, promo)
  BY <1>4, SamePayments DEF Money!ChunkRecipients, ChunkRecipients
<1>6. \A R, promo : Money!SyncTransfers(R, promo) = SyncTransfers(R, promo)
  BY <1>2, <1>3, SamePayments
     DEF Money!SyncTransfers, SyncTransfers, Money!GiveOutTransfer, GiveOutTransfer,
         Money!ReferralTransfer, ReferralTransfer
<1> QED
  BY <1>1, <1>5, <1>6 DEF Money!Plans, Plans

-----------------------------------------------------------------------------
(***************************************************************************)
(* A payment that is neither repriced nor booked has the price of the row, *)
(* and as long as it is not booked, all its submissions are recorded for   *)
(* it or none of them awaits its receipt: so the checker books one         *)
(* give-out and one bonus, at its price, for each submission it paid.      *)
(*                                                                         *)
(* A pass that had enough when it read the balance, selected no more rows  *)
(* than it had counted, and was not robbed since, has enough for all its   *)
(* payments the node has still to mine and all it has still to send: these *)
(* are apart, so each that is mined takes as much from what is owed as     *)
(* from the wallet.                                                        *)
(***************************************************************************)

Withdrawal == [kind : {"withdraw"}, asked : Nat, amount : Nat, state : {"pending", "good", "failed"}]
Transfer == [kind : {"pay"}, paid : Payment, price : GiveOut, amount : Nat,
             enough : BOOLEAN, grown : BOOLEAN, robbed : BOOLEAN, pass : Nat,
             repriced : BOOLEAN, state : {"pending", "good", "failed"}]
MoneyTx == Withdrawal \union Transfer
Passes == [step : {"idle", "count", "select", "send"}, price : Nat, balance : Nat,
           counted : Nat, todo : SUBSET Payment, enough : BOOLEAN, grown : BOOLEAN,
           robbed : BOOLEAN, repriced : BOOLEAN, number : Nat]

PayOf(ts) == {t \in DOMAIN ts : ts[t].kind = "pay"}

MoneyType ==
    /\ fine \in BOOLEAN /\ sync \in BOOLEAN /\ mainOf \in [Promoters -> SUBSET Wallets]
    /\ giveOut \in GiveOut /\ funded \in BOOLEAN
    /\ sub \in [Subs -> {"none", "new", "sent", "done", "failed"}]
    /\ filed \in [Subs -> 0..Len(txs)]
    /\ wallet \in Nat /\ events \in Nat
    /\ txs \in Seq(MoneyTx) /\ pass \in Passes
    /\ DOMAIN booked \subseteq PayOf(txs)

(* Prices: of a payment, and of the pass at work.                          *)
PriceOk(ts, bk, ps, g) ==
    /\ \A t \in PayOf(ts) :
          /\ ts[t].amount = Money!AmountOf(ts[t].price, ts[t].paid)
          /\ t \notin DOMAIN bk /\ ~ts[t].repriced => ts[t].price = g
    /\ ps.step # "idle" => ps.price \in GiveOut /\ (~ps.repriced => ps.price = g)

(* Books: what a payment that is not repriced gave, at its price.          *)
BookedAt(entry, price, n) ==
    /\ entry.giveOut = Money!TotalGiveOutDecimals(price, n)
    /\ entry.bonus = Money!TotalTokenBonusDecimals(price, n)
BookOk(ts, bk) ==
    \A t \in DOMAIN bk :
        ts[t].repriced \/ BookedAt(bk[t], ts[t].price, Cardinality(GivenTo(ts[t].paid)))

(* Records: a submission is recorded for a payment that gave to it, and    *)
(* those recorded for one payment have one status.                         *)
FileOk(ts, bk, fl, sb) ==
    \A s \in Subs :
        fl[s] # 0 =>
            /\ fl[s] \in PayOf(ts) /\ s \in GivenTo(ts[fl[s]].paid)
            /\ sb[s] \in {"sent", "done", "failed"}
            /\ fl[s] \in DOMAIN bk => sb[s] # "sent"
            /\ \A q \in Subs : fl[q] = fl[s] => sb[q] = sb[s]
            /\ sb[s] = "sent" => \A q \in GivenTo(ts[fl[s]].paid) : fl[q] = fl[s]

(* A payment gives a submission once, and one of sync_drop gives one.      *)
OneRowEach(p) == \A r, q \in p.give : r[1] = q[1] => r = q
OneRow(p) == \A r, q \in p.give : r = q
GiveOk(ts, ps, sy, sb) ==
    /\ \A t \in PayOf(ts) : OneRowEach(ts[t].paid) /\ (sy => OneRow(ts[t].paid))
    /\ \A u \in ps.todo :
          /\ OneRow(u)
          /\ ~sy => /\ \A s \in GivenTo(u) : sb[s] \in {"new", "failed"}
                    /\ \A v \in ps.todo : u # v => GivenTo(u) \intersect GivenTo(v) = {}

(* A pass numbers its payments, which have all in common but whom they pay. *)
Apart(p, q) == p.give \intersect q.give = {} /\ p.bonus \intersect q.bonus = {}
PassOk(ts, ps) ==
    /\ ps.step # "idle" => ps.number \in 1..(Len(ts) + 1)
    /\ ps.step # "send" => ps.todo = {}
    /\ \A u, v \in ps.todo : u # v => Apart(u, v)
    /\ \A t \in PayOf(ts) :
          /\ ts[t].pass <= Len(ts)
          /\ \A u \in PayOf(ts) : ts[u].pass = ts[t].pass =>
                /\ ts[u].price = ts[t].price /\ ts[u].enough = ts[t].enough
                /\ ts[u].grown = ts[t].grown /\ ts[u].robbed = ts[t].robbed
                /\ u # t => Apart(ts[u].paid, ts[t].paid)
          /\ ps.step # "idle" /\ ts[t].pass = ps.number =>
                /\ ps.step = "send" /\ \A u \in ps.todo : Apart(u, ts[t].paid)
                /\ ts[t].price = ps.price /\ ts[t].enough = ps.enough
                /\ ts[t].grown = ps.grown /\ ts[t].robbed = ps.robbed

(* What pass k has still to pay.                                           *)
Unpaid(ts, ps, k) ==
    {p \in Payment :
        \/ ps.step = "send" /\ ps.number = k /\ p \in ps.todo
        \/ \E t \in PayOf(ts) : ts[t].pass = k /\ ts[t].state = "pending" /\ ts[t].paid = p}
Due(ts, ps, k, price) == Money!AmountOf(price, Total(Unpaid(ts, ps, k)))

CoverOk(ts, ps, w) ==
    /\ ps.step \in {"count", "select"} /\ ~ps.robbed => w >= ps.balance
    /\ ps.step = "select" /\ ps.enough => ps.balance >= Money!TokenNeed(ps.price, ps.counted)
    /\ ps.step = "send" /\ ps.enough /\ ~ps.grown /\ ~ps.robbed =>
          w >= Due(ts, ps, ps.number, ps.price)
    /\ \A t \in PayOf(ts) : ts[t].enough /\ ~ts[t].grown /\ ~ts[t].robbed =>
          /\ ts[t].state = "pending" => w >= Due(ts, ps, ts[t].pass, ts[t].price)
          /\ ts[t].state # "failed"

MoneyInv ==
    /\ MoneyType
    /\ PriceOk(txs, booked, pass, giveOut) /\ BookOk(txs, booked)
    /\ FileOk(txs, booked, filed, sub) /\ GiveOk(txs, pass, sync, sub)
    /\ PassOk(txs, pass) /\ CoverOk(txs, pass, wallet)

LEMMA MoneyInvNext ==
    ASSUME MoneyType',
           PriceOk(txs', booked', pass', giveOut'), BookOk(txs', booked'),
           FileOk(txs', booked', filed', sub'), GiveOk(txs', pass', sync', sub'),
           PassOk(txs', pass'), CoverOk(txs', pass', wallet')
    PROVE  MoneyInv'
<1>1. PriceOk(txs, booked, pass, giveOut)' /\ BookOk(txs, booked)'
  BY DEF PriceOk, BookOk, PayOf, Money!AmountOf, Money!BonusOf, Money!TokenBonus,
         Money!TokenGiveOut, BookedAt, Money!TotalGiveOutDecimals, Money!TotalTokenBonusDecimals,
         GivenTo
<1>2. FileOk(txs, booked, filed, sub)' /\ GiveOk(txs, pass, sync, sub)'
  BY DEF FileOk, GiveOk, PayOf, GivenTo, OneRowEach, OneRow
<1>3. PassOk(txs, pass)'
  BY DEF PassOk, PayOf, Apart
<1>4. CoverOk(txs, pass, wallet)'
  BY DEF CoverOk, Due, Unpaid, PayOf, Total, Money!AmountOf, Money!BonusOf, Money!TokenBonus,
         Money!TokenGiveOut, Money!TokenNeed
<1> QED
  BY <1>1, <1>2, <1>3, <1>4 DEF MoneyInv

LEMMA MoneyConstants ==
    /\ GiveOut \subseteq Nat \ {0} /\ Bonus \in Nat
    /\ Pow \in Nat \ {0} /\ Pow40 \in Nat \ {0} /\ Part \in Nat \ {0}
    /\ MainWallets \in [Promoters -> SUBSET Wallets]
    /\ Funding \subseteq Nat /\ MaxPayments \in Nat /\ MaxEvents \in Nat
BY MoneyAssumption DEF Money!AmountAssumption, Money!BoundAssumption

LEMMA MoneyPayments == Money!PayTx = Transfer
BY SamePayments DEF Money!PayTx, Transfer

LEMMA DivExact ==
    ASSUME NEW a \in Nat, NEW p \in Nat \ {0} PROVE (a * p) \div p = a
  OBVIOUS

LEMMA ThreeFactors ==
    ASSUME NEW a \in Nat, NEW b \in Nat, NEW c \in Nat PROVE (a * b) * c = (a * c) * b
  OBVIOUS

LEMMA GrowsWith ==
    ASSUME NEW a \in Nat, NEW b \in Nat, NEW c \in Nat, a <= b
    PROVE  c * a <= c * b /\ c * a \in Nat /\ c * b \in Nat
  OBVIOUS

LEMMA RatesAreNat ==
    ASSUME NEW price \in Nat
    PROVE  /\ (price * Bonus) \div 100 \in Nat
           /\ Money!TokenBonus(price) \in Nat /\ Money!TokenGiveOut(price) \in Nat
<1>1. price * Bonus \in Nat /\ price * Pow \in Nat
  BY MoneyConstants
<1> DEFINE q == (price * Bonus) \div 100
<1>2. q \in Nat
  BY <1>1
<1>3. q * Pow \in Nat
  BY <1>2, MoneyConstants
<1> QED
  BY <1>1, <1>2, <1>3 DEF Money!TokenBonus, Money!TokenGiveOut

LEMMA SizeOfPayment ==
    ASSUME NEW p \in Payment
    PROVE  /\ IsFiniteSet(p.give) /\ IsFiniteSet(p.bonus) /\ IsFiniteSet(GivenTo(p))
           /\ Cardinality(p.give) \in Nat /\ Cardinality(p.bonus) \in Nat
           /\ Cardinality(GivenTo(p)) \in Nat
<1>1. IsFiniteSet(Row) /\ IsFiniteSet(Row \X Wallets) /\ IsFiniteSet(Subs)
  BY PlanConstants, FS_Product DEF Row
<1>2. IsFiniteSet(p.give) /\ IsFiniteSet(p.bonus) /\ IsFiniteSet(GivenTo(p))
  BY <1>1, PaymentFacts, FS_Subset
<1> QED
  BY <1>2, FS_CardinalityType

(* What a payment takes.                                                   *)
LEMMA AmountTaken ==
    ASSUME NEW price \in Nat, NEW p \in Payment
    PROVE  /\ Money!BonusOf(price, p) \in Nat /\ Money!AmountOf(price, p) \in Nat
           /\ Money!BonusOf(price, p) = Money!TokenBonus(price) * Cardinality(p.bonus)
           /\ Money!AmountOf(price, p)
                 = Money!TokenGiveOut(price) * Cardinality(p.give) + Money!BonusOf(price, p)
<1> DEFINE n == Cardinality(p.give)  m == Cardinality(p.bonus)
           b == Money!TokenBonus(price)  g == Money!TokenGiveOut(price)
<1>1. n \in Nat /\ m \in Nat /\ b \in Nat /\ g \in Nat
  BY SizeOfPayment, RatesAreNat
<1>2. Money!BonusOf(price, p) = b * m /\ Money!AmountOf(price, p) = g * n + Money!BonusOf(price, p)
  BY SameMoneyCount DEF Money!BonusOf, Money!AmountOf
<1> HIDE DEF n, m, b, g
<1>3. b * m \in Nat /\ g * n \in Nat
  BY <1>1
<1>4. /\ Money!BonusOf(price, p) \in Nat /\ Money!AmountOf(price, p) \in Nat
      /\ Money!BonusOf(price, p) = b * m
      /\ Money!AmountOf(price, p) = g * n + Money!BonusOf(price, p)
  BY <1>2, <1>3
<1> QED
  BY <1>4 DEF n, m, b, g

(* A payment of n submissions and bonuses at most costs what n need.       *)
LEMMA NeedCovers ==
    ASSUME NEW price \in Nat, NEW p \in Payment, NEW n \in Nat,
           Cardinality(p.give) <= n, Cardinality(p.bonus) <= n
    PROVE  Money!AmountOf(price, p) <= Money!TokenNeed(price, n) /\ Money!TokenNeed(price, n) \in Nat
<1> DEFINE i == Cardinality(p.give)  j == Cardinality(p.bonus)
           b == Money!TokenBonus(price)  g == Money!TokenGiveOut(price)
<1>1. i \in Nat /\ j \in Nat /\ b \in Nat /\ g \in Nat /\ i <= n /\ j <= n
  BY SizeOfPayment, RatesAreNat
<1>2. Money!AmountOf(price, p) = g * i + b * j /\ Money!TokenNeed(price, n) = b * n + g * n
  BY AmountTaken DEF Money!TokenNeed
<1> HIDE DEF i, j, b, g
<1>3. b * j <= b * n /\ g * i <= g * n /\ b * j \in Nat /\ b * n \in Nat /\ g * i \in Nat /\ g * n \in Nat
  BY <1>1, GrowsWith
<1> QED
  BY <1>2, <1>3

(* A part of what is due and the rest of it cost no more than all of it.   *)
Within(p, q) == p.give \subseteq q.give /\ p.bonus \subseteq q.bonus

LEMMA PartsSize ==
    ASSUME NEW all, IsFiniteSet(all), NEW left, left \subseteq all, NEW paid, paid \subseteq all,
           left \intersect paid = {}
    PROVE  Cardinality(left) + Cardinality(paid) <= Cardinality(all)
<1>1. /\ IsFiniteSet(left) /\ IsFiniteSet(paid)
      /\ Cardinality(left) \in Nat /\ Cardinality(paid) \in Nat /\ Cardinality(all) \in Nat
  BY SubsetSize
<1>2. Cardinality(left \union paid) = Cardinality(left) + Cardinality(paid)
  <2>1. Cardinality(left \intersect paid) = 0
    BY FS_EmptySet, Zenon
  <2>2. Cardinality(left \union paid)
          = Cardinality(left) + Cardinality(paid) - Cardinality(left \intersect paid)
    BY <1>1, FS_Union
  <2> QED
    BY <1>1, <2>1, <2>2
<1>3. Cardinality(left \union paid) <= Cardinality(all)
  BY <1>1, FS_Subset
<1> QED
  BY <1>2, <1>3

LEMMA DueSplits ==
    ASSUME NEW price \in Nat, NEW all \in Payment, NEW left \in Payment, NEW paid \in Payment,
           Within(left, all), Within(paid, all), Apart(left, paid)
    PROVE  Money!AmountOf(price, left) + Money!AmountOf(price, paid) <= Money!AmountOf(price, all)
<1> DEFINE b == Money!TokenBonus(price)  g == Money!TokenGiveOut(price)
           i(p) == Cardinality(p.give)  j(p) == Cardinality(p.bonus)
<1>1. b \in Nat /\ g \in Nat
  BY RatesAreNat
<1>2. \A p \in Payment : i(p) \in Nat /\ j(p) \in Nat /\ Money!AmountOf(price, p) = g * i(p) + b * j(p)
  BY SizeOfPayment, AmountTaken
<1>3. i(left) + i(paid) <= i(all) /\ j(left) + j(paid) <= j(all)
  BY SizeOfPayment, PartsSize DEF Within, Apart
<1> DEFINE i1 == i(left) i2 == i(paid) i3 == i(all) j1 == j(left) j2 == j(paid) j3 == j(all)
<1>4. /\ i1 \in Nat /\ i2 \in Nat /\ i3 \in Nat /\ j1 \in Nat /\ j2 \in Nat /\ j3 \in Nat
      /\ Money!AmountOf(price, left) = g * i1 + b * j1
      /\ Money!AmountOf(price, paid) = g * i2 + b * j2
      /\ Money!AmountOf(price, all) = g * i3 + b * j3
      /\ i1 + i2 <= i3 /\ j1 + j2 <= j3
  BY <1>2, <1>3
<1> HIDE DEF b, g, i1, i2, i3, j1, j2, j3
<1>5. g * (i1 + i2) <= g * i3 /\ b * (j1 + j2) <= b * j3
  BY <1>1, <1>4, GrowsWith
<1>6. g * (i1 + i2) = g * i1 + g * i2 /\ b * (j1 + j2) = b * j1 + b * j2
  BY <1>1, <1>4
<1>7. /\ g * i1 \in Nat /\ g * i2 \in Nat /\ g * i3 \in Nat
      /\ b * j1 \in Nat /\ b * j2 \in Nat /\ b * j3 \in Nat
  BY <1>1, <1>4
<1> QED
  BY <1>4, <1>5, <1>6, <1>7

LEMMA MapSeq ==
    ASSUME NEW S, NEW s \in Seq(S), NEW f \in [DOMAIN s -> S]
    PROVE  f \in Seq(S) /\ Len(f) = Len(s) /\ DOMAIN f = DOMAIN s
<1>1. Len(s) \in Nat /\ DOMAIN s = 1..Len(s)
  OBVIOUS
<1>2. f \in [1..Len(s) -> S]
  BY <1>1
<1> QED
  BY <1>1, <1>2

LEMMA TxTypes ==
    ASSUME NEW ts \in Seq(MoneyTx)
    PROVE  /\ Len(ts) \in Nat /\ DOMAIN ts = 1..Len(ts)
           /\ \A t \in DOMAIN ts : ts[t] \in MoneyTx /\ ts[t].amount \in Nat
           /\ \A t \in PayOf(ts) : /\ ts[t] \in Transfer /\ ts[t].paid \in Payment
                                   /\ ts[t].price \in Nat /\ ts[t].pass \in Nat
                                   /\ ts[t].robbed \in BOOLEAN /\ ts[t].grown \in BOOLEAN
                                   /\ ts[t].enough \in BOOLEAN /\ ts[t].repriced \in BOOLEAN
           /\ PayOf(ts) \subseteq DOMAIN ts
<1>1. Len(ts) \in Nat /\ DOMAIN ts = 1..Len(ts) /\ \A t \in DOMAIN ts : ts[t] \in MoneyTx
  OBVIOUS
<1>2. \A t \in DOMAIN ts : ts[t].amount \in Nat
  BY <1>1 DEF MoneyTx, Withdrawal, Transfer
<1>3. \A t \in PayOf(ts) : ts[t] \in Transfer
  BY <1>1 DEF MoneyTx, Withdrawal, PayOf
<1>4. \A t \in PayOf(ts) : /\ ts[t].paid \in Payment /\ ts[t].price \in Nat /\ ts[t].pass \in Nat
                           /\ ts[t].robbed \in BOOLEAN /\ ts[t].grown \in BOOLEAN
                           /\ ts[t].enough \in BOOLEAN /\ ts[t].repriced \in BOOLEAN
  BY <1>3, MoneyConstants DEF Transfer
<1> QED
  BY <1>1, <1>2, <1>3, <1>4 DEF PayOf

LEMMA PassTypes ==
    ASSUME MoneyType
    PROVE  /\ pass \in Passes /\ wallet \in Nat /\ txs \in Seq(MoneyTx) /\ Len(txs) \in Nat
           /\ pass.todo \subseteq Payment /\ pass.price \in Nat /\ pass.balance \in Nat
           /\ pass.counted \in Nat /\ pass.number \in Nat
           /\ pass.enough \in BOOLEAN /\ pass.grown \in BOOLEAN /\ pass.robbed \in BOOLEAN
           /\ pass.repriced \in BOOLEAN
<1>1. pass \in Passes /\ wallet \in Nat /\ txs \in Seq(MoneyTx)
  BY DEF MoneyType
<1> QED
  BY <1>1, TxTypes DEF Passes

LEMMA UnpaidTypes ==
    ASSUME NEW ts, NEW ps, NEW k, NEW price \in Nat
    PROVE  /\ Unpaid(ts, ps, k) \subseteq Payment /\ Total(Unpaid(ts, ps, k)) \in Payment
           /\ Due(ts, ps, k, price) \in Nat
<1>1. Unpaid(ts, ps, k) \subseteq Payment
  BY DEF Unpaid
<1>2. Total(Unpaid(ts, ps, k)) \in Payment
  BY <1>1, TotalIsPayment
<1> QED
  BY <1>1, <1>2, AmountTaken DEF Due

-----------------------------------------------------------------------------
(* Steps that leave what the payments are for alone, and take nothing.     *)
PaymentsStay ==
    /\ PayOf(txs') = PayOf(txs) /\ Len(txs) <= Len(txs')
    /\ \A t \in PayOf(txs) :
          /\ txs'[t].paid = txs[t].paid /\ txs'[t].price = txs[t].price
          /\ txs'[t].enough = txs[t].enough /\ txs'[t].grown = txs[t].grown
          /\ txs'[t].robbed = txs[t].robbed
          /\ txs'[t].pass = txs[t].pass /\ txs'[t].state = txs[t].state
    /\ pass'.step = pass.step /\ pass'.number = pass.number /\ pass'.todo = pass.todo
    /\ pass'.price = pass.price /\ pass'.enough = pass.enough /\ pass'.robbed = pass.robbed
    /\ pass'.balance = pass.balance /\ pass'.counted = pass.counted /\ pass'.grown = pass.grown
    /\ wallet' >= wallet

LEMMA StayKeeps ==
    ASSUME MoneyType, MoneyType', PassOk(txs, pass), CoverOk(txs, pass, wallet), PaymentsStay
    PROVE  PassOk(txs', pass') /\ CoverOk(txs', pass', wallet')
<1>0. /\ Len(txs) \in Nat /\ Len(txs') \in Nat /\ wallet \in Nat /\ wallet' \in Nat
      /\ pass.balance \in Nat /\ pass.price \in Nat
      /\ \A t \in PayOf(txs) : txs[t].price \in Nat /\ txs[t].pass \in Nat
  <2>1. txs' \in Seq(MoneyTx) /\ wallet' \in Nat
    BY DEF MoneyType
  <2> QED
    BY <2>1, PassTypes, TxTypes
<1>1. PassOk(txs', pass')
  <2>1. pass.number \in 1..(Len(txs) + 1) => pass'.number \in 1..(Len(txs') + 1)
    BY <1>0 DEF PaymentsStay
  <2>2. \A t \in PayOf(txs) : txs[t].pass <= Len(txs) => txs'[t].pass <= Len(txs')
    BY <1>0 DEF PaymentsStay
  <2> QED
    BY <2>1, <2>2 DEF PassOk, PaymentsStay
<1>2. \A k : Unpaid(txs', pass', k) = Unpaid(txs, pass, k)
  BY DEF Unpaid, PaymentsStay
<1>3. \A k, price : Due(txs', pass', k, price) = Due(txs, pass, k, price)
  BY <1>2 DEF Due
<1>4. \A k : \A price \in Nat : Due(txs, pass, k, price) \in Nat
  BY UnpaidTypes
<1>5. \A d \in Nat : wallet >= d => wallet' >= d
  BY <1>0 DEF PaymentsStay
<1>6. pass'.step \in {"count", "select"} /\ ~pass'.robbed => wallet' >= pass'.balance
  BY <1>0, <1>5 DEF CoverOk, PaymentsStay
<1>7. pass'.step = "select" /\ pass'.enough => pass'.balance >= Money!TokenNeed(pass'.price, pass'.counted)
  BY DEF CoverOk, PaymentsStay
<1>8. pass'.step = "send" /\ pass'.enough /\ ~pass'.grown /\ ~pass'.robbed =>
          wallet' >= Due(txs', pass', pass'.number, pass'.price)
  BY <1>0, <1>3, <1>4, <1>5 DEF CoverOk, PaymentsStay
<1>9. ASSUME NEW t \in PayOf(txs'), txs'[t].enough, ~txs'[t].grown, ~txs'[t].robbed
      PROVE  /\ txs'[t].state = "pending" => wallet' >= Due(txs', pass', txs'[t].pass, txs'[t].price)
             /\ txs'[t].state # "failed"
  <2>1. /\ t \in PayOf(txs) /\ txs[t].enough /\ ~txs[t].grown /\ ~txs[t].robbed
        /\ txs'[t].state = txs[t].state /\ txs'[t].pass = txs[t].pass /\ txs'[t].price = txs[t].price
    BY <1>9 DEF PaymentsStay
  <2>2. /\ txs[t].state = "pending" => wallet >= Due(txs, pass, txs[t].pass, txs[t].price)
        /\ txs[t].state # "failed"
    BY <2>1 DEF CoverOk
  <2> QED
    BY <1>0, <1>3, <1>4, <1>5, <2>1, <2>2
<1>10. CoverOk(txs', pass', wallet')
  BY <1>6, <1>7, <1>8, <1>9 DEF CoverOk
<1> QED
  BY <1>1, <1>10

(* Steps that leave what the payments took and what is booked alone.       *)
RecordsStay ==
    /\ PayOf(txs') = PayOf(txs) /\ booked' = booked /\ giveOut' = giveOut
    /\ \A t \in PayOf(txs) :
          /\ txs'[t].paid = txs[t].paid /\ txs'[t].price = txs[t].price
          /\ txs'[t].amount = txs[t].amount /\ txs'[t].repriced = txs[t].repriced
    /\ pass'.step # "idle" =>
          pass'.price \in GiveOut /\ (~pass'.repriced => pass'.price = giveOut')

LEMMA RecordsKeep ==
    ASSUME MoneyType, PriceOk(txs, booked, pass, giveOut), BookOk(txs, booked), RecordsStay
    PROVE  PriceOk(txs', booked', pass', giveOut') /\ BookOk(txs', booked')
<1>1. \A t \in PayOf(txs') :
          /\ txs'[t].amount = Money!AmountOf(txs'[t].price, txs'[t].paid)
          /\ t \notin DOMAIN booked' /\ ~txs'[t].repriced => txs'[t].price = giveOut'
  BY DEF PriceOk, RecordsStay
<1>2. PriceOk(txs', booked', pass', giveOut')
  BY <1>1 DEF PriceOk, RecordsStay
<1>3. DOMAIN booked \subseteq PayOf(txs)
  BY DEF MoneyType
<1>4. BookOk(txs', booked')
  BY <1>3 DEF BookOk, RecordsStay
<1> QED
  BY <1>2, <1>4

(* Steps that file nothing anew, and take nothing from what a pass has     *)
(* still to send.                                                          *)
FilesStay ==
    /\ PayOf(txs') = PayOf(txs) /\ booked' = booked /\ filed' = filed /\ sync' = sync
    /\ \A t \in PayOf(txs) : txs'[t].paid = txs[t].paid
    /\ \A s \in Subs : sub'[s] = sub[s] \/ (sub[s] = "none" /\ sub'[s] = "new")
    /\ pass'.todo = pass.todo

LEMMA FilesKeep ==
    ASSUME FileOk(txs, booked, filed, sub), GiveOk(txs, pass, sync, sub), FilesStay,
           pass.todo \subseteq Payment, \A t \in PayOf(txs) : txs[t].paid \in Payment
    PROVE  FileOk(txs', booked', filed', sub') /\ GiveOk(txs', pass', sync', sub')
<1>1. FileOk(txs', booked', filed', sub')
  <2> SUFFICES ASSUME NEW s \in Subs, filed'[s] # 0
               PROVE  /\ filed'[s] \in PayOf(txs') /\ s \in GivenTo(txs'[filed'[s]].paid)
                      /\ sub'[s] \in {"sent", "done", "failed"}
                      /\ filed'[s] \in DOMAIN booked' => sub'[s] # "sent"
                      /\ \A q \in Subs : filed'[q] = filed'[s] => sub'[q] = sub'[s]
                      /\ sub'[s] = "sent" =>
                            \A q \in GivenTo(txs'[filed'[s]].paid) : filed'[q] = filed'[s]
    BY DEF FileOk
  <2>1. filed' = filed /\ filed[s] # 0
    BY DEF FilesStay
  <2>2. \A q \in Subs : filed[q] # 0 => sub'[q] = sub[q] /\ sub[q] \in {"sent", "done", "failed"}
    BY DEF FileOk, FilesStay
  <2>3. /\ filed[s] \in PayOf(txs) /\ s \in GivenTo(txs[filed[s]].paid)
        /\ filed[s] \in DOMAIN booked => sub[s] # "sent"
        /\ \A q \in Subs : filed[q] = filed[s] => sub[q] = sub[s]
        /\ sub[s] = "sent" => \A q \in GivenTo(txs[filed[s]].paid) : filed[q] = filed[s]
    BY <2>1 DEF FileOk
  <2>4. txs'[filed[s]].paid = txs[filed[s]].paid /\ PayOf(txs') = PayOf(txs) /\ booked' = booked
    BY <2>3 DEF FilesStay
  <2> QED
    BY <2>1, <2>2, <2>3, <2>4
<1>2. \A s \in Subs : sub[s] \in {"new", "failed"} => sub'[s] \in {"new", "failed"}
  BY DEF FilesStay
<1>3. \A u \in pass.todo : \A s \in GivenTo(u) : s \in Subs
  BY PaymentFacts
<1>4. GiveOk(txs', pass', sync', sub')
  BY <1>2, <1>3 DEF GiveOk, FilesStay
<1> QED
  BY <1>1, <1>4

LEMMA StepKeeps ==
    ASSUME MoneyInv, MoneyType', PaymentsStay, RecordsStay, FilesStay PROVE MoneyInv'
<1>1. PassOk(txs', pass') /\ CoverOk(txs', pass', wallet')
  BY StayKeeps DEF MoneyInv
<1>2. PriceOk(txs', booked', pass', giveOut') /\ BookOk(txs', booked')
  BY RecordsKeep DEF MoneyInv
<1>3. pass.todo \subseteq Payment /\ \A t \in PayOf(txs) : txs[t].paid \in Payment
  BY PassTypes, TxTypes DEF MoneyInv
<1>4. FileOk(txs', booked', filed', sub') /\ GiveOk(txs', pass', sync', sub')
  BY <1>3, FilesKeep DEF MoneyInv
<1> QED
  BY <1>1, <1>2, <1>4, MoneyInvNext

LEMMA MoneyStart == Money!Init => MoneyInv
<1> SUFFICES ASSUME Money!Init PROVE MoneyInv
  OBVIOUS
<1>1. /\ fine \in BOOLEAN /\ sync \in BOOLEAN /\ mainOf \in [Promoters -> SUBSET Wallets]
      /\ giveOut \in GiveOut /\ funded = FALSE
      /\ sub = [s \in Subs |-> "none"] /\ filed = [s \in Subs |-> 0]
      /\ wallet \in Nat /\ events = 0
      /\ txs = <<>> /\ pass = Money!Resting /\ booked = << >>
  BY MoneyConstants DEF Money!Init
<1>2. pass \in Passes /\ pass.step = "idle" /\ pass.todo = {}
  BY <1>1 DEF Money!Resting, Passes
<1>3. DOMAIN txs = {} /\ DOMAIN booked = {} /\ PayOf(txs) = {}
  BY <1>1 DEF PayOf
<1>4. MoneyType
  <2>1. txs \in Seq(MoneyTx) /\ Len(txs) = 0
    BY <1>1
  <2>2. sub \in [Subs -> {"none", "new", "sent", "done", "failed"}] /\ filed \in [Subs -> 0..Len(txs)]
    BY <1>1, <2>1
  <2>3. funded \in BOOLEAN /\ events \in Nat
    BY <1>1
  <2> QED
    BY <1>1, <1>2, <1>3, <2>1, <2>2, <2>3 DEF MoneyType
<1>5. PriceOk(txs, booked, pass, giveOut) /\ BookOk(txs, booked)
  BY <1>2, <1>3 DEF PriceOk, BookOk
<1>6. FileOk(txs, booked, filed, sub) /\ GiveOk(txs, pass, sync, sub)
  BY <1>1, <1>2, <1>3 DEF FileOk, GiveOk
<1>7. PassOk(txs, pass) /\ CoverOk(txs, pass, wallet)
  BY <1>2, <1>3 DEF PassOk, CoverOk
<1> QED
  BY <1>4, <1>5, <1>6, <1>7 DEF MoneyInv

(* Steps that touch neither price nor payments nor what is booked.         *)
LEMMA QuietStep ==
    ASSUME MoneyInv, MoneyType',
           UNCHANGED <<sync, giveOut, filed, txs, pass, booked>>, wallet' >= wallet,
           \A s \in Subs : sub'[s] = sub[s] \/ (sub[s] = "none" /\ sub'[s] = "new")
    PROVE  MoneyInv'
<1>1. Len(txs) \in Nat /\ txs' = txs /\ pass' = pass
  BY PassTypes DEF MoneyInv
<1>2. PaymentsStay
  BY <1>1 DEF PaymentsStay
<1>3. RecordsStay
  BY <1>1 DEF RecordsStay, MoneyInv, PriceOk
<1>4. FilesStay
  BY <1>1 DEF FilesStay
<1> QED
  BY <1>2, <1>3, <1>4, StepKeeps

LEMMA QuietSteps ==
    ASSUME MoneyInv,
           \/ \E s \in Subs : Money!Submit(s)
           \/ \E p \in Promoters : Money!InsertMainWallet(p)
           \/ Money!TopUp \/ Money!CheckBalance
    PROVE  MoneyInv'
<1>1. wallet \in Nat /\ events \in Nat
  BY DEF MoneyInv, MoneyType
<1>2. ASSUME NEW s \in Subs, Money!Submit(s) PROVE MoneyInv'
  <2>1. /\ sub[s] = "none" /\ sub' = [sub EXCEPT ![s] = "new"]
        /\ UNCHANGED <<fine, sync, mainOf, giveOut, funded, filed, wallet, txs, pass, booked, events>>
    BY <1>2 DEF Money!Submit
  <2>2. MoneyType'
    BY <2>1 DEF MoneyInv, MoneyType, PayOf
  <2>3. \A q \in Subs : sub'[q] = sub[q] \/ (sub[q] = "none" /\ sub'[q] = "new")
    BY <2>1 DEF MoneyInv, MoneyType
  <2> QED
    BY <1>1, <2>1, <2>2, <2>3, QuietStep
<1>3. ASSUME NEW p \in Promoters, Money!InsertMainWallet(p) PROVE MoneyInv'
  <2>1. PICK w \in MainWallets[p] : mainOf' = [mainOf EXCEPT ![p] = @ \union {w}]
    BY <1>3 DEF Money!InsertMainWallet
  <2>2. /\ events' = events + 1
        /\ UNCHANGED <<fine, sync, giveOut, funded, sub, filed, wallet, txs, pass, booked>>
    BY <1>3 DEF Money!InsertMainWallet, Money!Event, Money!table
  <2>3. mainOf' \in [Promoters -> SUBSET Wallets]
    <3>1. w \in Wallets
      BY <2>1, MoneyConstants
    <3>2. mainOf \in [Promoters -> SUBSET Wallets] /\ mainOf[p] \union {w} \in SUBSET Wallets
      BY <3>1 DEF MoneyInv, MoneyType
    <3> QED
      BY <2>1, <3>2
  <2>4. MoneyType'
    BY <1>1, <2>2, <2>3 DEF MoneyInv, MoneyType, PayOf
  <2> QED
    BY <1>1, <2>2, <2>4, QuietStep
<1>4. CASE Money!TopUp
  <2>1. /\ wallet' \in Funding /\ wallet' > wallet /\ events' = events + 1
        /\ UNCHANGED <<fine, sync, mainOf, giveOut, funded, sub, filed, txs, pass, booked>>
    BY <1>4 DEF Money!TopUp, Money!Event, Money!table
  <2>2. wallet' \in Nat /\ wallet' >= wallet
    BY <1>1, <2>1, MoneyConstants
  <2>3. MoneyType'
    BY <1>1, <2>1, <2>2 DEF MoneyInv, MoneyType, PayOf
  <2> QED
    BY <2>1, <2>2, <2>3, QuietStep
<1>5. CASE Money!CheckBalance
  <2>1. /\ funded' = (wallet > 0)
        /\ UNCHANGED <<fine, sync, mainOf, giveOut, sub, filed, wallet, txs, pass, booked, events>>
    BY <1>5 DEF Money!CheckBalance
  <2>2. funded' \in BOOLEAN
    BY <2>1
  <2>3. MoneyType'
    BY <2>1, <2>2 DEF MoneyInv, MoneyType, PayOf
  <2> QED
    BY <1>1, <2>1, <2>3, QuietStep
<1> QED
  BY <1>2, <1>3, <1>4, <1>5

(* A new price marks whatever has still to be paid or booked by the old.   *)
LEMMA UpdateStep ==
    ASSUME MoneyInv, NEW g \in GiveOut, Money!UpdateHandler(g) PROVE MoneyInv'
<1> DEFINE Marked(t) == IF txs[t].kind = "pay" /\ t \notin DOMAIN booked
                        THEN [txs[t] EXCEPT !.repriced = TRUE] ELSE txs[t]
<1>1. /\ giveOut' = g /\ events' = events + 1
      /\ pass' = IF pass.step = "idle" THEN pass ELSE [pass EXCEPT !.repriced = TRUE]
      /\ txs' = [t \in DOMAIN txs |-> Marked(t)]
      /\ UNCHANGED <<fine, sync, mainOf, funded, sub, filed, wallet, booked>>
  BY DEF Money!UpdateHandler, Money!Event
<1>2. pass \in Passes /\ MoneyType /\ wallet \in Nat /\ events \in Nat /\ txs \in Seq(MoneyTx)
  BY DEF MoneyInv, MoneyType
<1>3. /\ pass' \in Passes
      /\ pass'.step = pass.step /\ pass'.number = pass.number /\ pass'.todo = pass.todo
      /\ pass'.price = pass.price /\ pass'.enough = pass.enough /\ pass'.robbed = pass.robbed
      /\ pass'.balance = pass.balance /\ pass'.counted = pass.counted /\ pass'.grown = pass.grown
      /\ pass'.step # "idle" => pass'.repriced
  BY <1>1, <1>2 DEF Passes
<1>4. ASSUME NEW t \in DOMAIN txs
      PROVE  /\ Marked(t) \in MoneyTx /\ Marked(t).kind = txs[t].kind
             /\ txs[t].kind = "pay" =>
                   /\ Marked(t).paid = txs[t].paid /\ Marked(t).price = txs[t].price
                   /\ Marked(t).enough = txs[t].enough /\ Marked(t).grown = txs[t].grown
                   /\ Marked(t).robbed = txs[t].robbed
                   /\ Marked(t).pass = txs[t].pass /\ Marked(t).state = txs[t].state
                   /\ Marked(t).amount = txs[t].amount
                   /\ t \in DOMAIN booked => Marked(t).repriced = txs[t].repriced
                   /\ t \notin DOMAIN booked => Marked(t).repriced
  <2>1. CASE txs[t].kind = "pay" /\ t \notin DOMAIN booked
    <3>1. txs[t] \in Transfer
      BY <1>2, <2>1, TxTypes DEF PayOf
    <3>2. Marked(t) = [txs[t] EXCEPT !.repriced = TRUE]
      BY <2>1
    <3> QED
      BY <2>1, <3>1, <3>2 DEF Transfer, MoneyTx
  <2>2. CASE ~(txs[t].kind = "pay" /\ t \notin DOMAIN booked)
    <3>1. Marked(t) = txs[t]
      BY <2>2
    <3>2. txs[t] \in MoneyTx
      BY <1>2
    <3> HIDE DEF Marked
    <3> QED
      BY <2>2, <3>1, <3>2
  <2> QED
    BY <2>1, <2>2
<1>5. /\ txs' \in Seq(MoneyTx) /\ Len(txs') = Len(txs)
      /\ DOMAIN txs' = DOMAIN txs /\ \A t \in DOMAIN txs : txs'[t] = Marked(t)
  <2>1. txs' \in [DOMAIN txs -> MoneyTx]
    BY <1>1, <1>4
  <2> HIDE DEF Marked
  <2> QED
    BY <1>1, <1>2, <2>1, MapSeq
<1> HIDE DEF Marked
<1>6. PayOf(txs') = PayOf(txs)
  BY <1>4, <1>5 DEF PayOf
<1>7. MoneyType'
  <2>1. DOMAIN booked' \subseteq PayOf(txs') /\ filed' \in [Subs -> 0..Len(txs')]
    BY <1>1, <1>2, <1>5, <1>6 DEF MoneyType
  <2>2. (DOMAIN booked \subseteq PayOf(txs))'
    BY <2>1 DEF PayOf
  <2> QED
    BY <1>1, <1>2, <1>3, <1>5, <2>1, <2>2 DEF MoneyType
<1>8. ASSUME NEW t \in PayOf(txs)
      PROVE  /\ txs'[t].paid = txs[t].paid /\ txs'[t].price = txs[t].price
             /\ txs'[t].enough = txs[t].enough /\ txs'[t].grown = txs[t].grown
             /\ txs'[t].robbed = txs[t].robbed
             /\ txs'[t].pass = txs[t].pass /\ txs'[t].state = txs[t].state
             /\ txs'[t].amount = txs[t].amount
             /\ t \in DOMAIN booked => txs'[t].repriced = txs[t].repriced
             /\ t \notin DOMAIN booked => txs'[t].repriced
  BY <1>4, <1>5 DEF PayOf
<1>9. PaymentsStay
  <2>1. Len(txs) <= Len(txs') /\ wallet' >= wallet
    BY <1>1, <1>2, <1>5
  <2> QED
    BY <1>3, <1>6, <1>8, <2>1 DEF PaymentsStay
<1>10. PassOk(txs', pass') /\ CoverOk(txs', pass', wallet')
  BY <1>2, <1>7, <1>9, StayKeeps DEF MoneyInv
<1>11. FilesStay
  BY <1>1, <1>3, <1>6, <1>8 DEF FilesStay
<1>12. FileOk(txs', booked', filed', sub') /\ GiveOk(txs', pass', sync', sub')
  <2>1. pass.todo \subseteq Payment /\ \A t \in PayOf(txs) : txs[t].paid \in Payment
    BY <1>2, PassTypes, TxTypes
  <2> QED
    BY <1>11, <2>1, FilesKeep DEF MoneyInv
<1>13. PriceOk(txs', booked', pass', giveOut')
  <2>1. \A t \in PayOf(txs') :
            /\ txs'[t].amount = Money!AmountOf(txs'[t].price, txs'[t].paid)
            /\ t \notin DOMAIN booked' => txs'[t].repriced
    BY <1>1, <1>6, <1>8 DEF MoneyInv, PriceOk
  <2>2. pass'.step # "idle" => pass'.price \in GiveOut /\ pass'.repriced
    BY <1>3 DEF MoneyInv, PriceOk
  <2> QED
    BY <2>1, <2>2 DEF PriceOk
<1>14. BookOk(txs', booked')
  <2>1. \A t \in DOMAIN booked : t \in PayOf(txs)
    BY <1>2 DEF MoneyType
  <2> QED
    BY <1>1, <1>8, <2>1 DEF MoneyInv, BookOk
<1> QED
  BY <1>7, <1>10, <1>12, <1>13, <1>14, MoneyInvNext

(* A transaction more.                                                     *)
LEMMA Appended ==
    ASSUME NEW ts \in Seq(MoneyTx), NEW new \in MoneyTx
    PROVE  LET more == Append(ts, new) IN
           /\ more \in Seq(MoneyTx)
           /\ Len(more) = Len(ts) + 1 /\ DOMAIN more = DOMAIN ts \union {Len(ts) + 1}
           /\ Len(ts) + 1 \notin DOMAIN ts
           /\ more[Len(ts) + 1] = new /\ \A t \in DOMAIN ts : more[t] = ts[t]
           /\ PayOf(more) = IF new.kind = "pay" THEN PayOf(ts) \union {Len(ts) + 1} ELSE PayOf(ts)
<1> DEFINE more == Append(ts, new)
<1>1. Len(ts) \in Nat /\ DOMAIN ts = 1..Len(ts)
  OBVIOUS
<1>2. /\ more \in Seq(MoneyTx) /\ Len(more) = Len(ts) + 1
      /\ more[Len(ts) + 1] = new /\ \A t \in DOMAIN ts : more[t] = ts[t]
  BY <1>1
<1> HIDE DEF more
<1>3. DOMAIN more = DOMAIN ts \union {Len(ts) + 1} /\ Len(ts) + 1 \notin DOMAIN ts
  BY <1>1, <1>2
<1>4. PayOf(more) = IF new.kind = "pay" THEN PayOf(ts) \union {Len(ts) + 1} ELSE PayOf(ts)
  BY <1>2, <1>3 DEF PayOf
<1> QED
  BY <1>2, <1>3, <1>4 DEF more

(* What a withdrawal is cut to is a number of units.                       *)
LEMMA WithdrawnTypes ==
    ASSUME NEW asked \in Nat, NEW amount \in Money!Withdrawn(asked) PROVE amount \in Nat
<1> DEFINE exact == (asked * Pow40) \div Part
<1>1. asked * Pow40 \in Nat /\ exact \in Nat /\ asked \div Part \in Nat
  BY MoneyConstants
<1>2. (asked \div Part) * Pow \in Nat
  BY <1>1, MoneyConstants
<1>3. ASSUME NEW saved \in Money!Saved(asked) PROVE (saved * Pow) \div Pow40 \in Nat
  <2>1. saved \in {exact} \union (IF exact > 0 /\ (asked * Pow40) % Part = 0
                                  THEN {exact - 1} ELSE {})
    BY DEF Money!Saved
  <2> HIDE DEF exact
  <2>2. saved \in Nat
    BY <1>1, <2>1
  <2>3. saved * Pow \in Nat
    BY <2>2, MoneyConstants
  <2> QED
    BY <2>3, MoneyConstants
<1> QED
  BY <1>2, <1>3 DEF Money!Withdrawn

LEMMA WithdrawStep ==
    ASSUME MoneyInv, NEW asked \in Nat, Money!WithdrawHandler(asked) PROVE MoneyInv'
<1>1. PICK amount \in Money!Withdrawn(asked) :
          txs' = Append(txs, [kind |-> "withdraw", asked |-> asked, amount |-> amount,
                              state |-> "pending"])
  BY DEF Money!WithdrawHandler
<1>2. /\ events' = events + 1
      /\ UNCHANGED <<fine, sync, mainOf, giveOut, funded, sub, filed, wallet, pass, booked>>
  BY DEF Money!WithdrawHandler, Money!Event, Money!table
<1> DEFINE new == [kind |-> "withdraw", asked |-> asked, amount |-> amount, state |-> "pending"]
<1>3. new \in MoneyTx /\ new.kind # "pay"
  BY WithdrawnTypes DEF Withdrawal, MoneyTx
<1> HIDE DEF new
<1>4. txs' = Append(txs, new) /\ MoneyType /\ txs \in Seq(MoneyTx) /\ Len(txs) \in Nat
  BY <1>1, PassTypes DEF new, MoneyInv
<1>5. /\ txs' \in Seq(MoneyTx) /\ Len(txs') = Len(txs) + 1
      /\ \A t \in DOMAIN txs : txs'[t] = txs[t]
      /\ PayOf(txs') = PayOf(txs)
  BY <1>3, <1>4, Appended
<1>6. MoneyType'
  <2>1. filed' \in [Subs -> 0..Len(txs')]
    BY <1>2, <1>4, <1>5 DEF MoneyType
  <2>2. (DOMAIN booked \subseteq PayOf(txs))'
    <3>1. DOMAIN booked' \subseteq PayOf(txs')
      BY <1>2, <1>4, <1>5 DEF MoneyType
    <3> QED
      BY <3>1 DEF PayOf
  <2> QED
    BY <1>2, <1>4, <1>5, <2>1, <2>2 DEF MoneyType
<1>7. \A t \in PayOf(txs) : txs'[t] = txs[t]
  BY <1>5 DEF PayOf
<1>8. wallet \in Nat
  BY <1>4, PassTypes
<1>9. PaymentsStay
  <2>1. Len(txs) <= Len(txs') /\ wallet' >= wallet
    BY <1>2, <1>4, <1>5, <1>8
  <2> QED
    BY <1>2, <1>5, <1>7, <2>1 DEF PaymentsStay
<1>10. RecordsStay
  BY <1>2, <1>5, <1>7 DEF RecordsStay, MoneyInv, PriceOk
<1>11. FilesStay
  BY <1>2, <1>5, <1>7 DEF FilesStay
<1> QED
  BY <1>6, <1>9, <1>10, <1>11, StepKeeps

-----------------------------------------------------------------------------
(* A pass begins, counts, and selects: no payment is of it yet. *)

LEMMA PassStep ==
    ASSUME MoneyInv, MoneyType', UNCHANGED <<sync, giveOut, sub, filed, wallet, txs, booked>>,
           pass'.step # "idle" =>
              /\ pass'.price \in GiveOut /\ (~pass'.repriced => pass'.price = giveOut)
              /\ pass'.number \in 1..(Len(txs) + 1)
              /\ \A t \in PayOf(txs) : txs[t].pass # pass'.number,
           pass.step # "send",
           pass'.step # "send" => pass'.todo = {},
           \A u \in pass'.todo :
              /\ OneRow(u)
              /\ ~sync => \A s \in GivenTo(u) : sub[s] \in {"new", "failed"}
              /\ \A v \in pass'.todo : u # v =>
                    Apart(u, v) /\ (~sync => GivenTo(u) \intersect GivenTo(v) = {}),
           pass'.step \in {"count", "select"} /\ ~pass'.robbed => wallet >= pass'.balance,
           pass'.step = "select" /\ pass'.enough =>
              pass'.balance >= Money!TokenNeed(pass'.price, pass'.counted),
           pass'.step = "send" /\ pass'.enough /\ ~pass'.grown /\ ~pass'.robbed =>
              wallet >= Money!AmountOf(pass'.price, Total(pass'.todo))
    PROVE  MoneyInv'
<1>1. PriceOk(txs', booked', pass', giveOut') /\ BookOk(txs', booked')
  BY DEF MoneyInv, PriceOk, BookOk
<1>2. FileOk(txs', booked', filed', sub')
  BY DEF MoneyInv
<1>3. GiveOk(txs', pass', sync', sub')
  BY DEF MoneyInv, GiveOk
<1>4. PassOk(txs', pass')
  BY DEF MoneyInv, PassOk
<1>5. \A t \in PayOf(txs) : Unpaid(txs, pass', txs[t].pass) = Unpaid(txs, pass, txs[t].pass)
  BY DEF Unpaid
<1>6. pass'.step = "send" => Total(Unpaid(txs, pass', pass'.number)) = Total(pass'.todo)
  <2> SUFFICES ASSUME pass'.step = "send"
               PROVE  Unpaid(txs, pass', pass'.number) = pass'.todo
    OBVIOUS
  <2>1. pass'.todo \subseteq Payment
    BY DEF MoneyType, Passes
  <2> QED
    BY <2>1 DEF Unpaid
<1>7. CoverOk(txs', pass', wallet')
  <2>1. pass'.step = "send" /\ pass'.enough /\ ~pass'.grown /\ ~pass'.robbed =>
            wallet >= Due(txs, pass', pass'.number, pass'.price)
    BY <1>6 DEF Due
  <2>2. \A t \in PayOf(txs) : txs[t].enough /\ ~txs[t].grown /\ ~txs[t].robbed =>
           /\ txs[t].state = "pending" => wallet >= Due(txs, pass', txs[t].pass, txs[t].price)
           /\ txs[t].state # "failed"
    BY <1>5 DEF MoneyInv, CoverOk, Due
  <2> QED
    BY <2>1, <2>2 DEF CoverOk
<1> QED
  BY <1>1, <1>2, <1>3, <1>4, <1>7, MoneyInvNext

LEMMA DropStep ==
    ASSUME MoneyInv, Money!Drop PROVE MoneyInv'
<1>1. /\ pass.step = "idle"
      /\ pass' = [Money!Resting EXCEPT !.step = "count", !.price = giveOut, !.balance = wallet,
                                       !.number = Len(txs) + 1]
      /\ UNCHANGED <<fine, sync, mainOf, giveOut, funded, sub, filed, wallet, txs, booked, events>>
  BY DEF Money!Drop, Money!table
<1>2. Len(txs) \in Nat /\ giveOut \in GiveOut /\ giveOut \in Nat /\ wallet \in Nat /\ MoneyType
  BY PassTypes, MoneyConstants DEF MoneyInv, MoneyType
<1>3. /\ pass' \in Passes /\ pass'.step = "count" /\ pass'.number = Len(txs) + 1
      /\ pass'.price = giveOut /\ pass'.balance = wallet /\ pass'.todo = {}
  <2>1. pass' = [step |-> "count", price |-> giveOut, balance |-> wallet, counted |-> 0, todo |-> {},
                 enough |-> FALSE, grown |-> FALSE, robbed |-> FALSE, repriced |-> FALSE,
                 number |-> Len(txs) + 1]
    BY <1>1 DEF Money!Resting
  <2> QED
    BY <1>2, <2>1 DEF Passes
<1>4. MoneyType'
  BY <1>1, <1>2, <1>3 DEF MoneyType, PayOf
<1>5. \A t \in PayOf(txs) : txs[t].pass # Len(txs) + 1
  <2>1. \A t \in PayOf(txs) : txs[t].pass <= Len(txs) /\ txs[t].pass \in Nat
    BY <1>2, TxTypes DEF MoneyInv, PassOk, MoneyType
  <2> QED
    BY <1>2, <2>1
<1>6. /\ pass'.price \in GiveOut /\ pass'.price = giveOut
      /\ pass'.number \in 1..(Len(txs) + 1)
      /\ \A t \in PayOf(txs) : txs[t].pass # pass'.number
      /\ pass.step # "send" /\ pass'.step = "count"
      /\ wallet >= pass'.balance
  BY <1>1, <1>2, <1>3, <1>5
<1> QED
  BY <1>1, <1>3, <1>4, <1>6, PassStep

LEMMA CountStep ==
    ASSUME MoneyInv, Money!CountOwed PROVE MoneyInv'
<1> DEFINE n == Money!Count({"new", "failed"})
<1>1. /\ pass.step = "count"
      /\ pass' = IF n = 0 THEN Money!Resting
                 ELSE [pass EXCEPT !.step = "select", !.counted = n,
                                   !.enough = Money!Enough(pass.balance, pass.price, n)]
      /\ UNCHANGED <<fine, sync, mainOf, giveOut, funded, sub, filed, wallet, txs, booked, events>>
  BY DEF Money!CountOwed, Money!table
<1>2. n \in Nat
  <2>1. IsFiniteSet(Subs)
    BY PlanConstants
  <2>2. IsFiniteSet({s \in Subs : sub[s] \in {"new", "failed"}})
    BY <2>1, FS_Subset
  <2>3. Cardinality({s \in Subs : sub[s] \in {"new", "failed"}}) \in Nat
    BY <2>2, FS_CardinalityType
  <2> QED
    BY <2>3, SameMoneyCount DEF Money!Count
<1>3. Money!Enough(pass.balance, pass.price, n) \in BOOLEAN
  BY DEF Money!Enough
<1>4. MoneyType /\ pass \in Passes /\ pass.todo = {}
  BY <1>1 DEF MoneyInv, MoneyType, PassOk
<1> HIDE DEF n
<1>5. CASE n = 0
  <2>1. pass' \in Passes /\ pass'.step = "idle" /\ pass'.todo = {}
    BY <1>1, <1>5 DEF Money!Resting, Passes
  <2>2. MoneyType'
    BY <1>1, <1>4, <2>1 DEF MoneyType, PayOf
  <2> QED
    BY <1>1, <2>1, <2>2, PassStep
<1>6. CASE n # 0
  <2>1. /\ pass' \in Passes /\ pass'.step = "select" /\ pass'.todo = {} /\ pass'.counted = n
        /\ pass'.enough = Money!Enough(pass.balance, pass.price, n)
        /\ pass'.number = pass.number /\ pass'.price = pass.price /\ pass'.balance = pass.balance
        /\ pass'.robbed = pass.robbed /\ pass'.repriced = pass.repriced
    BY <1>1, <1>2, <1>3, <1>4, <1>6 DEF Passes
  <2>2. MoneyType'
    BY <1>1, <1>4, <2>1 DEF MoneyType, PayOf
  <2>3. pass'.enough => pass'.balance >= Money!TokenNeed(pass'.price, pass'.counted)
    BY <2>1 DEF Money!Enough
  <2>4. /\ pass'.price \in GiveOut /\ (~pass'.repriced => pass'.price = giveOut)
        /\ pass'.number \in 1..(Len(txs) + 1)
        /\ \A t \in PayOf(txs) : txs[t].pass # pass'.number
        /\ ~pass'.robbed => wallet >= pass'.balance
    BY <1>1, <2>1 DEF MoneyInv, PriceOk, PassOk, CoverOk
  <2> QED
    BY <1>1, <2>1, <2>2, <2>3, <2>4, PassStep
<1> QED
  BY <1>5, <1>6

(* A plan has no more give-outs, and no more bonuses, than it has rows.    *)
LEMMA PlanSize ==
    ASSUME NEW R, R \subseteq Row, NEW promo, NEW sy, NEW plan, GoodPlan(plan, R, promo, sy)
    PROVE  /\ Total(plan) \in Payment /\ Cardinality(R) \in Nat
           /\ Cardinality(Total(plan).give) <= Cardinality(R)
           /\ Cardinality(Total(plan).bonus) <= Cardinality(R)
<1>1. IsFiniteSet(R) /\ Cardinality(R) \in Nat
  BY RowFacts, FS_CardinalityType
<1>2. plan \subseteq Payment
  BY DEF GoodPlan
<1>3. /\ Total(plan) \in Payment
      /\ Total(plan).give = UNION {u.give : u \in plan}
      /\ Total(plan).bonus = UNION {u.bonus : u \in plan}
  BY <1>2, TotalIsPayment
<1>4. Total(plan).give \subseteq R
  BY <1>3 DEF GoodPlan
<1>5. Cardinality(Total(plan).give) <= Cardinality(R)
  BY <1>1, <1>4, SubsetSize
<1> DEFINE bs == Total(plan).bonus
<1>6. \A b \in bs : b = <<b[1], b[2]>> /\ b[1] \in R /\ b[2] = Earner(b[1], promo)
  <2>1. \A b \in bs : b \in Row \X Wallets
    BY <1>3 DEF Payment
  <2>2. \A b \in bs : b = <<b[1], b[2]>>
    BY <2>1
  <2> QED
    BY <1>3, <2>2 DEF GoodPlan
<1> HIDE DEF bs
<1>7. \A b, c \in bs : b[1] = c[1] => b = c
  BY <1>6
<1> DEFINE f == [b \in bs |-> b[1]]
<1>8. f \in [bs -> R] /\ \A b, c \in bs : f[b] = f[c] => b = c
  BY <1>6, <1>7
<1> HIDE DEF f
<1>9. Cardinality(bs) <= Cardinality(R)
  BY <1>1, <1>8, MappedSize
<1> QED
  BY <1>1, <1>3, <1>5, <1>9 DEF bs

LEMMA SelectStep ==
    ASSUME MoneyInv, Money!SelectOwed PROVE MoneyInv'
<1> DEFINE R == Money!Selected
<1>1. PICK plan \in Plans(R, sync) :
         pass' = IF plan = {} THEN Money!Resting
                 ELSE [pass EXCEPT !.step = "send", !.todo = plan,
                                   !.grown = Cardinality(R) > pass.counted]
  BY SamePlans, SameMoneyCount DEF Money!SelectOwed
<1>2. /\ pass.step = "select"
      /\ UNCHANGED <<fine, sync, mainOf, giveOut, funded, sub, filed, wallet, txs, booked, events>>
  BY DEF Money!SelectOwed, Money!table
<1>3. R \subseteq Row /\ \A r \in R : sub[r[1]] \in {"new", "failed"}
  BY SamePayments DEF Money!Selected
<1> HIDE DEF R
<1>4. MoneyType /\ pass \in Passes /\ pass.todo = {} /\ sync \in BOOLEAN
  BY <1>2 DEF MoneyInv, MoneyType, PassOk
<1>5. CASE plan = {}
  <2>1. pass' \in Passes /\ pass'.step = "idle" /\ pass'.todo = {}
    BY <1>1, <1>5 DEF Money!Resting, Passes
  <2>2. MoneyType'
    BY <1>2, <1>4, <2>1 DEF MoneyType, PayOf
  <2> QED
    BY <1>2, <2>1, <2>2, PassStep
<1>6. CASE plan # {}
  <2>1. PICK promo \in Wallets : GoodPlan(plan, R, promo, sync)
    BY <1>3, <1>4, <1>6, PlanIsGood
  <2>2. plan \subseteq Payment
    BY <2>1 DEF GoodPlan
  <2>3. (Cardinality(R) > pass.counted) \in BOOLEAN
    OBVIOUS
  <2>4. /\ pass' \in Passes /\ pass'.step = "send" /\ pass'.todo = plan
        /\ pass'.grown = (Cardinality(R) > pass.counted) /\ pass'.enough = pass.enough
        /\ pass'.number = pass.number /\ pass'.price = pass.price
        /\ pass'.robbed = pass.robbed /\ pass'.repriced = pass.repriced
    BY <1>1, <1>4, <1>6, <2>2, <2>3 DEF Passes
  <2>5. MoneyType'
    BY <1>2, <1>4, <2>4 DEF MoneyType, PayOf
  <2>6. /\ pass'.price \in GiveOut /\ (~pass'.repriced => pass'.price = giveOut)
        /\ pass'.number \in 1..(Len(txs) + 1)
        /\ \A t \in PayOf(txs) : txs[t].pass # pass'.number
    BY <1>2, <2>4 DEF MoneyInv, PriceOk, PassOk
  <2>7. \A u \in plan :
           /\ OneRow(u)
           /\ ~sync => \A s \in GivenTo(u) : sub[s] \in {"new", "failed"}
           /\ \A v \in plan : u # v =>
                 Apart(u, v) /\ (~sync => GivenTo(u) \intersect GivenTo(v) = {})
    <3>1. \A u \in plan : \A s \in GivenTo(u) : sub[s] \in {"new", "failed"}
      BY <1>3, <2>1 DEF GoodPlan, GivenTo
    <3> QED
      BY <2>1, <3>1 DEF GoodPlan, OneRow, Apart
  <2>8. ASSUME pass'.enough, ~pass'.grown, ~pass'.robbed
        PROVE  wallet >= Money!AmountOf(pass'.price, Total(plan))
    <3>1. /\ wallet >= pass.balance /\ pass.balance >= Money!TokenNeed(pass.price, pass.counted)
          /\ ~(Cardinality(R) > pass.counted)
      BY <1>2, <2>4, <2>8 DEF MoneyInv, CoverOk
    <3>2. /\ wallet \in Nat /\ pass.balance \in Nat /\ pass.price \in Nat /\ pass.counted \in Nat
      BY <1>4, PassTypes
    <3>3. /\ Total(plan) \in Payment /\ Cardinality(R) \in Nat
          /\ Cardinality(Total(plan).give) <= Cardinality(R)
          /\ Cardinality(Total(plan).bonus) <= Cardinality(R)
      BY <1>3, <2>1, PlanSize
    <3>4. /\ Cardinality(Total(plan).give) <= pass.counted
          /\ Cardinality(Total(plan).bonus) <= pass.counted
      BY <3>1, <3>2, <3>3, SizeOfPayment
    <3>5. /\ Money!AmountOf(pass.price, Total(plan)) <= Money!TokenNeed(pass.price, pass.counted)
          /\ Money!TokenNeed(pass.price, pass.counted) \in Nat
      BY <3>2, <3>3, <3>4, NeedCovers
    <3>6. Money!AmountOf(pass.price, Total(plan)) \in Nat
      BY <3>2, <3>3, AmountTaken
    <3> QED
      BY <2>4, <3>1, <3>2, <3>5, <3>6
  <2> QED
    BY <1>2, <2>4, <2>5, <2>6, <2>7, <2>8, PassStep
<1> QED
  BY <1>5, <1>6

-----------------------------------------------------------------------------
(* A batch moves from what the pass has to send to what the node has to    *)
(* mine.                                                                   *)

LEMMA MoneyBatches ==
    ASSUME NEW U, NEW sy, NEW B \in Money!Batches(U, sy)
    PROVE  B \subseteq U /\ (sy => \E u \in U : B = {u})
<1>1. Money!NextTransfers(U) \subseteq U
  BY DEF Money!NextTransfers
<1> QED
  BY <1>1 DEF Money!Batches

(* What a batch of units gives and earns, and that it is apart from the    *)
(* other units.                                                            *)
LEMMA BatchFacts ==
    ASSUME MoneyInv, NEW B \in Money!Batches(pass.todo, sync)
    PROVE  /\ B \subseteq pass.todo /\ Total(B) \in Payment
           /\ OneRowEach(Total(B)) /\ (sync => OneRow(Total(B)))
           /\ \A u \in pass.todo \ B :
                 /\ Apart(u, Total(B))
                 /\ ~sync => GivenTo(u) \intersect GivenTo(Total(B)) = {}
           /\ ~sync => \A s \in GivenTo(Total(B)) : sub[s] \in {"new", "failed"}
           /\ \A q : (\A u \in pass.todo : Apart(u, q)) => Apart(Total(B), q)
<1>1. B \subseteq pass.todo /\ (sync => \E u \in pass.todo : B = {u})
  BY MoneyBatches
<1>2. pass.todo \subseteq Payment
  BY PassTypes DEF MoneyInv
<1>3. /\ Total(B) \in Payment
      /\ Total(B).give = UNION {u.give : u \in B} /\ Total(B).bonus = UNION {u.bonus : u \in B}
  BY <1>1, <1>2, TotalIsPayment
<1>4. \A s : s \in GivenTo(Total(B)) <=> \E u \in B : s \in GivenTo(u)
  BY TotalGivenTo
<1>5. GiveOk(txs, pass, sync, sub) /\ PassOk(txs, pass)
  BY DEF MoneyInv
<1>6. \A u \in pass.todo : OneRow(u)
  BY <1>5 DEF GiveOk
<1>7. sync => OneRow(Total(B))
  BY <1>1, <1>3, <1>6 DEF OneRow
<1>8. OneRowEach(Total(B))
  <2>1. CASE sync
    BY <1>7, <2>1 DEF OneRow, OneRowEach
  <2>2. CASE ~sync
    <3> SUFFICES ASSUME NEW r \in Total(B).give, NEW q \in Total(B).give, r[1] = q[1]
                 PROVE  r = q
      BY DEF OneRowEach
    <3>1. PICK u \in B : r \in u.give
      BY <1>3
    <3>2. PICK v \in B : q \in v.give
      BY <1>3
    <3>3. r[1] \in GivenTo(u) /\ r[1] \in GivenTo(v)
      BY <3>1, <3>2 DEF GivenTo
    <3>4. u = v
      BY <1>1, <1>5, <2>2, <3>3 DEF GiveOk
    <3> QED
      BY <1>1, <1>6, <3>1, <3>2, <3>4 DEF OneRow
  <2> QED
    BY <2>1, <2>2
<1>9. ASSUME NEW u \in pass.todo \ B PROVE Apart(u, Total(B))
  <2>1. \A v \in B : Apart(u, v)
    BY <1>1, <1>5 DEF PassOk
  <2> QED
    BY <1>3, <2>1 DEF Apart
<1>10. ASSUME NEW u \in pass.todo \ B, ~sync PROVE GivenTo(u) \intersect GivenTo(Total(B)) = {}
  <2>1. \A v \in B : GivenTo(u) \intersect GivenTo(v) = {}
    BY <1>1, <1>5, <1>10 DEF GiveOk
  <2> QED
    BY <1>4, <2>1
<1>11. ~sync => \A s \in GivenTo(Total(B)) : sub[s] \in {"new", "failed"}
  BY <1>1, <1>4, <1>5 DEF GiveOk
<1>12. ASSUME NEW q, \A u \in pass.todo : Apart(u, q) PROVE Apart(Total(B), q)
  <2>1. \A v \in B : Apart(v, q)
    BY <1>1, <1>12
  <2> QED
    BY <1>3, <2>1 DEF Apart
<1> QED
  BY <1>1, <1>3, <1>7, <1>8, <1>9, <1>10, <1>11, <1>12

(* Recording a payment of submissions none of which awaits a receipt, or   *)
(* which are recorded alone.                                               *)
LEMMA FilePayment ==
    ASSUME MoneyInv, NEW B \in Money!Batches(pass.todo, sync), NEW t0, t0 = Len(txs) + 1,
           NEW more, PayOf(more) = PayOf(txs) \union {t0}, more[t0].paid = Total(B),
           \A t \in PayOf(txs) : more[t] = txs[t],
           NEW sb, sb = [s \in Subs |-> IF s \in GivenTo(Total(B)) THEN "sent" ELSE sub[s]],
           NEW fl, fl = [s \in Subs |-> IF s \in GivenTo(Total(B)) THEN t0 ELSE filed[s]]
    PROVE  FileOk(more, booked, fl, sb)
<1> DEFINE G == GivenTo(Total(B))
<1>1. /\ \A s \in Subs : filed[s] # t0 /\ filed[s] \in Nat
      /\ t0 # 0 /\ t0 \notin DOMAIN booked /\ t0 \notin PayOf(txs)
  <2>1. Len(txs) \in Nat /\ filed \in [Subs -> 0..Len(txs)] /\ DOMAIN booked \subseteq PayOf(txs)
    BY PassTypes DEF MoneyInv, MoneyType
  <2>2. PayOf(txs) \subseteq 1..Len(txs)
    BY PassTypes, TxTypes DEF MoneyInv
  <2> QED
    BY <2>1, <2>2
<1>2. G \subseteq Subs /\ (~sync => \A s \in G : sub[s] \in {"new", "failed"})
  BY BatchFacts, PaymentFacts
<1>3. \A s \in Subs : /\ s \in G => fl[s] = t0 /\ sb[s] = "sent"
                      /\ s \notin G => fl[s] = filed[s] /\ sb[s] = sub[s]
  OBVIOUS
<1>4. \A t \in PayOf(txs) : GivenTo(txs[t].paid) \subseteq Subs
  BY PassTypes, TxTypes, PaymentFacts DEF MoneyInv
<1>5. more[t0].paid = Total(B)
  OBVIOUS
<1> HIDE DEF G
<1> SUFFICES ASSUME NEW s \in Subs, fl[s] # 0
             PROVE  /\ fl[s] \in PayOf(more) /\ s \in GivenTo(more[fl[s]].paid)
                    /\ sb[s] \in {"sent", "done", "failed"}
                    /\ fl[s] \in DOMAIN booked => sb[s] # "sent"
                    /\ \A q \in Subs : fl[q] = fl[s] => sb[q] = sb[s]
                    /\ sb[s] = "sent" => \A q \in GivenTo(more[fl[s]].paid) : fl[q] = fl[s]
  BY DEF FileOk
<1>6. CASE s \in G
  <2>1. fl[s] = t0 /\ sb[s] = "sent" /\ GivenTo(more[fl[s]].paid) = G
    BY <1>3, <1>6 DEF G
  <2>2. \A q \in Subs : fl[q] = t0 => q \in G
    BY <1>1, <1>3
  <2>3. \A q \in G : fl[q] = t0
    BY <1>2, <1>3
  <2>4. t0 \in PayOf(more)
    OBVIOUS
  <2> QED
    BY <1>1, <1>3, <1>6, <2>1, <2>2, <2>3, <2>4
<1>7. CASE s \notin G
  <2> DEFINE t == filed[s]
  <2>1. fl[s] = t /\ sb[s] = sub[s] /\ t # 0
    BY <1>3, <1>7
  <2> HIDE DEF t
  <2>2. /\ t \in PayOf(txs) /\ s \in GivenTo(txs[t].paid)
        /\ sub[s] \in {"sent", "done", "failed"}
        /\ t \in DOMAIN booked => sub[s] # "sent"
        /\ \A q \in Subs : filed[q] = t => sub[q] = sub[s]
        /\ sub[s] = "sent" => \A q \in GivenTo(txs[t].paid) : filed[q] = t
    BY <2>1 DEF MoneyInv, FileOk, t
  <2>3. more[t] = txs[t] /\ t \in PayOf(more) /\ t # t0
    BY <1>1, <2>2
  <2>4. \A q \in Subs : fl[q] = t => sb[q] = sub[s]
    BY <1>3, <2>2, <2>3
  <2>5. ASSUME sub[s] = "sent", NEW q \in GivenTo(txs[t].paid) PROVE fl[q] = t
    <3>1. q \in Subs /\ filed[q] = t /\ sub[q] = "sent"
      BY <1>4, <2>2, <2>5
    <3>2. q \notin G
      <4>1. CASE ~sync
        BY <1>2, <3>1, <4>1
      <4>2. CASE sync
        <5>1. OneRow(txs[t].paid)
          BY <2>2, <4>2 DEF MoneyInv, GiveOk
        <5>2. q = s
          BY <2>2, <5>1 DEF OneRow, GivenTo
        <5> QED
          BY <1>7, <5>2
      <4> QED
        BY <4>1, <4>2
    <3> QED
      BY <1>3, <3>1, <3>2
  <2> QED
    BY <2>1, <2>2, <2>3, <2>4, <2>5
<1> QED
  BY <1>6, <1>7

(* Payments sent in one are still the same payments.                       *)
LEMMA Lumped ==
    ASSUME NEW U, NEW B, B \subseteq U, NEW M
    PROVE  Total(((U \ B) \union {Total(B)}) \union M) = Total(U \union M)
<1> DEFINE p == Total(B)
           now == ((U \ B) \union {p}) \union M
           old == U \union M
<1>1. p.give = UNION {u.give : u \in B} /\ p.bonus = UNION {u.bonus : u \in B}
  BY DEF Total
<1> HIDE DEF p
<1>2. UNION {q.give : q \in now} = UNION {q.give : q \in old}
  <2>1. \A x : x \in p.give <=> \E u \in B : x \in u.give
    BY <1>1
  <2>2. ASSUME NEW x, NEW q \in now, x \in q.give PROVE \E u \in old : x \in u.give
    BY <2>1, <2>2
  <2>3. ASSUME NEW x, NEW q \in old, x \in q.give PROVE \E u \in now : x \in u.give
    <3>1. CASE q \in B
      BY <2>1, <2>3, <3>1
    <3>2. CASE q \notin B
      BY <2>3, <3>2
    <3> QED
      BY <3>1, <3>2
  <2> HIDE DEF now, old
  <2> QED
    BY <2>2, <2>3
<1>3. UNION {q.bonus : q \in now} = UNION {q.bonus : q \in old}
  <2>1. \A x : x \in p.bonus <=> \E u \in B : x \in u.bonus
    BY <1>1
  <2>2. ASSUME NEW x, NEW q \in now, x \in q.bonus PROVE \E u \in old : x \in u.bonus
    BY <2>1, <2>2
  <2>3. ASSUME NEW x, NEW q \in old, x \in q.bonus PROVE \E u \in now : x \in u.bonus
    <3>1. CASE q \in B
      BY <2>1, <2>3, <3>1
    <3>2. CASE q \notin B
      BY <2>3, <3>2
    <3> QED
      BY <3>1, <3>2
  <2> HIDE DEF now, old
  <2> QED
    BY <2>2, <2>3
<1>4. Total(now) = Total(old)
  <2> HIDE DEF now, old
  <2> QED
    BY <1>2, <1>3 DEF Total
<1> QED
  BY <1>4 DEF p

LEMMA PayStep ==
    ASSUME MoneyInv, Money!Pay PROVE MoneyInv'
<1>1. PICK B \in Money!Batches(pass.todo, sync) :
         LET p == Money!Total(B)
         IN /\ txs' = Append(txs, [kind |-> "pay", paid |-> p, price |-> pass.price,
                                   amount |-> Money!AmountOf(pass.price, p),
                                   enough |-> pass.enough, grown |-> pass.grown,
                                   robbed |-> pass.robbed, pass |-> pass.number,
                                   repriced |-> pass.repriced, state |-> "pending"])
            /\ sub' = [s \in Subs |-> IF s \in Money!GivenTo(p) THEN "sent" ELSE sub[s]]
            /\ filed' = [s \in Subs |-> IF s \in Money!GivenTo(p) THEN Len(txs) + 1 ELSE filed[s]]
            /\ pass' = IF B = pass.todo THEN Money!Resting ELSE [pass EXCEPT !.todo = @ \ B]
  BY DEF Money!Pay
<1>2. pass.step = "send" /\ UNCHANGED <<fine, sync, mainOf, giveOut, funded, wallet, booked, events>>
  BY DEF Money!Pay
<1> DEFINE p == Total(B)
           new == [kind |-> "pay", paid |-> p, price |-> pass.price,
                   amount |-> Money!AmountOf(pass.price, p),
                   enough |-> pass.enough, grown |-> pass.grown,
                   robbed |-> pass.robbed, pass |-> pass.number,
                   repriced |-> pass.repriced, state |-> "pending"]
           t0 == Len(txs) + 1
<1>3. /\ txs' = Append(txs, new)
      /\ sub' = [s \in Subs |-> IF s \in GivenTo(p) THEN "sent" ELSE sub[s]]
      /\ filed' = [s \in Subs |-> IF s \in GivenTo(p) THEN t0 ELSE filed[s]]
  BY <1>1, SamePayments
<1>4. /\ MoneyType /\ pass \in Passes /\ wallet \in Nat /\ Len(txs) \in Nat
      /\ txs \in Seq(MoneyTx) /\ pass.todo \subseteq Payment
      /\ pass.price \in GiveOut /\ pass.price \in Nat /\ pass.number \in Nat
      /\ pass.number <= Len(txs) + 1
      /\ p \in Payment /\ B \subseteq pass.todo /\ GivenTo(p) \subseteq Subs
  <2>1. p \in Payment /\ B \subseteq pass.todo
    BY BatchFacts
  <2>2. pass.number \in 1..(Len(txs) + 1) /\ pass.price \in GiveOut
    BY <1>2 DEF MoneyInv, PassOk, PriceOk
  <2>3. MoneyType
    BY DEF MoneyInv
  <2> HIDE DEF p
  <2> QED
    BY <2>1, <2>2, <2>3, PassTypes, PaymentFacts
<1>5. /\ new \in Transfer /\ new \in MoneyTx
      /\ new.kind = "pay" /\ new.paid = p /\ new.price = pass.price
      /\ new.amount = Money!AmountOf(pass.price, p)
      /\ new.enough = pass.enough /\ new.grown = pass.grown /\ new.robbed = pass.robbed
      /\ new.pass = pass.number /\ new.repriced = pass.repriced /\ new.state = "pending"
  <2>1. Money!AmountOf(pass.price, p) \in Nat
    BY <1>4, AmountTaken
  <2> HIDE DEF p
  <2>2. new \in Transfer
    BY <1>4, <2>1 DEF Transfer, Passes
  <2> QED
    BY <2>2 DEF MoneyTx
<1> HIDE DEF new
<1>6. /\ txs' \in Seq(MoneyTx) /\ Len(txs') = t0 /\ DOMAIN txs' = DOMAIN txs \union {t0}
      /\ t0 \notin DOMAIN txs /\ txs'[t0] = new /\ \A t \in DOMAIN txs : txs'[t] = txs[t]
      /\ PayOf(txs') = PayOf(txs) \union {t0}
  BY <1>3, <1>4, <1>5, Appended
<1>7. /\ PayOf(txs) \subseteq DOMAIN txs /\ t0 \notin PayOf(txs)
      /\ \A t \in PayOf(txs) : txs'[t] = txs[t]
      /\ DOMAIN booked \subseteq PayOf(txs)
  BY <1>4, <1>6, TxTypes DEF MoneyType
<1>8. FileOk(txs', booked', filed', sub')
  BY <1>2, <1>3, <1>5, <1>6, <1>7, FilePayment
<1>9. /\ OneRowEach(p) /\ (sync => OneRow(p))
      /\ \A u \in pass.todo \ B :
            Apart(u, p) /\ (~sync => GivenTo(u) \intersect GivenTo(p) = {})
      /\ \A q : (\A u \in pass.todo : Apart(u, q)) => Apart(p, q)
      /\ Total(B).give = UNION {u.give : u \in B} /\ Total(B).bonus = UNION {u.bonus : u \in B}
  BY BatchFacts DEF Total
<1>10. /\ p.give = UNION {u.give : u \in B} /\ p.bonus = UNION {u.bonus : u \in B}
  BY DEF Total
<1>11. /\ \A s \in Subs : sub'[s] = IF s \in GivenTo(p) THEN "sent" ELSE sub[s]
       /\ sub' \in [Subs -> {"none", "new", "sent", "done", "failed"}]
       /\ filed' \in [Subs -> 0..t0]
  <2>1. /\ sub \in [Subs -> {"none", "new", "sent", "done", "failed"}]
        /\ filed \in [Subs -> 0..Len(txs)]
    BY <1>4 DEF MoneyType
  <2> HIDE DEF p
  <2> QED
    BY <1>3, <1>4, <2>1
<1> HIDE DEF p, t0
<1>12. /\ pass' \in Passes
       /\ \/ B = pass.todo /\ pass'.step = "idle" /\ pass'.todo = {}
          \/ /\ pass'.step = "send" /\ pass'.todo = pass.todo \ B
             /\ pass'.price = pass.price /\ pass'.number = pass.number
             /\ pass'.enough = pass.enough /\ pass'.grown = pass.grown
             /\ pass'.robbed = pass.robbed /\ pass'.repriced = pass.repriced
  <2>1. CASE B = pass.todo
    BY <1>1, <2>1 DEF Money!Resting, Passes
  <2>2. CASE B # pass.todo
    BY <1>1, <1>2, <1>4, <2>2 DEF Passes
  <2> QED
    BY <2>1, <2>2
<1>13. MoneyType'
  <2>1. (DOMAIN booked \subseteq PayOf(txs))'
    <3>1. DOMAIN booked' \subseteq PayOf(txs')
      BY <1>2, <1>6, <1>7
    <3> QED
      BY <3>1 DEF PayOf
  <2>2. filed' \in [Subs -> 0..Len(txs')]
    BY <1>6, <1>11
  <2> QED
    BY <1>2, <1>4, <1>6, <1>11, <1>12, <2>1, <2>2 DEF MoneyType
<1>14. PriceOk(txs', booked', pass', giveOut')
  <2>1. ~pass.repriced => pass.price = giveOut
    BY <1>2 DEF MoneyInv, PriceOk
  <2>2. \A t \in PayOf(txs) :
           /\ txs[t].amount = Money!AmountOf(txs[t].price, txs[t].paid)
           /\ t \notin DOMAIN booked /\ ~txs[t].repriced => txs[t].price = giveOut
    BY DEF MoneyInv, PriceOk
  <2>3. \A t \in PayOf(txs') :
           /\ txs'[t].amount = Money!AmountOf(txs'[t].price, txs'[t].paid)
           /\ t \notin DOMAIN booked' /\ ~txs'[t].repriced => txs'[t].price = giveOut'
    BY <1>2, <1>5, <1>6, <1>7, <2>1, <2>2
  <2>4. pass'.step # "idle" => pass'.price \in GiveOut /\ (~pass'.repriced => pass'.price = giveOut')
    BY <1>2, <1>4, <1>12, <2>1
  <2> QED
    BY <2>3, <2>4 DEF PriceOk
<1>15. BookOk(txs', booked')
  BY <1>2, <1>7 DEF MoneyInv, BookOk
<1>16. GiveOk(txs', pass', sync', sub')
  <2>1. \A t \in PayOf(txs') : OneRowEach(txs'[t].paid) /\ (sync => OneRow(txs'[t].paid))
    BY <1>5, <1>6, <1>7, <1>9 DEF MoneyInv, GiveOk
  <2>2. pass'.todo \subseteq pass.todo \ B
    BY <1>12
  <2>3. ASSUME NEW u \in pass'.todo
        PROVE  /\ OneRow(u)
               /\ ~sync => /\ \A s \in GivenTo(u) : sub'[s] \in {"new", "failed"}
                           /\ \A v \in pass'.todo : u # v => GivenTo(u) \intersect GivenTo(v) = {}
    <3>1. /\ OneRow(u)
          /\ ~sync => /\ \A s \in GivenTo(u) : sub[s] \in {"new", "failed"}
                      /\ \A v \in pass.todo : u # v => GivenTo(u) \intersect GivenTo(v) = {}
      BY <2>2 DEF MoneyInv, GiveOk
    <3>2. GivenTo(u) \subseteq Subs
      BY <1>4, <2>2, PaymentFacts
    <3>3. ~sync => GivenTo(u) \intersect GivenTo(p) = {}
      BY <1>9, <2>2
    <3> QED
      BY <1>11, <2>2, <3>1, <3>2, <3>3
  <2> QED
    BY <1>2, <2>1, <2>3 DEF GiveOk
<1>17. ASSUME NEW t \in PayOf(txs), txs[t].pass = pass.number
       PROVE  /\ Apart(p, txs[t].paid) /\ txs[t].price = pass.price
              /\ (\A u \in pass.todo : Apart(u, txs[t].paid))
              /\ txs[t].enough = pass.enough /\ txs[t].grown = pass.grown
              /\ txs[t].robbed = pass.robbed
  <2>1. /\ \A u \in pass.todo : Apart(u, txs[t].paid)
        /\ txs[t].price = pass.price /\ txs[t].enough = pass.enough
        /\ txs[t].grown = pass.grown /\ txs[t].robbed = pass.robbed
    BY <1>2, <1>17 DEF MoneyInv, PassOk
  <2> QED
    BY <1>9, <2>1
<1>18. \A q, r : Apart(q, r) <=> Apart(r, q)
  BY DEF Apart
<1>19. PassOk(txs', pass')
  <2>1. \A t \in PayOf(txs') : txs'[t].pass <= Len(txs')
    <3>1. t0 = Len(txs) + 1
      BY DEF t0
    <3>2. \A t \in PayOf(txs) : txs[t].pass <= Len(txs) /\ txs[t].pass \in Nat
      BY <1>4, TxTypes DEF MoneyInv, PassOk
    <3> QED
      BY <1>4, <1>5, <1>6, <1>7, <3>1, <3>2
  <2>2. pass'.step # "idle" => pass'.number \in 1..(Len(txs') + 1)
    <3>1. pass.number \in 1..(Len(txs) + 1)
      BY <1>2 DEF MoneyInv, PassOk
    <3> QED
      BY <1>4, <1>6, <1>12, <3>1 DEF t0
  <2>3. ASSUME NEW t \in PayOf(txs'), NEW u \in PayOf(txs'), txs'[u].pass = txs'[t].pass
        PROVE  /\ txs'[u].price = txs'[t].price /\ txs'[u].enough = txs'[t].enough
               /\ txs'[u].grown = txs'[t].grown /\ txs'[u].robbed = txs'[t].robbed
               /\ u # t => Apart(txs'[u].paid, txs'[t].paid)
    <3>1. CASE t = t0 /\ u = t0
      BY <3>1
    <3>2. CASE t = t0 /\ u # t0
      <4>1. u \in PayOf(txs) /\ txs[u].pass = pass.number
        BY <1>5, <1>6, <1>7, <2>3, <3>2
      <4> QED
        BY <1>5, <1>6, <1>7, <1>17, <1>18, <3>2, <4>1
    <3>3. CASE t # t0 /\ u = t0
      <4>1. t \in PayOf(txs) /\ txs[t].pass = pass.number
        BY <1>5, <1>6, <1>7, <2>3, <3>3
      <4> QED
        BY <1>5, <1>6, <1>7, <1>17, <1>18, <3>3, <4>1
    <3>4. CASE t # t0 /\ u # t0
      <4>1. t \in PayOf(txs) /\ u \in PayOf(txs) /\ txs[u].pass = txs[t].pass
        BY <1>6, <1>7, <2>3, <3>4
      <4>2. /\ txs[u].price = txs[t].price /\ txs[u].enough = txs[t].enough
            /\ txs[u].grown = txs[t].grown /\ txs[u].robbed = txs[t].robbed
            /\ u # t => Apart(txs[u].paid, txs[t].paid)
        BY <4>1 DEF MoneyInv, PassOk
      <4> QED
        BY <1>7, <4>1, <4>2
    <3> QED
      BY <3>1, <3>2, <3>3, <3>4
  <2>4. ASSUME NEW t \in PayOf(txs'), pass'.step # "idle", txs'[t].pass = pass'.number
        PROVE  /\ pass'.step = "send" /\ \A u \in pass'.todo : Apart(u, txs'[t].paid)
               /\ txs'[t].price = pass'.price /\ txs'[t].enough = pass'.enough
               /\ txs'[t].grown = pass'.grown /\ txs'[t].robbed = pass'.robbed
    <3>1. CASE t = t0
      BY <1>5, <1>6, <1>9, <1>12, <2>4, <3>1
    <3>2. CASE t # t0
      <4>1. t \in PayOf(txs) /\ txs[t].pass = pass.number /\ txs'[t] = txs[t]
        BY <1>6, <1>7, <1>12, <2>4, <3>2
      <4> QED
        BY <1>12, <1>17, <2>4, <4>1
    <3> QED
      BY <3>1, <3>2
  <2>5. /\ pass'.step # "send" => pass'.todo = {}
        /\ \A u, v \in pass'.todo : u # v => Apart(u, v)
    BY <1>12 DEF MoneyInv, PassOk
  <2> QED
    BY <2>1, <2>2, <2>3, <2>4, <2>5 DEF PassOk
<1>20. ASSUME NEW k PROVE Total(Unpaid(txs', pass', k)) = Total(Unpaid(txs, pass, k))
  <2> DEFINE old == Unpaid(txs, pass, k)  now == Unpaid(txs', pass', k)
             mined == {q \in Payment : \E t \in PayOf(txs) :
                          txs[t].pass = k /\ txs[t].state = "pending" /\ txs[t].paid = q}
  <2>1. old = (IF pass.number = k THEN pass.todo ELSE {}) \union mined
    BY <1>2, <1>4 DEF Unpaid
  <2>2. now = (IF pass.number = k THEN (pass.todo \ B) \union {p} ELSE {}) \union mined
    <3>1. now = {q \in Payment :
                   \/ pass'.step = "send" /\ pass'.number = k /\ q \in pass'.todo
                   \/ \E t \in PayOf(txs') :
                         txs'[t].pass = k /\ txs'[t].state = "pending" /\ txs'[t].paid = q}
      BY DEF Unpaid
    <3>2. \A q : (pass'.step = "send" /\ pass'.number = k /\ q \in pass'.todo)
                    <=> (pass.number = k /\ q \in pass.todo \ B)
      BY <1>12
    <3>3. \A q : (\E t \in PayOf(txs') :
                     txs'[t].pass = k /\ txs'[t].state = "pending" /\ txs'[t].paid = q)
                 <=> \/ pass.number = k /\ q = p
                     \/ \E t \in PayOf(txs) :
                           txs[t].pass = k /\ txs[t].state = "pending" /\ txs[t].paid = q
      BY <1>5, <1>6, <1>7
    <3>4. \A q : q \in now <=> q \in Payment /\
                 (\/ pass.number = k /\ q \in pass.todo \ B
                  \/ pass.number = k /\ q = p
                  \/ \E t \in PayOf(txs) :
                        txs[t].pass = k /\ txs[t].state = "pending" /\ txs[t].paid = q)
      BY <3>1, <3>2, <3>3
    <3>5. \A q : q \in now <=> \/ pass.number = k /\ (q \in pass.todo \ B \/ q = p)
                               \/ q \in mined
      BY <1>4, <3>4
    <3> HIDE DEF now, mined
    <3> QED
      BY <3>5
  <2> HIDE DEF old, now, mined
  <2>3. CASE pass.number = k
    <3>1. old = pass.todo \union mined /\ now = ((pass.todo \ B) \union {Total(B)}) \union mined
      BY <2>1, <2>2, <2>3 DEF p
    <3>2. Total(now) = Total(old)
      BY <1>4, <3>1, Lumped
    <3> QED
      BY <3>2 DEF old, now
  <2>4. CASE pass.number # k
    BY <2>1, <2>2, <2>4 DEF old, now
  <2> QED
    BY <2>3, <2>4
<1>21. \A k, price : Due(txs', pass', k, price) = Due(txs, pass, k, price)
  BY <1>20 DEF Due
<1>22. CoverOk(txs', pass', wallet')
  <2>1. pass.enough /\ ~pass.grown /\ ~pass.robbed => wallet >= Due(txs, pass, pass.number, pass.price)
    BY <1>2 DEF MoneyInv, CoverOk
  <2>2. ASSUME NEW t \in PayOf(txs'), txs'[t].enough, ~txs'[t].grown, ~txs'[t].robbed
        PROVE  /\ txs'[t].state = "pending" => wallet' >= Due(txs', pass', txs'[t].pass, txs'[t].price)
               /\ txs'[t].state # "failed"
    <3>1. CASE t = t0
      BY <1>2, <1>5, <1>6, <1>21, <2>1, <2>2, <3>1
    <3>2. CASE t # t0
      <4>1. t \in PayOf(txs) /\ txs'[t] = txs[t]
        BY <1>6, <1>7, <3>2
      <4>2. /\ txs[t].state = "pending" => wallet >= Due(txs, pass, txs[t].pass, txs[t].price)
            /\ txs[t].state # "failed"
        BY <2>2, <4>1 DEF MoneyInv, CoverOk
      <4> QED
        BY <1>2, <1>21, <4>1, <4>2
    <3> QED
      BY <3>1, <3>2
  <2>3. pass'.step = "send" /\ pass'.enough /\ ~pass'.grown /\ ~pass'.robbed =>
            wallet' >= Due(txs', pass', pass'.number, pass'.price)
    BY <1>2, <1>12, <1>21, <2>1
  <2>4. pass'.step \notin {"count", "select"}
    BY <1>12
  <2> QED
    BY <2>2, <2>3, <2>4 DEF CoverOk
<1> QED
  BY <1>8, <1>13, <1>14, <1>15, <1>16, <1>19, <1>22, MoneyInvNext

(* The checker books what a payment is at the price of the row, which is   *)
(* its own unless it is marked, for all it paid.                           *)
LEMMA CheckStep ==
    ASSUME MoneyInv, NEW t \in DOMAIN txs, Money!CheckSubmission(t) PROVE MoneyInv'
<1> DEFINE F == {s \in Subs : filed[s] = t}
           n == Cardinality(F)
           good == txs[t].state = "good"
           entry == [giveOut |-> Money!TotalGiveOutDecimals(giveOut, n),
                     bonus |-> Money!TotalTokenBonusDecimals(giveOut, n)]
<1>1. /\ \E s \in F : sub[s] = "sent"
      /\ sub' = [s \in Subs |-> IF s \notin F THEN sub[s] ELSE IF good THEN "done" ELSE "failed"]
      /\ booked' = IF ~good THEN booked
                   ELSE [u \in DOMAIN booked \union {t} |-> IF u # t THEN booked[u] ELSE entry]
      /\ UNCHANGED <<fine, sync, mainOf, giveOut, funded, filed, wallet, txs, pass, events>>
  BY SameMoneyCount DEF Money!CheckSubmission, Money!Filed
<1>2. PICK s0 \in F : sub[s0] = "sent"
  BY <1>1
<1>3. MoneyType /\ txs \in Seq(MoneyTx)
  BY DEF MoneyInv, MoneyType
<1>4. t # 0
  BY <1>3
<1>5. /\ t \in PayOf(txs) /\ t \notin DOMAIN booked
      /\ \A s \in F : sub[s] = "sent" /\ s \in GivenTo(txs[t].paid)
      /\ \A q \in GivenTo(txs[t].paid) : filed[q] = t
  BY <1>2, <1>4 DEF MoneyInv, FileOk
<1>6. F = GivenTo(txs[t].paid)
  <2>1. GivenTo(txs[t].paid) \subseteq Subs
    BY <1>3, <1>5, TxTypes, PaymentFacts
  <2> QED
    BY <1>5, <2>1
<1>7. \A s \in Subs : /\ s \notin F => sub'[s] = sub[s]
                      /\ s \in F => sub'[s] \in {"done", "failed"}
                      /\ \A q \in Subs : s \in F /\ q \in F => sub'[q] = sub'[s]
  BY <1>1
<1>8. /\ sub' \in [Subs -> {"none", "new", "sent", "done", "failed"}]
      /\ DOMAIN booked' \subseteq DOMAIN booked \union {t}
      /\ DOMAIN booked \subseteq DOMAIN booked'
      /\ \A u \in DOMAIN booked : booked'[u] = booked[u]
      /\ t \in DOMAIN booked' => booked'[t] = entry
  <2>1. sub' \in [Subs -> {"none", "new", "sent", "done", "failed"}]
    BY <1>1, <1>3 DEF MoneyType
  <2> HIDE DEF entry, good, F
  <2> QED
    BY <1>1, <1>5, <2>1
<1>9. BookedAt(entry, giveOut, n)
  BY DEF BookedAt
<1> HIDE DEF entry, good
<1>10. MoneyType'
  <2>1. (DOMAIN booked \subseteq PayOf(txs))'
    <3>1. DOMAIN booked' \subseteq PayOf(txs)
      BY <1>3, <1>5, <1>8 DEF MoneyType
    <3>2. txs' = txs
      BY <1>1
    <3> QED
      BY <3>1, <3>2 DEF PayOf
  <2> QED
    BY <1>1, <1>3, <1>8, <2>1 DEF MoneyType
<1>11. PriceOk(txs', booked', pass', giveOut')
  BY <1>1, <1>8 DEF MoneyInv, PriceOk
<1>12. BookOk(txs', booked')
  <2>1. txs[t].repriced \/ txs[t].price = giveOut
    BY <1>5 DEF MoneyInv, PriceOk
  <2>2. txs[t].repriced \/ BookedAt(entry, txs[t].price, Cardinality(GivenTo(txs[t].paid)))
    BY <1>6, <1>9, <2>1
  <2> QED
    BY <1>1, <1>8, <2>2 DEF MoneyInv, BookOk
<1>13. FileOk(txs', booked', filed', sub')
  <2> SUFFICES ASSUME NEW s \in Subs, filed[s] # 0
               PROVE  /\ filed[s] \in PayOf(txs) /\ s \in GivenTo(txs[filed[s]].paid)
                      /\ sub'[s] \in {"sent", "done", "failed"}
                      /\ filed[s] \in DOMAIN booked' => sub'[s] # "sent"
                      /\ \A q \in Subs : filed[q] = filed[s] => sub'[q] = sub'[s]
                      /\ sub'[s] = "sent" => \A q \in GivenTo(txs[filed[s]].paid) : filed[q] = filed[s]
    BY <1>1 DEF FileOk
  <2>1. /\ filed[s] \in PayOf(txs) /\ s \in GivenTo(txs[filed[s]].paid)
        /\ sub[s] \in {"sent", "done", "failed"}
        /\ filed[s] \in DOMAIN booked => sub[s] # "sent"
        /\ \A q \in Subs : filed[q] = filed[s] => sub[q] = sub[s]
        /\ sub[s] = "sent" => \A q \in GivenTo(txs[filed[s]].paid) : filed[q] = filed[s]
    BY DEF MoneyInv, FileOk
  <2>2. CASE s \in F
    BY <1>7, <2>1, <2>2
  <2>3. CASE s \notin F
    <3>1. filed[s] # t
      BY <2>3
    <3>2. \A q \in Subs : filed[q] = filed[s] => q \notin F
      BY <3>1
    <3> HIDE DEF F
    <3> QED
      BY <1>7, <1>8, <2>1, <2>3, <3>1, <3>2
  <2> QED
    BY <2>2, <2>3
<1>14. GiveOk(txs', pass', sync', sub')
  <2>1. ASSUME NEW u \in pass.todo, ~sync, NEW s \in GivenTo(u) PROVE sub'[s] \in {"new", "failed"}
    <3>1. sub[s] \in {"new", "failed"}
      BY <2>1 DEF MoneyInv, GiveOk
    <3>2. s \in Subs
      BY <1>3, <2>1, PassTypes, PaymentFacts
    <3>3. s \notin F
      BY <1>5, <3>1
    <3> QED
      BY <1>7, <3>1, <3>2, <3>3
  <2> QED
    BY <1>1, <2>1 DEF MoneyInv, GiveOk
<1>15. PassOk(txs', pass') /\ CoverOk(txs', pass', wallet')
  BY <1>1 DEF MoneyInv
<1> QED
  BY <1>10, <1>11, <1>12, <1>13, <1>14, <1>15, MoneyInvNext

(* A mined transaction robs every pass but its own, and what its own had   *)
(* for it, it takes.                                                       *)
LEMMA MineStep ==
    ASSUME MoneyInv, NEW t \in DOMAIN txs, Money!Mine(t) PROVE MoneyInv'
<1> DEFINE good == wallet >= txs[t].amount
           Foreign(k) == txs[t].kind = "withdraw" \/ txs[t].pass # k
           Mined(u) == IF u = t THEN [txs[u] EXCEPT !.state = IF good THEN "good" ELSE "failed"]
                       ELSE IF Money!Robbed(t, u) THEN [txs[u] EXCEPT !.robbed = TRUE] ELSE txs[u]
<1>1. /\ txs[t].state = "pending"
      /\ wallet' = IF good THEN wallet - txs[t].amount ELSE wallet
      /\ txs' = [u \in DOMAIN txs |-> Mined(u)]
      /\ pass' = IF pass.step # "idle" /\ Foreign(pass.number)
                 THEN [pass EXCEPT !.robbed = TRUE] ELSE pass
      /\ UNCHANGED <<fine, sync, mainOf, giveOut, funded, sub, filed, booked, events>>
  BY DEF Money!Mine, Money!table
<1>2. /\ MoneyType /\ pass \in Passes /\ wallet \in Nat /\ txs[t].amount \in Nat
      /\ txs \in Seq(MoneyTx) /\ txs[t] \in MoneyTx
      /\ good \in BOOLEAN
  <2>1. MoneyType /\ pass \in Passes /\ wallet \in Nat /\ txs \in Seq(MoneyTx)
    BY DEF MoneyInv, MoneyType
  <2> QED
    BY <2>1, TxTypes
<1>3. ASSUME NEW u \in DOMAIN txs
      PROVE  /\ Mined(u) \in MoneyTx
             /\ Mined(u).kind = txs[u].kind
             /\ txs[u].kind = "pay" =>
                   /\ Mined(u).paid = txs[u].paid /\ Mined(u).price = txs[u].price
                   /\ Mined(u).enough = txs[u].enough /\ Mined(u).grown = txs[u].grown
                   /\ Mined(u).pass = txs[u].pass
                   /\ Mined(u).amount = txs[u].amount
                   /\ Mined(u).repriced = txs[u].repriced
                   /\ Mined(u).robbed \in BOOLEAN
                   /\ Mined(u).robbed <=> txs[u].robbed \/ Foreign(txs[u].pass)
                   /\ u # t => Mined(u).state = txs[u].state
                   /\ u = t => Mined(u).state = IF good THEN "good" ELSE "failed"
  <2>1. txs[u] \in Withdrawal \union Transfer
    BY <1>2, TxTypes DEF MoneyTx
  <2>2. CASE u = t
    <3>1. Mined(u) = [txs[u] EXCEPT !.state = IF good THEN "good" ELSE "failed"]
      BY <2>2
    <3> HIDE DEF Mined, good
    <3>2. CASE txs[u] \in Withdrawal
      BY <2>2, <3>1, <3>2 DEF Withdrawal, MoneyTx
    <3>3. CASE txs[u] \in Transfer
      BY <2>2, <3>1, <3>3 DEF Transfer, MoneyTx
    <3> QED
      BY <2>1, <3>2, <3>3
  <2>3. CASE u # t /\ Money!Robbed(t, u)
    <3>1. Mined(u) = [txs[u] EXCEPT !.robbed = TRUE] /\ txs[u].kind = "pay" /\ Foreign(txs[u].pass)
      BY <2>3 DEF Money!Robbed
    <3> HIDE DEF Mined, good
    <3>2. txs[u] \in Transfer
      BY <2>1, <3>1 DEF Withdrawal
    <3> QED
      BY <2>3, <3>1, <3>2 DEF Transfer, MoneyTx
  <2>4. CASE u # t /\ ~Money!Robbed(t, u)
    <3>1. Mined(u) = txs[u] /\ (txs[u].kind = "pay" => ~Foreign(txs[u].pass))
      BY <2>4 DEF Money!Robbed
    <3> HIDE DEF Mined, good, Foreign
    <3>2. txs[u].kind = "pay" => txs[u].robbed \in BOOLEAN
      BY <2>1 DEF Withdrawal, Transfer
    <3> QED
      BY <2>1, <2>4, <3>1, <3>2 DEF MoneyTx
  <2> QED
    BY <2>2, <2>3, <2>4
<1> HIDE DEF Foreign
<1>4. /\ txs' \in Seq(MoneyTx) /\ Len(txs') = Len(txs)
      /\ DOMAIN txs' = DOMAIN txs /\ \A u \in DOMAIN txs : txs'[u] = Mined(u)
  <2>1. txs' \in [DOMAIN txs -> MoneyTx]
    BY <1>1, <1>3
  <2> HIDE DEF Mined
  <2> QED
    BY <1>1, <1>2, <2>1, MapSeq
<1>5. PayOf(txs') = PayOf(txs) /\ PayOf(txs) \subseteq DOMAIN txs
  <2> HIDE DEF Mined
  <2> QED
    BY <1>3, <1>4 DEF PayOf
<1>6. ASSUME NEW u \in PayOf(txs)
      PROVE  /\ txs'[u].paid = txs[u].paid /\ txs'[u].price = txs[u].price
             /\ txs'[u].enough = txs[u].enough /\ txs'[u].grown = txs[u].grown
             /\ txs'[u].pass = txs[u].pass /\ txs'[u].amount = txs[u].amount
             /\ txs'[u].repriced = txs[u].repriced
             /\ txs'[u].robbed \in BOOLEAN
             /\ txs'[u].robbed <=> txs[u].robbed \/ Foreign(txs[u].pass)
             /\ u # t => txs'[u].state = txs[u].state
             /\ u = t => txs'[u].state = IF good THEN "good" ELSE "failed"
  <2> HIDE DEF Mined, good
  <2> QED
    BY <1>3, <1>4, <1>5 DEF PayOf
<1> HIDE DEF Mined
<1>7. /\ pass' \in Passes /\ pass'.step = pass.step /\ pass'.number = pass.number
      /\ pass'.todo = pass.todo /\ pass'.price = pass.price /\ pass'.enough = pass.enough
      /\ pass'.grown = pass.grown /\ pass'.counted = pass.counted
      /\ pass'.repriced = pass.repriced /\ pass'.balance = pass.balance
      /\ pass.step # "idle" =>
            (pass'.robbed <=> pass.robbed \/ Foreign(pass.number)) /\ pass'.robbed \in BOOLEAN
  <2>1. CASE pass.step # "idle" /\ Foreign(pass.number)
    BY <1>1, <1>2, <2>1 DEF Passes
  <2>2. CASE ~(pass.step # "idle" /\ Foreign(pass.number))
    BY <1>1, <1>2, <2>2 DEF Passes
  <2> QED
    BY <2>1, <2>2
<1>8. wallet' \in Nat
  BY <1>1, <1>2
<1>9. MoneyType'
  <2>1. (DOMAIN booked \subseteq PayOf(txs))'
    <3>1. DOMAIN booked' \subseteq PayOf(txs')
      BY <1>1, <1>2, <1>5 DEF MoneyType
    <3> QED
      BY <3>1 DEF PayOf
  <2>2. filed' \in [Subs -> 0..Len(txs')]
    BY <1>1, <1>2, <1>4 DEF MoneyType
  <2> QED
    BY <1>1, <1>2, <1>4, <1>7, <1>8, <2>1, <2>2 DEF MoneyType
<1>10. PriceOk(txs', booked', pass', giveOut') /\ BookOk(txs', booked')
  <2>1. RecordsStay
    BY <1>1, <1>5, <1>6, <1>7 DEF RecordsStay, MoneyInv, PriceOk
  <2> QED
    BY <1>2, <2>1, RecordsKeep DEF MoneyInv
<1>11. FileOk(txs', booked', filed', sub') /\ GiveOk(txs', pass', sync', sub')
  <2>1. FilesStay
    BY <1>1, <1>5, <1>6, <1>7 DEF FilesStay
  <2>2. pass.todo \subseteq Payment /\ \A u \in PayOf(txs) : txs[u].paid \in Payment
    BY <1>2, PassTypes, TxTypes
  <2> QED
    BY <2>1, <2>2, FilesKeep DEF MoneyInv
<1>12. PassOk(txs', pass')
  <2>1. \A u \in PayOf(txs) : txs[u].robbed \in BOOLEAN
    BY <1>2, TxTypes
  <2>2. \A u \in PayOf(txs) : \A v \in PayOf(txs) : txs[v].pass = txs[u].pass =>
           txs'[v].robbed = txs'[u].robbed
    BY <1>6, <2>1 DEF MoneyInv, PassOk
  <2>3. \A u \in PayOf(txs) : pass.step # "idle" /\ txs[u].pass = pass.number =>
           txs'[u].robbed = pass'.robbed
    BY <1>6, <1>7, <2>1 DEF MoneyInv, PassOk
  <2> QED
    BY <1>4, <1>5, <1>6, <1>7, <2>2, <2>3 DEF MoneyInv, PassOk
<1>13. ASSUME NEW k, ~Foreign(k)
       PROVE  t \in PayOf(txs) /\ txs[t].pass = k
  <2>1. txs[t].kind # "withdraw" /\ txs[t].pass = k
    BY <1>13 DEF Foreign
  <2> QED
    BY <1>2, <2>1 DEF PayOf, MoneyTx, Withdrawal, Transfer
<1>14. ASSUME NEW k, ~Foreign(k), NEW price, price = txs[t].price, price \in Nat,
              wallet >= Due(txs, pass, k, price)
       PROVE  good /\ wallet' >= Due(txs', pass', k, price)
  <2> DEFINE before == Unpaid(txs, pass, k)  after == Unpaid(txs', pass', k)
             all == Total(before)  left == Total(after)  paid == txs[t].paid
  <2>1. t \in PayOf(txs) /\ txs[t].pass = k /\ paid \in Payment
    BY <1>2, <1>13, <1>14, TxTypes
  <2>2. /\ all \in Payment /\ left \in Payment
        /\ all.give = UNION {q.give : q \in before} /\ all.bonus = UNION {q.bonus : q \in before}
        /\ left.give = UNION {q.give : q \in after} /\ left.bonus = UNION {q.bonus : q \in after}
    <3>1. before \subseteq Payment /\ after \subseteq Payment
      BY DEF Unpaid
    <3> HIDE DEF before, after
    <3> QED
      BY <3>1, TotalIsPayment
  <2>3. paid \in before
    BY <1>1, <2>1 DEF Unpaid
  <2>4. \A q \in after : q \in before /\ Apart(q, paid)
    <3> SUFFICES ASSUME NEW q \in after PROVE q \in before /\ Apart(q, paid)
      OBVIOUS
    <3>1. q \in Payment /\ (\/ pass'.step = "send" /\ pass'.number = k /\ q \in pass'.todo
                            \/ \E u \in PayOf(txs') : txs'[u].pass = k /\ txs'[u].state = "pending"
                                                      /\ txs'[u].paid = q)
      BY DEF Unpaid
    <3>2. CASE pass'.step = "send" /\ pass'.number = k /\ q \in pass'.todo
      <4>1. q \in before
        BY <1>7, <3>1, <3>2 DEF Unpaid
      <4>2. Apart(q, paid)
        BY <1>7, <2>1, <3>2 DEF MoneyInv, PassOk
      <4> QED
        BY <4>1, <4>2
    <3>3. ASSUME NEW u \in PayOf(txs'), txs'[u].pass = k, txs'[u].state = "pending", txs'[u].paid = q
          PROVE  q \in before /\ Apart(q, paid)
      <4>1. u \in PayOf(txs) /\ txs[u].pass = k /\ txs[u].paid = q
        BY <1>5, <1>6, <3>3
      <4>2. u # t
        <5> SUFFICES ASSUME u = t PROVE FALSE
          OBVIOUS
        <5>1. txs'[t].state = IF good THEN "good" ELSE "failed"
          BY <1>6, <2>1
        <5> HIDE DEF good
        <5> QED
          BY <3>3, <5>1
      <4>3. txs[u].state = "pending"
        BY <1>6, <3>3, <4>1, <4>2
      <4>4. Apart(txs[u].paid, txs[t].paid)
        BY <2>1, <4>1, <4>2 DEF MoneyInv, PassOk
      <4>5. q \in before
        BY <3>1, <4>1, <4>3 DEF Unpaid
      <4> QED
        BY <4>1, <4>4, <4>5
    <3> QED
      BY <3>1, <3>2, <3>3
  <2>5. txs[t].amount = Money!AmountOf(price, paid)
    BY <1>14, <2>1 DEF MoneyInv, PriceOk
  <2>6. Due(txs, pass, k, price) = Money!AmountOf(price, all)
        /\ Due(txs', pass', k, price) = Money!AmountOf(price, left)
    BY DEF Due
  <2> HIDE DEF before, after, all, left, paid
  <2>7. Within(left, all) /\ Within(paid, all)
    BY <2>2, <2>3, <2>4 DEF Within
  <2>8. Apart(left, paid)
    BY <2>2, <2>4 DEF Apart
  <2>9. Money!AmountOf(price, left) + Money!AmountOf(price, paid) <= Money!AmountOf(price, all)
    BY <1>14, <2>1, <2>2, <2>7, <2>8, DueSplits
  <2>10. /\ Money!AmountOf(price, left) \in Nat /\ Money!AmountOf(price, paid) \in Nat
         /\ Money!AmountOf(price, all) \in Nat
    BY <1>14, <2>1, <2>2, AmountTaken
  <2> QED
    BY <1>1, <1>2, <1>14, <2>5, <2>6, <2>9, <2>10
<1> HIDE DEF good
<1>15. ASSUME NEW u \in PayOf(txs'), txs'[u].enough, ~txs'[u].grown, ~txs'[u].robbed
       PROVE  /\ txs'[u].state = "pending" => wallet' >= Due(txs', pass', txs'[u].pass, txs'[u].price)
              /\ txs'[u].state # "failed"
  <2> DEFINE k == txs[u].pass
  <2>1. /\ u \in PayOf(txs) /\ txs[u].enough /\ ~txs[u].grown /\ ~txs[u].robbed /\ ~Foreign(k)
        /\ txs'[u].pass = k /\ txs'[u].price = txs[u].price
    BY <1>5, <1>6, <1>15
  <2>2. t \in PayOf(txs) /\ txs[t].pass = k
    BY <1>13, <2>1
  <2>3. /\ txs[t].price = txs[u].price /\ txs[t].enough /\ ~txs[t].grown /\ ~txs[t].robbed
        /\ txs[u].price \in Nat
    BY <1>2, <2>1, <2>2, TxTypes DEF MoneyInv, PassOk
  <2>4. wallet >= Due(txs, pass, k, txs[u].price)
    BY <1>1, <2>2, <2>3 DEF MoneyInv, CoverOk
  <2> HIDE DEF k
  <2>5. good /\ wallet' >= Due(txs', pass', k, txs[u].price)
    BY <1>14, <2>1, <2>3, <2>4
  <2>6. txs[u].state # "failed"
    BY <2>1 DEF MoneyInv, CoverOk
  <2> QED
    BY <1>6, <2>1, <2>5, <2>6
<1>16. CoverOk(txs', pass', wallet')
  <2>1. ASSUME pass'.step \in {"count", "select"}, ~pass'.robbed PROVE FALSE
    <3>1. pass.step \in {"count", "select"} /\ ~Foreign(pass.number)
      BY <1>7, <2>1
    <3>2. t \in PayOf(txs) /\ txs[t].pass = pass.number
      BY <1>13, <3>1
    <3> QED
      BY <3>1, <3>2 DEF MoneyInv, PassOk
  <2>2. ASSUME pass'.step = "send", pass'.enough, ~pass'.grown, ~pass'.robbed
        PROVE  wallet' >= Due(txs', pass', pass'.number, pass'.price)
    <3> DEFINE k == pass.number
    <3>1. /\ pass.step = "send" /\ pass.enough /\ ~pass.grown /\ ~pass.robbed /\ ~Foreign(k)
          /\ pass'.number = k /\ pass'.price = pass.price
      BY <1>7, <2>2
    <3>2. t \in PayOf(txs) /\ txs[t].pass = k
      BY <1>13, <3>1
    <3>3. txs[t].price = pass.price /\ pass.price \in Nat
      BY <1>2, <3>1, <3>2, PassTypes DEF MoneyInv, PassOk
    <3>4. wallet >= Due(txs, pass, k, pass.price)
      BY <3>1 DEF MoneyInv, CoverOk
    <3> HIDE DEF k
    <3> QED
      BY <1>14, <3>1, <3>3, <3>4
  <2>3. pass'.step = "select" /\ pass'.enough => pass'.balance >= Money!TokenNeed(pass'.price, pass'.counted)
    BY <1>7 DEF MoneyInv, CoverOk
  <2> QED
    BY <1>15, <2>1, <2>2, <2>3 DEF CoverOk
<1> QED
  BY <1>9, <1>10, <1>11, <1>12, <1>16, MoneyInvNext

LEMMA MoneyStep == MoneyInv /\ Money!Next => MoneyInv'
<1> SUFFICES ASSUME MoneyInv, Money!Next PROVE MoneyInv'
  OBVIOUS
<1>1. ASSUME NEW g \in GiveOut, Money!UpdateHandler(g) PROVE MoneyInv'
  BY <1>1, UpdateStep
<1>2. ASSUME NEW asked \in 0..(Part + Part \div 2), Money!WithdrawHandler(asked) PROVE MoneyInv'
  <2>1. asked \in Nat
    BY MoneyConstants
  <2> QED
    BY <1>2, <2>1, WithdrawStep
<1>3. CASE Money!Drop
  BY <1>3, DropStep
<1>4. CASE Money!CountOwed
  BY <1>4, CountStep
<1>5. CASE Money!SelectOwed
  BY <1>5, SelectStep
<1>6. CASE Money!Pay
  BY <1>6, PayStep
<1>7. ASSUME NEW t \in DOMAIN txs, Money!Mine(t) PROVE MoneyInv'
  BY <1>7, MineStep
<1>8. ASSUME NEW t \in DOMAIN txs, Money!CheckSubmission(t) PROVE MoneyInv'
  BY <1>8, CheckStep
<1>9. CASE \/ \E s \in Subs : Money!Submit(s)
           \/ \E p \in Promoters : Money!InsertMainWallet(p)
           \/ Money!TopUp \/ Money!CheckBalance
  BY <1>9, QuietSteps
<1> QED
  BY <1>1, <1>2, <1>3, <1>4, <1>5, <1>6, <1>7, <1>8, <1>9 DEF Money!Next

MoneyKept == runs = "money" => MoneyInv

(* The invariant of the airdrop's money, whatever else the run may choose  *)
(* to look at.                                                             *)
LEMMA MoneyInvariance == PartsSpec => []MoneyKept
<1> DEFINE Parts == PayoutNext \/ SetupNext \/ MoneyNext
<1>1. PartsInit => MoneyKept
  BY MoneyStart DEF PartsInit, MoneyKept
<1>2. MoneyKept /\ [Parts]_allVars => MoneyKept'
  <2> SUFFICES ASSUME MoneyKept, [Parts]_allVars, runs' = "money" PROVE MoneyInv'
    BY DEF MoneyKept
  <2>1. runs = "money" /\ MoneyInv
    BY DEF MoneyKept, PayoutNext, SetupNext, MoneyNext, allVars
  <2>2. CASE MoneyNext
    BY <2>1, <2>2, MoneyStep DEF MoneyNext
  <2>3. CASE UNCHANGED allVars
    <3>1. UNCHANGED <<fine, sync, mainOf, giveOut, funded, sub, filed, wallet, txs, pass, booked, events>>
      BY <2>3 DEF allVars, moneyVars
    <3>2. MoneyType' /\ wallet' >= wallet
      BY <2>1, <3>1 DEF MoneyInv, MoneyType, PayOf
    <3> QED
      BY <2>1, <3>1, <3>2, QuietStep
  <2> QED
    BY <2>1, <2>2, <2>3 DEF PayoutNext, SetupNext
<1> QED
  BY <1>1, <1>2, PTL DEF PartsSpec

(* A payment that gives every submission once has as many rows as it has   *)
(* submissions.                                                            *)
LEMMA RowsAndIds ==
    ASSUME NEW p \in Payment, OneRowEach(p) PROVE Cardinality(p.give) = Cardinality(GivenTo(p))
<1>1. /\ IsFiniteSet(p.give) /\ IsFiniteSet(GivenTo(p))
      /\ Cardinality(p.give) \in Nat /\ Cardinality(GivenTo(p)) \in Nat
  BY SizeOfPayment
<1> DEFINE there == [r \in p.give |-> r[1]]
           back == [s \in GivenTo(p) |-> CHOOSE r \in p.give : r[1] = s]
<1>2. there \in [p.give -> GivenTo(p)] /\ \A r, q \in p.give : there[r] = there[q] => r = q
  BY DEF GivenTo, OneRowEach
<1>3. \A s \in GivenTo(p) : back[s] \in p.give /\ back[s][1] = s
  BY DEF GivenTo
<1>4. back \in [GivenTo(p) -> p.give] /\ \A s, q \in GivenTo(p) : back[s] = back[q] => s = q
  <2>1. back \in [GivenTo(p) -> p.give]
    BY <1>3
  <2> QED
    BY <1>3, <2>1
<1> HIDE DEF there, back
<1>5. Cardinality(p.give) <= Cardinality(GivenTo(p))
  BY <1>1, <1>2, MappedSize
<1>6. Cardinality(GivenTo(p)) <= Cardinality(p.give)
  BY <1>1, <1>4, MappedSize
<1> QED
  BY <1>1, <1>5, <1>6

(* What is booked of a payment by its own price.                           *)
LEMMA BookedAmounts ==
    ASSUME NEW price \in Nat, NEW p \in Payment, OneRowEach(p), NEW entry,
           BookedAt(entry, price, Cardinality(GivenTo(p)))
    PROVE  LET n == Cardinality(GivenTo(p))
               m == Cardinality(p.bonus)
           IN /\ entry.giveOut * Pow = Money!AmountOf(price, p) - Money!BonusOf(price, p)
              /\ entry.bonus * Pow
                    = Money!BonusOf(price, p) + Money!TokenBonus(price) * (n - m)
<1> DEFINE n == Cardinality(GivenTo(p))  m == Cardinality(p.bonus)
           q == (price * Bonus) \div 100
           give == entry.giveOut  bonus == entry.bonus
<1>1. n \in Nat /\ m \in Nat /\ q \in Nat /\ Pow \in Nat \ {0} /\ Cardinality(p.give) = n
  BY SizeOfPayment, RatesAreNat, MoneyConstants, RowsAndIds
<1>2. /\ Money!TokenGiveOut(price) = price * Pow /\ Money!TokenBonus(price) = q * Pow
      /\ Money!BonusOf(price, p) = Money!TokenBonus(price) * m
      /\ Money!AmountOf(price, p)
           = Money!TokenGiveOut(price) * Cardinality(p.give) + Money!BonusOf(price, p)
      /\ Money!BonusOf(price, p) \in Nat
  BY AmountTaken DEF Money!TokenGiveOut, Money!TokenBonus
<1>3. give = (Money!TokenGiveOut(price) * n) \div Pow /\ bonus = (Money!TokenBonus(price) * n) \div Pow
  BY DEF BookedAt, Money!TotalGiveOutDecimals, Money!TotalTokenBonusDecimals
<1> DEFINE amount == Money!AmountOf(price, p)  paid == Money!BonusOf(price, p)
           rate == Money!TokenBonus(price)
<1>4. /\ rate = q * Pow /\ paid = (q * Pow) * m /\ amount = (price * Pow) * n + paid
      /\ give = ((price * Pow) * n) \div Pow /\ bonus = ((q * Pow) * n) \div Pow
  BY <1>1, <1>2, <1>3
<1> SUFFICES give * Pow = amount - paid /\ bonus * Pow = paid + rate * (n - m)
  OBVIOUS
<1> HIDE DEF n, m, q, give, bonus, amount, paid, rate
<1>5. /\ (price * Pow) * n = (price * n) * Pow /\ (q * Pow) * n = (q * n) * Pow
      /\ price * n \in Nat /\ q * n \in Nat
  BY <1>1, ThreeFactors
<1>6. give = price * n /\ bonus = q * n
  BY <1>1, <1>4, <1>5, DivExact
<1>7. give * Pow = amount - paid
  <2>1. paid \in Nat /\ (price * n) * Pow \in Nat
    <3>1. q * Pow \in Nat /\ price * n \in Nat
      BY <1>1, <1>5
    <3>2. (q * Pow) * m \in Nat
      BY <1>1, <3>1
    <3> QED
      BY <1>1, <1>4, <3>1, <3>2
  <2> QED
    BY <1>4, <1>5, <1>6, <2>1
<1>8. bonus * Pow = paid + rate * (n - m)
  <2>1. rate \in Nat
    BY <1>1, <1>4
  <2>2. rate * n = rate * m + rate * (n - m)
    BY <1>1, <2>1
  <2>3. bonus * Pow = rate * n /\ paid = rate * m
    BY <1>4, <1>5, <1>6
  <2> QED
    BY <2>2, <2>3
<1> QED
  BY <1>7, <1>8

(* The statistics of an airdrop say what was paid, but for a price changed *)
(* in between and one bonus for each submission recorded without the bonus *)
(* and each bonus paid without its submission, for any prices, decimals,   *)
(* main wallets and submissions, by chunks of any size or by sync_drop.    *)
THEOREM BookedExplained == PartsSpec => []BookedHasCause
<1>1. MoneyKept => BookedHasCause
  <2> SUFFICES ASSUME MoneyInv PROVE Money!TypeOK /\ Money!BookedHasCause
    BY DEF MoneyKept, BookedHasCause
  <2>1. Money!TypeOK
    <3>1. pass.step \in {"idle", "count", "select", "send"} /\ pass.todo \subseteq Money!Payment
      BY SamePayments DEF MoneyInv, MoneyType, Passes
    <3>2. \A t \in DOMAIN txs :
             txs[t].amount \in Nat /\ (txs[t].kind = "pay" => txs[t] \in Money!PayTx)
      BY TxTypes, MoneyPayments DEF MoneyInv, MoneyType, PayOf
    <3>3. DOMAIN booked \subseteq DOMAIN txs
      BY DEF MoneyInv, MoneyType, PayOf
    <3> QED
      BY <3>1, <3>2, <3>3 DEF MoneyInv, MoneyType, Money!TypeOK
  <2>2. ASSUME NEW t \in DOMAIN booked, ~txs[t].repriced
        PROVE  LET p == txs[t].paid
                   paidBonus == Money!BonusOf(txs[t].price, p)
                   apart == Money!Cardinality(Money!GivenTo(p)) - Money!Cardinality(p.bonus)
               IN /\ booked[t].giveOut * Pow = txs[t].amount - paidBonus
                  /\ booked[t].bonus * Pow
                       = paidBonus + Money!TokenBonus(txs[t].price) * apart
    <3> DEFINE price == txs[t].price  p == txs[t].paid
    <3>1. t \in PayOf(txs)
      BY DEF MoneyInv, MoneyType
    <3>2. BookedAt(booked[t], price, Cardinality(GivenTo(p)))
      BY <2>2 DEF MoneyInv, BookOk
    <3>3. price \in Nat /\ p \in Payment
      BY <3>1, TxTypes DEF MoneyInv, MoneyType
    <3>4. OneRowEach(p) /\ txs[t].amount = Money!AmountOf(price, p)
      BY <3>1 DEF MoneyInv, PriceOk, GiveOk
    <3>5. /\ Money!Cardinality(Money!GivenTo(p)) = Cardinality(GivenTo(p))
          /\ Money!Cardinality(p.bonus) = Cardinality(p.bonus)
      BY SameMoneyCount, SamePayments
    <3> HIDE DEF price, p
    <3>6. /\ booked[t].giveOut * Pow = Money!AmountOf(price, p) - Money!BonusOf(price, p)
          /\ booked[t].bonus * Pow
               = Money!BonusOf(price, p)
                   + Money!TokenBonus(price) * (Cardinality(GivenTo(p)) - Cardinality(p.bonus))
      BY <3>2, <3>3, <3>4, BookedAmounts
    <3> QED
      BY <3>4, <3>5, <3>6 DEF price, p
  <2> QED
    BY <2>1, <2>2 DEF Money!BookedHasCause
<1> QED
  BY <1>1, MoneyInvariance, PTL

(* A pass that had the tokens the commented-out budget check asks for, that *)
(* selected no more rows than it had counted, and whose wallet nothing else *)
(* was taken from, has no payment that fails, for any prices, decimals,     *)
(* main wallets and submissions, by chunks of any size or by sync_drop.     *)
THEOREM RevertsExplained == PartsSpec => []RevertHasCause
<1>1. MoneyKept => RevertHasCause
  BY DEF MoneyKept, RevertHasCause, MoneyInv, CoverOk, PayOf, Money!RevertHasCause
<1> QED
  BY <1>1, MoneyInvariance, PTL

-----------------------------------------------------------------------------
(***************************************************************************)
(* What an airdrop's row says of its contract and allowance.  A loop has   *)
(* read the rows of the airdrops it has still to treat, and nobody else    *)
(* writes the columns it decides by.  A contract that is neither recorded  *)
(* nor about to be cost a fault.  Until the wallet of an airdrop with a    *)
(* contract is filled up, its tokens only become fewer: an approval is for *)
(* enough of them, and a contract that may spend them all still may after  *)
(* it has spent some.                                                      *)
(***************************************************************************)

Steps == {"query", "balance", "write", "next", "allowance", "tokens", "act", "record"}
Loop == [step : Steps, from : Airdrop \union {0}, at : Airdrop \union {0},
         page : UNION {[S -> Setup!Rec] : S \in SUBSET Airdrop}, tx : Setup!Txs \union {Setup!NoTx},
         allowance : 0..MaxTokens, tokens : 0..MaxTokens]
SetupType ==
    /\ row \in [Airdrop -> Setup!Rows]
    /\ tokens \in [Airdrop -> 0..MaxTokens]
    /\ gas \in [Airdrop -> Setup!Gas]
    /\ tx \in [Setup!Txs -> Setup!Tx]
    /\ allowed \in [Setup!Txs -> 0..MaxTokens]
    /\ loop \in [Setup!Loops -> Loop]
    /\ DOMAIN view \subseteq Airdrop /\ \A a \in DOMAIN view : view[a] \in Setup!Balances
    /\ count \in [{"fault", "revert", "evict", "event"} -> Nat]
    /\ toppedUp \subseteq Airdrop

(* The airdrops of its page that a loop has still to treat, the one at     *)
(* work included.                                                          *)
AtWork(l) == loop[l].step \in {"allowance", "tokens", "act", "record"}
Ahead(l) == Setup!Rest(l) \union (IF AtWork(l) THEN {loop[l].at} ELSE {})

SeenInv(l) ==
    /\ AtWork(l) => loop[l].at \in DOMAIN loop[l].page
    /\ l = "deployer" => loop[l].step \notin {"allowance", "tokens"}
    /\ \A a \in Ahead(l) :
          LET old == loop[l].page[a].row IN
          /\ l = "deployer" => old.dealer = row[a].dealer /\ old.dealerTx = row[a].dealerTx
          /\ l = "checker" => /\ row[a].dealer = "ok" /\ old.dealerTx = row[a].dealerTx
                              /\ old.approve = row[a].approve /\ old.approveTx = row[a].approveTx

Deploys(a) == loop["deployer"].step = "record" /\ loop["deployer"].at = a

DeployInv ==
    /\ \A t \in Setup!Txs : tx[t].state = "none" => tx[t].kind = "none"
    /\ \A a \in Airdrop :
          LET d == row[a].dealerTx IN
          /\ Setup!Cardinality(Setup!Deployments(a))
                <= count["fault"] + (IF row[a].dealer # "none" \/ Deploys(a) THEN 1 ELSE 0)
          /\ row[a].dealer # "none" => d \in Setup!Deployments(a)
          /\ row[a].dealer = "ok" => tx[d].state = "good"
          /\ row[a].dealer = "failed" => tx[d].state = "failed"
          /\ Deploys(a) => row[a].dealer = "none" /\ loop["deployer"].tx \in Setup!Deployments(a)

(* Of an approval: it was for the contract its airdrop still has.          *)
Approvals(a) == {t \in Setup!Txs : tx[t].kind = "approve" /\ tx[t].of = a}
ApproveInv ==
    /\ \A t \in Setup!Txs : tx[t].kind = "approve" =>
          /\ tx[t].of \in Airdrop /\ row[tx[t].of].dealer = "ok"
          /\ tx[t].spender = row[tx[t].of].dealerTx
    /\ \A t \in Setup!Txs : allowed[t] # 0 => \E u \in Setup!Txs : tx[u].kind = "approve" /\ tx[u].spender = t
    /\ \A a \in Airdrop :
          LET p == row[a].approveTx IN
          /\ p # Setup!NoTx => p \in Approvals(a)
          /\ row[a].approve \in {"sent", "failed"} => p # Setup!NoTx
          /\ row[a].approve # "none" => row[a].dealer = "ok"
          /\ row[a].approve = "failed" => tx[p].state = "failed"
    /\ loop["checker"].step = "record" => loop["checker"].tx \in Approvals(loop["checker"].at)

(* The contract may spend all there is. *)
Covered(a) == allowed[row[a].dealerTx] >= tokens[a]
Checks(a, steps) == loop["checker"].at = a /\ loop["checker"].step \in steps
AllowInv ==
    \A a \in Airdrop \ toppedUp : row[a].dealer = "ok" =>
        /\ allowed[row[a].dealerTx] = 0 \/ Covered(a)
        /\ row[a].approve = "ok" => Covered(a)
        /\ \A t \in Approvals(a) : tx[t].amount >= tokens[a] /\ (tx[t].state = "good" => Covered(a))
        /\ Checks(a, {"tokens", "act"}) /\ loop["checker"].allowance > 0 => Covered(a)
        /\ Checks(a, {"act", "record"}) => loop["checker"].tokens >= tokens[a]

SetupInv ==
    /\ SetupType /\ (\A l \in Setup!Loops : SeenInv(l))
    /\ DeployInv /\ ApproveInv /\ AllowInv

LEMMA SameSetupCount == \A S : /\ Setup!IsFiniteSet(S) <=> IsFiniteSet(S)
                               /\ Setup!Cardinality(S) = Cardinality(S)
<1>1. \A S : Setup!IsFiniteSet(S) <=> IsFiniteSet(S)
  BY DEF Setup!IsFiniteSet, IsFiniteSet
<1>2. \A S : Setup!Cardinality(S) = Cardinality(S)
  BY DEF Setup!Cardinality, Cardinality
<1> QED
  BY <1>1, <1>2

LEMMA SetupConstants ==
    /\ IsFiniteSet(Airdrop) /\ Airdrop \subseteq Nat /\ 0 \notin Airdrop
    /\ MaxTokens \in Nat /\ SetupTx \in Nat /\ PageSize \in Nat
    /\ Setup!NoTx = 0 /\ Setup!Txs \subseteq Nat /\ 0 \notin Setup!Txs /\ IsFiniteSet(Setup!Txs)
    /\ Setup!Loops = {"deployer", "checker"}
<1>1. IsFiniteSet(Airdrop) /\ Airdrop \subseteq Nat \ {0} /\ MaxTokens \in Nat /\ SetupTx \in Nat
      /\ PageSize \in Nat
  BY SetupAssumption, SameSetupCount DEF Setup!AirdropAssumption, Setup!BoundAssumption
<1>2. Setup!Txs = 1..SetupTx
  BY DEF Setup!Txs
<1>3. IsFiniteSet(1..SetupTx)
  BY <1>1, FS_Interval
<1>4. 1..SetupTx \subseteq Nat /\ 0 \notin 1..SetupTx
  BY <1>1
<1> QED
  BY <1>1, <1>2, <1>3, <1>4 DEF Setup!NoTx, Setup!Loops

LEMMA LoopFields ==
    ASSUME NEW k \in Loop
    PROVE  /\ k.step \in Steps /\ k.from \in Airdrop \union {0} /\ k.at \in Airdrop \union {0}
           /\ DOMAIN k.page \subseteq Airdrop /\ k.page \in [DOMAIN k.page -> Setup!Rec]
           /\ k.tx \in Setup!Txs \union {0}
           /\ k.allowance \in 0..MaxTokens /\ k.tokens \in 0..MaxTokens
           /\ k.allowance \in Nat /\ k.tokens \in Nat
<1>1. PICK S \in SUBSET Airdrop : k.page \in [S -> Setup!Rec]
  BY DEF Loop
<1>2. DOMAIN k.page = S
  BY <1>1
<1>3. 0..MaxTokens \subseteq Nat
  BY SetupConstants
<1> QED
  BY <1>1, <1>2, <1>3, SetupConstants DEF Loop

LEMMA LoopMade ==
    ASSUME NEW step \in Steps, NEW from \in Airdrop \union {0}, NEW at \in Airdrop \union {0},
           NEW S, S \subseteq Airdrop, NEW page \in [S -> Setup!Rec], NEW t \in Setup!Txs \union {0},
           NEW allowance \in 0..MaxTokens, NEW held \in 0..MaxTokens
    PROVE  [step |-> step, from |-> from, page |-> page, at |-> at, tx |-> t,
            allowance |-> allowance, tokens |-> held] \in Loop
<1>1. page \in UNION {[T -> Setup!Rec] : T \in SUBSET Airdrop}
  OBVIOUS
<1> QED
  BY <1>1, SetupConstants DEF Loop

LEMMA BeginIsLoop ==
    /\ Setup!Begin \in Loop /\ Setup!Begin.step = "query" /\ Setup!Begin.at = 0
    /\ Setup!Begin.page = [a \in {} |-> "ok"] /\ DOMAIN Setup!Begin.page = {}
    /\ Setup!Begin = [step |-> "query", from |-> 0, page |-> [a \in {} |-> "ok"], at |-> 0, tx |-> 0,
                      allowance |-> 0, tokens |-> 0]
<1>1. Setup!Begin = [step |-> "query", from |-> 0, page |-> [a \in {} |-> "ok"], at |-> 0, tx |-> 0,
                     allowance |-> 0, tokens |-> 0]
  BY SetupConstants DEF Setup!Begin
<1>2. [a \in {} |-> "ok"] \in [{} -> Setup!Rec]
  OBVIOUS
<1>3. 0 \in 0..MaxTokens /\ "query" \in Steps
  BY SetupConstants DEF Steps
<1>4. Setup!Begin \in Loop
  BY <1>1, <1>2, <1>3, LoopMade
<1> QED
  BY <1>1, <1>4

(* A loop with some of its fields changed.                                 *)
LEMMA LoopEdited ==
    ASSUME NEW k \in Loop, NEW step \in Steps, NEW t \in Setup!Txs \union {0},
           NEW allowance \in 0..MaxTokens, NEW held \in 0..MaxTokens, NEW at \in Airdrop \union {0},
           NEW page \in [DOMAIN k.page -> Setup!Rec]
    PROVE  /\ [k EXCEPT !.step = step] \in Loop
           /\ [k EXCEPT !.step = step, !.tx = t] \in Loop
           /\ [k EXCEPT !.step = step, !.page = page] \in Loop
           /\ [k EXCEPT !.at = at, !.step = step] \in Loop
           /\ [k EXCEPT !.step = step, !.allowance = allowance] \in Loop
           /\ [k EXCEPT !.step = step, !.tokens = held] \in Loop
           /\ [k EXCEPT !.step = step, !.tx = t, !.allowance = allowance, !.tokens = held] \in Loop
<1>1. \A S \in SUBSET Airdrop : [S -> Setup!Rec] \subseteq UNION {[T -> Setup!Rec] : T \in SUBSET Airdrop}
  OBVIOUS
<1>2. page \in UNION {[T -> Setup!Rec] : T \in SUBSET Airdrop}
  BY <1>1, LoopFields
<1>3. Setup!NoTx = 0
  BY SetupConstants
<1> QED
  BY <1>2, <1>3 DEF Loop

LEMMA FromEdited ==
    ASSUME NEW k \in Loop, NEW from \in Airdrop \union {0}
    PROVE  LET new == [k EXCEPT !.from = from]
           IN new \in Loop /\ new.step = k.step /\ new.page = k.page
  BY DEF Loop

(* A loop takes a step; the other does not.                                *)
LEMMA OneLoop ==
    ASSUME SetupType, NEW l \in Setup!Loops, NEW k \in Loop, loop' = [loop EXCEPT ![l] = k]
    PROVE  /\ loop' \in [Setup!Loops -> Loop] /\ loop'[l] = k /\ loop[l] \in Loop
           /\ \A m \in Setup!Loops : m # l => loop'[m] = loop[m]
  BY DEF SetupType

LEMMA DoneLoop ==
    ASSUME SetupType, NEW l \in Setup!Loops, Setup!Done(l)
    PROVE  /\ loop' \in [Setup!Loops -> Loop]
           /\ loop'[l].step = "next" /\ loop'[l].at = loop[l].at /\ loop'[l].page = loop[l].page
           /\ \A m \in Setup!Loops : m # l => loop'[m] = loop[m]
<1> DEFINE k == [loop[l] EXCEPT !.step = "next", !.tx = 0, !.allowance = 0, !.tokens = 0]
<1>1. loop \in [Setup!Loops -> Loop] /\ loop[l] \in Loop
  BY DEF SetupType
<1>2. loop' = [loop EXCEPT ![l] = k]
  BY <1>1, SetupConstants DEF Setup!Done
<1>3. k \in Loop /\ k.step = "next" /\ k.at = loop[l].at /\ k.page = loop[l].page
  <2>1. "next" \in Steps /\ 0 \in 0..MaxTokens
    BY SetupConstants DEF Steps
  <2>2. k \in Loop
    <3>1. loop[l].page \in [DOMAIN loop[l].page -> Setup!Rec]
      BY <1>1, LoopFields
    <3> QED
      BY <1>1, <2>1, <3>1, LoopEdited
  <2> QED
    BY <1>1, <2>2 DEF Loop
<1> HIDE DEF k
<1> QED
  BY <1>2, <1>3, OneLoop

LEMMA CountingTypes ==
    ASSUME SetupType, NEW what \in {"fault", "revert", "evict", "event"}, Setup!Counting(what)
    PROVE  /\ count' \in [{"fault", "revert", "evict", "event"} -> Nat]
           /\ count'["fault"] >= count["fault"]
           /\ what = "fault" => count'["fault"] = count["fault"] + 1
<1>1. /\ count \in [{"fault", "revert", "evict", "event"} -> Nat]
      /\ count' = [count EXCEPT ![what] = @ + 1]
  BY DEF SetupType, Setup!Counting
<1>2. CASE what = "fault"
  BY <1>1, <1>2
<1>3. CASE what # "fault"
  BY <1>1, <1>3
<1> QED
  BY <1>2, <1>3

LEMMA DeploymentsFinite ==
    ASSUME NEW a PROVE /\ IsFiniteSet(Setup!Deployments(a)) /\ Setup!Deployments(a) \subseteq Setup!Txs
                       /\ Cardinality(Setup!Deployments(a)) \in Nat
<1>1. Setup!Deployments(a) \subseteq Setup!Txs
  BY DEF Setup!Deployments
<1>2. IsFiniteSet(Setup!Deployments(a))
  BY <1>1, SetupConstants, FS_Subset
<1> QED
  BY <1>1, <1>2, FS_CardinalityType

(* The columns by which the loops decide.                                  *)
ColumnsStay ==
    \A a \in Airdrop : /\ row'[a].dealer = row[a].dealer /\ row'[a].dealerTx = row[a].dealerTx
                       /\ row'[a].approve = row[a].approve /\ row'[a].approveTx = row[a].approveTx

(* What a loop that goes on has of its page.                               *)
LEMMA SeenStays ==
    ASSUME NEW l \in Setup!Loops, SetupType, SetupType', SeenInv(l), ColumnsStay,
           loop'[l].page = loop[l].page, loop'[l].at = loop[l].at,
           AtWork(l)' => AtWork(l),
           l = "deployer" => loop'[l].step \notin {"allowance", "tokens"}
    PROVE  SeenInv(l)'
<1>1. Ahead(l)' \subseteq Ahead(l)
  BY DEF Ahead, Setup!Rest, AtWork
<1>2. Ahead(l) \subseteq Airdrop
  <2>1. loop[l] \in Loop
    BY DEF SetupType
  <2>2. DOMAIN loop[l].page \subseteq Airdrop
    BY <2>1, LoopFields
  <2> QED
    BY <2>2 DEF Ahead, Setup!Rest, SeenInv
<1>3. AtWork(l)' => loop'[l].at \in DOMAIN loop'[l].page
  BY DEF SeenInv
<1>4. ASSUME NEW a \in Ahead(l)'
      PROVE  LET old == loop'[l].page[a].row IN
             /\ l = "deployer" => old.dealer = row'[a].dealer /\ old.dealerTx = row'[a].dealerTx
             /\ l = "checker" => /\ row'[a].dealer = "ok" /\ old.dealerTx = row'[a].dealerTx
                                 /\ old.approve = row'[a].approve /\ old.approveTx = row'[a].approveTx
  BY <1>1, <1>2 DEF SeenInv, ColumnsStay
<1> QED
  BY <1>3, <1>4 DEF SeenInv

(* Steps of the loops that send and record nothing.                        *)
LEMMA LoopStep ==
    ASSUME SetupInv, SetupType', ColumnsStay, UNCHANGED <<tx, tokens, allowed, toppedUp>>,
           count'["fault"] >= count["fault"],
           \A l \in Setup!Loops : SeenInv(l)',
           \A a \in Airdrop : Deploys(a)' =>
              Deploys(a) /\ loop'["deployer"].tx = loop["deployer"].tx,
           \A a \in Airdrop : Deploys(a) /\ ~Deploys(a)' => count'["fault"] > count["fault"],
           loop'["checker"].step = "record" => loop'["checker"].tx \in Approvals(loop'["checker"].at),
           \A a \in Airdrop \ toppedUp : row[a].dealer = "ok" =>
              /\ Checks(a, {"tokens", "act"})' /\ loop'["checker"].allowance > 0 => Covered(a)
              /\ Checks(a, {"act", "record"})' => loop'["checker"].tokens >= tokens[a]
    PROVE  SetupInv'
<1>1. DeployInv'
  <2>1. \A a \in Airdrop : Setup!Deployments(a)' = Setup!Deployments(a)
    BY DEF Setup!Deployments
  <2>2. ASSUME NEW a \in Airdrop
        PROVE  Setup!Cardinality(Setup!Deployments(a))
                  <= count'["fault"] + (IF row'[a].dealer # "none" \/ Deploys(a)' THEN 1 ELSE 0)
    <3>1. Setup!Cardinality(Setup!Deployments(a)) \in Nat
      BY DeploymentsFinite, SameSetupCount
    <3>2. Setup!Cardinality(Setup!Deployments(a))
             <= count["fault"] + (IF row[a].dealer # "none" \/ Deploys(a) THEN 1 ELSE 0)
      BY DEF SetupInv, DeployInv
    <3>3. count["fault"] \in Nat /\ count'["fault"] \in Nat
      BY DEF SetupInv, SetupType
    <3>4. row'[a].dealer = row[a].dealer
      BY DEF ColumnsStay
    <3>5. CASE Deploys(a) /\ ~Deploys(a)'
      <4>1. count'["fault"] >= count["fault"] + 1
        BY <3>3, <3>5
      <4> QED
        BY <3>1, <3>2, <3>3, <4>1
    <3>6. CASE ~Deploys(a) \/ Deploys(a)'
      BY <3>1, <3>2, <3>3, <3>4, <3>6
    <3> QED
      BY <3>5, <3>6
  <2>3. ASSUME NEW a \in Airdrop
        PROVE  /\ row'[a].dealer # "none" => row'[a].dealerTx \in Setup!Deployments(a)
               /\ row'[a].dealer = "ok" => tx[row'[a].dealerTx].state = "good"
               /\ row'[a].dealer = "failed" => tx[row'[a].dealerTx].state = "failed"
               /\ Deploys(a)' => row'[a].dealer = "none" /\ loop'["deployer"].tx \in Setup!Deployments(a)
    BY DEF SetupInv, DeployInv, ColumnsStay
  <2>4. \A t \in Setup!Txs : tx[t].state = "none" => tx[t].kind = "none"
    BY DEF SetupInv, DeployInv
  <2>5. \A a \in Airdrop : Setup!Cardinality(Setup!Deployments(a))' = Setup!Cardinality(Setup!Deployments(a))
    BY <2>1 DEF Setup!Cardinality
  <2> QED
    BY <2>1, <2>2, <2>3, <2>4, <2>5 DEF DeployInv
<1>2. ApproveInv'
  <2>1. \A a : Approvals(a)' = Approvals(a)
    BY DEF Approvals
  <2>2. \A t \in Setup!Txs : tx[t].kind = "approve" =>
          /\ tx[t].of \in Airdrop /\ row'[tx[t].of].dealer = "ok"
          /\ tx[t].spender = row'[tx[t].of].dealerTx
    BY DEF SetupInv, ApproveInv, ColumnsStay
  <2>3. \A t \in Setup!Txs : allowed[t] # 0 =>
           \E u \in Setup!Txs : tx[u].kind = "approve" /\ tx[u].spender = t
    BY DEF SetupInv, ApproveInv
  <2>4. ASSUME NEW a \in Airdrop
        PROVE  /\ row'[a].approveTx # Setup!NoTx => row'[a].approveTx \in Approvals(a)
               /\ row'[a].approve \in {"sent", "failed"} => row'[a].approveTx # Setup!NoTx
               /\ row'[a].approve # "none" => row'[a].dealer = "ok"
               /\ row'[a].approve = "failed" => tx[row'[a].approveTx].state = "failed"
    BY DEF SetupInv, ApproveInv, ColumnsStay
  <2>5. loop'["checker"].step = "record" =>
           loop'["checker"].tx \in {t \in Setup!Txs : tx'[t].kind = "approve" /\ tx'[t].of = loop'["checker"].at}
    BY DEF Approvals
  <2>6. \A a \in Airdrop : Approvals(a) = {t \in Setup!Txs : tx'[t].kind = "approve" /\ tx'[t].of = a}
    BY DEF Approvals
  <2> QED
    BY <2>2, <2>3, <2>4, <2>5, <2>6 DEF ApproveInv, Approvals
<1>3. AllowInv'
  <2>1. \A a \in Airdrop : /\ Covered(a)' <=> Covered(a)
                           /\ allowed[row'[a].dealerTx] = allowed[row[a].dealerTx]
    BY DEF Covered, ColumnsStay
  <2>2. \A a \in Airdrop : Approvals(a)' = Approvals(a)
    BY DEF Approvals
  <2>3. \A a \in Airdrop : row'[a].dealer = row[a].dealer /\ row'[a].approve = row[a].approve
    BY DEF ColumnsStay
  <2>4. ASSUME NEW a \in Airdrop \ toppedUp, row[a].dealer = "ok"
        PROVE  /\ allowed[row[a].dealerTx] = 0 \/ Covered(a)
               /\ row[a].approve = "ok" => Covered(a)
               /\ \A t \in Approvals(a) : tx[t].amount >= tokens[a] /\ (tx[t].state = "good" => Covered(a))
    BY <2>4 DEF SetupInv, AllowInv
  <2> QED
    BY <2>1, <2>2, <2>3, <2>4 DEF AllowInv
<1> QED
  BY <1>1, <1>2, <1>3 DEF SetupInv

(* A loop that does not change, or drops what it holds.                    *)
Quiet(l) ==
    \/ loop'[l] = loop[l]
    \/ /\ loop'[l].step # "record"
       /\ l = "checker" => loop'[l].step \notin {"tokens", "act"}
       /\ l = "deployer" /\ loop[l].step = "record" => count'["fault"] > count["fault"]
       /\ SeenInv(l)'

LEMMA QuietLoops ==
    ASSUME SetupInv, SetupType', ColumnsStay, UNCHANGED <<tx, tokens, allowed, toppedUp>>,
           count'["fault"] >= count["fault"], \A l \in Setup!Loops : Quiet(l)
    PROVE  SetupInv'
<1>1. "deployer" \in Setup!Loops /\ "checker" \in Setup!Loops
  BY SetupConstants
<1>2. ASSUME NEW l \in Setup!Loops PROVE SeenInv(l)'
  <2>1. CASE loop'[l] = loop[l]
    <3>1. SeenInv(l)
      BY DEF SetupInv
    <3>2. AtWork(l)' => AtWork(l)
      BY <2>1 DEF AtWork
    <3> QED
      BY <2>1, <3>1, <3>2, SeenStays DEF SetupInv, SeenInv
  <2>2. CASE loop'[l] # loop[l]
    BY <2>2 DEF Quiet
  <2> QED
    BY <2>1, <2>2
<1>3. ASSUME NEW a \in Airdrop
      PROVE  /\ Deploys(a)' => Deploys(a) /\ loop'["deployer"].tx = loop["deployer"].tx
             /\ Deploys(a) /\ ~Deploys(a)' => count'["fault"] > count["fault"]
  <2>1. Quiet("deployer")
    BY <1>1
  <2> QED
    BY <2>1 DEF Quiet, Deploys
<1>4. Quiet("checker")
  BY <1>1
<1>5. loop'["checker"].step = "record" => loop'["checker"].tx \in Approvals(loop'["checker"].at)
  BY <1>4 DEF Quiet, SetupInv, ApproveInv
<1>6. ASSUME NEW a \in Airdrop \ toppedUp, row[a].dealer = "ok"
      PROVE  /\ Checks(a, {"tokens", "act"})' /\ loop'["checker"].allowance > 0 => Covered(a)
             /\ Checks(a, {"act", "record"})' => loop'["checker"].tokens >= tokens[a]
  BY <1>4, <1>6 DEF Quiet, SetupInv, AllowInv, Checks
<1> QED
  BY <1>2, <1>3, <1>5, <1>6, LoopStep

LEMMA SetupStart == Setup!Init => SetupInv
<1> SUFFICES ASSUME Setup!Init PROVE SetupInv
  OBVIOUS
<1>1. /\ row = [a \in Airdrop |-> Setup!NewRow]
      /\ tokens \in [Airdrop -> 0..MaxTokens] /\ gas \in [Airdrop -> Setup!Gas]
      /\ tx = [t \in Setup!Txs |-> Setup!NoTransaction] /\ allowed = [t \in Setup!Txs |-> 0]
      /\ loop = [l \in Setup!Loops |-> Setup!Begin] /\ view = [a \in {} |-> "ok"]
      /\ count = [c \in {"fault", "revert", "evict", "event"} |-> 0] /\ toppedUp = {}
  BY DEF Setup!Init, Setup!NoView
<1>2. Setup!NewRow \in Setup!Rows /\ Setup!NewRow.dealer = "none" /\ Setup!NewRow.approve = "none"
      /\ Setup!NewRow.approveTx = 0
  BY SetupConstants DEF Setup!NewRow, Setup!Rows, Setup!Balances
<1>3. Setup!NoTransaction \in Setup!Tx /\ Setup!NoTransaction.kind = "none"
  BY SetupConstants DEF Setup!NoTransaction, Setup!Tx
<1>4. SetupType
  <2>1. loop \in [Setup!Loops -> Loop]
    BY <1>1, BeginIsLoop
  <2>2. 0 \in 0..MaxTokens
    BY SetupConstants
  <2>3. DOMAIN view = {}
    BY <1>1
  <2> QED
    BY <1>1, <1>2, <1>3, <2>1, <2>2, <2>3 DEF SetupType
<1>5. \A l \in Setup!Loops : loop[l].step = "query" /\ loop[l].at = 0 /\ DOMAIN loop[l].page = {}
  BY <1>1, BeginIsLoop
<1>6. \A l \in Setup!Loops : SeenInv(l)
  <2>1. \A l \in Setup!Loops : ~AtWork(l) /\ Ahead(l) = {}
    BY <1>5 DEF AtWork, Ahead, Setup!Rest
  <2> QED
    BY <1>5, <2>1 DEF SeenInv
<1>7. DeployInv
  <2>1. \A a \in Airdrop : Setup!Deployments(a) = {}
    BY <1>1, <1>3 DEF Setup!Deployments
  <2>2. \A a \in Airdrop : Setup!Cardinality(Setup!Deployments(a)) = 0
    BY <2>1, FS_EmptySet, SameSetupCount
  <2>3. \A a \in Airdrop : row[a].dealer = "none"
    BY <1>1, <1>2
  <2>4. \A t \in Setup!Txs : tx[t].kind = "none"
    BY <1>1, <1>3
  <2>5. \A a \in Airdrop : ~Deploys(a)
    BY <1>5, SetupConstants DEF Deploys
  <2>6. count["fault"] = 0
    BY <1>1
  <2> QED
    BY <2>2, <2>3, <2>4, <2>5, <2>6 DEF DeployInv
<1>8. ApproveInv
  <2>1. \A t \in Setup!Txs : tx[t].kind = "none" /\ allowed[t] = 0
    BY <1>1, <1>3
  <2>2. \A a \in Airdrop : row[a].approve = "none" /\ row[a].approveTx = 0
    BY <1>1, <1>2
  <2> QED
    BY <1>5, <2>1, <2>2, SetupConstants DEF ApproveInv
<1>9. AllowInv
  <2>1. \A a \in Airdrop : row[a].dealer = "none"
    BY <1>1, <1>2
  <2> QED
    BY <2>1 DEF AllowInv
<1> QED
  BY <1>4, <1>6, <1>7, <1>8, <1>9 DEF SetupInv

(* Numbers of airdrops have a lowest and a highest.                        *)
LEMMA EndsOfPage ==
    ASSUME NEW S, S \subseteq Airdrop, S # {} PROVE Setup!Min(S) \in S /\ Setup!Max(S) \in S
<1>1. S \subseteq Nat /\ S \subseteq Int /\ IsFiniteSet(S)
  <2>1. S \subseteq Nat
    BY SetupConstants
  <2>2. IsFiniteSet(S)
    BY SetupConstants, FS_Subset
  <2> QED
    BY <2>1, <2>2
<1>2. \E s \in S : \A r \in S : s >= r
  <2>1. PICK s \in S : \A r \in S : r <= s
    BY <1>1, HighestExists
  <2> QED
    BY <1>1, <2>1
<1>3. \E s \in S : \A r \in S : s <= r
  <2>1. PICK s \in S : \A r \in S : <<r, s>> \notin OpToRel(<, Nat)
    BY <1>1, NatLessThanWellFounded, WFMin
  <2>2. \A r \in S : ~(r < s)
    BY <1>1, <2>1 DEF OpToRel
  <2> QED
    BY <1>1, <2>2
<1> QED
  BY <1>2, <1>3 DEF Setup!Min, Setup!Max

(* Whatever happens but in the loops.                                      *)
LEMMA LoopsStay ==
    ASSUME SetupInv, SetupType', ColumnsStay, UNCHANGED <<loop, tx, tokens, allowed, toppedUp>>,
           count'["fault"] >= count["fault"]
    PROVE  SetupInv'
  BY QuietLoops DEF Quiet

(* One loop makes a quiet step.                                            *)
LEMMA LoopQuiet ==
    ASSUME SetupInv, NEW l \in Setup!Loops, loop' \in [Setup!Loops -> Loop],
           \A m \in Setup!Loops : m # l => loop'[m] = loop[m],
           loop'[l].step # "record", l = "checker" => loop'[l].step \notin {"tokens", "act"},
           l = "deployer" /\ loop[l].step = "record" => count'["fault"] > count["fault"],
           SeenInv(l)',
           UNCHANGED <<row, tokens, gas, tx, allowed, view, toppedUp>>,
           \/ UNCHANGED count
           \/ /\ count' \in [{"fault", "revert", "evict", "event"} -> Nat]
              /\ count'["fault"] >= count["fault"]
    PROVE  SetupInv'
<1>1. SetupType'
  BY DEF SetupInv, SetupType
<1>2. ColumnsStay
  BY DEF ColumnsStay
<1>3. count'["fault"] >= count["fault"]
  <2>1. count["fault"] \in Nat
    BY DEF SetupInv, SetupType
  <2> QED
    BY <2>1
<1>4. \A m \in Setup!Loops : Quiet(m)
  BY DEF Quiet
<1> QED
  BY <1>1, <1>2, <1>3, <1>4, QuietLoops

(* A loop without a page.                                                  *)
LEMMA NothingSeen ==
    ASSUME NEW l, loop'[l].step = "query", DOMAIN loop'[l].page = {} PROVE SeenInv(l)'
<1>1. ~AtWork(l)' /\ Ahead(l)' = {}
  BY DEF AtWork, Ahead, Setup!Rest
<1> QED
  BY <1>1 DEF SeenInv

LEMMA QueryStep ==
    ASSUME SetupInv, NEW l \in Setup!Loops, Setup!Query(l) \/ Setup!QueryFails(l) PROVE SetupInv'
<1> DEFINE found == Setup!Page(l, loop[l].from)
           seen == [a \in found |-> [row |-> row[a], gas |-> "unknown", balance |-> "ok"]]
           k == [Setup!Begin EXCEPT !.step = "balance", !.from = Setup!Min(found), !.page = seen]
<1>1. SetupType /\ loop[l].step = "query"
  BY DEF SetupInv, Setup!Query, Setup!QueryFails
<1>2. found \subseteq Airdrop /\ \A a \in found : Setup!Eligible(l, a)
  BY DEF Setup!Page
<1>3. CASE Setup!Query(l) /\ found # {}
  <2>1. loop' = [loop EXCEPT ![l] = k]
        /\ UNCHANGED <<row, tokens, gas, tx, allowed, view, count, toppedUp>>
    BY <1>3 DEF Setup!Query, Setup!rows, Setup!node, Setup!history
  <2>2. Setup!Min(found) \in Airdrop
    BY <1>2, <1>3, EndsOfPage
  <2>3. seen \in [found -> Setup!Rec]
    BY <1>1, <1>2 DEF SetupType, Setup!Rec, Setup!Balances
  <2>4. /\ k \in Loop /\ k.step = "balance" /\ k.at = 0 /\ k.page = seen
    <3>1. "balance" \in Steps /\ Setup!Begin \in Loop /\ Setup!Begin.at = 0
      BY BeginIsLoop DEF Steps
    <3> DEFINE begin == Setup!Begin  low == Setup!Min(found)
    <3>2. begin \in Loop /\ begin.at = 0 /\ low \in Airdrop \union {0}
      BY <2>2, <3>1
    <3> HIDE DEF seen, found, begin, low
    <3>3. LET new == [begin EXCEPT !.step = "balance", !.from = low, !.page = seen]
          IN new \in Loop /\ new.step = "balance" /\ new.at = begin.at /\ new.page = seen
      <4>1. seen \in UNION {[T -> Setup!Rec] : T \in SUBSET Airdrop}
        BY <1>2, <2>3
      <4> QED
        BY <3>1, <3>2, <4>1 DEF Loop
    <3> QED
      BY <3>2, <3>3 DEF begin, low
  <2> HIDE DEF k
  <2>5. /\ loop' \in [Setup!Loops -> Loop] /\ loop'[l] = k
        /\ \A m \in Setup!Loops : m # l => loop'[m] = loop[m]
    BY <1>1, <2>1, <2>4, OneLoop
  <2>6. SeenInv(l)'
    <3>1. ~AtWork(l)'
      BY <2>4, <2>5 DEF AtWork
    <3>2. Ahead(l)' = found
      <4>1. DOMAIN loop'[l].page = found
        BY <2>4, <2>5
      <4> HIDE DEF found
      <4> QED
        BY <2>4, <2>5, <3>1, <4>1 DEF Ahead, Setup!Rest
    <3>3. ASSUME NEW a \in found
          PROVE  /\ loop'[l].page[a].row = row'[a]
                 /\ l = "checker" => row'[a].dealer = "ok"
      <4>1. loop'[l].page[a] = [row |-> row[a], gas |-> "unknown", balance |-> "ok"]
        BY <2>4, <2>5
      <4> HIDE DEF seen, found
      <4>2. l = "checker" => row[a].dealer = "ok"
        BY <1>2, <3>3 DEF Setup!Eligible
      <4> QED
        BY <2>1, <4>1, <4>2
    <3> HIDE DEF found, seen
    <3>4. loop'[l].step = "balance"
      BY <2>4, <2>5
    <3> QED
      BY <3>1, <3>2, <3>3, <3>4 DEF SeenInv
  <2> QED
    BY <1>1, <2>1, <2>4, <2>5, <2>6, LoopQuiet
<1>4. CASE (Setup!Query(l) /\ found = {}) \/ Setup!QueryFails(l)
  <2>1. /\ loop' = [loop EXCEPT ![l] = Setup!Begin]
        /\ UNCHANGED <<row, tokens, gas, tx, allowed, view, toppedUp>>
        /\ UNCHANGED count \/ Setup!Counting("fault")
    BY <1>4 DEF Setup!Query, Setup!QueryFails, Setup!rows, Setup!node, Setup!history
  <2>2. /\ loop' \in [Setup!Loops -> Loop] /\ loop'[l] = Setup!Begin
        /\ \A m \in Setup!Loops : m # l => loop'[m] = loop[m]
    BY <1>1, <2>1, BeginIsLoop, OneLoop
  <2>3. SeenInv(l)'
    BY <2>2, BeginIsLoop, NothingSeen
  <2> QED
    BY <1>1, <2>1, <2>2, <2>3, BeginIsLoop, CountingTypes, LoopQuiet
<1> QED
  BY <1>3, <1>4

(* The balances of a page do not change what else is known of its rows.    *)
LEMMA BalancesStep ==
    ASSUME SetupInv, NEW l \in Setup!Loops, Setup!CheckBalances(l) \/ Setup!CheckBalanceFails(l)
    PROVE  SetupInv'
<1> DEFINE old == loop[l].page
<1>1. SetupType /\ loop[l] \in Loop /\ loop[l].step = "balance"
  BY DEF SetupInv, SetupType, Setup!CheckBalances, Setup!CheckBalanceFails
<1>2. DOMAIN old \subseteq Airdrop /\ old \in [DOMAIN old -> Setup!Rec]
  BY <1>1, LoopFields
<1>3. ASSUME NEW a \in DOMAIN old
      PROVE  /\ Setup!Checked(l, a) \in Setup!Rec /\ Setup!Checked(l, a).row = old[a].row
             /\ \A r \in Setup!Unchecked(l, a) : r \in Setup!Rec /\ r.row = old[a].row
  <2>1. old[a] \in Setup!Rec /\ gas[a] \in Setup!Gas /\ Setup!BalanceOf(a) \in Setup!Balances
    BY <1>1, <1>2 DEF SetupType, Setup!BalanceOf, Setup!Balances
  <2> QED
    BY <2>1 DEF Setup!Rec, Setup!Checked, Setup!Unchecked
<1>4. PICK new \in [DOMAIN old -> Setup!Rec] :
         /\ loop' = [loop EXCEPT ![l].step = "write", ![l].page = new]
         /\ \A a \in DOMAIN old : new[a].row = old[a].row
  <2>1. CASE Setup!CheckBalances(l)
    <3> DEFINE new == [a \in DOMAIN old |-> Setup!Checked(l, a)]
    <3>1. loop' = [loop EXCEPT ![l].step = "write", ![l].page = new]
      BY <1>1, <2>1 DEF Setup!CheckBalances, SetupType
    <3>2. new \in [DOMAIN old -> Setup!Rec] /\ \A a \in DOMAIN old : new[a].row = old[a].row
      BY <1>3
    <3> QED
      BY <3>1, <3>2
  <2>2. CASE Setup!CheckBalanceFails(l)
    <3>0. PICK b \in DOMAIN old : \E r \in Setup!Unchecked(l, b) :
             loop' = [loop EXCEPT ![l].step = "write",
                ![l].page = [a \in DOMAIN @ |-> IF a = b THEN r ELSE Setup!Checked(l, a)]]
      BY <2>2 DEF Setup!CheckBalanceFails
    <3>1. PICK r \in Setup!Unchecked(l, b) :
             loop' = [loop EXCEPT ![l].step = "write",
                ![l].page = [a \in DOMAIN @ |-> IF a = b THEN r ELSE Setup!Checked(l, a)]]
      BY <3>0
    <3> DEFINE new == [a \in DOMAIN old |-> IF a = b THEN r ELSE Setup!Checked(l, a)]
    <3>2. loop' = [loop EXCEPT ![l].step = "write", ![l].page = new]
      BY <1>1, <3>1 DEF SetupType
    <3>3. new \in [DOMAIN old -> Setup!Rec] /\ \A a \in DOMAIN old : new[a].row = old[a].row
      BY <1>3
    <3> QED
      BY <3>2, <3>3
  <2> QED
    BY <2>1, <2>2
<1> HIDE DEF old
<1> DEFINE k == [loop[l] EXCEPT !.step = "write", !.page = new]
<1>5. k \in Loop /\ k.step = "write" /\ k.page = new /\ k.at = loop[l].at
  <2>1. new \in UNION {[T -> Setup!Rec] : T \in SUBSET Airdrop}
    BY <1>2
  <2>2. "write" \in Steps
    BY DEF Steps
  <2> QED
    BY <1>1, <2>1, <2>2 DEF Loop
<1>6. loop' = [loop EXCEPT ![l] = k]
  BY <1>1, <1>4 DEF SetupType
<1> HIDE DEF k
<1>7. /\ loop' \in [Setup!Loops -> Loop] /\ loop'[l] = k
      /\ \A m \in Setup!Loops : m # l => loop'[m] = loop[m]
  BY <1>1, <1>5, <1>6, OneLoop
<1>8. UNCHANGED <<row, tokens, gas, tx, allowed, view, toppedUp>>
      /\ (UNCHANGED count \/ Setup!Counting("fault"))
  BY DEF Setup!CheckBalances, Setup!CheckBalanceFails, Setup!rows, Setup!node, Setup!history
<1>9. SeenInv(l)'
  <2>1. ~AtWork(l)' /\ ~AtWork(l) /\ Ahead(l)' = Ahead(l) /\ Ahead(l) \subseteq DOMAIN old
    BY <1>1, <1>4, <1>5, <1>7 DEF AtWork, Ahead, Setup!Rest, old
  <2>2. \A a \in Ahead(l) : loop'[l].page[a].row = loop[l].page[a].row /\ row'[a] = row[a]
    BY <1>4, <1>5, <1>7, <1>8, <2>1 DEF old
  <2>3. \A a \in Ahead(l) :
           LET read == loop[l].page[a].row IN
           /\ l = "deployer" => read.dealer = row[a].dealer /\ read.dealerTx = row[a].dealerTx
           /\ l = "checker" => /\ row[a].dealer = "ok" /\ read.dealerTx = row[a].dealerTx
                               /\ read.approve = row[a].approve /\ read.approveTx = row[a].approveTx
    BY DEF SetupInv, SeenInv
  <2>4. loop'[l].step \notin {"allowance", "tokens"}
    BY <1>5, <1>7
  <2>5. \A a \in Ahead(l)' :
           LET read == loop'[l].page[a].row IN
           /\ l = "deployer" => read.dealer = row'[a].dealer /\ read.dealerTx = row'[a].dealerTx
           /\ l = "checker" => /\ row'[a].dealer = "ok" /\ read.dealerTx = row'[a].dealerTx
                               /\ read.approve = row'[a].approve /\ read.approveTx = row'[a].approveTx
    BY <2>1, <2>2, <2>3
  <2> QED
    BY <2>1, <2>4, <2>5 DEF SeenInv
<1> QED
  BY <1>1, <1>5, <1>7, <1>8, <1>9, CountingTypes, LoopQuiet

(* The process ends.                                                       *)
LEMMA EndStep ==
    ASSUME SetupInv, Setup!Ends, UNCHANGED <<row, tokens, gas, tx, allowed, toppedUp>>,
           Setup!Counting("fault") \/ (UNCHANGED count /\ loop["deployer"].step # "record")
    PROVE  SetupInv'
<1>1. SetupType
  BY DEF SetupInv
<1>2. /\ loop' \in [Setup!Loops -> Loop] /\ \A l \in Setup!Loops : loop'[l] = Setup!Begin
      /\ DOMAIN view' = {}
  BY BeginIsLoop DEF Setup!Ends, Setup!NoView
<1>3. SetupType'
  BY <1>1, <1>2, CountingTypes DEF SetupType
<1>4. \A l \in Setup!Loops : Quiet(l)
  <2> SUFFICES ASSUME NEW l \in Setup!Loops PROVE Quiet(l)
    OBVIOUS
  <2>1. loop'[l].step = "query" /\ SeenInv(l)'
    BY <1>2, BeginIsLoop, NothingSeen
  <2>2. l = "deployer" /\ loop[l].step = "record" => count'["fault"] > count["fault"]
    BY <1>1, CountingTypes DEF SetupType
  <2> QED
    BY <2>1, <2>2 DEF Quiet
<1>5. count'["fault"] >= count["fault"]
  BY <1>1, CountingTypes DEF SetupType
<1>6. ColumnsStay
  BY DEF ColumnsStay
<1> QED
  BY <1>3, <1>4, <1>5, <1>6, QuietLoops

LEMMA Endings ==
    ASSUME SetupInv, Setup!DeployPanics \/ Setup!ReadTokensFails \/ Setup!Crash PROVE SetupInv'
<1>1. CASE Setup!DeployPanics
  BY <1>1, EndStep DEF Setup!DeployPanics, Setup!Deploying, Setup!Panic, Setup!rows, Setup!node,
     Setup!history
<1>2. CASE Setup!ReadTokensFails \/ Setup!Crash
  BY <1>2, EndStep DEF Setup!ReadTokensFails, Setup!Crash, Setup!rows, Setup!node
<1> QED
  BY <1>1, <1>2

(* The function returns before it has sent anything.                       *)
LEMMA DoneStep ==
    ASSUME SetupInv, NEW l \in Setup!Loops, Setup!Done(l),
           UNCHANGED <<row, tokens, gas, tx, allowed, view, toppedUp>>,
           \/ UNCHANGED count /\ loop[l].step # "record"
           \/ Setup!Counting("fault")
    PROVE  SetupInv'
<1>1. /\ loop' \in [Setup!Loops -> Loop]
      /\ loop'[l].step = "next" /\ loop'[l].at = loop[l].at /\ loop'[l].page = loop[l].page
      /\ \A m \in Setup!Loops : m # l => loop'[m] = loop[m]
  BY DoneLoop DEF SetupInv
<1>2. SetupType'
  BY <1>1, CountingTypes DEF SetupInv, SetupType
<1>3. ColumnsStay /\ ~AtWork(l)' /\ SeenInv(l)
  BY <1>1 DEF ColumnsStay, AtWork, SetupInv
<1>4. SeenInv(l)'
  BY <1>1, <1>2, <1>3, SeenStays DEF SetupInv
<1>5. \/ UNCHANGED count
      \/ /\ count' \in [{"fault", "revert", "evict", "event"} -> Nat]
         /\ count'["fault"] = count["fault"] + 1 /\ count'["fault"] > count["fault"]
  BY CountingTypes DEF SetupInv, SetupType
<1> QED
  BY <1>1, <1>4, <1>5, CountingTypes, LoopQuiet DEF SetupInv

LEMMA Waits ==
    ASSUME SetupInv, Setup!DeployWaits \/ Setup!ApproveWaits \/ Setup!ReadAllowanceFails
    PROVE  SetupInv'
<1>1. "deployer" \in Setup!Loops /\ "checker" \in Setup!Loops
  BY SetupConstants
<1>2. CASE Setup!DeployWaits
  BY <1>1, <1>2, DoneStep DEF Setup!DeployWaits, Setup!Deploying, Setup!Nothing, Setup!rows,
     Setup!node, Setup!history
<1>3. CASE Setup!ApproveWaits
  BY <1>1, <1>3, DoneStep DEF Setup!ApproveWaits, Setup!Approving, Setup!Nothing, Setup!rows,
     Setup!node, Setup!history
<1>4. CASE Setup!ReadAllowanceFails
  BY <1>1, <1>4, DoneStep DEF Setup!ReadAllowanceFails, Setup!rows, Setup!node
<1> QED
  BY <1>2, <1>3, <1>4

(* The next airdrop of the page is one the loop has not treated.           *)
LEMMA TurnStep ==
    ASSUME SetupInv, NEW l \in Setup!Loops, Setup!Turn(l) PROVE SetupInv'
<1>1. SetupType /\ loop[l] \in Loop /\ loop[l].step = "next" /\ SeenInv(l)
  BY DEF SetupInv, SetupType, Setup!Turn
<1>2. UNCHANGED <<row, tokens, gas, tx, allowed, view, count, toppedUp>>
  BY DEF Setup!Turn, Setup!rows, Setup!node, Setup!history
<1>3. CASE Setup!Rest(l) = {}
  <2> DEFINE k == [Setup!Begin EXCEPT !.from = loop[l].from]
  <2>1. loop' = [loop EXCEPT ![l] = k]
    BY <1>3 DEF Setup!Turn
  <2>2. k \in Loop /\ k.step = "query" /\ DOMAIN k.page = {}
    BY <1>1, BeginIsLoop, LoopFields, FromEdited
  <2> HIDE DEF k
  <2>3. /\ loop' \in [Setup!Loops -> Loop] /\ loop'[l] = k
        /\ \A m \in Setup!Loops : m # l => loop'[m] = loop[m]
    BY <1>1, <2>1, <2>2, OneLoop
  <2>4. SeenInv(l)'
    BY <2>2, <2>3, NothingSeen
  <2> QED
    BY <1>1, <1>2, <2>2, <2>3, <2>4, LoopQuiet
<1>4. CASE Setup!Rest(l) # {}
  <2> DEFINE high == Setup!Max(Setup!Rest(l))
             step == IF l = "deployer" THEN "act" ELSE "allowance"
             k == [loop[l] EXCEPT !.at = high, !.step = step]
  <2>1. loop' = [loop EXCEPT ![l] = k]
    BY <1>4 DEF Setup!Turn
  <2>2. /\ Setup!Rest(l) \subseteq DOMAIN loop[l].page /\ Setup!Rest(l) \subseteq Airdrop
        /\ high \in Setup!Rest(l)
    <3>1. DOMAIN loop[l].page \subseteq Airdrop
      BY <1>1, LoopFields
    <3>2. Setup!Rest(l) \subseteq DOMAIN loop[l].page
      BY DEF Setup!Rest
    <3>3. high \in Setup!Rest(l)
      BY <1>4, <3>1, <3>2, EndsOfPage
    <3> QED
      BY <3>1, <3>2, <3>3
  <2> HIDE DEF high
  <2>3. k \in Loop /\ k.at = high /\ k.step = step /\ k.page = loop[l].page
    <3>1. step \in Steps /\ high \in Airdrop \union {0}
      BY <2>2 DEF Steps
    <3> HIDE DEF step
    <3> QED
      BY <1>1, <3>1 DEF Loop
  <2> HIDE DEF k
  <2>4. /\ loop' \in [Setup!Loops -> Loop] /\ loop'[l] = k
        /\ \A m \in Setup!Loops : m # l => loop'[m] = loop[m]
    BY <1>1, <2>1, <2>3, OneLoop
  <2>5. AtWork(l)' /\ Ahead(l)' = Setup!Rest(l)' \union {high}
    BY <2>3, <2>4 DEF AtWork, Ahead
  <2>6. Setup!Rest(l)' \subseteq Setup!Rest(l)
    <3>1. Setup!Rest(l)' = {a \in DOMAIN loop[l].page : high = 0 \/ a < high}
      BY <2>3, <2>4 DEF Setup!Rest
    <3>2. ASSUME NEW a \in DOMAIN loop[l].page, a < high PROVE a \in Setup!Rest(l)
      <4>0. DOMAIN loop[l].page \subseteq Airdrop /\ loop[l].at \in Airdrop \union {0}
        BY <1>1, LoopFields
      <4>1. a \in Nat /\ high \in Nat /\ loop[l].at \in Nat
        <5>1. Airdrop \subseteq Nat /\ Airdrop \union {0} \subseteq Nat
          BY SetupConstants
        <5> QED
          BY <2>2, <4>0, <5>1
      <4>2. loop[l].at = 0 \/ high < loop[l].at
        BY <2>2 DEF Setup!Rest
      <4> QED
        BY <3>2, <4>1, <4>2 DEF Setup!Rest
    <3>3. high # 0
      BY <2>2, SetupConstants
    <3> QED
      BY <3>1, <3>2, <3>3
  <2>7. Setup!Rest(l) = Ahead(l)
    BY <1>1 DEF Ahead, AtWork
  <2>8. SeenInv(l)'
    <3>1. Ahead(l)' \subseteq Ahead(l)
      BY <2>2, <2>5, <2>6, <2>7
    <3>2. loop'[l].at \in DOMAIN loop'[l].page /\ loop'[l].page = loop[l].page
      BY <2>2, <2>3, <2>4
    <3>3. l = "deployer" => loop'[l].step = "act"
      BY <2>3, <2>4
    <3> QED
      BY <1>1, <1>2, <3>1, <3>2, <3>3 DEF SeenInv
  <2> QED
    BY <1>1, <1>2, <2>3, <2>4, <2>8, LoopQuiet
<1> QED
  BY <1>3, <1>4

(* Of a row, what no loop decides by.                                      *)
LEMMA RowsStay ==
    ASSUME SetupInv, row' \in [Airdrop -> Setup!Rows], ColumnsStay,
           UNCHANGED <<loop, tokens, gas, tx, allowed, toppedUp>>,
           DOMAIN view' \subseteq Airdrop, \A a \in DOMAIN view' : view'[a] \in Setup!Balances,
           \/ UNCHANGED count
           \/ \E what \in {"fault", "revert", "evict", "event"} : Setup!Counting(what)
    PROVE  SetupInv'
<1>1. SetupType /\ count["fault"] \in Nat
  BY DEF SetupInv, SetupType
<1>2. count' \in [{"fault", "revert", "evict", "event"} -> Nat] /\ count'["fault"] >= count["fault"]
  BY <1>1, CountingTypes DEF SetupType
<1>3. SetupType'
  BY <1>1, <1>2 DEF SetupType
<1> QED
  BY <1>2, <1>3, LoopsStay

LEMMA RowChanged ==
    ASSUME SetupType, NEW a \in Airdrop, NEW new \in Setup!Rows, row' = [row EXCEPT ![a] = new]
    PROVE  /\ row' \in [Airdrop -> Setup!Rows] /\ row'[a] = new
           /\ \A b \in Airdrop : b # a => row'[b] = row[b]
  BY DEF SetupType

(* The balances a loop or a view found.                                    *)
LEMMA BalanceRows ==
    ASSUME SetupType, NEW found, \A a \in DOMAIN found \intersect Airdrop : found[a] \in Setup!Balances,
           row' = [a \in Airdrop |-> IF a \in DOMAIN found THEN [row[a] EXCEPT !.balance = found[a]]
                                     ELSE row[a]]
    PROVE  row' \in [Airdrop -> Setup!Rows] /\ ColumnsStay
<1>1. ASSUME NEW a \in Airdrop
      PROVE  /\ row'[a] \in Setup!Rows
             /\ row'[a].dealer = row[a].dealer /\ row'[a].dealerTx = row[a].dealerTx
             /\ row'[a].approve = row[a].approve /\ row'[a].approveTx = row[a].approveTx
  <2>1. row[a] \in Setup!Rows
    BY DEF SetupType
  <2>2. CASE a \in DOMAIN found
    BY <2>1, <2>2 DEF Setup!Rows
  <2>3. CASE a \notin DOMAIN found
    BY <2>1, <2>3
  <2> QED
    BY <2>2, <2>3
<1> QED
  BY <1>1 DEF ColumnsStay

LEMMA WriteStep ==
    ASSUME SetupInv, NEW l \in Setup!Loops, Setup!WriteBalances(l) \/ Setup!WriteBalancesFails(l)
    PROVE  SetupInv'
<1> DEFINE k == [loop[l] EXCEPT !.step = "next"]
<1>1. SetupType /\ loop[l] \in Loop /\ loop[l].step = "write" /\ SeenInv(l)
  BY DEF SetupInv, SetupType, Setup!WriteBalances, Setup!WriteBalancesFails
<1>2. /\ loop' = [loop EXCEPT ![l] = k]
      /\ UNCHANGED <<tokens, gas, tx, allowed, view, toppedUp>>
      /\ UNCHANGED count \/ Setup!Counting("fault")
  BY <1>1 DEF Setup!WriteBalances, Setup!WriteBalancesFails, Setup!Step, Setup!node, Setup!history,
     SetupType
<1>3. k \in Loop /\ k.step = "next" /\ k.at = loop[l].at /\ k.page = loop[l].page
  BY <1>1 DEF Loop, Steps
<1> HIDE DEF k
<1>4. /\ loop' \in [Setup!Loops -> Loop] /\ loop'[l] = k
      /\ \A m \in Setup!Loops : m # l => loop'[m] = loop[m]
  BY <1>1, <1>2, <1>3, OneLoop
<1>5. row' \in [Airdrop -> Setup!Rows] /\ ColumnsStay
  <2>1. CASE Setup!WriteBalances(l)
    <3> DEFINE found == [a \in DOMAIN loop[l].page |-> loop[l].page[a].balance]
    <3>1. \A a \in DOMAIN found : found[a] \in Setup!Balances
      <4>1. loop[l].page \in [DOMAIN loop[l].page -> Setup!Rec]
        BY <1>1, LoopFields
      <4> QED
        BY <4>1 DEF Setup!Rec
    <3>2. row' = [a \in Airdrop |-> IF a \in DOMAIN found THEN [row[a] EXCEPT !.balance = found[a]]
                                    ELSE row[a]]
      BY <2>1 DEF Setup!WriteBalances
    <3> HIDE DEF found
    <3> QED
      BY <1>1, <3>1, <3>2, BalanceRows
  <2>2. CASE Setup!WriteBalancesFails(l)
    BY <1>1, <2>2 DEF Setup!WriteBalancesFails, Setup!rows, SetupType, ColumnsStay
  <2> QED
    BY <2>1, <2>2
<1>6. count' \in [{"fault", "revert", "evict", "event"} -> Nat] /\ count'["fault"] >= count["fault"]
  BY <1>1, <1>2, CountingTypes DEF SetupType
<1>7. SetupType'
  BY <1>1, <1>2, <1>4, <1>5, <1>6 DEF SetupType
<1>8. SeenInv(l)'
  <2>1. ~AtWork(l)' /\ loop'[l].page = loop[l].page /\ loop'[l].at = loop[l].at
        /\ loop'[l].step = "next"
    BY <1>3, <1>4 DEF AtWork
  <2> QED
    BY <1>1, <1>5, <1>7, <2>1, SeenStays
<1>9. \A m \in Setup!Loops : Quiet(m)
  BY <1>1, <1>3, <1>4, <1>8 DEF Quiet
<1> QED
  BY <1>2, <1>5, <1>6, <1>7, <1>9, QuietLoops

LEMMA ViewSteps ==
    ASSUME SetupInv,
           \/ \E a \in Airdrop : Setup!AddHandler(a) \/ Setup!Open(a) \/ Setup!UpdateHandler(a)
                                 \/ Setup!HourPasses(a) \/ Setup!GetHandler(a)
           \/ \E S \in SUBSET Airdrop : Setup!ListHandler(S)
           \/ Setup!LookWrite
    PROVE  SetupInv'
<1>1. /\ SetupType /\ row \in [Airdrop -> Setup!Rows]
      /\ DOMAIN view \subseteq Airdrop /\ \A a \in DOMAIN view : view[a] \in Setup!Balances
  BY DEF SetupInv, SetupType
<1>2. ASSUME NEW a \in Airdrop,
             \/ Setup!AddHandler(a) \/ Setup!Open(a) \/ Setup!UpdateHandler(a) \/ Setup!HourPasses(a)
      PROVE  SetupInv'
  <2>1. /\ \/ row' = [row EXCEPT ![a].exists = TRUE] \/ row' = [row EXCEPT ![a].open = TRUE]
           \/ row' = [row EXCEPT ![a].open = FALSE] \/ row' = [row EXCEPT ![a].due = TRUE]
        /\ UNCHANGED <<loop, tokens, gas, tx, allowed, toppedUp, view>>
        /\ UNCHANGED count \/ Setup!Counting("event")
    BY <1>2 DEF Setup!AddHandler, Setup!Open, Setup!UpdateHandler, Setup!HourPasses, Setup!node,
       Setup!history
  <2>2. row[a] \in Setup!Rows
    BY <1>1
  <2>3. ASSUME NEW new \in Setup!Rows, row' = [row EXCEPT ![a] = new],
               new.dealer = row[a].dealer, new.dealerTx = row[a].dealerTx,
               new.approve = row[a].approve, new.approveTx = row[a].approveTx
        PROVE  row' \in [Airdrop -> Setup!Rows] /\ ColumnsStay
    BY <1>1, <2>3, RowChanged DEF ColumnsStay
  <2>4. row' \in [Airdrop -> Setup!Rows] /\ ColumnsStay
    <3>1. CASE row' = [row EXCEPT ![a].exists = TRUE]
      <4> DEFINE new == [row[a] EXCEPT !.exists = TRUE]
      <4>1. /\ new \in Setup!Rows /\ new.dealer = row[a].dealer /\ new.dealerTx = row[a].dealerTx
            /\ new.approve = row[a].approve /\ new.approveTx = row[a].approveTx
        BY <2>2 DEF Setup!Rows
      <4>2. row' = [row EXCEPT ![a] = new]
        BY <1>1, <3>1
      <4> HIDE DEF new
      <4> QED
        BY <2>3, <4>1, <4>2
    <3>2. CASE row' = [row EXCEPT ![a].open = TRUE]
      <4> DEFINE new == [row[a] EXCEPT !.open = TRUE]
      <4>1. /\ new \in Setup!Rows /\ new.dealer = row[a].dealer /\ new.dealerTx = row[a].dealerTx
            /\ new.approve = row[a].approve /\ new.approveTx = row[a].approveTx
        BY <2>2 DEF Setup!Rows
      <4>2. row' = [row EXCEPT ![a] = new]
        BY <1>1, <3>2
      <4> HIDE DEF new
      <4> QED
        BY <2>3, <4>1, <4>2
    <3>3. CASE row' = [row EXCEPT ![a].open = FALSE]
      <4> DEFINE new == [row[a] EXCEPT !.open = FALSE]
      <4>1. /\ new \in Setup!Rows /\ new.dealer = row[a].dealer /\ new.dealerTx = row[a].dealerTx
            /\ new.approve = row[a].approve /\ new.approveTx = row[a].approveTx
        BY <2>2 DEF Setup!Rows
      <4>2. row' = [row EXCEPT ![a] = new]
        BY <1>1, <3>3
      <4> HIDE DEF new
      <4> QED
        BY <2>3, <4>1, <4>2
    <3>4. CASE row' = [row EXCEPT ![a].due = TRUE]
      <4> DEFINE new == [row[a] EXCEPT !.due = TRUE]
      <4>1. /\ new \in Setup!Rows /\ new.dealer = row[a].dealer /\ new.dealerTx = row[a].dealerTx
            /\ new.approve = row[a].approve /\ new.approveTx = row[a].approveTx
        BY <2>2 DEF Setup!Rows
      <4>2. row' = [row EXCEPT ![a] = new]
        BY <1>1, <3>4
      <4> HIDE DEF new
      <4> QED
        BY <2>3, <4>1, <4>2
    <3> QED
      BY <2>1, <3>1, <3>2, <3>3, <3>4
  <2> QED
    BY <1>1, <2>1, <2>4, RowsStay
<1>3. ASSUME NEW S \in SUBSET Airdrop, Setup!Look(S) PROVE SetupInv'
  <2>1. /\ UNCHANGED <<row, tokens, gas, tx, allowed, loop, toppedUp>>
        /\ \/ view' = [a \in S |-> Setup!BalanceOf(a)] /\ UNCHANGED count
           \/ view' = [a \in S |-> row[a].balance] /\ Setup!Counting("fault")
    BY <1>3 DEF Setup!Look, Setup!rows, Setup!node
  <2>2. \A a \in Airdrop : Setup!BalanceOf(a) \in Setup!Balances /\ row[a].balance \in Setup!Balances
    BY <1>1 DEF Setup!BalanceOf, Setup!Balances, Setup!Rows
  <2>3. DOMAIN view' = S /\ \A a \in DOMAIN view' : view'[a] \in Setup!Balances
    BY <2>1, <2>2
  <2>4. row' \in [Airdrop -> Setup!Rows] /\ ColumnsStay
    BY <1>1, <2>1 DEF ColumnsStay
  <2> QED
    BY <2>1, <2>3, <2>4, RowsStay
<1>4. CASE Setup!LookWrite
  <2>1. /\ row' = [a \in Airdrop |-> IF a \in DOMAIN view THEN [row[a] EXCEPT !.balance = view[a]]
                                     ELSE row[a]]
        /\ DOMAIN view' = {}
        /\ UNCHANGED <<tokens, gas, tx, allowed, loop, count, toppedUp>>
    BY <1>4 DEF Setup!LookWrite, Setup!NoView, Setup!node, Setup!history
  <2>2. row' \in [Airdrop -> Setup!Rows] /\ ColumnsStay
    BY <1>1, <2>1, BalanceRows
  <2> QED
    BY <2>1, <2>2, RowsStay
<1>5. ASSUME NEW a \in Airdrop, Setup!GetHandler(a) PROVE SetupInv'
  <2>1. {a} \in SUBSET Airdrop /\ Setup!Look({a})
    BY <1>5 DEF Setup!GetHandler
  <2> QED
    BY <1>3, <2>1
<1> QED
  BY <1>2, <1>3, <1>4, <1>5 DEF Setup!ListHandler

(* The row of the airdrop at work is as the loop read it.                  *)
LEMMA CurrentRow ==
    ASSUME SetupInv, NEW l \in Setup!Loops, AtWork(l)
    PROVE  LET a == loop[l].at  old == Setup!Current(l).row IN
           /\ a \in Airdrop /\ row[a] \in Setup!Rows
           /\ l = "deployer" => old.dealer = row[a].dealer /\ old.dealerTx = row[a].dealerTx
           /\ l = "checker" => /\ row[a].dealer = "ok" /\ row[a].dealerTx \in Setup!Txs
                               /\ old.dealerTx = row[a].dealerTx
                               /\ old.approve = row[a].approve /\ old.approveTx = row[a].approveTx
<1> DEFINE a == loop[l].at
<1>1. SeenInv(l) /\ loop[l] \in Loop /\ a \in Ahead(l)
  BY DEF SetupInv, SetupType, Ahead
<1>2. a \in Airdrop
  <2>1. a \in DOMAIN loop[l].page /\ DOMAIN loop[l].page \subseteq Airdrop
    BY <1>1, LoopFields DEF SeenInv
  <2> QED
    BY <2>1
<1>3. row[a] \in Setup!Rows
  BY <1>2 DEF SetupInv, SetupType
<1>4. row[a].dealer = "ok" => row[a].dealerTx \in Setup!Txs
  BY <1>2 DEF SetupInv, DeployInv, Setup!Deployments
<1>5. LET old == loop[l].page[a].row IN
      /\ l = "deployer" => old.dealer = row[a].dealer /\ old.dealerTx = row[a].dealerTx
      /\ l = "checker" => /\ row[a].dealer = "ok" /\ old.dealerTx = row[a].dealerTx
                          /\ old.approve = row[a].approve /\ old.approveTx = row[a].approveTx
  BY <1>1 DEF SeenInv
<1> QED
  BY <1>2, <1>3, <1>4, <1>5 DEF Setup!Current

(* A loop that goes on with the same airdrop, or is done with it.          *)
LEMMA SeenOn ==
    ASSUME SetupInv, SetupType', ColumnsStay, NEW l \in Setup!Loops,
           loop'[l].page = loop[l].page, loop'[l].at = loop[l].at, AtWork(l),
           l = "deployer" => loop'[l].step \notin {"allowance", "tokens"},
           \A m \in Setup!Loops : m # l => loop'[m] = loop[m]
    PROVE  \A m \in Setup!Loops : SeenInv(m)'
<1> SUFFICES ASSUME NEW m \in Setup!Loops PROVE SeenInv(m)'
  OBVIOUS
<1>1. SeenInv(m) /\ SetupType
  BY DEF SetupInv
<1>2. CASE m = l
  BY <1>1, <1>2, SeenStays
<1>3. CASE m # l
  <2>1. loop'[m] = loop[m] /\ (AtWork(m)' => AtWork(m))
    BY <1>3 DEF AtWork
  <2>2. m = "deployer" => loop'[m].step \notin {"allowance", "tokens"}
    BY <1>1, <2>1 DEF SeenInv
  <2> QED
    BY <1>1, <2>1, <2>2, SeenStays
<1> QED
  BY <1>2, <1>3

(* The allowance, before the tokens: what is positive is for all of them,  *)
(* and stays so while they become fewer.                                   *)
LEMMA ReadStep ==
    ASSUME SetupInv, Setup!ReadAllowance \/ Setup!ReadTokens PROVE SetupInv'
<1> DEFINE c == loop["checker"]  a == c.at
           k == IF c.step = "allowance"
                THEN [c EXCEPT !.step = "tokens", !.allowance = allowed[row[a].dealerTx]]
                ELSE [c EXCEPT !.step = "act", !.tokens = tokens[a]]
<1>1. /\ "checker" \in Setup!Loops /\ "deployer" \in Setup!Loops /\ SetupType
      /\ c \in Loop /\ c.step \in {"allowance", "tokens"} /\ AtWork("checker")
  BY SetupConstants DEF SetupInv, SetupType, Setup!ReadAllowance, Setup!ReadTokens, AtWork
<1>2. UNCHANGED <<row, tokens, gas, tx, allowed, view, count, toppedUp>>
  BY DEF Setup!ReadAllowance, Setup!ReadTokens, Setup!rows, Setup!node, Setup!history
<1>3. /\ a \in Airdrop /\ row[a].dealer = "ok" /\ row[a].dealerTx \in Setup!Txs
      /\ Setup!Contract = row[a].dealerTx
  BY <1>1, CurrentRow DEF Setup!Contract
<1>4. allowed[row[a].dealerTx] \in 0..MaxTokens /\ tokens[a] \in 0..MaxTokens
  BY <1>1, <1>3 DEF SetupType
<1>5. loop' = [loop EXCEPT !["checker"] = k]
  <2>1. CASE c.step = "allowance"
    BY <1>1, <1>3, <2>1 DEF Setup!ReadAllowance, Setup!ReadTokens, SetupType
  <2>2. CASE c.step = "tokens"
    BY <1>1, <2>2 DEF Setup!ReadAllowance, Setup!ReadTokens, SetupType
  <2> QED
    BY <1>1, <2>1, <2>2
<1>6. /\ k \in Loop /\ k.at = c.at /\ k.page = c.page
      /\ k.step = IF c.step = "allowance" THEN "tokens" ELSE "act"
      /\ k.allowance = IF c.step = "allowance" THEN allowed[row[a].dealerTx] ELSE c.allowance
      /\ c.step = "tokens" => k.tokens = tokens[a]
  <2>1. CASE c.step = "allowance"
    BY <1>1, <1>4, <2>1 DEF Loop, Steps
  <2>2. CASE c.step = "tokens"
    BY <1>1, <1>4, <2>2 DEF Loop, Steps
  <2> QED
    BY <1>1, <2>1, <2>2
<1> HIDE DEF k
<1>7. /\ loop' \in [Setup!Loops -> Loop] /\ loop'["checker"] = k
      /\ \A m \in Setup!Loops : m # "checker" => loop'[m] = loop[m]
  BY <1>1, <1>5, <1>6, OneLoop
<1>8. SetupType'
  BY <1>1, <1>2, <1>7 DEF SetupType
<1>9. ColumnsStay
  BY <1>2 DEF ColumnsStay
<1>10. \A l \in Setup!Loops : SeenInv(l)'
  BY <1>1, <1>6, <1>7, <1>8, <1>9, SeenOn
<1>11. \A b \in Airdrop : (Deploys(b)' <=> Deploys(b)) /\ loop'["deployer"] = loop["deployer"]
  BY <1>1, <1>7 DEF Deploys
<1>12. ASSUME NEW b \in Airdrop \ toppedUp, row[b].dealer = "ok"
       PROVE  /\ Checks(b, {"tokens", "act"})' /\ loop'["checker"].allowance > 0 => Covered(b)
              /\ Checks(b, {"act", "record"})' => loop'["checker"].tokens >= tokens[b]
  <2>1. CASE b = a
    <3>1. allowed[row[a].dealerTx] = 0 \/ Covered(a)
      BY <1>12, <2>1 DEF SetupInv, AllowInv
    <3>2. c.step = "tokens" /\ c.allowance > 0 => Covered(a)
      BY <1>12, <2>1 DEF SetupInv, AllowInv, Checks
    <3>3. tokens[a] >= tokens[a] /\ (allowed[row[a].dealerTx] > 0 => allowed[row[a].dealerTx] # 0)
      BY <1>4, SetupConstants
    <3> QED
      BY <1>1, <1>6, <1>7, <2>1, <3>1, <3>2, <3>3 DEF Checks
  <2>2. CASE b # a
    BY <1>6, <1>7, <2>2 DEF Checks
  <2> QED
    BY <2>1, <2>2
<1>13. count'["fault"] >= count["fault"] /\ loop'["checker"].step # "record"
  BY <1>1, <1>2, <1>6, <1>7 DEF SetupType
<1> QED
  BY <1>2, <1>8, <1>9, <1>10, <1>11, <1>12, <1>13, LoopStep

(* A transaction that has not been sent before.                            *)
LEMMA Sent ==
    ASSUME SetupInv, NEW t \in Setup!Txs, NEW a \in Airdrop, NEW kind \in {"deploy", "approve"},
           NEW spender \in Setup!Txs \union {0}, NEW amount \in 0..MaxTokens,
           Setup!Send(t, a, kind, spender, amount)
    PROVE  LET new == [kind |-> kind, of |-> a, spender |-> spender, amount |-> amount,
                       state |-> "pending"] IN
           /\ tx' \in [Setup!Txs -> Setup!Tx] /\ tx'[t] = new /\ tx[t].kind = "none"
           /\ \A u \in Setup!Txs : u # t => tx'[u] = tx[u]
           /\ UNCHANGED <<tokens, gas, allowed>>
<1> DEFINE new == [kind |-> kind, of |-> a, spender |-> spender, amount |-> amount,
                   state |-> "pending"]
<1>1. tx \in [Setup!Txs -> Setup!Tx] /\ tx[t].state = "none" /\ tx' = [tx EXCEPT ![t] = new]
      /\ UNCHANGED <<tokens, gas, allowed>>
  BY DEF SetupInv, SetupType, Setup!Send
<1>2. new \in Setup!Tx
  BY SetupConstants DEF Setup!Tx
<1>3. tx[t].kind = "none"
  BY <1>1 DEF SetupInv, DeployInv
<1> HIDE DEF new
<1>4. tx' \in [Setup!Txs -> Setup!Tx] /\ tx'[t] = new /\ \A u \in Setup!Txs : u # t => tx'[u] = tx[u]
  BY <1>1, <1>2
<1> QED
  BY <1>1, <1>3, <1>4 DEF new

(* A deployment is sent where there was none, an approval for the tokens   *)
(* that were read; the loop holds it, or it cost a fault.                  *)
LEMMA SendStep ==
    ASSUME SetupInv, SetupType', UNCHANGED <<row, tokens, allowed, toppedUp>>,
           NEW t \in Setup!Txs, NEW l \in Setup!Loops, NEW a \in Airdrop,
           loop[l].at = a, loop[l].step = "act",
           tx[t].kind = "none", tx'[t].state = "pending", tx'[t].of = a,
           \A u \in Setup!Txs : u # t => tx'[u] = tx[u],
           \/ l = "deployer" /\ tx'[t].kind = "deploy" /\ row[a].dealer = "none"
           \/ l = "checker" /\ tx'[t].kind = "approve" /\ row[a].dealer = "ok"
              /\ tx'[t].spender = row[a].dealerTx /\ tx'[t].amount = loop[l].tokens,
           \A m \in Setup!Loops : m # l => loop'[m] = loop[m],
           loop'[l].page = loop[l].page, loop'[l].at = a,
           \/ loop'[l].step = "record" /\ loop'[l].tx = t /\ loop'[l].tokens = loop[l].tokens
              /\ count'["fault"] = count["fault"]
           \/ loop'[l].step = "next" /\ count'["fault"] = count["fault"] + 1
    PROVE  SetupInv'
<1>1. /\ "deployer" \in Setup!Loops /\ "checker" \in Setup!Loops
      /\ SetupType /\ AtWork(l) /\ ColumnsStay /\ count["fault"] \in Nat /\ count'["fault"] \in Nat
      /\ count'["fault"] >= count["fault"]
  BY SetupConstants DEF SetupInv, SetupType, AtWork, ColumnsStay
<1>2. \A m \in Setup!Loops : SeenInv(m)'
  BY <1>1, SeenOn
<1>3. \A u \in Setup!Txs : tx[u].kind # "none" => u # t /\ tx'[u] = tx[u]
  OBVIOUS
<1>4. DeployInv'
  <2>1. ASSUME NEW b \in Airdrop
        PROVE  /\ Setup!Deployments(b) \subseteq Setup!Deployments(b)'
               /\ \A u \in Setup!Deployments(b) : tx'[u] = tx[u]
    BY <1>3 DEF Setup!Deployments
  <2>2. ASSUME NEW b \in Airdrop
        PROVE  /\ Cardinality(Setup!Deployments(b)')
                     <= count'["fault"] + (IF row[b].dealer # "none" \/ Deploys(b)' THEN 1 ELSE 0)
               /\ Deploys(b)' => row[b].dealer = "none" /\ loop'["deployer"].tx \in Setup!Deployments(b)'
    <3> DEFINE new == Setup!Deployments(b)'  old == Setup!Deployments(b)
    <3>1. Cardinality(old) \in Nat /\ IsFiniteSet(old)
      BY DeploymentsFinite
    <3>2. /\ Cardinality(old) <= count["fault"] + (IF row[b].dealer # "none" \/ Deploys(b) THEN 1 ELSE 0)
          /\ Deploys(b) => row[b].dealer = "none" /\ loop["deployer"].tx \in old
      BY SameSetupCount DEF SetupInv, DeployInv
    <3>3. CASE l = "deployer" /\ b = a
      <4>1. new = old \union {t} /\ t \notin old
        BY <3>3 DEF Setup!Deployments
      <4>2. Cardinality(new) = Cardinality(old) + 1
        BY <3>1, <4>1, FS_AddElement
      <4>3. row[b].dealer = "none" /\ ~Deploys(b)
        BY <3>3 DEF Deploys
      <4> HIDE DEF new, old
      <4>4. Cardinality(old) <= count["fault"]
        BY <1>1, <3>1, <3>2, <4>3
      <4>5. CASE loop'[l].step = "record"
        <5>1. Deploys(b)' /\ loop'["deployer"].tx = t
          BY <3>3, <4>5 DEF Deploys
        <5>2. count'["fault"] = count["fault"]
          BY <4>5
        <5> QED
          BY <1>1, <3>1, <4>1, <4>2, <4>3, <4>4, <5>1, <5>2 DEF new
      <4>6. CASE loop'[l].step = "next"
        <5>1. ~Deploys(b)'
          BY <3>3, <4>6 DEF Deploys
        <5>2. count'["fault"] = count["fault"] + 1
          BY <4>6
        <5> QED
          BY <1>1, <3>1, <4>2, <4>3, <4>4, <5>1, <5>2 DEF new
      <4> QED
        BY <4>5, <4>6
    <3>4. CASE ~(l = "deployer" /\ b = a)
      <4>1. new = old
        BY <1>3, <3>4 DEF Setup!Deployments
      <4>2. Deploys(b)' <=> Deploys(b)
        BY <1>1, <3>4 DEF Deploys
      <4>3. Deploys(b) => loop'["deployer"].tx = loop["deployer"].tx
        BY <1>1, <3>4 DEF Deploys
      <4> HIDE DEF new, old
      <4>4. Cardinality(old) <= count'["fault"] + (IF row[b].dealer # "none" \/ Deploys(b)' THEN 1 ELSE 0)
        BY <1>1, <3>1, <3>2, <4>2
      <4> QED
        BY <3>2, <4>1, <4>2, <4>3, <4>4 DEF new
    <3> QED
      BY <3>3, <3>4
  <2>3. ASSUME NEW b \in Airdrop
        PROVE  /\ row[b].dealer # "none" => row[b].dealerTx \in Setup!Deployments(b)'
               /\ row[b].dealer = "ok" => tx'[row[b].dealerTx].state = "good"
               /\ row[b].dealer = "failed" => tx'[row[b].dealerTx].state = "failed"
    <3>1. row[b].dealer # "none" => row[b].dealerTx \in Setup!Deployments(b)
      BY DEF SetupInv, DeployInv
    <3>2. /\ row[b].dealer = "ok" => tx[row[b].dealerTx].state = "good"
          /\ row[b].dealer = "failed" => tx[row[b].dealerTx].state = "failed"
      BY DEF SetupInv, DeployInv
    <3> QED
      BY <2>1, <3>1, <3>2
  <2>4. \A u \in Setup!Txs : tx'[u].state = "none" => tx'[u].kind = "none"
    BY DEF SetupInv, DeployInv
  <2>5. \A b \in Airdrop : Setup!Cardinality(Setup!Deployments(b))' = Cardinality(Setup!Deployments(b)')
    BY DEF Setup!Cardinality, Cardinality
  <2> QED
    BY <2>2, <2>3, <2>4, <2>5 DEF DeployInv
<1>5. \A b : /\ Approvals(b) \subseteq Approvals(b)'
             /\ \A u \in Approvals(b) : tx'[u] = tx[u]
             /\ \A u \in Approvals(b)' : u \in Approvals(b) \/ (u = t /\ b = a /\ l = "checker")
  BY <1>3 DEF Approvals
<1>6. ApproveInv'
  <2>1. \A u \in Setup!Txs : tx'[u].kind = "approve" =>
          /\ tx'[u].of \in Airdrop /\ row[tx'[u].of].dealer = "ok"
          /\ tx'[u].spender = row[tx'[u].of].dealerTx
    BY DEF SetupInv, ApproveInv
  <2>2. \A v \in Setup!Txs : allowed[v] # 0 =>
           \E u \in Setup!Txs : tx'[u].kind = "approve" /\ tx'[u].spender = v
    <3> SUFFICES ASSUME NEW v \in Setup!Txs, allowed[v] # 0
                 PROVE  \E u \in Setup!Txs : tx'[u].kind = "approve" /\ tx'[u].spender = v
      OBVIOUS
    <3>1. PICK u \in Setup!Txs : tx[u].kind = "approve" /\ tx[u].spender = v
      BY DEF SetupInv, ApproveInv
    <3> QED
      BY <1>3, <3>1
  <2>3. ASSUME NEW b \in Airdrop
        PROVE  /\ row[b].approveTx # Setup!NoTx => row[b].approveTx \in Approvals(b)'
               /\ row[b].approve \in {"sent", "failed"} => row[b].approveTx # Setup!NoTx
               /\ row[b].approve # "none" => row[b].dealer = "ok"
               /\ row[b].approve = "failed" => tx'[row[b].approveTx].state = "failed"
    <3>1. /\ row[b].approveTx # Setup!NoTx => row[b].approveTx \in Approvals(b)
          /\ row[b].approve \in {"sent", "failed"} => row[b].approveTx # Setup!NoTx
          /\ row[b].approve # "none" => row[b].dealer = "ok"
          /\ row[b].approve = "failed" => tx[row[b].approveTx].state = "failed"
      BY DEF SetupInv, ApproveInv
    <3> QED
      BY <1>5, <3>1
  <2>4. loop'["checker"].step = "record" =>
           /\ loop'["checker"].tx \in Setup!Txs
           /\ tx'[loop'["checker"].tx].kind = "approve"
           /\ tx'[loop'["checker"].tx].of = loop'["checker"].at
    <3>1. CASE l = "checker"
      BY <1>1, <3>1
    <3>2. CASE l # "checker"
      <4>1. loop'["checker"] = loop["checker"]
        BY <1>1, <3>2
      <4>2. loop["checker"].step = "record" => loop["checker"].tx \in Approvals(loop["checker"].at)
        BY DEF SetupInv, ApproveInv
      <4> QED
        BY <1>3, <4>1, <4>2 DEF Approvals
    <3> QED
      BY <3>1, <3>2
  <2>5. \A b : Approvals(b)' = {u \in Setup!Txs : tx'[u].kind = "approve" /\ tx'[u].of = b}
    BY DEF Approvals
  <2>6. loop'["checker"].step = "record" => (loop["checker"].tx \in Approvals(loop["checker"].at))'
    BY <2>4 DEF Approvals
  <2> QED
    BY <2>1, <2>2, <2>3, <2>6 DEF ApproveInv
<1>7. AllowInv'
  <2> SUFFICES ASSUME NEW b \in Airdrop \ toppedUp, row[b].dealer = "ok"
               PROVE  /\ allowed[row[b].dealerTx] = 0 \/ Covered(b)
                      /\ row[b].approve = "ok" => Covered(b)
                      /\ \A u \in Approvals(b)' : tx'[u].amount >= tokens[b]
                                                  /\ (tx'[u].state = "good" => Covered(b))
                      /\ Checks(b, {"tokens", "act"})' /\ loop'["checker"].allowance > 0 => Covered(b)
                      /\ Checks(b, {"act", "record"})' => loop'["checker"].tokens >= tokens[b]
    BY DEF AllowInv, Covered
  <2>1. /\ allowed[row[b].dealerTx] = 0 \/ Covered(b)
        /\ row[b].approve = "ok" => Covered(b)
        /\ \A u \in Approvals(b) : tx[u].amount >= tokens[b] /\ (tx[u].state = "good" => Covered(b))
        /\ Checks(b, {"tokens", "act"}) /\ loop["checker"].allowance > 0 => Covered(b)
        /\ Checks(b, {"act", "record"}) => loop["checker"].tokens >= tokens[b]
    BY DEF SetupInv, AllowInv
  <2>2. l = "checker" /\ a = b => tx'[t].amount >= tokens[b]
    BY <2>1 DEF Checks
  <2>3. \A u \in Approvals(b)' : tx'[u].amount >= tokens[b] /\ (tx'[u].state = "good" => Covered(b))
    BY <1>5, <2>1, <2>2
  <2>4. CASE l = "checker"
    BY <2>1, <2>2, <2>3, <2>4 DEF Checks
  <2>5. CASE l # "checker"
    <3>1. loop'["checker"] = loop["checker"]
      BY <1>1, <2>5
    <3> QED
      BY <2>1, <2>3, <3>1 DEF Checks
  <2> QED
    BY <2>4, <2>5
<1> QED
  BY <1>2, <1>4, <1>6, <1>7 DEF SetupInv

(* Both loops send so.                                                     *)
LEMMA SendSteps ==
    ASSUME SetupInv, Setup!DeploySend \/ Setup!ApproveSend PROVE SetupInv'
<1> DEFINE l == IF Setup!DeploySend THEN "deployer" ELSE "checker"
           a == loop[l].at
           kind == IF Setup!DeploySend THEN "deploy" ELSE "approve"
           spender == IF Setup!DeploySend THEN 0 ELSE row[a].dealerTx
           amount == IF Setup!DeploySend THEN 0 ELSE loop[l].tokens
<1>1. /\ l \in Setup!Loops /\ loop[l].step = "act" /\ AtWork(l) /\ SetupType /\ loop[l] \in Loop
      /\ l = "deployer" \/ l = "checker"
  BY SetupConstants DEF SetupInv, SetupType, Setup!DeploySend, Setup!Deploying, Setup!ApproveSend,
     Setup!Approving, AtWork
<1>2. /\ a \in Airdrop
      /\ Setup!DeploySend => row[a].dealer = "none"
      /\ ~Setup!DeploySend => /\ row[a].dealer = "ok" /\ row[a].dealerTx \in Setup!Txs
                              /\ Setup!Contract = row[a].dealerTx
  BY <1>1, CurrentRow DEF Setup!DeploySend, Setup!Contract
<1>3. /\ kind \in {"deploy", "approve"} /\ spender \in Setup!Txs \union {0}
      /\ amount \in 0..MaxTokens
  BY <1>1, <1>2, LoopFields, SetupConstants
<1>4. Setup!SendAndGoOn(l, kind, spender, amount) \/ Setup!SendFails(l, kind, spender, amount)
  BY <1>2, SetupConstants DEF Setup!DeploySend, Setup!ApproveSend
<1>5. l = "deployer" => Setup!DeploySend
  OBVIOUS
<1>6. /\ l = "deployer" => kind = "deploy" /\ row[a].dealer = "none"
      /\ l = "checker" => /\ kind = "approve" /\ row[a].dealer = "ok"
                          /\ spender = row[a].dealerTx /\ amount = loop[l].tokens
  BY <1>2
<1> HIDE DEF l, a, kind, spender, amount
<1>7. a = loop[l].at
  BY DEF a
<1>8. ASSUME NEW t \in Setup!Txs, Setup!Send(t, a, kind, spender, amount),
             UNCHANGED <<row, toppedUp, view>>,
             loop' \in [Setup!Loops -> Loop],
             \A m \in Setup!Loops : m # l => loop'[m] = loop[m],
             loop'[l].page = loop[l].page, loop'[l].at = a,
             \/ loop'[l].step = "record" /\ loop'[l].tx = t /\ loop'[l].tokens = loop[l].tokens
                /\ UNCHANGED count
             \/ loop'[l].step = "next" /\ Setup!Counting("fault")
      PROVE  SetupInv'
  <2>1. /\ tx' \in [Setup!Txs -> Setup!Tx] /\ tx[t].kind = "none"
        /\ tx'[t].state = "pending" /\ tx'[t].of = a /\ tx'[t].kind = kind
        /\ tx'[t].spender = spender /\ tx'[t].amount = amount
        /\ \A u \in Setup!Txs : u # t => tx'[u] = tx[u]
        /\ UNCHANGED <<tokens, gas, allowed>>
    <3> DEFINE new == [kind |-> kind, of |-> a, spender |-> spender, amount |-> amount,
                       state |-> "pending"]
    <3>1. /\ tx' \in [Setup!Txs -> Setup!Tx] /\ tx'[t] = new /\ tx[t].kind = "none"
          /\ \A u \in Setup!Txs : u # t => tx'[u] = tx[u]
          /\ UNCHANGED <<tokens, gas, allowed>>
      BY <1>2, <1>3, <1>8, Sent
    <3> QED
      BY <3>1
  <2>2. /\ count' \in [{"fault", "revert", "evict", "event"} -> Nat]
        /\ \/ loop'[l].step = "record" /\ loop'[l].tx = t /\ loop'[l].tokens = loop[l].tokens
              /\ count'["fault"] = count["fault"]
           \/ loop'[l].step = "next" /\ count'["fault"] = count["fault"] + 1
    BY <1>1, <1>8, CountingTypes DEF SetupType
  <2>3. SetupType'
    BY <1>1, <1>8, <2>1, <2>2 DEF SetupType
  <2>4. \/ l = "deployer" /\ tx'[t].kind = "deploy" /\ row[a].dealer = "none"
        \/ l = "checker" /\ tx'[t].kind = "approve" /\ row[a].dealer = "ok"
           /\ tx'[t].spender = row[a].dealerTx /\ tx'[t].amount = loop[l].tokens
    BY <1>1, <1>6, <2>1
  <2> QED
    BY <1>1, <1>2, <1>7, <1>8, <2>1, <2>2, <2>3, <2>4, SendStep
<1>9. CASE Setup!SendAndGoOn(l, kind, spender, amount)
  <2>1. PICK t \in Setup!Txs : /\ Setup!Send(t, a, kind, spender, amount)
                               /\ loop' = [loop EXCEPT ![l].step = "record", ![l].tx = t]
    BY <1>7, <1>9 DEF Setup!SendAndGoOn
  <2>2. UNCHANGED <<row, view, count, toppedUp>>
    BY <1>9 DEF Setup!SendAndGoOn, Setup!rows, Setup!history
  <2> DEFINE k == [loop[l] EXCEPT !.step = "record", !.tx = t]
  <2>3. loop' = [loop EXCEPT ![l] = k]
    BY <1>1, <2>1 DEF SetupType
  <2>4. /\ k \in Loop /\ k.step = "record" /\ k.tx = t /\ k.tokens = loop[l].tokens
        /\ k.page = loop[l].page /\ k.at = a
    BY <1>1, <1>7 DEF Loop, Steps
  <2> HIDE DEF k
  <2>5. /\ loop' \in [Setup!Loops -> Loop] /\ loop'[l] = k
        /\ \A m \in Setup!Loops : m # l => loop'[m] = loop[m]
    BY <1>1, <2>3, <2>4, OneLoop
  <2> QED
    BY <1>8, <2>1, <2>2, <2>4, <2>5
<1>10. CASE Setup!SendFails(l, kind, spender, amount)
  <2>1. /\ Setup!Counting("fault") /\ Setup!Done(l) /\ UNCHANGED <<row, view, toppedUp>>
        /\ \/ \E t \in Setup!Txs : Setup!Send(t, a, kind, spender, amount)
           \/ UNCHANGED <<tokens, gas, tx, allowed>>
    BY <1>7, <1>10 DEF Setup!SendFails, Setup!rows, Setup!node
  <2>2. CASE \E t \in Setup!Txs : Setup!Send(t, a, kind, spender, amount)
    <3>1. /\ loop' \in [Setup!Loops -> Loop]
          /\ loop'[l].step = "next" /\ loop'[l].at = a /\ loop'[l].page = loop[l].page
          /\ \A m \in Setup!Loops : m # l => loop'[m] = loop[m]
      BY <1>1, <1>7, <2>1, DoneLoop
    <3> QED
      BY <1>8, <2>1, <2>2, <3>1
  <2>3. CASE UNCHANGED <<tokens, gas, tx, allowed>>
    BY <1>1, <2>1, <2>3, DoneStep
  <2> QED
    BY <2>1, <2>2, <2>3
<1> QED
  BY <1>4, <1>9, <1>10

(* The statement a loop has for the airdrop at work.  The deployer's is for *)
(* one without a contract, so nothing was approved for it and the checker   *)
(* is not at it.                                                            *)
LEMMA RecordStep ==
    ASSUME SetupInv, NEW l \in Setup!Loops, AtWork(l), Setup!Done(l),
           NEW a \in Airdrop, loop[l].at = a, NEW new \in Setup!Rows,
           row' = [row EXCEPT ![a] = new],
           UNCHANGED <<tokens, gas, tx, allowed, view, count, toppedUp>>,
           l = "deployer" =>
              /\ row[a].dealer # "ok" /\ new.dealer # "none"
              /\ new.approve = row[a].approve /\ new.approveTx = row[a].approveTx
              /\ new.dealerTx \in Setup!Deployments(a)
              /\ new.dealer = "ok" => tx[new.dealerTx].state = "good"
              /\ new.dealer = "failed" => tx[new.dealerTx].state = "failed",
           l = "checker" =>
              /\ new.dealer = "ok" /\ new.dealerTx = row[a].dealerTx
              /\ new.approveTx # Setup!NoTx => new.approveTx \in Approvals(a)
              /\ new.approve \in {"sent", "failed"} => new.approveTx # Setup!NoTx
              /\ new.approve = "failed" => tx[new.approveTx].state = "failed"
              /\ new.approve = "ok" /\ a \notin toppedUp => Covered(a)
    PROVE  SetupInv'
<1>1. /\ SetupType
      /\ l = "deployer" \/ l = "checker"
      /\ "deployer" \in Setup!Loops /\ "checker" \in Setup!Loops /\ count["fault"] \in Nat
  BY SetupConstants DEF SetupInv, SetupType
<1>2. /\ row' \in [Airdrop -> Setup!Rows] /\ row'[a] = new
      /\ \A b \in Airdrop : b # a => row'[b] = row[b]
  BY <1>1, RowChanged
<1>3. /\ loop' \in [Setup!Loops -> Loop]
      /\ loop'[l].step = "next" /\ loop'[l].at = a /\ loop'[l].page = loop[l].page
      /\ \A m \in Setup!Loops : m # l => loop'[m] = loop[m]
  BY <1>1, DoneLoop
<1>4. SetupType'
  BY <1>1, <1>2, <1>3 DEF SetupType
<1>5. l = "checker" => row[a].dealer = "ok"
  BY CurrentRow
<1>6. \A b \in Airdrop : row[b].dealer = "ok" =>
         row'[b].dealer = "ok" /\ row'[b].dealerTx = row[b].dealerTx
  BY <1>1, <1>2
<1>7. \A m \in Setup!Loops : SeenInv(m)'
  <2> SUFFICES ASSUME NEW m \in Setup!Loops PROVE SeenInv(m)'
    OBVIOUS
  <2>1. SeenInv(m) /\ Ahead(m) \subseteq Airdrop /\ a \notin {0} /\ Airdrop \subseteq Nat
    <3>1. loop[m] \in Loop /\ SeenInv(m)
      BY <1>1 DEF SetupInv, SetupType
    <3>2. DOMAIN loop[m].page \subseteq Airdrop
      BY <3>1, LoopFields
    <3> QED
      BY <3>1, <3>2, SetupConstants DEF Ahead, Setup!Rest, SeenInv
  <2>2. CASE m = l
    <3>1. ~AtWork(m)'
      BY <1>3, <2>2 DEF AtWork
    <3>2. Ahead(m)' = {b \in DOMAIN loop[m].page : b < a}
      BY <1>3, <2>1, <2>2, <3>1 DEF Ahead, Setup!Rest
    <3>3. \A b \in Ahead(m)' : b \in Ahead(m) /\ b # a
      BY <2>1, <2>2, <3>2 DEF Ahead, Setup!Rest
    <3> QED
      BY <1>2, <1>3, <2>1, <2>2, <3>1, <3>3 DEF SeenInv
  <2>3. CASE m # l
    <3>1. loop'[m] = loop[m]
      BY <1>3, <2>3
    <3>2. Ahead(m)' = Ahead(m) /\ (AtWork(m)' <=> AtWork(m))
      BY <3>1 DEF Ahead, Setup!Rest, AtWork
    <3>3. CASE m = "checker"
      <4>1. \A b \in Ahead(m) : row'[b] = row[b]
        BY <1>1, <1>2, <2>1, <2>3, <3>3 DEF SeenInv
      <4> QED
        BY <2>1, <3>1, <3>2, <3>3, <4>1 DEF SeenInv
    <3>4. CASE m = "deployer"
      <4>1. \A b \in Ahead(m) : row'[b].dealer = row[b].dealer /\ row'[b].dealerTx = row[b].dealerTx
        BY <1>1, <1>2, <1>5, <2>1, <2>3, <3>4
      <4> QED
        BY <2>1, <3>1, <3>2, <3>4, <4>1 DEF SeenInv
    <3> QED
      BY <3>3, <3>4, SetupConstants
  <2> QED
    BY <2>2, <2>3
<1>8. \A b : Setup!Deployments(b)' = Setup!Deployments(b) /\ Approvals(b)' = Approvals(b)
  BY DEF Setup!Deployments, Approvals
<1>9. DeployInv'
  <2>1. \A t \in Setup!Txs : tx'[t].state = "none" => tx'[t].kind = "none"
    BY DEF SetupInv, DeployInv
  <2>2. ASSUME NEW b \in Airdrop
        PROVE  /\ Cardinality(Setup!Deployments(b))
                     <= count["fault"] + (IF row'[b].dealer # "none" \/ Deploys(b)' THEN 1 ELSE 0)
               /\ row'[b].dealer # "none" => row'[b].dealerTx \in Setup!Deployments(b)
               /\ row'[b].dealer = "ok" => tx[row'[b].dealerTx].state = "good"
               /\ row'[b].dealer = "failed" => tx[row'[b].dealerTx].state = "failed"
               /\ Deploys(b)' => row'[b].dealer = "none"
                                 /\ loop'["deployer"].tx \in Setup!Deployments(b)
    <3>1. /\ Cardinality(Setup!Deployments(b))
               <= count["fault"] + (IF row[b].dealer # "none" \/ Deploys(b) THEN 1 ELSE 0)
          /\ row[b].dealer # "none" => row[b].dealerTx \in Setup!Deployments(b)
          /\ row[b].dealer = "ok" => tx[row[b].dealerTx].state = "good"
          /\ row[b].dealer = "failed" => tx[row[b].dealerTx].state = "failed"
          /\ Deploys(b) => row[b].dealer = "none" /\ loop["deployer"].tx \in Setup!Deployments(b)
      BY SameSetupCount DEF SetupInv, DeployInv
    <3>2. Cardinality(Setup!Deployments(b)) \in Nat
      BY DeploymentsFinite
    <3>3. CASE l = "deployer" /\ b = a
      <4>1. ~Deploys(b)' /\ row'[b] = new /\ new.dealer # "none"
        BY <1>2, <1>3, <3>3 DEF Deploys
      <4>2. Cardinality(Setup!Deployments(b)) <= count["fault"] + 1
        BY <1>1, <3>1, <3>2
      <4> QED
        BY <3>3, <4>1, <4>2
    <3>4. CASE l = "deployer" /\ b # a
      <4>1. ~Deploys(b)' /\ ~Deploys(b) /\ row'[b] = row[b]
        BY <1>2, <1>3, <3>4 DEF Deploys
      <4> QED
        BY <3>1, <4>1
    <3>5. CASE l = "checker"
      <4>1. loop'["deployer"] = loop["deployer"] /\ (Deploys(b)' <=> Deploys(b))
        BY <1>1, <1>3, <3>5 DEF Deploys
      <4>2. row'[b].dealer = row[b].dealer /\ row'[b].dealerTx = row[b].dealerTx
        BY <1>2, <1>5, <3>5
      <4> QED
        BY <3>1, <4>1, <4>2
    <3> QED
      BY <1>1, <3>3, <3>4, <3>5
  <2>3. \A b \in Airdrop : Setup!Cardinality(Setup!Deployments(b))' = Cardinality(Setup!Deployments(b))
    BY <1>8, SameSetupCount DEF Setup!Cardinality, Cardinality
  <2> QED
    BY <1>8, <2>1, <2>2, <2>3 DEF DeployInv
<1>10. ApproveInv'
  <2>1. \A t \in Setup!Txs : tx[t].kind = "approve" =>
          /\ tx[t].of \in Airdrop /\ row'[tx[t].of].dealer = "ok"
          /\ tx[t].spender = row'[tx[t].of].dealerTx
    BY <1>6 DEF SetupInv, ApproveInv
  <2>2. \A t \in Setup!Txs : allowed[t] # 0 =>
           \E u \in Setup!Txs : tx[u].kind = "approve" /\ tx[u].spender = t
    BY DEF SetupInv, ApproveInv
  <2>3. ASSUME NEW b \in Airdrop
        PROVE  /\ row'[b].approveTx # Setup!NoTx => row'[b].approveTx \in Approvals(b)
               /\ row'[b].approve \in {"sent", "failed"} => row'[b].approveTx # Setup!NoTx
               /\ row'[b].approve # "none" => row'[b].dealer = "ok"
               /\ row'[b].approve = "failed" => tx[row'[b].approveTx].state = "failed"
    <3>1. /\ row[b].approveTx # Setup!NoTx => row[b].approveTx \in Approvals(b)
          /\ row[b].approve \in {"sent", "failed"} => row[b].approveTx # Setup!NoTx
          /\ row[b].approve # "none" => row[b].dealer = "ok"
          /\ row[b].approve = "failed" => tx[row[b].approveTx].state = "failed"
      BY DEF SetupInv, ApproveInv
    <3> QED
      BY <1>1, <1>2, <1>6, <3>1
  <2>4. loop'["checker"].step = "record" => loop'["checker"].tx \in Approvals(loop'["checker"].at)
    BY <1>1, <1>3 DEF SetupInv, ApproveInv
  <2>5. loop'["checker"].step = "record" => (loop["checker"].tx \in Approvals(loop["checker"].at))'
    BY <2>4 DEF Approvals
  <2> QED
    BY <1>8, <2>1, <2>2, <2>3, <2>5 DEF ApproveInv
<1>11. AllowInv'
  <2> SUFFICES ASSUME NEW b \in Airdrop \ toppedUp, row'[b].dealer = "ok"
               PROVE  /\ allowed[row'[b].dealerTx] = 0 \/ Covered(b)'
                      /\ row'[b].approve = "ok" => Covered(b)'
                      /\ \A u \in Approvals(b) : tx[u].amount >= tokens[b]
                                                 /\ (tx[u].state = "good" => Covered(b)')
                      /\ Checks(b, {"tokens", "act"})' /\ loop'["checker"].allowance > 0 => Covered(b)'
                      /\ Checks(b, {"act", "record"})' => loop'["checker"].tokens >= tokens[b]
    BY <1>8 DEF AllowInv
  <2>1. CASE row[b].dealer = "ok"
    <3>1. /\ allowed[row[b].dealerTx] = 0 \/ Covered(b)
          /\ row[b].approve = "ok" => Covered(b)
          /\ \A u \in Approvals(b) : tx[u].amount >= tokens[b] /\ (tx[u].state = "good" => Covered(b))
          /\ Checks(b, {"tokens", "act"}) /\ loop["checker"].allowance > 0 => Covered(b)
          /\ Checks(b, {"act", "record"}) => loop["checker"].tokens >= tokens[b]
      BY <2>1 DEF SetupInv, AllowInv
    <3>2. row'[b].dealerTx = row[b].dealerTx /\ (Covered(b)' <=> Covered(b))
      BY <1>6, <2>1 DEF Covered
    <3>3. row'[b].approve = "ok" => Covered(b)
      BY <1>1, <1>2, <2>1, <3>1
    <3>4. CASE l = "checker"
      BY <1>3, <3>1, <3>2, <3>3, <3>4 DEF Checks
    <3>5. CASE l = "deployer"
      <4>1. loop'["checker"] = loop["checker"]
        BY <1>1, <1>3, <3>5
      <4> QED
        BY <3>1, <3>2, <3>3, <4>1 DEF Checks
    <3> QED
      BY <1>1, <3>4, <3>5
  <2>2. CASE row[b].dealer # "ok"
    <3>1. b = a /\ l = "deployer" /\ row'[b] = new
      BY <1>1, <1>2, <1>5, <2>2
    <3> DEFINE d == new.dealerTx
    <3>2. d \in Setup!Deployments(a) /\ d \in Setup!Txs
      BY <3>1 DEF Setup!Deployments
    <3>3. Approvals(b) = {}
      BY <2>2 DEF SetupInv, ApproveInv, Approvals
    <3>4. allowed[d] = 0
      <4> SUFFICES ASSUME allowed[d] # 0 PROVE FALSE
        OBVIOUS
      <4>1. PICK u \in Setup!Txs : tx[u].kind = "approve" /\ tx[u].spender = d
        BY <3>2 DEF SetupInv, ApproveInv
      <4>2. /\ tx[u].of \in Airdrop /\ row[tx[u].of].dealer = "ok"
            /\ d = row[tx[u].of].dealerTx
        BY <4>1 DEF SetupInv, ApproveInv
      <4>3. d \in Setup!Deployments(tx[u].of)
        BY <4>2 DEF SetupInv, DeployInv
      <4> QED
        BY <2>2, <3>1, <3>2, <4>2, <4>3 DEF Setup!Deployments
    <3>5. row'[b].approve # "ok"
      BY <2>2, <3>1 DEF SetupInv, ApproveInv
    <3>6. ~Checks(b, {"tokens", "act", "record"})'
      <4>1. loop'["checker"] = loop["checker"]
        BY <1>1, <1>3, <3>1
      <4>2. AtWork("checker") => row[loop["checker"].at].dealer = "ok"
        BY <1>1 DEF SetupInv, SeenInv, Ahead
      <4> QED
        BY <2>2, <4>1, <4>2 DEF Checks, AtWork
    <3> QED
      BY <3>1, <3>3, <3>4, <3>5, <3>6 DEF Checks
  <2> QED
    BY <2>1, <2>2
<1> QED
  BY <1>4, <1>7, <1>9, <1>10, <1>11 DEF SetupInv

LEMMA Updated ==
    ASSUME SetupInv, NEW l \in Setup!Loops, AtWork(l), NEW a \in Airdrop, loop[l].at = a,
           NEW new \in Setup!Rows, Setup!Update(l, new),
           l = "deployer" =>
              /\ row[a].dealer # "ok" /\ new.dealer # "none"
              /\ new.approve = row[a].approve /\ new.approveTx = row[a].approveTx
              /\ new.dealerTx \in Setup!Deployments(a)
              /\ new.dealer = "ok" => tx[new.dealerTx].state = "good"
              /\ new.dealer = "failed" => tx[new.dealerTx].state = "failed",
           l = "checker" =>
              /\ new.dealer = "ok" /\ new.dealerTx = row[a].dealerTx
              /\ new.approveTx # Setup!NoTx => new.approveTx \in Approvals(a)
              /\ new.approve \in {"sent", "failed"} => new.approveTx # Setup!NoTx
              /\ new.approve = "failed" => tx[new.approveTx].state = "failed"
              /\ new.approve = "ok" /\ a \notin toppedUp => Covered(a)
    PROVE  SetupInv'
<1>1. Setup!Done(l) /\ UNCHANGED <<tokens, gas, tx, allowed, view, toppedUp>>
  BY DEF Setup!Update, Setup!node
<1>2. CASE row' = [row EXCEPT ![a] = new] /\ UNCHANGED count
  BY <1>1, <1>2, RecordStep
<1>3. CASE UNCHANGED row /\ Setup!Counting("fault")
  BY <1>1, <1>3, DoneStep
<1> QED
  BY <1>2, <1>3 DEF Setup!Update

(* The deployer records the transaction it sent, or how it ended.          *)
LEMMA DeployUpdates ==
    ASSUME SetupInv, Setup!DeployRecord \/ Setup!DeployReceipt PROVE SetupInv'
<1> DEFINE l == "deployer"  a == loop[l].at
<1>1. l \in Setup!Loops /\ AtWork(l) /\ SetupType /\ loop[l] \in Loop
  BY SetupConstants DEF SetupInv, SetupType, AtWork, Setup!DeployRecord, Setup!DeployReceipt,
     Setup!Deploying
<1>2. /\ a \in Airdrop /\ row[a] \in Setup!Rows
      /\ Setup!Current(l).row.dealer = row[a].dealer
      /\ Setup!Current(l).row.dealerTx = row[a].dealerTx
  BY <1>1, CurrentRow
<1>3. CASE Setup!DeployRecord
  <2> DEFINE new == [row[a] EXCEPT !.dealer = "sent", !.dealerTx = loop[l].tx]
  <2>1. row[a].dealer = "none" /\ loop[l].tx \in Setup!Deployments(a) /\ loop[l].tx \in Setup!Txs
    <3>1. Deploys(a)
      BY <1>3 DEF Setup!DeployRecord, Deploys
    <3> QED
      BY <1>2, <3>1 DEF SetupInv, DeployInv, Setup!Deployments
  <2>2. /\ new \in Setup!Rows /\ new.dealer = "sent" /\ new.dealerTx = loop[l].tx
        /\ new.approve = row[a].approve /\ new.approveTx = row[a].approveTx
    BY <1>2, <2>1 DEF Setup!Rows
  <2>3. Setup!Update(l, new)
    BY <1>3 DEF Setup!DeployRecord
  <2> HIDE DEF new
  <2> QED
    BY <1>1, <1>2, <2>1, <2>2, <2>3, Updated
<1>4. CASE Setup!DeployReceipt
  <2> DEFINE d == row[a].dealerTx
             new == [row[a] EXCEPT !.dealer = IF tx[d].state = "good" THEN "ok" ELSE "failed"]
  <2>1. /\ row[a].dealer = "sent" /\ Setup!Deployment = tx[d] /\ tx[d].state \in {"good", "failed"}
        /\ Setup!Update(l, new)
    BY <1>2, <1>4 DEF Setup!DeployReceipt, Setup!Deployment
  <2>2. d \in Setup!Deployments(a)
    BY <1>2, <2>1 DEF SetupInv, DeployInv
  <2>3. /\ new \in Setup!Rows /\ new.dealerTx = d
        /\ new.approve = row[a].approve /\ new.approveTx = row[a].approveTx
        /\ new.dealer = IF tx[d].state = "good" THEN "ok" ELSE "failed"
    BY <1>2 DEF Setup!Rows
  <2> HIDE DEF new
  <2> QED
    BY <1>1, <1>2, <2>1, <2>2, <2>3, Updated
<1> QED
  BY <1>3, <1>4

(* The checker records its approval, how it ended, or that none is needed: *)
(* what may be spent is then as much as there is.                          *)
LEMMA ApproveUpdates ==
    ASSUME SetupInv, Setup!ApproveEnough \/ Setup!ApproveReceipt \/ Setup!ApproveRecord
    PROVE  SetupInv'
<1> DEFINE l == "checker"  a == loop[l].at  p == row[a].approveTx
           verdict == IF Setup!ApproveEnough THEN "ok"
                      ELSE IF Setup!ApproveRecord THEN "sent"
                      ELSE IF tx[p].state = "good" THEN "ok" ELSE "failed"
           at == IF Setup!ApproveRecord THEN loop[l].tx ELSE p
           new == [row[a] EXCEPT !.approve = verdict, !.due = FALSE, !.approveTx = at]
<1>1. l \in Setup!Loops /\ AtWork(l) /\ SetupType /\ loop[l] \in Loop
  BY SetupConstants DEF SetupInv, SetupType, AtWork, Setup!ApproveEnough, Setup!ApproveReceipt,
     Setup!ApproveRecord, Setup!Approving
<1>2. /\ a \in Airdrop /\ row[a] \in Setup!Rows /\ row[a].dealer = "ok"
      /\ Setup!Current(l).row.approve = row[a].approve
      /\ Setup!Current(l).row.approveTx = p
  BY <1>1, CurrentRow
<1>3. p \in Setup!Txs \union {Setup!NoTx} /\ loop[l].tx \in Setup!Txs \union {Setup!NoTx}
  BY <1>1, <1>2, LoopFields, SetupConstants DEF Setup!Rows
<1>4. /\ Setup!ApproveEnough => /\ loop[l].step = "act" /\ ~Setup!Short
                                /\ Setup!Update(l, Setup!Verdict(l, "ok"))
      /\ Setup!ApproveRecord => /\ loop[l].step = "record"
                                /\ Setup!Update(l, [Setup!Verdict(l, "sent") EXCEPT !.approveTx = loop[l].tx])
      /\ Setup!ApproveReceipt =>
            /\ row[a].approve = "sent" /\ tx[p].state \in {"good", "failed"}
            /\ Setup!Update(l, Setup!Verdict(l, IF tx[p].state = "good" THEN "ok" ELSE "failed"))
  BY <1>2 DEF Setup!ApproveEnough, Setup!ApproveRecord, Setup!ApproveReceipt, Setup!Approval
<1>5. /\ verdict \in {"sent", "ok", "failed"} /\ at \in Setup!Txs \union {Setup!NoTx}
      /\ new \in Setup!Rows /\ new.dealer = "ok" /\ new.dealerTx = row[a].dealerTx
      /\ new.approve = verdict /\ new.approveTx = at
  <2>1. verdict \in {"sent", "ok", "failed"} /\ at \in Setup!Txs \union {Setup!NoTx}
    BY <1>3
  <2> HIDE DEF verdict, at
  <2> QED
    BY <1>2, <2>1 DEF Setup!Rows
<1>6. Setup!Update(l, new)
  <2> DEFINE same(v) == [row[a] EXCEPT !.approve = v, !.due = FALSE]
  <2>1. \A v : Setup!Verdict(l, v) = same(v)
    BY DEF Setup!Verdict
  <2>2. \A v : same(v) = [row[a] EXCEPT !.approve = v, !.due = FALSE, !.approveTx = p]
    BY <1>2 DEF Setup!Rows
  <2>3. \A v : [same(v) EXCEPT !.approveTx = loop[l].tx]
               = [row[a] EXCEPT !.approve = v, !.due = FALSE, !.approveTx = loop[l].tx]
    BY <1>2 DEF Setup!Rows
  <2>4. CASE Setup!ApproveEnough
    <3>1. loop[l].step = "act" /\ ~Setup!ApproveRecord
      BY <1>4, <2>4 DEF Setup!ApproveRecord
    <3>2. new = same("ok")
      BY <2>2, <2>4, <3>1
    <3> QED
      BY <1>4, <2>1, <2>4, <3>2
  <2>5. CASE Setup!ApproveRecord
    <3>1. ~Setup!ApproveEnough
      BY <1>4, <2>5
    <3>2. new = [same("sent") EXCEPT !.approveTx = loop[l].tx]
      BY <2>3, <2>5, <3>1
    <3> QED
      BY <1>4, <2>1, <2>5, <3>2
  <2>6. CASE ~Setup!ApproveEnough /\ ~Setup!ApproveRecord
    <3>1. new = same(IF tx[p].state = "good" THEN "ok" ELSE "failed")
      BY <2>2, <2>6
    <3> QED
      BY <1>4, <2>1, <2>6, <3>1
  <2> QED
    BY <2>4, <2>5, <2>6
<1>7. at # Setup!NoTx => at \in Approvals(a)
  BY <1>2, <1>4 DEF SetupInv, ApproveInv
<1>8. verdict \in {"sent", "failed"} => at # Setup!NoTx
  <2>1. Setup!ApproveRecord => loop[l].tx \in Approvals(a)
    BY <1>4 DEF SetupInv, ApproveInv
  <2>2. \A t \in Approvals(a) : t # Setup!NoTx
    BY SetupConstants DEF Approvals
  <2>3. Setup!ApproveReceipt => p # Setup!NoTx
    BY <1>2, <1>4 DEF SetupInv, ApproveInv
  <2> QED
    BY <2>1, <2>2, <2>3
<1>9. verdict = "failed" => tx[at].state = "failed"
  BY <1>4
<1>10. verdict = "ok" /\ a \notin toppedUp => Covered(a)
  <2> SUFFICES ASSUME verdict = "ok", a \notin toppedUp PROVE Covered(a)
    OBVIOUS
  <2>1. /\ allowed[row[a].dealerTx] = 0 \/ Covered(a)
        /\ \A u \in Approvals(a) : tx[u].state = "good" => Covered(a)
        /\ Checks(a, {"tokens", "act"}) /\ loop[l].allowance > 0 => Covered(a)
        /\ Checks(a, {"act", "record"}) => loop[l].tokens >= tokens[a]
    BY <1>2 DEF SetupInv, AllowInv
  <2>2. CASE Setup!ApproveEnough
    <3>1. /\ loop[l].step = "act" /\ loop[l].allowance \in Nat /\ loop[l].tokens \in Nat
          /\ ~(loop[l].allowance < loop[l].tokens)
      BY <1>1, <1>4, <2>2, LoopFields DEF Setup!Short
    <3>2. CASE loop[l].allowance > 0
      BY <2>1, <3>1, <3>2 DEF Checks
    <3>3. CASE loop[l].allowance = 0
      <4>0. /\ tokens \in [Airdrop -> 0..MaxTokens] /\ allowed \in [Setup!Txs -> 0..MaxTokens]
            /\ 0..MaxTokens \subseteq Nat
        BY <1>1, SetupConstants DEF SetupType
      <4>1. loop[l].tokens = 0 /\ loop[l].tokens >= tokens[a] /\ tokens[a] \in Nat
        <5>1. Checks(a, {"act", "record"})
          BY <3>1 DEF Checks
        <5> QED
          BY <1>2, <2>1, <3>1, <3>3, <4>0, <5>1
      <4>2. allowed[row[a].dealerTx] \in Nat
        <5>1. row[a].dealerTx \in Setup!Txs
          BY <1>2 DEF SetupInv, DeployInv, Setup!Deployments
        <5> QED
          BY <4>0, <5>1
      <4>3. tokens[a] = 0
        BY <4>1
      <4> QED
        BY <4>2, <4>3 DEF Covered
    <3> QED
      BY <3>1, <3>2, <3>3
  <2>3. CASE ~Setup!ApproveEnough
    <3>1. tx[p].state = "good" /\ Setup!ApproveReceipt
      BY <2>3
    <3>2. p \in Approvals(a)
      BY <1>2, <1>4, <3>1 DEF SetupInv, ApproveInv
    <3> QED
      BY <2>1, <3>1, <3>2
  <2> QED
    BY <2>2, <2>3
<1> HIDE DEF new, verdict, at
<1> QED
  BY <1>1, <1>2, <1>5, <1>6, <1>7, <1>8, <1>9, <1>10, Updated

(* The contracts of two airdrops are two.                                  *)
LEMMA OwnContract ==
    ASSUME SetupInv, NEW a \in Airdrop, NEW b \in Airdrop,
           row[a].dealer = "ok", row[b].dealer = "ok", row[a].dealerTx = row[b].dealerTx
    PROVE  a = b
<1>1. row[a].dealerTx \in Setup!Deployments(a) /\ row[b].dealerTx \in Setup!Deployments(b)
  BY DEF SetupInv, DeployInv
<1> QED
  BY <1>1 DEF Setup!Deployments

(* Tokens leave a wallet, or come to one that is known to have been filled *)
(* up.                                                                     *)
LEMMA TokensMove ==
    ASSUME SetupInv, SetupType', UNCHANGED <<row, tx, loop>>, toppedUp \subseteq toppedUp',
           count'["fault"] = count["fault"],
           \A v \in Setup!Txs : allowed'[v] # 0 => allowed[v] # 0,
           \A b \in Airdrop \ toppedUp' : row[b].dealer = "ok" =>
              tokens'[b] <= tokens[b] /\ (Covered(b) => Covered(b)')
    PROVE  SetupInv'
<1>1. \A m \in Setup!Loops : SeenInv(m)'
  <2>1. \A m \in Setup!Loops : SeenInv(m)
    BY DEF SetupInv
  <2> QED
    BY <2>1 DEF SeenInv, Ahead, Setup!Rest, AtWork
<1>2. \A b : Setup!Deployments(b)' = Setup!Deployments(b) /\ Approvals(b)' = Approvals(b)
  BY DEF Setup!Deployments, Approvals
<1>3. DeployInv'
  <2>1. DeployInv
    BY DEF SetupInv
  <2>2. \A b \in Airdrop : /\ Setup!Cardinality(Setup!Deployments(b))' = Setup!Cardinality(Setup!Deployments(b))
                           /\ Deploys(b)' <=> Deploys(b)
    BY <1>2, SameSetupCount DEF Setup!Cardinality, Deploys
  <2> QED
    BY <1>2, <2>1, <2>2 DEF DeployInv
<1>4. ApproveInv'
  BY <1>2 DEF SetupInv, ApproveInv
<1>5. AllowInv'
  <2> SUFFICES ASSUME NEW b \in Airdrop \ toppedUp', row[b].dealer = "ok"
               PROVE  /\ allowed'[row[b].dealerTx] = 0 \/ Covered(b)'
                      /\ row[b].approve = "ok" => Covered(b)'
                      /\ \A u \in Approvals(b) : tx[u].amount >= tokens'[b]
                                                 /\ (tx[u].state = "good" => Covered(b)')
                      /\ Checks(b, {"tokens", "act"}) /\ loop["checker"].allowance > 0 => Covered(b)'
                      /\ Checks(b, {"act", "record"}) => loop["checker"].tokens >= tokens'[b]
    BY <1>2 DEF AllowInv, Checks
  <2>1. /\ allowed[row[b].dealerTx] = 0 \/ Covered(b)
        /\ row[b].approve = "ok" => Covered(b)
        /\ \A u \in Approvals(b) : tx[u].amount >= tokens[b] /\ (tx[u].state = "good" => Covered(b))
        /\ Checks(b, {"tokens", "act"}) /\ loop["checker"].allowance > 0 => Covered(b)
        /\ Checks(b, {"act", "record"}) => loop["checker"].tokens >= tokens[b]
    BY DEF SetupInv, AllowInv
  <2>2. row[b].dealerTx \in Setup!Txs
    BY DEF SetupInv, DeployInv, Setup!Deployments
  <2>3. tokens'[b] <= tokens[b] /\ (Covered(b) => Covered(b)')
    OBVIOUS
  <2>4. /\ tokens[b] \in Nat /\ tokens'[b] \in Nat /\ loop["checker"].tokens \in Nat
        /\ \A u \in Setup!Txs : tx[u].amount \in Nat
    <3>1. /\ tokens \in [Airdrop -> 0..MaxTokens] /\ tokens' \in [Airdrop -> 0..MaxTokens]
          /\ 0..MaxTokens \subseteq Nat
      BY SetupConstants DEF SetupInv, SetupType
    <3>2. loop["checker"] \in Loop
      BY SetupConstants DEF SetupInv, SetupType
    <3>3. \A u \in Setup!Txs : tx[u].amount \in 0..MaxTokens
      BY DEF SetupInv, SetupType, Setup!Tx
    <3> QED
      BY <3>1, <3>2, <3>3, LoopFields
  <2>5. \A u \in Approvals(b) : u \in Setup!Txs
    BY DEF Approvals
  <2> QED
    BY <2>1, <2>2, <2>3, <2>4, <2>5
<1> QED
  BY <1>1, <1>3, <1>4, <1>5 DEF SetupInv

(* A payment takes from both, what a contract may spend and what there is. *)
LEMMA OwnerStep ==
    ASSUME SetupInv, NEW a \in Airdrop,
           Setup!TopUp(a) \/ Setup!Withdraw(a) \/ Setup!Pay(a) \/ \E g \in Setup!Gas : Setup!ChangeGas(a, g)
    PROVE  SetupInv'
<1>1. /\ SetupType /\ UNCHANGED <<row, tx, loop, view>> /\ Setup!Counting("event")
      /\ tokens \in [Airdrop -> 0..MaxTokens] /\ allowed \in [Setup!Txs -> 0..MaxTokens]
      /\ count \in [{"fault", "revert", "evict", "event"} -> Nat]
  BY DEF SetupInv, SetupType, Setup!TopUp, Setup!Withdraw, Setup!Pay, Setup!ChangeGas, Setup!rows
<1>2. count' \in [{"fault", "revert", "evict", "event"} -> Nat] /\ count'["fault"] = count["fault"]
  BY <1>1 DEF Setup!Counting
<1>3. 0..MaxTokens \subseteq Nat /\ MaxTokens \in Nat /\ tokens[a] \in 0..MaxTokens
  BY <1>1, SetupConstants
<1>4. CASE Setup!TopUp(a)
  <2>1. /\ tokens[a] < MaxTokens /\ tokens' = [tokens EXCEPT ![a] = @ + 1]
        /\ toppedUp' = IF row[a].dealer = "ok" THEN toppedUp \union {a} ELSE toppedUp
        /\ UNCHANGED <<gas, allowed>>
    BY <1>4 DEF Setup!TopUp
  <2>2. tokens' \in [Airdrop -> 0..MaxTokens] /\ \A b \in Airdrop : b # a => tokens'[b] = tokens[b]
    BY <1>1, <1>3, <2>1
  <2>3. SetupType'
    BY <1>1, <1>2, <2>1, <2>2 DEF SetupType
  <2>4. \A b \in Airdrop \ toppedUp' : row[b].dealer = "ok" => b # a
    BY <2>1
  <2>5. \A b \in Airdrop \ toppedUp' : row[b].dealer = "ok" =>
           tokens'[b] <= tokens[b] /\ (Covered(b) => Covered(b)')
    BY <1>1, <1>3, <2>1, <2>2, <2>4 DEF Covered
  <2> QED
    BY <1>1, <1>2, <2>1, <2>3, <2>5, TokensMove
<1>5. CASE Setup!Withdraw(a)
  <2>1. /\ tokens[a] > 0 /\ tokens' = [tokens EXCEPT ![a] = @ - 1]
        /\ UNCHANGED <<gas, allowed, toppedUp>>
    BY <1>5 DEF Setup!Withdraw
  <2>2. tokens' \in [Airdrop -> 0..MaxTokens] /\ \A b \in Airdrop : tokens'[b] <= tokens[b]
    BY <1>1, <1>3, <2>1
  <2>3. SetupType'
    BY <1>1, <1>2, <2>1, <2>2 DEF SetupType
  <2>4. ASSUME NEW b \in Airdrop, row[b].dealer = "ok", Covered(b) PROVE Covered(b)'
    <3>1. row[b].dealerTx \in Setup!Txs
      BY <2>4 DEF SetupInv, DeployInv, Setup!Deployments
    <3>2. allowed[row[b].dealerTx] \in Nat /\ tokens[b] \in Nat /\ tokens'[b] \in Nat
      BY <1>1, <1>3, <2>2, <3>1
    <3> QED
      BY <1>1, <2>1, <2>2, <2>4, <3>2 DEF Covered
  <2> QED
    BY <1>1, <1>2, <2>1, <2>2, <2>3, <2>4, TokensMove
<1>6. CASE Setup!Pay(a)
  <2> DEFINE c == row[a].dealerTx
  <2>1. /\ row[a].dealer = "ok" /\ tokens[a] > 0 /\ allowed[c] > 0
        /\ tokens' = [tokens EXCEPT ![a] = @ - 1] /\ allowed' = [allowed EXCEPT ![c] = @ - 1]
        /\ UNCHANGED <<gas, toppedUp>>
    BY <1>6 DEF Setup!Pay
  <2>2. c \in Setup!Txs
    BY <2>1 DEF SetupInv, DeployInv, Setup!Deployments
  <2>3. /\ tokens' \in [Airdrop -> 0..MaxTokens] /\ \A b \in Airdrop : tokens'[b] <= tokens[b]
        /\ tokens'[a] = tokens[a] - 1
    BY <1>1, <1>3, <2>1
  <2>4. /\ allowed' \in [Setup!Txs -> 0..MaxTokens] /\ allowed'[c] = allowed[c] - 1
        /\ \A v \in Setup!Txs : v # c => allowed'[v] = allowed[v]
    BY <1>1, <1>3, <2>1, <2>2
  <2>5. SetupType'
    BY <1>1, <1>2, <2>1, <2>3, <2>4 DEF SetupType
  <2>6. ASSUME NEW b \in Airdrop, row[b].dealer = "ok", Covered(b) PROVE Covered(b)'
    <3>1. row[b].dealerTx \in Setup!Txs
      BY <2>6 DEF SetupInv, DeployInv, Setup!Deployments
    <3>2. allowed[row[b].dealerTx] \in Nat /\ tokens[b] \in Nat /\ tokens'[b] \in Nat
      BY <1>1, <1>3, <2>3, <3>1
    <3>3. CASE b = a
      BY <1>1, <2>3, <2>4, <2>6, <3>2, <3>3 DEF Covered
    <3>4. CASE b # a
      <4>1. row[b].dealerTx # c /\ tokens'[b] = tokens[b]
        BY <1>1, <2>1, <2>6, <3>4, OwnContract
      <4> QED
        BY <1>1, <2>4, <2>6, <3>1, <4>1 DEF Covered
    <3> QED
      BY <3>3, <3>4
  <2>7. \A v \in Setup!Txs : allowed'[v] # 0 => allowed[v] # 0
    BY <1>3, <2>1, <2>4
  <2> QED
    BY <1>1, <1>2, <2>1, <2>3, <2>5, <2>6, <2>7, TokensMove
<1>7. CASE \E g \in Setup!Gas : Setup!ChangeGas(a, g)
  <2>1. PICK g \in Setup!Gas : Setup!ChangeGas(a, g)
    BY <1>7
  <2>2. gas' = [gas EXCEPT ![a] = g] /\ UNCHANGED <<tokens, allowed, toppedUp>>
    BY <2>1 DEF Setup!ChangeGas
  <2>3. SetupType'
    BY <1>1, <1>2, <2>2 DEF SetupType
  <2>4. ColumnsStay /\ count'["fault"] >= count["fault"]
    BY <1>1, <1>2 DEF ColumnsStay
  <2> QED
    BY <1>1, <2>2, <2>3, <2>4, LoopsStay
<1> QED
  BY <1>4, <1>5, <1>6, <1>7

(* A transaction ends: it is mined or forgotten.                           *)
LEMMA TxEnds ==
    ASSUME SetupInv, NEW t \in Setup!Txs, tx[t].state = "pending",
           NEW s \in {"good", "failed", "gone"}, tx' = [tx EXCEPT ![t].state = s],
           allowed' = IF s = "good" /\ tx[t].kind = "approve"
                      THEN [allowed EXCEPT ![tx[t].spender] = tx[t].amount] ELSE allowed,
           UNCHANGED <<row, tokens, gas, loop, view, toppedUp>>,
           count' \in [{"fault", "revert", "evict", "event"} -> Nat],
           count'["fault"] >= count["fault"]
    PROVE  SetupInv'
<1>1. /\ SetupType /\ tx \in [Setup!Txs -> Setup!Tx] /\ tx[t] \in Setup!Tx
      /\ allowed \in [Setup!Txs -> 0..MaxTokens] /\ count["fault"] \in Nat
      /\ tokens \in [Airdrop -> 0..MaxTokens] /\ 0..MaxTokens \subseteq Nat
  BY SetupConstants DEF SetupInv, SetupType
<1> DEFINE new == [tx[t] EXCEPT !.state = s]
<1>2. /\ new \in Setup!Tx /\ new.state = s /\ new.kind = tx[t].kind /\ new.of = tx[t].of
      /\ new.spender = tx[t].spender /\ new.amount = tx[t].amount
  BY <1>1 DEF Setup!Tx
<1>3. tx' = [tx EXCEPT ![t] = new]
  BY <1>1
<1> HIDE DEF new
<1>4. /\ tx' \in [Setup!Txs -> Setup!Tx] /\ tx'[t] = new
      /\ \A u \in Setup!Txs : u # t => tx'[u] = tx[u]
  BY <1>1, <1>2, <1>3
<1>5. \A u \in Setup!Txs : /\ tx'[u].kind = tx[u].kind /\ tx'[u].of = tx[u].of
                           /\ tx'[u].spender = tx[u].spender /\ tx'[u].amount = tx[u].amount
  BY <1>2, <1>4
<1>6. tx[t].kind = "approve" =>
         /\ tx[t].of \in Airdrop /\ row[tx[t].of].dealer = "ok"
         /\ tx[t].spender = row[tx[t].of].dealerTx /\ tx[t].spender \in Setup!Txs
  BY DEF SetupInv, ApproveInv, DeployInv, Setup!Deployments
<1>7. tx[t].amount \in 0..MaxTokens
  BY <1>1 DEF Setup!Tx
<1>8. allowed' \in [Setup!Txs -> 0..MaxTokens]
  BY <1>1, <1>6, <1>7
<1>9. SetupType'
  BY <1>1, <1>4, <1>8 DEF SetupType
<1>10. \A m \in Setup!Loops : SeenInv(m)'
  <2>1. \A m \in Setup!Loops : SeenInv(m)
    BY DEF SetupInv
  <2> QED
    BY <2>1 DEF SeenInv, Ahead, Setup!Rest, AtWork
<1>11. \A b : Setup!Deployments(b)' = Setup!Deployments(b) /\ Approvals(b)' = Approvals(b)
  BY <1>5 DEF Setup!Deployments, Approvals
<1>12. \A u \in Setup!Txs : tx[u].state # "pending" => tx'[u] = tx[u]
  BY <1>4
<1>13. DeployInv'
  <2>1. \A u \in Setup!Txs : tx'[u].state = "none" => tx'[u].kind = "none"
    BY <1>2, <1>4 DEF SetupInv, DeployInv
  <2>2. ASSUME NEW b \in Airdrop
        PROVE  /\ Cardinality(Setup!Deployments(b))
                     <= count'["fault"] + (IF row[b].dealer # "none" \/ Deploys(b) THEN 1 ELSE 0)
               /\ row[b].dealer # "none" => row[b].dealerTx \in Setup!Deployments(b)
               /\ row[b].dealer = "ok" => tx'[row[b].dealerTx].state = "good"
               /\ row[b].dealer = "failed" => tx'[row[b].dealerTx].state = "failed"
               /\ Deploys(b) => row[b].dealer = "none"
                                /\ loop["deployer"].tx \in Setup!Deployments(b)
    <3>1. /\ Cardinality(Setup!Deployments(b))
               <= count["fault"] + (IF row[b].dealer # "none" \/ Deploys(b) THEN 1 ELSE 0)
          /\ row[b].dealer # "none" => row[b].dealerTx \in Setup!Deployments(b)
          /\ row[b].dealer = "ok" => tx[row[b].dealerTx].state = "good"
          /\ row[b].dealer = "failed" => tx[row[b].dealerTx].state = "failed"
          /\ Deploys(b) => row[b].dealer = "none" /\ loop["deployer"].tx \in Setup!Deployments(b)
      BY SameSetupCount DEF SetupInv, DeployInv
    <3>2. Cardinality(Setup!Deployments(b)) \in Nat
      BY DeploymentsFinite
    <3>3. Setup!Deployments(b) \subseteq Setup!Txs
      BY DeploymentsFinite
    <3>4. Cardinality(Setup!Deployments(b))
               <= count'["fault"] + (IF row[b].dealer # "none" \/ Deploys(b) THEN 1 ELSE 0)
      BY <1>1, <3>1, <3>2
    <3> QED
      BY <1>12, <3>1, <3>3, <3>4
  <2>3. \A b \in Airdrop : /\ Setup!Cardinality(Setup!Deployments(b))' = Cardinality(Setup!Deployments(b))
                           /\ Deploys(b)' <=> Deploys(b)
    BY <1>11, SameSetupCount DEF Setup!Cardinality, Cardinality, Deploys
  <2> QED
    BY <1>11, <2>1, <2>2, <2>3 DEF DeployInv
<1>14. ApproveInv'
  <2>1. \A u \in Setup!Txs : tx'[u].kind = "approve" =>
          /\ tx'[u].of \in Airdrop /\ row[tx'[u].of].dealer = "ok"
          /\ tx'[u].spender = row[tx'[u].of].dealerTx
    BY <1>5 DEF SetupInv, ApproveInv
  <2>2. ASSUME NEW v \in Setup!Txs, allowed'[v] # 0
        PROVE  \E u \in Setup!Txs : tx'[u].kind = "approve" /\ tx'[u].spender = v
    <3>1. CASE tx[t].kind = "approve" /\ tx[t].spender = v
      BY <1>5, <3>1
    <3>2. CASE ~(tx[t].kind = "approve" /\ tx[t].spender = v)
      <4>1. allowed[v] # 0
        BY <1>1, <1>6, <2>2, <3>2
      <4>2. PICK u \in Setup!Txs : tx[u].kind = "approve" /\ tx[u].spender = v
        BY <4>1 DEF SetupInv, ApproveInv
      <4> QED
        BY <1>5, <4>2
    <3> QED
      BY <3>1, <3>2
  <2>3. ASSUME NEW b \in Airdrop
        PROVE  /\ row[b].approveTx # Setup!NoTx => row[b].approveTx \in Approvals(b)
               /\ row[b].approve \in {"sent", "failed"} => row[b].approveTx # Setup!NoTx
               /\ row[b].approve # "none" => row[b].dealer = "ok"
               /\ row[b].approve = "failed" => tx'[row[b].approveTx].state = "failed"
    <3>1. /\ row[b].approveTx # Setup!NoTx => row[b].approveTx \in Approvals(b)
          /\ row[b].approve \in {"sent", "failed"} => row[b].approveTx # Setup!NoTx
          /\ row[b].approve # "none" => row[b].dealer = "ok"
          /\ row[b].approve = "failed" => tx[row[b].approveTx].state = "failed"
      BY DEF SetupInv, ApproveInv
    <3>2. \A u \in Approvals(b) : u \in Setup!Txs
      BY DEF Approvals
    <3> QED
      BY <1>12, <3>1, <3>2
  <2>4. loop["checker"].step = "record" => loop["checker"].tx \in Approvals(loop["checker"].at)
    BY DEF SetupInv, ApproveInv
  <2>5. loop'["checker"].step = "record" => (loop["checker"].tx \in Approvals(loop["checker"].at))'
    BY <1>5, <2>4 DEF Approvals
  <2> QED
    BY <1>11, <2>1, <2>2, <2>3, <2>5 DEF ApproveInv
<1>15. AllowInv'
  <2> SUFFICES ASSUME NEW b \in Airdrop \ toppedUp, row[b].dealer = "ok"
               PROVE  /\ allowed'[row[b].dealerTx] = 0 \/ Covered(b)'
                      /\ row[b].approve = "ok" => Covered(b)'
                      /\ \A u \in Approvals(b) : tx'[u].amount >= tokens[b]
                                                 /\ (tx'[u].state = "good" => Covered(b)')
                      /\ Checks(b, {"tokens", "act"}) /\ loop["checker"].allowance > 0 => Covered(b)'
                      /\ Checks(b, {"act", "record"}) => loop["checker"].tokens >= tokens[b]
    BY <1>11 DEF AllowInv, Checks
  <2>1. /\ allowed[row[b].dealerTx] = 0 \/ Covered(b)
        /\ row[b].approve = "ok" => Covered(b)
        /\ \A u \in Approvals(b) : tx[u].amount >= tokens[b] /\ (tx[u].state = "good" => Covered(b))
        /\ Checks(b, {"tokens", "act"}) /\ loop["checker"].allowance > 0 => Covered(b)
        /\ Checks(b, {"act", "record"}) => loop["checker"].tokens >= tokens[b]
    BY DEF SetupInv, AllowInv
  <2>2. \A u \in Approvals(b) : u \in Setup!Txs /\ tx[u].kind = "approve" /\ tx[u].of = b
    BY DEF Approvals
  <2>3. row[b].dealerTx \in Setup!Txs
    BY DEF SetupInv, DeployInv, Setup!Deployments
  <2>4. CASE s = "good" /\ tx[t].kind = "approve" /\ tx[t].of = b
    <3>1. t \in Approvals(b) /\ allowed'[row[b].dealerTx] = tx[t].amount
      BY <1>1, <1>6, <2>3, <2>4 DEF Approvals
    <3>2. Covered(b)'
      BY <2>1, <3>1 DEF Covered
    <3> QED
      BY <1>5, <2>1, <2>2, <3>2
  <2>5. CASE ~(s = "good" /\ tx[t].kind = "approve" /\ tx[t].of = b)
    <3>1. allowed'[row[b].dealerTx] = allowed[row[b].dealerTx]
      <4>1. CASE s = "good" /\ tx[t].kind = "approve"
        <5>1. tx[t].spender # row[b].dealerTx
          BY <1>6, <2>5, <4>1, OwnContract
        <5> QED
          BY <1>1, <2>3, <4>1, <5>1
      <4>2. CASE ~(s = "good" /\ tx[t].kind = "approve")
        BY <4>2
      <4> QED
        BY <4>1, <4>2
    <3>2. Covered(b)' <=> Covered(b)
      BY <3>1 DEF Covered
    <3>3. \A u \in Approvals(b) : tx'[u].state = "good" => tx[u].state = "good"
      BY <1>2, <1>4, <2>2, <2>5
    <3> QED
      BY <1>5, <2>1, <2>2, <3>1, <3>2, <3>3
  <2> QED
    BY <2>4, <2>5
<1> QED
  BY <1>9, <1>10, <1>13, <1>14, <1>15 DEF SetupInv

LEMMA NodeStep ==
    ASSUME SetupInv, NEW t \in Setup!Txs, Setup!Mine(t) \/ Setup!Evict(t) PROVE SetupInv'
<1>1. /\ SetupType /\ tx[t].state = "pending" /\ UNCHANGED <<row, tokens, gas, loop, view, toppedUp>>
      /\ count \in [{"fault", "revert", "evict", "event"} -> Nat]
  BY DEF SetupInv, SetupType, Setup!Mine, Setup!Evict, Setup!rows
<1>2. \/ /\ tx' = [tx EXCEPT ![t].state = "good"] /\ UNCHANGED count
         /\ allowed' = IF tx[t].kind = "approve" THEN [allowed EXCEPT ![tx[t].spender] = tx[t].amount]
                       ELSE allowed
      \/ /\ tx' = [tx EXCEPT ![t].state = "failed"] /\ UNCHANGED allowed /\ Setup!Counting("revert")
      \/ /\ tx' = [tx EXCEPT ![t].state = "gone"] /\ UNCHANGED allowed /\ Setup!Counting("evict")
  BY DEF Setup!Mine, Setup!Evict
<1>3. count' \in [{"fault", "revert", "evict", "event"} -> Nat] /\ count'["fault"] >= count["fault"]
  BY <1>1, <1>2, CountingTypes
<1> QED
  BY <1>1, <1>2, <1>3, TxEnds

LEMMA SetupStep == SetupInv /\ Setup!Next => SetupInv'
<1> SUFFICES ASSUME SetupInv, Setup!Next PROVE SetupInv'
  OBVIOUS
<1>1. ASSUME NEW l \in Setup!Loops, Setup!LoopStep(l) PROVE SetupInv'
  BY <1>1, QueryStep, BalancesStep, WriteStep, TurnStep DEF Setup!LoopStep
<1>2. CASE Setup!Deploy
  BY <1>2, Endings, Waits, SendSteps, DeployUpdates DEF Setup!Deploy
<1>3. CASE Setup!CheckApprove
  BY <1>3, Endings, Waits, SendSteps, ReadStep, ApproveUpdates DEF Setup!CheckApprove
<1>4. CASE Setup!LookWrite \/ \E S \in SUBSET Airdrop : Setup!ListHandler(S)
  BY <1>4, ViewSteps
<1>5. CASE Setup!Crash
  BY <1>5, Endings
<1>6. ASSUME NEW a \in Airdrop, Setup!Handler(a) PROVE SetupInv'
  BY <1>6, ViewSteps DEF Setup!Handler
<1>7. ASSUME NEW a \in Airdrop, Setup!Owner(a) PROVE SetupInv'
  BY <1>7, OwnerStep DEF Setup!Owner
<1>8. ASSUME NEW t \in Setup!Txs, Setup!Mine(t) \/ Setup!Evict(t) PROVE SetupInv'
  BY <1>8, NodeStep
<1> QED
  BY <1>1, <1>2, <1>3, <1>4, <1>5, <1>6, <1>7, <1>8 DEF Setup!Next

SetupKept == runs = "setup" => SetupInv

LEMMA SetupInvariance == PartsSpec => []SetupKept
<1> DEFINE Parts == PayoutNext \/ SetupNext \/ MoneyNext
<1>1. PartsInit => SetupKept
  BY SetupStart DEF PartsInit, SetupKept
<1>2. SetupKept /\ [Parts]_allVars => SetupKept'
  <2> SUFFICES ASSUME SetupKept, [Parts]_allVars, runs' = "setup" PROVE SetupInv'
    BY DEF SetupKept
  <2>1. runs = "setup" /\ SetupInv
    BY DEF SetupKept, PayoutNext, SetupNext, MoneyNext, allVars
  <2>2. CASE SetupNext
    BY <2>1, <2>2, SetupStep DEF SetupNext
  <2>3. CASE UNCHANGED allVars
    <3>1. UNCHANGED <<row, tokens, gas, tx, allowed, loop, view, count, toppedUp>>
      BY <2>3 DEF allVars, setupVars
    <3>2. SetupType' /\ ColumnsStay /\ count'["fault"] >= count["fault"]
      BY <2>1, <3>1 DEF SetupInv, SetupType, ColumnsStay
    <3> QED
      BY <2>1, <3>1, <3>2, LoopsStay
  <2> QED
    BY <2>1, <2>2, <2>3 DEF PayoutNext, MoneyNext
<1> QED
  BY <1>1, <1>2, PTL DEF PartsSpec

(* What a row says of its transactions is so, and a second contract is a   *)
(* fault, for any airdrops, size of a page, and number of transactions,    *)
(* faults, reverts and evictions.                                          *)
THEOREM ContractsAreTrue == PartsSpec => []ContractIsTrue
<1>1. SetupKept => ContractIsTrue
  <2> SUFFICES ASSUME SetupInv PROVE Setup!TypeOK /\ Setup!ContractIsTrue
    BY DEF SetupKept, ContractIsTrue
  <2>1. Setup!TypeOK
    <3>1. ASSUME NEW l \in Setup!Loops PROVE Setup!LoopOK(loop[l])
      <4>1. loop[l] \in Loop
        BY DEF SetupInv, SetupType
      <4>2. DOMAIN loop[l].page \subseteq Airdrop
            /\ \A a \in DOMAIN loop[l].page : loop[l].page[a] \in Setup!Rec
        BY <4>1, LoopFields
      <4> QED
        BY <4>1, <4>2, LoopFields, SetupConstants DEF Setup!LoopOK, Steps
    <3>2. DOMAIN loop = Setup!Loops
      BY DEF SetupInv, SetupType
    <3> QED
      BY <3>1, <3>2 DEF SetupInv, SetupType, Setup!TypeOK
  <2>2. ASSUME NEW a \in Airdrop
        PROVE  /\ Setup!Cardinality(Setup!Deployments(a)) <= 1 + count["fault"]
               /\ row[a].dealer = "ok" => /\ row[a].dealerTx \in Setup!Deployments(a)
                                          /\ tx[row[a].dealerTx].state = "good"
               /\ row[a].dealer = "failed" => /\ row[a].dealerTx \in Setup!Deployments(a)
                                              /\ tx[row[a].dealerTx].state = "failed"
               /\ row[a].approveTx # Setup!NoTx =>
                     /\ tx[row[a].approveTx].kind = "approve" /\ tx[row[a].approveTx].of = a
                     /\ tx[row[a].approveTx].spender = row[a].dealerTx
               /\ row[a].approve = "failed" => tx[row[a].approveTx].state = "failed"
    <3>1. Cardinality(Setup!Deployments(a)) \in Nat /\ count["fault"] \in Nat
      BY DeploymentsFinite DEF SetupInv, SetupType
    <3>2. Cardinality(Setup!Deployments(a))
             <= count["fault"] + (IF row[a].dealer # "none" \/ Deploys(a) THEN 1 ELSE 0)
      BY SameSetupCount DEF SetupInv, DeployInv
    <3>3. Setup!Cardinality(Setup!Deployments(a)) <= 1 + count["fault"]
      BY <3>1, <3>2, SameSetupCount
    <3>4. /\ row[a].dealer # "none" => row[a].dealerTx \in Setup!Deployments(a)
          /\ row[a].dealer = "ok" => tx[row[a].dealerTx].state = "good"
          /\ row[a].dealer = "failed" => tx[row[a].dealerTx].state = "failed"
      BY DEF SetupInv, DeployInv
    <3>5. row[a].approveTx # Setup!NoTx =>
             /\ tx[row[a].approveTx].kind = "approve" /\ tx[row[a].approveTx].of = a
             /\ tx[row[a].approveTx].spender = row[a].dealerTx
      BY DEF SetupInv, ApproveInv, Approvals
    <3>6. row[a].approve = "failed" => tx[row[a].approveTx].state = "failed"
      BY DEF SetupInv, ApproveInv
    <3> QED
      BY <3>3, <3>4, <3>5, <3>6
  <2> QED
    BY <2>1, <2>2 DEF Setup!ContractIsTrue
<1> QED
  BY <1>1, SetupInvariance, PTL

(* An approval that is recorded as done is for all the tokens, unless some *)
(* came after the contract, for any airdrops and however the two loops,    *)
(* the payments, the node and the faults interleave.                       *)
THEOREM ShortfallsExplained == PartsSpec => []ShortHasCause
<1>1. SetupKept => ShortHasCause
  <2> SUFFICES ASSUME SetupInv, NEW a \in Airdrop, row[a].approve = "ok",
                      allowed[row[a].dealerTx] < tokens[a]
               PROVE  a \in toppedUp
    BY DEF SetupKept, ShortHasCause, Setup!ShortHasCause
  <2>1. row[a].dealer = "ok"
    BY DEF SetupInv, ApproveInv
  <2>2. row[a].dealerTx \in Setup!Txs
    BY <2>1 DEF SetupInv, DeployInv, Setup!Deployments
  <2>3. allowed[row[a].dealerTx] \in Nat /\ tokens[a] \in Nat
    <3>1. /\ tokens \in [Airdrop -> 0..MaxTokens] /\ allowed \in [Setup!Txs -> 0..MaxTokens]
          /\ 0..MaxTokens \subseteq Nat
      BY SetupConstants DEF SetupInv, SetupType
    <3> QED
      BY <2>2, <3>1
  <2>4. ~Covered(a)
    BY <2>3 DEF Covered
  <2> QED
    BY <2>1, <2>4 DEF SetupInv, AllowInv
<1> QED
  BY <1>1, SetupInvariance, PTL
=============================================================================
