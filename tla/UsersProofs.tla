---------------------------- MODULE UsersProofs ----------------------------
(***************************************************************************)
(* Theorems about accounts, phones and the wallet page, for any number of  *)
(* requests, accounts, phones, codes and tokens.  The components have no   *)
(* state in common: each has an inductive invariant of its own, and the    *)
(* sum of the three keeps that of the part that runs.                      *)
(***************************************************************************)
EXTENDS MCUsers, FiniteSetTheorems, SequenceTheorems, TLAPS

-----------------------------------------------------------------------------
(* Accounts. *)

(* A request at work is about an account that exists. *)
WorkInv ==
    \A r \in Request :
        IF req[r].step = "idle" THEN req[r].id = Accounts!Nobody
        ELSE req[r].id \in Accounts!Ids /\ Accounts!Exists(req[r].id)

(* An account without a wallet has a request at work, or had one. *)
WantInv ==
    \A i \in Accounts!Ids :
        IF Accounts!Exists(i)
        THEN wallets[i] = 0 => i \in cut \/ \E r \in Request : req[r].id = i
        ELSE wallets[i] = 0

(* Whoever is about to write a wallet is alone with an account that has    *)
(* none, or the account is known as crossed.                               *)
AloneInv ==
    /\ \A i \in Accounts!Ids : wallets[i] > 1 => i \in crossed
    /\ \A r \in Request : req[r].step = "wallet" /\ wallets[req[r].id] > 0 => req[r].id \in crossed
    /\ \A q, r \in Request :
          q # r /\ req[q].step = "wallet" /\ req[r].step = "wallet" /\ req[q].id = req[r].id
          => req[r].id \in crossed

AccountInv == Accounts!TypeOK /\ WorkInv /\ WantInv /\ AloneInv

LEMMA AccountInit == Accounts!Init => AccountInv
<1> SUFFICES ASSUME Accounts!Init PROVE AccountInv
  OBVIOUS
<1> USE DEF Accounts!Init, Accounts!Idle
<1>1. Accounts!TypeOK
  BY AccountAssumption DEF Accounts!TypeOK, Accounts!Rows, Accounts!NoRow, Accounts!BoundAssumption
<1>2. WorkInv /\ WantInv /\ AloneInv
  BY DEF WorkInv, WantInv, AloneInv, Accounts!Exists
<1> QED
  BY <1>1, <1>2 DEF AccountInv

(* What an idle request does with the table: it adds a row nobody knows,   *)
(* or goes on with one that exists, or leaves it at that.                  *)
Adds(r, i, step) ==
    /\ ~Accounts!Exists(i)
    /\ \E m \in Mobile \union {None}, u \in Union \union {None} :
          /\ m # None \/ u # None
          /\ users' = [users EXCEPT ![i] = [mobile |-> m, wechat |-> u]]
    /\ req' = [req EXCEPT ![r] = [step |-> step, id |-> i]]
GoesOn(r, i) ==
    /\ Accounts!Exists(i)
    /\ \E u \in Union : users' = [users EXCEPT ![i].wechat = u]
    /\ req' = [req EXCEPT ![r] = [step |-> "look", id |-> i]] \/ req' = [req EXCEPT ![r] = Accounts!Idle]

LEMMA ArrivalFacts ==
    ASSUME AccountInv, NEW r \in Request,
           \/ \E m \in Mobile : Accounts!CreateUser(r, m)
           \/ \E m \in Mobile, u \in Union : Accounts!BindPhone(r, m, u)
           \/ \E u \in Union : Accounts!LoginUser(r, u)
    PROVE  /\ req[r].step = "idle" /\ UNCHANGED <<wallets, faults, cut, crossed>>
           /\ \E i \in Accounts!Ids : GoesOn(r, i) \/ \E step \in {"look", "wallet"} : Adds(r, i, step)
<1>0. None \notin Mobile /\ None \notin Union
  BY AccountAssumption DEF Accounts!NullAssumption
<1>1. req[r].step = "idle"
  BY DEF Accounts!CreateUser, Accounts!BindPhone, Accounts!LoginUser
<1>2. ASSUME NEW m \in Mobile \union {None}, NEW u \in Union \union {None}, m # None \/ u # None,
             NEW step \in {"look", "wallet"}, Accounts!InsertUser(r, m, u, step)
      PROVE  /\ UNCHANGED <<wallets, faults, cut, crossed>>
             /\ \E i \in Accounts!Ids : Adds(r, i, step)
  BY <1>2 DEF Accounts!InsertUser, Accounts!Go, Adds
<1>3. ASSUME NEW u \in Union, NEW i \in Accounts!Ids, Accounts!Exists(i), Accounts!UpdateUser(r, i, u)
      PROVE  UNCHANGED <<wallets, faults, cut, crossed>> /\ GoesOn(r, i)
  BY <1>3 DEF Accounts!UpdateUser, Accounts!Go, GoesOn
<1>4. \A m \in Mobile : \A i \in Accounts!ByMobile(m) : i \in Accounts!Ids /\ Accounts!Exists(i)
  BY <1>0 DEF Accounts!ByMobile, Accounts!Exists, Accounts!NoRow
<1>5. \A u \in Union : \A i \in Accounts!ByUnion(u) : i \in Accounts!Ids /\ Accounts!Exists(i)
  BY <1>0 DEF Accounts!ByUnion, Accounts!Exists, Accounts!NoRow
<1>6. ASSUME NEW m \in Mobile, Accounts!CreateUser(r, m)
      PROVE  /\ UNCHANGED <<wallets, faults, cut, crossed>>
             /\ \E i \in Accounts!Ids : \E step \in {"look", "wallet"} : Adds(r, i, step)
  BY <1>0, <1>2, <1>6 DEF Accounts!CreateUser
<1>7. ASSUME NEW m \in Mobile, NEW u \in Union, Accounts!BindPhone(r, m, u)
      PROVE  /\ UNCHANGED <<wallets, faults, cut, crossed>>
             /\ \E i \in Accounts!Ids : GoesOn(r, i) \/ \E step \in {"look", "wallet"} : Adds(r, i, step)
  BY <1>0, <1>2, <1>3, <1>4, <1>5, <1>7 DEF Accounts!BindPhone
<1>8. ASSUME NEW u \in Union, Accounts!LoginUser(r, u)
      PROVE  /\ UNCHANGED <<wallets, faults, cut, crossed>>
             /\ \E i \in Accounts!Ids : GoesOn(r, i) \/ \E step \in {"look", "wallet"} : Adds(r, i, step)
  BY <1>0, <1>2, <1>3, <1>5, <1>8 DEF Accounts!LoginUser
<1> QED
  BY <1>1, <1>6, <1>7, <1>8

LEMMA AddStep ==
    ASSUME AccountInv, NEW r \in Request, NEW i \in Accounts!Ids, NEW step \in {"look", "wallet"},
           req[r].step = "idle", UNCHANGED <<wallets, faults, cut, crossed>>, Adds(r, i, step)
    PROVE  AccountInv'
<1> USE DEF AccountInv
<1>1. PICK m \in Mobile \union {None}, u \in Union \union {None} :
          /\ m # None \/ u # None
          /\ users' = [users EXCEPT ![i] = [mobile |-> m, wechat |-> u]]
  BY DEF Adds
<1>2. Accounts!TypeOK'
  BY <1>1 DEF Adds, Accounts!TypeOK, Accounts!Rows
<1>3. /\ users'[i] # Accounts!NoRow
      /\ \A j \in Accounts!Ids : j # i => users'[j] = users[j]
  BY <1>1 DEF Accounts!TypeOK, Accounts!NoRow
<1>4. /\ req'[r] = [step |-> step, id |-> i]
      /\ \A q \in Request : q # r => req'[q] = req[q]
  BY DEF Adds, Accounts!TypeOK

(* Nobody was about a row that did not exist. *)
<1>5. /\ \A q \in Request : req[q].id # i
      /\ wallets[i] = 0
  BY DEF Adds, WorkInv, WantInv, Accounts!Ids, Accounts!Nobody
<1>6. WorkInv'
  BY <1>3, <1>4 DEF WorkInv, Accounts!Exists
<1>7. WantInv'
  <2>1. req[r].id \notin Accounts!Ids
    BY DEF WorkInv, Accounts!Ids, Accounts!Nobody
  <2> QED
    BY <1>3, <1>4, <2>1 DEF WantInv, Accounts!Exists
<1>8. AloneInv'
  BY <1>4, <1>5 DEF AloneInv
<1> QED
  BY <1>2, <1>6, <1>7, <1>8

LEMMA GoOnStep ==
    ASSUME AccountInv, NEW r \in Request, NEW i \in Accounts!Ids,
           req[r].step = "idle", UNCHANGED <<wallets, faults, cut, crossed>>, GoesOn(r, i)
    PROVE  AccountInv'
<1> USE DEF AccountInv
<1>1. PICK u \in Union : users' = [users EXCEPT ![i].wechat = u]
  BY DEF GoesOn
<1>2. PICK l \in {[step |-> "look", id |-> i], Accounts!Idle} : req' = [req EXCEPT ![r] = l]
  BY DEF GoesOn
<1>3. Accounts!TypeOK'
  BY <1>1, <1>2 DEF Accounts!TypeOK, Accounts!Rows, Accounts!Idle
<1>4. \A j \in Accounts!Ids : users'[j] # Accounts!NoRow <=> users[j] # Accounts!NoRow
  <2>1. u # None
    BY AccountAssumption DEF Accounts!NullAssumption
  <2>2. users'[i] # Accounts!NoRow
    BY <1>1, <2>1 DEF Accounts!TypeOK, Accounts!NoRow, Accounts!Rows
  <2>3. \A j \in Accounts!Ids : j # i => users'[j] = users[j]
    BY <1>1 DEF Accounts!TypeOK
  <2> QED
    BY <2>2, <2>3 DEF GoesOn, Accounts!Exists
<1>5. /\ req'[r] = l
      /\ \A q \in Request : q # r => req'[q] = req[q]
  BY <1>2 DEF Accounts!TypeOK
<1>6. WorkInv'
  BY <1>4, <1>5 DEF WorkInv, GoesOn, Accounts!Exists, Accounts!Idle
<1>7. WantInv'
  <2>1. req[r].id \notin Accounts!Ids
    BY DEF WorkInv, Accounts!Ids, Accounts!Nobody
  <2> QED
    BY <1>4, <1>5, <2>1 DEF WantInv, Accounts!Exists
<1>8. AloneInv'
  BY <1>5 DEF AloneInv, Accounts!Idle
<1> QED
  BY <1>3, <1>6, <1>7, <1>8

LEMMA AccountStep == AccountInv /\ [Accounts!Next]_(Accounts!vars) => AccountInv'
<1> SUFFICES ASSUME AccountInv, [Accounts!Next]_(Accounts!vars) PROVE AccountInv'
  OBVIOUS
<1> USE DEF AccountInv
<1>1. ASSUME NEW r \in Request,
             \/ \E m \in Mobile : Accounts!CreateUser(r, m)
             \/ \E m \in Mobile, u \in Union : Accounts!BindPhone(r, m, u)
             \/ \E u \in Union : Accounts!LoginUser(r, u)
      PROVE  AccountInv'
  <2>1. /\ req[r].step = "idle" /\ UNCHANGED <<wallets, faults, cut, crossed>>
        /\ \E i \in Accounts!Ids : GoesOn(r, i) \/ \E step \in {"look", "wallet"} : Adds(r, i, step)
    BY <1>1, ArrivalFacts
  <2> QED
    BY <2>1, AddStep, GoOnStep
<1>2. ASSUME NEW r \in Request, Accounts!LookForWallet(r) PROVE AccountInv'
  <2>1. /\ req[r].step = "look" /\ UNCHANGED <<users, wallets, faults, cut>>
        /\ req[r].id \in Accounts!Ids /\ Accounts!Exists(req[r].id)
    BY <1>2 DEF Accounts!LookForWallet, WorkInv
  <2>2. CASE wallets[req[r].id] = 0
    <3>1. req' = [req EXCEPT ![r] = [step |-> "wallet", id |-> req[r].id]]
      BY <1>2, <2>2 DEF Accounts!LookForWallet, Accounts!Go
    <3>2. /\ req'[r] = [step |-> "wallet", id |-> req[r].id]
          /\ \A q \in Request : q # r => req'[q] = req[q]
      BY <3>1 DEF Accounts!TypeOK
    <3>3. crossed' \in {crossed, crossed \union {req[r].id}}
      BY <1>2, <2>2 DEF Accounts!LookForWallet
    <3>4. Accounts!TypeOK'
      BY <2>1, <3>1, <3>3 DEF Accounts!TypeOK
    <3>5. WorkInv' /\ WantInv'
      BY <2>1, <3>2 DEF WorkInv, WantInv, Accounts!Exists
    <3>6. ASSUME NEW q \in Request \ {r}, req[q].step = "wallet", req[q].id = req[r].id
          PROVE  req[r].id \in crossed'
      <4>1. req[q] = [step |-> "wallet", id |-> req[r].id]
        BY <3>6 DEF Accounts!TypeOK
      <4> QED
        BY <1>2, <2>2, <4>1 DEF Accounts!LookForWallet
    <3>7. AloneInv'
      BY <2>1, <2>2, <3>2, <3>3, <3>6 DEF AloneInv
    <3> QED
      BY <3>4, <3>5, <3>7
  <2>3. CASE wallets[req[r].id] # 0
    <3>1. req' = [req EXCEPT ![r] = Accounts!Idle] /\ crossed' = crossed
      BY <1>2, <2>3 DEF Accounts!LookForWallet
    <3>2. /\ req'[r] = Accounts!Idle
          /\ \A q \in Request : q # r => req'[q] = req[q]
      BY <3>1 DEF Accounts!TypeOK
    <3>3. Accounts!TypeOK'
      BY <2>1, <3>1 DEF Accounts!TypeOK, Accounts!Idle
    <3>4. WorkInv' /\ WantInv' /\ AloneInv'
      BY <2>1, <2>3, <3>1, <3>2 DEF WorkInv, WantInv, AloneInv, Accounts!Exists, Accounts!Idle
    <3> QED
      BY <3>3, <3>4
  <2> QED
    BY <2>2, <2>3
<1>3. ASSUME NEW r \in Request, Accounts!InsertWallet(r) PROVE AccountInv'
  <2>1. /\ req[r].step = "wallet" /\ UNCHANGED <<users, faults, cut, crossed>>
        /\ req[r].id \in Accounts!Ids /\ Accounts!Exists(req[r].id)
        /\ wallets' = [wallets EXCEPT ![req[r].id] = @ + 1]
        /\ req' = [req EXCEPT ![r] = Accounts!Idle]
    BY <1>3 DEF Accounts!InsertWallet, WorkInv
  <2>2. /\ req'[r] = Accounts!Idle
        /\ \A q \in Request : q # r => req'[q] = req[q]
        /\ wallets[req[r].id] \in Nat
        /\ wallets'[req[r].id] = wallets[req[r].id] + 1
        /\ \A i \in Accounts!Ids : i # req[r].id => wallets'[i] = wallets[i]
    BY <2>1 DEF Accounts!TypeOK
  <2>3. Accounts!TypeOK'
    BY <2>1 DEF Accounts!TypeOK, Accounts!Idle
  <2>4. WorkInv'
    BY <2>1, <2>2 DEF WorkInv, Accounts!Exists, Accounts!Idle
  <2>5. WantInv'
    BY <2>1, <2>2 DEF WantInv, Accounts!Exists
  <2>6. AloneInv'
    <3>1. \A i \in Accounts!Ids : wallets'[i] > 1 => i \in crossed
      BY <2>1, <2>2 DEF AloneInv
    <3>2. \A q \in Request : req'[q].step = "wallet" =>
             q # r /\ req[q].step = "wallet" /\ req'[q].id = req[q].id /\ req[q].id \in Accounts!Ids
      BY <2>2 DEF WorkInv, Accounts!Idle
    <3>3. ASSUME NEW q \in Request, req'[q].step = "wallet", wallets'[req[q].id] > 0
          PROVE  req[q].id \in crossed
      BY <2>1, <2>2, <3>2, <3>3 DEF AloneInv
    <3> QED
      BY <2>1, <3>1, <3>2, <3>3 DEF AloneInv
  <2> QED
    BY <2>3, <2>4, <2>5, <2>6
<1>4. ASSUME NEW r \in Request, Accounts!Ends(r) PROVE AccountInv'
  <2>1. /\ req[r].step # "idle" /\ UNCHANGED <<users, wallets, crossed>>
        /\ req[r].id \in Accounts!Ids
        /\ cut' = cut \union {req[r].id}
        /\ faults < MaxFaults /\ faults' = faults + 1
        /\ req' = [req EXCEPT ![r] = Accounts!Idle]
    BY <1>4 DEF Accounts!Ends, Accounts!Fault, WorkInv
  <2>2. /\ req'[r] = Accounts!Idle
        /\ \A q \in Request : q # r => req'[q] = req[q]
    BY <2>1 DEF Accounts!TypeOK
  <2>3. Accounts!TypeOK'
    BY <2>1, AccountAssumption DEF Accounts!TypeOK, Accounts!Idle, Accounts!BoundAssumption
  <2>4. WorkInv' /\ WantInv' /\ AloneInv'
    BY <2>1, <2>2 DEF WorkInv, WantInv, AloneInv, Accounts!Exists, Accounts!Idle
  <2> QED
    BY <2>3, <2>4
<1>5. CASE UNCHANGED Accounts!vars
  BY <1>5 DEF Accounts!vars, Accounts!TypeOK, WorkInv, WantInv, AloneInv, Accounts!Exists
<1> QED
  BY <1>1, <1>2, <1>3, <1>4, <1>5 DEF Accounts!Next

LEMMA AccountPromise == AccountInv => Accounts!TypeOK /\ Accounts!OneWalletEach
BY DEF AccountInv, WantInv, AloneInv, Accounts!OneWalletEach, Accounts!TypeOK

-----------------------------------------------------------------------------
(* Phones. *)

Verifying(r) == req[r].step \in {"delete", "insert"}

(* A call past Twilio has a confirmed code.  Two such calls for one phone  *)
(* mixed it up; without faults, whoever of another phone is about to       *)
(* insert has removed the codes there were.                                *)
CallInv ==
    \A r \in Caller :
        /\ req[r].step # "idle" => req[r].mobile \in Mobile /\ req[r].code \in Code
        /\ Verifying(r) =>
              /\ <<req[r].mobile, req[r].code>> \in confirmed
              /\ \A q \in Caller : Verifying(q) /\ q # r /\ req[q].mobile = req[r].mobile =>
                    req[r].mobile \in mixed
        /\ faults = 0 /\ req[r].step = "insert" /\ req[r].mobile \notin mixed =>
              \A x \in cached : x[1] # req[r].mobile

PhoneInv == Phones!TypeOK /\ CallInv /\ Phones!CacheIsTrue

LEMMA PhoneInit == Phones!Init => PhoneInv
<1> SUFFICES ASSUME Phones!Init PROVE PhoneInv
  OBVIOUS
<1> USE DEF Phones!Init, Phones!Idle
<1>1. Phones!TypeOK
  BY PhoneAssumption DEF Phones!TypeOK, Phones!PhoneAssumption, Phones!Steps, Phones!Lengths
<1>2. CallInv /\ Phones!CacheIsTrue
  BY DEF CallInv, Phones!CacheIsTrue, Verifying
<1> QED
  BY <1>1, <1>2 DEF PhoneInv

(* Calls at rest, a confirmation, or a row that goes: nothing to disturb.  *)
LEMMA PhoneQuiet ==
    ASSUME PhoneInv, Phones!TypeOK', req' = req, mixed' = mixed, faults' = faults,
           cached' \subseteq cached, confirmed \subseteq confirmed'
    PROVE  PhoneInv'
<1>1. CallInv'
  BY DEF PhoneInv, CallInv, Verifying
<1>2. Phones!CacheIsTrue'
  BY DEF PhoneInv, Phones!CacheIsTrue
<1> QED
  BY <1>1, <1>2 DEF PhoneInv

(* A call that goes idle, or to Twilio, leaves the others as they were.    *)
LEMMA PhoneRetreat ==
    ASSUME PhoneInv, Phones!TypeOK', UNCHANGED <<mixed, faults, cached, confirmed>>,
           NEW r \in Caller, NEW l, req' = [req EXCEPT ![r] = l],
           l.step = "idle" \/ (l.step = "check" /\ l.mobile \in Mobile /\ l.code \in Code)
    PROVE  PhoneInv'
<1>0. req \in [Caller -> [step : Phones!Steps, mobile : Mobile \union {None}, code : Code \union {None}]]
  BY DEF PhoneInv, Phones!TypeOK
<1>1. req'[r] = l /\ \A q \in Caller : q # r => req'[q] = req[q]
  BY <1>0
<1>2. CallInv'
  BY <1>1 DEF PhoneInv, CallInv, Verifying
<1>3. Phones!CacheIsTrue'
  BY DEF PhoneInv, Phones!CacheIsTrue
<1> QED
  BY <1>2, <1>3 DEF PhoneInv

LEMMA Confirmation ==
    ASSUME Phones!TypeOK, NEW m \in Mobile, NEW c \in Code, Phones!AuthVerification(m, c)
    PROVE  /\ sms' \in [Mobile -> Code \union {None}]
           /\ confirmed' = confirmed \union {<<m, c>>} /\ confirmed' \subseteq Mobile \X Code
BY DEF Phones!AuthVerification, Phones!TypeOK

LEMMA VerifiedStep ==
    ASSUME PhoneInv, NEW r \in Caller, Phones!Verified(r) PROVE PhoneInv'
<1> USE DEF PhoneInv
<1>1. /\ req[r].step = "check" /\ req[r].mobile \in Mobile /\ req[r].code \in Code
      /\ UNCHANGED <<cached, old, passwd, sent, faults>>
      /\ req' = [req EXCEPT ![r].step = "delete"]
  BY DEF Phones!Verified, CallInv
<1>2. /\ sms' \in [Mobile -> Code \union {None}]
      /\ confirmed' = confirmed \union {<<req[r].mobile, req[r].code>>}
      /\ confirmed' \subseteq Mobile \X Code
  BY <1>1, Confirmation DEF Phones!Verified
<1>3. /\ req'[r].step = "delete" /\ req'[r].mobile = req[r].mobile /\ req'[r].code = req[r].code
      /\ \A q \in Caller : q # r => req'[q] = req[q]
  BY <1>1 DEF Phones!TypeOK
<1>4. mixed' \in {mixed, mixed \union {req[r].mobile}}
  BY DEF Phones!Verified
<1>5. ASSUME NEW q \in Caller, Verifying(q), req[q].mobile = req[r].mobile
      PROVE  req[r].mobile \in mixed'
  BY <1>5 DEF Phones!Verified, Verifying
<1>6. Phones!TypeOK'
  BY <1>1, <1>2, <1>4 DEF Phones!TypeOK, Phones!Steps
<1>7. CallInv'
  <2>1. ASSUME NEW p \in Caller
        PROVE  req'[p].step # "idle" => req'[p].mobile \in Mobile /\ req'[p].code \in Code
    BY <1>1, <1>3 DEF CallInv
  <2>2. ASSUME NEW p \in Caller, Verifying(p)'
        PROVE  <<req'[p].mobile, req'[p].code>> \in confirmed'
    BY <1>2, <1>3, <2>2 DEF CallInv, Verifying
  <2>3. ASSUME NEW p \in Caller, NEW q \in Caller, Verifying(p)', Verifying(q)', q # p,
               req'[q].mobile = req'[p].mobile
        PROVE  req'[p].mobile \in mixed'
    <3>1. ASSUME NEW g \in Caller, g # r, Verifying(g)'
          PROVE  Verifying(g) /\ req'[g].mobile = req[g].mobile
      BY <1>3, <3>1 DEF Verifying
    <3>2. CASE p = r
      BY <1>3, <1>5, <2>3, <3>1, <3>2
    <3>3. CASE q = r
      BY <1>3, <1>5, <2>3, <3>1, <3>3
    <3>4. CASE p # r /\ q # r
      BY <1>4, <2>3, <3>1, <3>4 DEF CallInv
    <3> QED
      BY <3>2, <3>3, <3>4
  <2>4. ASSUME NEW p \in Caller, faults' = 0, req'[p].step = "insert", req'[p].mobile \notin mixed'
        PROVE  \A x \in cached' : x[1] # req'[p].mobile
    BY <1>1, <1>3, <1>4, <2>4 DEF CallInv
  <2> QED
    BY <2>1, <2>2, <2>3, <2>4 DEF CallInv
<1>8. Phones!CacheIsTrue'
  BY <1>1, <1>2, <1>4 DEF Phones!CacheIsTrue
<1> QED
  BY <1>6, <1>7, <1>8

LEMMA DeleteStep ==
    ASSUME PhoneInv, NEW r \in Caller, Phones!VerifyDelete(r) PROVE PhoneInv'
<1> USE DEF PhoneInv
<1>1. /\ req[r].step = "delete" /\ UNCHANGED <<sms, passwd, confirmed, sent, mixed>>
      /\ req' = [req EXCEPT ![r].step = "insert"]
      /\ \/ /\ cached' = {x \in cached : x[1] # req[r].mobile}
            /\ old' = old \intersect cached' /\ faults' = faults
         \/ faults < MaxFaults /\ faults' = faults + 1 /\ UNCHANGED <<cached, old>>
  BY DEF Phones!VerifyDelete, Phones!Remove, Phones!Others
<1>2. /\ req'[r].step = "insert" /\ req'[r].mobile = req[r].mobile /\ req'[r].code = req[r].code
      /\ \A q \in Caller : q # r => req'[q] = req[q]
  BY <1>1 DEF Phones!TypeOK
<1>3. faults \in Nat /\ cached' \subseteq cached
  BY <1>1 DEF Phones!TypeOK
<1>4. Phones!TypeOK'
  <2>1. faults' \in 0..MaxFaults
    BY <1>1, PhoneAssumption DEF Phones!TypeOK, Phones!PhoneAssumption
  <2> QED
    BY <1>1, <2>1 DEF Phones!TypeOK, Phones!Steps
<1>5. faults' = 0 => faults = 0 /\ cached' = {x \in cached : x[1] # req[r].mobile}
  BY <1>1, <1>3
<1>6. CallInv'
  BY <1>1, <1>2, <1>3, <1>5 DEF CallInv, Verifying
<1>7. Phones!CacheIsTrue'
  BY <1>1, <1>3, <1>5 DEF Phones!CacheIsTrue
<1> QED
  BY <1>4, <1>6, <1>7

LEMMA InsertStep ==
    ASSUME PhoneInv, NEW r \in Caller, Phones!VerifyInsert(r) PROVE PhoneInv'
<1> USE DEF PhoneInv
<1> DEFINE m == req[r].mobile
           x == <<req[r].mobile, req[r].code>>
<1>1. /\ req[r].step = "insert" /\ UNCHANGED <<sms, passwd, confirmed, sent, mixed>>
      /\ req' = [req EXCEPT ![r] = Phones!Idle]
      /\ \/ cached' = cached \union {x} /\ old' = old \ {x} /\ faults' = faults
         \/ faults < MaxFaults /\ faults' = faults + 1 /\ UNCHANGED <<cached, old>>
  BY DEF Phones!VerifyInsert
<1>2. /\ req'[r].step = "idle"
      /\ \A q \in Caller : q # r => req'[q] = req[q]
  BY <1>1 DEF Phones!TypeOK, Phones!Idle
<1>3. m \in Mobile /\ req[r].code \in Code /\ x \in confirmed /\ x[1] = m
  BY <1>1 DEF CallInv, Verifying
<1>4. faults' = 0 => faults = 0 /\ cached' = cached \union {x}
  BY <1>1 DEF Phones!TypeOK
<1>5. Phones!TypeOK'
  <2>1. faults' \in 0..MaxFaults
    BY <1>1, PhoneAssumption DEF Phones!TypeOK, Phones!PhoneAssumption
  <2> QED
    BY <1>1, <1>3, <2>1 DEF Phones!TypeOK, Phones!Steps, Phones!Idle
<1> HIDE DEF x
<1>6. CallInv'
  <2>1. ASSUME NEW q \in Caller, faults' = 0, req'[q].step = "insert", req'[q].mobile \notin mixed
        PROVE  \A y \in cached' : y[1] # req'[q].mobile
    <3>1. q # r /\ req'[q] = req[q] /\ faults = 0
      BY <1>2, <1>4, <2>1
    <3>2. \A y \in cached : y[1] # req[q].mobile
      BY <1>1, <2>1, <3>1 DEF CallInv
    <3>3. req[q].mobile # m
      BY <1>1, <2>1, <3>1 DEF CallInv, Verifying
    <3> QED
      BY <1>3, <1>4, <2>1, <3>1, <3>2, <3>3
  <2> QED
    BY <1>1, <1>2, <2>1 DEF CallInv, Verifying
<1>7. Phones!CacheIsTrue'
  <2>1. cached' \subseteq confirmed
    BY <1>1, <1>3 DEF Phones!CacheIsTrue
  <2>2. ASSUME faults' = 0, NEW y \in cached', NEW z \in cached', y[1] = z[1], y[1] \notin mixed
        PROVE  y = z
    <3>1. m \notin mixed => \A w \in cached : w[1] # m
      BY <1>1, <1>4, <2>2 DEF CallInv
    <3> QED
      BY <1>3, <1>4, <2>2, <3>1 DEF Phones!CacheIsTrue
  <2> QED
    BY <1>1, <2>1, <2>2 DEF Phones!CacheIsTrue
<1> QED
  BY <1>5, <1>6, <1>7

LEMMA PhoneStep == PhoneInv /\ [Phones!Next]_(Phones!vars) => PhoneInv'
<1> SUFFICES ASSUME PhoneInv, [Phones!Next]_(Phones!vars) PROVE PhoneInv'
  OBVIOUS
<1>t. Phones!TypeOK
  BY DEF PhoneInv
<1>1. ASSUME NEW m \in Mobile, NEW c \in Code, Phones!SendHandler(m, c) PROVE PhoneInv'
  <2>1. Phones!TypeOK'
    BY <1>1, <1>t, PhoneAssumption
       DEF Phones!SendHandler, Phones!AuthSend, Phones!TypeOK, Phones!PhoneAssumption
  <2> QED
    BY <1>1, <2>1, PhoneQuiet DEF Phones!SendHandler
<1>2. ASSUME NEW m \in Mobile, NEW c \in Code, NEW n \in Phones!Lengths,
             Phones!CreateHandler(m, c, n) \/ Phones!ResetPasswordHandler(m, c, n)
      PROVE  PhoneInv'
  <2>1. /\ UNCHANGED <<cached, old, req, sent, faults, mixed>>
        /\ passwd' \in {passwd, [passwd EXCEPT ![m] = n]}
        /\ Phones!AuthVerification(m, c)
    BY <1>2 DEF Phones!CreateHandler, Phones!ResetPasswordHandler
  <2>2. Phones!TypeOK'
    BY <1>t, <2>1, Confirmation DEF Phones!TypeOK
  <2> QED
    BY <1>t, <2>1, <2>2, Confirmation, PhoneQuiet
<1>3. ASSUME NEW r \in Caller, NEW m \in Mobile, NEW c \in Code, Phones!VerifySelect(r, m, c)
      PROVE  PhoneInv'
  <2>1. Phones!TypeOK'
    BY <1>3, <1>t DEF Phones!VerifySelect, Phones!TypeOK, Phones!Steps
  <2> QED
    BY <1>3, <2>1, PhoneRetreat DEF Phones!VerifySelect
<1>4. ASSUME NEW r \in Caller, Phones!NotVerified(r) PROVE PhoneInv'
  <2>1. Phones!TypeOK'
    BY <1>4, <1>t DEF Phones!NotVerified, Phones!TypeOK, Phones!Steps, Phones!Idle
  <2> QED
    BY <1>4, <2>1, PhoneRetreat DEF Phones!NotVerified, Phones!Idle
<1>5. ASSUME NEW x \in cached, Phones!HoursPass(x) PROVE PhoneInv'
  <2>1. Phones!TypeOK'
    BY <1>5, <1>t DEF Phones!HoursPass, Phones!TypeOK
  <2> QED
    BY <1>5, <2>1, PhoneQuiet DEF Phones!HoursPass
<1>6. CASE Phones!authVerifyCodesRecycle
  <2>1. Phones!TypeOK'
    BY <1>6, <1>t DEF Phones!authVerifyCodesRecycle, Phones!TypeOK
  <2> QED
    BY <1>6, <2>1, PhoneQuiet DEF Phones!authVerifyCodesRecycle
<1>7. CASE UNCHANGED Phones!vars
  <2>1. Phones!TypeOK'
    BY <1>7, <1>t DEF Phones!vars, Phones!TypeOK
  <2> QED
    BY <1>7, <2>1, PhoneQuiet DEF Phones!vars
<1> QED
  BY <1>1, <1>2, <1>3, <1>4, <1>5, <1>6, <1>7, VerifiedStep, DeleteStep, InsertStep
     DEF Phones!Next, Phones!VerifyHandler

LEMMA PhonePromise == PhoneInv => Phones!TypeOK /\ Phones!CacheIsTrue
BY DEF PhoneInv

-----------------------------------------------------------------------------
(* The wallet page. *)

Early == {"none", "price", "map", "balance", "cash", "ptr"}
Appending == {"len", "cap", "append", "setCap", "setPtr", "setLen", "setElem"}

ControlType ==
    /\ in \in PageInputs
    /\ main \in {"read", "gather", "prices", "wait", "save", "replied"}
    /\ list \subseteq Token /\ replies \in Nat /\ reply \in Seq(Funds!Cells)
    /\ pc \in [Token -> Early \union Appending \union {"done"}]
    /\ writing \subseteq Token /\ prices \subseteq Token
    /\ cached \subseteq Token /\ failed \subseteq Token
    /\ overlapped \in BOOLEAN /\ dead \in BOOLEAN

(* A goroutine for every token of the list, and for no other; the page     *)
(* waits for all of them.                                                  *)
HandlerInv ==
    /\ IF main \in {"read", "gather", "prices"}
       THEN \A t \in Token : pc[t] = "none"
       ELSE \A t \in Token : pc[t] = "none" <=> t \notin list
    /\ main = "read" => list = {}
    /\ main \in {"save", "replied"} => \A t \in list : pc[t] = "done"
    /\ main # "replied" => reply = <<>>
    /\ \A t \in failed : pc[t] = "done"
    /\ \A t \in Token : t \in writing <=> pc[t] = "map"

SliceHeader == [ptr : Token \union {Eth}, len : Nat, cap : Nat]

SliceType ==
    /\ funds \in SliceHeader /\ seen \in [Token -> SliceHeader]
    /\ DOMAIN heap \subseteq Token \union {Eth} /\ heap \in [DOMAIN heap -> Seq(Funds!Cells)]
    /\ funds.ptr \in DOMAIN heap /\ \A t \in Token : seen[t].ptr \in DOMAIN heap
    /\ funds.len >= 1
    /\ \A t \in Token : pc[t] \in Appending \ {"len"} => seen[t].len >= 1
    /\ wild \in BOOLEAN

(* In every array ether is first and nowhere else, and a token is at the   *)
(* one place its goroutine wrote it to, once it was done.                  *)
ArrayInv ==
    /\ \A a \in DOMAIN heap :
          /\ Len(heap[a]) >= 1 /\ heap[a][1] = Eth
          /\ \A i \in 1..Len(heap[a]) : heap[a][i] = Eth => i = 1
          /\ \A t \in Token, i \in 1..Len(heap[a]) : heap[a][i] = t =>
                pc[t] = "done" /\ t \in list /\ t \notin failed /\ i = seen[t].len + 1
    /\ \A t \in Token : t \in DOMAIN heap => pc[t] \notin Early \union {"len", "cap", "append"}

(* Every goroutine adds one to a length at most once. *)
Stored == {t \in Token : pc[t] \in {"setElem", "done"} /\ t \notin failed}
LengthInv ==
    /\ funds.len <= Cardinality(Stored) + 1
    /\ \A t \in Token : seen[t].len <= Cardinality(Stored \ {t}) + 1

(* What the goroutine that appends has loaded or stored, if it is alone.   *)
Entered == {t \in Token : pc[t] = "done" /\ t \notin failed}
Kept(a, n) == \A i \in 1..n : i <= Len(heap[a]) /\ heap[a][i] \notin {Funds!Zero, Funds!Junk}
Turn(g) ==
    /\ pc[g] \in {"len", "cap", "append", "setLen", "setElem"} => seen[g].ptr = funds.ptr
    /\ pc[g] \in {"cap", "append", "setCap", "setPtr", "setLen"} => seen[g].len = funds.len
    /\ pc[g] \in {"append", "setPtr"} => seen[g].cap = funds.cap
    /\ pc[g] \in {"setCap", "setPtr"} =>
          seen[g].cap = Len(heap[seen[g].ptr]) /\ Kept(seen[g].ptr, seen[g].len)
    /\ pc[g] \in {"setCap", "setPtr", "setLen", "setElem"} =>
          seen[g].len + 1 <= Len(heap[seen[g].ptr])
    /\ pc[g] = "setElem" => funds.len = seen[g].len + 1 /\ seen[g].len = Cardinality(Entered) + 1

TurnInv ==
    ~overlapped =>
        /\ ~wild
        /\ \A f, g \in Token : pc[f] \in Appending /\ pc[g] \in Appending => f = g
        /\ \A g \in Token : Turn(g)
        /\ (\A g \in Token : pc[g] # "setPtr") => funds.cap = Len(heap[funds.ptr])
        /\ (\A g \in Token : pc[g] # "setElem") => funds.len = Cardinality(Entered) + 1
        /\ Kept(funds.ptr, Cardinality(Entered) + 1)

SliceInv == SliceType /\ ArrayInv /\ LengthInv /\ TurnInv
FundInv == ControlType /\ HandlerInv /\ SliceInv /\ Funds!PageShows

(* The page counts with its own name of the same operators. *)
LEMMA SameCount == \A S : /\ Funds!IsFiniteSet(S) <=> IsFiniteSet(S)
                          /\ Funds!Cardinality(S) = Cardinality(S)
<1>1. \A S : Funds!IsFiniteSet(S) <=> IsFiniteSet(S)
  BY DEF Funds!IsFiniteSet, IsFiniteSet
<1>2. \A S : Funds!Cardinality(S) = Cardinality(S)
  BY DEF Funds!Cardinality, Cardinality
<1> QED
  BY <1>1, <1>2

LEMMA PageNames ==
    /\ Eth \notin Token /\ Absent \notin Nat /\ IsFiniteSet(Token)
    /\ Funds!Zero \notin Token \union {Eth} /\ Funds!Junk \notin Token \union {Eth}
    /\ Funds!Cells = Token \union {Eth, Funds!Zero, Funds!Junk}
<1>1. /\ IsFiniteSet(Token) /\ Absent \notin Nat /\ Eth \notin Token
      /\ {Funds!Zero, Funds!Junk} \intersect (Token \union {Eth}) = {}
  BY FundAssumption, SameCount DEF Funds!NameAssumption
<1>2. Funds!Zero \notin Token \union {Eth} /\ Funds!Junk \notin Token \union {Eth}
  BY <1>1
<1> QED
  BY <1>1, <1>2 DEF Funds!Cells

LEMMA FewTokens ==
    ASSUME NEW S, S \subseteq Token
    PROVE  IsFiniteSet(S) /\ Cardinality(S) \in Nat /\ Cardinality(S) <= Cardinality(Token)
<1>1. IsFiniteSet(S) /\ Cardinality(S) <= Cardinality(Token)
  BY PageNames, FS_Subset
<1> QED
  BY <1>1, FS_CardinalityType

LEMMA OneMoreToken ==
    ASSUME NEW S, S \subseteq Token, NEW t \in Token
    PROVE  /\ t \notin S => Cardinality(S \union {t}) = Cardinality(S) + 1
           /\ Cardinality(S \ {t}) + 1 <= Cardinality(Token)
<1>1. IsFiniteSet(S) /\ IsFiniteSet(S \ {t})
  BY FewTokens
<1>2. t \notin S => Cardinality(S \union {t}) = Cardinality(S) + 1
  BY <1>1, FS_AddElement
<1>3. Cardinality((S \ {t}) \union {t}) = Cardinality(S \ {t}) + 1
  BY <1>1, FS_AddElement
<1>4. Cardinality((S \ {t}) \union {t}) <= Cardinality(Token)
  BY FewTokens
<1> QED
  BY <1>2, <1>3, <1>4

(* A step that does not append: it leaves the slice alone, and what has    *)
(* loaded from it or is done with it.                                      *)
Outside ==
    /\ UNCHANGED <<seen, funds, heap, wild>>
    /\ overlapped => overlapped'
    /\ \A t \in Token :
          IF pc[t] \in Early
          THEN pc'[t] \in Early \/ (pc'[t] = "done" /\ t \in failed')
          ELSE pc'[t] = pc[t] /\ (t \in failed' <=> t \in failed) /\ (t \in list => t \in list')

LEMMA OutsideKeeps ==
    ASSUME ControlType, SliceInv, Outside
    PROVE  SliceInv'
<1> USE DEF SliceInv
<1>1. Stored' = Stored /\ Entered' = Entered
  BY DEF Outside, Stored, Entered, Early
<1>2. \A t \in Token : pc'[t] \in Appending <=> pc[t] \in Appending
  BY DEF Outside, Early, Appending
<1>3. \A t \in Token : pc[t] \in Appending => pc'[t] = pc[t]
  BY DEF Outside, Early, Appending
<1>4. SliceType'
  BY <1>2, <1>3 DEF SliceType, Outside
<1>5. ArrayInv'
  <2>1. ASSUME NEW a \in DOMAIN heap, NEW t \in Token, NEW i \in 1..Len(heap[a]), heap[a][i] = t
        PROVE  pc'[t] = "done" /\ t \in list' /\ t \notin failed' /\ i = seen[t].len + 1
    BY <2>1 DEF ArrayInv, Outside, Early
  <2>2. \A t \in Token : t \in DOMAIN heap => pc'[t] \notin Early \union {"len", "cap", "append"}
    BY <1>2, <1>3 DEF ArrayInv, Outside, Early, Appending
  <2> QED
    BY <2>1, <2>2 DEF ArrayInv, Outside
<1>6. LengthInv'
  BY <1>1 DEF LengthInv, Outside
<1>7. TurnInv'
  <2> SUFFICES ASSUME ~overlapped'
               PROVE  /\ ~wild'
                      /\ \A f, g \in Token : pc'[f] \in Appending /\ pc'[g] \in Appending => f = g
                      /\ \A g \in Token : Turn(g)'
                      /\ (\A g \in Token : pc'[g] # "setPtr") => funds'.cap = Len(heap'[funds'.ptr])
                      /\ (\A g \in Token : pc'[g] # "setElem") => funds'.len = Cardinality(Entered') + 1
                      /\ Kept(funds.ptr, Cardinality(Entered) + 1)'
    BY DEF TurnInv
  <2>1. ~overlapped /\ UNCHANGED <<seen, funds, heap, wild>>
    BY DEF Outside
  <2>2. \A g \in Token : pc'[g] \in Appending => Turn(g)'
    BY <1>1, <1>2, <1>3, <2>1 DEF TurnInv, Turn, Kept
  <2>3. \A g \in Token : pc'[g] \notin Appending => Turn(g)'
    BY DEF Turn, Appending
  <2>4. \A g \in Token : /\ pc[g] = "setPtr" => pc'[g] = "setPtr"
                         /\ pc[g] = "setElem" => pc'[g] = "setElem"
    BY <1>3 DEF Appending
  <2>5. Kept(funds.ptr, Cardinality(Entered) + 1)'
    BY <1>1, <2>1 DEF TurnInv, Kept
  <2> QED
    BY <1>1, <1>2, <2>1, <2>2, <2>3, <2>4, <2>5 DEF TurnInv
<1> QED
  BY <1>4, <1>5, <1>6, <1>7

(* Everything that is not an append is outside, and keeps the control.     *)
LEMMA ReadStep ==
    ASSUME ControlType, HandlerInv, Funds!Read PROVE ControlType' /\ HandlerInv' /\ Outside
<1>1. /\ main = "read" /\ list' = list
      /\ UNCHANGED <<pc, seen, funds, heap, wild, writing, prices, cached, in, failed, overlapped, dead>>
      /\ \/ main' = "gather" /\ UNCHANGED <<replies, reply>>
         \/ main' = "replied" /\ replies' = replies + 1 /\ reply' = <<>>
  BY DEF Funds!Read, Funds!Reply, Funds!Unchanged, Funds!slice, Funds!prici, Funds!rest
<1>2. ControlType'
  <2>1. <<>> \in Seq(Funds!Cells)
    OBVIOUS
  <2>2. reply' \in Seq(Funds!Cells) /\ main' \in {"gather", "replied"}
    BY <1>1, <2>1 DEF ControlType
  <2>3. replies' \in Nat
    BY <1>1 DEF ControlType
  <2>4. UNCHANGED <<in, list, pc, writing, prices, cached, failed, overlapped, dead>>
    BY <1>1
  <2> QED
    BY <2>2, <2>3, <2>4 DEF ControlType
<1>3. HandlerInv'
  BY <1>1 DEF HandlerInv, ControlType
<1>4. \A t \in Token : pc[t] = "none"
  BY <1>1 DEF HandlerInv
<1> QED
  BY <1>1, <1>2, <1>3, <1>4 DEF Outside, Early

LEMMA GatherStep ==
    ASSUME ControlType, HandlerInv, Funds!Gather PROVE ControlType' /\ HandlerInv' /\ Outside
<1>1. /\ main = "gather" /\ main' = "prices"
      /\ UNCHANGED <<pc, seen, funds, heap, wild, writing, prices, cached, in, failed, overlapped, dead, reply>>
  BY DEF Funds!Gather, Funds!slice, Funds!prici
<1>2. list' \subseteq Token /\ replies' \in Nat
  <2>1. \A s : Funds!From(s) \subseteq Token
    BY DEF Funds!From
  <2>2. CASE list' = Funds!From("row") /\ UNCHANGED replies
    BY <2>1, <2>2 DEF ControlType
  <2>3. ASSUME NEW new \in SUBSET Funds!From("new"),
               list' = Funds!From("row") \union Funds!From("held") \union new,
               replies' = replies + Cardinality(Funds!From("new") \ new)
        PROVE  list' \subseteq Token /\ replies' \in Nat
    <3>1. Funds!From("new") \ new \subseteq Token
      BY <2>1
    <3>2. Cardinality(Funds!From("new") \ new) \in Nat
      BY <3>1, FewTokens
    <3> QED
      BY <2>1, <2>3, <3>2 DEF ControlType
  <2> QED
    BY <2>2, <2>3, SameCount DEF Funds!Gather
<1>3. \A t \in Token : pc[t] = "none"
  BY <1>1 DEF HandlerInv
<1>4. ControlType' /\ HandlerInv'
  BY <1>1, <1>2, <1>3 DEF ControlType, HandlerInv
<1> QED
  BY <1>1, <1>3, <1>4 DEF Outside, Early

LEMMA SpawnStep ==
    ASSUME ControlType, HandlerInv, Funds!Spawn PROVE ControlType' /\ HandlerInv' /\ Outside
<1>1. /\ main = "prices" /\ main' = "wait"
      /\ pc' = [t \in Token |-> IF t \in list THEN "price" ELSE "none"]
      /\ UNCHANGED <<list, seen, funds, heap, wild, writing, prices, cached, in, failed, overlapped, dead, reply, replies>>
  BY DEF Funds!Spawn, Funds!slice, Funds!prici, Funds!rest
<1>2. \A t \in Token : pc[t] = "none" /\ pc'[t] = IF t \in list THEN "price" ELSE "none"
  BY <1>1 DEF HandlerInv
<1>3. ControlType'
  BY <1>1 DEF ControlType, Early
<1>4. HandlerInv'
  BY <1>1, <1>2 DEF HandlerInv, ControlType
<1> QED
  BY <1>1, <1>2, <1>3, <1>4 DEF Outside, Early

LEMMA WaitStep ==
    ASSUME ControlType, HandlerInv, Funds!Wait PROVE ControlType' /\ HandlerInv' /\ Outside
<1>1. /\ main = "wait" /\ main' = "save" /\ \A t \in list : pc[t] = "done"
      /\ UNCHANGED <<pc, list, seen, funds, heap, wild, writing, prices, cached, in, failed, overlapped, dead, reply, replies>>
  BY DEF Funds!Wait, Funds!slice, Funds!prici, Funds!rest, Funds!Unchanged
<1> QED
  BY <1>1 DEF ControlType, HandlerInv, Outside

(* A goroutine at work: the page waits for it. *)
GoroutineFrame == UNCHANGED <<main, list, replies, reply, cached, in>>

LEMMA PcMoves ==
    ASSUME ControlType, NEW t \in Token, NEW to \in Early \union Appending \union {"done"},
           pc' = [pc EXCEPT ![t] = to]
    PROVE  /\ pc' \in [Token -> Early \union Appending \union {"done"}]
           /\ pc'[t] = to /\ \A g \in Token : g # t => pc'[g] = pc[g]
BY DEF ControlType

LEMMA HandlerFrame ==
    ASSUME ControlType, HandlerInv, GoroutineFrame, NEW t \in Token,
           pc[t] \notin {"none", "done"}, pc'[t] # "none", \A g \in Token : g # t => pc'[g] = pc[g],
           \A g \in Token : g \in failed' <=> g \in failed \/ (g = t /\ t \in failed' /\ pc'[t] = "done"),
           \A g \in Token : g \in writing' <=> IF g = t THEN pc'[t] = "map" ELSE g \in writing,
           failed' \subseteq Token
    PROVE  HandlerInv' /\ main = "wait" /\ t \in list
<1>1. main = "wait" /\ t \in list
  BY DEF HandlerInv, ControlType
<1>2. \A g \in failed' : pc'[g] = "done"
  BY DEF HandlerInv
<1> QED
  BY <1>1, <1>2 DEF HandlerInv, GoroutineFrame

LEMMA PriceStep ==
    ASSUME ControlType, HandlerInv, NEW t \in Token, Funds!Price(t)
    PROVE  ControlType' /\ HandlerInv' /\ Outside
<1>1. /\ pc[t] = "price" /\ GoroutineFrame
      /\ UNCHANGED <<seen, funds, heap, wild, prices, failed>>
  BY DEF Funds!Price, Funds!slice, Funds!handler, Funds!rest, GoroutineFrame
<1>2. PICK to \in {"map", "balance"} :
          /\ pc' = [pc EXCEPT ![t] = to]
          /\ writing' = IF to = "map" THEN writing \union {t} ELSE writing
  BY DEF Funds!Price, Funds!Go
<1>3. /\ pc' \in [Token -> Early \union Appending \union {"done"}]
      /\ pc'[t] = to /\ \A g \in Token : g # t => pc'[g] = pc[g]
  BY <1>2, PcMoves DEF Early
<1>4. overlapped' \in BOOLEAN /\ dead' \in BOOLEAN /\ (overlapped => overlapped')
  BY DEF Funds!Price, ControlType
<1>5. t \notin failed
  BY <1>1 DEF HandlerInv
<1>6. HandlerInv'
  BY <1>1, <1>2, <1>3, <1>5, HandlerFrame DEF HandlerInv, ControlType
<1>7. ControlType'
  BY <1>1, <1>2, <1>3, <1>4 DEF ControlType, GoroutineFrame
<1> QED
  BY <1>1, <1>3, <1>4, <1>6, <1>7 DEF Outside, Early, GoroutineFrame

LEMMA SetPriceStep ==
    ASSUME ControlType, HandlerInv, NEW t \in Token, Funds!SetPrice(t)
    PROVE  ControlType' /\ HandlerInv' /\ Outside
<1>1. /\ pc[t] = "map" /\ pc' = [pc EXCEPT ![t] = "balance"] /\ GoroutineFrame
      /\ UNCHANGED <<seen, funds, heap, wild, failed, overlapped, dead>>
      /\ writing' = writing \ {t} /\ prices' \in {prices, prices \union {t}}
  BY DEF Funds!SetPrice, Funds!Go, Funds!slice, Funds!handler, Funds!rest, GoroutineFrame
<1>2. /\ pc' \in [Token -> Early \union Appending \union {"done"}]
      /\ pc'[t] = "balance" /\ \A g \in Token : g # t => pc'[g] = pc[g]
  BY <1>1, PcMoves DEF Early
<1>3. HandlerInv'
  BY <1>1, <1>2, HandlerFrame DEF HandlerInv, ControlType
<1>4. ControlType'
  BY <1>1, <1>2 DEF ControlType, GoroutineFrame
<1> QED
  BY <1>1, <1>2, <1>3, <1>4 DEF Outside, Early, GoroutineFrame

LEMMA BalanceStep ==
    ASSUME ControlType, HandlerInv, NEW t \in Token, Funds!Balance(t)
    PROVE  ControlType' /\ HandlerInv' /\ Outside
<1>1. /\ pc[t] = "balance" /\ GoroutineFrame
      /\ UNCHANGED <<seen, funds, heap, wild, overlapped, dead, writing, prices>>
  BY DEF Funds!Balance, Funds!Go, Funds!slice, Funds!handler, Funds!prici, GoroutineFrame
<1>2. PICK to \in {"cash", "done"} :
          /\ pc' = [pc EXCEPT ![t] = to]
          /\ failed' = IF to = "done" THEN failed \union {t} ELSE failed
  BY DEF Funds!Balance, Funds!Go
<1>3. /\ pc' \in [Token -> Early \union Appending \union {"done"}]
      /\ pc'[t] = to /\ \A g \in Token : g # t => pc'[g] = pc[g]
  BY <1>2, PcMoves DEF Early
<1>4. t \notin failed /\ t \notin writing /\ failed' \subseteq Token
  BY <1>1, <1>2 DEF HandlerInv, ControlType
<1>5. HandlerInv'
  BY <1>1, <1>2, <1>3, <1>4, HandlerFrame
<1>6. ControlType'
  BY <1>1, <1>3, <1>4 DEF ControlType, GoroutineFrame
<1> QED
  BY <1>1, <1>2, <1>3, <1>4, <1>5, <1>6 DEF Outside, Early, GoroutineFrame

LEMMA CashStep ==
    ASSUME ControlType, HandlerInv, NEW t \in Token, Funds!Cash(t)
    PROVE  ControlType' /\ HandlerInv' /\ Outside
<1>1. /\ pc[t] = "cash" /\ pc' = [pc EXCEPT ![t] = "ptr"] /\ GoroutineFrame
      /\ UNCHANGED <<seen, funds, heap, wild, failed, overlapped, writing, prices>>
      /\ dead' = (dead \/ Funds!CashPanics(in.book[t]))
  BY DEF Funds!Cash, Funds!Go, Funds!slice, Funds!handler, Funds!rest, Funds!prici, GoroutineFrame
<1>2. /\ pc' \in [Token -> Early \union Appending \union {"done"}]
      /\ pc'[t] = "ptr" /\ \A g \in Token : g # t => pc'[g] = pc[g]
  BY <1>1, PcMoves DEF Early
<1>3. HandlerInv'
  BY <1>1, <1>2, HandlerFrame DEF HandlerInv, ControlType
<1>4. dead' \in BOOLEAN
  BY <1>1, Zenon DEF ControlType, Funds!CashPanics
<1>5. ControlType'
  BY <1>1, <1>2, <1>4 DEF ControlType, GoroutineFrame
<1> QED
  BY <1>1, <1>2, <1>3, <1>5 DEF Outside, Early, GoroutineFrame

(* A step of an append: only the program counter of t, its header, the     *)
(* slice and the arrays.                                                   *)
AppendFrame(t, from, to) ==
    /\ pc[t] = from /\ pc' = [pc EXCEPT ![t] = to]
    /\ GoroutineFrame /\ UNCHANGED <<writing, prices, failed, dead>>
SeenBut(t) == seen' \in [Token -> SliceHeader] /\ \A g \in Token \ {t} : seen'[g] = seen[g]

LEMMA AppendControl ==
    ASSUME ControlType, HandlerInv, NEW t \in Token, NEW from \in {"ptr"} \union Appending,
           NEW to \in Appending \union {"done"}, AppendFrame(t, from, to), overlapped' \in BOOLEAN
    PROVE  /\ ControlType' /\ HandlerInv' /\ t \in list /\ t \notin failed
           /\ pc'[t] = to /\ \A g \in Token : g # t => pc'[g] = pc[g]
<1>1. /\ pc' \in [Token -> Early \union Appending \union {"done"}]
      /\ pc'[t] = to /\ \A g \in Token : g # t => pc'[g] = pc[g]
  BY PcMoves DEF AppendFrame
<1>2. t \notin failed /\ t \notin writing /\ failed' = failed
  BY DEF AppendFrame, HandlerInv, Appending
<1>3. HandlerInv' /\ t \in list
  BY <1>1, <1>2, HandlerFrame DEF AppendFrame, Appending, ControlType
<1>4. ControlType'
  BY <1>1 DEF AppendFrame, GoroutineFrame, ControlType
<1> QED
  BY <1>1, <1>2, <1>3, <1>4

LEMMA LoadPtrFacts ==
    ASSUME SliceType, ControlType, NEW t \in Token, Funds!LoadPtr(t)
    PROVE  /\ AppendFrame(t, "ptr", "len") /\ UNCHANGED <<funds, heap, wild>> /\ SeenBut(t)
           /\ seen'[t].ptr = funds.ptr /\ seen'[t].len = seen[t].len
           /\ overlapped' \in BOOLEAN /\ (overlapped => overlapped')
           /\ ~overlapped' => \A g \in Token : pc[g] \notin Appending
<1>1. /\ pc[t] = "ptr" /\ pc' = [pc EXCEPT ![t] = "len"]
      /\ seen' = [seen EXCEPT ![t]["ptr"] = funds["ptr"]]
      /\ UNCHANGED <<main, list, replies, reply, funds, heap, wild, writing, prices, cached, in, failed, dead>>
  BY DEF Funds!LoadPtr, Funds!Load, Funds!Go, Funds!handler, Funds!prici, Funds!rest
<1>2. overlapped' = (overlapped \/ \E g \in Token : Funds!Appending(g))
  BY DEF Funds!LoadPtr
<1>3. \A g \in Token : pc[g] \in Appending => Funds!Appending(g)
  BY DEF Funds!Appending, Appending
<1>4. overlapped' \in BOOLEAN /\ (overlapped => overlapped')
  BY <1>2, Zenon DEF ControlType
<1>5. ~overlapped' => \A g \in Token : pc[g] \notin Appending
  BY <1>2, <1>3, Zenon
<1>6. SeenBut(t) /\ seen'[t].ptr = funds.ptr /\ seen'[t].len = seen[t].len
  BY <1>1 DEF SliceType, SliceHeader, SeenBut
<1> QED
  BY <1>1, <1>4, <1>5, <1>6 DEF AppendFrame, GoroutineFrame

LEMMA LoadLenFacts ==
    ASSUME SliceType, NEW t \in Token, Funds!LoadLen(t)
    PROVE  /\ AppendFrame(t, "len", "cap") /\ UNCHANGED <<funds, heap, wild, overlapped>> /\ SeenBut(t)
           /\ seen'[t].ptr = seen[t].ptr /\ seen'[t].len = funds.len
<1>1. /\ pc[t] = "len" /\ pc' = [pc EXCEPT ![t] = "cap"]
      /\ seen' = [seen EXCEPT ![t]["len"] = funds["len"]]
      /\ UNCHANGED <<main, list, replies, reply, funds, heap, wild, writing, prices, cached, in, failed, dead, overlapped>>
  BY DEF Funds!LoadLen, Funds!Load, Funds!Go, Funds!handler, Funds!prici, Funds!rest
<1>2. SeenBut(t) /\ seen'[t].ptr = seen[t].ptr /\ seen'[t].len = funds.len
  BY <1>1 DEF SliceType, SliceHeader, SeenBut
<1> QED
  BY <1>1, <1>2 DEF AppendFrame, GoroutineFrame

LEMMA LoadCapFacts ==
    ASSUME SliceType, NEW t \in Token, Funds!LoadCap(t)
    PROVE  /\ AppendFrame(t, "cap", "append") /\ UNCHANGED <<funds, heap, wild, overlapped>> /\ SeenBut(t)
           /\ seen'[t].ptr = seen[t].ptr /\ seen'[t].len = seen[t].len /\ seen'[t].cap = funds.cap
<1>1. /\ pc[t] = "cap" /\ pc' = [pc EXCEPT ![t] = "append"]
      /\ seen' = [seen EXCEPT ![t]["cap"] = funds["cap"]]
      /\ UNCHANGED <<main, list, replies, reply, funds, heap, wild, writing, prices, cached, in, failed, dead, overlapped>>
  BY DEF Funds!LoadCap, Funds!Load, Funds!Go, Funds!handler, Funds!prici, Funds!rest
<1>2. SeenBut(t) /\ seen'[t].ptr = seen[t].ptr /\ seen'[t].len = seen[t].len /\ seen'[t].cap = funds.cap
  BY <1>1 DEF SliceType, SliceHeader, SeenBut
<1> QED
  BY <1>1, <1>2 DEF AppendFrame, GoroutineFrame

LEMMA StoreCapFacts ==
    ASSUME SliceType, NEW t \in Token, Funds!StoreCap(t)
    PROVE  /\ AppendFrame(t, "setCap", "setPtr") /\ UNCHANGED <<seen, heap, wild, overlapped>>
           /\ funds' \in SliceHeader
           /\ funds'.ptr = funds.ptr /\ funds'.len = funds.len /\ funds'.cap = seen[t].cap
<1>1. /\ pc[t] = "setCap" /\ pc' = [pc EXCEPT ![t] = "setPtr"]
      /\ funds' = [funds EXCEPT !["cap"] = seen[t].cap]
      /\ UNCHANGED <<main, list, replies, reply, seen, heap, wild, writing, prices, cached, in, failed, dead, overlapped>>
  BY DEF Funds!StoreCap, Funds!Store, Funds!Go, Funds!handler, Funds!prici, Funds!rest
<1>2. funds' \in SliceHeader /\ funds'.ptr = funds.ptr /\ funds'.len = funds.len /\ funds'.cap = seen[t].cap
  BY <1>1 DEF SliceType, SliceHeader
<1> QED
  BY <1>1, <1>2 DEF AppendFrame, GoroutineFrame

LEMMA StorePtrFacts ==
    ASSUME SliceType, NEW t \in Token, Funds!StorePtr(t)
    PROVE  /\ AppendFrame(t, "setPtr", "setLen") /\ UNCHANGED <<seen, heap, wild, overlapped>>
           /\ funds' \in SliceHeader
           /\ funds'.ptr = seen[t].ptr /\ funds'.len = funds.len /\ funds'.cap = funds.cap
<1>1. /\ pc[t] = "setPtr" /\ pc' = [pc EXCEPT ![t] = "setLen"]
      /\ funds' = [funds EXCEPT !["ptr"] = seen[t].ptr]
      /\ UNCHANGED <<main, list, replies, reply, seen, heap, wild, writing, prices, cached, in, failed, dead, overlapped>>
  BY DEF Funds!StorePtr, Funds!Store, Funds!Go, Funds!handler, Funds!prici, Funds!rest
<1>2. funds' \in SliceHeader /\ funds'.ptr = seen[t].ptr /\ funds'.len = funds.len /\ funds'.cap = funds.cap
  BY <1>1 DEF SliceType, SliceHeader
<1> QED
  BY <1>1, <1>2 DEF AppendFrame, GoroutineFrame

LEMMA StoreLenFacts ==
    ASSUME SliceType, NEW t \in Token, Funds!StoreLen(t)
    PROVE  /\ AppendFrame(t, "setLen", "setElem") /\ UNCHANGED <<seen, heap, wild, overlapped>>
           /\ funds' \in SliceHeader
           /\ funds'.ptr = funds.ptr /\ funds'.len = seen[t].len + 1 /\ funds'.cap = funds.cap
<1>1. /\ pc[t] = "setLen" /\ pc' = [pc EXCEPT ![t] = "setElem"]
      /\ funds' = [funds EXCEPT !["len"] = seen[t].len + 1]
      /\ UNCHANGED <<main, list, replies, reply, seen, heap, wild, writing, prices, cached, in, failed, dead, overlapped>>
  BY DEF Funds!StoreLen, Funds!Store, Funds!Go, Funds!handler, Funds!prici, Funds!rest
<1>2. funds' \in SliceHeader /\ funds'.ptr = funds.ptr /\ funds'.len = seen[t].len + 1 /\ funds'.cap = funds.cap
  <2>1. seen[t] \in SliceHeader /\ funds \in SliceHeader
    BY DEF SliceType
  <2>2. PICK n \in Nat : n = seen[t].len + 1
    BY <2>1 DEF SliceHeader
  <2>3. funds' = [funds EXCEPT !["len"] = n]
    BY <1>1, <2>2
  <2> QED
    BY <2>1, <2>2, <2>3 DEF SliceHeader
<1> QED
  BY <1>1, <1>2 DEF AppendFrame, GoroutineFrame

(* An array with room is used as it is; otherwise the first cells go to    *)
(* the array of t.                                                         *)
LEMMA AppendFundFacts ==
    ASSUME SliceType, NEW t \in Token, Funds!AppendFund(t)
    PROVE  /\ UNCHANGED <<funds, wild, overlapped>> /\ SeenBut(t)
           /\ seen'[t].len = seen[t].len
           /\ \/ /\ AppendFrame(t, "append", "setLen") /\ UNCHANGED <<seen, heap>>
                 /\ seen[t].len + 1 <= seen[t].cap
              \/ /\ AppendFrame(t, "append", "setCap")
                 /\ DOMAIN heap' = DOMAIN heap \union {t}
                 /\ heap' \in [DOMAIN heap' -> Seq(Funds!Cells)]
                 /\ \A a \in DOMAIN heap \ {t} : heap'[a] = heap[a]
                 /\ seen'[t].ptr = t
                 /\ seen'[t].cap = Len(heap'[t]) /\ seen[t].len + 1 <= Len(heap'[t])
                 /\ \A i \in 1..Len(heap'[t]) :
                       IF i <= seen[t].len /\ i <= Len(heap[seen[t].ptr])
                       THEN heap'[t][i] = heap[seen[t].ptr][i]
                       ELSE heap'[t][i] \in {Funds!Zero, Funds!Junk}
<1>1. /\ pc[t] = "append"
      /\ UNCHANGED <<main, list, replies, reply, funds, wild, writing, prices, cached, in, failed, dead, overlapped>>
  BY DEF Funds!AppendFund, Funds!Grow, Funds!Go, Funds!handler, Funds!prici, Funds!rest
<1>2. CASE seen[t].len + 1 <= seen[t].cap /\ Funds!Go(t, "append", "setLen") /\ UNCHANGED <<seen, heap>>
  BY <1>1, <1>2 DEF Funds!Go, AppendFrame, GoroutineFrame, SeenBut, SliceType
<1>3. CASE Funds!Grow(t)
  <2> DEFINE n == seen[t].len
             p == seen[t].ptr
             new == Funds!Max({n + 1, 2 * seen[t].cap})
  <2>0. n \in Nat /\ seen[t].cap \in Nat /\ p \in DOMAIN heap
    BY DEF SliceType, SliceHeader
  <2>1. new \in Nat /\ n + 1 <= new
    <3>1. \E x \in {n + 1, 2 * seen[t].cap} : \A y \in {n + 1, 2 * seen[t].cap} : x >= y
      BY <2>0
    <3> QED
      BY <2>0, <3>1 DEF Funds!Max
  <2>2. /\ pc' = [pc EXCEPT ![t] = "setCap"]
        /\ heap' = [a \in DOMAIN heap \union {t} |->
                       IF a = t THEN [i \in 1..new |-> IF i <= n THEN Funds!Cell(p, i) ELSE Funds!Zero]
                       ELSE heap[a]]
        /\ seen' = [seen EXCEPT ![t] = [ptr |-> t, len |-> n, cap |-> new]]
    BY <1>3 DEF Funds!Grow, Funds!Go
  <2> HIDE DEF new
  <2>3. heap'[t] = [i \in 1..new |-> IF i <= n THEN Funds!Cell(p, i) ELSE Funds!Zero]
    BY <2>2
  <2>4. heap[p] \in Seq(Funds!Cells)
    BY <2>0 DEF SliceType
  <2>5. \A i \in 1..new : (IF i <= n THEN Funds!Cell(p, i) ELSE Funds!Zero) \in Funds!Cells
    BY <2>4, PageNames DEF Funds!Cell
  <2>6. heap'[t] \in Seq(Funds!Cells) /\ Len(heap'[t]) = new
    BY <2>1, <2>3, <2>5
  <2>7. \A a \in DOMAIN heap \ {t} : heap'[a] = heap[a]
    BY <2>2
  <2>8. DOMAIN heap' = DOMAIN heap \union {t} /\ heap' \in [DOMAIN heap' -> Seq(Funds!Cells)]
    BY <2>2, <2>6, <2>7 DEF SliceType
  <2>9. SeenBut(t) /\ seen'[t].ptr = t /\ seen'[t].len = n /\ seen'[t].cap = new
    BY <2>0, <2>1, <2>2 DEF SliceType, SliceHeader, SeenBut
  <2>10. \A i \in 1..Len(heap'[t]) :
            IF i <= n /\ i <= Len(heap[p]) THEN heap'[t][i] = heap[p][i]
            ELSE heap'[t][i] \in {Funds!Zero, Funds!Junk}
    BY <2>3, <2>6 DEF Funds!Cell
  <2> QED
    BY <1>1, <2>1, <2>2, <2>6, <2>7, <2>8, <2>9, <2>10 DEF AppendFrame, GoroutineFrame
<1> QED
  BY <1>2, <1>3 DEF Funds!AppendFund

LEMMA StoreElemFacts ==
    ASSUME SliceType, NEW t \in Token, Funds!StoreElem(t)
    PROVE  /\ AppendFrame(t, "setElem", "done") /\ UNCHANGED <<seen, funds, overlapped>>
           /\ \/ /\ seen[t].len + 1 <= Len(heap[seen[t].ptr]) /\ wild' = wild
                 /\ heap' = [heap EXCEPT ![seen[t].ptr][seen[t].len + 1] = t]
              \/ ~(seen[t].len + 1 <= Len(heap[seen[t].ptr])) /\ heap' = heap /\ wild' = TRUE
BY DEF Funds!StoreElem, Funds!Go, Funds!handler, Funds!prici, Funds!rest, AppendFrame, GoroutineFrame

(* Each step of an append keeps the slice in order. *)
LEMMA AppendSets ==
    ASSUME ControlType, HandlerInv, NEW t \in Token, NEW from \in {"ptr"} \union Appending,
           NEW to \in Appending \union {"done"}, AppendFrame(t, from, to), overlapped' \in BOOLEAN
    PROVE  /\ Stored' = IF to \in {"setElem", "done"} THEN Stored \union {t} ELSE Stored \ {t}
           /\ Entered' = IF to = "done" THEN Entered \union {t} ELSE Entered
           /\ t \notin Entered /\ (t \in Stored <=> from = "setElem")
<1>1. /\ t \notin failed /\ pc'[t] = to /\ pc[t] = from /\ failed' = failed
      /\ \A g \in Token : g # t => pc'[g] = pc[g]
  BY AppendControl DEF AppendFrame
<1> QED
  BY <1>1 DEF Stored, Entered, Appending

(* No length but that of the step itself changes. *)
LEMMA LengthFrame ==
    ASSUME LengthInv, SliceType, Stored \subseteq Stored', \A g \in Token : seen'[g].len = seen[g].len
    PROVE  /\ \A g \in Token : seen'[g].len <= Cardinality(Stored' \ {g}) + 1
           /\ funds'.len = funds.len => LengthInv'
<1>1. /\ Stored \subseteq Token /\ Stored' \subseteq Token
  BY DEF Stored
<1>2. ASSUME NEW S, NEW T, S \subseteq T, T \subseteq Token
      PROVE  Cardinality(S) \in Nat /\ Cardinality(T) \in Nat /\ Cardinality(S) <= Cardinality(T)
  BY <1>2, FewTokens, FS_Subset
<1>3. Cardinality(Stored) <= Cardinality(Stored') /\ Cardinality(Stored) \in Nat /\ Cardinality(Stored') \in Nat
  BY <1>1, <1>2
<1>4. funds.len \in Nat /\ \A g \in Token : seen[g].len \in Nat
  BY DEF SliceType, SliceHeader
<1>5. funds'.len = funds.len => funds'.len <= Cardinality(Stored') + 1
  BY <1>3, <1>4 DEF LengthInv
<1>6. ASSUME NEW g \in Token
      PROVE  seen'[g].len <= Cardinality(Stored' \ {g}) + 1
  <2>1. seen'[g].len = seen[g].len /\ seen[g].len <= Cardinality(Stored \ {g}) + 1
    BY DEF LengthInv
  <2>2. /\ Cardinality(Stored \ {g}) <= Cardinality(Stored' \ {g})
        /\ Cardinality(Stored \ {g}) \in Nat /\ Cardinality(Stored' \ {g}) \in Nat
    BY <1>1, <1>2
  <2>3. seen[g].len \in Nat
    BY <1>4
  <2> QED
    BY <2>1, <2>2, <2>3
<1> QED
  BY <1>5, <1>6, Zenon DEF LengthInv

(* Arrays at rest: a header loaded or a word stored moves no cell.         *)
LEMMA ArrayFrame ==
    ASSUME ArrayInv, SliceType, HandlerInv, ControlType, heap' = heap, NEW t \in Token,
           NEW from \in {"ptr"} \union Appending, NEW to \in Appending, AppendFrame(t, from, to),
           overlapped' \in BOOLEAN, \A g \in Token : g # t => seen'[g] = seen[g],
           to \in {"len", "cap", "append"} => from \in {"ptr", "len", "cap"}
    PROVE  ArrayInv'
<1>1. /\ pc[t] = from /\ pc'[t] = to /\ failed' = failed /\ list' = list
      /\ \A g \in Token : g # t => pc'[g] = pc[g]
  BY AppendControl DEF AppendFrame, GoroutineFrame
<1>2. ASSUME NEW a \in DOMAIN heap, NEW g \in Token, NEW i \in 1..Len(heap[a]), heap[a][i] = g
      PROVE  pc'[g] = "done" /\ g \in list' /\ g \notin failed' /\ i = seen'[g].len + 1
  <2>1. pc[g] = "done" /\ g \in list /\ g \notin failed /\ i = seen[g].len + 1
    BY <1>2 DEF ArrayInv
  <2>2. g # t
    BY <1>1, <2>1 DEF Appending
  <2> QED
    BY <1>1, <2>1, <2>2
<1> QED
  BY <1>1, <1>2 DEF ArrayInv, Appending, Early

(* Alone, t has the slice in its hands. *)
Alone(t) ==
    /\ ~wild /\ \A g \in Token : g # t => pc[g] \notin Appending
    /\ Turn(t)
    /\ pc[t] # "setPtr" => funds.cap = Len(heap[funds.ptr])
    /\ pc[t] # "setElem" => funds.len = Cardinality(Entered) + 1
    /\ Kept(funds.ptr, Cardinality(Entered) + 1)

LEMMA TurnBefore ==
    ASSUME TurnInv, ~overlapped, NEW t \in Token,
           pc[t] \in Appending \/ \A g \in Token : pc[g] \notin Appending
    PROVE  Alone(t)
<1>1. \A g \in Token : g # t => pc[g] \notin Appending
  BY DEF TurnInv
<1>2. \A g \in Token : g # t => pc[g] # "setPtr" /\ pc[g] # "setElem"
  BY <1>1 DEF Appending
<1> QED
  BY <1>1, <1>2 DEF TurnInv, Alone

LEMMA TurnAfter ==
    ASSUME NEW t \in Token, ~overlapped' => Alone(t)'
    PROVE  TurnInv'
<1> SUFFICES ASSUME ~overlapped'
             PROVE  /\ ~wild'
                    /\ \A f, g \in Token : pc'[f] \in Appending /\ pc'[g] \in Appending => f = g
                    /\ \A g \in Token : Turn(g)'
                    /\ (\A g \in Token : pc'[g] # "setPtr") => funds'.cap = Len(heap'[funds'.ptr])
                    /\ (\A g \in Token : pc'[g] # "setElem") => funds'.len = Cardinality(Entered') + 1
                    /\ Kept(funds.ptr, Cardinality(Entered) + 1)'
  BY DEF TurnInv
<1>1. \A g \in Token : g # t => pc'[g] \notin Appending
  BY DEF Alone
<1>2. \A g \in Token : g # t => Turn(g)'
  BY <1>1 DEF Turn, Appending
<1> QED
  BY <1>1, <1>2 DEF Alone

LEMMA LoadPtrStep ==
    ASSUME ControlType, HandlerInv, SliceInv, NEW t \in Token, Funds!LoadPtr(t)
    PROVE  SliceInv' /\ AppendFrame(t, "ptr", "len") /\ overlapped' \in BOOLEAN
<1> USE DEF SliceInv
<1>1. /\ AppendFrame(t, "ptr", "len") /\ UNCHANGED <<funds, heap, wild>> /\ SeenBut(t)
      /\ seen'[t].ptr = funds.ptr /\ seen'[t].len = seen[t].len
      /\ overlapped' \in BOOLEAN /\ (overlapped => overlapped')
      /\ ~overlapped' => \A g \in Token : pc[g] \notin Appending
  BY LoadPtrFacts
<1>2. pc'[t] = "len" /\ \A g \in Token : g # t => pc'[g] = pc[g]
  BY <1>1, AppendControl DEF Appending
<1>3. Entered' = Entered /\ Stored' = Stored
  <2>1. "ptr" \in {"ptr"} \union Appending /\ "len" \in Appending \union {"done"}
    BY DEF Appending
  <2>2. Entered' = Entered /\ Stored' = Stored \ {t} /\ t \notin Stored
    BY <1>1, <2>1, AppendSets
  <2> QED
    BY <2>2
<1>4. SliceType'
  BY <1>1, <1>2 DEF SliceType, SeenBut
<1>5. ArrayInv'
  BY <1>1, ArrayFrame DEF Appending, SeenBut
<1>6. LengthInv'
  BY <1>1, <1>3, <1>4, LengthFrame DEF SeenBut
<1>7. TurnInv'
  <2>1. ASSUME ~overlapped' PROVE Alone(t)'
    <3>1. Alone(t)
      BY <1>1, <2>1, TurnBefore
    <3>2. Kept(funds.ptr, Cardinality(Entered) + 1)'
      BY <1>1, <1>3, <3>1 DEF Alone, Kept
    <3>3. pc[t] = "ptr"
      BY <1>1 DEF AppendFrame
    <3> QED
      BY <1>1, <1>2, <1>3, <3>1, <3>2, <3>3 DEF Alone, Turn
  <2> QED
    BY <2>1, TurnAfter
<1> QED
  BY <1>1, <1>4, <1>5, <1>6, <1>7

LEMMA LoadLenStep ==
    ASSUME ControlType, HandlerInv, SliceInv, NEW t \in Token, Funds!LoadLen(t)
    PROVE  SliceInv' /\ AppendFrame(t, "len", "cap") /\ overlapped' = overlapped
<1> USE DEF SliceInv
<1>1. /\ AppendFrame(t, "len", "cap") /\ UNCHANGED <<funds, heap, wild, overlapped>> /\ SeenBut(t)
      /\ seen'[t].ptr = seen[t].ptr /\ seen'[t].len = funds.len
      /\ overlapped' \in BOOLEAN
  BY LoadLenFacts DEF ControlType
<1>2. pc[t] = "len" /\ pc'[t] = "cap" /\ \A g \in Token : g # t => pc'[g] = pc[g]
  BY <1>1, AppendControl DEF Appending, AppendFrame
<1>3. Entered' = Entered /\ Stored' = Stored /\ t \notin Stored
  <2>1. "len" \in {"ptr"} \union Appending /\ "cap" \in Appending \union {"done"}
    BY DEF Appending
  <2>2. Entered' = Entered /\ Stored' = Stored \ {t} /\ t \notin Stored
    BY <1>1, <2>1, AppendSets
  <2> QED
    BY <2>2
<1>4. SliceType'
  BY <1>1, <1>2 DEF SliceType, SeenBut
<1>5. ArrayInv'
  BY <1>1, ArrayFrame DEF Appending, SeenBut
<1>6. LengthInv'
  <2>1. Stored \ {t} = Stored
    BY <1>3
  <2> QED
    BY <1>1, <1>3, <2>1 DEF LengthInv, SeenBut
<1>7. TurnInv'
  <2>1. ASSUME ~overlapped' PROVE Alone(t)'
    <3>1. Alone(t)
      BY <1>1, <1>2, <2>1, TurnBefore DEF Appending
    <3>2. Kept(funds.ptr, Cardinality(Entered) + 1)'
      BY <1>1, <1>3, <3>1 DEF Alone, Kept
    <3> QED
      BY <1>1, <1>2, <1>3, <3>1, <3>2 DEF Alone, Turn
  <2> QED
    BY <2>1, TurnAfter
<1> QED
  BY <1>1, <1>4, <1>5, <1>6, <1>7

LEMMA LoadCapStep ==
    ASSUME ControlType, HandlerInv, SliceInv, NEW t \in Token, Funds!LoadCap(t)
    PROVE  SliceInv' /\ AppendFrame(t, "cap", "append") /\ overlapped' = overlapped
<1> USE DEF SliceInv
<1>1. /\ AppendFrame(t, "cap", "append") /\ UNCHANGED <<funds, heap, wild, overlapped>> /\ SeenBut(t)
      /\ seen'[t].ptr = seen[t].ptr /\ seen'[t].len = seen[t].len /\ seen'[t].cap = funds.cap
      /\ overlapped' \in BOOLEAN
  BY LoadCapFacts DEF ControlType
<1>2. pc[t] = "cap" /\ pc'[t] = "append" /\ \A g \in Token : g # t => pc'[g] = pc[g]
  BY <1>1, AppendControl DEF Appending, AppendFrame
<1>3. Entered' = Entered /\ Stored' = Stored
  <2>1. "cap" \in {"ptr"} \union Appending /\ "append" \in Appending \union {"done"}
    BY DEF Appending
  <2>2. Entered' = Entered /\ Stored' = Stored \ {t} /\ t \notin Stored
    BY <1>1, <2>1, AppendSets
  <2> QED
    BY <2>2
<1>4. SliceType'
  BY <1>1, <1>2 DEF SliceType, SeenBut, Appending
<1>5. ArrayInv'
  BY <1>1, ArrayFrame DEF Appending, SeenBut
<1>6. LengthInv'
  BY <1>1, <1>3, <1>4, LengthFrame DEF SeenBut
<1>7. TurnInv'
  <2>1. ASSUME ~overlapped' PROVE Alone(t)'
    <3>1. Alone(t)
      BY <1>1, <1>2, <2>1, TurnBefore DEF Appending
    <3>2. Kept(funds.ptr, Cardinality(Entered) + 1)'
      BY <1>1, <1>3, <3>1 DEF Alone, Kept
    <3> QED
      BY <1>1, <1>2, <1>3, <3>1, <3>2 DEF Alone, Turn
  <2> QED
    BY <2>1, TurnAfter
<1> QED
  BY <1>1, <1>4, <1>5, <1>6, <1>7

LEMMA StoreCapStep ==
    ASSUME ControlType, HandlerInv, SliceInv, NEW t \in Token, Funds!StoreCap(t)
    PROVE  SliceInv' /\ AppendFrame(t, "setCap", "setPtr") /\ overlapped' = overlapped
<1> USE DEF SliceInv
<1>1. /\ AppendFrame(t, "setCap", "setPtr") /\ UNCHANGED <<seen, heap, wild, overlapped>>
      /\ funds' \in SliceHeader
      /\ funds'.ptr = funds.ptr /\ funds'.len = funds.len /\ funds'.cap = seen[t].cap
      /\ overlapped' \in BOOLEAN
  BY StoreCapFacts DEF ControlType
<1>2. pc[t] = "setCap" /\ pc'[t] = "setPtr" /\ \A g \in Token : g # t => pc'[g] = pc[g]
  BY <1>1, AppendControl DEF Appending, AppendFrame
<1>3. Entered' = Entered /\ Stored' = Stored
  <2>1. "setCap" \in {"ptr"} \union Appending /\ "setPtr" \in Appending \union {"done"}
    BY DEF Appending
  <2>2. Entered' = Entered /\ Stored' = Stored \ {t} /\ t \notin Stored
    BY <1>1, <2>1, AppendSets
  <2> QED
    BY <2>2
<1>4. SliceType'
  <2>1. \A g \in Token : pc'[g] \in Appending \ {"len"} => seen'[g].len >= 1
    BY <1>1, <1>2 DEF SliceType, Appending
  <2>2. funds'.ptr \in DOMAIN heap' /\ funds'.len >= 1
    BY <1>1 DEF SliceType
  <2> QED
    BY <1>1, <2>1, <2>2 DEF SliceType
<1>5. ArrayInv'
  BY <1>1, ArrayFrame DEF Appending
<1>6. LengthInv'
  BY <1>1, <1>3, <1>4, LengthFrame
<1>7. TurnInv'
  <2>1. ASSUME ~overlapped' PROVE Alone(t)'
    <3>1. Alone(t)
      BY <1>1, <1>2, <2>1, TurnBefore DEF Appending
    <3>2. Kept(funds.ptr, Cardinality(Entered) + 1)' /\ (Kept(seen[t].ptr, seen[t].len) => Kept(seen[t].ptr, seen[t].len)')
      BY <1>1, <1>3, <3>1 DEF Alone, Kept
    <3> QED
      BY <1>1, <1>2, <1>3, <3>1, <3>2 DEF Alone, Turn
  <2> QED
    BY <2>1, TurnAfter
<1> QED
  BY <1>1, <1>4, <1>5, <1>6, <1>7

(* The new array has everything that had entered the old one. *)
LEMMA StorePtrStep ==
    ASSUME ControlType, HandlerInv, SliceInv, NEW t \in Token, Funds!StorePtr(t)
    PROVE  SliceInv' /\ AppendFrame(t, "setPtr", "setLen") /\ overlapped' = overlapped
<1> USE DEF SliceInv
<1>1. /\ AppendFrame(t, "setPtr", "setLen") /\ UNCHANGED <<seen, heap, wild, overlapped>>
      /\ funds' \in SliceHeader
      /\ funds'.ptr = seen[t].ptr /\ funds'.len = funds.len /\ funds'.cap = funds.cap
      /\ overlapped' \in BOOLEAN
  BY StorePtrFacts DEF ControlType
<1>2. pc[t] = "setPtr" /\ pc'[t] = "setLen" /\ \A g \in Token : g # t => pc'[g] = pc[g]
  BY <1>1, AppendControl DEF Appending, AppendFrame
<1>3. Entered' = Entered /\ Stored' = Stored
  <2>1. "setPtr" \in {"ptr"} \union Appending /\ "setLen" \in Appending \union {"done"}
    BY DEF Appending
  <2>2. Entered' = Entered /\ Stored' = Stored \ {t} /\ t \notin Stored
    BY <1>1, <2>1, AppendSets
  <2> QED
    BY <2>2
<1>4. SliceType'
  <2>1. \A g \in Token : pc'[g] \in Appending \ {"len"} => seen'[g].len >= 1
    BY <1>1, <1>2 DEF SliceType, Appending
  <2>2. funds'.ptr \in DOMAIN heap' /\ funds'.len >= 1
    BY <1>1 DEF SliceType
  <2> QED
    BY <1>1, <2>1, <2>2 DEF SliceType
<1>5. ArrayInv'
  BY <1>1, ArrayFrame DEF Appending
<1>6. LengthInv'
  BY <1>1, <1>3, <1>4, LengthFrame
<1>7. TurnInv'
  <2>1. ASSUME ~overlapped' PROVE Alone(t)'
    <3>1. Alone(t)
      BY <1>1, <1>2, <2>1, TurnBefore DEF Appending
    <3>2. seen[t].len = Cardinality(Entered) + 1 /\ Kept(seen[t].ptr, seen[t].len)
      BY <1>2, <3>1 DEF Alone, Turn
    <3>3. Kept(funds.ptr, Cardinality(Entered) + 1)'
      BY <1>1, <1>3, <3>2 DEF Kept
    <3> QED
      BY <1>1, <1>2, <1>3, <3>1, <3>3 DEF Alone, Turn
  <2> QED
    BY <2>1, TurnAfter
<1> QED
  BY <1>1, <1>4, <1>5, <1>6, <1>7
LEMMA StoreLenStep ==
    ASSUME ControlType, HandlerInv, SliceInv, NEW t \in Token, Funds!StoreLen(t)
    PROVE  SliceInv' /\ AppendFrame(t, "setLen", "setElem") /\ overlapped' = overlapped
<1> USE DEF SliceInv
<1>1. /\ AppendFrame(t, "setLen", "setElem") /\ UNCHANGED <<seen, heap, wild, overlapped>>
      /\ funds' \in SliceHeader
      /\ funds'.ptr = funds.ptr /\ funds'.len = seen[t].len + 1 /\ funds'.cap = funds.cap
      /\ overlapped' \in BOOLEAN
  BY StoreLenFacts DEF ControlType
<1>2. pc[t] = "setLen" /\ pc'[t] = "setElem" /\ \A g \in Token : g # t => pc'[g] = pc[g]
  BY <1>1, AppendControl DEF Appending, AppendFrame
<1>3. Entered' = Entered /\ Stored' = Stored \union {t} /\ t \notin Stored
  <2>1. "setLen" \in {"ptr"} \union Appending /\ "setElem" \in Appending \union {"done"}
    BY DEF Appending
  <2> QED
    BY <1>1, <2>1, AppendSets
<1>4. seen[t].len \in Nat /\ seen[t].len >= 1
  BY <1>2 DEF SliceType, SliceHeader, Appending
<1>5. SliceType'
  <2>1. \A g \in Token : pc'[g] \in Appending \ {"len"} => seen'[g].len >= 1
    BY <1>1, <1>2 DEF SliceType, Appending
  <2>2. funds'.ptr \in DOMAIN heap' /\ funds'.len >= 1
    BY <1>1, <1>4 DEF SliceType
  <2> QED
    BY <1>1, <2>1, <2>2 DEF SliceType
<1>6. ArrayInv'
  BY <1>1, ArrayFrame DEF Appending
<1>7. LengthInv'
  <2>1. \A g \in Token : seen'[g].len <= Cardinality(Stored' \ {g}) + 1
    BY <1>1, <1>3, LengthFrame
  <2>2. Stored \subseteq Token /\ Cardinality(Stored) \in Nat
    BY FewTokens DEF Stored
  <2>3. Cardinality(Stored') = Cardinality(Stored) + 1
    BY <1>3, <2>2, OneMoreToken
  <2>4. seen[t].len <= Cardinality(Stored) + 1
    <3>1. Stored \ {t} = Stored
      BY <1>3
    <3> QED
      BY <3>1 DEF LengthInv
  <2>5. funds'.len <= Cardinality(Stored') + 1
    BY <1>1, <1>4, <2>2, <2>3, <2>4
  <2> QED
    BY <2>1, <2>5, Zenon DEF LengthInv
<1>8. TurnInv'
  <2>1. ASSUME ~overlapped' PROVE Alone(t)'
    <3>1. Alone(t)
      BY <1>1, <1>2, <2>1, TurnBefore DEF Appending
    <3>2. Kept(funds.ptr, Cardinality(Entered) + 1)'
      BY <1>1, <1>3, <3>1 DEF Alone, Kept
    <3>3. seen[t].len = Cardinality(Entered) + 1
      BY <1>2, <3>1 DEF Alone, Turn
    <3> QED
      BY <1>1, <1>2, <1>3, <3>1, <3>2, <3>3 DEF Alone, Turn
  <2> QED
    BY <2>1, TurnAfter
<1> QED
  BY <1>1, <1>5, <1>6, <1>7, <1>8

(* An array with room stays; a new one has the cells of the old.           *)
LEMMA AppendFundStep ==
    ASSUME ControlType, HandlerInv, SliceInv, NEW t \in Token, Funds!AppendFund(t)
    PROVE  /\ SliceInv' /\ overlapped' = overlapped
           /\ AppendFrame(t, "append", "setLen") \/ AppendFrame(t, "append", "setCap")
<1> USE DEF SliceInv
<1> DEFINE n == seen[t].len
           p == seen[t].ptr
<1>1. /\ UNCHANGED <<funds, wild, overlapped>> /\ SeenBut(t) /\ seen'[t].len = n
      /\ overlapped' \in BOOLEAN
  BY AppendFundFacts DEF ControlType
<1>2. CASE /\ AppendFrame(t, "append", "setLen") /\ UNCHANGED <<seen, heap>>
           /\ n + 1 <= seen[t].cap
  <2>1. pc[t] = "append" /\ pc'[t] = "setLen" /\ \A g \in Token : g # t => pc'[g] = pc[g]
    BY <1>1, <1>2, AppendControl DEF Appending, AppendFrame
  <2>2. Entered' = Entered /\ Stored' = Stored
    <3>1. "append" \in {"ptr"} \union Appending /\ "setLen" \in Appending \union {"done"}
      BY DEF Appending
    <3>2. Entered' = Entered /\ Stored' = Stored \ {t} /\ t \notin Stored
      BY <1>1, <1>2, <3>1, AppendSets
    <3> QED
      BY <3>2
  <2>3. SliceType'
    BY <1>1, <1>2, <2>1 DEF SliceType, Appending
  <2>4. ArrayInv'
    BY <1>1, <1>2, ArrayFrame DEF Appending
  <2>5. LengthInv'
    BY <1>1, <1>2, <2>2, LengthFrame
  <2>6. TurnInv'
    <3>1. ASSUME ~overlapped' PROVE Alone(t)'
      <4>1. Alone(t)
        BY <1>1, <2>1, <3>1, TurnBefore DEF Appending
      <4>2. Kept(funds.ptr, Cardinality(Entered) + 1)'
        BY <1>1, <1>2, <2>2, <4>1 DEF Alone, Kept
      <4> QED
        BY <1>1, <1>2, <2>1, <2>2, <4>1, <4>2 DEF Alone, Turn
    <3> QED
      BY <3>1, TurnAfter
  <2> QED
    BY <1>1, <1>2, <2>3, <2>4, <2>5, <2>6
<1>3. CASE /\ AppendFrame(t, "append", "setCap")
           /\ DOMAIN heap' = DOMAIN heap \union {t}
           /\ heap' \in [DOMAIN heap' -> Seq(Funds!Cells)]
           /\ \A a \in DOMAIN heap \ {t} : heap'[a] = heap[a]
           /\ seen'[t].ptr = t
           /\ seen'[t].cap = Len(heap'[t]) /\ n + 1 <= Len(heap'[t])
           /\ \A i \in 1..Len(heap'[t]) :
                 IF i <= n /\ i <= Len(heap[p]) THEN heap'[t][i] = heap[p][i]
                 ELSE heap'[t][i] \in {Funds!Zero, Funds!Junk}
  <2>1. pc[t] = "append" /\ pc'[t] = "setCap" /\ \A g \in Token : g # t => pc'[g] = pc[g]
    <3>1. "append" \in {"ptr"} \union Appending /\ "setCap" \in Appending \union {"done"}
      BY DEF Appending
    <3>2. AppendFrame(t, "append", "setCap") /\ overlapped' \in BOOLEAN
      BY <1>1, <1>3
    <3>3. pc'[t] = "setCap" /\ \A g \in Token : g # t => pc'[g] = pc[g]
      BY <3>1, <3>2, AppendControl
    <3> QED
      BY <3>2, <3>3 DEF AppendFrame
  <2>2. Entered' = Entered /\ Stored' = Stored
    <3>1. "append" \in {"ptr"} \union Appending /\ "setCap" \in Appending \union {"done"}
      BY DEF Appending
    <3>2. Entered' = Entered /\ Stored' = Stored \ {t} /\ t \notin Stored
      BY <1>1, <1>3, <3>1, AppendSets
    <3> QED
      BY <3>2
  <2>3. t \notin DOMAIN heap /\ \A a \in DOMAIN heap : heap'[a] = heap[a]
    BY <1>3, <2>1 DEF ArrayInv
  <2>4. n \in Nat /\ n >= 1 /\ p \in DOMAIN heap /\ Len(heap[p]) \in Nat /\ Len(heap'[t]) \in Nat
    <3>1. n \in Nat /\ n >= 1 /\ p \in DOMAIN heap
      BY <2>1 DEF SliceType, SliceHeader, Appending
    <3>2. heap[p] \in Seq(Funds!Cells)
      BY <3>1 DEF SliceType
    <3>3. heap'[t] \in Seq(Funds!Cells)
      BY <1>3
    <3> QED
      BY <3>1, <3>2, <3>3
  <2>5. SliceType'
    <3>1. \A g \in Token : pc'[g] \in Appending \ {"len"} => seen'[g].len >= 1
      BY <1>1, <2>1, <2>4 DEF SliceType, SeenBut, Appending
    <3>2. \A g \in Token : seen'[g].ptr \in DOMAIN heap'
      BY <1>1, <1>3 DEF SliceType, SeenBut
    <3>3. DOMAIN heap' \subseteq Token \union {Eth} /\ funds'.ptr \in DOMAIN heap'
      BY <1>1, <1>3 DEF SliceType
    <3> QED
      BY <1>1, <1>3, <3>1, <3>2, <3>3 DEF SliceType, SeenBut
  <2>6. ArrayInv'
    <3>1. /\ Len(heap'[t]) >= 1 /\ heap'[t][1] = Eth
          /\ \A i \in 1..Len(heap'[t]) : heap'[t][i] = Eth => i = 1
      <4>1. /\ Len(heap[p]) >= 1 /\ heap[p][1] = Eth
            /\ \A i \in 1..Len(heap[p]) : heap[p][i] = Eth => i = 1
        BY <2>4 DEF ArrayInv
      <4>2. 1 \in 1..Len(heap'[t]) /\ heap'[t][1] = heap[p][1]
        BY <1>3, <2>4, <4>1
      <4>3. ASSUME NEW i \in 1..Len(heap'[t]), heap'[t][i] = Eth PROVE i = 1
        <5>1. i \in 1..Len(heap[p]) /\ heap[p][i] = Eth
          BY <1>3, <2>4, <4>3, PageNames
        <5> QED
          BY <4>1, <5>1
      <4> QED
        BY <1>3, <2>4, <4>1, <4>2, <4>3
    <3>2. ASSUME NEW a \in DOMAIN heap, NEW g \in Token, NEW i \in 1..Len(heap[a]), heap[a][i] = g
          PROVE  pc'[g] = "done" /\ g \in list' /\ g \notin failed' /\ i = seen'[g].len + 1
      <4>1. pc[g] = "done" /\ g \in list /\ g \notin failed /\ i = seen[g].len + 1
        BY <3>2 DEF ArrayInv
      <4>2. g # t
        BY <2>1, <4>1
      <4> QED
        BY <1>1, <1>3, <2>1, <4>1, <4>2 DEF SeenBut, AppendFrame, GoroutineFrame
    <3>3. ASSUME NEW g \in Token, NEW i \in 1..Len(heap'[t]), heap'[t][i] = g
          PROVE  pc'[g] = "done" /\ g \in list' /\ g \notin failed' /\ i = seen'[g].len + 1
      <4>1. i \in 1..Len(heap[p]) /\ heap[p][i] = g
        BY <1>3, <2>4, <3>3, PageNames
      <4> QED
        BY <2>4, <3>2, <4>1
    <3>4. \A g \in Token : g \in DOMAIN heap' => pc'[g] \notin Early \union {"len", "cap", "append"}
      BY <1>3, <2>1 DEF ArrayInv, Early
    <3>5. \A a \in DOMAIN heap' : a = t \/ (a \in DOMAIN heap /\ heap'[a] = heap[a])
      BY <1>3, <2>3
    <3>6. ASSUME NEW a \in DOMAIN heap'
          PROVE  /\ Len(heap'[a]) >= 1 /\ heap'[a][1] = Eth
                 /\ \A i \in 1..Len(heap'[a]) : heap'[a][i] = Eth => i = 1
                 /\ \A g \in Token, i \in 1..Len(heap'[a]) : heap'[a][i] = g =>
                       pc'[g] = "done" /\ g \in list' /\ g \notin failed' /\ i = seen'[g].len + 1
      <4>1. CASE a = t
        BY <3>1, <3>3, <4>1
      <4>2. CASE a \in DOMAIN heap /\ heap'[a] = heap[a]
        BY <3>2, <4>2 DEF ArrayInv
      <4> QED
        BY <3>5, <4>1, <4>2
    <3> QED
      BY <3>4, <3>6 DEF ArrayInv
  <2>7. LengthInv'
    BY <1>1, <2>2, LengthFrame DEF SeenBut
  <2>8. TurnInv'
    <3>1. ASSUME ~overlapped' PROVE Alone(t)'
      <4>1. Alone(t)
        BY <1>1, <2>1, <3>1, TurnBefore DEF Appending
      <4>2. /\ p = funds.ptr /\ n = funds.len /\ n = Cardinality(Entered) + 1
            /\ funds.cap = Len(heap[funds.ptr])
        BY <2>1, <4>1 DEF Alone, Turn
      <4>3. funds.ptr \in DOMAIN heap /\ heap'[funds.ptr] = heap[funds.ptr]
        BY <2>3 DEF SliceType
      <4>4. Kept(funds.ptr, Cardinality(Entered) + 1)'
        BY <1>1, <2>2, <4>1, <4>3 DEF Alone, Kept
      <4>5. \A i \in 1..n : i <= Len(heap'[t]) /\ heap'[t][i] \notin {Funds!Zero, Funds!Junk}
        <5>1. \A i \in 1..n : i <= Len(heap[p]) /\ heap[p][i] \notin {Funds!Zero, Funds!Junk}
          BY <4>1, <4>2 DEF Alone, Kept
        <5>2. \A i \in 1..n : i \in 1..Len(heap'[t]) /\ heap'[t][i] = heap[p][i]
          BY <1>3, <2>4, <5>1
        <5> QED
          BY <2>4, <5>1, <5>2
      <4>6. Kept(seen[t].ptr, seen[t].len)'
        BY <1>1, <1>3, <4>5 DEF Kept
      <4>7. /\ seen'[t].len = funds'.len /\ seen'[t].cap = Len(heap'[seen'[t].ptr])
            /\ seen'[t].len + 1 <= Len(heap'[seen'[t].ptr])
        BY <1>1, <1>3, <4>2
      <4>8. Turn(t)'
        BY <2>1, <4>6, <4>7 DEF Turn
      <4> QED
        BY <1>1, <2>1, <2>2, <4>1, <4>2, <4>3, <4>4, <4>8 DEF Alone
    <3> QED
      BY <3>1, TurnAfter
  <2> QED
    BY <1>1, <1>3, <2>5, <2>6, <2>7, <2>8
<1> QED
  BY <1>2, <1>3, AppendFundFacts

(* The element goes where no other goroutine wrote, if it fits the array.  *)
LEMMA StoreElemStep ==
    ASSUME ControlType, HandlerInv, SliceInv, NEW t \in Token, Funds!StoreElem(t)
    PROVE  SliceInv' /\ AppendFrame(t, "setElem", "done") /\ overlapped' = overlapped
<1> USE DEF SliceInv
<1> DEFINE n == seen[t].len
           p == seen[t].ptr
<1>1. /\ AppendFrame(t, "setElem", "done") /\ UNCHANGED <<seen, funds, overlapped>>
      /\ overlapped' \in BOOLEAN
      /\ \/ n + 1 <= Len(heap[p]) /\ wild' = wild /\ heap' = [heap EXCEPT ![p][n + 1] = t]
         \/ ~(n + 1 <= Len(heap[p])) /\ heap' = heap /\ wild' = TRUE
  BY StoreElemFacts DEF ControlType
<1>2. /\ pc[t] = "setElem" /\ pc'[t] = "done" /\ \A g \in Token : g # t => pc'[g] = pc[g]
      /\ t \in list /\ t \notin failed /\ list' = list /\ failed' = failed
  <2>1. "setElem" \in {"ptr"} \union Appending /\ "done" \in Appending \union {"done"}
    BY DEF Appending
  <2> QED
    BY <1>1, <2>1, AppendControl DEF AppendFrame, GoroutineFrame
<1>3. Entered' = Entered \union {t} /\ Stored' = Stored /\ t \notin Entered
  <2>1. "setElem" \in {"ptr"} \union Appending /\ "done" \in Appending \union {"done"}
    BY DEF Appending
  <2>2. Entered' = Entered \union {t} /\ Stored' = Stored \union {t} /\ t \in Stored /\ t \notin Entered
    BY <1>1, <2>1, AppendSets
  <2> QED
    BY <2>2
<1>4. /\ n \in Nat /\ n >= 1 /\ p \in DOMAIN heap /\ heap[p] \in Seq(Funds!Cells) /\ Len(heap[p]) \in Nat
  BY <1>2 DEF SliceType, SliceHeader, Appending
<1>5. /\ DOMAIN heap' = DOMAIN heap
      /\ \A a \in DOMAIN heap : /\ Len(heap'[a]) = Len(heap[a]) /\ heap'[a] \in Seq(Funds!Cells)
                                /\ \A i \in 1..Len(heap[a]) :
                                      heap'[a][i] = IF a = p /\ i = n + 1 THEN t ELSE heap[a][i]
  <2>1. CASE n + 1 <= Len(heap[p]) /\ heap' = [heap EXCEPT ![p][n + 1] = t]
    <3>1. PICK k \in Nat : k = n + 1
      BY <1>4
    <3>2. heap' = [heap EXCEPT ![p][k] = t]
      BY <2>1, <3>1
    <3>3. DOMAIN heap' = DOMAIN heap /\ \A a \in DOMAIN heap : a # p => heap'[a] = heap[a]
      BY <3>2
    <3>4. heap'[p] = [heap[p] EXCEPT ![k] = t]
      BY <1>4, <3>2 DEF SliceType
    <3>5. t \in Funds!Cells
      BY PageNames
    <3>6. heap'[p] \in Seq(Funds!Cells) /\ Len(heap'[p]) = Len(heap[p])
      BY <1>4, <2>1, <3>1, <3>4, <3>5
    <3>7. \A i \in 1..Len(heap[p]) : heap'[p][i] = IF i = k THEN t ELSE heap[p][i]
      BY <1>4, <3>4
    <3>8. \A a \in DOMAIN heap : heap[a] \in Seq(Funds!Cells)
      BY DEF SliceType
    <3> QED
      BY <3>1, <3>3, <3>6, <3>7, <3>8
  <2>2. CASE ~(n + 1 <= Len(heap[p])) /\ heap' = heap
    BY <1>4, <2>2 DEF SliceType
  <2> QED
    BY <1>1, <2>1, <2>2
<1>6. SliceType'
  <2>1. \A g \in Token : pc'[g] \in Appending \ {"len"} => seen'[g].len >= 1
    BY <1>1, <1>2 DEF SliceType, Appending
  <2>2. wild' \in BOOLEAN
    BY <1>1 DEF SliceType
  <2>3. heap' \in [DOMAIN heap' -> Seq(Funds!Cells)]
    <3>1. CASE heap' = [heap EXCEPT ![p][n + 1] = t]
      <4>1. heap' = [a \in DOMAIN heap |-> heap'[a]]
        BY <3>1 DEF SliceType
      <4> QED
        BY <1>5, <4>1
    <3>2. CASE heap' = heap
      BY <3>2 DEF SliceType
    <3> QED
      BY <1>1, <3>1, <3>2
  <2> QED
    BY <1>1, <1>5, <2>1, <2>2, <2>3 DEF SliceType
<1>7. ArrayInv'
  <2>1. ASSUME NEW a \in DOMAIN heap, NEW g \in Token, NEW i \in 1..Len(heap[a]), heap'[a][i] = g
        PROVE  pc'[g] = "done" /\ g \in list' /\ g \notin failed' /\ i = seen'[g].len + 1
    <3>1. CASE a = p /\ i = n + 1
      <4>1. g = t
        BY <1>5, <2>1, <3>1
      <4> QED
        BY <1>1, <1>2, <3>1, <4>1
    <3>2. CASE ~(a = p /\ i = n + 1)
      <4>1. heap[a][i] = g
        BY <1>5, <2>1, <3>2
      <4>2. pc[g] = "done" /\ g \in list /\ g \notin failed /\ i = seen[g].len + 1
        BY <4>1 DEF ArrayInv
      <4> QED
        BY <1>1, <1>2, <4>2
    <3> QED
      BY <3>1, <3>2
  <2>2. ASSUME NEW a \in DOMAIN heap
        PROVE  /\ Len(heap'[a]) >= 1 /\ heap'[a][1] = Eth
               /\ \A i \in 1..Len(heap'[a]) : heap'[a][i] = Eth => i = 1
    <3>1. /\ Len(heap[a]) >= 1 /\ heap[a][1] = Eth
          /\ \A i \in 1..Len(heap[a]) : heap[a][i] = Eth => i = 1
      BY DEF ArrayInv
    <3>2. Len(heap'[a]) = Len(heap[a]) /\ Len(heap[a]) \in Nat
      BY <1>5 DEF SliceType
    <3>3. heap'[a][1] = Eth
      BY <1>4, <1>5, <3>1, <3>2
    <3>4. \A i \in 1..Len(heap[a]) : heap'[a][i] = Eth => i = 1
      BY <1>5, <3>1, PageNames
    <3> QED
      BY <3>1, <3>2, <3>3, <3>4
  <2>3. \A g \in Token : g \in DOMAIN heap' => pc'[g] \notin Early \union {"len", "cap", "append"}
    BY <1>2, <1>5 DEF ArrayInv, Early
  <2> QED
    BY <1>5, <2>1, <2>2, <2>3 DEF ArrayInv
<1>8. LengthInv'
  BY <1>1, <1>3, LengthFrame
<1>9. TurnInv'
  <2>1. ASSUME ~overlapped' PROVE Alone(t)'
    <3>1. Alone(t)
      BY <1>1, <1>2, <2>1, TurnBefore DEF Appending
    <3>2. /\ p = funds.ptr /\ n + 1 <= Len(heap[p]) /\ funds.cap = Len(heap[funds.ptr])
          /\ funds.len = n + 1 /\ n = Cardinality(Entered) + 1
      BY <1>2, <3>1 DEF Alone, Turn
    <3>3. Cardinality(Entered') = Cardinality(Entered) + 1
      BY <1>3, OneMoreToken DEF Entered
    <3>4. ~wild' /\ Len(heap'[p]) = Len(heap[p])
      BY <1>1, <1>4, <1>5, <3>1, <3>2 DEF Alone
    <3>5. ASSUME NEW i \in 1..(n + 1)
          PROVE  i <= Len(heap'[p]) /\ heap'[p][i] \notin {Funds!Zero, Funds!Junk}
      <4>1. i \in 1..Len(heap[p])
        BY <1>4, <3>2
      <4>2. CASE i = n + 1
        BY <1>4, <1>5, <3>4, <4>1, <4>2, PageNames
      <4>3. CASE i # n + 1
        <5>1. heap[p][i] \notin {Funds!Zero, Funds!Junk}
          <6>1. i \in 1..(Cardinality(Entered) + 1)
            BY <1>4, <3>2, <4>3
          <6> QED
            BY <3>1, <3>2, <6>1 DEF Alone, Kept
        <5> QED
          BY <1>4, <1>5, <3>4, <4>1, <4>3, <5>1
      <4> QED
        BY <4>2, <4>3
    <3>6. Kept(funds.ptr, Cardinality(Entered) + 1)'
      BY <1>1, <3>2, <3>3, <3>5 DEF Kept
    <3>7. /\ funds'.cap = Len(heap'[funds'.ptr]) /\ funds'.len = Cardinality(Entered') + 1
      BY <1>1, <3>2, <3>3, <3>4
    <3>8. \A g \in Token : g # t => pc'[g] \notin Appending
      BY <1>2, <3>1 DEF Alone
    <3> QED
      BY <1>2, <3>4, <3>6, <3>7, <3>8 DEF Alone, Turn
  <2> QED
    BY <2>1, TurnAfter
<1> QED
  BY <1>1, <1>6, <1>7, <1>8, <1>9

(* Once every goroutine is done, the page shows what the array has.        *)
LEMMA SaveStep ==
    ASSUME ControlType, HandlerInv, SliceInv, Funds!Save
    PROVE  ControlType' /\ HandlerInv' /\ Outside /\ Funds!PageShows'
<1> USE DEF SliceInv
<1> DEFINE n == funds.len
           row == heap[funds.ptr]
<1>1. /\ main = "save" /\ main' = "replied" /\ cached' \in {cached, cached \union prices}
      /\ UNCHANGED <<list, writing, prices, pc, seen, funds, heap, wild, in, failed, overlapped, dead>>
      /\ replies' = replies + 1 /\ reply' = [i \in 1..n |-> Funds!Cell(funds.ptr, i)]
  BY DEF Funds!Save, Funds!Reply, Funds!Unchanged, Funds!slice, Funds!rest
<1>2. /\ n \in Nat /\ n >= 1 /\ row \in Seq(Funds!Cells) /\ Len(row) \in Nat /\ funds.ptr \in DOMAIN heap
  BY DEF SliceType, SliceHeader
<1>3. /\ reply' \in Seq(Funds!Cells) /\ Len(reply') = n /\ DOMAIN reply' = 1..n
      /\ \A i \in 1..n : reply'[i] = IF i <= Len(row) THEN row[i] ELSE Funds!Junk
  <2>1. \A i \in 1..n : Funds!Cell(funds.ptr, i) = IF i <= Len(row) THEN row[i] ELSE Funds!Junk
    BY DEF Funds!Cell
  <2>2. \A i \in 1..n : Funds!Cell(funds.ptr, i) \in Funds!Cells
    BY <1>2, <2>1, PageNames
  <2>3. reply' \in Seq(Funds!Cells) /\ Len(reply') = n /\ DOMAIN reply' = 1..n
    <3>1. reply' = [i \in 1..n |-> Funds!Cell(funds.ptr, i)] /\ n \in Nat
      BY <1>1, <1>2
    <3>2. reply' \in [1..n -> Funds!Cells] /\ DOMAIN reply' = 1..n
      BY <2>2, <3>1
    <3> QED
      BY <3>1, <3>2
  <2> QED
    BY <1>1, <2>1, <2>3
<1>4. ControlType'
  BY <1>1, <1>3 DEF ControlType
<1>5. HandlerInv' /\ Outside
  BY <1>1 DEF HandlerInv, Outside, ControlType, Early
<1>6. /\ Len(row) >= 1 /\ row[1] = Eth /\ \A i \in 1..Len(row) : row[i] = Eth => i = 1
      /\ \A t \in Token, i \in 1..Len(row) : row[i] = t =>
            t \in list /\ t \notin failed /\ i = seen[t].len + 1
  BY <1>2 DEF ArrayInv
<1>7. \A i \in Funds!Shown' : /\ i \in 1..n /\ i \in 1..Len(row) /\ reply'[i] = row[i]
                              /\ row[i] \notin {Funds!Zero, Funds!Junk}
  BY <1>2, <1>3 DEF Funds!Shown
<1>8. \A i \in Funds!Shown' : row[i] = Eth \/ row[i] \in Token
  BY <1>2, <1>7, PageNames
<1>9. \A i, j \in Funds!Shown' : reply'[i] = reply'[j] => i = j
  BY <1>6, <1>7, <1>8
<1>10. \A i \in Funds!Shown' : reply'[i] \in {Eth} \union (list' \ failed')
  BY <1>1, <1>6, <1>7, <1>8
<1>11. reply'[1] = Eth
  BY <1>2, <1>3, <1>6
<1>12. ASSUME ~overlapped'
       PROVE  Len(reply') = Funds!Cardinality(list' \ failed') + 1 /\ Funds!Shown' = DOMAIN reply'
  <2>1. \A t \in Token : pc[t] # "setElem" /\ (t \in list <=> pc[t] = "done")
    BY <1>1 DEF HandlerInv
  <2>2. Entered = list \ failed
    BY <2>1 DEF Entered, ControlType
  <2>3. n = Cardinality(Entered) + 1 /\ Kept(funds.ptr, Cardinality(Entered) + 1)
    BY <1>1, <1>12, <2>1 DEF TurnInv
  <2>4. \A i \in 1..n : i <= Len(row) /\ row[i] \notin {Funds!Zero, Funds!Junk}
    BY <2>3 DEF Kept
  <2>5. Funds!Shown' = 1..n
    BY <1>3, <2>4 DEF Funds!Shown
  <2>6. Funds!Cardinality(list' \ failed') = Cardinality(Entered)
    BY <1>1, <2>2, SameCount
  <2> QED
    BY <1>3, <2>3, <2>5, <2>6
<1>13. wild' => overlapped'
  BY <1>1 DEF TurnInv
<1>14. Funds!PageShows'
  BY <1>9, <1>10, <1>11, <1>12, <1>13 DEF Funds!PageShows
<1> QED
  BY <1>4, <1>5, <1>14

(* Until then the reply is empty. *)
LEMMA NothingShown ==
    ASSUME TurnInv', reply' = <<>>
    PROVE  Funds!PageShows'
BY DEF TurnInv, Funds!PageShows

-----------------------------------------------------------------------------
LEMMA FundStart == Funds!Init => FundInv
<1> SUFFICES ASSUME Funds!Init PROVE FundInv
  OBVIOUS
<1>1. /\ in \in PageInputs /\ main = "read" /\ list = {} /\ replies = 0 /\ reply = <<>>
      /\ pc = [t \in Token |-> "none"]
      /\ seen = [t \in Token |-> [ptr |-> Eth, len |-> 0, cap |-> 0]]
      /\ funds = [ptr |-> Eth, len |-> 1, cap |-> 1] /\ heap = [a \in {Eth} |-> <<Eth>>]
      /\ writing = {} /\ prices = {} /\ cached = in.cached /\ failed = {}
      /\ overlapped = FALSE /\ wild = FALSE /\ dead = FALSE
  BY DEF Funds!Init
<1>2. ControlType
  <2>1. <<>> \in Seq(Funds!Cells)
    OBVIOUS
  <2>2. cached \subseteq Token
    BY <1>1, FundAssumption DEF Funds!InputAssumption, Funds!Input
  <2> QED
    BY <1>1, <2>1, <2>2 DEF ControlType, Early
<1>3. HandlerInv
  BY <1>1 DEF HandlerInv
<1>4. SliceType
  <2>1. <<Eth>> \in Seq(Funds!Cells)
    BY PageNames
  <2>2. DOMAIN heap = {Eth} /\ heap \in [DOMAIN heap -> Seq(Funds!Cells)]
    BY <1>1, <2>1
  <2>3. \A t \in Token : pc[t] \notin Appending
    BY <1>1 DEF Appending
  <2>4. funds \in SliceHeader /\ funds.ptr = Eth /\ funds.len >= 1
    BY <1>1 DEF SliceHeader
  <2>5. seen \in [Token -> SliceHeader] /\ \A t \in Token : seen[t].ptr = Eth
    BY <1>1 DEF SliceHeader
  <2> QED
    BY <1>1, <2>2, <2>3, <2>4, <2>5 DEF SliceType
<1>5. heap[Eth] = <<Eth>> /\ DOMAIN heap = {Eth} /\ \A t \in Token : pc[t] = "none"
  BY <1>1
<1>6. ArrayInv
  BY <1>5, PageNames DEF ArrayInv, Early
<1>7. Stored = {} /\ Entered = {} /\ Cardinality({}) = 0
  BY <1>5, FS_EmptySet DEF Stored, Entered
<1>8. LengthInv
  BY <1>1, <1>7 DEF LengthInv
<1>9. TurnInv
  <2>1. Kept(funds.ptr, Cardinality(Entered) + 1)
    <3>1. Cardinality(Entered) + 1 = 1 /\ funds.ptr = Eth
      BY <1>1, <1>7
    <3>2. Len(heap[Eth]) = 1 /\ heap[Eth][1] = Eth /\ Eth \notin {Funds!Zero, Funds!Junk}
      BY <1>5, PageNames
    <3> QED
      BY <3>1, <3>2 DEF Kept
  <2>2. \A g \in Token : Turn(g)
    BY <1>5 DEF Turn
  <2>3. funds.cap = Len(heap[funds.ptr]) /\ funds.len = Cardinality(Entered) + 1
    BY <1>1, <1>5, <1>7
  <2>4. \A g \in Token : pc[g] \notin Appending
    BY <1>5 DEF Appending
  <2> QED
    BY <1>1, <2>1, <2>2, <2>3, <2>4 DEF TurnInv
<1>10. Funds!PageShows
  BY <1>1 DEF Funds!PageShows
<1> QED
  BY <1>2, <1>3, <1>4, <1>6, <1>8, <1>9, <1>10 DEF FundInv, SliceInv

(* While a goroutine is at work nothing is shown yet. *)
LEMMA WorkerFacts ==
    ASSUME ControlType, HandlerInv, NEW t \in Token, Funds!Goroutine(t)
    PROVE  reply' = <<>>
<1>1. pc[t] \notin {"none", "done"} /\ UNCHANGED reply
  BY DEF Funds!Goroutine, Funds!Price, Funds!SetPrice, Funds!Balance, Funds!Cash,
         Funds!LoadPtr, Funds!LoadLen, Funds!LoadCap, Funds!Load, Funds!AppendFund, Funds!Grow,
         Funds!StoreCap, Funds!StorePtr, Funds!StoreLen, Funds!Store, Funds!StoreElem,
         Funds!Go, Funds!handler
<1>2. main # "replied"
  BY <1>1 DEF HandlerInv, ControlType
<1> QED
  BY <1>1, <1>2 DEF HandlerInv

LEMMA AppendStep ==
    ASSUME ControlType, HandlerInv, SliceInv, NEW t \in Token,
           \/ Funds!LoadPtr(t) \/ Funds!LoadLen(t) \/ Funds!LoadCap(t) \/ Funds!AppendFund(t)
           \/ Funds!StoreCap(t) \/ Funds!StorePtr(t) \/ Funds!StoreLen(t) \/ Funds!StoreElem(t)
    PROVE  ControlType' /\ HandlerInv' /\ SliceInv'
<1>1. /\ SliceInv'
      /\ \E from \in {"ptr"} \union Appending, to \in Appending \union {"done"} : AppendFrame(t, from, to)
      /\ overlapped' \in BOOLEAN
  BY LoadPtrStep, LoadLenStep, LoadCapStep, AppendFundStep, StoreCapStep, StorePtrStep,
     StoreLenStep, StoreElemStep DEF ControlType, Appending
<1>2. ControlType' /\ HandlerInv'
  BY <1>1, AppendControl
<1> QED
  BY <1>1, <1>2

LEMMA GoroutineStep ==
    ASSUME FundInv, NEW t \in Token, Funds!Goroutine(t), ~dead
    PROVE  FundInv'
<1> USE DEF FundInv
<1>1. ControlType' /\ HandlerInv' /\ SliceInv'
  <2>1. CASE Funds!Price(t) \/ Funds!SetPrice(t) \/ Funds!Balance(t) \/ Funds!Cash(t)
    BY <2>1, PriceStep, SetPriceStep, BalanceStep, CashStep, OutsideKeeps
  <2> QED
    BY <2>1, AppendStep DEF Funds!Goroutine
<1>2. Funds!PageShows'
  BY <1>1, WorkerFacts, NothingShown DEF SliceInv
<1> QED
  BY <1>1, <1>2

LEMMA HandlerStep ==
    ASSUME FundInv, Funds!FundGetHandler, ~dead
    PROVE  FundInv'
<1> USE DEF FundInv
<1>1. ControlType' /\ HandlerInv' /\ Outside
  BY ReadStep, GatherStep, SpawnStep, WaitStep, SaveStep DEF Funds!FundGetHandler
<1>2. SliceInv'
  BY <1>1, OutsideKeeps
<1>3. Funds!PageShows'
  <2>1. ~Funds!Save => reply' = <<>>
    BY DEF HandlerInv, Funds!FundGetHandler, Funds!Read, Funds!Reply, Funds!Gather, Funds!Spawn, Funds!Wait
  <2> QED
    BY <1>2, <2>1, SaveStep, NothingShown DEF SliceInv
<1> QED
  BY <1>1, <1>2, <1>3

LEMMA FundStep == FundInv /\ [Funds!Next]_(Funds!vars) => FundInv'
<1> SUFFICES ASSUME FundInv, [Funds!Next]_(Funds!vars) PROVE FundInv'
  OBVIOUS
<1>1. CASE Funds!Next
  BY <1>1, GoroutineStep, HandlerStep DEF Funds!Next
<1>2. CASE UNCHANGED Funds!vars
  <2>1. UNCHANGED <<in, main, list, replies, reply, pc, seen, funds, heap, writing, prices, cached,
                    failed, overlapped, wild, dead>>
    BY <1>2 DEF Funds!vars, Funds!handler, Funds!slice, Funds!prici, Funds!rest
  <2>2. ControlType' /\ HandlerInv' /\ Outside
    BY <2>1 DEF FundInv, ControlType, HandlerInv, Outside, Early
  <2>3. SliceInv'
    BY <2>2, OutsideKeeps DEF FundInv
  <2>4. Funds!PageShows'
    BY <2>1 DEF FundInv, Funds!PageShows, Funds!Shown
  <2> QED
    BY <2>2, <2>3, <2>4 DEF FundInv
<1> QED
  BY <1>1, <1>2

LEMMA FundPromise == FundInv => Funds!TypeOK /\ Funds!PageShows
<1> SUFFICES ASSUME FundInv PROVE Funds!TypeOK
  BY DEF FundInv
<1> USE DEF FundInv, SliceInv
<1>1. reply \in [1..Len(reply) -> Funds!Cells]
  BY DEF ControlType
<1>2. Stored \subseteq Token /\ Cardinality(Stored) <= Cardinality(Token) /\ Cardinality(Stored) \in Nat
  BY FewTokens DEF Stored
<1>3. Cardinality(Token) \in Nat /\ Funds!Cardinality(Token) = Cardinality(Token)
  BY FewTokens, SameCount
<1>4. funds \in Funds!Header
  <2>1. funds.len \in 0..(Funds!Cardinality(Token) + 1)
    BY <1>2, <1>3 DEF LengthInv, SliceType, SliceHeader
  <2> QED
    BY <2>1 DEF SliceType, SliceHeader, Funds!Header
<1>5. seen \in [Token -> Funds!Header]
  <2>1. ASSUME NEW t \in Token PROVE seen[t] \in Funds!Header
    <3>1. Stored \ {t} \subseteq Token
      BY <1>2
    <3>2. Cardinality(Stored \ {t}) <= Cardinality(Token) /\ Cardinality(Stored \ {t}) \in Nat
      BY <3>1, FewTokens
    <3>3. seen[t] \in SliceHeader /\ seen[t].len <= Cardinality(Stored \ {t}) + 1
      BY DEF SliceType, LengthInv
    <3>4. seen[t].len \in 0..(Funds!Cardinality(Token) + 1)
      BY <1>3, <3>2, <3>3 DEF SliceHeader
    <3> QED
      BY <3>3, <3>4 DEF SliceHeader, Funds!Header
  <2> QED
    BY <2>1 DEF SliceType
<1>6. \A a \in DOMAIN heap : a \in Token \union {Eth} /\ heap[a] \in [1..Len(heap[a]) -> Funds!Cells]
  <2>1. ASSUME NEW a \in DOMAIN heap
        PROVE  a \in Token \union {Eth} /\ heap[a] \in [1..Len(heap[a]) -> Funds!Cells]
    <3>1. heap[a] \in Seq(Funds!Cells) /\ a \in Token \union {Eth}
      BY DEF SliceType
    <3> QED
      BY <3>1
  <2> QED
    BY <2>1
<1>7. pc \in [Token -> {"none", "price", "map", "balance", "cash", "ptr", "len", "cap", "append",
                        "setCap", "setPtr", "setLen", "setElem", "done"}]
  BY DEF ControlType, Early, Appending
<1>8. {overlapped, wild, dead} \subseteq BOOLEAN
  BY DEF ControlType, SliceType
<1> QED
  BY <1>1, <1>4, <1>5, <1>6, <1>7, <1>8 DEF Funds!TypeOK, ControlType
-----------------------------------------------------------------------------
(* Whichever part runs keeps its own invariant: no other part's variables  *)
(* matter to it, and none of them move.                                    *)
SumInv ==
    /\ part = "account" => AccountInv
    /\ part = "phone" => PhoneInv
    /\ part = "page" => FundInv

LEMMA SumStart == Init => SumInv
BY AccountInit, PhoneInit, FundStart DEF Init, SumInv

LEMMA SumStep == SumInv /\ [AccountNext \/ PhoneNext \/ FundNext]_vars => SumInv'
<1> SUFFICES ASSUME SumInv, [AccountNext \/ PhoneNext \/ FundNext]_vars PROVE SumInv'
  OBVIOUS
<1>1. CASE AccountNext
  <2>1. part = "account" /\ part' = "account" /\ Accounts!Next
    BY <1>1 DEF AccountNext
  <2>2. AccountInv'
    BY <2>1, AccountStep DEF SumInv
  <2> QED
    BY <2>1, <2>2 DEF SumInv
<1>2. CASE PhoneNext
  <2>1. part = "phone" /\ part' = "phone" /\ Phones!Next
    BY <1>2 DEF PhoneNext
  <2>2. PhoneInv'
    BY <2>1, PhoneStep DEF SumInv
  <2> QED
    BY <2>1, <2>2 DEF SumInv
<1>3. CASE FundNext
  <2>1. part = "page" /\ part' = "page" /\ Funds!Next
    BY <1>3 DEF FundNext
  <2>2. FundInv'
    BY <2>1, FundStep DEF SumInv
  <2> QED
    BY <2>1, <2>2 DEF SumInv
<1>4. CASE UNCHANGED vars
  <2>1. UNCHANGED part /\ UNCHANGED Accounts!vars /\ UNCHANGED Phones!vars /\ UNCHANGED Funds!vars
    BY <1>4 DEF vars, accountVars, phoneVars, fundVars, Accounts!vars, Phones!vars, Funds!vars,
                Funds!handler, Funds!slice, Funds!prici, Funds!rest
  <2> QED
    BY <2>1, AccountStep, PhoneStep, FundStep DEF SumInv
<1> QED
  BY <1>1, <1>2, <1>3, <1>4

THEOREM SumSafe == Spec => []SumInv
<1> QED
  BY SumStart, SumStep, PTL DEF Spec

(* Registering, logging in and filing a wallet (user/create.go and its     *)
(* neighbours): an account has one main wallet, or a request is on its way *)
(* to file it, or was cut off, or two of them crossed.                     *)
THEOREM WalletForEveryUser == Spec => []OneWalletEach
<1>1. SumInv => OneWalletEach
  BY AccountPromise DEF SumInv, OneWalletEach
<1> QED
  BY <1>1, SumSafe, PTL

(* Verifying a phone (handler/auth/verify.go, utils/twilio): a code  *)
(* in the cache was confirmed for its phone, and is the only one there,    *)
(* unless two verifications of the phone overlapped or a DELETE failed.    *)
THEOREM ConfirmedCodes == Spec => []CacheIsTrue
<1>1. SumInv => CacheIsTrue
  BY PhonePromise DEF SumInv, CacheIsTrue
<1> QED
  BY <1>1, SumSafe, PTL

(* The wallet page: whatever the race of the appends does to the slice,    *)
(* ether comes first and no token is shown twice; and without an overlap   *)
(* every token whose balance was read is there.                            *)
THEOREM RaceLosesOnly == Spec => []PageShows
<1>1. SumInv => PageShows
  BY FundPromise DEF SumInv, PageShows
<1> QED
  BY <1>1, SumSafe, PTL
=============================================================================
