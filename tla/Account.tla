------------------------------ MODULE Account -------------------------------
(***************************************************************************)
(* How accounts come to exist and get their wallet: with a phone           *)
(* (handler/user/create.go), by a WeChat login (handler/auth/auth.go), and *)
(* by a WeChat user who gives his phone (handler/user/wechat.go).  Each    *)
(* writes a row of users and then, by statements of its own, one of        *)
(* user_wallets.  The unique keys of users are external: on the mobile, as *)
(* create.go expects, and on the WeChat union id, as the logins do.        *)
(***************************************************************************)
EXTENDS Integers, FiniteSets, FiniteSetsExt

CONSTANTS
    Mobile, Union, Request,
    None,       \* NULL
    MaxUser,    \* bound: accounts
    MaxFaults   \* bound: statements that fail, or requests that end with the process

NullAssumption == None \notin Mobile \union Union
BoundAssumption == {MaxUser, MaxFaults} \subseteq Nat

VARIABLES
    users,    \* the users table
    wallets,  \* main wallets of each user
    req,      \* requests under way
    faults,   \* history: faults so far
    cut,      \* history: users whose request ended before the wallet
    crossed   \* history: users two requests gave a wallet at the same time

vars == <<users, wallets, req, faults, cut, crossed>>

Ids == 1..MaxUser
Nobody == 0
Rows == [mobile : Mobile \union {None}, wechat : Union \union {None}]
NoRow == [mobile |-> None, wechat |-> None]
Idle == [step |-> "idle", id |-> Nobody]

TypeOK ==
    /\ users \in [Ids -> Rows]
    /\ wallets \in [Ids -> Nat]
    /\ req \in [Request -> [step : {"idle", "look", "wallet"}, id : Ids \union {Nobody}]]
    /\ faults \in 0..MaxFaults
    /\ cut \subseteq Ids /\ crossed \subseteq Ids

-----------------------------------------------------------------------------
Exists(i) == users[i] # NoRow
ByMobile(m) == {i \in Ids : m # None /\ users[i].mobile = m}
ByUnion(u) == {i \in Ids : u # None /\ users[i].wechat = u}

Go(r, step, i) == req' = [req EXCEPT ![r] = [step |-> step, id |-> i]]

Fault(r) ==
    /\ faults < MaxFaults /\ faults' = faults + 1
    /\ req' = [req EXCEPT ![r] = Idle]

(* INSERT of a new row; the request goes on with its id. *)
InsertUser(r, m, u, step) ==
    /\ ByMobile(m) = {} /\ ByUnion(u) = {}
    /\ \E i \in Ids : /\ ~Exists(i) /\ \A j \in Ids : j < i => Exists(j)
                      /\ users' = [users EXCEPT ![i] = [mobile |-> m, wechat |-> u]]
                      /\ Go(r, step, i)
    /\ UNCHANGED <<wallets, faults, cut, crossed>>

(* ON DUPLICATE KEY UPDATE of row i, which sets the WeChat columns only.   *)
(* InsertId tells the row, or 0 if nothing changed.                        *)
UpdateUser(r, i, u) ==
    /\ \A j \in ByUnion(u) : j = i
    /\ users' = [users EXCEPT ![i].wechat = u]
    /\ Go(r, "look", i) \/ (users' = users /\ req' = [req EXCEPT ![r] = Idle])
    /\ UNCHANGED <<wallets, faults, cut, crossed>>

-----------------------------------------------------------------------------
(* CreateHandler.  An account that exists already is an error reply.       *)
CreateUser(r, m) == req[r].step = "idle" /\ InsertUser(r, m, None, "wallet")

(* AuthenticatorFunc, either WeChat branch, after wx_oauth was written.    *)
LoginUser(r, u) ==
    /\ req[r].step = "idle"
    /\ \/ InsertUser(r, None, u, "look")
       \/ \E i \in ByUnion(u) : UpdateUser(r, i, u)

(* WechatHandler: the INSERT may run into the row of the phone or into     *)
(* that of the union id; the phone of the latter is not written.           *)
BindPhone(r, m, u) ==
    /\ req[r].step = "idle"
    /\ \/ InsertUser(r, m, u, "look")
       \/ \E i \in ByMobile(m) \union ByUnion(u) : UpdateUser(r, i, u)

(* The SELECT of the user's wallet. *)
LookAlways(r) ==
    /\ req[r].step = "look" /\ Go(r, "wallet", req[r].id)
    /\ crossed' = IF \E q \in Request \ {r} : req[q] = [step |-> "wallet", id |-> req[r].id]
                  THEN crossed \union {req[r].id} ELSE crossed
    /\ UNCHANGED <<users, wallets, faults, cut>>

LookForWallet(r) ==
    /\ req[r].step = "look"
    /\ IF wallets[req[r].id] = 0
       THEN /\ Go(r, "wallet", req[r].id)
            /\ crossed' = IF \E q \in Request \ {r} : req[q] = [step |-> "wallet", id |-> req[r].id]
                          THEN crossed \union {req[r].id} ELSE crossed
       ELSE req' = [req EXCEPT ![r] = Idle] /\ UNCHANGED crossed
    /\ UNCHANGED <<users, wallets, faults, cut>>

InsertWallet(r) ==
    /\ req[r].step = "wallet"
    /\ wallets' = [wallets EXCEPT ![req[r].id] = @ + 1]
    /\ req' = [req EXCEPT ![r] = Idle]
    /\ UNCHANGED <<users, faults, cut, crossed>>

(* A statement fails, or the process ends, before the wallet is there.     *)
Ends(r) ==
    /\ req[r].step # "idle" /\ Fault(r)
    /\ cut' = cut \union {req[r].id}
    /\ UNCHANGED <<users, wallets, crossed>>

-----------------------------------------------------------------------------
Init ==
    /\ users = [i \in Ids |-> NoRow] /\ wallets = [i \in Ids |-> 0]
    /\ req = [r \in Request |-> Idle]
    /\ faults = 0 /\ cut = {} /\ crossed = {}

Next == \E r \in Request :
    \/ \E m \in Mobile : CreateUser(r, m) \/ \E u \in Union : BindPhone(r, m, u)
    \/ \E u \in Union : LoginUser(r, u)
    \/ LookForWallet(r) \/ InsertWallet(r) \/ Ends(r)

Spec == Init /\ [][Next]_vars

-----------------------------------------------------------------------------
(* Properties. *)

(* A user has one main wallet.  One without is at the mercy of a request   *)
(* still at work, or of one that was cut: promotion/add.go takes the first *)
(* row of his wallets unasked.  One with two had a request that looked for *)
(* a wallet while another, a creation included, had still to write it.     *)
OneWalletEach ==
    \A i \in Ids : Exists(i) =>
        \/ wallets[i] = 1
        \/ wallets[i] = 0 /\ (i \in cut \/ \E r \in Request : req[r].id = i)
        \/ wallets[i] > 1 /\ i \in crossed
=============================================================================
