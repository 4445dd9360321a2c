------------------------------- MODULE Session -------------------------------
(***************************************************************************)
(* Logging in and staying logged in: the JWT middleware                    *)
(* (middlewares/jwt/auth_jwt.go), the two functions that tell it who is    *)
(* who (handler/auth/auth.go), and the age of Telegram's credentials       *)
(* (tools/telegram/auth.go).  A token names its user by mobile, or by the  *)
(* key a WeChat login stored in wx_oauth.  Time is in seconds.             *)
(***************************************************************************)
EXTENDS Integers, FiniteSets, Sequences

CONSTANTS
    User,
    Phoneless,   \* users whose account came from WeChat and has no mobile
    App,         \* WeChat apps: the mini program and the official account
    Timeout,     \* life of a token: 168 hours in the code
    MaxRefresh,  \* how long after the login it can be refreshed: 1 hour
    Window,      \* how old Telegram's credentials may be: 86400
    MaxTime,     \* bound: seconds
    MaxKeys,     \* bound: WeChat logins
    MaxTokens    \* bound: tokens

UserAssumption == Phoneless \subseteq User
TimeAssumption == {Timeout, MaxRefresh, Window, MaxTime, MaxKeys, MaxTokens} \subseteq Nat

VARIABLES
    now,
    tokens,      \* tokens that clients hold
    wx,          \* wx_oauth: k of each user in each app, 0 for no row
    login,       \* WeChat logins between the row and the token
    made         \* history: whom and where each key was made for

vars == <<now, tokens, wx, login, made>>

Times == 0..MaxTime
Keys == 1..MaxKeys
Ids == [by : {"mobile"}, user : User] \union [by : {"wechat"}, key : Keys] \union [by : {"nobody"}]

(* id, iat and exp are claims; user is who logged in, proof when the       *)
(* credentials were made and login when they were used.                    *)
Tokens == [id : Ids, iat : Times, exp : Nat, user : User, login : Times, proof : Times]

TypeOK ==
    /\ now \in Times
    /\ tokens \subseteq Tokens
    /\ wx \in [User \X App -> 0..MaxKeys]
    /\ login \subseteq Keys
    /\ made \in [1..Len(made) -> User \X App]

-----------------------------------------------------------------------------
(* The middleware. *)

(* AuthorizatorFunc finds the row of users a name leads to.  A query that  *)
(* fails refuses its request and changes nothing; accounts stay active.    *)
Resolves(id) ==
    \/ id.by = "mobile"
    \/ id.by = "wechat" /\ \E x \in DOMAIN wx : wx[x] = id.key

Valid(t) == now <= t.exp
Authorized(t) == Valid(t) /\ Resolves(t.id)

Name(u) == IF u \in Phoneless THEN [by |-> "nobody"] ELSE [by |-> "mobile", user |-> u]

(* LoginHandler, once the authenticator has agreed. *)
Issue(id, u, proof) ==
    /\ Cardinality(tokens) < MaxTokens
    /\ tokens' = tokens \union {[id |-> id, iat |-> now, exp |-> now + Timeout,
                                 user |-> u, login |-> now, proof |-> proof]}

LoginPassword(u) ==
    /\ u \notin Phoneless /\ Issue(Name(u), u, now)
    /\ UNCHANGED <<now, wx, login, made>>

TelegramAuthCheck(date) == now - date <= Window

(* The credentials carry the time Telegram made them.  The name is that of *)
(* the mobile, "0." if there is none.                                      *)
LoginTelegram(u, date) ==
    /\ date <= now /\ TelegramAuthCheck(date) /\ Issue(Name(u), u, date)
    /\ UNCHANGED <<now, wx, login, made>>

(* A WeChat login stores a fresh key: one row per app and open id.  Then   *)
(* it looks after the account, which may fail, and answers.                *)
StoreKeyInApp(u, a) ==
    /\ Len(made) < MaxKeys
    /\ made' = Append(made, <<u, a>>)
    /\ wx' = [x \in DOMAIN wx |-> IF x[2] = a THEN Len(made) + 1 ELSE wx[x]]
    /\ login' = login \union {Len(made) + 1}
    /\ UNCHANGED <<now, tokens>>

StoreKey(u, a) ==
    /\ Len(made) < MaxKeys
    /\ made' = Append(made, <<u, a>>)
    /\ wx' = [wx EXCEPT ![<<u, a>>] = Len(made) + 1]
    /\ login' = login \union {Len(made) + 1}
    /\ UNCHANGED <<now, tokens>>

LoginWechat(k) ==
    /\ k \in login /\ login' = login \ {k}
    /\ \/ Issue([by |-> "wechat", key |-> k], made[k][1], now)
       \/ UNCHANGED tokens
    /\ UNCHANGED <<now, wx, made>>

(* RefreshHandler, behind the middleware: orig_iat is kept. *)
RefreshHandler(t) ==
    /\ Authorized(t) /\ ~(t.iat < now - MaxRefresh) /\ Cardinality(tokens) < MaxTokens
    /\ tokens' = tokens \union {[t EXCEPT !.exp = now + Timeout]}
    /\ UNCHANGED <<now, wx, login, made>>

Tick ==
    /\ now < MaxTime /\ now' = now + 1
    /\ UNCHANGED <<tokens, wx, login, made>>

-----------------------------------------------------------------------------
Init ==
    /\ now = 0 /\ tokens = {} /\ wx = [x \in User \X App |-> 0]
    /\ login = {} /\ made = <<>>

Next ==
    \/ \E u \in User : \/ LoginPassword(u)
                       \/ \E date \in Times : LoginTelegram(u, date)
                       \/ \E a \in App : StoreKey(u, a)
    \/ \E k \in login : LoginWechat(k)
    \/ \E t \in tokens : RefreshHandler(t)
    \/ Tick

Spec == Init /\ [][Next]_vars

-----------------------------------------------------------------------------
(* Properties. *)

(* A token lives for MaxRefresh + Timeout from its login, as auth_jwt.go   *)
(* says, however often it is refreshed, and credentials from Telegram are  *)
(* worth their own day and that.  It dies before its time only when its    *)
(* user logged in again through the same WeChat app, which replaces the    *)
(* key, even if that login failed or answered first; or when it names      *)
(* nobody, the account having no mobile.                                   *)
TokenLife ==
    \A t \in tokens :
        /\ Authorized(t) => /\ now - t.login <= MaxRefresh + Timeout
                            /\ now - t.proof <= Window + MaxRefresh + Timeout
        /\ Valid(t) /\ ~Authorized(t) =>
              \/ t.id.by = "nobody" /\ t.user \in Phoneless
              \/ /\ t.id.by = "wechat"
                 /\ LET x == made[t.id.key]
                    IN wx[x] > t.id.key /\ made[wx[x]] = x
=============================================================================
