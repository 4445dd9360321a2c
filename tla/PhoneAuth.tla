------------------------------ MODULE PhoneAuth ------------------------------
(***************************************************************************)
(* Proof of owning a mobile phone: codes sent and checked by Twilio        *)
(* (utils/twilio), remembered for a while in auth_verify_codes             *)
(* (handler/auth/verify.go, collected by tools/gc), and spent on a new     *)
(* account or a new password (handler/user/create.go, reset.password.go).  *)
(* Twilio is external: it knows the last code it sent to a phone, and may  *)
(* forget it once it was checked.                                          *)
(***************************************************************************)
EXTENDS Integers, FiniteSets

CONSTANTS
    Mobile, Code, Request,
    None,       \* no code
    MaxSent,    \* bound: messages sent
    MaxFaults   \* bound: statements that fail

PhoneAssumption == None \notin Code \union Mobile /\ {MaxSent, MaxFaults} \subseteq Nat

VARIABLES
    sms,        \* Twilio: the code each phone may show
    cached,     \* the rows of auth_verify_codes
    old,        \* those inserted more than AuthVerifyCodesGCHours ago
    req,        \* calls of VerifyHandler under way
    passwd,     \* users: the length of the password, 0 without an account
    confirmed,      \* history: <<mobile, code>> Twilio confirmed
    sent,       \* history: messages sent so far
    faults,     \* history: statements that failed
    mixed       \* history: phones with two verifications at the same time

vars == <<sms, cached, old, req, passwd, confirmed, sent, faults, mixed>>

Steps == {"idle", "check", "delete", "insert"}
Idle == [step |-> "idle", mobile |-> None, code |-> None]
Lengths == {0, 7, 8, 64, 65}   \* of a password: both sides of each limit

TypeOK ==
    /\ sms \in [Mobile -> Code \union {None}]
    /\ cached \subseteq Mobile \X Code /\ old \subseteq cached
    /\ req \in [Request -> [step : Steps, mobile : Mobile \union {None}, code : Code \union {None}]]
    /\ passwd \in [Mobile -> Lengths]
    /\ confirmed \subseteq Mobile \X Code
    /\ sent \in 0..MaxSent /\ faults \in 0..MaxFaults /\ mixed \subseteq Mobile

-----------------------------------------------------------------------------
(* Twilio. *)

AuthSend(m, c) == sms' = [sms EXCEPT ![m] = c]

(* A code that was right is forgotten, or not. *)
AuthVerification(m, c) ==
    /\ sms[m] = c
    /\ confirmed' = confirmed \union {<<m, c>>}
    /\ sms' \in {sms, [sms EXCEPT ![m] = None]}

-----------------------------------------------------------------------------
(* Handlers.  A wrong code is an error reply and changes nothing.          *)

SendHandler(m, c) ==
    /\ sent < MaxSent /\ sent' = sent + 1 /\ AuthSend(m, c)
    /\ UNCHANGED <<cached, old, req, passwd, confirmed, faults, mixed>>

(* The SELECT: a code that is cached is good without asking Twilio.        *)
VerifySelect(r, m, c) ==
    /\ req[r].step = "idle" /\ <<m, c>> \notin cached
    /\ req' = [req EXCEPT ![r] = [step |-> "check", mobile |-> m, code |-> c]]
    /\ UNCHANGED <<sms, cached, old, passwd, confirmed, sent, faults, mixed>>

Verified(r) ==
    /\ req[r].step = "check"
    /\ AuthVerification(req[r].mobile, req[r].code)
    /\ req' = [req EXCEPT ![r].step = "delete"]
    /\ mixed' = IF \E q \in Request : req[q].step \in {"delete", "insert"} /\ req[q].mobile = req[r].mobile
                THEN mixed \union {req[r].mobile} ELSE mixed
    /\ UNCHANGED <<cached, old, passwd, sent, faults>>

NotVerified(r) ==
    /\ req[r].step = "check" /\ sms[req[r].mobile] # req[r].code
    /\ req' = [req EXCEPT ![r] = Idle]
    /\ UNCHANGED <<sms, cached, old, passwd, confirmed, sent, faults, mixed>>

Others(r) == {x \in cached : x[1] # req[r].mobile}
OtherCodes(r) == {x \in cached : x # <<req[r].mobile, req[r].code>>}

Remove(r, kept) ==
    /\ req[r].step = "delete"
    /\ \/ cached' = kept /\ old' = old \intersect kept /\ UNCHANGED faults
       \/ faults < MaxFaults /\ faults' = faults + 1 /\ UNCHANGED <<cached, old>>
    /\ req' = [req EXCEPT ![r].step = "insert"]
    /\ UNCHANGED <<sms, passwd, confirmed, sent, mixed>>

VerifyDeleteOne(r) == Remove(r, OtherCodes(r))

(* DELETE of the codes of the phone; an error of it is overwritten by that *)
(* of the INSERT.                                                          *)
VerifyDelete(r) == Remove(r, Others(r))

(* INSERT, ON DUPLICATE KEY UPDATE inserted=NOW(). *)
VerifyInsert(r) ==
    LET x == <<req[r].mobile, req[r].code>> IN
    /\ req[r].step = "insert"
    /\ \/ cached' = cached \union {x} /\ old' = old \ {x} /\ UNCHANGED faults
       \/ faults < MaxFaults /\ faults' = faults + 1 /\ UNCHANGED <<cached, old>>
    /\ req' = [req EXCEPT ![r] = Idle]
    /\ UNCHANGED <<sms, passwd, confirmed, sent, mixed>>

(* A password of the given length; twilio is asked, not the table.         *)
LengthOK(n) == ~(n < 8 \/ n > 64)

CreateHandler(m, c, n) ==
    /\ LengthOK(n) /\ AuthVerification(m, c)
    /\ passwd' = IF passwd[m] = 0 THEN [passwd EXCEPT ![m] = n] ELSE passwd
    /\ UNCHANGED <<cached, old, req, sent, faults, mixed>>

ResetPasswordHandler(m, c, n) ==
    /\ LengthOK(n) /\ AuthVerification(m, c)
    /\ passwd' = IF passwd[m] # 0 THEN [passwd EXCEPT ![m] = n] ELSE passwd
    /\ UNCHANGED <<cached, old, req, sent, faults, mixed>>

-----------------------------------------------------------------------------
(* The collector. *)

HoursPass(x) ==
    /\ x \in cached \ old /\ old' = old \union {x}
    /\ UNCHANGED <<sms, cached, req, passwd, confirmed, sent, faults, mixed>>

authVerifyCodesRecycle ==
    /\ old # {} /\ cached' = cached \ old /\ old' = {}
    /\ UNCHANGED <<sms, req, passwd, confirmed, sent, faults, mixed>>

-----------------------------------------------------------------------------
Init ==
    /\ sms = [m \in Mobile |-> None] /\ cached = {} /\ old = {}
    /\ req = [r \in Request |-> Idle] /\ passwd = [m \in Mobile |-> 0]
    /\ confirmed = {} /\ sent = 0 /\ faults = 0 /\ mixed = {}

VerifyHandler(r) ==
    \/ \E m \in Mobile, c \in Code : VerifySelect(r, m, c)
    \/ Verified(r) \/ NotVerified(r) \/ VerifyDelete(r) \/ VerifyInsert(r)

Next ==
    \/ \E m \in Mobile, c \in Code : \/ SendHandler(m, c)
                                     \/ \E n \in Lengths : CreateHandler(m, c, n) \/ ResetPasswordHandler(m, c, n)
    \/ \E r \in Request : VerifyHandler(r)
    \/ \E x \in cached : HoursPass(x)
    \/ authVerifyCodesRecycle

Spec == Init /\ [][Next]_vars

-----------------------------------------------------------------------------
(* Properties. *)

(* A cached code was confirmed for its phone: whoever is told "ok" from    *)
(* the table has the code Twilio sent, though several calls, for several   *)
(* phones and codes, delete and insert in any order.  It is the only one   *)
(* of the phone, unless two verifications of the phone overlapped or a     *)
(* DELETE failed.                                                          *)
CacheIsTrue ==
    /\ cached \subseteq confirmed
    /\ faults = 0 => \A x, y \in cached : x[1] = y[1] /\ x[1] \notin mixed => x = y
=============================================================================
