------------------------------- MODULE MCUsers -------------------------------
(***************************************************************************)
(* Accounts, phones and the wallet page, for TLC.  The three have no state *)
(* in common: Init chooses one, which then runs alone while the variables  *)
(* of the others rest.                                                     *)
(***************************************************************************)
EXTENDS Integers, Sequences, FiniteSets, TLC

CONSTANTS
    Mobile, None, MaxFaults,              \* of more than one component
    Union, Request, MaxUser,              \* Account
    Code, Caller, MaxSent,                \* PhoneAuth
    Token, Eth, Absent                    \* FundGather

VARIABLES
    part,                                 \* what runs
    req, faults, cached,                  \* of more than one component
    users, wallets, cut, crossed,                                \* Account
    sms, old, passwd, confirmed, sent, mixed,                    \* PhoneAuth
    in, main, list, replies, reply, pc, seen, funds, heap,       \* FundGather
    writing, prices, failed, overlapped, wild, dead

accountVars == <<users, wallets, cut, crossed>>
phoneVars == <<sms, old, passwd, confirmed, sent, mixed>>
fundVars == <<in, main, list, replies, reply, pc, seen, funds, heap, writing, prices,
              failed, overlapped, wild, dead>>
vars == <<part, req, faults, cached, accountVars, phoneVars, fundVars>>

-----------------------------------------------------------------------------
(* The wallet page: a race of all tokens, or one or two in every case.     *)

Nothing == [slots |-> Absent, deposits |-> Absent, expired |-> Absent,
            cash |-> Absent, checkouts |-> Absent, claims |-> Absent]

(* A user who claimed, one who also sent packets, one who only sent them,  *)
(* and one who only checked out.                                           *)
SomeBooks == {Nothing, [Nothing EXCEPT !.slots = 2],
              [Nothing EXCEPT !.deposits = 2, !.expired = 2, !.cash = 1, !.claims = 1],
              [Nothing EXCEPT !.expired = 1, !.cash = 0], [Nothing EXCEPT !.checkouts = 1]}

RaceInputs ==
    [source : {[t \in Token |-> "row"]}, priced : {Token}, cached : {{}},
     book : {[t \in Token |-> Nothing]}, cashOnly : {FALSE}]

(* Rows, held and new tokens, priced or not: any two of a page, and books. *)
CaseInputs(s) ==
    [source : [s -> {"row", "held", "new"}], priced : SUBSET s, cached : {{}, s},
     book : {[t \in s |-> Nothing]}, cashOnly : BOOLEAN]
BookInputs(s) ==
    [source : {[t \in s |-> "row"]}, priced : {s}, cached : {{}},
     book : [s -> SomeBooks], cashOnly : BOOLEAN]

(* Tokens the user does not hold keep out of the way.                      *)
Spread(i) == [i EXCEPT !.source = [t \in Token |-> IF t \in DOMAIN @ THEN @[t] ELSE "none"],
                       !.book = [t \in Token |-> IF t \in DOMAIN @ THEN @[t] ELSE Nothing]]

Pages == {s \in SUBSET Token : Cardinality(s) \in 1..2}
PageInputs ==
    RaceInputs \union {Spread(i) : i \in UNION {CaseInputs(s) \union BookInputs(s) : s \in Pages}}

-----------------------------------------------------------------------------
Accounts == INSTANCE Account
Phones == INSTANCE PhoneAuth WITH Request <- Caller
Funds == INSTANCE FundGather WITH Inputs <- PageInputs

ASSUME AccountAssumption == Accounts!NullAssumption /\ Accounts!BoundAssumption
ASSUME PhoneAssumption == Phones!PhoneAssumption
ASSUME FundAssumption == Funds!NameAssumption /\ Funds!InputAssumption

Rests == "rests"
AccountRests == users = Rests /\ wallets = Rests /\ cut = Rests /\ crossed = Rests
PhoneRests ==
    /\ sms = Rests /\ old = Rests /\ passwd = Rests
    /\ confirmed = Rests /\ sent = Rests /\ mixed = Rests
FundRests ==
    /\ in = Rests /\ main = Rests /\ list = Rests /\ replies = Rests /\ reply = Rests
    /\ pc = Rests /\ seen = Rests /\ funds = Rests /\ heap = Rests /\ writing = Rests
    /\ prices = Rests /\ failed = Rests /\ overlapped = Rests /\ wild = Rests /\ dead = Rests

Init ==
    \/ part = "account" /\ Accounts!Init /\ cached = Rests /\ PhoneRests /\ FundRests
    \/ part = "phone" /\ Phones!Init /\ AccountRests /\ FundRests
    \/ part = "page" /\ Funds!Init /\ req = Rests /\ faults = Rests /\ AccountRests /\ PhoneRests

AccountNext ==
    /\ part = "account" /\ Accounts!Next
    /\ UNCHANGED <<part, cached, phoneVars, fundVars>>
PhoneNext ==
    /\ part = "phone" /\ Phones!Next
    /\ UNCHANGED <<part, accountVars, fundVars>>
FundNext ==
    /\ part = "page" /\ Funds!Next
    /\ UNCHANGED <<part, req, faults, accountVars, phoneVars>>

Spec == Init /\ [][AccountNext \/ PhoneNext \/ FundNext]_vars

(* The same names serve as phones and tokens, and as union ids and codes,  *)
(* to permute few of them; no component compares names of two kinds.       *)
Names == Permutations(Mobile) \union Permutations(Union)

-----------------------------------------------------------------------------
(* Each component's promise, and the types of its variables. *)

(* Account: a user has one main wallet, or a reason for none or two.       *)
OneWalletEach == part = "account" => Accounts!TypeOK /\ Accounts!OneWalletEach

(* PhoneAuth: a cached code was confirmed, and is the only one.            *)
CacheIsTrue == part = "phone" => Phones!TypeOK /\ Phones!CacheIsTrue

(* FundGather: what the page shows though the goroutines share a slice.    *)
PageShows == part = "page" => Funds!TypeOK /\ Funds!PageShows
=============================================================================
