----------------------------- MODULE CodeLedger -----------------------------
(***************************************************************************)
(* What the verification codes promise, without requests, messages or      *)
(* workers: a code gets one wallet and keeps it, a submission is made for  *)
(* the wallet of its code and stays, a member of an airdrop's group files  *)
(* once there, and a settled code is settled for ever.  VerifyCode         *)
(* implements it.                                                          *)
(***************************************************************************)
CONSTANTS Code, Wallet, Member,
          AirdropOf,  \* the airdrop of each code
          Free,       \* the wallet of a code without one
          Admin       \* members who may file again and again

VARIABLES owner,    \* the wallet each code was given to
          state,    \* "open", "settled" or "expired"
          filings   \* submissions

ledger == <<owner, state, filings>>

Init ==
    /\ owner = [c \in Code |-> Free]
    /\ state = [c \in Code |-> "open"]
    /\ filings = {}

Give(c, w) ==
    /\ owner[c] = Free /\ state[c] = "open"
    /\ owner' = [owner EXCEPT ![c] = w]
    /\ UNCHANGED <<state, filings>>

(* The code may have expired since the member was heard. *)
File(c, u) ==
    /\ owner[c] # Free
    /\ u \in Admin \/ \A f \in filings : f.member # u \/ AirdropOf[f.code] # AirdropOf[c]
    /\ filings' = filings \union {[code |-> c, wallet |-> owner[c], member |-> u]}
    /\ UNCHANGED <<owner, state>>

Settle(c) ==
    /\ owner[c] # Free /\ state[c] = "open"
    /\ state' = [state EXCEPT ![c] = "settled"]
    /\ UNCHANGED <<owner, filings>>

Expire(some) ==
    /\ \A c \in some : state[c] = "open"
    /\ state' = [c \in Code |-> IF c \in some THEN "expired" ELSE state[c]]
    /\ UNCHANGED <<owner, filings>>

Next ==
    \/ \E c \in Code : \/ \E w \in Wallet : Give(c, w)
                       \/ \E u \in Member : File(c, u)
                       \/ Settle(c)
    \/ \E some \in SUBSET Code : Expire(some)

Spec == Init /\ [][Next]_ledger
=============================================================================
