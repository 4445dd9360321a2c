---------------------------- MODULE MCVerifyCode ----------------------------
(***************************************************************************)
(* Instances of VerifyCode for TLC, in one state graph: part, chosen by    *)
(* Init, says what is busy.  "web" is two requests by their own links and  *)
(* a message over two codes of one airdrop and two wallets; "links" the    *)
(* same by links of this airdrop and another, over one wallet and codes    *)
(* that do not grow old; "mail" one request, before two messages for one   *)
(* worker, over two such codes of one airdrop or of two; "bot" two         *)
(* messages for two workers of a process that may stop or crash, about one *)
(* code, which its request has bound or left before.  "live" is for the    *)
(* liveness run, unlimited.                                                *)
(***************************************************************************)
EXTENDS VerifyCode, TLC

CONSTANTS here, there,   \* airdrops
          other          \* the code of the second one

MCAirdropOf == [c \in Code |-> IF c = other THEN there ELSE here]

VARIABLE part

AtMost(n, S) == Cardinality(S) <= n

Issued == {c \in Code : code'[c].status # "none"}
Posted == {m \in Msgs : msg'[m].at # "unsent"}
Busy == {r \in Request : req'[r] # Idle}
WalletsUsed == ({code'[c].wallet : c \in Code} \union {req'[r].wallet : r \in Request}
               \union {l[2] : l \in listed'}) \ {None}

ByOwnLink == \A r \in Busy : req'[r].airdrop = AirdropOf[req'[r].code]
BoundFirst == AtMost(1, Busy) /\ (Posted = {} \/ Busy = {})
NothingOld == \A c \in Code : ~code'[c].old
OnlyMembers == \A m \in Msgs : msg'[m].member \notin Admin
Endless == count'["end"] = 0

TwoRequests ==
    /\ other \notin Issued /\ AtMost(1, Posted) /\ OnlyMembers /\ Endless
    /\ \A m \in Msgs : ~msg'[m].confirmed
Web == TwoRequests /\ ByOwnLink
Links == TwoRequests /\ AtMost(1, WalletsUsed) /\ NothingOld

Mail ==
    /\ BoundFirst /\ ByOwnLink /\ OnlyMembers /\ Endless
    /\ AtMost(2, Issued) /\ NothingOld
    /\ AtMost(1, Working')

Bot ==
    /\ BoundFirst /\ ByOwnLink
    /\ AtMost(1, Issued) /\ other \notin Issued /\ AtMost(1, WalletsUsed)

PartInit == Init /\ part \in {"web", "links", "mail", "bot"}
PartNext ==
    /\ Next
    /\ part = "web" => Web
    /\ part = "links" => Links
    /\ part = "mail" => Mail
    /\ part = "bot" => Bot
    /\ UNCHANGED part
PartSpec == PartInit /\ [][PartNext]_<<part, vars>>

LiveInit == Init /\ part = "live"
LiveSpec == LiveInit /\ [][PartNext]_<<part, vars>> /\ Fairness

Names == Permutations(Code \ {other}) \union Permutations(Wallet) \union Permutations(Request)
=============================================================================
