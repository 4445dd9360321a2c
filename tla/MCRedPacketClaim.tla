-------------------------- MODULE MCRedPacketClaim --------------------------
(***************************************************************************)
(* Instances of RedPacketClaim for TLC, in one state graph: part, chosen   *)
(* by Init, says what is left unused.  "packets" has two packets and one   *)
(* identity, so that a conflict in one packet can keep a slot of the other *)
(* anonymous; the first packet has a second slot for a second claim.       *)
(* "identities" has two identities and one packet: users are linked to one *)
(* identity after the other.  Two requests are under way at once, with two *)
(* packets only if one of them is a claim.                                 *)
(***************************************************************************)
EXTENDS RedPacketClaim, TLC

CONSTANTS s1, s2, s3, p1, p2, u1, u2, t1, t2, r1, r2

VARIABLE part

MCPacketOf == [s \in Slot |-> IF s = s3 THEN p2 ELSE p1]

Unused(t) == (\A u \in User : telegramOf'[u] # t) /\ (\A r \in Request : req'[r].tg # t)

PartInit == Init /\ part \in {"packets", "identities"}
PartNext ==
    /\ Next
    /\ part = "packets" => Unused(t2) /\ \E r \in Request : req'[r].op \in {"idle", "claim"}
    /\ part = "identities" => phase'[p2] = "absent"
    /\ UNCHANGED part
PartSpec == PartInit /\ [][PartNext]_<<part, vars>>

(* Nothing tells the slots of p1, the users or the requests apart; all     *)
(* properties are invariants.                                              *)
Symm == Permutations({s1, s2}) \union Permutations(User) \union Permutations(Request)
=============================================================================
