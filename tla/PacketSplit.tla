---------------------------- MODULE PacketSplit ----------------------------
(***************************************************************************)
(* How a red packet is cut into slots: the amounts of AddHandler           *)
(* (handler/redpacket/add.go), Generate (tools/redpacket/generate.go) and  *)
(* the rows prepareRedPacketRecipients makes of its result.                *)
(*                                                                         *)
(* A slot is counted in units, the last of the four decimals the tables    *)
(* keep of a token.  A request names its amount in half units, which is    *)
(* enough to tell rounding from truncation.  Unsigned integers wrap at     *)
(* Word, signed ones are negative from its half on.                        *)
(***************************************************************************)
EXTENDS Integers, Sequences

CONSTANTS
    Word,       \* 2^64
    Pow40,      \* units of a token, 10000
    MinFine,    \* the least amount of a token with 4 decimals or more, in half units
    MinCoarse,  \* the least amount of any other token, in tokens
    Amounts,    \* req.TotalTokens, in half units
    Recipients  \* req.Recipients

ASSUME WordAssumption == Word \in Nat /\ Word > 4 /\ Pow40 \in Nat \ {0}
ASSUME MinAssumption == MinFine \in Nat /\ MinFine >= 4 /\ MinCoarse \in Nat \ {0}
ASSUME RequestAssumption == Amounts \subseteq 0..(2 * Word - 1) /\ Recipients \subseteq 1..(Word - 1)

VARIABLES
    pc,       \* where the handler is
    packet,   \* the request: decimals, amount and recipients
    units,    \* totalTokensForSave
    recorded, \* red_packets.total_tokens, in units
    left,     \* total of Generate
    slots,    \* resp of Generate
    given,    \* what slots adds up to
    filed,    \* rows of red_packet_recipients
    outcome   \* how the handler ended

vars == <<pc, packet, units, recorded, left, slots, given, filed, outcome>>

Packet == [coarse : BOOLEAN, amount : Amounts, num : Recipients]

TypeOK ==
    /\ pc \in {"check", "insert", "draw", "file", "open", "ended"}
    /\ packet \in Packet
    /\ units \in 0..(Word - 1) /\ left \in 0..(Word - 1)
    /\ recorded \in Nat /\ given \in Nat
    /\ slots \in Seq(0..(Word - 1)) /\ filed \in Seq(0..(Word - 1))
    /\ outcome \in {"none", "refused", "failed", "panicked", "ok"}

-----------------------------------------------------------------------------
(* Amounts. *)

Enough(p) == IF p.coarse THEN p.amount >= MinCoarse * 2 * Pow40 ELSE p.amount >= MinFine

(* Whole tokens, or units: there the product is a float a hair below the   *)
(* number meant for about one amount in fifteen, and is cut.  From 2^53    *)
(* units on a float is off by more, which is left out.                     *)
Units(p) ==
    LET whole == p.amount \div 2
    IN  IF p.coarse THEN {p.amount \div (2 * Pow40)}
        ELSE {whole} \union {u \in {whole - 1} : u >= 0 /\ p.amount % 2 = 0}

(* The column is written with %.4f, which rounds.                          *)
Recorded(p) == {p.amount \div 2, (p.amount + 1) \div 2}

-----------------------------------------------------------------------------
(* Generate. *)

(* What one slot may get when k more are to come, each with the minimum.   *)
Safe(total, k) == ((total - k) % Word) \div k

(* Random bounds are swapped if need be.  Int63n panics on a range that is *)
(* empty or negative.                                                      *)
LoFromZero(safe) == 0
Lo(safe) == IF safe < 1 THEN safe ELSE 1
Hi(safe) == IF safe < 1 THEN 1 ELSE safe
Panics(safe) == safe # 1 /\ (Hi(safe) + 1 - Lo(safe)) \notin 1..((Word - 1) \div 2)

ToCome == packet.num - Len(slots) - 1

-----------------------------------------------------------------------------
(* AddHandler. *)

(* What else may refuse the request, a balance for one, is in CashLedger.  *)
Check ==
    /\ pc = "check"
    /\ \/ Enough(packet) /\ pc' = "insert" /\ UNCHANGED outcome
       \/ pc' = "ended" /\ outcome' = "refused"
    /\ units' \in Units(packet)
    /\ recorded' \in Recorded(packet)
    /\ left' = units'
    /\ UNCHANGED <<packet, slots, given, filed>>

(* The row of the packet, status 1: it is on show before it has a slot.    *)
(* The test of prepareRedPacketRecipients for no unit or no recipient      *)
(* never holds: the least amounts and the binding of the request see to it.*)
Insert ==
    /\ pc = "insert"
    /\ \/ pc' = "draw" /\ UNCHANGED outcome
       \/ pc' = "ended" /\ outcome' = "failed"
    /\ UNCHANGED <<packet, units, recorded, left, slots, given, filed>>

DrawUnsubtracted ==
    /\ pc = "draw" /\ ToCome > 0
    /\ \E money \in Lo(Safe(left, ToCome))..Hi(Safe(left, ToCome)) :
        /\ ~Panics(Safe(left, ToCome))
        /\ slots' = Append(slots, money) /\ given' = given + money
        /\ UNCHANGED left
    /\ UNCHANGED <<pc, packet, units, recorded, filed, outcome>>

(* One round of the loop of Generate.                                      *)
Draw ==
    /\ pc = "draw" /\ ToCome > 0
    /\ \E money \in Lo(Safe(left, ToCome))..Hi(Safe(left, ToCome)) :
        /\ ~Panics(Safe(left, ToCome))
        /\ slots' = Append(slots, money) /\ given' = given + money
        /\ left' = (left - money) % Word
    /\ UNCHANGED <<pc, packet, units, recorded, filed, outcome>>

(* Gin answers 500; the row of the packet stays.                           *)
DrawPanics ==
    /\ pc = "draw" /\ ToCome > 0 /\ Panics(Safe(left, ToCome))
    /\ pc' = "ended" /\ outcome' = "panicked"
    /\ UNCHANGED <<packet, units, recorded, left, slots, given, filed>>

(* The last slot gets what is left.                                        *)
DrawLast ==
    /\ pc = "draw" /\ ToCome = 0
    /\ slots' = Append(slots, left) /\ given' = given + left
    /\ pc' = "file"
    /\ UNCHANGED <<packet, units, recorded, left, filed, outcome>>

(* One INSERT of all the slots, each written as units over 10000, be they  *)
(* units or tokens.                                                        *)
File ==
    /\ pc = "file"
    /\ \/ pc' = "open" /\ filed' = slots /\ UNCHANGED outcome
       \/ pc' = "ended" /\ outcome' = "failed" /\ UNCHANGED filed
    /\ UNCHANGED <<packet, units, recorded, left, slots, given>>

Open ==
    /\ pc = "open" /\ pc' = "ended"
    /\ outcome' \in {"ok", "failed"}
    /\ UNCHANGED <<packet, units, recorded, left, slots, given, filed>>

-----------------------------------------------------------------------------
Init ==
    /\ pc = "check" /\ packet \in Packet
    /\ units = 0 /\ recorded = 0 /\ left = 0
    /\ slots = <<>> /\ given = 0 /\ filed = <<>> /\ outcome = "none"

Next == Check \/ Insert \/ Draw \/ DrawPanics \/ DrawLast \/ File \/ Open

Spec == Init /\ [][Next]_vars

-----------------------------------------------------------------------------
(* Properties. *)

(* The slots hold every unit of the packet and not one more, unless there  *)
(* are two recipients more than units: then the unsigned difference of     *)
(* generate.go:14 wraps.                                                   *)
SumKept == filed # <<>> /\ packet.num <= units + 1 => given = units

(* Two units per recipient are enough for nobody to draw an empty slot;    *)
(* with fewer the safe maximum can be 0, below the minimum of 1.  And a    *)
(* packet is on show without slots only after a failed statement or a      *)
(* panic, which comes of two recipients more than units, or of units that  *)
(* are negative as a signed number.                                        *)
NobodyGetsNothing ==
    /\ units >= 2 * (packet.num - 1) => \A i \in DOMAIN filed : filed[i] >= 1
    /\ outcome = "ok" => Len(filed) = packet.num
    /\ outcome = "panicked" => packet.num > units + 1 \/ units > Word \div 2

(* The slots are worth what the packet is recorded with, up to the unit    *)
(* that truncation and rounding make, or what wraps, if the token has four *)
(* decimals or more: without them a slot counts tokens as units.           *)
WorthHasCause ==
    filed # <<>> /\ packet.num <= units + 1 /\ ~packet.coarse =>
        given <= recorded /\ recorded - given <= 1
=============================================================================
