--------------------------- MODULE RedPacketClaim ---------------------------
(***************************************************************************)
(* Claiming red packets (handler/redpacket) and attaching what a Telegram  *)
(* identity has claimed to a user (handler/auth/telegram.go,               *)
(* handler/user/create.go).                                                *)
(*                                                                         *)
(* A slot is a row of red_packet_recipients.  It is taken by a logged-in   *)
(* user, or by a Telegram identity no user is linked to; such an anonymous *)
(* slot is given to the user when the two are linked.  Every handler is a  *)
(* goroutine that runs one SQL statement after the other without a         *)
(* transaction: each statement is an action, the request is what is kept   *)
(* between them.                                                           *)
(*                                                                         *)
(* MySQL is external: an UPDATE is atomic, and one that would give a user  *)
(* or a Telegram identity two slots of a packet fails as a whole, which    *)
(* submit.go:62 relies on (ER_DUP_ENTRY).                                  *)
(***************************************************************************)
EXTENDS Integers

CONSTANTS Slot,        \* rows of red_packet_recipients
          Packet,      \* rows of red_packets
          PacketOf,    \* red_packet_id of each slot
          User, Telegram,
          Request,     \* requests that may be in flight at the same time
          None

ASSUME PacketAssumption ==
    /\ PacketOf \in [Slot -> Packet]
    /\ \A p \in Packet : \E s \in Slot : PacketOf[s] = p
ASSUME NoneAssumption == None \notin User \union Telegram \union Packet

VARIABLES
    phase,      \* per packet: how far add.go is with it
    status,     \* per packet: red_packets.status, "ok" = 1, "allTaken" = 2
    expired,    \* per packet: expire_time has passed
    slotUser,   \* per slot: user_id or None
    slotTg,     \* per slot: telegram_id or None
    account,    \* rows of users
    telegramOf, \* per user: users.telegram_id or None
    req,        \* per request: what the handler still has to do
    proved,     \* history: user and Telegram identity once linked
    stale,      \* history: slots taken for an identity already linked
    dropped     \* history: identities a handler linked and then died

packets == <<phase, status, expired>>
slots == <<slotUser, slotTg>>
users == <<account, telegramOf>>
history == <<proved, stale, dropped>>
vars == <<packets, slots, users, req, history>>

Phases == {"absent", "added", "filled", "ready", "empty"}
Ops == {"idle", "claim", "link", "create", "show", "mark"}
Requests == [op : Ops, user : User \union {None}, tg : Telegram \union {None},
             packet : Packet \union {None}]

TypeOK ==
    /\ phase \in [Packet -> Phases]
    /\ status \in [Packet -> {"ok", "allTaken"}]
    /\ expired \in [Packet -> BOOLEAN]
    /\ slotUser \in [Slot -> User \union {None}]
    /\ slotTg \in [Slot -> Telegram \union {None}]
    /\ account \subseteq User
    /\ telegramOf \in [User -> Telegram \union {None}]
    /\ req \in [Request -> Requests]
    /\ proved \subseteq User \X Telegram
    /\ stale \subseteq Slot
    /\ dropped \subseteq Telegram
    /\ \A r \in Request :
          /\ req[r].op \in {"claim", "link", "create"} => req[r].tg \in Telegram
          /\ req[r].op \in {"link", "create"} => req[r].user \in User
          /\ req[r].op \in {"claim", "show", "mark"} => req[r].packet \in Packet

-----------------------------------------------------------------------------
SlotsOf(p) == {s \in Slot : PacketOf[s] = p}

(* status = 2 of a slot: every UPDATE that sets it sets one of the two.    *)
Taken(s) == slotUser[s] # None \/ slotTg[s] # None

(* Rows with status = 0 of packet p; there are none before the INSERT.     *)
Free(p) == {s \in SlotsOf(p) : phase[p] \in {"filled", "ready"} /\ ~Taken(s)}

Full(p) == \A s \in SlotsOf(p) : Taken(s)

HasSlot(u, p) == \E s \in SlotsOf(p) : slotUser[s] = u
TgHasSlot(t, p) == \E s \in SlotsOf(p) : slotTg[s] = t

Linked(t) == {u \in account : telegramOf[u] = t}
Orphans(t) == {s \in Slot : slotTg[s] = t /\ slotUser[s] = None}

Idle == [op |-> "idle", user |-> None, tg |-> None, packet |-> None]
Doing(op, u, t, p) == [op |-> op, user |-> u, tg |-> t, packet |-> p]
Await(r, todo) == req' = [req EXCEPT ![r] = todo]
Return(r) == Await(r, Idle)

-----------------------------------------------------------------------------
(* AddHandler. *)

(* INSERT INTO red_packets with status 1.                                  *)
AddPacket(p) ==
    /\ phase[p] = "absent"
    /\ phase' = [phase EXCEPT ![p] = "added"]
    /\ UNCHANGED <<status, expired, slots, users, req, history>>

(* prepareRedPacketRecipients: no slot exists yet, INSERT all of them.     *)
FillSlots(p) ==
    /\ phase[p] = "added"
    /\ phase' = [phase EXCEPT ![p] = "filled"]
    /\ UNCHANGED <<status, expired, slots, users, req, history>>

(* prepareRedPacketRecipients: UPDATE red_packets SET status=1 and         *)
(* expire_time, whatever the claims have made of it since.                 *)
OpenPacket(p) ==
    /\ phase[p] = "filled"
    /\ phase' = [phase EXCEPT ![p] = "ready"]
    /\ status' = [status EXCEPT ![p] = "ok"]
    /\ expired' = [expired EXCEPT ![p] = FALSE]
    /\ UNCHANGED <<slots, users, req, history>>

(* The INSERT of the slots or the UPDATE after it fails.                   *)
AddFails(p) ==
    /\ \/ phase[p] = "added" /\ phase' = [phase EXCEPT ![p] = "empty"]
       \/ phase[p] = "filled" /\ phase' = [phase EXCEPT ![p] = "ready"]
    /\ UNCHANGED <<status, expired, slots, users, req, history>>

Expire(p) ==
    /\ phase[p] \in {"ready", "empty"} /\ ~expired[p]
    /\ expired' = [expired EXCEPT ![p] = TRUE]
    /\ UNCHANGED <<phase, status, slots, users, req, history>>

-----------------------------------------------------------------------------
(* SubmitHandler. *)

(* UPDATE ... SET user_id WHERE status=0 LIMIT 1.  It changes nothing when *)
(* no slot is free ("unlucky") or the user has one ("submitted").          *)
TakeAsUser(u, p) ==
    /\ \/ \E s \in Free(p) : ~HasSlot(u, p) /\ slotUser' = [slotUser EXCEPT ![s] = u]
       \/ (Free(p) = {} \/ HasSlot(u, p)) /\ UNCHANGED slotUser
    /\ UNCHANGED <<slotTg, stale>>

(* UPDATE ... SET telegram_id WHERE status=0 LIMIT 1, likewise.            *)
TakeAsTelegram(t, p) ==
    /\ \/ \E s \in Free(p) :
             /\ ~TgHasSlot(t, p)
             /\ slotTg' = [slotTg EXCEPT ![s] = t]
             /\ stale' = stale \union {o \in {s} : Linked(t) # {}}
       \/ (Free(p) = {} \/ TgHasSlot(t, p)) /\ UNCHANGED <<slotTg, stale>>
    /\ UNCHANGED slotUser

(* A logged-in user claims: one statement.                                 *)
ClaimAsUser(u, p) ==
    /\ u \in account /\ phase[p] # "absent"
    /\ TakeAsUser(u, p)
    /\ UNCHANGED <<packets, users, req, proved, dropped>>

(* A visitor authenticated by Telegram claims: SELECT a linked user.       *)
ClaimLookup(r, t, p) ==
    /\ req[r] = Idle /\ phase[p] # "absent"
    /\ \E u \in IF Linked(t) = {} THEN {None} ELSE Linked(t) :
          Await(r, Doing("claim", u, t, p))
    /\ UNCHANGED <<packets, slots, users, history>>

ClaimTake(r) ==
    /\ req[r].op = "claim"
    /\ \/ req[r].user # None /\ TakeAsUser(req[r].user, req[r].packet)
       \/ req[r].user = None /\ TakeAsTelegram(req[r].tg, req[r].packet)
    /\ Return(r)
    /\ UNCHANGED <<packets, users, proved, dropped>>

-----------------------------------------------------------------------------
(* Linking a user and a Telegram identity. *)

(* TelegramHandler: UPDATE users.                                          *)
LinkUser(r, u, t) ==
    /\ req[r] = Idle /\ u \in account
    /\ telegramOf' = [telegramOf EXCEPT ![u] = t]
    /\ Await(r, Doing("link", u, t, None))
    /\ proved' = proved \union {<<u, t>>}
    /\ UNCHANGED <<packets, slots, account, stale, dropped>>

(* CreateHandler: INSERT INTO users; t is None when none was given, and    *)
(* in the other handlers that create users.                                *)
CreateUser(r, u, t) ==
    /\ req[r] = Idle /\ u \notin account
    /\ account' = account \union {u}
    /\ telegramOf' = [telegramOf EXCEPT ![u] = t]
    /\ IF t = None
       THEN UNCHANGED <<req, proved>>
       ELSE Await(r, Doing("create", u, t, None)) /\ proved' = proved \union {<<u, t>>}
    /\ UNCHANGED <<packets, slots, stale, dropped>>

(* UPDATE ... SET user_id=u of the rows in S: all of them or, when u would *)
(* have two slots of a packet, none.                                       *)
Attach(u, S) ==
    slotUser' = IF \E s \in S : HasSlot(u, PacketOf[s]) THEN slotUser
                ELSE [s \in Slot |-> IF s \in S THEN u ELSE slotUser[s]]

LinkSlotsOfAll(r) ==
    /\ req[r].op = "link"
    /\ Attach(req[r].user, UNION {Orphans(t) : t \in Telegram})
    /\ dropped' = dropped \ {req[r].tg}
    /\ Return(r)
    /\ UNCHANGED <<packets, slotTg, users, proved, stale>>

(* TelegramHandler: UPDATE red_packet_recipients.  Its rpr2 is joined on   *)
(* the user_id of a row that has none, so it excludes no row.              *)
LinkSlots(r) ==
    /\ req[r].op = "link"
    /\ Attach(req[r].user, Orphans(req[r].tg))
    /\ dropped' = dropped \ {req[r].tg}
    /\ Return(r)
    /\ UNCHANGED <<packets, slotTg, users, proved, stale>>

CreateSlotsNever(r) ==
    /\ req[r].op = "create"
    /\ dropped' = dropped \ {req[r].tg}
    /\ Return(r)
    /\ UNCHANGED <<packets, slots, users, proved, stale>>

(* CreateHandler: the same UPDATE joined with the users linked to t; rows  *)
(* of packets where each of them has a slot are left out.                  *)
CreateSlots(r) ==
    LET t == req[r].tg IN
    /\ req[r].op = "create"
    /\ Attach(req[r].user, {s \in Orphans(t) : \E u \in Linked(t) : ~HasSlot(u, PacketOf[s])})
    /\ dropped' = dropped \ {t}
    /\ Return(r)
    /\ UNCHANGED <<packets, slotTg, users, proved, stale>>

-----------------------------------------------------------------------------
(* ShowHandler. *)

(* SELECT the packet: only one with status 1, not expired, may be marked.  *)
Show(r, p) ==
    /\ req[r] = Idle /\ phase[p] # "absent"
    /\ status[p] = "ok" /\ ~expired[p]
    /\ Await(r, Doing("show", None, None, p))
    /\ UNCHANGED <<packets, slots, users, history>>

ShowCountSome(r) ==
    LET p == req[r].packet IN
    /\ req[r].op = "show"
    /\ Await(r, IF \E s \in SlotsOf(p) : Taken(s) THEN Doing("mark", None, None, p) ELSE Idle)
    /\ UNCHANGED <<packets, slots, users, history>>

(* SELECT its slots and compare their number with recipients.              *)
ShowCount(r) ==
    LET p == req[r].packet IN
    /\ req[r].op = "show"
    /\ Await(r, IF Full(p) THEN Doing("mark", None, None, p) ELSE Idle)
    /\ UNCHANGED <<packets, slots, users, history>>

(* UPDATE red_packets SET status=2.                                        *)
ShowMark(r) ==
    /\ req[r].op = "mark"
    /\ status' = [status EXCEPT ![req[r].packet] = "allTaken"]
    /\ Return(r)
    /\ UNCHANGED <<phase, expired, slots, users, history>>

(* A statement fails or the process ends: the rest is never done.          *)
Drop(r) ==
    /\ req[r].op # "idle"
    /\ dropped' = dropped \union
          {t \in Telegram : t = req[r].tg /\ req[r].op \in {"link", "create"}}
    /\ Return(r)
    /\ UNCHANGED <<packets, slots, users, proved, stale>>

-----------------------------------------------------------------------------
Init ==
    /\ phase = [p \in Packet |-> "absent"]
    /\ status = [p \in Packet |-> "ok"]
    /\ expired = [p \in Packet |-> FALSE]
    /\ slotUser = [s \in Slot |-> None]
    /\ slotTg = [s \in Slot |-> None]
    /\ account = {}
    /\ telegramOf = [u \in User |-> None]
    /\ req = [r \in Request |-> Idle]
    /\ proved = {}
    /\ stale = {}
    /\ dropped = {}

PacketStep(p) == AddPacket(p) \/ FillSlots(p) \/ OpenPacket(p) \/ AddFails(p) \/ Expire(p)

RequestStep(r) == ClaimTake(r) \/ LinkSlots(r) \/ CreateSlots(r) \/ ShowCount(r)
                  \/ ShowMark(r) \/ Drop(r)

Arrival(r) ==
    \/ \E t \in Telegram, p \in Packet : ClaimLookup(r, t, p)
    \/ \E p \in Packet : Show(r, p)
    \/ \E u \in User, t \in Telegram : LinkUser(r, u, t)
    \/ \E u \in User, t \in Telegram \union {None} : CreateUser(r, u, t)

Next ==
    \/ \E p \in Packet : PacketStep(p)
    \/ \E u \in User, p \in Packet : ClaimAsUser(u, p)
    \/ \E r \in Request : Arrival(r) \/ RequestStep(r)

Spec == Init /\ [][Next]_vars

-----------------------------------------------------------------------------
(* Properties. *)

(* Once a slot is a user's or a Telegram identity's it stays so: no claim, *)
(* no link and no account created later takes it away (the conditions      *)
(* status=0 and user_id IS NULL of four UPDATEs).                          *)
OwnerNeverChanges ==
    [][\A s \in Slot : /\ slotUser[s] # None => slotUser'[s] = slotUser[s]
                       /\ slotTg[s] # None => slotTg'[s] = slotTg[s]]_vars

(* A slot taken by a Telegram identity belongs to nobody or to a user who  *)
(* proved to hold that identity.                                           *)
OwnerHasTitle ==
    \A s \in Slot : slotUser[s] # None /\ slotTg[s] # None
                    => <<slotUser[s], slotTg[s]>> \in proved

Linking(t) == \E r \in Request : req[r].op \in {"link", "create"} /\ req[r].tg = t

(* A user of t, now or once, has a slot of a packet in which t has one     *)
(* that is still anonymous.                                                *)
Conflict(t) ==
    \E v \in User, s \in Orphans(t) : <<v, t>> \in proved /\ HasSlot(v, PacketOf[s])

(* Once t is linked and the handlers are done, an anonymous slot of t is   *)
(* left only for one of three reasons: its claim had read users before the *)
(* link, a handler died between its two UPDATEs, or a user of t has a slot *)
(* of the same packet as one of t's, which keeps all of them anonymous.    *)
OrphanHasCause ==
    \A t \in Telegram :
        Linked(t) # {} /\ ~Linking(t) /\ t \notin dropped
        => Orphans(t) \subseteq stale \/ Conflict(t)

(* A packet marked as all taken has no free slot, however old the SELECTs  *)
(* are that ShowHandler marks it by.                                       *)
AllTakenIsFull ==
    \A p \in Packet : status[p] = "allTaken" => Full(p)
=============================================================================
