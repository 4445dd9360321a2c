------------------------ MODULE RedPacketClaimProofs ------------------------
(* Theorems about RedPacketClaim for any slots, packets, users, Telegram   *)
(* identities and number of requests.                                      *)
EXTENDS RedPacketClaim, TLAPS

(* What ShowHandler found stays true until it writes.                      *)
MarkInv == \A r \in Request : req[r].op = "mark" => Full(req[r].packet)

(* Whoever is linked, or is being given slots, has proved the identity.    *)
ProvedInv ==
    /\ \A u \in account : telegramOf[u] # None => <<u, telegramOf[u]>> \in proved
    /\ \A r \in Request : req[r].op \in {"link", "create"}
                          => <<req[r].user, req[r].tg>> \in proved

(* One step never takes a slot away.                                       *)
SlotsKept ==
    \A s \in Slot : /\ slotUser[s] # None => slotUser'[s] = slotUser[s]
                    /\ slotTg[s] # None => slotTg'[s] = slotTg[s]

-----------------------------------------------------------------------------
(* Types. *)

LEMMA TypeInit == Init => TypeOK
BY DEF Init, TypeOK, Idle, Requests, Phases, Ops

(* A request that returns, or does something else, is still well typed.    *)
LEMMA AwaitType ==
    ASSUME TypeOK, NEW r \in Request, NEW todo \in Requests, Await(r, todo),
           todo.op \in {"claim", "link", "create"} => todo.tg \in Telegram,
           todo.op \in {"link", "create"} => todo.user \in User,
           todo.op \in {"claim", "show", "mark"} => todo.packet \in Packet
    PROVE  /\ req' \in [Request -> Requests]
           /\ \A q \in Request :
                /\ req'[q].op \in {"claim", "link", "create"} => req'[q].tg \in Telegram
                /\ req'[q].op \in {"link", "create"} => req'[q].user \in User
                /\ req'[q].op \in {"claim", "show", "mark"} => req'[q].packet \in Packet
BY DEF TypeOK, Await

LEMMA ReturnType ==
    ASSUME TypeOK, NEW r \in Request, Return(r)
    PROVE  /\ req' \in [Request -> Requests]
           /\ \A q \in Request :
                /\ req'[q].op \in {"claim", "link", "create"} => req'[q].tg \in Telegram
                /\ req'[q].op \in {"link", "create"} => req'[q].user \in User
                /\ req'[q].op \in {"claim", "show", "mark"} => req'[q].packet \in Packet
<1>1. Idle \in Requests /\ Idle.op = "idle"
  BY DEF Idle, Requests, Ops
<1> QED
  BY <1>1, AwaitType DEF Return

LEMMA TakeAsUserType ==
    ASSUME TypeOK, NEW u \in User, NEW p \in Packet, TakeAsUser(u, p)
    PROVE  /\ slotUser' \in [Slot -> User \union {None}]
           /\ slotTg' \in [Slot -> Telegram \union {None}]
           /\ stale' \subseteq Slot
BY DEF TypeOK, TakeAsUser, Free, SlotsOf

LEMMA TakeAsTelegramType ==
    ASSUME TypeOK, NEW t \in Telegram, NEW p \in Packet, TakeAsTelegram(t, p)
    PROVE  /\ slotUser' \in [Slot -> User \union {None}]
           /\ slotTg' \in [Slot -> Telegram \union {None}]
           /\ stale' \subseteq Slot
BY DEF TypeOK, TakeAsTelegram, Free, SlotsOf

LEMMA AttachType ==
    ASSUME TypeOK, NEW u \in User, NEW S, Attach(u, S)
    PROVE  slotUser' \in [Slot -> User \union {None}]
BY DEF TypeOK, Attach

LEMMA TypeStep == TypeOK /\ [Next]_vars => TypeOK'
<1> SUFFICES ASSUME TypeOK, [Next]_vars PROVE TypeOK'
  OBVIOUS
<1>1. ASSUME NEW p \in Packet, PacketStep(p) PROVE TypeOK'
  BY <1>1 DEF TypeOK, PacketStep, AddPacket, FillSlots, OpenPacket, AddFails, Expire,
              Phases, slots, users, history
<1>2. ASSUME NEW u \in User, NEW p \in Packet, ClaimAsUser(u, p) PROVE TypeOK'
  <2> USE <1>2 DEF ClaimAsUser
  <2>1. /\ slotUser' \in [Slot -> User \union {None}]
        /\ slotTg' \in [Slot -> Telegram \union {None}]
        /\ stale' \subseteq Slot
    BY TakeAsUserType
  <2> QED
    BY <2>1 DEF TypeOK, packets, users
<1>3. ASSUME NEW r \in Request, Arrival(r) PROVE TypeOK'
  <2>1. ASSUME NEW t \in Telegram, NEW p \in Packet, ClaimLookup(r, t, p) PROVE TypeOK'
    <3>1. PICK u \in IF Linked(t) = {} THEN {None} ELSE Linked(t) :
              Await(r, Doing("claim", u, t, p))
      BY <2>1 DEF ClaimLookup
    <3>2. u \in User \union {None}
      BY <3>1 DEF Linked, TypeOK
    <3>3. Doing("claim", u, t, p) \in Requests
      BY <3>2 DEF Doing, Requests, Ops
    <3> QED
      BY <2>1, <3>1, <3>3, AwaitType
         DEF ClaimLookup, TypeOK, packets, slots, users, history, Doing
  <2>2. ASSUME NEW p \in Packet, Show(r, p) PROVE TypeOK'
    <3>1. Doing("show", None, None, p) \in Requests
      BY DEF Doing, Requests, Ops
    <3> QED
      BY <2>2, <3>1, AwaitType DEF Show, TypeOK, packets, slots, users, history, Doing
  <2>3. ASSUME NEW u \in User, NEW t \in Telegram, LinkUser(r, u, t) PROVE TypeOK'
    <3>1. Doing("link", u, t, None) \in Requests
      BY DEF Doing, Requests, Ops
    <3> QED
      BY <2>3, <3>1, AwaitType DEF LinkUser, TypeOK, packets, slots, Doing
  <2>4. ASSUME NEW u \in User, NEW t \in Telegram \union {None}, CreateUser(r, u, t)
        PROVE TypeOK'
    <3>1. CASE t = None
      BY <2>4, <3>1 DEF CreateUser, TypeOK, packets, slots
    <3>2. CASE t # None
      <4>1. Doing("create", u, t, None) \in Requests
        BY DEF Doing, Requests, Ops
      <4> QED
        BY <2>4, <3>2, <4>1, AwaitType DEF CreateUser, TypeOK, packets, slots, Doing
    <3> QED
      BY <3>1, <3>2
  <2> QED
    BY <1>3, <2>1, <2>2, <2>3, <2>4 DEF Arrival
<1>4. ASSUME NEW r \in Request, RequestStep(r) PROVE TypeOK'
  <2>1. CASE ClaimTake(r)
    <3>1. /\ slotUser' \in [Slot -> User \union {None}]
          /\ slotTg' \in [Slot -> Telegram \union {None}]
          /\ stale' \subseteq Slot
      <4>1. req[r].tg \in Telegram /\ req[r].packet \in Packet
            /\ req[r].user \in User \union {None}
        BY <2>1 DEF ClaimTake, TypeOK, Requests
      <4> QED
        BY <2>1, <4>1, TakeAsUserType, TakeAsTelegramType DEF ClaimTake
    <3> QED
      BY <2>1, <3>1, ReturnType DEF ClaimTake, TypeOK, packets, users
  <2>2. CASE LinkSlots(r)
    <3>1. slotUser' \in [Slot -> User \union {None}]
      BY <2>2, AttachType DEF LinkSlots, TypeOK
    <3> QED
      BY <2>2, <3>1, ReturnType DEF LinkSlots, TypeOK, packets, users
  <2>3. CASE CreateSlots(r)
    <3>1. slotUser' \in [Slot -> User \union {None}]
      BY <2>3, AttachType DEF CreateSlots, TypeOK
    <3> QED
      BY <2>3, <3>1, ReturnType DEF CreateSlots, TypeOK, packets, users
  <2>4. CASE ShowCount(r)
    <3> DEFINE p == req[r].packet
    <3>1. p \in Packet
      BY <2>4 DEF ShowCount, TypeOK
    <3>2. Doing("mark", None, None, p) \in Requests
      BY <3>1 DEF Doing, Requests, Ops
    <3>3. Await(r, Doing("mark", None, None, p)) \/ Return(r)
      BY <2>4 DEF ShowCount, Return
    <3>4. /\ req' \in [Request -> Requests]
          /\ \A q \in Request :
               /\ req'[q].op \in {"claim", "link", "create"} => req'[q].tg \in Telegram
               /\ req'[q].op \in {"link", "create"} => req'[q].user \in User
               /\ req'[q].op \in {"claim", "show", "mark"} => req'[q].packet \in Packet
      BY <3>1, <3>2, <3>3, AwaitType, ReturnType DEF Doing
    <3> QED
      BY <2>4, <3>4 DEF ShowCount, TypeOK, packets, slots, users, history
  <2>5. CASE ShowMark(r)
    BY <2>5, ReturnType DEF ShowMark, TypeOK, slots, users, history
  <2>6. CASE Drop(r)
    BY <2>6, ReturnType DEF Drop, TypeOK, packets, slots, users
  <2> QED
    BY <1>4, <2>1, <2>2, <2>3, <2>4, <2>5, <2>6 DEF RequestStep
<1>5. CASE UNCHANGED vars
  BY <1>5 DEF TypeOK, vars, packets, slots, users, history
<1> QED
  BY <1>1, <1>2, <1>3, <1>4, <1>5 DEF Next

-----------------------------------------------------------------------------
(* What a step does to the slots: nothing, a claim as a user, a claim as a *)
(* Telegram identity, or a link that gives a user anonymous slots.         *)
SlotsSame == slotUser' = slotUser /\ slotTg' = slotTg /\ stale' = stale

UserClaims(u, s) ==
    /\ slotUser[s] = None /\ slotTg[s] = None
    /\ slotUser' = [slotUser EXCEPT ![s] = u]
    /\ slotTg' = slotTg /\ stale' = stale

TelegramClaims(t, s) ==
    /\ slotUser[s] = None /\ slotTg[s] = None
    /\ slotTg' = [slotTg EXCEPT ![s] = t]
    /\ slotUser' = slotUser
    /\ stale' = stale \union {o \in {s} : Linked(t) # {}}

LinkGives(r, S) ==
    /\ req[r].op \in {"link", "create"}
    /\ S \subseteq Orphans(req[r].tg)
    /\ Attach(req[r].user, S)
    /\ slotTg' = slotTg /\ stale' = stale

SlotStep ==
    \/ SlotsSame
    \/ \E u \in User, s \in Slot : UserClaims(u, s)
    \/ \E t \in Telegram, s \in Slot : TelegramClaims(t, s)
    \/ \E r \in Request : \E S \in SUBSET Slot : LinkGives(r, S)

LEMMA TakeAsUserSlots ==
    ASSUME NEW u \in User, NEW p \in Packet, TakeAsUser(u, p)
    PROVE  SlotsSame \/ \E s \in Slot : UserClaims(u, s)
BY DEF TakeAsUser, Free, SlotsOf, Taken, SlotsSame, UserClaims

LEMMA TakeAsTelegramSlots ==
    ASSUME NEW t \in Telegram, NEW p \in Packet, TakeAsTelegram(t, p)
    PROVE  SlotsSame \/ \E s \in Slot : TelegramClaims(t, s)
BY DEF TakeAsTelegram, Free, SlotsOf, Taken, SlotsSame, TelegramClaims

LEMMA StepSlots == TypeOK /\ [Next]_vars => SlotStep
<1> SUFFICES ASSUME TypeOK, [Next]_vars PROVE SlotStep
  OBVIOUS
<1>1. ASSUME NEW p \in Packet, PacketStep(p) PROVE SlotStep
  BY <1>1 DEF PacketStep, AddPacket, FillSlots, OpenPacket, AddFails, Expire,
              slots, history, SlotStep, SlotsSame
<1>2. ASSUME NEW u \in User, NEW p \in Packet, ClaimAsUser(u, p) PROVE SlotStep
  BY <1>2, TakeAsUserSlots DEF ClaimAsUser, SlotStep
<1>3. ASSUME NEW r \in Request, Arrival(r) PROVE SlotStep
  BY <1>3 DEF Arrival, ClaimLookup, Show, LinkUser, CreateUser, slots, history,
              SlotStep, SlotsSame
<1>4. ASSUME NEW r \in Request, ClaimTake(r) PROVE SlotStep
  <2>1. req[r].tg \in Telegram /\ req[r].packet \in Packet
        /\ req[r].user \in User \union {None}
    BY <1>4 DEF ClaimTake, TypeOK, Requests
  <2> QED
    BY <1>4, <2>1, TakeAsUserSlots, TakeAsTelegramSlots DEF ClaimTake, SlotStep
<1>5. ASSUME NEW r \in Request, LinkSlots(r) PROVE SlotStep
  <2>1. LinkGives(r, Orphans(req[r].tg))
    BY <1>5 DEF LinkSlots, LinkGives
  <2> QED
    BY <2>1 DEF SlotStep, Orphans
<1>6. ASSUME NEW r \in Request, CreateSlots(r) PROVE SlotStep
  <2> DEFINE S == {s \in Orphans(req[r].tg) :
                      \E u \in Linked(req[r].tg) : ~HasSlot(u, PacketOf[s])}
  <2>1. LinkGives(r, S)
    BY <1>6 DEF CreateSlots, LinkGives
  <2>2. S \in SUBSET Slot
    BY DEF Orphans
  <2> QED
    BY <2>1, <2>2 DEF SlotStep
<1>7. ASSUME NEW r \in Request, ShowCount(r) \/ ShowMark(r) \/ Drop(r) PROVE SlotStep
  BY <1>7 DEF ShowCount, ShowMark, Drop, slots, history, SlotStep, SlotsSame
<1>8. CASE UNCHANGED vars
  BY <1>8 DEF vars, slots, history, SlotStep, SlotsSame
<1> QED
  BY <1>1, <1>2, <1>3, <1>4, <1>5, <1>6, <1>7, <1>8 DEF Next, RequestStep

LEMMA StepKeepsSlots == TypeOK /\ [Next]_vars => SlotsKept
<1> SUFFICES ASSUME TypeOK, SlotStep PROVE SlotsKept
  BY StepSlots
<1> USE DEF TypeOK, SlotsKept
<1>1. CASE SlotsSame
  BY <1>1 DEF SlotsSame
<1>2. ASSUME NEW u \in User, NEW s \in Slot, UserClaims(u, s) PROVE SlotsKept
  BY <1>2 DEF UserClaims
<1>3. ASSUME NEW t \in Telegram, NEW s \in Slot, TelegramClaims(t, s) PROVE SlotsKept
  BY <1>3 DEF TelegramClaims
<1>4. ASSUME NEW r \in Request, NEW S \in SUBSET Slot, LinkGives(r, S) PROVE SlotsKept
  BY <1>4 DEF LinkGives, Attach, Orphans
<1> QED
  BY <1>1, <1>2, <1>3, <1>4 DEF SlotStep

LEMMA HasSlotStays ==
    ASSUME TypeOK, SlotsKept, NEW u \in User, NEW p, HasSlot(u, p)
    PROVE  HasSlot(u, p)'
BY NoneAssumption DEF TypeOK, SlotsKept, HasSlot, SlotsOf

LEMMA FullStays ==
    ASSUME SlotsKept, NEW p, Full(p)
    PROVE  Full(p)'
BY DEF SlotsKept, Full, SlotsOf, Taken

-----------------------------------------------------------------------------
(* What a step does to one request, as far as the invariants ask.          *)
RequestKept(q) ==
    \/ req'[q] = req[q]
    \/ req'[q].op \in {"idle", "claim", "show"}
    \/ req'[q].op = "mark" /\ \E p \in Packet : req'[q].packet = p /\ Full(p)
    \/ /\ req'[q].op \in {"link", "create"}
       /\ \E u \in User, t \in Telegram :
             req'[q].user = u /\ req'[q].tg = t /\ <<u, t>> \in proved'

LEMMA AwaitKeeps ==
    ASSUME TypeOK, NEW r \in Request, NEW todo, Await(r, todo), NEW q \in Request
    PROVE  req'[q] = req[q] \/ (q = r /\ req'[q] = todo)
BY DEF TypeOK, Await

LEMMA ReturnKeeps ==
    ASSUME TypeOK, NEW r \in Request, Return(r), NEW q \in Request
    PROVE  req'[q] = req[q] \/ req'[q].op = "idle"
BY AwaitKeeps DEF Return, Idle

LEMMA StepRequests ==
    ASSUME TypeOK, [Next]_vars
    PROVE  \A q \in Request : RequestKept(q)
<1> SUFFICES ASSUME NEW q \in Request PROVE RequestKept(q)
  OBVIOUS
<1>1. ASSUME NEW p \in Packet, PacketStep(p) PROVE RequestKept(q)
  BY <1>1 DEF PacketStep, AddPacket, FillSlots, OpenPacket, AddFails, Expire, RequestKept
<1>2. ASSUME NEW u \in User, NEW p \in Packet, ClaimAsUser(u, p) PROVE RequestKept(q)
  BY <1>2 DEF ClaimAsUser, RequestKept
<1>3. ASSUME NEW r \in Request, Arrival(r) PROVE RequestKept(q)
  <2>1. ASSUME NEW t \in Telegram, NEW p \in Packet, ClaimLookup(r, t, p)
        PROVE  RequestKept(q)
    BY <2>1, AwaitKeeps DEF ClaimLookup, Doing, RequestKept
  <2>2. ASSUME NEW p \in Packet, Show(r, p) PROVE RequestKept(q)
    BY <2>2, AwaitKeeps DEF Show, Doing, RequestKept
  <2>3. ASSUME NEW u \in User, NEW t \in Telegram, LinkUser(r, u, t) PROVE RequestKept(q)
    BY <2>3, AwaitKeeps DEF LinkUser, Doing, RequestKept
  <2>4. ASSUME NEW u \in User, NEW t \in Telegram \union {None}, CreateUser(r, u, t)
        PROVE  RequestKept(q)
    <3>1. CASE t = None
      BY <2>4, <3>1 DEF CreateUser, RequestKept
    <3>2. CASE t # None
      BY <2>4, <3>2, AwaitKeeps DEF CreateUser, Doing, RequestKept
    <3> QED
      BY <3>1, <3>2
  <2> QED
    BY <1>3, <2>1, <2>2, <2>3, <2>4 DEF Arrival
<1>4. ASSUME NEW r \in Request, ShowCount(r) PROVE RequestKept(q)
  <2> DEFINE p == req[r].packet
  <2>1. p \in Packet
    BY <1>4 DEF ShowCount, TypeOK
  <2>2. CASE Full(p)
    <3>1. req'[q] = req[q] \/ req'[q] = Doing("mark", None, None, p)
      BY <1>4, <2>2, AwaitKeeps DEF ShowCount
    <3> QED
      BY <2>1, <2>2, <3>1 DEF Doing, RequestKept
  <2>3. CASE ~Full(p)
    BY <1>4, <2>3, AwaitKeeps DEF ShowCount, Idle, RequestKept
  <2> QED
    BY <2>2, <2>3
<1>5. ASSUME NEW r \in Request,
             ClaimTake(r) \/ LinkSlots(r) \/ CreateSlots(r) \/ ShowMark(r) \/ Drop(r)
      PROVE  RequestKept(q)
  <2>1. Return(r)
    BY <1>5 DEF ClaimTake, LinkSlots, CreateSlots, ShowMark, Drop
  <2> QED
    BY <2>1, ReturnKeeps DEF RequestKept
<1>6. CASE UNCHANGED vars
  BY <1>6 DEF vars, RequestKept
<1> QED
  BY <1>1, <1>2, <1>3, <1>4, <1>5, <1>6 DEF Next, RequestStep

-----------------------------------------------------------------------------
(* All taken. *)

LEMMA MarkStep == TypeOK /\ MarkInv /\ [Next]_vars => MarkInv'
<1> SUFFICES ASSUME TypeOK, MarkInv, [Next]_vars, SlotsKept,
                    NEW q \in Request, (req[q].op = "mark")'
             PROVE  Full(req[q].packet)'
  BY StepKeepsSlots DEF MarkInv
<1>1. PICK p : p = req'[q].packet /\ Full(p)
  BY StepRequests DEF RequestKept, MarkInv
<1>2. Full(p)'
  BY <1>1, FullStays
<1> QED
  BY <1>1, <1>2 DEF Full, SlotsOf, Taken

LEMMA AllTakenStep == TypeOK /\ MarkInv /\ AllTakenIsFull /\ [Next]_vars => AllTakenIsFull'
<1> SUFFICES ASSUME TypeOK, MarkInv, AllTakenIsFull, [Next]_vars, SlotsKept,
                    NEW p \in Packet, (status[p] = "allTaken")'
             PROVE  Full(p)'
  BY StepKeepsSlots DEF AllTakenIsFull
<1>1. status[p] = "allTaken" \/ \E r \in Request : ShowMark(r) /\ req[r].packet = p
  <2>1. ASSUME NEW o \in Packet, PacketStep(o) PROVE status[p] = "allTaken"
    BY <2>1 DEF PacketStep, AddPacket, FillSlots, OpenPacket, AddFails, Expire, TypeOK
  <2>2. ASSUME NEW u \in User, NEW o \in Packet, ClaimAsUser(u, o)
        PROVE  status[p] = "allTaken"
    BY <2>2 DEF ClaimAsUser, packets
  <2>3. ASSUME NEW r \in Request, Arrival(r) PROVE status[p] = "allTaken"
    BY <2>3 DEF Arrival, ClaimLookup, Show, LinkUser, CreateUser, packets
  <2>4. ASSUME NEW r \in Request,
               ClaimTake(r) \/ LinkSlots(r) \/ CreateSlots(r) \/ ShowCount(r) \/ Drop(r)
        PROVE  status[p] = "allTaken"
    BY <2>4 DEF ClaimTake, LinkSlots, CreateSlots, ShowCount, Drop, packets
  <2>5. ASSUME NEW r \in Request, ShowMark(r)
        PROVE  status[p] = "allTaken" \/ req[r].packet = p
    BY <2>5 DEF ShowMark, TypeOK
  <2>6. CASE UNCHANGED vars
    BY <2>6 DEF vars, packets
  <2> QED
    BY <2>1, <2>2, <2>3, <2>4, <2>5, <2>6 DEF Next, RequestStep
<1>2. Full(p)
  BY <1>1 DEF AllTakenIsFull, MarkInv, ShowMark
<1> QED
  BY <1>2, FullStays

-----------------------------------------------------------------------------
(* Titles. *)

LEMMA ProvedGrows == [Next]_vars => proved \subseteq proved'
BY DEF Next, PacketStep, AddPacket, FillSlots, OpenPacket, AddFails, Expire,
       ClaimAsUser, Arrival, ClaimLookup, Show, LinkUser, CreateUser, RequestStep,
       ClaimTake, LinkSlots, CreateSlots, ShowCount, ShowMark, Drop, history, vars

LEMMA StepUsers ==
    ASSUME TypeOK, [Next]_vars
    PROVE  \/ UNCHANGED users
           \/ \E r \in Request, u \in User, t \in Telegram : LinkUser(r, u, t)
           \/ \E r \in Request, u \in User, t \in Telegram \union {None} : CreateUser(r, u, t)
BY DEF Next, PacketStep, AddPacket, FillSlots, OpenPacket, AddFails, Expire,
       ClaimAsUser, Arrival, ClaimLookup, Show, RequestStep,
       ClaimTake, LinkSlots, CreateSlots, ShowCount, ShowMark, Drop, vars

LEMMA ProvedStep == TypeOK /\ ProvedInv /\ [Next]_vars => ProvedInv'
<1> SUFFICES ASSUME TypeOK, ProvedInv, [Next]_vars PROVE ProvedInv'
  OBVIOUS
<1>1. proved \subseteq proved'
  BY ProvedGrows
<1>2. \A q \in Request : req'[q].op \in {"link", "create"}
                         => <<req'[q].user, req'[q].tg>> \in proved'
  BY <1>1, StepRequests DEF RequestKept, ProvedInv
<1>3. ASSUME NEW v \in account', telegramOf'[v] # None
      PROVE  <<v, telegramOf'[v]>> \in proved'
  <2>1. CASE UNCHANGED users
    BY <1>1, <1>3, <2>1 DEF users, ProvedInv
  <2>2. ASSUME NEW r \in Request, NEW u \in User, NEW t \in Telegram, LinkUser(r, u, t)
        PROVE  <<v, telegramOf'[v]>> \in proved'
    BY <1>1, <1>3, <2>2 DEF LinkUser, ProvedInv, TypeOK
  <2>3. ASSUME NEW r \in Request, NEW u \in User, NEW t \in Telegram \union {None},
               CreateUser(r, u, t)
        PROVE  <<v, telegramOf'[v]>> \in proved'
    BY <1>1, <1>3, <2>3 DEF CreateUser, ProvedInv, TypeOK
  <2> QED
    BY <2>1, <2>2, <2>3, StepUsers
<1> QED
  BY <1>2, <1>3 DEF ProvedInv

LEMMA TitleStep == TypeOK /\ ProvedInv /\ OwnerHasTitle /\ [Next]_vars => OwnerHasTitle'
<1> SUFFICES ASSUME TypeOK, ProvedInv, OwnerHasTitle, [Next]_vars, SlotStep,
                    proved \subseteq proved', NEW s \in Slot,
                    slotUser'[s] # None, slotTg'[s] # None
             PROVE  <<slotUser'[s], slotTg'[s]>> \in proved'
  BY StepSlots, ProvedGrows DEF OwnerHasTitle
<1> USE DEF TypeOK, OwnerHasTitle
<1>1. CASE SlotsSame
  BY <1>1 DEF SlotsSame
<1>2. ASSUME NEW u \in User, NEW o \in Slot, UserClaims(u, o)
      PROVE  <<slotUser'[s], slotTg'[s]>> \in proved'
  BY <1>2 DEF UserClaims
<1>3. ASSUME NEW t \in Telegram, NEW o \in Slot, TelegramClaims(t, o)
      PROVE  <<slotUser'[s], slotTg'[s]>> \in proved'
  BY <1>3 DEF TelegramClaims
<1>4. ASSUME NEW r \in Request, NEW S \in SUBSET Slot, LinkGives(r, S)
      PROVE  <<slotUser'[s], slotTg'[s]>> \in proved'
  BY <1>4 DEF LinkGives, Attach, Orphans, ProvedInv
<1> QED
  BY <1>1, <1>2, <1>3, <1>4 DEF SlotStep

-----------------------------------------------------------------------------
(* Anonymous slots. *)

Excused(t) ==
    Linked(t) # {} /\ ~Linking(t) /\ t \notin dropped
    => Orphans(t) \subseteq stale \/ Conflict(t)

LEMMA StaleGrows == SlotStep => stale \subseteq stale'
BY DEF SlotStep, SlotsSame, UserClaims, TelegramClaims, LinkGives

(* A conflict lasts while its anonymous slot does.                         *)
LEMMA ConflictStays ==
    ASSUME TypeOK, SlotsKept, proved \subseteq proved', NEW t \in Telegram,
           Conflict(t), Orphans(t) \subseteq Orphans(t)'
    PROVE  Conflict(t)'
<1>1. PICK v \in User, s \in Orphans(t) : <<v, t>> \in proved /\ HasSlot(v, PacketOf[s])
  BY DEF Conflict
<1>2. s \in Orphans(t)' /\ <<v, t>> \in proved'
  BY <1>1
<1>3. HasSlot(v, PacketOf[s])'
  BY <1>1, HasSlotStays
<1> QED
  BY <1>2, <1>3 DEF Conflict

(* Only a claim by t and a link to t change the anonymous slots of t.      *)
LEMMA OrphansKept ==
    ASSUME TypeOK, SlotStep, NEW t \in Telegram,
           ~ \E s \in Slot : TelegramClaims(t, s),
           ~ \E r \in Request : \E S \in SUBSET Slot : LinkGives(r, S) /\ req[r].tg = t
    PROVE  Orphans(t)' = Orphans(t)
<1> USE DEF TypeOK
<1>1. CASE SlotsSame
  BY <1>1 DEF SlotsSame, Orphans
<1>2. ASSUME NEW u \in User, NEW s \in Slot, UserClaims(u, s)
      PROVE  Orphans(t)' = Orphans(t)
  BY <1>2, NoneAssumption DEF UserClaims, Orphans
<1>3. ASSUME NEW o \in Telegram, NEW s \in Slot, TelegramClaims(o, s)
      PROVE  Orphans(t)' = Orphans(t)
  <2>1. o # t
    BY <1>3
  <2> QED
    BY <1>3, <2>1, NoneAssumption DEF TelegramClaims, Orphans
<1>4. ASSUME NEW r \in Request, NEW S \in SUBSET Slot, LinkGives(r, S)
      PROVE  Orphans(t)' = Orphans(t)
  <2>1. req[r].tg # t
    BY <1>4
  <2> QED
    BY <1>4, <2>1 DEF LinkGives, Attach, Orphans
<1> QED
  BY <1>1, <1>2, <1>3, <1>4 DEF SlotStep

(* A step that neither starts nor ends a link of t, nor links it, keeps    *)
(* the excuse; a claim by t adds a slot, stale if t is linked.             *)
LEMMA ExcusedStays ==
    ASSUME TypeOK, SlotStep, SlotsKept, proved \subseteq proved', NEW t \in Telegram,
           Excused(t), Linked(t)' \subseteq Linked(t),
           Linking(t) => Linking(t)', t \in dropped => t \in dropped'
    PROVE  Excused(t)'
<1> SUFFICES ASSUME (Linked(t) # {})', ~Linking(t)', (t \notin dropped)'
             PROVE  (Orphans(t) \subseteq stale)' \/ Conflict(t)'
  BY DEF Excused
<1>1. Orphans(t) \subseteq stale \/ Conflict(t)
  BY DEF Excused
<1>2. stale \subseteq stale' /\ ~Linking(t)
  BY StaleGrows
<1>3. CASE \E s \in Slot : TelegramClaims(t, s)
  <2>1. PICK s \in Slot : TelegramClaims(t, s)
    BY <1>3
  <2>2. Linked(t) # {}
    OBVIOUS
  <2>3. s \in stale'
    BY <2>1, <2>2 DEF TelegramClaims
  <2>4. Orphans(t)' = Orphans(t) \union {s}
    BY <2>1 DEF TelegramClaims, Orphans, TypeOK
  <2> QED
    BY <1>1, <1>2, <2>3, <2>4, ConflictStays
<1>4. CASE ~ \E s \in Slot : TelegramClaims(t, s)
  <2>1. Orphans(t)' = Orphans(t)
    BY <1>2, <1>4, OrphansKept DEF LinkGives, Linking
  <2> QED
    BY <1>1, <1>2, <2>1, ConflictStays
<1> QED
  BY <1>3, <1>4

(* The request r replaced by one that is no link keeps the others linking. *)
LEMMA LinkingStays ==
    ASSUME TypeOK, NEW t \in Telegram, NEW r \in Request, NEW todo, Await(r, todo),
           req[r].op \in {"link", "create"} => req[r].tg # t
    PROVE  Linking(t) => Linking(t)'
BY DEF TypeOK, Await, Linking

(* The UPDATE of LinkSlots: all anonymous slots of t, or a conflict.       *)
LEMMA LinkExcused ==
    ASSUME TypeOK, ProvedInv, SlotsKept, proved \subseteq proved', NEW r \in Request,
           LinkSlots(r), NEW t \in Telegram, t = req[r].tg
    PROVE  Excused(t)'
<1>1. PICK u \in User : u = req[r].user /\ <<u, t>> \in proved
  BY DEF LinkSlots, TypeOK, ProvedInv
<1>2. Attach(u, Orphans(t)) /\ slotTg' = slotTg
  BY <1>1 DEF LinkSlots
<1>3. CASE \E s \in Orphans(t) : HasSlot(u, PacketOf[s])
  <2>1. Conflict(t)
    BY <1>1, <1>3 DEF Conflict
  <2>2. Orphans(t)' = Orphans(t)
    BY <1>2, <1>3 DEF Attach, Orphans
  <2>3. Conflict(t)'
    BY <2>1, <2>2, ConflictStays
  <2> QED
    BY <2>3 DEF Excused
<1>4. CASE ~ \E s \in Orphans(t) : HasSlot(u, PacketOf[s])
  <2>1. \A s \in Slot : ~(slotTg'[s] = t /\ slotUser'[s] = None)
    BY <1>2, <1>4, NoneAssumption DEF Attach, Orphans
  <2> QED
    BY <2>1 DEF Excused, Orphans
<1> QED
  BY <1>3, <1>4

(* The UPDATE of CreateSlots: what it leaves anonymous is in a packet      *)
(* where a linked user has a slot.                                         *)
LEMMA CreateExcused ==
    ASSUME TypeOK, ProvedInv, SlotsKept, proved \subseteq proved', NEW r \in Request,
           CreateSlots(r), NEW t \in Telegram, t = req[r].tg
    PROVE  Excused(t)'
<1> DEFINE S == {s \in Orphans(t) : \E u \in Linked(t) : ~HasSlot(u, PacketOf[s])}
<1>1. PICK u \in User : u = req[r].user /\ <<u, t>> \in proved
  BY DEF CreateSlots, TypeOK, ProvedInv
<1>2. Attach(u, S) /\ slotTg' = slotTg /\ UNCHANGED users
  BY <1>1 DEF CreateSlots
<1>3. CASE \E s \in S : HasSlot(u, PacketOf[s])
  <2>1. Conflict(t)
    BY <1>1, <1>3 DEF Conflict
  <2>2. Orphans(t)' = Orphans(t)
    BY <1>2, <1>3 DEF Attach, Orphans
  <2>3. Conflict(t)'
    BY <2>1, <2>2, ConflictStays
  <2> QED
    BY <2>3 DEF Excused
<1>4. CASE ~ \E s \in S : HasSlot(u, PacketOf[s])
  <2>1. SUFFICES ASSUME (Linked(t) # {})', NEW s \in Orphans(t)' PROVE Conflict(t)'
    BY DEF Excused
  <2>2. s \in Orphans(t) /\ s \notin S
    BY <1>2, <1>4, NoneAssumption DEF Attach, Orphans
  <2>3. PICK v \in User : v \in Linked(t)
    BY <1>2, <2>1 DEF users, Linked, TypeOK
  <2>4. HasSlot(v, PacketOf[s]) /\ <<v, t>> \in proved
    BY <2>2, <2>3, NoneAssumption DEF Linked, ProvedInv
  <2>5. HasSlot(v, PacketOf[s])'
    BY <2>4, HasSlotStays
  <2> QED
    BY <2>1, <2>4, <2>5 DEF Conflict
<1> QED
  BY <1>3, <1>4

LEMMA OrphanStep ==
    TypeOK /\ ProvedInv /\ OrphanHasCause /\ [Next]_vars => OrphanHasCause'
<1> SUFFICES ASSUME TypeOK, ProvedInv, OrphanHasCause, [Next]_vars,
                    SlotStep, SlotsKept, proved \subseteq proved',
                    NEW t \in Telegram
             PROVE  Excused(t)'
  BY StepSlots, StepKeepsSlots, ProvedGrows DEF OrphanHasCause, Excused
<1>0. Excused(t)
  BY DEF OrphanHasCause, Excused
<1>1. ASSUME UNCHANGED users, UNCHANGED req, UNCHANGED dropped PROVE Excused(t)'
  BY <1>0, <1>1, ExcusedStays DEF users, Linked, Linking
<1>2. ASSUME NEW r \in Request, NEW todo, Await(r, todo), UNCHANGED <<users, dropped>>,
             req[r].op \in {"link", "create"} => req[r].tg # t
      PROVE  Excused(t)'
  BY <1>0, <1>2, ExcusedStays, LinkingStays DEF users, Linked
<1>3. ASSUME NEW p \in Packet, PacketStep(p) PROVE Excused(t)'
  BY <1>1, <1>3 DEF PacketStep, AddPacket, FillSlots, OpenPacket, AddFails, Expire, history
<1>4. ASSUME NEW u \in User, NEW p \in Packet, ClaimAsUser(u, p) PROVE Excused(t)'
  BY <1>1, <1>4 DEF ClaimAsUser
<1>5. ASSUME NEW r \in Request, Arrival(r) PROVE Excused(t)'
  <2>1. ASSUME NEW o \in Telegram, NEW p \in Packet, ClaimLookup(r, o, p)
        PROVE  Excused(t)'
    BY <1>2, <2>1 DEF ClaimLookup, Idle, history
  <2>2. ASSUME NEW p \in Packet, Show(r, p) PROVE Excused(t)'
    BY <1>2, <2>2 DEF Show, Idle, history
  <2>3. ASSUME NEW u \in User, NEW o \in Telegram, LinkUser(r, u, o) PROVE Excused(t)'
    <3>1. CASE o = t
      <4>1. Linking(t)'
        BY <2>3, <3>1 DEF LinkUser, Await, Doing, TypeOK, Linking
      <4> QED
        BY <4>1 DEF Excused
    <3>2. CASE o # t
      <4>1. Linking(t) => Linking(t)'
        BY <2>3, LinkingStays DEF LinkUser, Idle
      <4>2. Linked(t)' \subseteq Linked(t)
        BY <2>3, <3>2 DEF LinkUser, Linked, TypeOK
      <4> QED
        BY <1>0, <2>3, <4>1, <4>2, ExcusedStays DEF LinkUser
    <3> QED
      BY <3>1, <3>2
  <2>4. ASSUME NEW u \in User, NEW o \in Telegram \union {None}, CreateUser(r, u, o)
        PROVE  Excused(t)'
    <3>1. CASE o = t /\ o # None
      <4>1. Linking(t)'
        BY <2>4, <3>1 DEF CreateUser, Await, Doing, TypeOK, Linking
      <4> QED
        BY <4>1 DEF Excused
    <3>2. CASE o # t \/ o = None
      <4>1. o # t
        BY <3>2, NoneAssumption
      <4>2. Linking(t) => Linking(t)'
        <5>1. CASE o = None
          BY <2>4, <5>1 DEF CreateUser, Linking
        <5>2. CASE o # None
          BY <2>4, <5>2, LinkingStays DEF CreateUser, Idle
        <5> QED
          BY <5>1, <5>2
      <4>3. Linked(t)' \subseteq Linked(t)
        BY <2>4, <4>1 DEF CreateUser, Linked, TypeOK
      <4> QED
        BY <1>0, <2>4, <4>2, <4>3, ExcusedStays DEF CreateUser
    <3> QED
      BY <3>1, <3>2
  <2> QED
    BY <1>5, <2>1, <2>2, <2>3, <2>4 DEF Arrival
<1>6. ASSUME NEW r \in Request, ClaimTake(r) \/ ShowCount(r) \/ ShowMark(r)
      PROVE  Excused(t)'
  <2>1. req[r].op \notin {"link", "create"} /\ UNCHANGED <<users, dropped>>
    BY <1>6 DEF ClaimTake, ShowCount, ShowMark, history
  <2>2. \E todo : Await(r, todo)
    BY <1>6 DEF ClaimTake, ShowCount, ShowMark, Return
  <2> QED
    BY <1>2, <2>1, <2>2
<1>7. ASSUME NEW r \in Request, LinkSlots(r) \/ CreateSlots(r) PROVE Excused(t)'
  <2>1. CASE req[r].tg = t
    BY <1>7, <2>1, LinkExcused, CreateExcused
  <2>2. CASE req[r].tg # t
    <3>1. Linking(t) => Linking(t)'
      BY <1>7, <2>2, LinkingStays DEF LinkSlots, CreateSlots, Return
    <3>2. UNCHANGED users /\ (t \in dropped => t \in dropped')
      BY <1>7, <2>2 DEF LinkSlots, CreateSlots
    <3> QED
      BY <1>0, <3>1, <3>2, ExcusedStays DEF users, Linked
  <2> QED
    BY <2>1, <2>2
<1>8. ASSUME NEW r \in Request, Drop(r) PROVE Excused(t)'
  <2>1. CASE req[r].op \in {"link", "create"} /\ req[r].tg = t
    BY <1>8, <2>1 DEF Drop, Excused
  <2>2. CASE ~(req[r].op \in {"link", "create"} /\ req[r].tg = t)
    <3>1. Linking(t) => Linking(t)'
      BY <1>8, <2>2, LinkingStays DEF Drop, Return
    <3> QED
      BY <1>0, <1>8, <3>1, ExcusedStays DEF Drop, users, Linked
  <2> QED
    BY <2>1, <2>2
<1>9. CASE UNCHANGED vars
  BY <1>1, <1>9 DEF vars, history
<1> QED
  BY <1>3, <1>4, <1>5, <1>6, <1>7, <1>8, <1>9 DEF Next, RequestStep

-----------------------------------------------------------------------------
(* The theorems. *)

IInv == TypeOK /\ MarkInv /\ AllTakenIsFull /\ ProvedInv /\ OwnerHasTitle /\ OrphanHasCause

LEMMA InitIInv == Init => IInv
<1> SUFFICES ASSUME Init PROVE IInv
  OBVIOUS
<1>1. TypeOK
  BY TypeInit
<1>2. MarkInv /\ AllTakenIsFull
  BY DEF Init, MarkInv, AllTakenIsFull, Idle
<1>3. ProvedInv /\ OwnerHasTitle
  BY DEF Init, ProvedInv, OwnerHasTitle, Idle
<1>4. OrphanHasCause
  BY DEF Init, OrphanHasCause, Linked
<1> QED
  BY <1>1, <1>2, <1>3, <1>4 DEF IInv

LEMMA Invariance == Spec => []IInv
<1>1. IInv /\ [Next]_vars => IInv'
  BY TypeStep, MarkStep, AllTakenStep, ProvedStep, TitleStep, OrphanStep DEF IInv
<1> QED
  BY InitIInv, <1>1, PTL DEF Spec

(* Every variable keeps its type.                                          *)
THEOREM TypeCorrect == Spec => []TypeOK
BY Invariance, PTL DEF IInv

(* submit.go, telegram.go, create.go: whoever holds a slot keeps it.       *)
THEOREM OwnersStay == Spec => OwnerNeverChanges
<1>1. TypeOK /\ [Next]_vars => [SlotsKept]_vars
  BY StepKeepsSlots
<1>2. [SlotsKept]_vars => [\A s \in Slot :
          /\ slotUser[s] # None => slotUser'[s] = slotUser[s]
          /\ slotTg[s] # None => slotTg'[s] = slotTg[s]]_vars
  BY DEF SlotsKept
<1> QED
  BY <1>1, <1>2, TypeCorrect, PTL DEF Spec, OwnerNeverChanges

(* telegram.go, create.go: an anonymous slot goes to nobody but a user who *)
(* proved to hold the Telegram identity that took it.                      *)
THEOREM OwnersHaveTitle == Spec => []OwnerHasTitle
BY Invariance, PTL DEF IInv

(* telegram.go, create.go: a linked identity has anonymous slots for one   *)
(* of the three named causes only, whatever the interleaving.              *)
THEOREM OrphansExplained == Spec => []OrphanHasCause
BY Invariance, PTL DEF IInv

(* show.go: a packet marked as all taken has no free slot.                 *)
THEOREM AllTakenSound == Spec => []AllTakenIsFull
BY Invariance, PTL DEF IInv
=============================================================================
