-------------------------- MODULE VerifyCodeProofs --------------------------
(* Theorems about VerifyCode for any number of codes, wallets, members,    *)
(* requests and messages, and any sizes of the queues.                     *)
EXTENDS VerifyCode, FiniteSetTheorems, TLAPS

-----------------------------------------------------------------------------
(* The invariants. *)

(* Who wrote a message, and that one without a code is of no interest.     *)
LetterInv ==
    \A m \in Msgs :
        /\ msg[m].at # "unsent" => msg[m].member \in Member
        /\ msg[m].at = "unsent" => msg[m].code = None
        /\ msg[m].code = None => ~msg[m].inGroup
        /\ msg[m].at \in {"insert", "update", "count"} => msg[m].code \in Code

(* A code has its wallet from the moment it is bound. *)
RowInv ==
    \A c \in Code :
        /\ code[c].status \in {"none", "issued"} => code[c].wallet = None
        /\ code[c].status \in {"bound", "filed"} => code[c].wallet \in Wallet
        /\ code[c].status = "deleted" => ~code[c].old

ReqInv ==
    \A r \in Request : req[r].step # "idle" =>
        req[r].code \in Code /\ req[r].wallet \in Wallet /\ req[r].airdrop \in Airdrop

(* A worker knows the wallet of its code, which was bound. *)
WorkInv ==
    \A m \in Msgs :
        /\ msg[m].at \in {"insert", "update"} =>
            /\ code[msg[m].code].status \in {"bound", "filed", "deleted"}
            /\ code[msg[m].code].wallet \in Wallet
        /\ msg[m].at = "insert" => msg[m].wallet = code[msg[m].code].wallet
        /\ msg[m].at = "update" => msg[m].ret # "none"

BaseInv == TypeOK /\ LetterInv /\ RowInv /\ ReqInv /\ WorkInv /\ IsFiniteSet(filed)

(* Of a code without doubt: one worker has it at most, nothing is filed    *)
(* for it before the INSERT, and once, and then it is used up.             *)
HandInv(c) ==
    /\ \A m, n \in Working : msg[m].code = c /\ msg[n].code = c => m = n
    /\ \A m \in Msgs : msg[m].code = c =>
        /\ msg[m].at \in {"insert", "update"} => code[c].status = "bound"
        /\ msg[m].at = "insert" \/ (msg[m].at = "update" /\ msg[m].ret # "one") =>
            \A s \in filed : s.code # c
    /\ \A s \in filed : s.code = c =>
            code[c].status = "filed" \/ \E m \in At("update") : msg[m].code = c
    /\ \A s, t \in filed : s.code = c /\ t.code = c => s = t

CodeInv == \A c \in Code \ doubt : HandInv(c)

(* Of an airdrop and a wallet without a race: one request by a link of    *)
(* the airdrop is about to bind the wallet, which then no code of it has.  *)
(* A stray code got its wallet from a link of another airdrop.             *)
Has(c, a, w) ==
    /\ AirdropOf[c] = a /\ c \notin stray
    /\ code[c].wallet = w /\ code[c].status # "deleted"
WalletAt(a, w) ==
    /\ \A r, q \in Request : Asks(r, a, w) /\ Asks(q, a, w) => r = q
    /\ \A r \in Request, c \in Code : Asks(r, a, w) => ~Has(c, a, w)
    /\ \A c, d \in Code : Has(c, a, w) /\ Has(d, a, w) => c = d
WalletInv == \A a \in Airdrop, w \in Wallet : <<a, w>> \notin raced => WalletAt(a, w)

-----------------------------------------------------------------------------
(* What a step leaves of a message, field by field. *)

MsgOthers(m) == \A n \in Msgs \ {m} : msg'[n] = msg[n]
SameLetter(m) == /\ msg'[m].code = msg[m].code /\ msg'[m].member = msg[m].member
                 /\ msg'[m].inGroup = msg[m].inGroup
MsgType == msg' \in [Msgs -> Messages]

LEMMA RecordField ==
    ASSUME NEW r \in Messages
    PROVE  /\ \A at \in {"unsent", "chat", "channel", "buffer", "serving", "insert", "update",
                         "count", "done", "lost"} : [r EXCEPT !.at = at] \in Messages
           /\ [r EXCEPT !.late = FALSE] \in Messages
           /\ \A l \in BOOLEAN : [r EXCEPT !.late = l] \in Messages
           /\ \A w \in Wallet \union {None} : [r EXCEPT !.wallet = w] \in Messages
           /\ \A t \in {"none", "one", "zero", "nil"} : [r EXCEPT !.ret = t] \in Messages
           /\ \A c \in Code \union {None} : [r EXCEPT !.code = c] \in Messages
           /\ \A u \in Member \union {None} : [r EXCEPT !.member = u] \in Messages
           /\ \A g \in BOOLEAN : [r EXCEPT !.inGroup = g] \in Messages
           /\ \A g \in BOOLEAN : [r EXCEPT !.confirmed = g] \in Messages
  BY ZenonT(60) DEF Messages

LEMMA FinishFacts ==
    ASSUME NEW r \in Messages
    PROVE  /\ Finish(r) \in Messages /\ Finish(r).at = "done" /\ Finish(r).ret = "none"
           /\ Finish(r).code = r.code /\ Finish(r).member = r.member
           /\ Finish(r).inGroup = r.inGroup
<1> DEFINE r1 == [r EXCEPT !.at = "done"]
           r2 == [r1 EXCEPT !.late = FALSE]
           r3 == [r2 EXCEPT !.wallet = None]
           r4 == [r3 EXCEPT !.ret = "none"]
<1>1. r1 \in Messages
  BY RecordField
<1>2. r2 \in Messages
  <2> HIDE DEF r1
  <2> QED
    BY <1>1, RecordField
<1>3. r3 \in Messages
  <2> HIDE DEF r2
  <2> QED
    BY <1>2, RecordField
<1>4. r4 \in Messages
  <2> HIDE DEF r3
  <2> QED
    BY <1>3, RecordField
<1>5. Finish(r) = r4
  BY DEF Finish
<1>6. /\ r4.at = "done" /\ r4.ret = "none"
      /\ r4.code = r.code /\ r4.member = r.member /\ r4.inGroup = r.inGroup
  BY DEF Messages
<1> QED
  BY <1>4, <1>5, <1>6

LEMMA AnswerFacts ==
    ASSUME TypeOK, NEW m \in Msgs, Answer(m)
    PROVE  /\ MsgType /\ MsgOthers(m) /\ SameLetter(m)
           /\ msg'[m].at = "done" /\ msg'[m].ret = "none"
<1>1. msg \in [Msgs -> Messages] /\ msg' = [msg EXCEPT ![m] = Finish(msg[m])]
  BY DEF TypeOK, Answer
<1>2. msg[m] \in Messages
  BY <1>1
<1>3. MsgType /\ MsgOthers(m) /\ msg'[m] = Finish(msg[m])
  BY <1>1, <1>2, FinishFacts DEF MsgType, MsgOthers
<1> QED
  BY <1>2, <1>3, FinishFacts DEF SameLetter

LEMMA MoveFacts ==
    ASSUME TypeOK, NEW m \in Msgs,
           NEW at \in {"unsent", "chat", "channel", "buffer", "serving", "insert", "update",
                       "count", "done", "lost"}, Move(m, at)
    PROVE  /\ MsgType /\ MsgOthers(m) /\ SameLetter(m) /\ msg'[m].at = at
           /\ msg'[m].ret = msg[m].ret /\ msg'[m].wallet = msg[m].wallet
           /\ msg'[m].late = msg[m].late
  BY DEF TypeOK, Move, Messages, MsgType, MsgOthers, SameLetter

LEMMA AfterEndFacts ==
    ASSUME NEW r \in Messages
    PROVE  /\ AfterEnd(r) \in Messages
           /\ AfterEnd(r).at \in {"unsent", "chat", "done", "lost"}
           /\ AfterEnd(r).at = "unsent" <=> r.at = "unsent"
           /\ AfterEnd(r).code = r.code /\ AfterEnd(r).member = r.member
           /\ AfterEnd(r).inGroup = r.inGroup
           /\ AfterEnd(r) = r \/ AfterEnd(r).ret = "none"
<1> DEFINE r1 == [r EXCEPT !.late = FALSE]
           r2 == [r1 EXCEPT !.wallet = None]
           r3 == [r2 EXCEPT !.ret = "none"]
           Same(x) == x.code = r.code /\ x.member = r.member /\ x.inGroup = r.inGroup
<1>1. r1 \in Messages
  BY RecordField
<1>2. r2 \in Messages
  <2> HIDE DEF r1
  <2> QED
    BY <1>1, RecordField
<1>3. r3 \in Messages
  <2> HIDE DEF r2
  <2> QED
    BY <1>2, RecordField
<1>4. Same(r3) /\ r3.at = r.at /\ r3.ret = "none"
  BY DEF Messages
<1>5. ASSUME NEW at \in {"chat", "lost"}
      PROVE  /\ [r3 EXCEPT !.at = at] \in Messages /\ Same([r3 EXCEPT !.at = at])
             /\ [r3 EXCEPT !.at = at].at = at /\ [r3 EXCEPT !.at = at].ret = "none"
  <2>1. [r3 EXCEPT !.at = at] \in Messages
    <3> HIDE DEF r3
    <3> QED
      BY <1>3, RecordField
  <2>2. \A x \in Messages : /\ [x EXCEPT !.at = at].at = at
                            /\ [x EXCEPT !.at = at].code = x.code
                            /\ [x EXCEPT !.at = at].member = x.member
                            /\ [x EXCEPT !.at = at].inGroup = x.inGroup
                            /\ [x EXCEPT !.at = at].ret = x.ret
    BY DEF Messages
  <2> HIDE DEF r3
  <2> QED
    BY <1>3, <1>4, <2>1, <2>2
<1>6. AfterEnd(r) = IF r.at \in {"unsent", "chat"} THEN r
                    ELSE IF ~r.confirmed THEN [r3 EXCEPT !.at = "chat"]
                    ELSE IF r.at = "done" THEN r ELSE [r3 EXCEPT !.at = "lost"]
  BY DEF AfterEnd
<1> HIDE DEF r3
<1>7. CASE AfterEnd(r) = r /\ r.at \in {"unsent", "chat", "done"}
  BY <1>7
<1>8. CASE AfterEnd(r) = [r3 EXCEPT !.at = "chat"] /\ r.at # "unsent"
  BY <1>5, <1>8
<1>9. CASE AfterEnd(r) = [r3 EXCEPT !.at = "lost"] /\ r.at # "unsent"
  BY <1>5, <1>9
<1> QED
  BY <1>6, <1>7, <1>8, <1>9

LEMMA EndsFacts ==
    ASSUME TypeOK, Ends
    PROVE  /\ MsgType /\ phase' = "down" /\ req' = [r \in Request |-> Idle]
           /\ \A m \in Msgs : /\ SameLetter(m) /\ msg'[m].at \in {"unsent", "chat", "done", "lost"}
                              /\ msg'[m].at = "unsent" <=> msg[m].at = "unsent"
                              /\ msg'[m] = msg[m] \/ msg'[m].ret = "none"
<1>1. msg \in [Msgs -> Messages] /\ msg' = [m \in Msgs |-> AfterEnd(msg[m])]
  BY DEF TypeOK, Ends
<1>2. \A m \in Msgs : msg'[m] = AfterEnd(msg[m]) /\ msg[m] \in Messages
  BY <1>1
<1>3. MsgType
  BY <1>1, <1>2, AfterEndFacts DEF MsgType
<1>4. \A m \in Msgs : /\ SameLetter(m) /\ msg'[m].at \in {"unsent", "chat", "done", "lost"}
                      /\ msg'[m].at = "unsent" <=> msg[m].at = "unsent"
                      /\ msg'[m] = msg[m] \/ msg'[m].ret = "none"
  BY <1>2, AfterEndFacts DEF SameLetter
<1> QED
  BY <1>3, <1>4 DEF Ends

LEMMA PostFacts ==
    ASSUME TypeOK, NEW m \in Msgs, NEW c \in Code \union {None}, NEW u \in Member, NEW g \in BOOLEAN,
           Post(m, c, u, g)
    PROVE  /\ MsgType /\ MsgOthers(m) /\ msg'[m].at = "chat"
           /\ msg'[m].code = c /\ msg'[m].member = u /\ msg'[m].inGroup = g
           /\ msg'[m].ret = msg[m].ret
<1> DEFINE r1 == [msg[m] EXCEPT !.at = "chat"]
           r2 == [r1 EXCEPT !.code = c]
           r3 == [r2 EXCEPT !.member = u]
           r4 == [r3 EXCEPT !.inGroup = g]
<1>1. msg \in [Msgs -> Messages] /\ msg[m] \in Messages
  BY DEF TypeOK
<1>2. msg' = [msg EXCEPT ![m] = r4]
  BY DEF Post
<1>3. r1 \in Messages
  BY <1>1, RecordField
<1>4. r2 \in Messages
  <2> HIDE DEF r1
  <2> QED
    BY <1>3, RecordField
<1>5. r3 \in Messages
  <2> HIDE DEF r2
  <2> QED
    BY <1>4, RecordField
<1>6. r4 \in Messages
  <2> HIDE DEF r3
  <2> QED
    BY <1>5, RecordField
<1>7. r4.at = "chat" /\ r4.code = c /\ r4.member = u /\ r4.inGroup = g /\ r4.ret = msg[m].ret
  BY <1>1 DEF Messages
<1> HIDE DEF r4
<1> QED
  BY <1>1, <1>2, <1>6, <1>7 DEF MsgType, MsgOthers

LEMMA ConfirmFacts ==
    ASSUME TypeOK, Confirm
    PROVE  /\ MsgType
           /\ \A m \in Msgs : /\ SameLetter(m) /\ msg'[m].at = msg[m].at
                              /\ msg'[m].ret = msg[m].ret /\ msg'[m].wallet = msg[m].wallet
                              /\ msg'[m].late = msg[m].late
<1>1. msg \in [Msgs -> Messages]
  BY DEF TypeOK
<1>2. ASSUME NEW m \in Msgs
      PROVE  /\ msg'[m] \in Messages /\ SameLetter(m) /\ msg'[m].at = msg[m].at
             /\ msg'[m].ret = msg[m].ret /\ msg'[m].wallet = msg[m].wallet
             /\ msg'[m].late = msg[m].late
  <2>1. PICK b \in BOOLEAN : msg'[m] = [msg[m] EXCEPT !.confirmed = b]
    BY DEF Confirm
  <2>2. msg[m] \in Messages
    BY <1>1
  <2>3. msg'[m] \in Messages
    BY <2>1, <2>2, RecordField
  <2>4. /\ msg'[m].at = msg[m].at /\ msg'[m].ret = msg[m].ret
        /\ msg'[m].wallet = msg[m].wallet /\ msg'[m].late = msg[m].late
    BY <2>1, <2>2 DEF Messages
  <2>5. SameLetter(m)
    BY <2>1, <2>2 DEF Messages, SameLetter
  <2> QED
    BY <2>3, <2>4, <2>5
<1>3. msg' \in [Msgs -> Messages]
  <2>1. DOMAIN msg' = Msgs /\ msg' = [m \in Msgs |-> msg'[m]]
    BY DEF Confirm
  <2> QED
    BY <1>2, <2>1
<1> QED
  BY <1>2, <1>3 DEF MsgType

LEMMA ServeFacts ==
    ASSUME TypeOK, NEW m \in Msgs, Serve(m)
    PROVE  /\ MsgType /\ MsgOthers(m) /\ SameLetter(m) /\ msg'[m].at = "serving"
           /\ msg'[m].late = (phase = "clearing") /\ msg'[m].ret = msg[m].ret
<1>1. msg \in [Msgs -> Messages] /\ msg[m] \in Messages
  BY DEF TypeOK
<1>2. PICK l \in BOOLEAN : l = (phase = "clearing")
  OBVIOUS
<1>3. msg' = [msg EXCEPT ![m] = [@ EXCEPT !.at = "serving", !.late = l]]
  BY <1>2 DEF Serve
<1> DEFINE r1 == [msg[m] EXCEPT !.at = "serving"]
           r2 == [r1 EXCEPT !.late = l]
<1>4. r1 \in Messages
  BY <1>1, RecordField
<1>5. r2 \in Messages
  <2> HIDE DEF r1
  <2> QED
    BY <1>4, RecordField
<1>6. msg' = [msg EXCEPT ![m] = r2]
  BY <1>3
<1>7. /\ r2.at = "serving" /\ r2.late = l /\ r2.code = msg[m].code /\ r2.ret = msg[m].ret
      /\ r2.member = msg[m].member /\ r2.inGroup = msg[m].inGroup
  BY <1>1 DEF Messages
<1> HIDE DEF r2
<1> QED
  BY <1>1, <1>2, <1>5, <1>6, <1>7 DEF MsgType, MsgOthers, SameLetter

(* VerifySelect on a code that is bound, in the group. *)
Takes(m) ==
    /\ msg[m].at = "serving" /\ msg[m].inGroup /\ code[msg[m].code].status = "bound"
    /\ msg' = [msg EXCEPT ![m] = [@ EXCEPT !.at = "insert", !.wallet = code[msg[m].code].wallet]]

LEMMA TakesFacts ==
    ASSUME TypeOK, NEW m \in Msgs, msg[m].code \in Code, Takes(m)
    PROVE  /\ MsgType /\ MsgOthers(m) /\ SameLetter(m) /\ msg'[m].at = "insert"
           /\ msg'[m].wallet = code[msg[m].code].wallet /\ msg'[m].late = msg[m].late
           /\ msg'[m].ret = msg[m].ret
<1>1. msg \in [Msgs -> Messages] /\ msg[m] \in Messages
  BY DEF TypeOK
<1>2. code[msg[m].code].wallet \in Wallet \union {None}
  BY DEF TypeOK, Rows
<1> DEFINE w == code[msg[m].code].wallet
           r1 == [msg[m] EXCEPT !.at = "insert"]
           r2 == [r1 EXCEPT !.wallet = w]
<1>3. msg' = [msg EXCEPT ![m] = r2]
  BY DEF Takes
<1> HIDE DEF w
<1>4. r1 \in Messages
  BY <1>1, RecordField
<1>5. r2 \in Messages
  <2> HIDE DEF r1
  <2> QED
    BY <1>2, <1>4, RecordField DEF w
<1>6. /\ r2.at = "insert" /\ r2.wallet = w /\ r2.late = msg[m].late /\ r2.ret = msg[m].ret
      /\ r2.code = msg[m].code /\ r2.member = msg[m].member /\ r2.inGroup = msg[m].inGroup
  BY <1>1 DEF Messages
<1> HIDE DEF r2
<1> QED
  BY <1>1, <1>3, <1>5, <1>6 DEF MsgType, MsgOthers, SameLetter, w

(* Both ways through the INSERT leave an answer of the database. *)
LEMMA InsertedFacts ==
    ASSUME TypeOK, NEW m \in Msgs, NEW t \in {"one", "zero", "nil"},
           msg' = [msg EXCEPT ![m].at = "update", ![m].ret = t]
    PROVE  /\ MsgType /\ MsgOthers(m) /\ SameLetter(m) /\ msg'[m].at = "update"
           /\ msg'[m].ret = t /\ msg'[m].late = msg[m].late
<1>1. msg \in [Msgs -> Messages] /\ msg[m] \in Messages
  BY DEF TypeOK
<1> DEFINE r1 == [msg[m] EXCEPT !.at = "update"]
           r2 == [r1 EXCEPT !.ret = t]
<1>2. msg' = [msg EXCEPT ![m] = r2]
  BY <1>1
<1>3. r1 \in Messages
  BY <1>1, RecordField
<1>4. r2 \in Messages
  <2> HIDE DEF r1
  <2> QED
    BY <1>3, RecordField
<1>5. /\ r2.at = "update" /\ r2.ret = t /\ r2.late = msg[m].late
      /\ r2.code = msg[m].code /\ r2.member = msg[m].member /\ r2.inGroup = msg[m].inGroup
  BY <1>1 DEF Messages
<1> HIDE DEF r2
<1> QED
  BY <1>1, <1>2, <1>4, <1>5 DEF MsgType, MsgOthers, SameLetter

LEMMA StopWaitFacts ==
    ASSUME TypeOK, StopWait
    PROVE  /\ MsgType
           /\ \A m \in Msgs : /\ SameLetter(m) /\ msg'[m].ret = msg[m].ret
                              /\ msg'[m] = msg[m] \/ (msg[m].at = "channel" /\ msg'[m].at = "lost")
<1>1. msg \in [Msgs -> Messages]
  BY DEF TypeOK
<1>2. msg' = [m \in Msgs |-> IF m \in At("channel") THEN [msg[m] EXCEPT !.at = "lost"] ELSE msg[m]]
  BY DEF StopWait
<1>3. ASSUME NEW m \in Msgs
      PROVE  /\ msg'[m] \in Messages /\ SameLetter(m) /\ msg'[m].ret = msg[m].ret
             /\ msg'[m] = msg[m] \/ (msg[m].at = "channel" /\ msg'[m].at = "lost")
  <2>1. msg[m] \in Messages
    BY <1>1
  <2>2. CASE m \in At("channel")
    <3>1. msg'[m] = [msg[m] EXCEPT !.at = "lost"]
      BY <1>2, <2>2
    <3>2. /\ msg'[m] \in Messages /\ msg'[m].at = "lost" /\ msg'[m].code = msg[m].code
          /\ msg'[m].member = msg[m].member /\ msg'[m].inGroup = msg[m].inGroup
          /\ msg'[m].ret = msg[m].ret
      BY <2>1, <3>1 DEF Messages
    <3> QED
      BY <2>2, <3>2 DEF At, SameLetter
  <2>3. CASE m \notin At("channel")
    <3>1. msg'[m] = msg[m]
      BY <1>2, <2>3
    <3> QED
      BY <2>1, <3>1 DEF SameLetter
  <2> QED
    BY <2>2, <2>3
<1>4. msg' \in [Msgs -> Messages]
  BY <1>2, <1>3
<1> QED
  BY <1>3, <1>4 DEF MsgType

-----------------------------------------------------------------------------
(* What a step leaves of a code. *)

RowType == code' \in [Code -> Rows]
RowOthers(c) == \A d \in Code \ {c} : code'[d] = code[d]

LEMMA SettledFacts ==
    ASSUME TypeOK, NEW m \in Msgs, msg[m].code \in Code, Settled(m)
    PROVE  /\ RowType /\ RowOthers(msg[m].code)
           /\ code'[msg[m].code].wallet = code[msg[m].code].wallet
           /\ \/ code[msg[m].code].status = "deleted" /\ code' = code
              \/ /\ code[msg[m].code].status # "deleted"
                 /\ code'[msg[m].code].status = "filed" /\ ~code'[msg[m].code].old
<1> DEFINE c == msg[m].code
<1>0. c \in Code
  OBVIOUS
<1>1. code \in [Code -> Rows]
  BY DEF TypeOK
<1>2. code' = [code EXCEPT ![c] = IF code[c].status = "deleted" THEN code[c]
                                  ELSE [code[c] EXCEPT !.status = "filed", !.old = FALSE]]
  BY DEF Settled
<1> HIDE DEF c
<1>3. CASE code[c].status = "deleted"
  <2>1. code' = code
    BY <1>0, <1>1, <1>2, <1>3
  <2> QED
    BY <1>1, <1>3, <2>1 DEF RowType, RowOthers, c
<1>4. CASE code[c].status # "deleted"
  <2>1. code' = [code EXCEPT ![c] = [code[c] EXCEPT !.status = "filed", !.old = FALSE]]
    BY <1>2, <1>4
  <2>2. [code[c] EXCEPT !.status = "filed", !.old = FALSE] \in Rows
    BY <1>0, <1>1 DEF Rows
  <2>3. RowType /\ RowOthers(c)
    BY <1>1, <2>1, <2>2 DEF RowType, RowOthers
  <2>4. /\ code'[c].status = "filed" /\ ~code'[c].old /\ code'[c].wallet = code[c].wallet
    BY <1>0, <1>1, <2>1 DEF Rows
  <2> QED
    BY <1>4, <2>3, <2>4 DEF c
<1> QED
  BY <1>3, <1>4

LEMMA BindFacts ==
    ASSUME TypeOK, NEW r \in Request, req[r].code \in Code, req[r].wallet \in Wallet, Bind(r)
    PROVE  /\ RowType /\ RowOthers(req[r].code)
           /\ code'[req[r].code].status = "bound" /\ ~code'[req[r].code].old
           /\ code'[req[r].code].wallet = req[r].wallet
<1> DEFINE c == req[r].code
           w == req[r].wallet
           row1 == [code[c] EXCEPT !.status = "bound"]
           row2 == [row1 EXCEPT !.wallet = w]
           row3 == [row2 EXCEPT !.old = FALSE]
<1>1. code \in [Code -> Rows] /\ code[c] \in Rows
  BY DEF TypeOK
<1>2. code' = [code EXCEPT ![c] = row3]
  BY DEF Bind
<1>3. w \in Wallet /\ c \in Code
  OBVIOUS
<1> HIDE DEF c, w
<1>4. row3 \in Rows /\ row3.status = "bound" /\ row3.wallet = w /\ ~row3.old
  BY <1>1, <1>3 DEF Rows
<1> HIDE DEF row3
<1> QED
  BY <1>1, <1>2, <1>3, <1>4 DEF RowType, RowOthers, c, w

(* A row that only changes its status or its age. *)
LEMMA IssueFacts ==
    ASSUME TypeOK, NEW c \in Code, Issue(c)
    PROVE  /\ RowType /\ RowOthers(c) /\ code[c].status = "none"
           /\ code'[c].status = "issued" /\ code'[c].wallet = code[c].wallet
  BY DEF TypeOK, Issue, Rows, RowType, RowOthers

LEMMA DayFacts ==
    ASSUME TypeOK, NEW c \in Code, DayPasses(c)
    PROVE  /\ RowType /\ RowOthers(c) /\ code'[c].status = code[c].status
           /\ code'[c].wallet = code[c].wallet /\ code[c].status \in {"issued", "bound"}
  BY DEF TypeOK, DayPasses, Rows, RowType, RowOthers

(* The rows the collector deletes. *)
Aged == {c \in Code : code[c].status # "filed" /\ code[c].old}

LEMMA SweepFacts ==
    ASSUME TypeOK, verifyCodesRecycle
    PROVE  /\ RowType
           /\ \A c \in Code : /\ code'[c].wallet = code[c].wallet
                              /\ c \in Aged => code'[c].status = "deleted" /\ ~code'[c].old
                              /\ c \notin Aged => code'[c] = code[c]
           /\ doubt' = doubt \union {c \in Aged : \E m \in Working : msg[m].code = c}
           /\ UNCHANGED <<filed, listed, req, msg, phase, counted, count, raced, stray, unfiled>>
<1>1. Sweep(Aged)
  BY DEF verifyCodesRecycle, Aged
<1>2. code \in [Code -> Rows]
  BY DEF TypeOK
<1>3. code' = [c \in Code |-> IF c \in Aged THEN [code[c] EXCEPT !.status = "deleted", !.old = FALSE]
                              ELSE code[c]]
  BY <1>1 DEF Sweep
<1>4. ASSUME NEW c \in Code
      PROVE  /\ code'[c] \in Rows /\ code'[c].wallet = code[c].wallet
             /\ c \in Aged => code'[c].status = "deleted" /\ ~code'[c].old
             /\ c \notin Aged => code'[c] = code[c]
  <2>1. code[c] \in Rows
    BY <1>2
  <2>2. [code[c] EXCEPT !.status = "deleted", !.old = FALSE] \in Rows
    BY <2>1 DEF Rows
  <2> QED
    BY <1>3, <2>1, <2>2 DEF Rows
<1>5. RowType
  BY <1>3, <1>4 DEF RowType
<1> QED
  BY <1>1, <1>4, <1>5 DEF Sweep

-----------------------------------------------------------------------------
(* Messages on their way, and workers that give up or are done.            *)

(* Nobody takes a message into work, and what is in work stays the same or *)
(* is no longer.                                                           *)
Shrinks ==
    \A m \in Msgs : msg'[m].at \in {"insert", "update", "count"} =>
        /\ msg'[m].at = msg[m].at /\ SameLetter(m)
        /\ msg'[m].ret = msg[m].ret /\ msg'[m].wallet = msg[m].wallet
Keeps == \A m \in Msgs : msg[m].at = "update" => msg'[m].at = "update"
LettersKept == \A m \in Msgs : msg[m].code \in Code => SameLetter(m)

Passing ==
    \/ \E m \in Msgs : \/ \E c \in Code \union {None}, u \in Member, g \in BOOLEAN : Post(m, c, u, g)
                       \/ Fetch(m) \/ MessageConsumer(m) \/ Serve(m)
                       \/ VerifySelectFails(m) \/ VerifyCount(m)
    \/ Confirm \/ StopWait

(* One message changes, and is not in work afterwards. *)
LEMMA OneLeaves ==
    ASSUME TypeOK, LetterInv, NEW m \in Msgs, MsgOthers(m), SameLetter(m),
           msg'[m].at \notin {"unsent", "insert", "update", "count"}, msg[m].at # "unsent"
    PROVE  Shrinks /\ LettersKept /\ LetterInv'
           /\ (msg[m].at # "update" => Keeps)
<1>1. Shrinks /\ LettersKept /\ (msg[m].at # "update" => Keeps)
  BY DEF Shrinks, LettersKept, Keeps, MsgOthers, SameLetter
<1>2. ASSUME NEW n \in Msgs
      PROVE  /\ msg'[n].at # "unsent" => msg'[n].member \in Member
             /\ msg'[n].at = "unsent" => msg'[n].code = None
             /\ msg'[n].code = None => ~msg'[n].inGroup
             /\ msg'[n].at \in {"insert", "update", "count"} => msg'[n].code \in Code
  <2>1. CASE n = m
    BY <2>1 DEF LetterInv, SameLetter
  <2>2. CASE n # m
    BY <2>2 DEF LetterInv, MsgOthers
  <2> QED
    BY <2>1, <2>2
<1> QED
  BY <1>1, <1>2 DEF LetterInv

LEMMA PassingFacts ==
    ASSUME BaseInv, Passing
    PROVE  MsgType /\ Shrinks /\ Keeps /\ LettersKept /\ LetterInv'
<1>0. TypeOK /\ LetterInv
  BY DEF BaseInv
<1>1. ASSUME NEW m \in Msgs, NEW c \in Code \union {None}, NEW u \in Member, NEW g \in BOOLEAN,
             Post(m, c, u, g)
      PROVE  MsgType /\ Shrinks /\ Keeps /\ LettersKept /\ LetterInv'
  <2>1. /\ MsgType /\ MsgOthers(m) /\ msg'[m].at = "chat"
        /\ msg'[m].code = c /\ msg'[m].member = u /\ msg'[m].inGroup = g
    BY <1>0, <1>1, PostFacts
  <2>2. msg[m].at = "unsent" /\ msg[m].code = None /\ (c = None => ~g)
    BY <1>0, <1>1 DEF Post, LetterInv
  <2>3. Shrinks /\ Keeps
    BY <2>1, <2>2 DEF Shrinks, Keeps, MsgOthers, SameLetter
  <2>4. LettersKept
    BY <2>1, <2>2, NameAssumption DEF LettersKept, MsgOthers, SameLetter
  <2>5. LetterInv'
    BY <1>0, <2>1, <2>2 DEF LetterInv, MsgOthers
  <2> QED
    BY <2>1, <2>3, <2>4, <2>5
<1>2. ASSUME NEW m \in Msgs, Fetch(m)
      PROVE  MsgType /\ Shrinks /\ Keeps /\ LettersKept /\ LetterInv'
  <2>1. MsgType /\ MsgOthers(m) /\ SameLetter(m) /\ msg'[m].at = "channel" /\ msg[m].at = "chat"
    BY <1>0, <1>2, MoveFacts DEF Fetch, First, At
  <2> QED
    BY <1>0, <2>1, OneLeaves
<1>3. ASSUME NEW m \in Msgs, MessageConsumer(m)
      PROVE  MsgType /\ Shrinks /\ Keeps /\ LettersKept /\ LetterInv'
  <2>1. msg[m].at = "channel" /\ (Answer(m) \/ Move(m, "buffer"))
    BY <1>3 DEF MessageConsumer, First, At
  <2>2. MsgType /\ MsgOthers(m) /\ SameLetter(m) /\ msg'[m].at \in {"done", "buffer"}
    BY <1>0, <2>1, AnswerFacts, MoveFacts
  <2> QED
    BY <1>0, <2>1, <2>2, OneLeaves
<1>4. ASSUME NEW m \in Msgs, Serve(m)
      PROVE  MsgType /\ Shrinks /\ Keeps /\ LettersKept /\ LetterInv'
  <2>1. MsgType /\ MsgOthers(m) /\ SameLetter(m) /\ msg'[m].at = "serving" /\ msg[m].at = "buffer"
    BY <1>0, <1>4, ServeFacts DEF Serve, First, At
  <2> QED
    BY <1>0, <2>1, OneLeaves
<1>5. ASSUME NEW m \in Msgs, VerifySelectFails(m) \/ VerifyCount(m)
      PROVE  MsgType /\ Shrinks /\ Keeps /\ LettersKept /\ LetterInv'
  <2>1. msg[m].at \in {"serving", "count"} /\ Answer(m)
    BY <1>5 DEF VerifySelectFails, VerifyCount
  <2>2. MsgType /\ MsgOthers(m) /\ SameLetter(m) /\ msg'[m].at = "done"
    BY <1>0, <2>1, AnswerFacts
  <2> QED
    BY <1>0, <2>1, <2>2, OneLeaves
<1>6. CASE Confirm
  <2>1. /\ MsgType
        /\ \A m \in Msgs : /\ SameLetter(m) /\ msg'[m].at = msg[m].at
                           /\ msg'[m].ret = msg[m].ret /\ msg'[m].wallet = msg[m].wallet
    BY <1>0, <1>6, ConfirmFacts
  <2> QED
    BY <1>0, <2>1 DEF Shrinks, Keeps, LettersKept, LetterInv, SameLetter
<1>7. CASE StopWait
  <2>1. /\ MsgType
        /\ \A m \in Msgs : /\ SameLetter(m)
                           /\ msg'[m] = msg[m] \/ (msg[m].at = "channel" /\ msg'[m].at = "lost")
    BY <1>0, <1>7, StopWaitFacts
  <2>2. Shrinks /\ Keeps /\ LettersKept
    BY <2>1 DEF Shrinks, Keeps, LettersKept
  <2>3. LetterInv'
    BY <1>0, <2>1 DEF LetterInv, SameLetter
  <2> QED
    BY <2>1, <2>2, <2>3
<1> QED
  BY <1>1, <1>2, <1>3, <1>4, <1>5, <1>6, <1>7 DEF Passing

LEMMA PassingRest ==
    ASSUME Passing
    PROVE  UNCHANGED <<code, filed, listed, req, raced, stray, doubt, unfiled>>
  BY DEF Passing, Post, Fetch, MessageConsumer, Serve, VerifySelectFails, VerifyCount, Confirm,
         StopWait, web, tables, history

(* The end of the process, by Exit, Crash or the panic of a worker. *)
LEMMA EndingFacts ==
    ASSUME BaseInv, Ends
    PROVE  /\ MsgType /\ Shrinks /\ LettersKept /\ LetterInv'
           /\ \A m \in Msgs : msg'[m].at \notin {"insert", "update", "count"}
<1>1. TypeOK /\ LetterInv
  BY DEF BaseInv
<1>2. /\ MsgType
      /\ \A m \in Msgs : /\ SameLetter(m) /\ msg'[m].at \in {"unsent", "chat", "done", "lost"}
                         /\ msg'[m].at = "unsent" <=> msg[m].at = "unsent"
  BY <1>1, EndsFacts
<1>3. LetterInv'
  BY <1>1, <1>2 DEF LetterInv, SameLetter
<1> QED
  BY <1>2, <1>3 DEF Shrinks, LettersKept

-----------------------------------------------------------------------------
(* Codes and submissions. *)

(* Once bound, a code keeps its wallet and does not become usable again.   *)
RowsGrow ==
    \A c \in Code : code[c].status \in {"bound", "filed", "deleted"} =>
        /\ code'[c].status \in {"bound", "filed", "deleted"}
        /\ code'[c].wallet = code[c].wallet

LEMMA IssueRows ==
    ASSUME BaseInv, NEW c \in Code, Issue(c) \/ DayPasses(c)
    PROVE  RowType /\ RowsGrow /\ RowInv'
<1>1. TypeOK /\ RowInv
  BY DEF BaseInv
<1>2. CASE Issue(c)
  <2>1. /\ RowType /\ RowOthers(c) /\ code[c].status = "none"
        /\ code'[c].status = "issued" /\ code'[c].wallet = code[c].wallet
    BY <1>1, <1>2, IssueFacts
  <2>2. RowInv'
    BY <1>1, <2>1 DEF RowInv, RowOthers
  <2> QED
    BY <2>1, <2>2 DEF RowsGrow, RowOthers
<1>3. CASE DayPasses(c)
  <2>1. /\ RowType /\ RowOthers(c) /\ code'[c].status = code[c].status
        /\ code'[c].wallet = code[c].wallet /\ code[c].status \in {"issued", "bound"}
    BY <1>1, <1>3, DayFacts
  <2>2. RowInv'
    BY <1>1, <2>1 DEF RowInv, RowOthers
  <2> QED
    BY <2>1, <2>2 DEF RowsGrow, RowOthers
<1> QED
  BY <1>2, <1>3

LEMMA SweepRows ==
    ASSUME BaseInv, verifyCodesRecycle
    PROVE  RowType /\ RowsGrow /\ RowInv'
<1>1. TypeOK /\ RowInv
  BY DEF BaseInv
<1>2. /\ RowType
      /\ \A c \in Code : /\ code'[c].wallet = code[c].wallet
                         /\ c \in Aged => code'[c].status = "deleted" /\ ~code'[c].old
                         /\ c \notin Aged => code'[c] = code[c]
  BY <1>1, SweepFacts
<1>3. RowsGrow
  BY <1>2 DEF RowsGrow
<1>4. RowInv'
  BY <1>1, <1>2 DEF RowInv
<1> QED
  BY <1>2, <1>3, <1>4

LEMMA BindRows ==
    ASSUME BaseInv, NEW r \in Request, SubmitUpdate(r)
    PROVE  RowType /\ RowsGrow /\ RowInv'
<1>1. TypeOK /\ RowInv /\ req[r].code \in Code /\ req[r].wallet \in Wallet
  BY DEF BaseInv, ReqInv, SubmitUpdate
<1>2. CASE code[req[r].code].status = "issued"
  <2>1. /\ RowType /\ RowOthers(req[r].code)
        /\ code'[req[r].code].status = "bound" /\ ~code'[req[r].code].old
        /\ code'[req[r].code].wallet = req[r].wallet
    BY <1>1, <1>2, BindFacts DEF SubmitUpdate
  <2>2. RowInv'
    BY <1>1, <2>1 DEF RowInv, RowOthers
  <2>3. RowsGrow
    BY <1>2, <2>1 DEF RowsGrow, RowOthers
  <2> QED
    BY <2>1, <2>2, <2>3
<1>3. CASE code[req[r].code].status # "issued"
  <2>1. code' = code
    BY <1>3 DEF SubmitUpdate
  <2> QED
    BY <1>1, <2>1 DEF TypeOK, RowType, RowsGrow, RowInv
<1> QED
  BY <1>2, <1>3

LEMMA SettledRows ==
    ASSUME BaseInv, NEW m \in Msgs, msg[m].at = "update", Settled(m)
    PROVE  RowType /\ RowsGrow /\ RowInv'
<1> DEFINE c == msg[m].code
<1>1. /\ TypeOK /\ RowInv /\ c \in Code
      /\ code[c].status \in {"bound", "filed", "deleted"} /\ code[c].wallet \in Wallet
  BY DEF BaseInv, LetterInv, WorkInv
<1>2. /\ RowType /\ RowOthers(c) /\ code'[c].wallet = code[c].wallet
      /\ \/ code[c].status = "deleted" /\ code' = code
         \/ code'[c].status = "filed" /\ ~code'[c].old
  BY <1>1, SettledFacts
<1> HIDE DEF c
<1>3. RowsGrow
  BY <1>1, <1>2 DEF RowsGrow, RowOthers
<1>4. RowInv'
  <2>1. CASE code' = code
    BY <1>1, <2>1 DEF RowInv
  <2>2. CASE code'[c].status = "filed" /\ ~code'[c].old
    BY <1>1, <1>2, <2>2 DEF RowInv, RowOthers
  <2> QED
    BY <1>2, <2>1, <2>2
<1> QED
  BY <1>2, <1>3, <1>4

(* A worker in the middle of its message still finds what it needs.        *)
LEMMA WorkKept ==
    ASSUME BaseInv, Shrinks, RowsGrow
    PROVE  WorkInv'
<1> SUFFICES ASSUME NEW m \in Msgs, msg'[m].at \in {"insert", "update", "count"}
             PROVE  /\ msg'[m].at \in {"insert", "update"} =>
                        /\ code'[msg'[m].code].status \in {"bound", "filed", "deleted"}
                        /\ code'[msg'[m].code].wallet \in Wallet
                    /\ msg'[m].at = "insert" => msg'[m].wallet = code'[msg'[m].code].wallet
                    /\ msg'[m].at = "update" => msg'[m].ret # "none"
  BY DEF WorkInv
<1>1. /\ msg'[m].at = msg[m].at /\ msg'[m].code = msg[m].code
      /\ msg'[m].ret = msg[m].ret /\ msg'[m].wallet = msg[m].wallet
  BY DEF Shrinks, SameLetter
<1>2. msg[m].code \in Code
  BY <1>1 DEF BaseInv, LetterInv
<1> QED
  BY <1>1, <1>2 DEF RowsGrow, BaseInv, WorkInv

LEMMA SameRows ==
    ASSUME BaseInv, code' = code
    PROVE  RowType /\ RowsGrow /\ RowInv'
  BY DEF BaseInv, TypeOK, RowType, RowsGrow, RowInv

Filings == [id : Nat, code : Code, wallet : Wallet, member : Member]
FiledType == filed' \subseteq Filings /\ IsFiniteSet(filed')

LEMMA InsertFiles ==
    ASSUME BaseInv, NEW m \in Msgs, msg[m].at = "insert", Insert(m)
    PROVE  /\ FiledType /\ msg[m].code \in Code /\ msg[m].member \in Member
           /\ Duplicate(msg[m].code, msg[m].member) => filed' = filed
           /\ ~Duplicate(msg[m].code, msg[m].member) =>
                \E s \in Filings : /\ filed' = filed \union {s}
                                   /\ s.code = msg[m].code /\ s.member = msg[m].member
                                   /\ s.wallet = code[msg[m].code].wallet
<1>1. /\ msg[m].code \in Code /\ msg[m].member \in Member
      /\ msg[m].wallet = code[msg[m].code].wallet /\ msg[m].wallet \in Wallet
  BY DEF BaseInv, LetterInv, WorkInv
<1>2. filed \subseteq Filings /\ IsFiniteSet(filed) /\ Cardinality(filed) \in Nat
  BY FS_CardinalityType DEF BaseInv, TypeOK, Filings
<1>3. CASE Duplicate(msg[m].code, msg[m].member)
  BY <1>1, <1>2, <1>3 DEF Insert, FiledType
<1>4. CASE ~Duplicate(msg[m].code, msg[m].member)
  <2> DEFINE s == [id |-> Cardinality(filed) + 1, code |-> msg[m].code,
                   wallet |-> msg[m].wallet, member |-> msg[m].member]
  <2>1. s \in Filings
    BY <1>1, <1>2 DEF Filings
  <2>2. filed' = filed \union {s}
    BY <1>4 DEF Insert
  <2>3. IsFiniteSet(filed \union {s})
    <3>1. \A x : IsFiniteSet(filed \union {x})
      BY <1>2, FS_AddElement
    <3> QED
      BY <3>1
  <2>4. s.code = msg[m].code /\ s.member = msg[m].member /\ s.wallet = code[msg[m].code].wallet
    BY <1>1
  <2> QED
    BY <1>1, <1>2, <1>4, <2>1, <2>2, <2>3, <2>4 DEF FiledType
<1> QED
  BY <1>3, <1>4

-----------------------------------------------------------------------------
(* BaseInv. *)

LEMMA BaseInit == Init => BaseInv
<1> SUFFICES ASSUME Init PROVE BaseInv
  OBVIOUS
<1>1. \A m \in Msgs : /\ msg[m] \in Messages /\ msg[m].code = None /\ msg[m].inGroup = FALSE
                      /\ msg[m].at = "unsent"
  BY DEF Init, Messages
<1>2. \A c \in Code : /\ code[c] \in Rows /\ code[c].status = "none" /\ code[c].wallet = None
  BY DEF Init, Rows
<1>3. \A r \in Request : req[r].step = "idle"
  BY DEF Init, Idle
<1>4. TypeOK
  <2>1. msg \in [Msgs -> Messages] /\ code \in [Code -> Rows]
    BY DEF Init, Messages, Rows
  <2>2. req \in [Request -> Requests]
    BY DEF Init, Idle, Requests
  <2> QED
    BY <2>1, <2>2 DEF Init, TypeOK
<1>5. IsFiniteSet(filed)
  BY FS_EmptySet DEF Init
<1> QED
  BY <1>1, <1>2, <1>3, <1>4, <1>5 DEF BaseInv, LetterInv, RowInv, ReqInv, WorkInv

RestType ==
    /\ listed' \subseteq Airdrop \X Wallet /\ phase' \in {"up", "waiting", "clearing", "down"}
    /\ counted' \in Nat /\ count' \in [{"fault", "end"} -> Nat]
    /\ raced' \subseteq Airdrop \X Wallet
    /\ stray' \subseteq Code /\ doubt' \subseteq Code /\ unfiled' \subseteq Code
ReqType == req' \in [Request -> Requests] /\ ReqInv'

(* BaseInv from its parts. *)
LEMMA BaseParts ==
    ASSUME MsgType, LetterInv', RowType, RowInv', ReqType, FiledType, RestType, WorkInv'
    PROVE  BaseInv'
<1>1. TypeOK'
  BY DEF MsgType, RowType, ReqType, Requests, FiledType, Filings, RestType, TypeOK
<1> QED
  BY <1>1 DEF BaseInv, ReqType, FiledType

LEMMA CountingType ==
    ASSUME TypeOK, NEW what \in {"fault", "end"}, Counting(what)
    PROVE  count' \in [{"fault", "end"} -> Nat]
  BY DEF TypeOK, Counting

LEMMA IdleType ==
    ASSUME req' = [r \in Request |-> Idle]
    PROVE  ReqType
  BY DEF Idle, ReqType, Requests, ReqInv

LEMMA SameReq ==
    ASSUME BaseInv, req' = req
    PROVE  ReqType
  BY DEF BaseInv, TypeOK, ReqType, Requests, ReqInv

LEMMA SameFiled ==
    ASSUME BaseInv, filed' = filed
    PROVE  FiledType
  BY DEF BaseInv, TypeOK, FiledType, Filings

-----------------------------------------------------------------------------
(* Each group of steps keeps BaseInv.                                      *)

LEMMA PassingStep ==
    ASSUME BaseInv, Passing
    PROVE  BaseInv'
<1>1. MsgType /\ Shrinks /\ LetterInv'
  BY PassingFacts
<1>2. UNCHANGED <<code, filed, listed, req, raced, stray, doubt, unfiled>>
  BY PassingRest
<1>3. RowType /\ RowsGrow /\ RowInv' /\ ReqType /\ FiledType
  BY <1>2, SameRows, SameReq, SameFiled
<1>4. TypeOK
  BY DEF BaseInv
<1>5. phase' \in {"up", "waiting", "clearing", "down"} /\ counted' \in Nat
      /\ count' \in [{"fault", "end"} -> Nat]
  <2>1. ASSUME NEW m \in Msgs, VerifySelectFails(m)
        PROVE  count' \in [{"fault", "end"} -> Nat] /\ UNCHANGED <<phase, counted>>
    BY <1>4, <2>1, CountingType DEF VerifySelectFails, web
  <2>2. ASSUME NEW m \in Msgs, VerifyCount(m)
        PROVE  counted' = counted + 1 /\ UNCHANGED <<phase, count>>
    BY <2>2 DEF VerifyCount, history
  <2>3. CASE Confirm \/ StopWait
    BY <1>4, <2>3 DEF Confirm, StopWait, web, history, TypeOK
  <2>4. counted \in Nat /\ phase \in {"up", "waiting", "clearing", "down"}
        /\ count \in [{"fault", "end"} -> Nat]
    BY <1>4 DEF TypeOK
  <2>5. CASE \E m \in Msgs : VerifySelectFails(m)
    BY <2>1, <2>4, <2>5
  <2>6. CASE \E m \in Msgs : VerifyCount(m)
    BY <2>2, <2>4, <2>6
  <2>7. CASE \E m \in Msgs : \/ \E c \in Code \union {None}, u \in Member, g \in BOOLEAN : Post(m, c, u, g)
                            \/ Fetch(m) \/ MessageConsumer(m) \/ Serve(m)
    <3>1. UNCHANGED <<phase, counted, count>>
      BY <2>7 DEF Post, Fetch, MessageConsumer, Serve, web, history
    <3> QED
      BY <2>4, <3>1
  <2> QED
    BY <2>3, <2>5, <2>6, <2>7 DEF Passing
<1>6. RestType
  BY <1>2, <1>4, <1>5 DEF RestType, TypeOK
<1> QED
  BY <1>1, <1>3, <1>6, WorkKept, BaseParts

LEMMA EndStep ==
    ASSUME BaseInv, Exit \/ Crash
    PROVE  BaseInv'
<1>1. MsgType /\ Shrinks /\ LetterInv' /\ Ends
  BY EndingFacts DEF Exit, Crash
<1>2. TypeOK /\ UNCHANGED <<code, filed, listed, counted, raced, stray, unfiled>>
  BY DEF BaseInv, Exit, Crash, tables
<1>3. RowType /\ RowsGrow /\ RowInv' /\ ReqType /\ FiledType
  BY <1>1, <1>2, SameRows, IdleType, SameFiled DEF Ends
<1>4. Cut \subseteq Code
  BY DEF Cut, At, BaseInv, LetterInv
<1>5. count' \in [{"fault", "end"} -> Nat]
  BY <1>2, CountingType DEF Exit, Crash, TypeOK
<1>6. RestType
  BY <1>1, <1>2, <1>4, <1>5 DEF RestType, TypeOK, Ends
<1> QED
  BY <1>1, <1>3, <1>6, WorkKept, BaseParts

(* The messages stay as they are. *)
LEMMA SameMsgs ==
    ASSUME BaseInv, msg' = msg
    PROVE  MsgType /\ Shrinks /\ LetterInv'
  BY DEF BaseInv, TypeOK, MsgType, Shrinks, SameLetter, LetterInv

LEMMA StopStep ==
    ASSUME BaseInv, Stop \/ Restart \/ UNCHANGED vars
    PROVE  BaseInv'
<1>1. TypeOK /\ UNCHANGED <<code, filed, listed, counted, raced, stray, doubt, unfiled, req, msg>>
  BY DEF BaseInv, Stop, Restart, web, tables, history, vars
<1>2. count' \in [{"fault", "end"} -> Nat] /\ phase' \in {"up", "waiting", "clearing", "down"}
  BY <1>1, CountingType DEF Stop, Restart, TypeOK, history, vars
<1>3. RestType
  BY <1>1, <1>2 DEF RestType, TypeOK
<1> QED
  BY <1>1, <1>3, SameMsgs, SameRows, SameReq, SameFiled, WorkKept, BaseParts

LEMMA RowStep ==
    ASSUME BaseInv, (\E c \in Code : Issue(c) \/ DayPasses(c)) \/ verifyCodesRecycle
    PROVE  BaseInv'
<1>1. RowType /\ RowsGrow /\ RowInv'
  BY IssueRows, SweepRows
<1>2. TypeOK /\ UNCHANGED <<filed, listed, req, msg, phase, counted, count, raced, stray, unfiled>>
  BY DEF BaseInv, Issue, DayPasses, verifyCodesRecycle, Sweep, history
<1>3. doubt' \subseteq Code
  BY <1>2 DEF TypeOK, Issue, DayPasses, verifyCodesRecycle, Sweep, history
<1>4. RestType
  BY <1>2, <1>3 DEF RestType, TypeOK
<1> QED
  BY <1>1, <1>2, <1>4, SameMsgs, SameReq, SameFiled, WorkKept, BaseParts

LEMMA SubmitStep ==
    ASSUME BaseInv, NEW r \in Request, Submit(r)
    PROVE  BaseInv'
<1>1. TypeOK /\ ReqInv /\ UNCHANGED <<filed, msg, phase, counted, doubt, unfiled>>
  BY DEF BaseInv, Submit, SubmitSelect, SubmitUpdate, SubmitUpdateFails, SubmitList, history, tables
<1>2. RowType /\ RowsGrow /\ RowInv'
  <2>1. CASE SubmitUpdate(r)
    BY <2>1, BindRows
  <2>2. CASE ~SubmitUpdate(r)
    <3>1. code' = code
      BY <2>2 DEF Submit, SubmitSelect, SubmitUpdateFails, SubmitList, tables
    <3> QED
      BY <3>1, SameRows
  <2> QED
    BY <2>1, <2>2
<1>3. ReqType
  <2>1. req \in [Request -> Requests]
    BY <1>1 DEF TypeOK, Requests
  <2>2. ASSUME NEW c \in Code, NEW w \in Wallet, NEW a \in Airdrop, SubmitSelect(r, c, w, a)
        PROVE  ReqType
    BY <1>1, <2>1, <2>2 DEF SubmitSelect, ReqType, Requests, ReqInv
  <2>3. CASE SubmitUpdate(r)
    BY <1>1, <2>1, <2>3 DEF SubmitUpdate, ReqType, Requests, ReqInv
  <2>4. CASE SubmitUpdateFails(r) \/ SubmitList(r)
    BY <1>1, <2>1, <2>4 DEF SubmitUpdateFails, SubmitList, Idle, ReqType, Requests, ReqInv
  <2> QED
    BY <2>2, <2>3, <2>4 DEF Submit
<1>4. RestType
  <2>1. count' \in [{"fault", "end"} -> Nat]
    <3>1. CASE Counting("fault")
      BY <1>1, <3>1, CountingType
    <3>2. CASE ~Counting("fault")
      BY <1>1, <3>2 DEF TypeOK, Submit, SubmitSelect, SubmitUpdate, SubmitUpdateFails, SubmitList, history
    <3> QED
      BY <3>1, <3>2
  <2>2. raced' \subseteq Airdrop \X Wallet
    BY <1>1 DEF TypeOK, Submit, SubmitSelect, SubmitUpdate, SubmitUpdateFails, SubmitList, history
  <2>3. listed' \subseteq Airdrop \X Wallet
    BY <1>1 DEF TypeOK, ReqInv, Submit, SubmitSelect, SubmitUpdate, SubmitUpdateFails, SubmitList, tables
  <2>4. stray' \subseteq Code
    BY <1>1 DEF TypeOK, ReqInv, Submit, SubmitSelect, SubmitUpdate, Bind, SubmitUpdateFails,
       SubmitList, history
  <2> QED
    BY <1>1, <2>1, <2>2, <2>3, <2>4 DEF RestType, TypeOK
<1> QED
  BY <1>1, <1>2, <1>3, <1>4, SameMsgs, SameFiled, WorkKept, BaseParts

(* A worker in VerifyCodeHandler, apart from the steps of Passing. *)
Inserts(m) == VerifyInsert(m) \/ VerifyInsertLosesAnswer(m)
Update(m) == VerifyUpdate(m) \/ VerifyUpdatePanics(m) \/ VerifyUpdateFails(m)

LEMMA SelectStep ==
    ASSUME BaseInv, NEW m \in Msgs, VerifySelect(m)
    PROVE  BaseInv'
<1>1. TypeOK /\ LetterInv /\ RowInv /\ msg[m].at = "serving"
      /\ UNCHANGED <<code, filed, listed, req, counted, phase, count, raced, stray, unfiled>>
  BY DEF BaseInv, VerifySelect, web, tables
<1>2. RowType /\ RowsGrow /\ RowInv' /\ ReqType /\ FiledType
  BY <1>1, SameRows, SameReq, SameFiled
<1>3. \/ Takes(m)
      \/ Answer(m) /\ doubt' = doubt
  BY <1>1 DEF VerifySelect, Takes
<1>4. CASE Answer(m) /\ doubt' = doubt
  <2>1. MsgType /\ MsgOthers(m) /\ SameLetter(m) /\ msg'[m].at = "done"
    BY <1>1, <1>4, AnswerFacts
  <2>2. Shrinks /\ LetterInv'
    BY <1>1, <2>1, OneLeaves
  <2>3. RestType
    BY <1>1, <1>4 DEF RestType, TypeOK
  <2> QED
    BY <1>2, <2>1, <2>2, <2>3, WorkKept, BaseParts
<1>5. CASE Takes(m)
  <2>1. msg[m].code \in Code /\ code[msg[m].code].status = "bound" /\ msg[m].member \in Member
    <3>1. msg[m] \in Messages
      BY <1>1 DEF TypeOK
    <3> QED
      BY <1>1, <1>5, <3>1 DEF Takes, LetterInv, Messages
  <2>2. /\ MsgType /\ MsgOthers(m) /\ SameLetter(m) /\ msg'[m].at = "insert"
        /\ msg'[m].wallet = code[msg[m].code].wallet
    BY <1>1, <1>5, <2>1, TakesFacts
  <2>3. LetterInv'
    BY <1>1, <2>1, <2>2 DEF LetterInv, MsgOthers, SameLetter
  <2>4. WorkInv'
    BY <1>1, <2>1, <2>2 DEF WorkInv, BaseInv, RowInv, MsgOthers, SameLetter
  <2>5. doubt' \subseteq Code
    BY <1>1, <2>1 DEF VerifySelect, TypeOK
  <2>6. RestType
    BY <1>1, <2>5 DEF RestType, TypeOK
  <2> QED
    BY <1>2, <2>2, <2>3, <2>4, <2>6, BaseParts
<1> QED
  BY <1>3, <1>4, <1>5

(* The INSERT is over: filed, ignored or failed. *)
LEMMA AfterInsert ==
    ASSUME BaseInv, NEW m \in Msgs, msg[m].at = "insert", NEW t \in {"one", "zero", "nil"},
           msg' = [msg EXCEPT ![m].at = "update", ![m].ret = t], code' = code
    PROVE  /\ MsgType /\ MsgOthers(m) /\ SameLetter(m) /\ msg'[m].at = "update" /\ msg'[m].ret = t
           /\ LetterInv' /\ WorkInv'
<1>1. TypeOK /\ LetterInv /\ WorkInv
  BY DEF BaseInv
<1>2. /\ MsgType /\ MsgOthers(m) /\ SameLetter(m) /\ msg'[m].at = "update" /\ msg'[m].ret = t
  BY <1>1, InsertedFacts
<1>3. LetterInv'
  BY ZenonT(60), <1>1, <1>2 DEF LetterInv, MsgOthers, SameLetter
<1>4. code[msg[m].code].status \in {"bound", "filed", "deleted"} /\ code[msg[m].code].wallet \in Wallet
  BY <1>1 DEF WorkInv
<1>5. ASSUME NEW n \in Msgs
      PROVE  /\ msg'[n].at \in {"insert", "update"} =>
                 /\ code'[msg'[n].code].status \in {"bound", "filed", "deleted"}
                 /\ code'[msg'[n].code].wallet \in Wallet
             /\ msg'[n].at = "insert" => msg'[n].wallet = code'[msg'[n].code].wallet
             /\ msg'[n].at = "update" => msg'[n].ret # "none"
  <2>1. CASE n = m
    BY <1>2, <1>4, <2>1 DEF SameLetter
  <2>2. CASE n # m
    <3>1. msg'[n] = msg[n]
      BY <1>2, <2>2 DEF MsgOthers
    <3> QED
      BY <1>1, <3>1 DEF WorkInv
  <2> QED
    BY <2>1, <2>2
<1>6. WorkInv'
  BY <1>5 DEF WorkInv
<1> QED
  BY <1>2, <1>3, <1>6

LEMMA InsertStep ==
    ASSUME BaseInv, NEW m \in Msgs, Inserts(m) \/ VerifyInsertFails(m)
    PROVE  BaseInv'
<1>1. TypeOK /\ msg[m].at = "insert" /\ msg[m].code \in Code
      /\ UNCHANGED <<code, listed, req, phase, counted, raced, stray>>
  BY DEF BaseInv, LetterInv, Inserts, VerifyInsert, VerifyInsertLosesAnswer, VerifyInsertFails, web,
         tables, history
<1>2. RowType /\ RowInv' /\ ReqType
  BY <1>1, SameRows, SameReq
<1>3. PICK t \in {"one", "zero", "nil"} : msg' = [msg EXCEPT ![m].at = "update", ![m].ret = t]
  <2>1. (IF Duplicate(msg[m].code, msg[m].member) THEN "zero" ELSE "one") \in {"one", "zero", "nil"}
    OBVIOUS
  <2> QED
    BY <2>1 DEF Inserts, VerifyInsert, VerifyInsertLosesAnswer, VerifyInsertFails
<1>4. MsgType /\ LetterInv' /\ WorkInv'
  BY <1>1, <1>3, AfterInsert
<1>5. FiledType
  <2>1. CASE Inserts(m)
    BY <1>1, <2>1, InsertFiles DEF Inserts, VerifyInsert, VerifyInsertLosesAnswer
  <2>2. CASE VerifyInsertFails(m)
    BY <2>2, SameFiled DEF VerifyInsertFails, web, tables
  <2> QED
    BY <2>1, <2>2
<1>6. count' \in [{"fault", "end"} -> Nat]
  BY <1>1, CountingType DEF Inserts, VerifyInsert, VerifyInsertLosesAnswer, VerifyInsertFails,
     TypeOK, history
<1>7. doubt' \subseteq Code /\ unfiled' \subseteq Code
  BY <1>1 DEF Inserts, VerifyInsert, VerifyInsertLosesAnswer, VerifyInsertFails, TypeOK, history
<1>8. RestType
  BY <1>1, <1>6, <1>7 DEF RestType, TypeOK
<1> QED
  BY <1>2, <1>4, <1>5, <1>8, BaseParts

(* The message goes on to the count, or is answered. *)
LEMMA UpdatedLetters ==
    ASSUME BaseInv, NEW m \in Msgs, msg[m].at = "update", Move(m, "count") \/ Answer(m)
    PROVE  /\ MsgType /\ MsgOthers(m) /\ SameLetter(m) /\ msg'[m].at \in {"count", "done"}
           /\ LetterInv'
<1>1. TypeOK /\ LetterInv
  BY DEF BaseInv
<1>2. MsgType /\ MsgOthers(m) /\ SameLetter(m) /\ msg'[m].at \in {"count", "done"}
  BY <1>1, MoveFacts, AnswerFacts
<1>3. LetterInv'
  BY <1>1, <1>2 DEF LetterInv, MsgOthers, SameLetter
<1> QED
  BY <1>2, <1>3

LEMMA UpdateStep ==
    ASSUME BaseInv, NEW m \in Msgs, Update(m)
    PROVE  BaseInv'
<1>1. TypeOK /\ msg[m].at = "update" /\ msg[m].code \in Code
      /\ UNCHANGED <<filed, listed, counted, raced, stray, unfiled>>
  BY DEF BaseInv, LetterInv, Update, VerifyUpdate, VerifyUpdatePanics, VerifyUpdateFails, web,
         tables, history
<1>2. FiledType
  BY <1>1, SameFiled
<1>3. RowType /\ RowsGrow /\ RowInv'
  BY <1>1, SettledRows, SameRows DEF Update, VerifyUpdate, VerifyUpdatePanics, VerifyUpdateFails,
     web, tables
<1>4. CASE VerifyUpdatePanics(m)
  <2>1. MsgType /\ Shrinks /\ LetterInv' /\ ReqType
    BY <1>4, EndingFacts, IdleType DEF VerifyUpdatePanics, Ends
  <2>2. Cut \subseteq Code
    BY DEF Cut, At, BaseInv, LetterInv
  <2>3. RestType
    BY <1>1, <1>4, <2>2 DEF VerifyUpdatePanics, Ends, RestType, TypeOK
  <2> QED
    BY <1>2, <1>3, <2>1, <2>3, WorkKept, BaseParts
<1>5. CASE VerifyUpdate(m) \/ VerifyUpdateFails(m)
  <2>1. /\ MsgType /\ MsgOthers(m) /\ SameLetter(m) /\ msg'[m].at \in {"count", "done"}
        /\ LetterInv'
    BY <1>1, <1>5, UpdatedLetters DEF VerifyUpdate, VerifyUpdateFails
  <2>2. ReqType /\ phase' = phase
    BY <1>5, SameReq DEF VerifyUpdate, VerifyUpdateFails, web
  <2>3. count' \in [{"fault", "end"} -> Nat] /\ doubt' \subseteq Code
    BY <1>1, <1>5, CountingType DEF VerifyUpdate, VerifyUpdateFails, TypeOK, history
  <2>4. RestType
    BY <1>1, <2>2, <2>3 DEF RestType, TypeOK
  <2>5. ASSUME NEW n \in Msgs, msg'[n].at \in {"insert", "update"}
        PROVE  n # m /\ msg'[n] = msg[n]
    BY <2>1, <2>5 DEF MsgOthers
  <2>6. WorkInv'
    BY <2>5, <1>3 DEF WorkInv, BaseInv, LetterInv, RowsGrow
  <2> QED
    BY <1>2, <1>3, <2>1, <2>2, <2>4, <2>6, BaseParts
<1> QED
  BY <1>4, <1>5 DEF Update

(* Every step is one of these groups. *)
LEMMA Steps ==
    ASSUME [Next]_vars
    PROVE  \/ Passing
           \/ Exit \/ Crash
           \/ Stop \/ Restart \/ UNCHANGED vars
           \/ (\E c \in Code : Issue(c) \/ DayPasses(c)) \/ verifyCodesRecycle
           \/ \E r \in Request : Submit(r)
           \/ \E m \in Msgs : \/ VerifySelect(m) \/ Inserts(m) \/ VerifyInsertFails(m)
                              \/ Update(m)
  BY DEF Next, Passing, Deliver, VerifyCodeHandler, Inserts, Update

LEMMA BaseStep == BaseInv /\ [Next]_vars => BaseInv'
  BY Steps, PassingStep, EndStep, StopStep, RowStep, SubmitStep, SelectStep, InsertStep, UpdateStep

LEMMA BaseAlways == Spec => []BaseInv
  BY BaseInit, BaseStep, PTL DEF Spec

(* The types, for any number of messages, requests and codes. *)
THEOREM TypeCorrect == Spec => []TypeOK
<1>1. BaseInv => TypeOK
  BY DEF BaseInv
<1> QED
  BY <1>1, BaseAlways, PTL

-----------------------------------------------------------------------------
(* The ledger.                                                             *)

Owner == [c \in Code |-> code[c].wallet]
State == [c \in Code |-> Settlement(c)]
Files == {Filing(s) : s \in filed}

(* The same wallets, settlements and submissions. *)
LEMMA SameLedger ==
    ASSUME filed' = filed,
           \A c \in Code : code'[c].wallet = code[c].wallet /\ Settlement(c)' = Settlement(c)
    PROVE  UNCHANGED Promise!ledger
  BY DEF Promise!ledger, Filing

LEMMA GiveStep ==
    ASSUME BaseInv, NEW r \in Request, SubmitUpdate(r)
    PROVE  Promise!Next \/ UNCHANGED Promise!ledger
<1>1. TypeOK /\ RowInv /\ filed' = filed
  BY DEF BaseInv, SubmitUpdate
<1>0. PICK c \in Code, w \in Wallet : c = req[r].code /\ w = req[r].wallet
  BY DEF BaseInv, ReqInv, SubmitUpdate
<1>2. CASE code[c].status = "issued"
  <2>1. /\ RowOthers(c) /\ code'[c].status = "bound" /\ code'[c].wallet = w
    BY <1>0, <1>1, <1>2, BindFacts DEF SubmitUpdate
  <2>2. code[c].wallet = None /\ Settlement(c) = "open"
    BY <1>1, <1>2 DEF RowInv, Settlement
  <2>3. \A d \in Code : Settlement(d)' = Settlement(d)
    BY <1>2, <2>1 DEF RowOthers, Settlement
  <2>4. Owner' = [Owner EXCEPT ![c] = w]
    BY <1>1, <2>1 DEF Owner, RowOthers
  <2>5. State' = State /\ Files' = Files
    BY <1>1, <2>3 DEF State, Files, Filing
  <2>6. Owner[c] = None /\ State[c] = "open"
    BY <1>1, <2>2 DEF Owner, State
  <2>7. Promise!Give(c, w)
    BY <2>4, <2>5, <2>6 DEF Promise!Give, Owner, State, Files
  <2> QED
    BY <1>1, <2>7 DEF Promise!Next
<1>3. CASE code[c].status # "issued"
  BY <1>0, <1>1, <1>3, SameLedger DEF SubmitUpdate, Settlement
<1> QED
  BY <1>2, <1>3

LEMMA ExpireStep ==
    ASSUME BaseInv, verifyCodesRecycle
    PROVE  Promise!Next
<1>1. TypeOK /\ RowInv
  BY DEF BaseInv
<1>2. /\ \A c \in Code : /\ code'[c].wallet = code[c].wallet
                         /\ c \in Aged => code'[c].status = "deleted" /\ ~code'[c].old
                         /\ c \notin Aged => code'[c] = code[c]
      /\ filed' = filed /\ Aged \in SUBSET Code
  BY <1>1, SweepFacts DEF Aged
<1>3. \A c \in Aged : State[c] = "open"
  BY <1>1 DEF State, Settlement, RowInv, Aged
<1>4. State' = [c \in Code |-> IF c \in Aged THEN "expired" ELSE State[c]]
  BY <1>2 DEF State, Settlement
<1>5. Owner' = Owner /\ Files' = Files
  BY <1>2 DEF Owner, Files, Filing
<1>6. Promise!Expire(Aged)
  <2> HIDE DEF Aged
  <2> QED
    BY <1>3, <1>4, <1>5 DEF Promise!Expire, Owner, State, Files
<1> QED
  BY <1>2, <1>6 DEF Promise!Next

LEMMA FileStep ==
    ASSUME BaseInv, NEW m \in Msgs, Inserts(m)
    PROVE  Promise!Next \/ UNCHANGED Promise!ledger
<1>4. msg[m].at = "insert" /\ Insert(m) /\ code' = code
  BY DEF Inserts, VerifyInsert, VerifyInsertLosesAnswer
<1>0. PICK c \in Code, u \in Member : c = msg[m].code /\ u = msg[m].member
  BY <1>4, InsertFiles
<1>1. code' = code /\ code[c].wallet \in Wallet
  BY <1>0, <1>4 DEF BaseInv, WorkInv
<1>2. CASE Duplicate(c, u)
  BY <1>0, <1>1, <1>2, <1>4, InsertFiles, SameLedger DEF Settlement
<1>3. CASE ~Duplicate(c, u)
  <2>1. PICK s \in Filings : /\ filed' = filed \union {s}
                             /\ s.code = c /\ s.member = u /\ s.wallet = code[c].wallet
    BY <1>0, <1>3, <1>4, InsertFiles
  <2>2. Files' = Files \union {[code |-> c, wallet |-> Owner[c], member |-> u]}
    BY <1>1, <2>1 DEF Files, Filing, Owner
  <2>3. Owner' = Owner /\ State' = State /\ Owner[c] # None
    BY <1>1, NameAssumption DEF Owner, State, Settlement
  <2>4. u \in Admin \/ \A f \in Files : f.member # u \/ AirdropOf[f.code] # AirdropOf[c]
    BY <1>3 DEF Duplicate, Files, Filing
  <2>5. Promise!File(c, u)
    BY <2>2, <2>3, <2>4 DEF Promise!File, Owner, State, Files
  <2> QED
    BY <1>1, <2>5 DEF Promise!Next
<1> QED
  BY <1>2, <1>3

LEMMA SettleStep ==
    ASSUME BaseInv, NEW m \in Msgs, msg[m].at = "update", Settled(m), filed' = filed
    PROVE  Promise!Next \/ UNCHANGED Promise!ledger
<1>0. PICK c \in Code : c = msg[m].code
  BY DEF BaseInv, LetterInv
<1>1. /\ TypeOK /\ RowInv
      /\ code[c].status \in {"bound", "filed", "deleted"} /\ code[c].wallet \in Wallet
  BY <1>0 DEF BaseInv, WorkInv
<1>2. /\ RowOthers(c) /\ code'[c].wallet = code[c].wallet
      /\ \/ code[c].status = "deleted" /\ code' = code
         \/ code[c].status # "deleted" /\ code'[c].status = "filed"
  BY <1>0, <1>1, SettledFacts
<1>3. \A d \in Code : /\ code'[d].wallet = code[d].wallet
                      /\ d # c => Settlement(d)' = Settlement(d)
  BY <1>1, <1>2 DEF RowOthers, Settlement
<1>4. CASE code[c].status \in {"filed", "deleted"}
  <2>1. Settlement(c)' = Settlement(c)
    BY <1>2, <1>4 DEF Settlement
  <2> QED
    BY <1>3, <2>1, SameLedger
<1>5. CASE code[c].status = "bound"
  <2>1. Settlement(c) = "open" /\ Settlement(c)' = "settled"
    BY <1>2, <1>5 DEF Settlement
  <2>2. State' = [State EXCEPT ![c] = "settled"]
    BY <1>1, <1>3, <2>1 DEF State
  <2>3. Owner' = Owner /\ Files' = Files
    BY <1>3 DEF Owner, Files, Filing
  <2>4. Owner[c] # None /\ State[c] = "open"
    BY <1>1, <2>1, NameAssumption DEF Owner, State
  <2>5. Promise!Settle(c)
    BY <2>2, <2>3, <2>4 DEF Promise!Settle, Owner, State, Files
  <2> QED
    BY <1>1, <2>5 DEF Promise!Next
<1> QED
  BY <1>1, <1>4, <1>5

LEMMA LedgerStep == BaseInv /\ [Next]_vars => [Promise!Next]_(Promise!ledger)
<1> SUFFICES ASSUME BaseInv, [Next]_vars
             PROVE  Promise!Next \/ UNCHANGED Promise!ledger
  OBVIOUS
<1>1. ASSUME filed' = filed, code' = code
      PROVE  UNCHANGED Promise!ledger
  BY <1>1, SameLedger DEF Settlement
<1>2. CASE Passing \/ Exit \/ Crash \/ Stop \/ Restart \/ UNCHANGED vars
  <2>1. filed' = filed /\ code' = code
    BY <1>2, PassingRest DEF Exit, Crash, Stop, Restart, vars, web, tables
  <2> QED
    BY <1>1, <2>1
<1>3. ASSUME NEW c \in Code, Issue(c) \/ DayPasses(c)
      PROVE  UNCHANGED Promise!ledger
  <2>1. /\ RowOthers(c) /\ code'[c].wallet = code[c].wallet /\ filed' = filed
        /\ code[c].status \in {"none", "issued", "bound"}
        /\ code'[c].status \in {"none", "issued", "bound"}
    BY <1>3, IssueFacts, DayFacts DEF BaseInv, Issue, DayPasses
  <2> QED
    BY <2>1, SameLedger DEF Settlement, RowOthers
<1>4. ASSUME NEW r \in Request, Submit(r)
      PROVE  Promise!Next \/ UNCHANGED Promise!ledger
  <2>1. CASE SubmitUpdate(r)
    BY <2>1, GiveStep
  <2>2. CASE ~SubmitUpdate(r)
    BY <1>1, <1>4, <2>2 DEF Submit, SubmitSelect, SubmitUpdateFails, SubmitList, tables
  <2> QED
    BY <2>1, <2>2
<1>5. ASSUME NEW m \in Msgs, VerifySelect(m) \/ VerifyInsertFails(m) \/ VerifyUpdateFails(m)
      PROVE  UNCHANGED Promise!ledger
  BY <1>1, <1>5 DEF VerifySelect, VerifyInsertFails, VerifyUpdateFails, web, tables
<1>6. ASSUME NEW m \in Msgs, VerifyUpdate(m) \/ VerifyUpdatePanics(m)
      PROVE  Promise!Next \/ UNCHANGED Promise!ledger
  BY <1>6, SettleStep DEF VerifyUpdate, VerifyUpdatePanics
<1> QED
  BY <1>2, <1>3, <1>4, <1>5, <1>6, Steps, ExpireStep, FileStep DEF Update

(* Requests and workers act on rows they read earlier, and still the       *)
(* tables keep what CodeLedger promises: show.go, submit.go, bot.go and    *)
(* the collector implement it.                                             *)
THEOREM ImplementsLedger == Spec => KeepsPromise
<1>1. Init => Promise!Init
  BY DEF Init, Promise!Init, Settlement
<1>2. Spec => Promise!Init /\ [][Promise!Next]_(Promise!ledger)
  BY <1>1, LedgerStep, BaseAlways, PTL DEF Spec
<1> QED
  BY <1>2 DEF KeepsPromise, Promise!Spec

-----------------------------------------------------------------------------
(* One code, one submission.                                               *)

Busy(m) == msg[m].at \in {"insert", "update", "count"}

LEMMA WorkingIs == Working = {m \in Msgs : Busy(m)} /\ Working' = {m \in Msgs : Busy(m)'}
  BY DEF Working, At, Busy

LEMMA UpdateIs == At("update") = {m \in Msgs : msg[m].at = "update"}
                  /\ At("update")' = {m \in Msgs : msg'[m].at = "update"}
  BY DEF At

(* Before the INSERT, or after one that filed nothing. *)
Unfiled(m) == msg[m].at = "insert" \/ (msg[m].at = "update" /\ msg[m].ret # "one")

(* HandInv without the sets. *)
HandAt(c) ==
    /\ \A m, n \in Msgs : Busy(m) /\ Busy(n) /\ msg[m].code = c /\ msg[n].code = c => m = n
    /\ \A m \in Msgs : msg[m].code = c /\ msg[m].at \in {"insert", "update"} => code[c].status = "bound"
    /\ \A m \in Msgs : msg[m].code = c /\ Unfiled(m) => \A s \in filed : s.code # c
    /\ \A s \in filed : s.code = c =>
            code[c].status = "filed" \/ \E m \in Msgs : msg[m].at = "update" /\ msg[m].code = c
    /\ \A s, t \in filed : s.code = c /\ t.code = c => s = t

LEMMA HandIs == \A c : (HandInv(c) <=> HandAt(c)) /\ (HandInv(c)' <=> HandAt(c)')
  BY WorkingIs, UpdateIs DEF HandInv, HandAt, Unfiled

(* Nobody takes or drops the code. *)
LEMMA PassingHand ==
    ASSUME BaseInv, NEW c \in Code, HandAt(c), Shrinks, LettersKept,
           filed' = filed, code'[c].status = code[c].status,
           \/ Keeps
           \/ \A m \in Msgs : msg[m].at = "update" /\ msg[m].code = c => msg'[m].at = "update"
    PROVE  HandAt(c)'
<1>1. \A m \in Msgs : Busy(m)' => Busy(m) /\ msg'[m].code = msg[m].code
                                 /\ msg'[m].at = msg[m].at /\ msg'[m].ret = msg[m].ret
  BY DEF Busy, Shrinks, SameLetter
<1>2. \A m \in Msgs : msg[m].at = "update" /\ msg[m].code = c =>
                            msg'[m].at = "update" /\ msg'[m].code = c
  BY DEF Keeps, LettersKept, SameLetter
<1>3. \A m \in Msgs : Unfiled(m)' => Unfiled(m)
  BY <1>1 DEF Unfiled, Busy
<1>4. \A s \in filed : s.code = c =>
        code'[c].status = "filed" \/ \E m \in Msgs : msg'[m].at = "update" /\ msg'[m].code = c
  BY <1>2 DEF HandAt
<1>5. \A m \in Msgs : msg'[m].at \in {"insert", "update"} => Busy(m)'
  BY DEF Busy
<1>6. \A m \in Msgs : msg'[m].code = c /\ msg'[m].at \in {"insert", "update"} =>
        code'[c].status = "bound"
  BY <1>1, <1>5 DEF HandAt
<1>7. \A m \in Msgs : msg'[m].code = c /\ Unfiled(m)' => \A s \in filed' : s.code # c
  BY <1>1, <1>3, <1>5 DEF HandAt, Unfiled
<1> QED
  BY <1>1, <1>4, <1>6, <1>7 DEF HandAt

(* The process ends: what was between INSERT and UPDATE is in Cut. *)
LEMMA EndHand ==
    ASSUME BaseInv, NEW c \in Code, HandAt(c), Ends, c \notin Cut, filed' = filed,
           code[c].status = "filed" => code'[c].status = "filed"
    PROVE  HandAt(c)'
<1>1. \A m \in Msgs : msg'[m].at \notin {"insert", "update", "count"}
  BY EndingFacts
<1>2. \A m \in Msgs : msg[m].at = "update" /\ msg[m].code = c => msg[m].ret # "one"
  BY DEF Cut, At
<1>3. \A s \in filed : s.code = c => code[c].status = "filed"
  BY <1>2 DEF HandAt, Unfiled
<1> QED
  BY <1>1, <1>3 DEF HandAt, Busy, Unfiled

(* A worker takes a code that no other worker has. *)
LEMMA TakesHand ==
    ASSUME BaseInv, NEW c \in Code, HandAt(c), NEW m \in Msgs, Takes(m),
           UNCHANGED <<code, filed>>,
           msg[m].code = c => \A n \in Working : msg[n].code # c
    PROVE  HandAt(c)'
<1>1. TypeOK /\ LetterInv /\ msg[m] \in Messages /\ msg[m].at = "serving"
      /\ code[msg[m].code].status = "bound"
  BY DEF BaseInv, TypeOK, Takes
<1>2. msg[m].code \in Code
  BY <1>1 DEF Takes, LetterInv, Messages
<1>3. MsgOthers(m) /\ SameLetter(m) /\ msg'[m].at = "insert"
  BY <1>1, <1>2, TakesFacts
<1>4. msg'[m].code = msg[m].code /\ \A n \in Msgs : n # m => msg'[n] = msg[n]
  BY <1>3 DEF MsgOthers, SameLetter
<1>5. CASE msg[m].code # c
  <2>1. \A n \in Msgs : msg'[n].code = c => msg'[n] = msg[n]
    BY <1>4, <1>5
  <2>2. \A n \in Msgs : msg[n].code = c => msg'[n] = msg[n]
    BY <1>4, <1>5
  <2> QED
    BY <2>1, <2>2 DEF HandAt, Busy, Unfiled
<1>6. CASE msg[m].code = c
  <2>1. \A n \in Msgs : Busy(n) => msg[n].code # c
    BY <1>6, WorkingIs
  <2>2. \A n \in Msgs : Busy(n)' /\ msg'[n].code = c => n = m
    BY <1>4, <2>1 DEF Busy
  <2>3. \A s \in filed : s.code # c
    BY <1>1, <1>6, <2>1 DEF HandAt, Busy
  <2>4. \A n \in Msgs : msg'[n].code = c /\ msg'[n].at \in {"insert", "update"} => code'[c].status = "bound"
    BY <1>1, <1>6, <2>2 DEF Busy
  <2> QED
    BY <2>2, <2>3, <2>4 DEF HandAt
<1> QED
  BY <1>5, <1>6

(* The INSERT for a code that only this worker has. *)
LEMMA InsertHand ==
    ASSUME BaseInv, NEW c \in Code, HandAt(c), NEW m \in Msgs,
           Inserts(m) \/ VerifyInsertFails(m), c \notin doubt'
    PROVE  HandAt(c)'
<1>1. TypeOK /\ LetterInv /\ code' = code /\ msg[m].at = "insert"
  BY DEF BaseInv, Inserts, VerifyInsert, VerifyInsertLosesAnswer, VerifyInsertFails, web, tables
<1>2. PICK t \in {"one", "zero", "nil"} :
        /\ msg' = [msg EXCEPT ![m].at = "update", ![m].ret = t]
        /\ \/ filed' = filed /\ (t # "one" \/ msg[m].code # c)
           \/ /\ t = "one" \/ msg[m].code # c
              /\ \E s : filed' = filed \union {s} /\ s.code = msg[m].code
  <2>1. CASE VerifyInsertFails(m)
    BY <2>1 DEF VerifyInsertFails, web, tables
  <2>2. CASE VerifyInsert(m)
    <3>1. CASE Duplicate(msg[m].code, msg[m].member)
      BY <2>2, <3>1 DEF VerifyInsert, Insert
    <3>2. CASE ~Duplicate(msg[m].code, msg[m].member)
      <4>1. \E s : filed' = filed \union {s} /\ s.code = msg[m].code
        BY <1>1, <2>2, <3>2, InsertFiles DEF VerifyInsert
      <4> QED
        BY <2>2, <3>2, <4>1 DEF VerifyInsert
    <3> QED
      BY <3>1, <3>2
  <2>3. CASE VerifyInsertLosesAnswer(m)
    <3>1. msg[m].code # c /\ msg' = [msg EXCEPT ![m].at = "update", ![m].ret = "nil"]
      BY <2>3 DEF VerifyInsertLosesAnswer
    <3>2. filed' = filed \/ \E s : filed' = filed \union {s} /\ s.code = msg[m].code
      BY <1>1, <2>3, InsertFiles DEF VerifyInsertLosesAnswer
    <3> QED
      BY <3>1, <3>2
  <2> QED
    BY <2>1, <2>2, <2>3 DEF Inserts
<1>3. MsgOthers(m) /\ SameLetter(m) /\ msg'[m].at = "update" /\ msg'[m].ret = t
  BY <1>1, <1>2, AfterInsert
<1>4. msg'[m].code = msg[m].code /\ \A n \in Msgs : n # m => msg'[n] = msg[n]
  BY <1>3 DEF MsgOthers, SameLetter
<1>5. CASE msg[m].code # c
  <2>1. \A n \in Msgs : msg'[n].code = c \/ msg[n].code = c => msg'[n] = msg[n]
    BY <1>4, <1>5
  <2>2. \A s \in filed' : s.code = c => s \in filed
    BY <1>2, <1>5
  <2>3. filed \subseteq filed'
    BY <1>2
  <2> QED
    BY <1>1, <2>1, <2>2, <2>3 DEF HandAt, Busy, Unfiled
<1>6. CASE msg[m].code = c
  <2>1. code[c].status = "bound" /\ \A s \in filed : s.code # c
    BY <1>1, <1>6 DEF HandAt, Unfiled
  <2>2. \A n \in Msgs : Busy(n) /\ msg[n].code = c => n = m
    BY <1>1, <1>6 DEF HandAt, Busy
  <2>3. \A n \in Msgs : Busy(n)' /\ msg'[n].code = c => n = m
    BY <1>4, <2>2 DEF Busy
  <2>4. \A s, u \in filed' : s.code = c /\ u.code = c => s = u
    BY <1>2, <2>1
  <2>5. \A n \in Msgs : msg'[n].code = c /\ Unfiled(n)' => \A s \in filed' : s.code # c
    BY <1>2, <1>3, <2>1, <2>3 DEF Busy, Unfiled
  <2>6. \A n \in Msgs : msg'[n].code = c /\ msg'[n].at \in {"insert", "update"} => code'[c].status = "bound"
    BY <1>1, <2>1
  <2>7. msg'[m].at = "update" /\ msg'[m].code = c
    BY <1>3, <1>4, <1>6
  <2> QED
    BY <2>3, <2>4, <2>5, <2>6, <2>7 DEF HandAt
<1> QED
  BY <1>5, <1>6

(* The UPDATE ends what the worker had in hand. *)
LEMMA UpdateHand ==
    ASSUME BaseInv, NEW c \in Code, HandAt(c), NEW m \in Msgs, msg[m].at = "update",
           filed' = filed, Move(m, "count") \/ Answer(m),
           \/ Settled(m)
           \/ code' = code /\ (msg[m].ret = "one" => msg[m].code # c)
    PROVE  HandAt(c)'
<1>1. TypeOK /\ LetterInv /\ msg[m].code \in Code
  BY DEF BaseInv, LetterInv
<1>2. MsgOthers(m) /\ SameLetter(m) /\ msg'[m].at \in {"count", "done"}
  BY UpdatedLetters
<1>3. msg'[m].code = msg[m].code /\ \A n \in Msgs : n # m => msg'[n] = msg[n]
  BY <1>2 DEF MsgOthers, SameLetter
<1>4. \A n \in Msgs : Busy(n)' => Busy(n) /\ msg'[n].code = msg[n].code
  BY <1>3 DEF Busy
<1>5. CASE msg[m].code # c
  <2>1. code'[c] = code[c]
    BY <1>1, <1>5, SettledFacts DEF RowOthers
  <2>2. \A n \in Msgs : msg'[n].code = c \/ msg[n].code = c => msg'[n] = msg[n]
    BY <1>3, <1>5
  <2> QED
    BY <2>1, <2>2 DEF HandAt, Busy, Unfiled
<1>6. CASE msg[m].code = c
  <2>1. \A n \in Msgs : Busy(n) /\ msg[n].code = c => n = m
    BY <1>6 DEF HandAt, Busy
  <2>2. \A n \in Msgs : msg'[n].code = c => msg'[n].at \notin {"insert", "update"}
    BY <1>2, <1>4, <2>1 DEF Busy
  <2>3. \A s \in filed : s.code = c => code'[c].status = "filed"
    <3>1. CASE Settled(m)
      <4>1. code[c].status = "bound"
        BY <1>6 DEF HandAt
      <4> QED
        BY <1>1, <1>6, <3>1, <4>1, SettledFacts
    <3>2. CASE ~Settled(m)
      BY <1>6, <3>2 DEF HandAt, Unfiled
    <3> QED
      BY <3>1, <3>2
  <2>4. \A n, k \in Msgs : Busy(n)' /\ Busy(k)' /\ msg'[n].code = c /\ msg'[k].code = c => n = k
    BY <1>4, <2>1
  <2> QED
    BY <2>2, <2>3, <2>4 DEF HandAt, Unfiled
<1> QED
  BY <1>5, <1>6

(* The row of the code changes, and nothing of the messages. *)
LEMMA RowHand ==
    ASSUME BaseInv, NEW c \in Code, HandAt(c), UNCHANGED <<msg, filed>>,
           code[c].status \in {"bound", "filed"} => code'[c].status = code[c].status
    PROVE  HandAt(c)'
  BY DEF HandAt, Busy, Unfiled

LEMMA DoubtGrows ==
    ASSUME [Next]_vars
    PROVE  doubt \subseteq doubt'
<1>1. CASE Passing
  BY <1>1, PassingRest
<1>2. CASE Exit \/ Crash \/ \E m \in Msgs : VerifyUpdatePanics(m)
  BY <1>2 DEF Exit, Crash, VerifyUpdatePanics, Ends
<1>3. CASE Stop \/ Restart \/ UNCHANGED vars
  BY <1>3 DEF Stop, Restart, vars, history
<1>4. CASE (\E c \in Code : Issue(c) \/ DayPasses(c)) \/ verifyCodesRecycle
  BY <1>4 DEF Issue, DayPasses, verifyCodesRecycle, Sweep, history
<1>5. CASE \E r \in Request : Submit(r)
  BY <1>5 DEF Submit, SubmitSelect, SubmitUpdate, SubmitUpdateFails, SubmitList, history
<1>6. CASE \E m \in Msgs : VerifySelect(m)
  BY <1>6 DEF VerifySelect
<1>7. CASE \E m \in Msgs : Inserts(m) \/ VerifyInsertFails(m)
  BY <1>7 DEF Inserts, VerifyInsert, VerifyInsertLosesAnswer, VerifyInsertFails, history
<1>8. CASE \E m \in Msgs : VerifyUpdate(m) \/ VerifyUpdateFails(m)
  BY <1>8 DEF VerifyUpdate, VerifyUpdateFails, history
<1> QED
  BY <1>1, <1>2, <1>3, <1>4, <1>5, <1>6, <1>7, <1>8, Steps DEF Update

LEMMA HandStep ==
    ASSUME BaseInv, BaseInv', [Next]_vars, NEW c \in Code, HandAt(c), c \notin doubt'
    PROVE  HandAt(c)'
<1>0. TypeOK /\ RowInv /\ LetterInv
  BY DEF BaseInv
<1>1. CASE Passing
  BY <1>1, PassingFacts, PassingRest, PassingHand
<1>2. CASE Exit \/ Crash
  <2>1. Ends /\ filed' = filed /\ code' = code /\ c \notin Cut
    BY <1>2 DEF Exit, Crash, Ends, tables
  <2> QED
    BY <2>1, EndHand
<1>3. CASE Stop \/ Restart \/ UNCHANGED vars
  BY <1>3, RowHand DEF Stop, Restart, vars, web, tables
<1>4. CASE \E d \in Code : Issue(d) \/ DayPasses(d)
  <2>1. PICK d \in Code : Issue(d) \/ DayPasses(d)
    BY <1>4
  <2>2. UNCHANGED <<msg, filed>> /\ RowOthers(d)
        /\ (code[d].status \in {"bound", "filed"} => code'[d].status = code[d].status)
    BY <1>0, <2>1, IssueFacts, DayFacts DEF Issue, DayPasses
  <2> QED
    BY <2>2, RowHand DEF RowOthers
<1>5. CASE verifyCodesRecycle
  <2>1. /\ \A d \in Code : /\ d \in Aged => code'[d].status = "deleted"
                           /\ d \notin Aged => code'[d] = code[d]
        /\ doubt' = doubt \union {d \in Aged : \E m \in Working : msg[m].code = d}
        /\ UNCHANGED <<filed, msg>>
    BY <1>0, <1>5, SweepFacts
  <2>2. CASE c \notin Aged
    BY <2>1, <2>2, RowHand
  <2>3. CASE c \in Aged
    <3>1. \A m \in Msgs : Busy(m) => msg[m].code # c
      BY <2>1, <2>3, WorkingIs
    <3>2. code[c].status # "filed"
      BY <2>3 DEF Aged
    <3>3. \A s \in filed : s.code # c
      BY <3>1, <3>2 DEF HandAt, Busy
    <3> QED
      BY <2>1, <3>1, <3>3 DEF HandAt, Busy, Unfiled
  <2> QED
    BY <2>2, <2>3
<1>6. CASE \E r \in Request : Submit(r)
  <2>1. PICK r \in Request : Submit(r)
    BY <1>6
  <2>2. UNCHANGED <<msg, filed>>
    BY <2>1 DEF Submit, SubmitSelect, SubmitUpdate, SubmitUpdateFails, SubmitList, tables
  <2>3. CASE SubmitUpdate(r) /\ code[req[r].code].status = "issued"
    <3>1. RowOthers(req[r].code)
      BY <1>0, <2>3, BindFacts DEF SubmitUpdate, BaseInv, ReqInv
    <3> QED
      BY <2>2, <2>3, <3>1, RowHand DEF RowOthers
  <2>4. CASE ~(SubmitUpdate(r) /\ code[req[r].code].status = "issued")
    <3>1. code' = code
      BY <2>1, <2>4 DEF Submit, SubmitSelect, SubmitUpdate, SubmitUpdateFails, SubmitList, tables
    <3> QED
      BY <2>2, <3>1, RowHand
  <2> QED
    BY <2>3, <2>4
<1>7. ASSUME NEW m \in Msgs, VerifySelect(m)
      PROVE  HandAt(c)'
  <2>1. UNCHANGED <<code, filed>> /\ msg[m].at = "serving"
    BY <1>7 DEF VerifySelect, web, tables
  <2>2. CASE msg[m].inGroup /\ code[msg[m].code].status = "bound"
    <3>1. Takes(m) /\ (msg[m].code = c => \A n \in Working : msg[n].code # c)
      BY <1>7, <2>2 DEF VerifySelect, Takes
    <3> QED
      BY <2>1, <3>1, TakesHand
  <2>3. CASE ~(msg[m].inGroup /\ code[msg[m].code].status = "bound")
    <3>1. Answer(m)
      BY <1>7, <2>3 DEF VerifySelect
    <3>2. Shrinks /\ Keeps /\ LettersKept
      BY <1>0, <2>1, <3>1, AnswerFacts, OneLeaves
    <3> QED
      BY <2>1, <3>2, PassingHand
  <2> QED
    BY <2>2, <2>3
<1>8. ASSUME NEW m \in Msgs, VerifyUpdate(m)
      PROVE  HandAt(c)'
  BY <1>8, UpdateHand DEF VerifyUpdate
<1>9. ASSUME NEW m \in Msgs, VerifyUpdateFails(m)
      PROVE  HandAt(c)'
  <2>1. code' = code /\ filed' = filed /\ Answer(m) /\ msg[m].at = "update"
        /\ (msg[m].ret = "one" => msg[m].code # c)
    BY <1>9 DEF VerifyUpdateFails, web, tables
  <2> QED
    BY <2>1, UpdateHand
<1>10. ASSUME NEW m \in Msgs, VerifyUpdatePanics(m)
       PROVE  HandAt(c)'
  <2>1. Ends /\ filed' = filed /\ c \notin Cut /\ Settled(m) /\ msg[m].at = "update"
    BY <1>10 DEF VerifyUpdatePanics, Ends
  <2>2. msg[m].code \in Code
    BY <1>0, <2>1 DEF LetterInv
  <2>3. code[c].status = "filed" => code'[c].status = "filed"
    BY <1>0, <2>1, <2>2, SettledFacts DEF RowOthers
  <2> QED
    BY <2>1, <2>3, EndHand
<1> QED
  BY <1>1, <1>2, <1>3, <1>4, <1>5, <1>6, <1>7, <1>8, <1>9, <1>10, Steps, InsertHand DEF Update

LEMMA CodeStep == BaseInv /\ CodeInv /\ [Next]_vars => CodeInv'
<1> SUFFICES ASSUME BaseInv, CodeInv, [Next]_vars, NEW c \in Code, c \notin doubt'
             PROVE  HandInv(c)'
  BY DEF CodeInv
<1>1. HandAt(c)
  BY DoubtGrows, HandIs DEF CodeInv
<1> QED
  BY <1>1, BaseStep, HandStep, HandIs

LEMMA CodeAlways == Spec => [](BaseInv /\ CodeInv)
<1>1. Init => CodeInv
  <2> SUFFICES ASSUME Init, NEW c \in Code PROVE HandAt(c)
    BY HandIs DEF CodeInv
  <2>1. filed = {} /\ \A m \in Msgs : msg[m].at = "unsent"
    BY DEF Init
  <2> QED
    BY <2>1 DEF HandAt, Busy, Unfiled
<1> QED
  BY <1>1, BaseInit, BaseStep, CodeStep, PTL DEF Spec

(* A code is filed once, unless two workers had it in hand at once, or its *)
(* INSERT lost its answer or its UPDATE was cut off or failed.             *)
THEOREM FiledOnce == Spec => []OnePerCode
<1>1. CodeInv => OnePerCode
  BY DEF CodeInv, HandInv, OnePerCode
<1> QED
  BY <1>1, CodeAlways, PTL

(* A submission that is filed has used up its code. *)
THEOREM FilingSettles == Spec => []FiledIsSettled
<1>1. BaseInv /\ CodeInv => FiledIsSettled
  <2> SUFFICES ASSUME BaseInv, CodeInv, NEW s \in filed, s.code \notin doubt
               PROVE  code[s.code].status = "filed" \/ \E m \in At("update") : msg[m].code = s.code
    BY DEF FiledIsSettled
  <2>1. s.code \in Code
    BY DEF BaseInv, TypeOK
  <2> QED
    BY <2>1 DEF CodeInv, HandInv
<1> QED
  BY <1>1, CodeAlways, PTL


-----------------------------------------------------------------------------
(* One wallet, one code.                                                   *)

(* No request is added, and no code gets the wallet. *)
LEMMA WalletKept ==
    ASSUME NEW a \in Airdrop, NEW w \in Wallet, WalletAt(a, w),
           \A r \in Request : Asks(r, a, w)' => Asks(r, a, w),
           \A c \in Code : Has(c, a, w)' => Has(c, a, w)
    PROVE  WalletAt(a, w)'
  BY DEF WalletAt

(* The SELECT by a link of the airdrop found no code of the wallet; one by *)
(* another link is of no matter.                                           *)
LEMMA SelectWallet ==
    ASSUME BaseInv, NEW a \in Airdrop, NEW w \in Wallet, WalletAt(a, w), <<a, w>> \notin raced',
           NEW r \in Request, NEW c \in Code, NEW v \in Wallet, NEW b \in Airdrop,
           SubmitSelect(r, c, v, b)
    PROVE  WalletAt(a, w)'
<1>1. /\ req \in [Request -> Requests] /\ code' = code /\ stray' = stray
      /\ req' = [req EXCEPT ![r] = [step |-> "update", code |-> c, wallet |-> v, airdrop |-> b]]
      /\ \A d \in Code : AirdropOf[d] # b \/ code[d].status = "deleted" \/ code[d].wallet # v
  BY DEF BaseInv, TypeOK, SubmitSelect, tables
<1>2. \A d \in Code : Has(d, a, w)' <=> Has(d, a, w)
  BY <1>1 DEF Has
<1>3. \A q \in Request : q # r => (Asks(q, a, w)' <=> Asks(q, a, w))
  BY <1>1 DEF Asks
<1>4. Asks(r, a, w)' <=> (v = w /\ b = a)
  BY <1>1 DEF Asks
<1>5. CASE v # w \/ b # a
  BY <1>2, <1>3, <1>4, <1>5, WalletKept
<1>6. CASE v = w /\ b = a
  <2>1. \A q \in Request : ~Asks(q, a, w)
    BY <1>6 DEF SubmitSelect
  <2>2. \A d \in Code : ~Has(d, a, w)'
    BY <1>1, <1>2, <1>6 DEF Has
  <2>3. \A q \in Request : Asks(q, a, w)' => q = r
    BY <1>3, <2>1
  <2> QED
    BY <2>2, <2>3 DEF WalletAt
<1> QED
  BY <1>5, <1>6

(* A request that binds a code of its link's airdrop was the only one to   *)
(* ask for the wallet, which no code had; any other code it binds is stray.*)
LEMMA UpdateWallet ==
    ASSUME BaseInv, NEW a \in Airdrop, NEW w \in Wallet, WalletAt(a, w),
           NEW r \in Request, SubmitUpdate(r)
    PROVE  WalletAt(a, w)'
<1>1. /\ TypeOK /\ req \in [Request -> Requests]
      /\ req[r].step = "update" /\ req' = [req EXCEPT ![r].step = "list"]
      /\ req[r].wallet \in Wallet
  BY DEF BaseInv, TypeOK, ReqInv, SubmitUpdate
<1>2. PICK e \in Code : e = req[r].code
  BY DEF BaseInv, ReqInv, SubmitUpdate
<1>3. \A q \in Request : Asks(q, a, w)' => Asks(q, a, w) /\ q # r
  BY <1>1 DEF Asks, Requests
<1>4. CASE code[e].status # "issued"
  <2>1. code' = code /\ stray' = stray
    BY <1>2, <1>4 DEF SubmitUpdate
  <2> QED
    BY <1>3, <2>1, WalletKept DEF Has
<1>5. CASE code[e].status = "issued"
  <2>1. /\ RowOthers(e) /\ code'[e].wallet = req[r].wallet
        /\ stray' = IF AirdropOf[e] = req[r].airdrop THEN stray ELSE stray \union {e}
    BY <1>1, <1>2, <1>5, BindFacts DEF SubmitUpdate, Bind
  <2>2. \A d \in Code : d # e => (Has(d, a, w)' <=> Has(d, a, w))
    BY <2>1 DEF RowOthers, Has
  <2>3. CASE ~Has(e, a, w)'
    BY <1>3, <2>2, <2>3, WalletKept
  <2>4. CASE Has(e, a, w)'
    <3>1. Asks(r, a, w)
      BY <1>1, <1>2, <2>1, <2>4 DEF Has, Asks
    <3>2. \A d \in Code : ~Has(d, a, w)
      BY <3>1 DEF WalletAt
    <3>3. \A q \in Request : ~Asks(q, a, w)'
      BY <1>3, <3>1 DEF WalletAt
    <3> QED
      BY <2>2, <3>2, <3>3 DEF WalletAt
  <2> QED
    BY <2>3, <2>4
<1> QED
  BY <1>4, <1>5

LEMMA SubmitWallet ==
    ASSUME BaseInv, NEW a \in Airdrop, NEW w \in Wallet, WalletAt(a, w), <<a, w>> \notin raced',
           NEW r \in Request, Submit(r)
    PROVE  WalletAt(a, w)'
<1>1. CASE SubmitUpdateFails(r) \/ SubmitList(r)
  <2>1. req \in [Request -> Requests] /\ req' = [req EXCEPT ![r] = Idle]
        /\ code' = code /\ stray' = stray
    BY <1>1 DEF BaseInv, TypeOK, SubmitUpdateFails, SubmitList, tables
  <2>2. \A q \in Request : Asks(q, a, w)' => Asks(q, a, w)
    BY <2>1 DEF Asks, Idle
  <2> QED
    BY <2>1, <2>2, WalletKept DEF Has
<1> QED
  BY <1>1, SelectWallet, UpdateWallet DEF Submit

(* A step that is not a request's leaves the wallets of the codes alone.   *)
LEMMA OtherWallet ==
    ASSUME BaseInv, [Next]_vars, ~\E r \in Request : Submit(r)
    PROVE  /\ req' = req \/ req' = [r \in Request |-> Idle]
           /\ raced' = raced /\ stray' = stray
           /\ \A c \in Code : /\ code'[c].wallet = code[c].wallet
                              /\ code[c].status = "deleted" => code'[c].status = "deleted"
<1>0. TypeOK /\ RowInv
  BY DEF BaseInv
<1> DEFINE Same == code' = code /\ raced' = raced /\ stray' = stray /\ (req' = req \/ req' = [r \in Request |-> Idle])
<1>1. CASE Passing
  BY <1>1, PassingRest
<1>2. CASE Exit \/ Crash \/ Stop \/ Restart \/ UNCHANGED vars
  <2>1. Same
    BY <1>2 DEF Exit, Crash, Stop, Restart, Ends, vars, web, tables, history
  <2> QED
    BY <2>1
<1>3. ASSUME NEW c \in Code, Issue(c) \/ DayPasses(c)
      PROVE  /\ req' = req /\ raced' = raced /\ stray' = stray
             /\ \A d \in Code : /\ code'[d].wallet = code[d].wallet
                                /\ code[d].status = "deleted" => code'[d].status = "deleted"
  <2>1. RowOthers(c) /\ code'[c].wallet = code[c].wallet /\ code[c].status # "deleted"
    BY <1>0, <1>3, IssueFacts, DayFacts
  <2>2. req' = req /\ raced' = raced /\ stray' = stray
    BY <1>3 DEF Issue, DayPasses, history
  <2> QED
    BY <2>1, <2>2 DEF RowOthers
<1>4. CASE verifyCodesRecycle
  <2>1. /\ \A c \in Code : /\ code'[c].wallet = code[c].wallet
                           /\ c \in Aged => code'[c].status = "deleted"
                           /\ c \notin Aged => code'[c] = code[c]
        /\ req' = req /\ raced' = raced /\ stray' = stray
    BY <1>0, <1>4, SweepFacts
  <2> QED
    BY <2>1
<1>5. ASSUME NEW m \in Msgs, VerifySelect(m) \/ Inserts(m) \/ VerifyInsertFails(m)
                              \/ VerifyUpdateFails(m)
      PROVE  Same
  BY <1>5 DEF VerifySelect, Inserts, VerifyInsert, VerifyInsertLosesAnswer, VerifyInsertFails,
     VerifyUpdateFails, web, tables, history
<1>6. ASSUME NEW m \in Msgs, VerifyUpdate(m) \/ VerifyUpdatePanics(m)
      PROVE  /\ req' = req \/ req' = [r \in Request |-> Idle]
             /\ raced' = raced /\ stray' = stray
             /\ \A c \in Code : /\ code'[c].wallet = code[c].wallet
                                /\ code[c].status = "deleted" => code'[c].status = "deleted"
  <2>1. msg[m].code \in Code /\ Settled(m)
    BY <1>6 DEF VerifyUpdate, VerifyUpdatePanics, BaseInv, LetterInv
  <2>2. raced' = raced /\ stray' = stray /\ (req' = req \/ req' = [r \in Request |-> Idle])
    BY <1>6 DEF VerifyUpdate, VerifyUpdatePanics, Ends, history
  <2>3. RowOthers(msg[m].code) /\ code'[msg[m].code].wallet = code[msg[m].code].wallet
        /\ (code[msg[m].code].status = "deleted" => code' = code)
    BY <1>0, <2>1, SettledFacts
  <2> QED
    BY <2>1, <2>2, <2>3 DEF RowOthers
<1> QED
  BY <1>1, <1>2, <1>3, <1>4, <1>5, <1>6, Steps DEF Update

LEMMA WalletStep == BaseInv /\ WalletInv /\ [Next]_vars => WalletInv'
<1> SUFFICES ASSUME BaseInv, [Next]_vars, NEW a \in Airdrop, NEW w \in Wallet,
                    <<a, w>> \notin raced', <<a, w>> \notin raced => WalletAt(a, w)
             PROVE  WalletAt(a, w)'
  BY DEF WalletInv
<1>1. CASE \E r \in Request : Submit(r)
  <2>1. raced \subseteq raced'
    BY <1>1 DEF Submit, SubmitSelect, SubmitUpdate, SubmitUpdateFails, SubmitList, history
  <2> QED
    BY <1>1, <2>1, SubmitWallet
<1>2. CASE ~\E r \in Request : Submit(r)
  <2>1. WalletAt(a, w)
    BY <1>2, OtherWallet
  <2>2. \A r \in Request : Asks(r, a, w)' => Asks(r, a, w)
    BY <1>2, OtherWallet DEF Asks, Idle
  <2>3. \A c \in Code : Has(c, a, w)' => Has(c, a, w)
    BY <1>2, OtherWallet DEF Has
  <2> QED
    BY <2>1, <2>2, <2>3, WalletKept
<1> QED
  BY <1>1, <1>2

(* Of each airdrop a wallet has one code, unless it was submitted twice at *)
(* the same time, or by the link of another airdrop.                       *)
THEOREM WalletOnce == Spec => []OneCodePerWallet
<1>1. Init => WalletInv
  <2> SUFFICES ASSUME Init PROVE WalletInv
    OBVIOUS
  <2>1. (\A r \in Request : req[r].step = "idle") /\ (\A c \in Code : code[c].wallet = None)
    BY DEF Init, Idle
  <2> QED
    BY <2>1, NameAssumption DEF WalletInv, WalletAt, Asks, Has
<1>2. BaseInv /\ WalletInv => OneCodePerWallet
  <2> SUFFICES ASSUME BaseInv, WalletInv, NEW c \in Code \ stray, NEW d \in Code \ stray,
                      AirdropOf[c] = AirdropOf[d], code[c].wallet = code[d].wallet,
                      code[c].status \in {"bound", "filed"}, code[d].status \in {"bound", "filed"},
                      <<AirdropOf[c], code[c].wallet>> \notin raced
               PROVE  c = d
    BY DEF OneCodePerWallet
  <2>1. PICK a \in Airdrop, w \in Wallet : a = AirdropOf[c] /\ w = code[c].wallet
    BY NameAssumption DEF BaseInv, RowInv
  <2>2. WalletAt(a, w) /\ Has(c, a, w) /\ Has(d, a, w)
    BY <2>1 DEF WalletInv, Has
  <2> QED
    BY <2>2 DEF WalletAt
<1> QED
  BY <1>1, <1>2, BaseInit, BaseStep, WalletStep, PTL DEF Spec


-----------------------------------------------------------------------------
(* What the member of a filed code was told.                               *)

Grow == filed \subseteq filed' /\ unfiled \subseteq unfiled' /\ LettersKept
Backed(c) ==
    \/ \E s \in filed : s.code = c
    \/ \E m \in Msgs : msg[m].code = c /\ Duplicate(c, msg[m].member)

LEMMA SameIsKept ==
    ASSUME msg' = msg \/ \E m \in Msgs : MsgOthers(m) /\ SameLetter(m)
    PROVE  LettersKept
  BY DEF LettersKept, MsgOthers, SameLetter

LEMMA Grows ==
    ASSUME BaseInv, [Next]_vars
    PROVE  Grow
<1>0. TypeOK /\ LetterInv
  BY DEF BaseInv
<1>1. CASE Passing
  BY <1>1, PassingFacts, PassingRest DEF Grow
<1>2. CASE Exit \/ Crash
  BY <1>2, EndingFacts DEF Exit, Crash, tables, Grow
<1>3. CASE Stop \/ Restart \/ UNCHANGED vars
  BY <1>3, SameIsKept DEF Stop, Restart, vars, web, tables, history, Grow
<1>4. CASE (\E c \in Code : Issue(c) \/ DayPasses(c)) \/ verifyCodesRecycle
  BY <1>4, SameIsKept DEF Issue, DayPasses, verifyCodesRecycle, Sweep, history, Grow
<1>5. CASE \E r \in Request : Submit(r)
  BY <1>5, SameIsKept DEF Submit, SubmitSelect, SubmitUpdate, SubmitUpdateFails, SubmitList,
     history, tables, Grow
<1>6. ASSUME NEW m \in Msgs, VerifySelect(m)
      PROVE  Grow
  <2>1. filed' = filed /\ unfiled' = unfiled /\ msg[m].at = "serving"
        /\ (Answer(m) \/ Takes(m))
    BY <1>6 DEF VerifySelect, Takes, web, tables
  <2>2. Takes(m) => msg[m].code \in Code
    BY <1>0 DEF Takes, LetterInv, TypeOK, Messages
  <2>3. MsgOthers(m) /\ SameLetter(m)
    BY <1>0, <2>1, <2>2, AnswerFacts, TakesFacts
  <2> QED
    BY <2>1, <2>3, SameIsKept DEF Grow
<1>7. ASSUME NEW m \in Msgs, Inserts(m)
      PROVE  Grow
  <2>1. (IF Duplicate(msg[m].code, msg[m].member) THEN "zero" ELSE "one") \in {"one", "zero", "nil"}
    OBVIOUS
  <2>2. PICK t \in {"one", "zero", "nil"} : msg' = [msg EXCEPT ![m].at = "update", ![m].ret = t]
    BY <1>7, <2>1 DEF Inserts, VerifyInsert, VerifyInsertLosesAnswer
  <2>3. MsgOthers(m) /\ SameLetter(m)
    BY <1>0, <2>2, InsertedFacts
  <2>4. filed \subseteq filed' /\ unfiled' = unfiled
    BY <1>7 DEF Inserts, VerifyInsert, VerifyInsertLosesAnswer, Insert, history
  <2> QED
    BY <2>3, <2>4, SameIsKept DEF Grow
<1>8. ASSUME NEW m \in Msgs, VerifyInsertFails(m)
      PROVE  Grow
  BY <1>0, <1>8, InsertedFacts, SameIsKept DEF VerifyInsertFails, web, tables, Grow
<1>9. ASSUME NEW m \in Msgs, VerifyUpdate(m) \/ VerifyUpdateFails(m)
      PROVE  Grow
  BY <1>0, <1>9, UpdatedLetters, SameIsKept DEF VerifyUpdate, VerifyUpdateFails, web, tables,
     history, Grow
<1>10. ASSUME NEW m \in Msgs, VerifyUpdatePanics(m)
       PROVE  Grow
  BY <1>10, EndingFacts DEF VerifyUpdatePanics, Grow
<1> QED
  BY <1>1, <1>2, <1>3, <1>4, <1>5, <1>6, <1>7, <1>8, <1>9, <1>10, Steps DEF Update

(* What backs a filed code stays. *)
LEMMA BackedStays ==
    ASSUME BaseInv, Grow, NEW c \in Code, Backed(c)
    PROVE  Backed(c)'
<1>1. \A u : Duplicate(c, u) => Duplicate(c, u)'
  BY DEF Grow, Duplicate
<1>2. CASE \E s \in filed : s.code = c
  BY <1>2 DEF Grow, Backed
<1>3. ASSUME NEW m \in Msgs, msg[m].code = c, Duplicate(c, msg[m].member)
      PROVE  Backed(c)'
  <2>1. PICK u : u = msg[m].member
    OBVIOUS
  <2>2. msg'[m].code = c /\ msg'[m].member = u
    BY <1>3, <2>1 DEF Grow, LettersKept, SameLetter
  <2>3. Duplicate(c, u)'
    BY <1>1, <1>3, <2>1
  <2>4. (Duplicate(c, msg[m].member))'
    BY <2>2, <2>3
  <2> QED
    BY <2>2, <2>4 DEF Backed
<1> QED
  BY <1>2, <1>3 DEF Backed

Told ==
    /\ \A m \in Msgs, c \in Code \ unfiled :
            msg[m].at = "update" /\ msg[m].code = c => Backed(c)
    /\ \A c \in Code \ unfiled : code[c].status = "filed" => Backed(c)

(* A code is newly in an UPDATE, or newly filed, only with what backs it.  *)
LEMMA ToldKept ==
    ASSUME BaseInv, Grow, Told,
           \A m \in Msgs, c \in Code \ unfiled' : msg'[m].at = "update" /\ msg'[m].code = c =>
                Backed(c)' \/ (msg[m].at = "update" /\ msg[m].code = c),
           \A c \in Code \ unfiled' : code'[c].status = "filed" =>
                code[c].status = "filed" \/ \E m \in Msgs : msg[m].at = "update" /\ msg[m].code = c
    PROVE  Told'
<1>1. unfiled \subseteq unfiled'
  BY DEF Grow
<1>2. ASSUME NEW m \in Msgs, NEW c \in Code \ unfiled', msg'[m].at = "update", msg'[m].code = c
      PROVE  Backed(c)'
  <2>1. CASE msg[m].at = "update" /\ msg[m].code = c
    <3>1. Backed(c)
      BY <1>1, <2>1 DEF Told
    <3> QED
      BY <3>1, BackedStays
  <2> QED
    BY <1>2, <2>1
<1>3. ASSUME NEW c \in Code \ unfiled', code'[c].status = "filed"
      PROVE  Backed(c)'
  <2>1. Backed(c)
    BY <1>1, <1>3 DEF Told
  <2> QED
    BY <2>1, BackedStays
<1> QED
  BY <1>2, <1>3 DEF Told

LEMMA SettledNew ==
    ASSUME BaseInv, NEW m \in Msgs, msg[m].at = "update", Settled(m)
    PROVE  \A c \in Code : code'[c].status = "filed" =>
                code[c].status = "filed" \/ (msg[m].at = "update" /\ msg[m].code = c)
<1>1. TypeOK /\ msg[m].code \in Code
  BY DEF BaseInv, LetterInv
<1> QED
  BY <1>1, SettledFacts DEF RowOthers

LEMMA ToldStep == BaseInv /\ Told /\ [Next]_vars => Told'
<1> SUFFICES ASSUME BaseInv, Told, [Next]_vars
             PROVE  /\ \A m \in Msgs, c \in Code \ unfiled' : msg'[m].at = "update" /\ msg'[m].code = c =>
                            Backed(c)' \/ (msg[m].at = "update" /\ msg[m].code = c)
                    /\ \A c \in Code \ unfiled' : code'[c].status = "filed" =>
                            \/ code[c].status = "filed"
                            \/ \E m \in Msgs : msg[m].at = "update" /\ msg[m].code = c
  BY Grows, ToldKept
<1>0. TypeOK /\ LetterInv
  BY DEF BaseInv
<1> DEFINE NoMore == \A m \in Msgs : msg'[m].at = "update" =>
                        msg[m].at = "update" /\ msg'[m].code = msg[m].code
           NoNew == \A c \in Code : code'[c].status = "filed" => code[c].status = "filed"
<1>1. CASE Passing \/ Exit \/ Crash
  <2>1. Shrinks /\ code' = code
    BY <1>1, PassingFacts, PassingRest, EndingFacts DEF Exit, Crash, tables
  <2>2. NoMore /\ NoNew
    BY <2>1 DEF Shrinks, SameLetter
  <2> QED
    BY <2>2
<1>2. CASE Stop \/ Restart \/ UNCHANGED vars
  BY <1>2 DEF Stop, Restart, vars, web, tables
<1>3. CASE \E c \in Code : Issue(c) \/ DayPasses(c)
  <2>1. PICK d \in Code : Issue(d) \/ DayPasses(d)
    BY <1>3
  <2>2. msg' = msg /\ RowOthers(d) /\ (code'[d].status = "filed" => code[d].status = "filed")
    BY <1>0, <2>1, IssueFacts, DayFacts DEF Issue, DayPasses
  <2> QED
    BY <2>2 DEF RowOthers
<1>4. CASE verifyCodesRecycle
  <2>1. msg' = msg /\ NoNew
    BY <1>0, <1>4, SweepFacts
  <2> QED
    BY <2>1
<1>5. CASE \E r \in Request : Submit(r)
  <2>1. PICK r \in Request : Submit(r)
    BY <1>5
  <2>2. msg' = msg
    BY <2>1 DEF Submit, SubmitSelect, SubmitUpdate, SubmitUpdateFails, SubmitList
  <2>3. NoNew
    <3>1. CASE SubmitUpdate(r) /\ code[req[r].code].status = "issued"
      <4>1. /\ RowOthers(req[r].code) /\ code'[req[r].code].status = "bound"
        BY <1>0, <3>1, BindFacts DEF SubmitUpdate, BaseInv, ReqInv
      <4> QED
        BY <4>1 DEF RowOthers
    <3>2. CASE ~(SubmitUpdate(r) /\ code[req[r].code].status = "issued")
      BY <2>1, <3>2 DEF Submit, SubmitSelect, SubmitUpdate, SubmitUpdateFails, SubmitList, tables
    <3> QED
      BY <3>1, <3>2
  <2> QED
    BY <2>2, <2>3
<1>6. ASSUME NEW m \in Msgs, VerifySelect(m)
      PROVE  NoMore /\ code' = code
  <2>1. code' = code /\ (Answer(m) \/ Takes(m))
    BY <1>6 DEF VerifySelect, Takes, web, tables
  <2>2. Takes(m) => msg[m].code \in Code
    BY <1>0 DEF Takes, LetterInv, TypeOK, Messages
  <2>3. MsgOthers(m) /\ msg'[m].at \in {"done", "insert"}
    BY <1>0, <2>1, <2>2, AnswerFacts, TakesFacts
  <2> QED
    BY <2>1, <2>3 DEF MsgOthers
<1>7. ASSUME NEW m \in Msgs, Inserts(m)
      PROVE  /\ code' = code
             /\ \A n \in Msgs, c \in Code : msg'[n].at = "update" /\ msg'[n].code = c =>
                    Backed(c)' \/ (msg[n].at = "update" /\ msg[n].code = c)
  <2>1. (IF Duplicate(msg[m].code, msg[m].member) THEN "zero" ELSE "one") \in {"one", "zero", "nil"}
    OBVIOUS
  <2>2. PICK t \in {"one", "zero", "nil"} :
            msg' = [msg EXCEPT ![m].at = "update", ![m].ret = t] /\ code' = code
    BY <1>7, <2>1 DEF Inserts, VerifyInsert, VerifyInsertLosesAnswer
  <2>5. msg[m].at = "insert" /\ Insert(m)
    BY <1>7 DEF Inserts, VerifyInsert, VerifyInsertLosesAnswer
  <2>3. MsgOthers(m) /\ SameLetter(m)
    BY <1>0, <2>2, InsertedFacts
  <2>4. ASSUME NEW c \in Code, msg'[m].code = c
        PROVE  Backed(c)'
    <3>1. PICK u : u = msg[m].member /\ u = msg'[m].member /\ msg[m].code = c
      BY <2>3, <2>4 DEF SameLetter
    <3>2. CASE Duplicate(c, u)
      <4>1. Duplicate(c, u)'
        BY <2>5, <3>1, <3>2 DEF Insert, Duplicate
      <4>2. (Duplicate(c, msg[m].member))'
        BY <3>1, <4>1
      <4> QED
        BY <2>4, <4>2 DEF Backed
    <3>3. CASE ~Duplicate(c, u)
      <4>1. \E s \in filed' : s.code = c
        BY <2>5, <3>1, <3>3, InsertFiles
      <4> QED
        BY <4>1 DEF Backed
    <3> QED
      BY <3>2, <3>3
  <2> QED
    BY <2>2, <2>3, <2>4 DEF MsgOthers
<1>8. ASSUME NEW m \in Msgs, VerifyInsertFails(m)
      PROVE  /\ code' = code
             /\ \A n \in Msgs, c \in Code \ unfiled' : msg'[n].at = "update" /\ msg'[n].code = c =>
                    msg[n].at = "update" /\ msg[n].code = c
  <2>1. MsgOthers(m) /\ SameLetter(m)
    BY <1>0, <1>8, InsertedFacts DEF VerifyInsertFails
  <2>2. code' = code /\ msg[m].code \in unfiled'
    BY <1>8 DEF VerifyInsertFails, web, tables
  <2> QED
    BY <2>1, <2>2 DEF MsgOthers, SameLetter
<1>9. ASSUME NEW m \in Msgs, Update(m)
      PROVE  /\ NoMore
             /\ \A c \in Code : code'[c].status = "filed" =>
                    code[c].status = "filed" \/ (msg[m].at = "update" /\ msg[m].code = c)
  <2>1. CASE VerifyUpdatePanics(m)
    <3>1. NoMore
      BY <2>1, EndingFacts DEF VerifyUpdatePanics
    <3> QED
      BY <2>1, <3>1, SettledNew DEF VerifyUpdatePanics
  <2>2. CASE VerifyUpdate(m) \/ VerifyUpdateFails(m)
    <3>1. msg[m].at = "update" /\ (Move(m, "count") \/ Answer(m)) /\ (Settled(m) \/ code' = code)
      BY <2>2 DEF VerifyUpdate, VerifyUpdateFails, web, tables
    <3>2. MsgOthers(m) /\ msg'[m].at \in {"count", "done"}
      BY <3>1, UpdatedLetters
    <3>3. NoMore
      BY <3>2 DEF MsgOthers
    <3> QED
      BY <3>1, <3>3, SettledNew
  <2> QED
    BY <1>9, <2>1, <2>2 DEF Update
<1> QED
  BY <1>1, <1>2, <1>3, <1>4, <1>5, <1>6, <1>7, <1>8, <1>9, Steps

(* A member is told that a code is in the pool only if it is, or if the    *)
(* submission was ignored because its sender had one; the failed INSERT is *)
(* the exception.                                                          *)
THEOREM ToldTheTruth == Spec => []FiledIsTrue
<1>1. Init => Told
  BY DEF Init, Told
<1>2. Told => FiledIsTrue
  BY DEF Told, Backed, FiledIsTrue
<1> QED
  BY <1>1, <1>2, BaseInit, BaseStep, ToldStep, PTL DEF Spec

-----------------------------------------------------------------------------
(* Stopping. *)

LEMMA HandledIs ==
    /\ Handled = {m \in Msgs : msg[m].at = "serving" \/ Busy(m)}
    /\ Handled' = {m \in Msgs : msg'[m].at = "serving" \/ Busy(m)'}
  BY DEF Handled, Working, At, Busy

(* Nothing new is in hand, or what is new was handed over late.            *)
LEMMA LateKept ==
    ASSUME StopCutsOnlyLate, phase' = phase \/ phase' # "clearing",
           \A m \in Msgs : msg'[m].at = "serving" \/ Busy(m)' =>
                (phase = "clearing" /\ msg'[m].late) \/ phase # "clearing"
                \/ ((msg[m].at = "serving" \/ Busy(m)) /\ msg'[m].late = msg[m].late)
    PROVE  StopCutsOnlyLate'
  BY HandledIs DEF StopCutsOnlyLate

LEMMA LateStep == BaseInv /\ StopCutsOnlyLate /\ [Next]_vars => StopCutsOnlyLate'
<1> SUFFICES ASSUME BaseInv, StopCutsOnlyLate, [Next]_vars
             PROVE  StopCutsOnlyLate'
  OBVIOUS
<1>0. TypeOK /\ LetterInv
  BY DEF BaseInv
<1> DEFINE InHandNow(m) == msg[m].at = "serving" \/ Busy(m)
           Stays(m) == InHandNow(m)' => InHandNow(m) /\ msg'[m].late = msg[m].late
<1>1. ASSUME \A m \in Msgs : Stays(m), phase' = phase \/ phase' # "clearing"
      PROVE  StopCutsOnlyLate'
  BY <1>1, LateKept
<1>2. ASSUME NEW m \in Msgs, MsgOthers(m), Stays(m), phase' = phase
      PROVE  StopCutsOnlyLate'
  BY <1>1, <1>2 DEF MsgOthers, Busy
<1>3. ASSUME NEW m \in Msgs, NEW c \in Code \union {None}, NEW u \in Member, NEW g \in BOOLEAN,
             Post(m, c, u, g)
      PROVE  StopCutsOnlyLate'
  <2>1. MsgOthers(m) /\ msg'[m].at = "chat"
    BY <1>0, <1>3, PostFacts
  <2>2. phase' = phase
    BY <1>3 DEF Post
  <2> QED
    BY <1>2, <2>1, <2>2 DEF Busy
<1>4. ASSUME NEW m \in Msgs, Fetch(m) \/ MessageConsumer(m)
      PROVE  StopCutsOnlyLate'
  <2>1. phase' = phase /\ (Move(m, "channel") \/ Move(m, "buffer") \/ Answer(m))
    BY <1>4 DEF Fetch, MessageConsumer
  <2>2. MsgOthers(m) /\ msg'[m].at \in {"channel", "buffer", "done"}
    BY <1>0, <2>1, MoveFacts, AnswerFacts
  <2> QED
    BY <1>2, <2>1, <2>2 DEF Busy
<1>5. ASSUME NEW m \in Msgs, Serve(m)
      PROVE  StopCutsOnlyLate'
  <2>1. MsgOthers(m) /\ msg'[m].late = (phase = "clearing") /\ phase' = phase
    BY <1>0, <1>5, ServeFacts DEF Serve
  <2> QED
    BY <2>1, HandledIs DEF StopCutsOnlyLate, MsgOthers, Busy
<1>6. ASSUME NEW m \in Msgs, VerifySelectFails(m) \/ VerifyCount(m) \/ VerifyUpdate(m) \/ VerifyUpdateFails(m)
      PROVE  StopCutsOnlyLate'
  <2>1. phase' = phase /\ (Answer(m) \/ (Move(m, "count") /\ msg[m].at = "update"))
    BY <1>6 DEF VerifySelectFails, VerifyCount, VerifyUpdate, VerifyUpdateFails
  <2>2. MsgOthers(m) /\ Stays(m)
    BY <1>0, <2>1, AnswerFacts, MoveFacts DEF Busy
  <2> QED
    BY <1>2, <2>1, <2>2
<1>7. ASSUME NEW m \in Msgs, VerifySelect(m)
      PROVE  StopCutsOnlyLate'
  <2>1. phase' = phase /\ msg[m].at = "serving" /\ (Answer(m) \/ Takes(m))
    BY <1>7 DEF VerifySelect, Takes
  <2>2. Takes(m) => msg[m].code \in Code
    BY <1>0 DEF Takes, LetterInv, TypeOK, Messages
  <2>3. MsgOthers(m) /\ (msg'[m].at = "done" \/ msg'[m].late = msg[m].late)
    BY <1>0, <2>1, <2>2, AnswerFacts, TakesFacts
  <2>4. Stays(m)
    BY <2>1, <2>3 DEF Busy
  <2> QED
    BY <1>2, <2>1, <2>3, <2>4
<1>8. ASSUME NEW m \in Msgs, Inserts(m) \/ VerifyInsertFails(m)
      PROVE  StopCutsOnlyLate'
  <2>1. PICK t \in {"one", "zero", "nil"} : msg' = [msg EXCEPT ![m].at = "update", ![m].ret = t]
    BY <1>8 DEF Inserts, VerifyInsert, VerifyInsertLosesAnswer, VerifyInsertFails
  <2>2. phase' = phase /\ msg[m].at = "insert"
    BY <1>8 DEF Inserts, VerifyInsert, VerifyInsertLosesAnswer, VerifyInsertFails
  <2>3. MsgOthers(m) /\ msg'[m].late = msg[m].late
    BY <1>0, <2>1, InsertedFacts
  <2>4. Stays(m)
    BY <2>2, <2>3 DEF Busy
  <2> QED
    BY <1>2, <2>2, <2>3, <2>4
<1>9. CASE Confirm
  BY <1>0, <1>1, <1>9, ConfirmFacts DEF Confirm, Busy
<1>10. CASE StopWait
  <2>1. Handled' = {}
    BY <1>0, <1>10, StopWaitFacts, HandledIs DEF StopWait, Busy
  <2> QED
    BY <2>1 DEF StopCutsOnlyLate
<1>11. CASE Exit \/ Crash \/ \E m \in Msgs : VerifyUpdatePanics(m)
  BY <1>11 DEF Exit, Crash, VerifyUpdatePanics, Ends, StopCutsOnlyLate
<1>12. CASE Stop \/ Restart
  BY <1>12 DEF Stop, Restart, StopCutsOnlyLate
<1>13. CASE msg' = msg /\ phase' = phase
  BY <1>1, <1>13 DEF Busy
<1>14. (\E c \in Code : Issue(c) \/ DayPasses(c)) \/ verifyCodesRecycle
       \/ (\E r \in Request : Submit(r)) \/ UNCHANGED vars => msg' = msg /\ phase' = phase
  BY DEF Issue, DayPasses, verifyCodesRecycle, Sweep, Submit, SubmitSelect, SubmitUpdate,
     SubmitUpdateFails, SubmitList, vars
<1> QED
  BY <1>3, <1>4, <1>5, <1>6, <1>7, <1>8, <1>9, <1>10, <1>11, <1>12, <1>13, <1>14, Steps
     DEF Passing, Update

(* When Stop goes on, a worker in the middle of a message got it late.     *)
THEOREM StopCutsLate == Spec => []StopCutsOnlyLate
<1>1. Init => StopCutsOnlyLate
  BY DEF Init, StopCutsOnlyLate
<1> QED
  BY <1>1, BaseInit, BaseStep, LateStep, PTL DEF Spec

-----------------------------------------------------------------------------
(* The statistics.                                                         *)

(* Only a worker past the INSERT has its answer, and "one" when it counts; *)
(* a failed INSERT and a stop left their mark; numbers of rows are fresh.  *)
RetInv ==
    /\ \A m \in Msgs :
        /\ msg[m].ret # "none" => msg[m].at \in {"update", "count"}
        /\ msg[m].at = "count" => msg[m].ret = "one"
        /\ msg[m].ret = "nil" => count["fault"] > 0
    /\ phase \in {"waiting", "clearing"} => count["end"] > 0
    /\ \A s \in filed : s.id <= Cardinality(filed)

CountInv == RetInv /\ CountedRight

(* An answer of the database stays with its worker or is forgotten.        *)
AnswerKept(m) ==
    \/ msg'[m].ret = "none" /\ msg'[m].at # "count"
    \/ /\ msg'[m].ret = msg[m].ret
       /\ msg'[m].at = "count" => msg[m].ret = "one"
       /\ msg[m].at \in {"update", "count"} => msg'[m].at \in {"update", "count"}

Counts(n) == count["fault"] <= n["fault"] /\ count["end"] <= n["end"]

LEMMA HandFinite ==
    BaseInv => /\ IsFiniteSet(InHand) /\ Cardinality(InHand) \in Nat
               /\ IsFiniteSet(InHand') /\ Cardinality(InHand') \in Nat
               /\ Cardinality(filed) \in Nat
<1> SUFFICES ASSUME BaseInv PROVE /\ IsFiniteSet(InHand) /\ Cardinality(InHand) \in Nat
                                  /\ IsFiniteSet(InHand') /\ Cardinality(InHand') \in Nat
                                  /\ Cardinality(filed) \in Nat
  OBVIOUS
<1>1. IsFiniteSet(Msgs)
  BY SizeAssumption, FS_Interval DEF Msgs
<1>2. InHand \in SUBSET Msgs /\ InHand' \in SUBSET Msgs
  BY DEF InHand
<1>3. IsFiniteSet(filed)
  BY DEF BaseInv
<1> QED
  BY <1>1, <1>2, <1>3, FS_Subset, FS_CardinalityType

LEMMA CountingGrows ==
    ASSUME TypeOK, NEW what \in {"fault", "end"}, Counting(what)
    PROVE  Counts(count') /\ count'[what] > 0
  BY DEF TypeOK, Counting, Counts

LEMMA CountGrows == BaseInv /\ [Next]_vars => Counts(count')
<1> SUFFICES ASSUME BaseInv, [Next]_vars PROVE Counts(count')
  OBVIOUS
<1>1. TypeOK
  BY DEF BaseInv
<1>2. count' = count \/ Counting("fault") \/ Counting("end")
  BY DEF Next, vars, Issue, DayPasses, Submit, SubmitSelect, SubmitUpdate, SubmitUpdateFails, SubmitList,
         verifyCodesRecycle, Sweep, Post, Deliver, Fetch, MessageConsumer, Serve, VerifyCodeHandler,
         VerifySelect, VerifySelectFails, VerifyInsert, VerifyInsertLosesAnswer, VerifyInsertFails,
         VerifyUpdate, VerifyUpdatePanics, VerifyUpdateFails, VerifyCount, Confirm, Stop, StopWait, Exit, Crash,
         Restart, history
<1> QED
  BY <1>1, <1>2, CountingGrows DEF TypeOK, Counts

(* Nobody files or counts, and an answer is forgotten only with a mark.    *)
LEMMA CountKept ==
    ASSUME BaseInv, CountInv, Counts(count'), count' \in [{"fault", "end"} -> Nat],
           \A m \in Msgs : AnswerKept(m), filed' = filed, counted' = counted,
           \/ \A m \in Msgs : msg[m].ret = "one" => msg'[m].ret = "one"
           \/ count'["fault"] > 0 \/ count'["end"] > 0,
           phase' = phase \/ phase' \notin {"waiting", "clearing"} \/ count'["end"] > 0
    PROVE  CountInv'
<1> DEFINE clean == count'["fault"] + count'["end"] = 0
<1>1. /\ count \in [{"fault", "end"} -> Nat] /\ counted \in Nat
      /\ msg \in [Msgs -> Messages]
  BY DEF BaseInv, TypeOK
<1>2. RetInv'
  <2>1. ASSUME NEW m \in Msgs
        PROVE  /\ msg'[m].ret # "none" => msg'[m].at \in {"update", "count"}
               /\ msg'[m].at = "count" => msg'[m].ret = "one"
               /\ msg'[m].ret = "nil" => count'["fault"] > 0
    <3>1. AnswerKept(m)
      OBVIOUS
    <3> QED
      BY <1>1, <3>1 DEF AnswerKept, CountInv, RetInv, Counts
  <2>2. phase' \in {"waiting", "clearing"} => count'["end"] > 0
    BY <1>1 DEF CountInv, RetInv, Counts
  <2> QED
    BY <2>1, <2>2 DEF CountInv, RetInv
<1>3. InHand' \subseteq InHand
  BY DEF InHand, AnswerKept
<1>4. /\ IsFiniteSet(InHand) /\ Cardinality(InHand) \in Nat /\ Cardinality(InHand') \in Nat
      /\ Cardinality(filed) \in Nat
  BY HandFinite
<1>5. Cardinality(InHand') <= Cardinality(InHand)
  BY <1>3, <1>4, FS_Subset
<1>6. counted' + Cardinality(InHand') <= Cardinality(filed')
  BY <1>1, <1>4, <1>5 DEF CountInv, CountedRight
<1>7. ASSUME clean
      PROVE  counted' + Cardinality(InHand') = Cardinality(filed')
  <2>1. count["fault"] + count["end"] = 0 /\ count'["fault"] = 0 /\ count'["end"] = 0
    BY <1>1, <1>7 DEF Counts
  <2>2. InHand' = InHand
    BY <1>3, <2>1 DEF InHand
  <2> QED
    BY <2>1, <2>2 DEF CountInv, CountedRight
<1> QED
  BY <1>2, <1>6, <1>7 DEF CountInv, CountedRight

(* The INSERT of a row brings one more answer "one". *)
LEMMA InsertCounts ==
    ASSUME BaseInv, CountInv, NEW m \in Msgs, VerifyInsert(m)
    PROVE  CountInv'
<1>1. TypeOK /\ IsFiniteSet(filed) /\ msg[m].at = "insert" /\ msg[m].ret = "none"
  BY DEF BaseInv, CountInv, RetInv, VerifyInsert
<1>2. /\ count' = count /\ phase' = phase /\ counted' = counted
  BY DEF VerifyInsert, history
<1>3. CASE Duplicate(msg[m].code, msg[m].member)
  <2>1. filed' = filed /\ msg' = [msg EXCEPT ![m].at = "update", ![m].ret = "zero"]
    BY <1>3 DEF VerifyInsert, Insert
  <2>2. MsgOthers(m) /\ msg'[m].at = "update" /\ msg'[m].ret = "zero"
    BY <1>1, <2>1, InsertedFacts
  <2>3. RetInv'
    BY <1>1, <1>2, <2>1, <2>2 DEF CountInv, RetInv, MsgOthers
  <2>4. InHand' = InHand
    BY <1>1, <2>2 DEF InHand, MsgOthers
  <2> QED
    BY <1>2, <2>1, <2>3, <2>4 DEF CountInv, CountedRight
<1>4. CASE ~Duplicate(msg[m].code, msg[m].member)
  <2> DEFINE row == [id |-> Cardinality(filed) + 1, code |-> msg[m].code,
                     wallet |-> msg[m].wallet, member |-> msg[m].member]
  <2>1. filed' = filed \union {row} /\ msg' = [msg EXCEPT ![m].at = "update", ![m].ret = "one"]
    BY <1>4 DEF VerifyInsert, Insert
  <2>2. MsgOthers(m) /\ msg'[m].at = "update" /\ msg'[m].ret = "one"
    BY <1>1, <2>1, InsertedFacts
  <2>3. /\ IsFiniteSet(InHand) /\ Cardinality(InHand) \in Nat /\ Cardinality(filed) \in Nat
    BY HandFinite
  <2>4. row \notin filed
    <3>1. row.id = Cardinality(filed) + 1
      OBVIOUS
    <3> QED
      BY <2>3, <3>1 DEF CountInv, RetInv
  <2>5. Cardinality(filed') = Cardinality(filed) + 1
    BY <1>1, <2>1, <2>4, FS_AddElement
  <2>6. InHand' = InHand \union {m} /\ m \notin InHand
    BY <1>1, <2>2 DEF InHand, MsgOthers
  <2>7. Cardinality(InHand') = Cardinality(InHand) + 1
    BY <2>3, <2>6, FS_AddElement
  <2>8. \A s \in filed' : s.id <= Cardinality(filed')
    <3>1. \A s \in filed : s.id \in Nat /\ s.id <= Cardinality(filed)
      BY <1>1 DEF TypeOK, CountInv, RetInv
    <3>2. row.id = Cardinality(filed) + 1
      OBVIOUS
    <3> HIDE DEF row
    <3> QED
      BY <2>1, <2>3, <2>5, <3>1, <3>2
  <2>9. RetInv'
    BY <1>1, <1>2, <2>2, <2>8 DEF CountInv, RetInv, MsgOthers
  <2>10. counted \in Nat /\ count["fault"] \in Nat /\ count["end"] \in Nat
    BY <1>1 DEF TypeOK
  <2> QED
    BY <1>2, <2>3, <2>5, <2>7, <2>9, <2>10 DEF CountInv, CountedRight
<1> QED
  BY <1>3, <1>4

(* One whose answer is lost may bring a row, which is not counted. *)
LEMMA LostCounts ==
    ASSUME BaseInv, CountInv, NEW m \in Msgs, VerifyInsertLosesAnswer(m), BaseInv'
    PROVE  CountInv'
<1>1. /\ TypeOK /\ IsFiniteSet(filed) /\ msg[m].at = "insert" /\ msg[m].ret = "none"
      /\ Counting("fault") /\ phase' = phase /\ counted' = counted /\ Insert(m)
      /\ msg' = [msg EXCEPT ![m].at = "update", ![m].ret = "nil"]
  BY DEF BaseInv, CountInv, RetInv, VerifyInsertLosesAnswer
<1>2. MsgOthers(m) /\ msg'[m].at = "update" /\ msg'[m].ret = "nil"
  BY <1>1, InsertedFacts
<1>3. Counts(count') /\ count'["fault"] > 0 /\ count' \in [{"fault", "end"} -> Nat]
  BY <1>1, CountingGrows DEF BaseInv, TypeOK
<1>4. InHand' = InHand
  BY <1>1, <1>2 DEF InHand, MsgOthers
<1>5. /\ Cardinality(InHand) \in Nat /\ Cardinality(filed) \in Nat /\ IsFiniteSet(filed')
      /\ Cardinality(filed') \in Nat /\ counted \in Nat
  BY HandFinite, FS_CardinalityType DEF BaseInv, TypeOK
<1>6. /\ Cardinality(filed) <= Cardinality(filed')
      /\ \A s \in filed' : s.id <= Cardinality(filed')
  <2>1. \A s \in filed : s.id \in Nat /\ s.id <= Cardinality(filed)
    BY <1>1 DEF TypeOK, CountInv, RetInv
  <2>2. CASE filed' = filed
    BY <1>5, <2>1, <2>2
  <2>3. CASE filed' # filed
    <3> DEFINE row == [id |-> Cardinality(filed) + 1, code |-> msg[m].code,
                       wallet |-> msg[m].wallet, member |-> msg[m].member]
    <3>1. filed' = filed \union {row}
      BY <1>1, <2>3 DEF Insert
    <3>2. row.id = Cardinality(filed) + 1
      OBVIOUS
    <3> HIDE DEF row
    <3>3. row \notin filed
      <4>1. ~(row.id <= Cardinality(filed))
        BY <1>5, <3>2
      <4> QED
        BY <2>1, <4>1
    <3>4. Cardinality(filed') = Cardinality(filed) + 1
      BY <1>1, <3>1, <3>3, FS_AddElement
    <3>5. \A s \in filed : s.id <= Cardinality(filed')
      BY <1>5, <2>1, <3>4
    <3>6. row.id <= Cardinality(filed')
      BY <1>5, <3>2, <3>4
    <3>7. \A s \in filed' : s.id <= Cardinality(filed')
      BY <3>1, <3>5, <3>6
    <3>8. Cardinality(filed) <= Cardinality(filed')
      BY <1>5, <3>4
    <3> QED
      BY <3>7, <3>8
  <2> QED
    BY <2>2, <2>3
<1>7. RetInv'
  BY <1>1, <1>2, <1>3, <1>6 DEF CountInv, RetInv, MsgOthers, Counts, TypeOK
<1>8. count'["fault"] + count'["end"] # 0
  BY <1>3
<1> QED
  BY <1>1, <1>4, <1>5, <1>6, <1>7, <1>8 DEF CountInv, CountedRight

(* The tracker is told of the submission the worker had in hand.           *)
LEMMA TellCounts ==
    ASSUME BaseInv, CountInv, NEW m \in Msgs, VerifyCount(m)
    PROVE  CountInv'
<1>1. TypeOK /\ msg[m].at = "count" /\ msg[m].ret = "one"
  BY DEF BaseInv, CountInv, RetInv, VerifyCount
<1>2. filed' = filed /\ counted' = counted + 1 /\ count' = count /\ phase' = phase /\ Answer(m)
  BY DEF VerifyCount, tables, history
<1>3. MsgOthers(m) /\ msg'[m].at = "done" /\ msg'[m].ret = "none"
  BY <1>1, <1>2, AnswerFacts
<1>4. RetInv'
  BY <1>2, <1>3 DEF CountInv, RetInv, MsgOthers
<1>5. InHand' = InHand \ {m} /\ m \in InHand
  BY <1>1, <1>3 DEF InHand, MsgOthers
<1>6. IsFiniteSet(InHand) /\ Cardinality(InHand) \in Nat /\ Cardinality(filed) \in Nat
  BY HandFinite
<1>7. Cardinality(InHand') = Cardinality(InHand) - 1
  BY <1>5, <1>6, FS_RemoveElement
<1>8. counted \in Nat /\ count["fault"] \in Nat /\ count["end"] \in Nat
  BY <1>1 DEF TypeOK
<1> QED
  BY <1>2, <1>4, <1>6, <1>7, <1>8 DEF CountInv, CountedRight

LEMMA CountStep == BaseInv /\ CountInv /\ [Next]_vars => CountInv'
<1> SUFFICES ASSUME BaseInv, CountInv, [Next]_vars
             PROVE  CountInv'
  OBVIOUS
<1>0. TypeOK /\ LetterInv /\ Counts(count') /\ count' \in [{"fault", "end"} -> Nat]
  BY BaseStep, CountGrows DEF BaseInv, TypeOK
<1> DEFINE Safe == /\ filed' = filed /\ counted' = counted
                   /\ phase' = phase \/ phase' \notin {"waiting", "clearing"} \/ count'["end"] > 0
           Same(m) == AnswerKept(m) /\ (msg[m].ret = "one" => msg'[m].ret = "one")
           Marked == count'["fault"] > 0 \/ count'["end"] > 0
<1>1. ASSUME NEW m \in Msgs, MsgOthers(m), Same(m), Safe
      PROVE  CountInv'
  <2>1. \A n \in Msgs : Same(n)
    BY <1>1 DEF MsgOthers, AnswerKept, CountInv, RetInv
  <2> QED
    BY <1>0, <1>1, <2>1, CountKept
<1>2. ASSUME NEW m \in Msgs, MsgOthers(m), AnswerKept(m), Marked, Safe
      PROVE  CountInv'
  <2>1. \A n \in Msgs : AnswerKept(n)
    BY <1>2 DEF MsgOthers, AnswerKept, CountInv, RetInv
  <2> QED
    BY <1>0, <1>2, <2>1, CountKept
<1>3. ASSUME NEW m \in Msgs, NEW c \in Code \union {None}, NEW u \in Member, NEW g \in BOOLEAN,
             Post(m, c, u, g)
      PROVE  CountInv'
  <2>1. MsgOthers(m) /\ msg'[m].at = "chat" /\ msg'[m].ret = msg[m].ret /\ msg[m].at = "unsent"
    BY <1>0, <1>3, PostFacts DEF Post
  <2> QED
    BY <1>1, <1>3, <2>1 DEF Post, web, tables, AnswerKept
<1>4. ASSUME NEW m \in Msgs, Fetch(m) \/ MessageConsumer(m) \/ Serve(m) \/ VerifySelect(m) \/ VerifySelectFails(m)
      PROVE  CountInv'
  <2>1. /\ msg[m].at \in {"chat", "channel", "buffer", "serving"}
        /\ Move(m, "channel") \/ Move(m, "buffer") \/ Answer(m) \/ Serve(m) \/ Takes(m)
    BY <1>4 DEF Fetch, MessageConsumer, Serve, VerifySelect, VerifySelectFails, First, At, Takes
  <2>2. Takes(m) => msg[m].code \in Code
    BY <1>0 DEF Takes, LetterInv, TypeOK, Messages
  <2>3. /\ MsgOthers(m) /\ msg'[m].at \in {"channel", "buffer", "serving", "insert", "done"}
        /\ msg'[m].ret = msg[m].ret \/ msg'[m].ret = "none"
    BY <1>0, <2>1, <2>2, MoveFacts, AnswerFacts, ServeFacts, TakesFacts
  <2>4. Same(m)
    BY <2>1, <2>3 DEF AnswerKept, CountInv, RetInv
  <2>5. Safe
    BY <1>4 DEF Fetch, MessageConsumer, Serve, VerifySelect, VerifySelectFails, web, tables
  <2> QED
    BY <1>1, <2>3, <2>4, <2>5
<1>5. ASSUME NEW m \in Msgs, VerifyInsertFails(m)
      PROVE  CountInv'
  <2>1. /\ msg[m].at = "insert" /\ Counting("fault") /\ filed' = filed /\ counted' = counted
        /\ phase' = phase /\ msg' = [msg EXCEPT ![m].at = "update", ![m].ret = "nil"]
    BY <1>5 DEF VerifyInsertFails, web, tables
  <2>2. MsgOthers(m) /\ msg'[m].at = "update" /\ msg'[m].ret = "nil" /\ count'["fault"] > 0
    BY <1>0, <2>1, InsertedFacts, CountingGrows
  <2>3. msg[m].ret = "none"
    BY <2>1 DEF CountInv, RetInv
  <2>4. RetInv'
    BY <1>0, <2>1, <2>2 DEF CountInv, RetInv, MsgOthers, Counts, TypeOK
  <2>5. InHand' = InHand
    BY <2>2, <2>3 DEF InHand, MsgOthers
  <2>6. count'["fault"] + count'["end"] # 0
    BY <1>0, <2>2
  <2> QED
    BY <2>1, <2>4, <2>5, <2>6 DEF CountInv, CountedRight
<1>6. ASSUME NEW m \in Msgs, VerifyUpdate(m)
      PROVE  CountInv'
  <2>1. /\ Safe /\ msg[m].at = "update"
        /\ IF msg[m].ret = "one" THEN Move(m, "count") ELSE Answer(m)
    BY <1>6 DEF VerifyUpdate, history
  <2>2. MsgOthers(m) /\ Same(m)
    BY <1>0, <2>1, MoveFacts, AnswerFacts DEF AnswerKept
  <2> QED
    BY <1>1, <2>1, <2>2
<1>7. ASSUME NEW m \in Msgs, VerifyUpdateFails(m)
      PROVE  CountInv'
  <2>1. Safe /\ Answer(m) /\ Marked
    BY <1>0, <1>7, CountingGrows DEF VerifyUpdateFails, web, tables
  <2>2. MsgOthers(m) /\ AnswerKept(m)
    BY <1>0, <2>1, AnswerFacts DEF AnswerKept
  <2> QED
    BY <1>2, <2>1, <2>2
<1>8. CASE Ends /\ (Exit \/ Crash \/ \E m \in Msgs : VerifyUpdatePanics(m))
  <2>1. Safe
    BY <1>8 DEF Exit, Crash, VerifyUpdatePanics, Ends, tables
  <2>2. Marked
    <3>1. CASE Exit
      BY <1>0, <3>1 DEF Exit, CountInv, RetInv
    <3>2. CASE Crash
      BY <1>0, <3>2, CountingGrows DEF Crash
    <3>3. CASE \E m \in Msgs : VerifyUpdatePanics(m)
      BY <1>0, <3>3 DEF VerifyUpdatePanics, CountInv, RetInv
    <3> QED
      BY <1>8, <3>1, <3>2, <3>3
  <2>3. \A m \in Msgs : AnswerKept(m)
    <3>1. \A m \in Msgs : /\ msg'[m].at \in {"unsent", "chat", "done", "lost"}
                          /\ msg'[m] = msg[m] \/ msg'[m].ret = "none"
      BY <1>0, <1>8, EndsFacts
    <3>2. \A m \in Msgs : msg'[m] = msg[m] => msg'[m].ret = "none"
      BY <3>1 DEF CountInv, RetInv
    <3> QED
      BY <3>1, <3>2 DEF AnswerKept
  <2> QED
    BY <1>0, <2>1, <2>2, <2>3, CountKept
<1>9. CASE Confirm \/ StopWait
  <2>1. \A m \in Msgs : /\ msg'[m].ret = msg[m].ret
                        /\ msg'[m].at = msg[m].at \/ (msg[m].at = "channel" /\ msg'[m].at = "lost")
    BY <1>0, <1>9, ConfirmFacts, StopWaitFacts
  <2>2. \A m \in Msgs : Same(m)
    BY <2>1 DEF AnswerKept, CountInv, RetInv
  <2>3. Safe
    BY <1>0, <1>9 DEF Confirm, StopWait, web, tables, history, CountInv, RetInv
  <2> QED
    BY <1>0, <2>2, <2>3, CountKept
<1>10. CASE msg' = msg /\ Safe
  <2>1. \A m \in Msgs : Same(m)
    BY <1>10 DEF AnswerKept, CountInv, RetInv
  <2> QED
    BY <1>0, <1>10, <2>1, CountKept
<1>11. CASE Stop \/ Restart
  BY <1>0, <1>10, <1>11, CountingGrows DEF Stop, Restart, web, tables
<1>12. (\E c \in Code : Issue(c) \/ DayPasses(c)) \/ verifyCodesRecycle
       \/ (\E r \in Request : Submit(r)) \/ UNCHANGED vars => msg' = msg /\ Safe
  BY DEF Issue, DayPasses, verifyCodesRecycle, Sweep, Submit, SubmitSelect, SubmitUpdate,
     SubmitUpdateFails, SubmitList, vars, tables
<1>13. Exit \/ Crash \/ (\E m \in Msgs : VerifyUpdatePanics(m)) => Ends
  BY DEF Exit, Crash, VerifyUpdatePanics
<1>14. ASSUME NEW m \in Msgs, VerifyInsertLosesAnswer(m)
       PROVE  CountInv'
  BY <1>14, BaseStep, LostCounts
<1> QED
  BY <1>3, <1>4, <1>5, <1>6, <1>7, <1>8, <1>9, <1>10, <1>11, <1>12, <1>13, <1>14, InsertCounts,
     TellCounts, Steps DEF Passing, Inserts, Update

(* The tracker is told of no submission that is not in the table, and      *)
(* misses one only after a fault or an end of the process.                 *)
THEOREM CountsTheFiled == Spec => []CountedRight
<1>1. Init => CountInv
  <2> SUFFICES ASSUME Init PROVE CountInv
    OBVIOUS
  <2>1. InHand = {} /\ filed = {} /\ counted = 0
    BY DEF Init, InHand
  <2>2. RetInv
    BY DEF Init, RetInv
  <2> QED
    BY <2>1, <2>2, FS_EmptySet DEF CountInv, CountedRight
<1>2. CountInv => CountedRight
  BY DEF CountInv
<1> QED
  BY <1>1, <1>2, BaseInit, BaseStep, CountStep, PTL DEF Spec
=============================================================================
