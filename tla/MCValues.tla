------------------------------ MODULE MCValues ------------------------------
(***************************************************************************)
(* The values the system computes and people copy, for TLC: how a red      *)
(* packet is cut into slots, links, verification codes, and the tokens of  *)
(* a login.  The four have no state in common: Init chooses one, which     *)
(* then runs alone while the others rest.                                  *)
(***************************************************************************)
EXTENDS PacketSplit, TLC

CONSTANTS Byte, Cap, Spare, BlockSize, Messages,
          Base, MaxLen, DefaultLen, Bad, Rows, Typos,
          User, Phoneless, App, Timeout, MaxRefresh, Window, MaxTime, MaxKeys, MaxTokens

VARIABLES
    part,                                                      \* what runs
    msg, codecPc, buf, w, text, whole, cut, r, at, got,        \* of BinaryCodec
    tokenPc, rows, code, typed, error, number,                 \* of TokenCode
    now, tokens, wx, login, made                               \* of Session

codecVars == <<msg, codecPc, buf, w, text, whole, cut, r, at, got>>
tokenVars == <<tokenPc, rows, code, typed, error, number>>
sessionVars == <<now, tokens, wx, login, made>>
allVars == <<part, vars, codecVars, tokenVars, sessionVars>>

Codec == INSTANCE BinaryCodec WITH pc <- codecPc
Token == INSTANCE TokenCode WITH pc <- tokenPc
Sessions == INSTANCE Session

ASSUME CodecAssumption == Codec!SizeAssumption /\ Codec!MessageAssumption
ASSUME TokenAssumption == /\ Token!BaseAssumption /\ Token!LengthAssumption
                          /\ Token!RowAssumption /\ Token!TypoAssumption
ASSUME SessionAssumption == Sessions!UserAssumption /\ Sessions!TimeAssumption

-----------------------------------------------------------------------------
SmallAmounts == 0..(2 * Word - 1)
SmallRecipients == 1..5

F(kind, val) == [kind |-> kind, val |-> val, room |-> 2, exported |-> TRUE]

Fixeds == {F("bool", 1), F("uint8", 3), F("uint16", 9), F("uint32", 77), F("uint64", 40000),
           F("int8", -2), F("int16", -7), F("int32", -100), F("int64", -30000)}
WordSized == {F("int", -128), F("int", 128), F("uint", 255), F("uint", 256)}

(* Within the buffer, longer than the buffer, longer than the count.       *)
Long(n) == [i \in 1..n |-> i % 4]
Lists == {F("string", Long(3)), F("string", Long(9)), F("string", Long(17)), F("bytes", <<>>),
          F("bytes", Long(5)), F("bytes", Long(16)), F("slice", <<3, 9>>), F("slice", <<1, 2, 3>>),
          F("map", (0 :> 1) @@ (3 :> 0))}
Odd == {[F("map", (1 :> 1)) EXCEPT !.room = 0], F("other", "opaque"),
        [F("uint8", 1) EXCEPT !.exported = FALSE]}

Some == Fixeds \union WordSized \union Lists \union Odd

Fields(s) == [form |-> "codec", fields |-> s]
Promotions == {Fields(<<F("uint64", 77), F("uint64", 60000), F("string", s)>>) :
                   s \in {<<>>, <<1>>, <<0, 3, 2>>}}
Packets == {[form |-> "packet", fields |-> <<F("uint64", n)>>] : n \in {0, 1, 200, 65535}}

MixedMessages ==
    Promotions \union Packets \union {Fields(<<a, b>>) : a, b \in Some}
    \union {Fields(<<a, b, c>>) : a \in Lists, b, c \in Some}

TestMessages == {Fields(<<F("bytes", <<1, 0>>)>>),
                 Fields(<<[F("string", <<1>>) EXCEPT !.exported = FALSE], F("bytes", <<1, 0>>)>>)}

SomeRows == {1, 4, 7}

(* Everything up to one character too many, and two too many of one kind.  *)
SomeTypos == UNION {[1..n -> 0..(Base - 1) \union {Bad}] : n \in 0..(MaxLen + 1)}
             \union {[i \in 1..(MaxLen + 2) |-> 1]}

-----------------------------------------------------------------------------
(* What does not run has got nothing to do: no packet, message or code.    *)
SplitRests ==
    /\ pc = "ended" /\ packet = [coarse |-> FALSE, amount |-> 0, num |-> 1]
    /\ units = 0 /\ recorded = 0 /\ left = 0
    /\ slots = <<>> /\ given = 0 /\ filed = <<>> /\ outcome = "none"
CodecRests ==
    /\ msg = Fields(<<>>) /\ codecPc = "encode"
    /\ buf = <<>> /\ w = 0 /\ text = <<>> /\ whole = FALSE /\ cut = FALSE
    /\ r = 0 /\ at = 0 /\ got = <<>>
TokenRests ==
    /\ tokenPc = "draw" /\ rows = {} /\ code = 0 /\ typed = <<>> /\ error = "none" /\ number = 0

SessionRests ==
    now = MaxTime /\ tokens = {} /\ wx = <<>> /\ login = {} /\ made = <<>>

PartsInit ==
    \/ part = "split" /\ Init /\ CodecRests /\ TokenRests /\ SessionRests
    \/ part = "codec" /\ SplitRests /\ Codec!Init /\ TokenRests /\ SessionRests
    \/ part = "token" /\ SplitRests /\ CodecRests /\ Token!Init /\ SessionRests
    \/ part = "session" /\ SplitRests /\ CodecRests /\ TokenRests /\ Sessions!Init

SplitNext == part = "split" /\ Next /\ UNCHANGED <<part, codecVars, tokenVars, sessionVars>>
CodecNext == part = "codec" /\ Codec!Next /\ UNCHANGED <<part, vars, tokenVars, sessionVars>>
TokenNext == part = "token" /\ Token!Next /\ UNCHANGED <<part, vars, codecVars, sessionVars>>
SessionNext == part = "session" /\ Sessions!Next /\ UNCHANGED <<part, vars, codecVars, tokenVars>>

PartsSpec == PartsInit /\ [][SplitNext \/ CodecNext \/ TokenNext \/ SessionNext]_allVars

-----------------------------------------------------------------------------
(* Each component's promise, and the types of its variables. *)

(* BinaryCodec: a link is read as it was written, but for a lost tail.     *)
LinkReads == part = "codec" => Codec!TypeOK /\ Codec!LinkReads

(* BinaryCodec: a whole link panics only for the fields named there.       *)
PanicHasCause == part = "codec" => Codec!PanicHasCause

(* binary_test.go:45, which the codec does not keep.                       *)
TestEncode == part = "codec" => Codec!TestEncode

(* TokenCode: the bot reads the code of the page, and no slip, as the code. *)
ReadAsIssued == part = "token" => Token!TypeOK /\ Token!ReadAsIssued

(* Session: how long a token lives, and what kills it before its time.     *)
TokenLife == part = "session" => Sessions!TypeOK /\ Sessions!TokenLife
=============================================================================
