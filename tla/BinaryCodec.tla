----------------------------- MODULE BinaryCodec -----------------------------
(***************************************************************************)
(* Links: what utils/binary makes of a Go value and back, byte by byte,    *)
(* and the links of promotions (common/interface.promotion.go) and red     *)
(* packets (common/interface.redpacket.go), which people copy, and may     *)
(* lose the tail of.                                                       *)
(*                                                                         *)
(* A value is a sequence of fields, for a struct is nothing but its        *)
(* fields; its fields have the predeclared types, as all the callers' do   *)
(* (encoder.go panics on a named one).  Floats are the unsigned integers   *)
(* of their bits.  A byte has Byte values, integers are in two's           *)
(* complement.  The cipher stream of utils/crypto.go leaves lengths and    *)
(* prefixes alone: all it adds is the initialisation vector in front.      *)
(***************************************************************************)
EXTENDS Integers, Sequences, FiniteSetsExt, SequencesExt

CONSTANTS
    Byte,      \* 256
    Cap,       \* of the first buffer, 1024
    Spare,     \* capacity of a decoded link beyond its length
    BlockSize, \* of the cipher, 16
    Messages   \* what is encoded: see Message

(* Fixed sizes.  An int or uint has a machine word, and is sent as 4 bytes. *)
Size == [bool |-> 1, uint8 |-> 1, uint16 |-> 2, uint32 |-> 4, uint64 |-> 8, uint |-> 4,
         int8 |-> 1, int16 |-> 2, int32 |-> 4, int64 |-> 8, int |-> 4]
Signed == {"int8", "int16", "int32", "int64", "int"}
Bytes == 0..(Byte - 1)
Opaque == "opaque"

(* What n bytes can tell apart, n up to the 8 of a word.                   *)
Power[n \in 0..8] == IF n = 0 THEN 1 ELSE Byte * Power[n - 1]

Fixed(f) == f.kind \in DOMAIN Size

Fits(kind, v, n) ==
    IF kind \in Signed THEN -Power[n] <= 2 * v /\ 2 * v < Power[n]
    ELSE v \in 0..(IF kind = "bool" THEN 1 ELSE Power[n] - 1)

(* room: the length a slice can take at the receiver, 0 for a nil map too. *)
(* Slices are of uint16, maps from uint8 to uint8, any other kind (an      *)
(* array, a pointer, an interface) is in neither map of functions.         *)
Field(f) ==
    /\ f.exported \in BOOLEAN /\ f.room \in Nat
    /\ \/ /\ Fixed(f) /\ f.val \in Int
          /\ Fits(f.kind, f.val, IF f.kind \in {"int", "uint"} THEN 8 ELSE Size[f.kind])
       \/ f.kind \in {"string", "bytes"} /\ f.val \in Seq(Bytes)
       \/ f.kind = "slice" /\ f.val \in Seq(0..(Byte * Byte - 1))
       \/ f.kind = "map" /\ DOMAIN f.val \subseteq Bytes /\ f.val \in [DOMAIN f.val -> Bytes]
       \/ f.kind = "other" /\ f.val = Opaque

Message(m) ==
    /\ m.form \in {"codec", "packet"}
    /\ m.fields \in Seq({m.fields[i] : i \in DOMAIN m.fields})
    /\ \A i \in DOMAIN m.fields : Field(m.fields[i])
    /\ m.form = "packet" => Len(m.fields) = 1 /\ m.fields[1].kind = "uint64"

SizeAssumption == Byte \in Nat /\ Byte > 1 /\ {Cap, Spare, BlockSize} \subseteq Nat
                  /\ Cap >= 8 /\ BlockSize > 0
MessageAssumption == \A m \in Messages : Message(m)

VARIABLES
    msg,   \* the message
    pc,    \* "encode", "sent", "decode", "decoded", "error" or "panic"
    buf,   \* Encoder.b
    w,     \* Encoder.w
    text,  \* the bytes of the link after the initialisation vector
    whole, \* the initialisation vector is there
    cut,   \* history: the link lost its tail
    r,     \* Decoder.r
    at,    \* fields encoded, or decoded
    got    \* the values decoded

encoder == <<buf, w>>
link == <<text, whole, cut>>
decoder == <<r, got>>
vars == <<msg, pc, encoder, link, decoder, at>>

TypeOK ==
    /\ Message(msg)
    /\ pc \in {"encode", "sent", "decode", "decoded", "error", "panic"}
    /\ buf \in Seq(Bytes) /\ w \in Nat
    /\ text \in Seq(Bytes) /\ {whole, cut} \subseteq BOOLEAN
    /\ r \in Nat /\ at \in 0..Len(msg.fields)
    /\ Len(got) \in {0, at}

-----------------------------------------------------------------------------
(* Numbers, least significant byte first. *)

Digits(v, n) == [i \in 1..n |-> (v \div Power[i - 1]) % Byte]

Unsigned(b) ==
    LET sum[i \in 0..Len(b)] == IF i = 0 THEN 0 ELSE sum[i - 1] + b[i] * Power[i - 1]
    IN  sum[Len(b)]

Number(kind, b) ==
    LET u == Unsigned(b)
    IN  IF kind \in Signed /\ 2 * u >= Power[Len(b)] THEN u - Power[Len(b)]
        ELSE IF kind = "bool" /\ u # 0 THEN 1 ELSE u

-----------------------------------------------------------------------------
(* Encoder. *)

Zeros(n) == [i \in 1..n |-> 0]

GrownBlank(e, n) == IF e.w + n > Len(e.buf) THEN Zeros(2 * Len(e.buf)) ELSE e.buf
GrownNot(e, n) == e.buf

(* grow doubles the buffer, once, whatever n is.                           *)
Grown(e, n) ==
    IF e.w + n > Len(e.buf) THEN SubSeq(e.buf, 1, e.w) \o Zeros(2 * Len(e.buf) - e.w) ELSE e.buf

Copied(b, from, s) == [i \in DOMAIN b |-> IF i - from \in DOMAIN s THEN s[i - from] ELSE b[i]]

(* Out of the buffer the index panics; so does copying more than it holds. *)
PutNumber(e, v, n) ==
    IF e.dead \/ e.w > Len(e.buf) \/ e.w + n > Len(Grown(e, n))
    THEN [e EXCEPT !.dead = TRUE]
    ELSE [buf |-> Copied(Grown(e, n), e.w, Digits(v, n)), w |-> e.w + n, dead |-> FALSE]

(* The count has 2 bytes; what does not fit the buffer is not copied.      *)
PutBytes(e, s) ==
    LET c == PutNumber(e, Len(s), 2)
    IN  IF c.dead THEN c
        ELSE [buf |-> Copied(Grown(c, Len(s)), c.w, s), w |-> c.w + Len(s), dead |-> FALSE]

PutNumbers(e, s, n) ==
    LET put[i \in 0..Len(s)] == IF i = 0 THEN e ELSE PutNumber(put[i - 1], s[i], n)
    IN  put[Len(s)]

PutSlice(e, s) == PutNumbers(PutNumber(e, Len(s), 4), s, 2)

(* Key, value, key, value: the keys of a map come in any order.            *)
Pairs(f, keys) ==
    [i \in 1..(2 * Len(keys)) |-> IF i % 2 = 1 THEN keys[(i + 1) \div 2] ELSE f[keys[i \div 2]]]

PutMap(e, f, keys) == PutNumbers(PutNumber(e, Len(keys), 4), Pairs(f, keys), 1)

(* All outcomes of encodeValue.  A struct skips what it may not read.      *)
Put(e, f) ==
    IF ~f.exported THEN {e}
    ELSE IF Fixed(f) THEN {PutNumber(e, f.val, Size[f.kind])}
    ELSE CASE f.kind \in {"string", "bytes"} -> {PutBytes(e, f.val)}
           [] f.kind = "slice" -> {PutSlice(e, f.val)}
           [] f.kind = "map" -> {PutMap(e, f.val, keys) : keys \in SetToSeqs(DOMAIN f.val)}
           [] OTHER -> {[e EXCEPT !.dead = TRUE]}

Encode ==
    /\ pc = "encode" /\ msg.form = "codec" /\ at < Len(msg.fields)
    /\ at' = at + 1
    /\ \E e \in Put([buf |-> buf, w |-> w, dead |-> FALSE], msg.fields[at + 1]) :
        /\ buf' = e.buf /\ w' = e.w
        /\ pc' = IF e.dead THEN "panic" ELSE "encode"
    /\ UNCHANGED <<msg, link, decoder>>

(* Buffer, and AESEncryptBytes of it.  Nobody calls UpdateLen: the first 4 *)
(* bytes stay 0.                                                           *)
Seal ==
    /\ pc = "encode" /\ msg.form = "codec" /\ at = Len(msg.fields) /\ at' = 0
    /\ IF w > Len(buf) THEN pc' = "panic" /\ UNCHANGED <<text, whole>>
       ELSE pc' = "sent" /\ text' = SubSeq(buf, 1, w) /\ whole' = TRUE
    /\ UNCHANGED <<msg, encoder, cut, decoder>>

(* EncodeRedPacketLink: the number, most significant byte first.           *)
SealPacket ==
    /\ pc = "encode" /\ msg.form = "packet"
    /\ pc' = "sent" /\ text' = Reverse(Digits(msg.fields[1].val, 8)) /\ whole' = TRUE
    /\ UNCHANGED <<msg, encoder, cut, decoder, at>>

-----------------------------------------------------------------------------
(* Somebody copies the link.  What base64 cannot decode is left out, so    *)
(* that a link that lost its end is a shorter link.                        *)
Cut ==
    /\ pc = "sent" /\ ~cut /\ cut' = TRUE
    /\ \E n \in 1..(Len(text) + BlockSize) :
        /\ whole' = (n <= Len(text))
        /\ text' = SubSeq(text, 1, Len(text) - n)
    /\ UNCHANGED <<msg, pc, encoder, decoder, at>>

(* AESDecryptBytes.                                                        *)
OpenLink ==
    /\ pc = "sent"
    /\ pc' = IF whole THEN "decode" ELSE "error"
    /\ UNCHANGED <<msg, encoder, link, decoder, at>>

-----------------------------------------------------------------------------
(* Decoder. *)

(* n bytes: the index panics beyond the end.                               *)
Take(d, n) ==
    IF d.dead \/ d.r + n > Len(text) THEN [d EXCEPT !.dead = TRUE]
    ELSE [r |-> d.r + n, val |-> SubSeq(text, d.r + 1, d.r + n), dead |-> FALSE]

With(d, val) == IF d.dead THEN d ELSE [r |-> d.r, val |-> val, dead |-> FALSE]

TakeNumber(d, kind, n) == LET t == Take(d, n) IN With(t, Number(kind, t.val))

(* A string ends where the link ends.                                      *)
TakeString(d) ==
    LET c == TakeNumber(d, "uint16", 2)
    IN  IF c.dead THEN c
        ELSE [r |-> c.r + c.val, dead |-> FALSE,
              val |-> SubSeq(text, c.r + 1, Min({c.r + c.val, Len(text)}))]

(* Bytes end where the memory of the link ends.                            *)
TakeBytes(d) ==
    LET c == TakeNumber(d, "uint16", 2)
    IN  IF c.dead \/ c.r + c.val > Len(text) + Spare THEN [c EXCEPT !.dead = TRUE]
        ELSE [r |-> c.r + c.val, dead |-> FALSE,
              val |-> SubSeq(text \o Zeros(Spare), c.r + 1, c.r + c.val)]

(* SetLen does not allocate.                                               *)
TakeSlice(d, room) ==
    LET c == TakeNumber(d, "uint32", 4)
        t == Take(c, 2 * c.val)
    IN  IF c.dead \/ c.val > room THEN [c EXCEPT !.dead = TRUE]
        ELSE With(t, [i \in 1..c.val |-> Unsigned(SubSeq(t.val, 2 * i - 1, 2 * i))])

(* Nor does SetMapIndex make a map; setting in a nil one panics.  Of a key *)
(* that comes again the last value stays.                                  *)
TakeMap(d, room) ==
    LET c == TakeNumber(d, "uint32", 4)
        t == Take(c, 2 * c.val)
        Latest(k) == Max({i \in 1..c.val : t.val[2 * i - 1] = k})
    IN  IF c.dead \/ (room = 0 /\ c.val > 0) THEN [c EXCEPT !.dead = TRUE]
        ELSE With(t, [k \in {t.val[2 * i - 1] : i \in 1..c.val} |-> t.val[2 * Latest(k)]])

(* The zero value, which stays if nothing is decoded.                      *)
Zero(f) == IF Fixed(f) THEN 0 ELSE <<>>

Get(d, f) ==
    IF ~f.exported THEN d
    ELSE IF Fixed(f) THEN TakeNumber(d, f.kind, Size[f.kind])
    ELSE CASE f.kind = "string" -> TakeString(d)
           [] f.kind = "bytes" -> TakeBytes(d)
           [] f.kind = "slice" -> TakeSlice(d, f.room)
           [] f.kind = "map" -> TakeMap(d, f.room)
           [] OTHER -> [d EXCEPT !.dead = TRUE]

Decode ==
    /\ pc = "decode" /\ msg.form = "codec" /\ at < Len(msg.fields)
    /\ LET d == Get([r |-> r, val |-> Zero(msg.fields[at + 1]), dead |-> FALSE], msg.fields[at + 1])
       IN  IF d.dead THEN pc' = "panic" /\ UNCHANGED <<r, got, at>>
           ELSE r' = d.r /\ got' = Append(got, d.val) /\ at' = at + 1 /\ UNCHANGED pc
    /\ UNCHANGED <<msg, encoder, link>>

DecodeEnds ==
    /\ pc = "decode" /\ msg.form = "codec" /\ at = Len(msg.fields) /\ pc' = "decoded"
    /\ UNCHANGED <<msg, encoder, link, decoder, at>>

(* DecodeRedPacketLink: more bytes are ignored, fewer panic.               *)
DecodePacket ==
    /\ pc = "decode" /\ msg.form = "packet"
    /\ IF Len(text) < 8 THEN pc' = "panic" /\ UNCHANGED <<got, at>>
       ELSE pc' = "decoded" /\ got' = <<Unsigned(Reverse(SubSeq(text, 1, 8)))>> /\ at' = 1
    /\ UNCHANGED <<msg, encoder, link, r>>

-----------------------------------------------------------------------------
Init ==
    /\ msg \in Messages
    /\ pc = "encode" /\ buf = Zeros(Cap) /\ w = 4
    /\ text = <<>> /\ whole = FALSE /\ cut = FALSE
    /\ r = 4 /\ at = 0 /\ got = <<>>

Next == Encode \/ Seal \/ SealPacket \/ Cut \/ OpenLink \/ Decode \/ DecodeEnds \/ DecodePacket

Spec == Init /\ [][Next]_vars

-----------------------------------------------------------------------------
(* Properties. *)

Fields == {msg.fields[i] : i \in DOMAIN msg.fields}

(* More than the 2 bytes of a string's count can say, or the 4 of a slice's. *)
Outgrown(f) ==
    \/ f.kind \in {"string", "bytes"} /\ Len(f.val) >= Power[2]
    \/ f.kind = "slice" /\ Len(f.val) >= Power[4]

(* A word of the machine that 4 bytes do not hold.                         *)
Narrowed(f) == f.kind \in {"int", "uint"} /\ ~Fits(f.kind, f.val, 4)

(* What is read is what was written, whatever the order of the fields and *)
(* however often the buffer grew, except for a word out of the 4 bytes it  *)
(* gets, what follows a string or a slice that its count cannot tell, and, *)
(* in a link that lost its tail, the end of a string in last place: the    *)
(* wallet of the referrer of a promotion is then a shorter one, and nobody *)
(* notices.                                                                *)
LinkReads ==
    pc = "decoded" =>
        \A i \in DOMAIN msg.fields :
            \/ got[i] = msg.fields[i].val
            \/ ~msg.fields[i].exported
            \/ Narrowed(msg.fields[i])
            \/ \E j \in 1..i : Outgrown(msg.fields[j])
            \/ /\ cut /\ msg.fields[i].kind \in {"string", "bytes"}
               /\ \A j \in DOMAIN msg.fields : j > i => ~msg.fields[j].exported

(* A whole value panics only if a field is longer than the buffer was to   *)
(* begin with, has no function, a count that does not tell its length, or  *)
(* a receiver that was not made for it.                                    *)
PanicHasCause ==
    pc = "panic" /\ ~cut =>
        \E f \in Fields :
            \/ f.kind \in {"string", "bytes"} /\ Len(f.val) > Cap
            \/ f.kind = "other" /\ f.exported
            \/ Outgrown(f)
            \/ f.kind = "slice" /\ f.room < Len(f.val)
            \/ f.kind = "map" /\ f.room = 0

(* binary_test.go:45: what is decoded equals what was encoded, for a       *)
(* struct with a field that is not exported too.                           *)
TestEncode == pc = "decoded" /\ ~cut => \A i \in DOMAIN msg.fields : got[i] = msg.fields[i].val
=============================================================================
