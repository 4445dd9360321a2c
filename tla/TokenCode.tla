------------------------------ MODULE TokenCode ------------------------------
(***************************************************************************)
(* Verification codes as people see them (utils/token/token.go): the page  *)
(* of a promotion draws a number that no row of codes has                  *)
(* (handler/promotion/show.go), shows it in base 62, somebody types it     *)
(* into Telegram, and the bot reads it (tools/telegram/bot.go).            *)
(*                                                                         *)
(* A character is its index in Base62, Bad stands for any other.  Powers   *)
(* are floats in the code, and exact: 62^10 has fewer significant bits     *)
(* than a float.                                                           *)
(***************************************************************************)
EXTENDS Integers, Sequences

CONSTANTS
    Base,       \* 62
    Word,       \* 2^64
    MaxLen,     \* MaxTokenLength, 10
    DefaultLen, \* DefaultTokenLength, 9
    Bad,        \* a character outside of Base62
    Rows,       \* numbers that may be in the table when the page is opened
    Typos       \* what people may type besides the code

(* math.Pow(62, n).                                                        *)
Power[n \in 0..MaxLen] == IF n = 0 THEN 1 ELSE Base * Power[n - 1]

Char == 0..(Base - 1)

(* Ten characters fit a word, which MaxTokenLength is for.                 *)
BaseAssumption == Base \in Nat /\ Base > 1 /\ Word \in Nat /\ Bad \notin Char
LengthAssumption == MaxLen \in Nat /\ DefaultLen \in 1..MaxLen /\ Power[MaxLen] <= Word
RowAssumption == Rows \subseteq 0..(Power[DefaultLen] - 1) /\ Rows # 0..(Power[DefaultLen] - 1)
TypoAssumption == \A s \in Typos : s \in Seq(Char \union {Bad})

VARIABLES
    pc,      \* "draw", "shown", "typed", "read"
    rows,    \* ids in the table of codes
    code,    \* the number of the page
    typed,   \* the characters of the message
    error,   \* of Decode
    number   \* what the bot reads

vars == <<pc, rows, code, typed, error, number>>

Errors == {"none", "tooSmall", "tooBig", "invalid"}

TypeOK ==
    /\ pc \in {"draw", "shown", "typed", "read"}
    /\ rows \subseteq 0..(Power[DefaultLen] - 1)
    /\ code \in 0..(Power[DefaultLen] - 1)
    /\ typed \in Seq(Char \union {Bad})
    /\ error \in Errors
    /\ number \in 0..(Power[MaxLen] - 1)

-----------------------------------------------------------------------------
(* MarshalText.  No character stands for zero.                             *)
Encode(t) ==
    LET chars[n \in 0..t] == IF n = 0 THEN <<>> ELSE Append(chars[n \div Base], n % Base)
    IN  chars[t]

ValueUnweighted(s) ==
    LET sum[i \in 0..Len(s)] == IF i = 0 THEN 0 ELSE sum[i - 1] + s[i]
    IN  sum[Len(s)] % Word

(* The loop of UnmarshalText, when every character is one of Base62.       *)
Value(s) ==
    LET sum[i \in 0..Len(s)] == IF i = 0 THEN 0 ELSE sum[i - 1] + s[i] * Power[Len(s) - i]
    IN  sum[Len(s)] % Word

ErrorOf(s) ==
    IF Len(s) > MaxLen THEN "tooBig"
    ELSE IF Len(s) < 1 THEN "tooSmall"
    ELSE IF \E i \in DOMAIN s : s[i] \notin Char THEN "invalid" ELSE "none"

-----------------------------------------------------------------------------
(* ShowHandler: New, INSERT, and again while the number is taken or the    *)
(* statement fails: a round in vain changes nothing.                       *)
Issue ==
    /\ pc = "draw" /\ pc' = "shown"
    /\ \E t \in (0..(Power[DefaultLen] - 1)) \ rows : code' = t /\ rows' = rows \union {t}
    /\ UNCHANGED <<typed, error, number>>

(* Other pages draw numbers too.                                           *)
IssueElsewhere ==
    /\ pc = "draw"
    /\ \E t \in Rows : rows' = rows \union {t}
    /\ UNCHANGED <<pc, code, typed, error, number>>

(* What is shown, or a slip.                                               *)
Type ==
    /\ pc = "shown" /\ pc' = "typed"
    /\ typed' \in {Encode(code)} \union Typos
    /\ UNCHANGED <<rows, code, error, number>>

(* TelegramUpdateHandler: Decode.                                          *)
Decode ==
    /\ pc = "typed" /\ pc' = "read"
    /\ error' = ErrorOf(typed)
    /\ number' = IF error' = "none" THEN Value(typed) ELSE 0
    /\ UNCHANGED <<rows, code, typed>>

Init ==
    /\ pc = "draw" /\ rows \in SUBSET Rows
    /\ code = 0 /\ typed = <<>> /\ error = "none" /\ number = 0

Next == Issue \/ IssueElsewhere \/ Type \/ Decode

Spec == Init /\ [][Next]_vars

-----------------------------------------------------------------------------
(* Properties. *)

(* The bot takes a message for the code of the page exactly if it is the   *)
(* code, with zeros in front or without, and has 1 to MaxLen characters.   *)
(* Of the code zero there is nothing to see: whoever types what the page   *)
(* shows is told that it is too small.                                     *)
ReadAsIssued ==
    pc = "read" =>
        (error = "none" /\ number = code) =
        (/\ Len(typed) \in 1..MaxLen
         /\ \E zeros \in 0..MaxLen : typed = [i \in 1..zeros |-> 0] \o Encode(code))
=============================================================================
