----------------------------- MODULE FundGather -----------------------------
(***************************************************************************)
(* The wallet page (handler/user/fund.go): a request collects the tokens   *)
(* of a user from three places and starts a goroutine for each, which      *)
(* asks for price and balance and appends an entry to the slice all of     *)
(* them share, without a lock.                                             *)
(*                                                                         *)
(* The data race is modelled down to the words of the slice header.  For   *)
(* s = append(s, x) the compiler loads pointer, length and capacity, and   *)
(* stores the capacity and the pointer if the array grew, then the length, *)
(* then the element.  Arrays are named by who allocated them.              *)
(*                                                                         *)
(* An address is one value: its spelling, and a second main wallet, which  *)
(* lists every token twice, are left out.                                  *)
(***************************************************************************)
EXTENDS Integers, FiniteSets, Sequences, FiniteSetsExt

CONSTANTS
    Token,
    Eth,      \* the entry of ether, and the array it is in
    Absent,   \* no row in a GROUP BY
    Inputs    \* what the tables, the cache and the chain hold: see Input

VARIABLES
    in,         \* this request's input
    main,       \* where the handler is
    list,       \* the tokens found
    replies,    \* bodies written to the client
    reply,      \* the entries of the last one
    pc,         \* where each goroutine is
    seen,       \* the slice header each goroutine has loaded
    funds,      \* the shared slice header
    heap,       \* the arrays
    writing,    \* goroutines inside an assignment to msetKeys
    prices,     \* msetKeys
    cached,     \* tokens with a price in redis
    failed,     \* history: tokens whose balance could not be read
    overlapped, \* history: two appends, or two assignments, at a time
    wild,       \* history: a write outside the array
    dead        \* the process ended

handler == <<main, list, replies, reply>>
slice == <<seen, funds, heap, wild>>
prici == <<writing, prices, cached>>
rest == <<in, failed>>
vars == <<handler, pc, slice, prici, rest, overlapped, dead>>

Zero == "zero"
Junk == "junk"
Cells == Token \union {Eth, Zero, Junk}

NameAssumption ==
    /\ IsFiniteSet(Token) /\ Absent \notin Nat
    /\ Eth \notin Token /\ {Zero, Junk} \intersect (Token \union {Eth}) = {}

(* Sums of slots, deposits, packets expired, packets paid in cash,         *)
(* checkouts, and claims of expired packets.                               *)
Book == [slots : Nat \union {Absent}, deposits : Nat \union {Absent},
         expired : Nat \union {Absent}, cash : Nat \union {Absent},
         checkouts : Nat \union {Absent}, claims : Nat \union {Absent}]

(* source: a row of the first SELECT, or held according to Ethplorer and   *)
(* known in the table, or new to it.                                       *)
Input == [source : [Token -> {"row", "held", "new", "none"}], priced : SUBSET Token,
          cached : SUBSET Token, book : [Token -> Book], cashOnly : BOOLEAN]

InputAssumption == Inputs \subseteq Input

Header == [ptr : Token \union {Eth}, len : 0..(Cardinality(Token) + 1), cap : Nat]

TypeOK ==
    /\ in \in Inputs
    /\ main \in {"read", "gather", "prices", "wait", "save", "replied"}
    /\ list \subseteq Token
    /\ replies \in Nat
    /\ reply \in [1..Len(reply) -> Cells]
    /\ pc \in [Token -> {"none", "price", "map", "balance", "cash", "ptr", "len", "cap", "append",
                         "setCap", "setPtr", "setLen", "setElem", "done"}]
    /\ seen \in [Token -> Header]
    /\ funds \in Header
    /\ \A a \in DOMAIN heap : a \in Token \union {Eth} /\ heap[a] \in [1..Len(heap[a]) -> Cells]
    /\ writing \subseteq Token /\ prices \subseteq Token
    /\ cached \subseteq Token /\ failed \subseteq Token
    /\ {overlapped, wild, dead} \subseteq BOOLEAN

-----------------------------------------------------------------------------
(* The cash of a token. *)

Plus(a, b) == IF a = Absent THEN b ELSE IF b = Absent THEN a ELSE a + b

Income(b) == Plus(b.slots, b.deposits)
Left(b) == IF b.expired = Absent \/ b.claims = Absent THEN b.expired ELSE b.expired - b.claims
Output(b) == Plus(b.cash, b.checkouts)

(* Without income the amount is a nil pointer, and arithmetic with it ends *)
(* the process: a panic of a goroutine is recovered by nobody.             *)
CashPanics(b) == Income(b) = Absent /\ (Left(b) # Absent \/ Output(b) # Absent)

-----------------------------------------------------------------------------
(* FundGetHandler up to the goroutines. *)

Reply(cells) == replies' = replies + 1 /\ reply' = cells

Unchanged(s) == UNCHANGED <<s, rest, overlapped, dead>>

(* The SELECTs and the balance of ether, any of which may fail.            *)
Read ==
    /\ main = "read"
    /\ \/ main' = "gather" /\ UNCHANGED <<replies, reply>>
       \/ main' = "replied" /\ Reply(<<>>)
    /\ UNCHANGED list
    /\ Unchanged(<<pc, slice, prici>>)

From(s) == {t \in Token : in.source[t] = s}

(* Ethplorer may not answer.  New tokens are read from the chain; for one  *)
(* that cannot be read an error is written to the client, and on it goes.  *)
Gather ==
    /\ main = "gather" /\ main' = "prices"
    /\ \/ list' = From("row") /\ UNCHANGED replies
       \/ \E new \in SUBSET From("new") :
            /\ list' = From("row") \union From("held") \union new
            /\ replies' = replies + Cardinality(From("new") \ new)
    /\ UNCHANGED <<reply, in, failed, overlapped, dead, pc, slice, prici>>

(* Tokens new to the table have no price there.                            *)
Priced == in.priced \ From("new")

(* MGET of the prices, which are filed under the key of redis, where the   *)
(* goroutines do not look.  The slice starts with the entry of ether.      *)
Spawn ==
    /\ main = "prices" /\ main' = "wait"
    /\ pc' = [t \in Token |-> IF t \in list THEN "price" ELSE "none"]
    /\ UNCHANGED <<list, replies, reply, rest, overlapped, dead, slice, prici>>

-----------------------------------------------------------------------------
(* The goroutine of token t. *)

Go(t, from, to) == pc[t] = from /\ pc' = [pc EXCEPT ![t] = to]

(* The price of the table, or the market's, which enters msetKeys.  Two    *)
(* assignments at once: the runtime notices, and ends the process, or not. *)
Price(t) ==
    /\ pc[t] = "price"
    /\ IF t \in Priced
       THEN Go(t, "price", "balance") /\ UNCHANGED <<writing, overlapped, dead>>
       ELSE \/ Go(t, "price", "balance") /\ UNCHANGED <<writing, overlapped, dead>>
            \/ /\ Go(t, "price", "map") /\ writing' = writing \union {t}
               /\ overlapped' = (overlapped \/ writing # {})
               /\ dead' \in IF writing = {} THEN {dead} ELSE {dead, TRUE}
    /\ UNCHANGED <<handler, slice, prices, cached, rest>>

SetPrice(t) ==
    /\ Go(t, "map", "balance") /\ writing' = writing \ {t}
    /\ \/ prices' = prices \union {t}
       \/ overlapped /\ prices' = prices
    /\ UNCHANGED <<handler, slice, cached, rest, overlapped, dead>>

(* An error returns; wg.Done is deferred.                                  *)
Balance(t) ==
    /\ \/ Go(t, "balance", "cash") /\ UNCHANGED failed
       \/ ~in.cashOnly /\ Go(t, "balance", "done") /\ failed' = failed \union {t}
    /\ UNCHANGED <<handler, slice, prici, in, overlapped, dead>>

Cash(t) ==
    /\ Go(t, "cash", "ptr")
    /\ dead' = (dead \/ CashPanics(in.book[t]))
    /\ UNCHANGED <<handler, slice, prici, rest, overlapped>>

-----------------------------------------------------------------------------
(* funds = append(funds, fund). *)

Appending(t) == pc[t] \in {"len", "cap", "append", "setCap", "setPtr", "setLen", "setElem"}

Load(t, from, to, word) ==
    /\ Go(t, from, to)
    /\ seen' = [seen EXCEPT ![t][word] = funds[word]]
    /\ UNCHANGED <<handler, funds, heap, wild, prici, rest, dead>>

LoadPtr(t) ==
    /\ Load(t, "ptr", "len", "ptr")
    /\ overlapped' = (overlapped \/ \E g \in Token : Appending(g))
LoadLen(t) == Load(t, "len", "cap", "len") /\ UNCHANGED overlapped
LoadCap(t) == Load(t, "cap", "append", "cap") /\ UNCHANGED overlapped

Cell(a, i) == IF i <= Len(heap[a]) THEN heap[a][i] ELSE Junk

(* growslice: twice the capacity, or what is needed.                       *)
Grow(t) ==
    LET h == seen[t]
        cap == Max({h.len + 1, 2 * h.cap})
    IN  /\ Go(t, "append", "setCap")
        /\ heap' = [a \in DOMAIN heap \union {t} |->
                       IF a = t THEN [i \in 1..cap |-> IF i <= h.len THEN Cell(h.ptr, i) ELSE Zero]
                       ELSE heap[a]]
        /\ seen' = [seen EXCEPT ![t] = [ptr |-> t, len |-> h.len, cap |-> cap]]

AppendFund(t) ==
    /\ \/ /\ seen[t].len + 1 <= seen[t].cap /\ Go(t, "append", "setLen")
          /\ UNCHANGED <<seen, heap>>
       \/ seen[t].len + 1 > seen[t].cap /\ Grow(t)
    /\ UNCHANGED <<handler, funds, wild, prici, rest, overlapped, dead>>

Store(t, from, to, word, value) ==
    /\ Go(t, from, to)
    /\ funds' = [funds EXCEPT ![word] = value]
    /\ UNCHANGED <<handler, seen, heap, wild, prici, rest, overlapped, dead>>

StoreCap(t) == Store(t, "setCap", "setPtr", "cap", seen[t].cap)
StorePtr(t) == Store(t, "setPtr", "setLen", "ptr", seen[t].ptr)
StoreLen(t) == Store(t, "setLen", "setElem", "len", seen[t].len + 1)

StoreElemAgain(t) ==
    LET h == seen[t]
    IN  /\ Go(t, "setElem", "done")
        /\ IF h.len + 1 <= Len(heap[h.ptr])
           THEN heap' = [heap EXCEPT ![h.ptr] = [i \in DOMAIN @ |-> IF i \in h.len..(h.len + 1) THEN t ELSE @[i]]]
                /\ UNCHANGED wild
           ELSE wild' = TRUE /\ UNCHANGED heap
        /\ UNCHANGED <<handler, seen, funds, prici, rest, overlapped, dead>>

StoreElem(t) ==
    LET h == seen[t]
    IN  /\ Go(t, "setElem", "done")
        /\ IF h.len + 1 <= Len(heap[h.ptr])
           THEN heap' = [heap EXCEPT ![h.ptr][h.len + 1] = t] /\ UNCHANGED wild
           ELSE wild' = TRUE /\ UNCHANGED heap
        /\ UNCHANGED <<handler, seen, funds, prici, rest, overlapped, dead>>

-----------------------------------------------------------------------------
(* FundGetHandler after the goroutines. *)

Wait ==
    /\ main = "wait" /\ (\A t \in list : pc[t] = "done") /\ main' = "save"
    /\ UNCHANGED <<list, replies, reply>> /\ Unchanged(<<pc, slice, prici>>)

(* MULTI, a SETEX for every price, EXEC: redis may be away.                *)
Save ==
    /\ main = "save" /\ main' = "replied"
    /\ cached' \in {cached, cached \union prices}
    /\ Reply([i \in 1..funds.len |-> Cell(funds.ptr, i)])
    /\ UNCHANGED <<list, writing, prices>> /\ Unchanged(<<pc, slice>>)

-----------------------------------------------------------------------------
Init ==
    /\ in \in Inputs
    /\ main = "read" /\ list = {} /\ replies = 0 /\ reply = <<>>
    /\ pc = [t \in Token |-> "none"]
    /\ seen = [t \in Token |-> [ptr |-> Eth, len |-> 0, cap |-> 0]]
    /\ funds = [ptr |-> Eth, len |-> 1, cap |-> 1]
    /\ heap = [a \in {Eth} |-> <<Eth>>]
    /\ writing = {} /\ prices = {} /\ cached = in.cached
    /\ failed = {}
    /\ overlapped = FALSE /\ wild = FALSE /\ dead = FALSE

Goroutine(t) ==
    \/ Price(t) \/ SetPrice(t) \/ Balance(t) \/ Cash(t)
    \/ LoadPtr(t) \/ LoadLen(t) \/ LoadCap(t) \/ AppendFund(t)
    \/ StoreCap(t) \/ StorePtr(t) \/ StoreLen(t) \/ StoreElem(t)

FundGetHandler == Read \/ Gather \/ Spawn \/ Wait \/ Save

(* After a write outside the array anything may happen: the model stops.   *)
Next == ~dead /\ ~wild /\ (FundGetHandler \/ \E t \in Token : Goroutine(t))

Spec == Init /\ [][Next]_vars

-----------------------------------------------------------------------------
(* Properties. *)

Shown == {i \in 1..Len(reply) : reply[i] \notin {Zero, Junk}}

(* However the appends interleave, ether stays first and no token is shown *)
(* twice, or shown though its balance could not be read.  Unless two       *)
(* goroutines appended at the same time, every other token is there.       *)
PageShows ==
    /\ wild => overlapped
    /\ reply # <<>> =>
        /\ reply[1] = Eth
        /\ \A i, j \in Shown : reply[i] = reply[j] => i = j
        /\ \A i \in Shown : reply[i] \in {Eth} \union (list \ failed)
        /\ ~overlapped => Len(reply) = Cardinality(list \ failed) + 1 /\ Shown = DOMAIN reply
=============================================================================
