----------------------------- MODULE MCLifecycle -----------------------------
(***************************************************************************)
(* Instances of Lifecycle for TLC: a parent and a child with one           *)
(* submission to pay, or, Init having chosen so, with two, few             *)
(* transactions and no trouble.  The invariants then speak of the first of *)
(* the two, which is like the other; the liveness property is about one    *)
(* submission.                                                             *)
(***************************************************************************)
EXTENDS Lifecycle

CONSTANTS old, new, s1, s2,
          PairTx        \* MaxTx while there are two submissions

VARIABLE pair           \* what Init chose

MCProcess == {old, new}
MCSub == {s1}
MCPair == {s1, s2}

Pair == INSTANCE Lifecycle WITH Sub <- MCPair, MaxTx <- PairTx, MaxTrouble <- 0

OneNext == ~pair /\ Next /\ UNCHANGED pair
PairNext == pair /\ Pair!Next /\ UNCHANGED pair

EitherInit == Init /\ pair \in BOOLEAN
EitherSpec == EitherInit /\ [][OneNext \/ PairNext]_<<vars, pair>> /\ Fairness

(* Lifecycle: if some process stays up, the submission is sent and         *)
(* recorded in the end, whatever was killed or stopped before.             *)
RestIsPaid == ~pair => TakeOverPays
===============================================================================
