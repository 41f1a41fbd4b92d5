---------------------------- MODULE AtomicStore ----------------------------
(***************************************************************************)
(* What the application relies on when it calls store.transaction and      *)
(* store.read: transactions take effect one at a time, in the order they   *)
(* were asked for, completely or not at all; readers see exactly those     *)
(* that took effect; a restart forgets none of them.  The database is the  *)
(* sequence of transactions that made it.                                  *)
(***************************************************************************)
EXTENDS Sequences

CONSTANT Transactions

VARIABLES
  committed,  \* the transactions that took effect, in order
  waiting,    \* asked for and not decided, in order
  answer      \* what the caller knows of each transaction

vars == <<committed, waiting, answer>>

Answer == {"none", "pending", "done", "failed", "unknown"}

Init ==
  /\ committed = <<>>
  /\ waiting = <<>>
  /\ answer = [t \in Transactions |-> "none"]

Ask(t) ==
  /\ answer[t] = "none"
  /\ answer' = [answer EXCEPT ![t] = "pending"]
  /\ waiting' = Append(waiting, t)
  /\ UNCHANGED committed

(* The oldest request takes effect and its caller is told. *)
Commit ==
  /\ waiting # <<>>
  /\ committed' = Append(committed, Head(waiting))
  /\ answer' = [answer EXCEPT ![Head(waiting)] = "done"]
  /\ waiting' = Tail(waiting)

(* Or it has no effect, and its caller is told that. *)
Refuse ==
  /\ waiting # <<>>
  /\ answer' = [answer EXCEPT ![Head(waiting)] = "failed"]
  /\ waiting' = Tail(waiting)
  /\ UNCHANGED committed

(* Only the request being executed may have taken effect unannounced. *)
Restart ==
  /\ \/ UNCHANGED committed
     \/ waiting # <<>> /\ committed' = Append(committed, Head(waiting))
  /\ waiting' = <<>>
  /\ answer' = [t \in Transactions |->
                  IF answer[t] = "pending" THEN "unknown" ELSE answer[t]]

Next == (\E t \in Transactions : Ask(t)) \/ Commit \/ Refuse \/ Restart

Spec == Init /\ [][Next]_vars
=============================================================================
