---------------------------- MODULE CappedCharge ----------------------------
(***************************************************************************)
(* What a capped session promises its user, without the service, the       *)
(* ledger, the rail or the process in between: an offer names a limit, the *)
(* user may authorize it, one charge of at most the limit may follow, and  *)
(* only after the charge is the result released.  A session that was not   *)
(* charged can be void, and a void session is never charged.               *)
(***************************************************************************)
EXTENDS Naturals

CONSTANTS Sessions, Limits

VARIABLES phase, limit, charged

vars == <<phase, limit, charged>>

Phase == {"none", "offered", "authorized", "charged", "released", "void"}

Init ==
  /\ phase = [s \in Sessions |-> "none"]
  /\ limit = [s \in Sessions |-> 0]
  /\ charged = [s \in Sessions |-> 0]

Enter(s, from, to) == phase[s] \in from /\ phase' = [phase EXCEPT ![s] = to]

Offer(s) ==
  /\ Enter(s, {"none"}, "offered")
  /\ \E l \in Limits : limit' = [limit EXCEPT ![s] = l]
  /\ UNCHANGED charged

Authorize(s) ==
  /\ Enter(s, {"offered"}, "authorized")
  /\ UNCHANGED <<limit, charged>>

Charge(s) ==
  /\ Enter(s, {"authorized"}, "charged")
  /\ \E a \in 0..limit[s] : charged' = [charged EXCEPT ![s] = a]
  /\ UNCHANGED limit

Release(s) ==
  /\ Enter(s, {"charged"}, "released")
  /\ UNCHANGED <<limit, charged>>

Void(s) ==
  /\ Enter(s, {"offered", "authorized"}, "void")
  /\ UNCHANGED <<limit, charged>>

Next == \E s \in Sessions : Offer(s) \/ Authorize(s) \/ Charge(s) \/ Release(s) \/ Void(s)

Spec == Init /\ [][Next]_vars
=============================================================================
