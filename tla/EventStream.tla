---------------------------- MODULE EventStream ----------------------------
(***************************************************************************)
(* The live side of the server: EventHub, streamSession of the HTTP API    *)
(* and the browser's EventSource at its other end.                         *)
(*                                                                         *)
(* A session is the number of its committed changes.  Every transaction    *)
(* that changes what a page shows is followed by a publish before anything *)
(* else can read the store, so a change and its publish are one step.  The *)
(* messages of a stream all have the same effect on the page, so they are  *)
(* only counted; those that announce no change of a session (the budget,   *)
(* the agent's decision, heartbeats) are left out.                         *)
(***************************************************************************)
EXTENDS Integers

CONSTANTS
  Submissions,   \* sessions in the order the page creates them: 1, 2, ...
  MaxVersion,    \* bound: [Submissions -> Nat], changes of a session
  MaxFaults      \* bound: lost connections and requests

ASSUME SubmissionAssumption == Submissions \subseteq Nat \ {0}
ASSUME StreamBoundAssumption ==
  MaxVersion \in [Submissions -> Nat] /\ MaxFaults \in Nat

VARIABLES
  version,    \* [Submissions -> Nat]: committed changes; 0 before create
  overAt,     \* the change that made the status terminal; 0 while it is not
  source,     \* the session of the page's EventSource; 0: closed
  connected,  \* the server has subscribed a listener for the source
  pending,    \* messages written to the source and not handled yet
  faults

streamVars == <<version, overAt, source, connected, pending, faults>>

StreamInit ==
  /\ version = [s \in Submissions |-> 0]
  /\ overAt = [s \in Submissions |-> 0]
  /\ source = 0 /\ connected = FALSE /\ pending = 0
  /\ faults = 0

Fault == faults < MaxFaults /\ faults' = faults + 1

(* Faulty variant: a listener is not called. *)
MessagesAfterDropped(s) == pending

(* EventHub.publish: a message for each listener of the session. *)
MessagesAfter(s) == IF connected /\ source = s THEN pending + 1 ELSE pending

(* The status the page would show at a version is in its `terminal` set:   *)
(* DELIVERED, CANCELLED or MANUAL_REVIEW.                                  *)
Terminal(s, v) == overAt[s] # 0 /\ overAt[s] <= v

(* A transaction on the session and its publish: by its run, or by a       *)
(* request of anybody.  A run may still write into a session that was      *)
(* cancelled under it.                                                     *)
Change(s) ==
  /\ version[s] \in 1..(MaxVersion[s] - 1)
  /\ version' = [version EXCEPT ![s] = @ + 1]
  /\ \/ UNCHANGED overAt
     \/ overAt[s] = 0 /\ overAt' = [overAt EXCEPT ![s] = version[s] + 1]
  /\ pending' = MessagesAfter(s)
  /\ UNCHANGED <<source, connected, faults>>

(* new EventSource, after the close of the one before. *)
SourceConnects(s) == source' = s /\ connected' = FALSE /\ pending' = 0

(* EventSource.close: its messages are not handled any more, and the close *)
(* of the request unsubscribes the listener.                               *)
SourceCloses == source' = 0 /\ connected' = FALSE /\ pending' = 0

(* Faulty variant: no snapshot is written to a new listener. *)
MessagesAtOpenNone == 0

(* The snapshot. *)
MessagesAtOpen == 1

(* streamSession: the snapshot is written and the listener subscribed in   *)
(* one turn of the event loop.                                             *)
Open ==
  /\ source # 0 /\ ~connected
  /\ connected' = TRUE
  /\ pending' = MessagesAtOpen
  /\ UNCHANGED <<version, overAt, source, faults>>

(* The connection is lost with what is in it, also by a restart of the     *)
(* server; EventSource connects again.                                     *)
Drop ==
  /\ connected /\ Fault
  /\ connected' = FALSE /\ pending' = 0
  /\ UNCHANGED <<version, overAt, source>>

StreamTypeOK ==
  /\ version \in [Submissions -> Nat]
  /\ overAt \in [Submissions -> Nat]
  /\ source \in Submissions \cup {0}
  /\ connected \in BOOLEAN
  /\ pending \in Nat
  /\ faults \in Nat
=============================================================================
