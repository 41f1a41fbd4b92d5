----------------------------- MODULE Dashboard -----------------------------
(***************************************************************************)
(* The page (public/app.js) on top of EventStream: submitting a session,   *)
(* the stream's messages, the poll timer, and the refreshes both start.    *)
(*                                                                         *)
(* A refresh overwrites what the page shows when its answer is there,      *)
(* whatever the page shows by then.  Of its two requests, the session and  *)
(* its events, the session's is modelled: it decides how the page goes on. *)
(***************************************************************************)
EXTENDS EventStream, FiniteSets

CONSTANTS
  Slots        \* bound: refreshes in flight at a time

VARIABLES
  shown,       \* state.session: [of, version]
  refreshes,   \* [Slots -> refreshes in flight]
  armed,       \* the poll timer is set
  step,        \* where the submit handler is; the launch button is disabled
               \* while it is not "idle"
  reply,       \* version in the authorize answer on its way; 0: not handled yet
  latest,      \* the session created last; 0: none
  polled,      \* history: schedulePoll was called for the latest session
  newest,      \* history: the newest version shown of the latest session
  replaced,    \* history: another session was shown in place of the latest
  lost         \* history: a refresh failed since the latest was created

pageVars == <<shown, refreshes, armed, step, reply, latest,
              polled, newest, replaced, lost>>
history == <<polled, newest, replaced, lost>>
vars == <<streamVars, pageVars>>

NoRefresh == [of |-> 0, version |-> 0, poll |-> FALSE]

Step == {"idle", "create", "authorize", "start"}

Init ==
  /\ StreamInit
  /\ shown = [of |-> 0, version |-> 0]
  /\ refreshes = [r \in Slots |-> NoRefresh]
  /\ armed = FALSE
  /\ step = "idle" /\ reply = 0 /\ latest = 0
  /\ polled = FALSE /\ newest = 0 /\ replaced = FALSE /\ lost = FALSE

ShownTerminal == shown.of # 0 /\ Terminal(shown.of, shown.version)

Newer(v, w) == IF v < w THEN w ELSE v
-----------------------------------------------------------------------------
(* The submit handler. *)

Submit ==
  /\ step = "idle"
  /\ latest + 1 \in Submissions
  /\ step' = "create"
  /\ UNCHANGED <<streamVars, shown, refreshes, armed, reply, latest, history>>

(* The server creates the session; the page shows it and connects to its   *)
(* stream.                                                                 *)
Created ==
  /\ step = "create"
  /\ LET s == latest + 1
     IN  /\ latest' = s
         /\ version' = [version EXCEPT ![s] = 1]
         /\ shown' = [of |-> s, version |-> 1]
         /\ SourceConnects(s)
  /\ step' = "authorize" /\ reply' = 0
  /\ polled' = FALSE /\ newest' = 1 /\ replaced' = FALSE /\ lost' = FALSE
  /\ UNCHANGED <<overAt, refreshes, armed, faults>>

(* The server stores the authorization; its answer is on the way. *)
Authorized ==
  /\ step = "authorize" /\ reply = 0
  /\ version[latest] = 1
  /\ version' = [version EXCEPT ![latest] = 2]
  /\ pending' = MessagesAfter(latest)
  /\ reply' = 2
  /\ UNCHANGED <<overAt, source, connected, shown, refreshes, armed, step, latest,
                 faults, history>>

(* The answer replaces the session on the page. *)
AuthorizedArrives ==
  /\ step = "authorize" /\ reply # 0
  /\ shown' = [of |-> latest, version |-> reply]
  /\ newest' = Newer(newest, reply)
  /\ step' = "start"
  /\ UNCHANGED <<streamVars, refreshes, armed, reply, latest, polled, replaced, lost>>

(* schedulePoll: the timer is set anew. *)
Started ==
  /\ step = "start"
  /\ armed' = TRUE /\ polled' = TRUE
  /\ step' = "idle"
  /\ UNCHANGED <<streamVars, shown, refreshes, reply, latest, newest, replaced, lost>>

(* The server refuses, or a request or its answer is lost: the error is    *)
(* shown and the handler ends.                                             *)
SubmitFails ==
  /\ step # "idle"
  /\ \/ step = "create" /\ UNCHANGED faults
     \/ step = "authorize" /\ reply = 0 /\ UNCHANGED faults
     \/ step = "start" /\ UNCHANGED faults
     \/ Fault
  /\ step' = "idle"
  /\ UNCHANGED <<version, overAt, source, connected, pending, shown, refreshes, armed,
                 reply, latest, history>>
-----------------------------------------------------------------------------
(* refreshSession. *)

Refresh(r, poll) ==
  /\ refreshes[r] = NoRefresh
  /\ refreshes' = [refreshes EXCEPT ![r] = [of |-> shown.of, version |-> 0, poll |-> poll]]
  /\ UNCHANGED <<version, overAt, source, connected, faults, shown, step, reply,
                 latest, history>>

(* Faulty variant: a listener is called for a message that was not sent. *)
MessageAgain(r) ==
  /\ connected
  /\ pending' = pending - 1
  /\ Refresh(r, FALSE)
  /\ UNCHANGED armed

(* A message of the stream. *)
Message(r) ==
  /\ connected /\ pending > 0
  /\ pending' = pending - 1
  /\ Refresh(r, FALSE)
  /\ UNCHANGED armed

(* The poll timer. *)
Tick(r) ==
  /\ armed
  /\ armed' = FALSE
  /\ Refresh(r, TRUE)
  /\ UNCHANGED pending

InFlight(r) == refreshes[r] # NoRefresh

(* The server answers; the answer is on its way. *)
Answer(r) ==
  /\ InFlight(r) /\ refreshes[r].version = 0
  /\ refreshes' = [refreshes EXCEPT ![r].version = version[refreshes[r].of]]
  /\ UNCHANGED <<streamVars, shown, armed, step, reply, latest, history>>

(* Faulty variant: every refresh ends the timer. *)
ArmedAfterNever(poll, over) == armed /\ ~over

(* The timer once a refresh is over: the poll's callback sets it again     *)
(* unless the session is over; a refresh that shows a session that is over *)
(* clears it.                                                              *)
ArmedAfter(poll, over) == ~over /\ (armed \/ poll)

(* Faulty variant: a failed payment ends the page's watch like a terminal  *)
(* status does.                                                            *)
WatchEndsEarly(s, v) == Terminal(s, v) \/ v = MaxVersion[s]

(* The statuses at which the page stops watching. *)
WatchEnds(s, v) == Terminal(s, v)

(* The answer replaces what the page shows. *)
Apply(r) ==
  /\ refreshes[r].version # 0
  /\ LET answer == refreshes[r]
         over   == WatchEnds(answer.of, answer.version)
     IN  /\ shown' = [of |-> answer.of, version |-> answer.version]
         /\ \/ over /\ SourceCloses
            \/ ~over /\ UNCHANGED <<source, connected, pending>>
         /\ armed' = ArmedAfter(answer.poll, over)
         /\ replaced' = (replaced \/ answer.of # latest)
         /\ newest' = IF answer.of = latest THEN Newer(newest, answer.version) ELSE newest
  /\ refreshes' = [refreshes EXCEPT ![r] = NoRefresh]
  /\ UNCHANGED <<version, overAt, faults, step, reply, latest, polled, lost>>

(* One of the requests fails: the error is shown, nothing else changes. *)
RefreshFails(r) ==
  /\ InFlight(r) /\ Fault
  /\ refreshes' = [refreshes EXCEPT ![r] = NoRefresh]
  /\ armed' = (armed \/ (refreshes[r].poll /\ ~ShownTerminal))
  /\ lost' = TRUE
  /\ UNCHANGED <<version, overAt, source, connected, pending, shown, step, reply, latest,
                 polled, newest, replaced>>
-----------------------------------------------------------------------------
Server ==
  /\ (\E s \in Submissions : Change(s)) \/ Open \/ Drop
  /\ UNCHANGED pageVars

Handler == Created \/ Authorized \/ AuthorizedArrives \/ Started \/ SubmitFails

Next ==
  \/ Server \/ Submit \/ Handler
  \/ \E r \in Slots : Message(r) \/ Tick(r) \/ Answer(r) \/ Apply(r) \/ RefreshFails(r)

Spec == Init /\ [][Next]_vars

(* Requests are answered, timers fire, EventSource connects again and the  *)
(* browser handles what it received.  Nothing makes the user submit or the *)
(* session change.                                                         *)
FairSpec ==
  /\ Spec
  /\ WF_vars(Handler) /\ WF_vars(Open /\ UNCHANGED pageVars)
  /\ WF_vars(\E r \in Slots : Message(r)) /\ WF_vars(\E r \in Slots : Tick(r))
  /\ \A r \in Slots : WF_vars(Answer(r)) /\ WF_vars(Apply(r))
-----------------------------------------------------------------------------
(* Properties. *)

TypeOK ==
  /\ StreamTypeOK
  /\ shown \in [of : Submissions \cup {0}, version : Nat]
  /\ refreshes \in [Slots -> [of : Submissions \cup {0}, version : Nat, poll : BOOLEAN]]
  /\ armed \in BOOLEAN
  /\ step \in Step
  /\ reply \in Nat /\ latest \in Submissions \cup {0}
  /\ polled \in BOOLEAN /\ newest \in Nat /\ replaced \in BOOLEAN /\ lost \in BOOLEAN

Quiet == step = "idle" /\ \A r \in Slots : ~InFlight(r)

(* Nothing will make the page read the server again. *)
Unwatched == Quiet /\ source = 0 /\ ~armed

(* The page has shown an older answer after a newer one. *)
Overtaken == shown.of = latest /\ shown.version < newest

(* A page that watches no more shows a session that is over, the one it    *)
(* created last; or answers overtook each other.  (The overlapping         *)
(* refreshes of app.js: an old answer may replace the final one, and the   *)
(* answer for an earlier session may end the watch of the new one.)        *)
StopsWhenOver ==
  latest # 0 /\ Unwatched => ShownTerminal \/ Overtaken \/ replaced

(* No change is missed between the snapshot and the subscription, across   *)
(* reconnects: once the messages of an open stream are handled, the page   *)
(* has shown the last change of its session, even where nothing polls.     *)
StreamTellsLastChange ==
  connected /\ pending = 0 /\ Quiet /\ ~lost /\ ~replaced => newest = version[source]

(* A polled page shows the last change of its session again and again,     *)
(* through lost requests and connections; or it shows a session that is    *)
(* over, or answers overtook each other and nothing watches any more.      *)
PolledPageCatchesUp ==
  []<>(polled => \/ shown = [of |-> latest, version |-> version[latest]]
                 \/ ShownTerminal \/ Unwatched \/ replaced)
=============================================================================
