-------------------------- MODULE Dashboard_proofs --------------------------
(***************************************************************************)
(* Proofs about the page and its stream, for any number of submissions,    *)
(* overlapping refreshes, changes of a session and faults.                 *)
(***************************************************************************)
EXTENDS Dashboard, TLAPS

(* A refresh reads a session that was created. *)
RefreshInv(r) ==
  InFlight(r) => /\ refreshes[r].of # 0 /\ latest # 0 /\ refreshes[r].of <= latest
                 /\ refreshes[r].version <= version[refreshes[r].of]

(* Answers tell versions that were committed; the page has shown none      *)
(* newer than `newest` of its session.                                     *)
AnswersInv ==
  /\ latest # 0 => version[latest] >= 1 /\ newest <= version[latest]
  /\ step = "create" => latest + 1 \in Submissions
  /\ step \in {"authorize", "start"} => latest # 0
  /\ step = "authorize" => reply <= version[latest]
  /\ armed => latest # 0
  /\ shown.of <= latest
  /\ \A r \in Slots : RefreshInv(r)
  /\ shown.of = latest => shown.version <= newest

(* The stream belongs to the session created last, and so does what the    *)
(* page shows unless a late answer replaced it.                            *)
LatestInv ==
  /\ source \in {0, latest}
  /\ connected => source # 0
  /\ latest = 0 <=> shown.of = 0
  /\ ~replaced => shown.of = latest

(* A refresh that has told, or will tell, the last change of the session.  *)
Tells(r) ==
  /\ InFlight(r) /\ refreshes[r].of = latest
  /\ refreshes[r].version \in {0, version[latest]}

(* A change that the page has not shown yet is on its way to it. *)
ToldInv ==
  connected /\ ~lost /\ ~replaced =>
    newest = version[latest] \/ pending > 0 \/ \E r \in Slots : Tells(r)

(* The stream is closed once a terminal status has been shown. *)
ClosedInv == latest # 0 /\ source = 0 /\ ~replaced => Terminal(latest, newest)

PageInv == TypeOK /\ AnswersInv /\ LatestInv /\ ToldInv /\ ClosedInv

LEMMA SessionsAreNat == \A s \in Submissions \cup {0} : s \in Nat
  BY SubmissionAssumption

LEMMA PageInvInit == Init => PageInv
<1> SUFFICES ASSUME Init PROVE PageInv
  OBVIOUS
<1> USE SubmissionAssumption DEF Init, StreamInit
<1>1. TypeOK
  BY DEF TypeOK, StreamTypeOK, NoRefresh, Step
<1>2. AnswersInv /\ LatestInv
  BY DEF AnswersInv, RefreshInv, LatestInv, InFlight
<1>3. ToldInv /\ ClosedInv
  BY DEF ToldInv, ClosedInv
<1> QED
  BY <1>1, <1>2, <1>3 DEF PageInv

InFlightRefresh == [of : Submissions \cup {0}, version : Nat, poll : BOOLEAN]

LEMMA RefreshEffect ==
  ASSUME NEW r, NEW poll, Refresh(r, poll)
  PROVE  /\ refreshes' = [refreshes EXCEPT ![r] = [of |-> shown.of, version |-> 0, poll |-> poll]]
         /\ UNCHANGED <<version, overAt, source, connected, faults, shown, step, reply, latest,
                        polled, newest, replaced, lost>>
BY DEF Refresh, history

LEMMA AnswerEffect ==
  ASSUME TypeOK, AnswersInv, NEW r \in Slots, Answer(r)
  PROVE  /\ refreshes' = [refreshes EXCEPT ![r] = refreshes'[r]]
         /\ refreshes'[r] \in InFlightRefresh
         /\ refreshes'[r].of = refreshes[r].of
         /\ refreshes'[r].version = version[refreshes[r].of]
<1>1. /\ refreshes'[r].of = refreshes[r].of
      /\ refreshes'[r].poll = refreshes[r].poll
      /\ refreshes'[r].version = version[refreshes[r].of]
  BY DEF Answer, TypeOK
<1>2. version[refreshes[r].of] \in Nat
  BY DEF Answer, TypeOK, StreamTypeOK, AnswersInv, RefreshInv
<1>3. refreshes'[r] \in InFlightRefresh
  BY <1>1, <1>2 DEF Answer, TypeOK, InFlightRefresh
<1> QED
  BY <1>1, <1>3 DEF Answer

LEMMA ApplyEffect ==
  ASSUME TypeOK, NEW r \in Slots, Apply(r)
  PROVE  /\ InFlight(r)
         /\ shown' = [of |-> refreshes[r].of, version |-> refreshes[r].version]
         /\ refreshes' = [refreshes EXCEPT ![r] = NoRefresh]
         /\ armed' \in BOOLEAN /\ replaced' \in BOOLEAN
         /\ ~replaced' => ~replaced /\ refreshes[r].of = latest
         /\ newest' = IF refreshes[r].of = latest THEN Newer(newest, refreshes[r].version)
                                                 ELSE newest
         /\ \/ /\ Terminal(refreshes[r].of, refreshes[r].version)
               /\ source' = 0 /\ connected' = FALSE /\ pending' = 0
            \/ UNCHANGED <<source, connected, pending>>
         /\ UNCHANGED <<version, overAt, faults, step, reply, latest, polled, lost>>
<1>1. InFlight(r)
  BY DEF Apply, InFlight, NoRefresh
<1>2. armed' \in BOOLEAN /\ replaced' \in BOOLEAN
  BY DEF Apply, ArmedAfter
<1>3. ~replaced' => ~replaced /\ refreshes[r].of = latest
  BY DEF Apply
<1>4. \/ /\ Terminal(refreshes[r].of, refreshes[r].version)
         /\ source' = 0 /\ connected' = FALSE /\ pending' = 0
      \/ UNCHANGED <<source, connected, pending>>
  BY DEF Apply, WatchEnds, SourceCloses
<1> QED
  BY <1>1, <1>2, <1>3, <1>4 DEF Apply

LEMMA TypeStep == TypeOK /\ AnswersInv /\ [Next]_vars => TypeOK'
<1> SUFFICES ASSUME TypeOK /\ AnswersInv, [Next]_vars PROVE TypeOK'
  OBVIOUS
<1> USE SubmissionAssumption
<1>1. ASSUME NEW s \in Submissions, Change(s), UNCHANGED pageVars PROVE TypeOK'
  BY <1>1 DEF Change, MessagesAfter, StreamTypeOK, TypeOK, pageVars
<1>2. ASSUME Open, UNCHANGED pageVars PROVE TypeOK'
  BY <1>2 DEF MessagesAtOpen, Open, StreamTypeOK, TypeOK, pageVars
<1>3. ASSUME Drop, UNCHANGED pageVars PROVE TypeOK'
  <2>1. connected' \in BOOLEAN /\ pending' \in Nat
    BY <1>3 DEF Drop
  <2>2. faults' \in Nat
    BY <1>3 DEF Drop, Fault, TypeOK, StreamTypeOK
  <2>3. UNCHANGED <<version, overAt, source>>
    BY <1>3 DEF Drop
  <2> QED
    BY <2>1, <2>2, <2>3, <1>3 DEF StreamTypeOK, TypeOK, pageVars
<1>4. CASE Submit
  BY <1>4 DEF Step, StreamTypeOK, Submit, TypeOK, history, streamVars
<1>5. CASE Created
  <2>1. latest + 1 \in Submissions
    BY <1>5 DEF Created, AnswersInv
  <2>2. /\ version' = [version EXCEPT ![latest + 1] = 1]
        /\ latest' = latest + 1 /\ shown' = [of |-> latest + 1, version |-> 1]
        /\ source' = latest + 1 /\ connected' = FALSE /\ pending' = 0
        /\ step' = "authorize" /\ reply' = 0
        /\ polled' = FALSE /\ newest' = 1 /\ replaced' = FALSE /\ lost' = FALSE
        /\ UNCHANGED <<overAt, refreshes, armed, faults>>
    BY <1>5 DEF Created, SourceConnects
  <2> QED
    BY <2>1, <2>2 DEF Step, StreamTypeOK, TypeOK
<1>6. CASE Authorized
  <2>1. pending' \in Nat
    BY <1>6 DEF Authorized, MessagesAfter, TypeOK, StreamTypeOK
  <2> QED
    BY <2>1, <1>6 DEF Authorized, StreamTypeOK, TypeOK, history
<1>7. CASE AuthorizedArrives
  BY <1>7 DEF AuthorizedArrives, Newer, Step, StreamTypeOK, TypeOK, streamVars
<1>8. CASE Started
  BY <1>8 DEF Started, Step, StreamTypeOK, TypeOK, streamVars
<1>9. CASE SubmitFails
  BY <1>9 DEF Fault, Step, StreamTypeOK, SubmitFails, TypeOK, history
<1>10. ASSUME NEW r \in Slots, Message(r) PROVE TypeOK'
  <2>1. pending' \in Nat
    BY <1>10 DEF Message, TypeOK, StreamTypeOK
  <2>3. UNCHANGED armed /\ Refresh(r, FALSE)
    BY <1>10 DEF Message
  <2>2. refreshes' = [refreshes EXCEPT ![r] = [of |-> shown.of, version |-> 0, poll |-> FALSE]]
        /\ UNCHANGED <<version, overAt, source, connected, faults, shown, step, reply, latest,
                        polled, newest, replaced, lost>>
    BY <2>3, RefreshEffect
  <2> QED
    BY <2>1, <2>2, <2>3 DEF StreamTypeOK, TypeOK
<1>11. ASSUME NEW r \in Slots, Tick(r) PROVE TypeOK'
  BY <1>11 DEF Refresh, StreamTypeOK, Tick, TypeOK, history
<1>12. ASSUME NEW r \in Slots, Answer(r) PROVE TypeOK'
  <2>1. refreshes' = [refreshes EXCEPT ![r] = refreshes'[r]] /\ refreshes'[r] \in InFlightRefresh
    BY <1>12, AnswerEffect
  <2>2. refreshes' \in [Slots -> InFlightRefresh]
    BY <2>1 DEF InFlightRefresh, TypeOK
  <2> QED
    BY <2>2, <1>12 DEF Answer, InFlightRefresh, StreamTypeOK, TypeOK, history, streamVars
<1>13. ASSUME NEW r \in Slots, Apply(r) PROVE TypeOK'
  <2>1. refreshes[r] \in InFlightRefresh
    BY <1>13 DEF TypeOK, InFlightRefresh
  <2>2. /\ shown' = [of |-> refreshes[r].of, version |-> refreshes[r].version]
        /\ refreshes' = [refreshes EXCEPT ![r] = NoRefresh]
        /\ armed' \in BOOLEAN /\ replaced' \in BOOLEAN
        /\ newest' \in {newest, refreshes[r].version}
        /\ \/ source' = 0 /\ connected' = FALSE /\ pending' = 0
           \/ UNCHANGED <<source, connected, pending>>
        /\ UNCHANGED <<version, overAt, faults, step, reply, latest, polled, lost>>
    BY <1>13, ApplyEffect DEF Newer
  <2>3. refreshes' \in [Slots -> InFlightRefresh]
    BY <2>2 DEF InFlightRefresh, TypeOK, NoRefresh
  <2>6. source' \in Submissions \cup {0} /\ pending' \in Nat
    BY <2>2 DEF TypeOK, StreamTypeOK
  <2>7. connected' \in BOOLEAN
    BY <2>2 DEF TypeOK, StreamTypeOK
  <2>4. StreamTypeOK'
    BY <2>2, <2>6, <2>7 DEF TypeOK, StreamTypeOK
  <2>5. newest' \in Nat /\ shown' \in [of : Submissions \cup {0}, version : Nat]
    BY <2>1, <2>2 DEF TypeOK, InFlightRefresh
  <2> QED
    BY <2>2, <2>3, <2>4, <2>5 DEF TypeOK, InFlightRefresh
<1>14. ASSUME NEW r \in Slots, RefreshFails(r) PROVE TypeOK'
  BY <1>14 DEF Fault, NoRefresh, RefreshFails, StreamTypeOK, TypeOK
<1>15. CASE UNCHANGED vars
  BY <1>15 DEF StreamTypeOK, TypeOK, pageVars, streamVars, vars
<1> QED
  BY <1>1, <1>2, <1>3, <1>4, <1>5, <1>6, <1>7, <1>8, <1>9, <1>10, <1>11, <1>12, <1>13, <1>14,
       <1>15 DEF Next, Server, Handler

LEMMA AnswersStep == TypeOK /\ AnswersInv /\ LatestInv /\ [Next]_vars => AnswersInv'
<1> SUFFICES ASSUME TypeOK /\ AnswersInv /\ LatestInv, [Next]_vars PROVE AnswersInv'
  OBVIOUS
<1> USE SubmissionAssumption
<1>1. ASSUME NEW s \in Submissions, Change(s), UNCHANGED pageVars PROVE AnswersInv'
  BY <1>1 DEF AnswersInv, Change, InFlight, MessagesAfter, RefreshInv, TypeOK, pageVars
<1>2. ASSUME Open, UNCHANGED pageVars PROVE AnswersInv'
  BY <1>2 DEF AnswersInv, InFlight, MessagesAtOpen, Open, RefreshInv, pageVars
<1>3. ASSUME Drop, UNCHANGED pageVars PROVE AnswersInv'
  BY <1>3 DEF AnswersInv, Drop, Fault, InFlight, RefreshInv, pageVars
<1>4. CASE Submit
  BY <1>4 DEF AnswersInv, InFlight, RefreshInv, Submit, history, streamVars
<1>5. CASE Created
  <2>1. latest + 1 \in Submissions
    BY <1>5 DEF Created, AnswersInv
  <2>2. /\ version' = [version EXCEPT ![latest + 1] = 1]
        /\ latest' = latest + 1 /\ shown' = [of |-> latest + 1, version |-> 1]
        /\ source' = latest + 1 /\ connected' = FALSE /\ pending' = 0
        /\ step' = "authorize" /\ reply' = 0
        /\ newest' = 1 /\ replaced' = FALSE
        /\ UNCHANGED <<overAt, refreshes>>
    BY <1>5 DEF Created, SourceConnects
  <2>3. ASSUME NEW q \in Slots, InFlight(q) PROVE RefreshInv(q)'
    <3>5. refreshes[q].of \in Submissions \cup {0} /\ latest \in Submissions \cup {0}
      BY <2>3 DEF TypeOK
    <3>3. refreshes[q].of \in Nat /\ latest \in Nat
      BY <3>5, SessionsAreNat
    <3>4. refreshes[q].of <= latest
      BY <2>3 DEF AnswersInv, RefreshInv
    <3>1. refreshes[q].of # latest + 1 /\ refreshes[q].of <= latest' /\ latest' # 0
      BY <2>2, <3>3, <3>4
    <3>2. version'[refreshes[q].of] = version[refreshes[q].of]
      BY <2>2, <2>3, <3>1 DEF TypeOK
    <3> QED
      BY <2>2, <2>3, <3>1, <3>2 DEF AnswersInv, RefreshInv
  <2>4. \A q \in Slots : RefreshInv(q)'
    BY <2>2, <2>3 DEF RefreshInv, InFlight
  <2> QED
    BY <2>1, <2>2, <2>4 DEF AnswersInv, TypeOK, StreamTypeOK
<1>6. CASE Authorized
  BY <1>6 DEF AnswersInv, Authorized, InFlight, MessagesAfter, RefreshInv, StreamTypeOK,
       TypeOK, history
<1>7. CASE AuthorizedArrives
  BY <1>7 DEF AnswersInv, AuthorizedArrives, InFlight, Newer, RefreshInv, TypeOK, streamVars
<1>8. CASE Started
  BY <1>8 DEF AnswersInv, InFlight, RefreshInv, Started, streamVars
<1>9. CASE SubmitFails
  BY <1>9 DEF AnswersInv, Fault, InFlight, RefreshInv, SubmitFails, history
<1>10. ASSUME NEW r \in Slots, Message(r) PROVE AnswersInv'
  <2>1. Refresh(r, FALSE)
    BY <1>10 DEF Message
  <2>2. /\ refreshes' = [refreshes EXCEPT ![r] = [of |-> shown.of, version |-> 0, poll |-> FALSE]]
        /\ UNCHANGED <<version, overAt, source, connected, shown, step, reply, latest,
                       newest, replaced, lost>>
    BY <2>1, RefreshEffect
  <2>3. latest # 0 /\ shown.of # 0 /\ UNCHANGED armed
    BY <1>10 DEF Message, LatestInv
  <2>4. ASSUME NEW q \in Slots PROVE RefreshInv(q)'
    <3>1. CASE q = r
      <4>1. refreshes'[r].of = shown.of /\ refreshes'[r].version = 0
        BY <2>2, <3>1 DEF TypeOK
      <4>2. version'[shown.of] \in Nat
        BY <2>2, <2>3 DEF TypeOK, StreamTypeOK
      <4> QED
        BY <2>2, <2>3, <3>1, <4>1, <4>2 DEF AnswersInv, RefreshInv
    <3>2. CASE q # r
      BY <2>2, <3>2 DEF AnswersInv, RefreshInv, InFlight
    <3> QED
      BY <3>1, <3>2
  <2> QED
    BY <2>2, <2>3, <2>4 DEF AnswersInv
<1>11. ASSUME NEW r \in Slots, Tick(r) PROVE AnswersInv'
  <2>1. Refresh(r, TRUE)
    BY <1>11 DEF Tick
  <2>2. /\ refreshes' = [refreshes EXCEPT ![r] = [of |-> shown.of, version |-> 0, poll |-> TRUE]]
        /\ UNCHANGED <<version, overAt, source, connected, shown, step, reply, latest,
                       newest, replaced, lost>>
    BY <2>1, RefreshEffect
  <2>3. latest # 0 /\ shown.of # 0
    BY <1>11 DEF Tick, LatestInv, AnswersInv
  <2>4. ASSUME NEW q \in Slots PROVE RefreshInv(q)'
    <3>1. CASE q = r
      <4>1. refreshes'[r].of = shown.of /\ refreshes'[r].version = 0
        BY <2>2, <3>1 DEF TypeOK
      <4>2. version'[shown.of] \in Nat
        BY <2>2, <2>3 DEF TypeOK, StreamTypeOK
      <4> QED
        BY <2>2, <2>3, <3>1, <4>1, <4>2 DEF AnswersInv, RefreshInv
    <3>2. CASE q # r
      BY <2>2, <3>2 DEF AnswersInv, RefreshInv, InFlight
    <3> QED
      BY <3>1, <3>2
  <2> QED
    BY <2>2, <2>3, <2>4 DEF AnswersInv
<1>12. ASSUME NEW r \in Slots, Answer(r) PROVE AnswersInv'
  <2>1. /\ refreshes' = [refreshes EXCEPT ![r] = refreshes'[r]]
        /\ refreshes'[r].of = refreshes[r].of
        /\ refreshes'[r].version = version[refreshes[r].of]
    BY <1>12, AnswerEffect
  <2>2. UNCHANGED <<version, overAt, source, connected, shown, step, reply, latest,
                    newest, replaced, lost, pending>>
    BY <1>12 DEF Answer, streamVars, history
  <2>3. latest # 0 /\ refreshes[r].of # 0 /\ refreshes[r].of <= latest /\ UNCHANGED armed
    BY <1>12 DEF Answer, AnswersInv, RefreshInv
  <2>4. ASSUME NEW q \in Slots PROVE RefreshInv(q)'
    <3>1. CASE q = r
      <4>1. version[refreshes[r].of] \in Nat
        BY <2>3, <3>1 DEF TypeOK, StreamTypeOK
      <4> QED
        BY <2>1, <2>2, <2>3, <3>1, <4>1 DEF RefreshInv
    <3>2. CASE q # r
      BY <2>1, <2>2, <3>2 DEF AnswersInv, RefreshInv, InFlight, TypeOK
    <3> QED
      BY <3>1, <3>2
  <2> QED
    BY <2>2, <2>3, <2>4 DEF AnswersInv
<1>13. ASSUME NEW r \in Slots, Apply(r) PROVE AnswersInv'
  <2>1. refreshes[r] \in InFlightRefresh /\ InFlight(r)
    BY <1>13, ApplyEffect DEF TypeOK, InFlightRefresh
  <2>2. /\ shown' = [of |-> refreshes[r].of, version |-> refreshes[r].version]
        /\ refreshes' = [refreshes EXCEPT ![r] = NoRefresh]
        /\ newest' = IF refreshes[r].of = latest THEN Newer(newest, refreshes[r].version)
                                                ELSE newest
        /\ UNCHANGED <<version, overAt, step, reply, latest, lost>>
    BY <1>13, ApplyEffect
  <2>3. latest # 0 /\ refreshes[r].version <= version[refreshes[r].of]
    BY <2>1 DEF AnswersInv, RefreshInv
  <2>4. ASSUME NEW q \in Slots PROVE RefreshInv(q)'
    BY <2>2 DEF AnswersInv, RefreshInv, InFlight
  <2> QED
    <3>1. version[latest] \in Nat /\ newest \in Nat /\ refreshes[r].version \in Nat
      BY <2>1, <2>3 DEF InFlightRefresh, TypeOK, StreamTypeOK
    <3>2. (newest <= version[latest])' /\ (shown.of = latest => shown.version <= newest)'
      BY <2>2, <2>3, <3>1 DEF AnswersInv, Newer
    <3>3. (step = "authorize" => reply <= version[latest])' /\ (version[latest] >= 1)'
      BY <2>2, <2>3 DEF AnswersInv
    <3>4. (shown.of <= latest)' /\ latest' # 0
      BY <2>1, <2>2, <2>3 DEF AnswersInv, RefreshInv
    <3> QED
      BY <2>2, <2>4, <3>2, <3>3, <3>4 DEF AnswersInv
<1>14. ASSUME NEW r \in Slots, RefreshFails(r) PROVE AnswersInv'
  BY <1>14 DEF AnswersInv, Fault, InFlight, RefreshFails, RefreshInv
<1>15. CASE UNCHANGED vars
  BY <1>15 DEF AnswersInv, InFlight, RefreshInv, pageVars, streamVars, vars
<1> QED
  BY <1>1, <1>2, <1>3, <1>4, <1>5, <1>6, <1>7, <1>8, <1>9, <1>10, <1>11, <1>12, <1>13, <1>14,
       <1>15 DEF Next, Server, Handler

LEMMA LatestStep == TypeOK /\ AnswersInv /\ LatestInv /\ [Next]_vars => LatestInv'
<1> SUFFICES ASSUME TypeOK /\ AnswersInv /\ LatestInv, [Next]_vars PROVE LatestInv'
  OBVIOUS
<1> USE SubmissionAssumption
<1>1. ASSUME NEW s \in Submissions, Change(s), UNCHANGED pageVars PROVE LatestInv'
  BY <1>1 DEF Change, LatestInv, MessagesAfter, pageVars
<1>2. ASSUME Open, UNCHANGED pageVars PROVE LatestInv'
  BY <1>2 DEF LatestInv, MessagesAtOpen, Open, pageVars
<1>3. ASSUME Drop, UNCHANGED pageVars PROVE LatestInv'
  BY <1>3 DEF Drop, Fault, LatestInv, pageVars
<1>4. CASE Submit
  BY <1>4 DEF LatestInv, Submit, history, streamVars
<1>5. CASE Created
  BY <1>5 DEF Created, LatestInv, SourceConnects
<1>6. CASE Authorized
  BY <1>6 DEF Authorized, LatestInv, MessagesAfter, history
<1>7. CASE AuthorizedArrives
  BY <1>7 DEF AuthorizedArrives, LatestInv, Newer, streamVars
<1>8. CASE Started
  BY <1>8 DEF LatestInv, Started, streamVars
<1>9. CASE SubmitFails
  BY <1>9 DEF Fault, LatestInv, SubmitFails, history
<1>10. ASSUME NEW r \in Slots, Message(r) PROVE LatestInv'
  BY <1>10 DEF LatestInv, Message, Refresh, history
<1>11. ASSUME NEW r \in Slots, Tick(r) PROVE LatestInv'
  BY <1>11 DEF LatestInv, Refresh, Tick, history
<1>12. ASSUME NEW r \in Slots, Answer(r) PROVE LatestInv'
  BY <1>12 DEF Answer, LatestInv, history, streamVars
<1>13. ASSUME NEW r \in Slots, Apply(r) PROVE LatestInv'
  <2>1. refreshes[r] \in InFlightRefresh /\ InFlight(r)
    BY <1>13, ApplyEffect DEF TypeOK, InFlightRefresh
  <2>2. /\ shown' = [of |-> refreshes[r].of, version |-> refreshes[r].version]
        /\ refreshes' = [refreshes EXCEPT ![r] = NoRefresh]
        /\ newest' = IF refreshes[r].of = latest THEN Newer(newest, refreshes[r].version)
                                                ELSE newest
        /\ UNCHANGED <<version, overAt, step, reply, latest, lost>>
    BY <1>13, ApplyEffect
  <2>3. ~replaced' => refreshes[r].of = latest
    BY <1>13, ApplyEffect
  <2>4. \/ source' = 0 /\ connected' = FALSE
        \/ UNCHANGED <<source, connected>>
    BY <1>13, ApplyEffect
  <2> QED
    BY <2>1, <2>2, <2>3, <2>4 DEF LatestInv, AnswersInv, RefreshInv
<1>14. ASSUME NEW r \in Slots, RefreshFails(r) PROVE LatestInv'
  BY <1>14 DEF Fault, LatestInv, RefreshFails
<1>15. CASE UNCHANGED vars
  BY <1>15 DEF LatestInv, pageVars, streamVars, vars
<1> QED
  BY <1>1, <1>2, <1>3, <1>4, <1>5, <1>6, <1>7, <1>8, <1>9, <1>10, <1>11, <1>12, <1>13, <1>14,
       <1>15 DEF Next, Server, Handler

LEMMA ToldStep == TypeOK /\ AnswersInv /\ LatestInv /\ ToldInv /\ [Next]_vars => ToldInv'
<1> SUFFICES ASSUME TypeOK /\ AnswersInv /\ LatestInv /\ ToldInv, [Next]_vars PROVE ToldInv'
  OBVIOUS
<1> USE SubmissionAssumption
<1>1. ASSUME NEW s \in Submissions, Change(s), UNCHANGED pageVars PROVE ToldInv'
  BY <1>1 DEF Change, InFlight, LatestInv, MessagesAfter, StreamTypeOK, Tells, ToldInv, TypeOK,
       pageVars
<1>2. ASSUME Open, UNCHANGED pageVars PROVE ToldInv'
  BY <1>2 DEF MessagesAtOpen, Open, ToldInv
<1>3. ASSUME Drop, UNCHANGED pageVars PROVE ToldInv'
  BY <1>3 DEF Drop, Fault, ToldInv
<1>4. CASE Submit
  BY <1>4 DEF InFlight, Submit, Tells, ToldInv, history, streamVars
<1>5. CASE Created
  BY <1>5 DEF Created, SourceConnects, ToldInv
<1>6. CASE Authorized
  BY <1>6 DEF Authorized, LatestInv, MessagesAfter, StreamTypeOK, ToldInv, TypeOK
<1>7. CASE AuthorizedArrives
  BY <1>7 DEF AnswersInv, AuthorizedArrives, InFlight, Newer, Tells, ToldInv, TypeOK, streamVars
<1>8. CASE Started
  BY <1>8 DEF InFlight, Started, Tells, ToldInv, streamVars
<1>9. CASE SubmitFails
  BY <1>9 DEF Fault, InFlight, SubmitFails, Tells, ToldInv, history
<1>10. ASSUME NEW r \in Slots, Message(r) PROVE ToldInv'
  BY <1>10 DEF InFlight, LatestInv, Message, NoRefresh, Refresh, Tells, ToldInv, TypeOK, history
<1>11. ASSUME NEW r \in Slots, Tick(r) PROVE ToldInv'
  BY <1>11 DEF InFlight, Refresh, Tells, Tick, ToldInv, history
<1>12. ASSUME NEW r \in Slots, Answer(r) PROVE ToldInv'
  BY <1>12 DEF Answer, InFlight, NoRefresh, Tells, ToldInv, TypeOK, history, streamVars
<1>13. ASSUME NEW r \in Slots, Apply(r) PROVE ToldInv'
  <2>1. refreshes[r] \in InFlightRefresh /\ InFlight(r)
    BY <1>13, ApplyEffect DEF TypeOK, InFlightRefresh
  <2>2. /\ shown' = [of |-> refreshes[r].of, version |-> refreshes[r].version]
        /\ refreshes' = [refreshes EXCEPT ![r] = NoRefresh]
        /\ newest' = IF refreshes[r].of = latest THEN Newer(newest, refreshes[r].version)
                                                ELSE newest
        /\ UNCHANGED <<version, overAt, step, reply, latest, lost>>
    BY <1>13, ApplyEffect
  <2>3. ~replaced' => ~replaced /\ refreshes[r].of = latest
    BY <1>13, ApplyEffect
  <2>4. \/ connected' = FALSE
        \/ UNCHANGED <<connected, pending>>
    BY <1>13, ApplyEffect
  <2>5. CASE ~(connected' /\ ~lost' /\ ~replaced')
    BY <2>5 DEF ToldInv
  <2>6. CASE connected' /\ ~lost' /\ ~replaced'
    <3>1. connected /\ ~lost /\ ~replaced /\ pending' = pending
      BY <2>2, <2>3, <2>4, <2>6
    <3>2. CASE newest = version[latest] \/ pending > 0
      BY <2>1, <2>2, <3>1, <3>2 DEF ToldInv, RefreshInv, TypeOK, AnswersInv, Newer, InFlightRefresh
    <3>3. ASSUME NEW q \in Slots, Tells(q) PROVE ToldInv'
      BY <1>13, <2>1, <2>2, <2>3, <2>6, <3>1, <3>3 DEF ToldInv, RefreshInv, TypeOK, AnswersInv,
           Newer, InFlightRefresh, Tells, InFlight, Apply
    <3> QED
      BY <3>1, <3>2, <3>3 DEF ToldInv
  <2> QED
    BY <2>5, <2>6
<1>14. ASSUME NEW r \in Slots, RefreshFails(r) PROVE ToldInv'
  BY <1>14 DEF Fault, RefreshFails, ToldInv
<1>15. CASE UNCHANGED vars
  BY <1>15 DEF InFlight, Tells, ToldInv, pageVars, streamVars, vars
<1> QED
  BY <1>1, <1>2, <1>3, <1>4, <1>5, <1>6, <1>7, <1>8, <1>9, <1>10, <1>11, <1>12, <1>13, <1>14,
       <1>15 DEF Next, Server, Handler

LEMMA ClosedStep == TypeOK /\ AnswersInv /\ LatestInv /\ ClosedInv /\ [Next]_vars => ClosedInv'
<1> SUFFICES ASSUME TypeOK /\ AnswersInv /\ LatestInv /\ ClosedInv, [Next]_vars PROVE ClosedInv'
  OBVIOUS
<1> USE SubmissionAssumption
<1>1. ASSUME NEW s \in Submissions, Change(s), UNCHANGED pageVars PROVE ClosedInv'
  BY <1>1 DEF Change, ClosedInv, MessagesAfter, StreamTypeOK, Terminal, TypeOK, pageVars
<1>2. ASSUME Open, UNCHANGED pageVars PROVE ClosedInv'
  BY <1>2 DEF ClosedInv, MessagesAtOpen, Open, Terminal
<1>3. ASSUME Drop, UNCHANGED pageVars PROVE ClosedInv'
  BY <1>3 DEF ClosedInv, Drop, Fault, Terminal, pageVars
<1>4. CASE Submit
  BY <1>4 DEF ClosedInv, Submit, Terminal, history, streamVars
<1>5. CASE Created
  BY <1>5 DEF ClosedInv, Created, SourceConnects, Terminal
<1>6. CASE Authorized
  BY <1>6 DEF Authorized, ClosedInv, MessagesAfter, Terminal, history
<1>7. CASE AuthorizedArrives
  BY <1>7 DEF AuthorizedArrives, ClosedInv, Newer, StreamTypeOK, Terminal, TypeOK, streamVars
<1>8. CASE Started
  BY <1>8 DEF ClosedInv, Started, Terminal, streamVars
<1>9. CASE SubmitFails
  BY <1>9 DEF ClosedInv, Fault, SubmitFails, Terminal, history
<1>10. ASSUME NEW r \in Slots, Message(r) PROVE ClosedInv'
  BY <1>10 DEF ClosedInv, Message, Refresh, Terminal, history
<1>11. ASSUME NEW r \in Slots, Tick(r) PROVE ClosedInv'
  BY <1>11 DEF ClosedInv, Refresh, Terminal, Tick, history
<1>12. ASSUME NEW r \in Slots, Answer(r) PROVE ClosedInv'
  BY <1>12 DEF Answer, ClosedInv, Terminal, history, streamVars
<1>13. ASSUME NEW r \in Slots, Apply(r) PROVE ClosedInv'
  <2>1. refreshes[r] \in InFlightRefresh /\ InFlight(r)
    BY <1>13, ApplyEffect DEF TypeOK, InFlightRefresh
  <2>2. /\ shown' = [of |-> refreshes[r].of, version |-> refreshes[r].version]
        /\ refreshes' = [refreshes EXCEPT ![r] = NoRefresh]
        /\ newest' = IF refreshes[r].of = latest THEN Newer(newest, refreshes[r].version)
                                                ELSE newest
        /\ UNCHANGED <<version, overAt, step, reply, latest, lost>>
    BY <1>13, ApplyEffect
  <2>3. ~replaced' => ~replaced /\ refreshes[r].of = latest
    BY <1>13, ApplyEffect
  <2>4. \/ Terminal(refreshes[r].of, refreshes[r].version)
        \/ UNCHANGED source
    BY <1>13, ApplyEffect
  <2> QED
    BY <2>1, <2>2, <2>3, <2>4 DEF TypeOK, StreamTypeOK, ClosedInv, Terminal, Newer, InFlightRefresh
<1>14. ASSUME NEW r \in Slots, RefreshFails(r) PROVE ClosedInv'
  BY <1>14 DEF ClosedInv, Fault, RefreshFails, Terminal
<1>15. CASE UNCHANGED vars
  BY <1>15 DEF ClosedInv, Terminal, pageVars, streamVars, vars
<1> QED
  BY <1>1, <1>2, <1>3, <1>4, <1>5, <1>6, <1>7, <1>8, <1>9, <1>10, <1>11, <1>12, <1>13, <1>14,
       <1>15 DEF Next, Server, Handler

(* The page, its stream and the server keep together: the inductive       *)
(* invariant of the module, from which the three results below follow.     *)
THEOREM PageInvariant == Spec => []PageInv
<1>1. PageInv /\ [Next]_vars => PageInv'
  BY TypeStep, AnswersStep, LatestStep, ToldStep, ClosedStep DEF PageInv
<1> QED
  BY PageInvInit, <1>1, PTL DEF Spec

(* Every variable of the page and of the stream keeps its type. *)
THEOREM PageTypeCorrect == Spec => []TypeOK
<1>1. PageInv => TypeOK
  BY DEF PageInv
<1> QED
  BY <1>1, PageInvariant, PTL

(* A page that stopped watching shows a session that is over, or answers   *)
(* overtook each other.                                                    *)
THEOREM PageStopsWhenOver == Spec => []StopsWhenOver
<1>1. PageInv => StopsWhenOver
  <2> SUFFICES ASSUME PageInv, latest # 0, Unwatched, ~replaced, ~Overtaken
               PROVE  ShownTerminal
    BY DEF StopsWhenOver
  <2>1. shown.of = latest /\ shown.version = newest
    BY DEF PageInv, LatestInv, AnswersInv, Overtaken, TypeOK
  <2>2. Terminal(latest, newest)
    BY DEF PageInv, ClosedInv, Unwatched
  <2> QED
    BY <2>1, <2>2 DEF ShownTerminal
<1> QED
  BY <1>1, PageInvariant, PTL

(* Once the messages of an open stream are handled the page has shown the  *)
(* last change of its session.                                             *)
THEOREM StreamsTellLastChanges == Spec => []StreamTellsLastChange
<1>1. PageInv => StreamTellsLastChange
  <2> SUFFICES ASSUME PageInv, connected, pending = 0, Quiet, ~lost, ~replaced
               PROVE  newest = version[source]
    BY DEF StreamTellsLastChange
  <2>1. source = latest
    BY DEF PageInv, LatestInv
  <2>2. \A r \in Slots : ~Tells(r)
    BY DEF Quiet, Tells
  <2> QED
    BY <2>1, <2>2 DEF PageInv, ToldInv
<1> QED
  BY <1>1, PageInvariant, PTL

=============================================================================
