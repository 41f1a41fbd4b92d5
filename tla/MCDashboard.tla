---------------------------- MODULE MCDashboard ----------------------------
(***************************************************************************)
(* Two submissions of a page.  The first session is created and authorized *)
(* or changed once; the second is changed once more.                       *)
(***************************************************************************)
EXTENDS Dashboard

Changes == [s \in Submissions |-> s + 1]
=============================================================================
