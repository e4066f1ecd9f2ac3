---------------------------- MODULE MCWebSession -----------------------------
(***************************************************************************)
(* WebSession on a small instance, of two kinds: one tab with two calls at *)
(* a time, or two tabs and two users with one call at a time in each tab.  *)
(***************************************************************************)
EXTENDS WebSession

CONSTANTS u1, u2, t1, t2, c1, c2

VARIABLE tabs  \* the tabs in use; never changes

MCInit == Init /\ tabs \in {{t1}, {t1, t2}}

OneTab ==
  /\ \A s \in open' : s.user = u1
  /\ call'[t2] = call[t2]

TwoTabs ==
  /\ Len(given') <= 2
  /\ \A t \in Tabs : call'[t][c2] = Idle

MCNext ==
  /\ Next
  /\ IF tabs = {t1} THEN OneTab ELSE TwoTabs
  /\ \A t \in Tabs \ tabs : mem'[t] = mem[t]
  /\ tabs' = tabs

MCSpec == MCInit /\ [][MCNext]_<<vars, tabs>> /\ FairCall(t1, c1) /\ FairCall(t1, c2)

\* One call stands for all: they are alike.
FirstCallEnds == CallEnds(t1, c1)
=============================================================================
