----------------------------- MODULE MCSessions -----------------------------
(***************************************************************************)
(* Sessions with its history on small instances: two requests of one user, *)
(* or of two users with one token fewer.  No run has more than MaxMailed   *)
(* mailed tokens, of which one may expire.                                 *)
(***************************************************************************)
EXTENDS SessionsHistory

CONSTANTS u1, u2, r1, r2

MaxMailed == 2

VARIABLE users  \* the users there may be; never changes

MCInit == Init /\ HistoryInit /\ users \in {{u1}, {u1, u2}}

MCNext ==
  /\ Next /\ HistoryNext /\ users' = users
  /\ registered' \subseteq users
  /\ Cardinality(mailed') <= MaxMailed
  /\ Cardinality({m \in mailed' : m.expired}) <= 1
  /\ users = {u1, u2} => nextId' <= MaxIds

\* Time passes and the repeatable clean-up job keeps running.
MCSpec ==
  /\ MCInit /\ [][MCNext]_<<HistoryVars, users>>
  /\ WF_vars(\E t \in tokens : ExpireToken(t)) /\ WF_vars(Cleanup)
=============================================================================
