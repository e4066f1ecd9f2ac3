----------------------------- MODULE MCPresence ------------------------------
(* Presence on a small instance: two tabs, of one user or of two. *)
EXTENDS Presence, TLC

CONSTANTS u1, u2, s1, s2, r1, r2

Symmetry == Permutations({u1, u2}) \cup Permutations({r1, r2}) \cup Permutations({s1, s2})

\* Two users: no faults and no removed member, so that the instance stays small.
MCNext ==
  /\ Next
  /\ (\A s, t \in Sockets : userOf[s] = userOf[t]) \/ (why' \subseteq Races /\ members' = Users)

MCSpec == Init /\ [][MCNext]_vars
=============================================================================
