---------------------------- MODULE LiveSessions ----------------------------
(***************************************************************************)
(* What the refresh tokens promise: a session is opened at a login and     *)
(* holds a refresh token, which a request to refresh trades for a new one. *)
(* The token is accepted first, while its session is open, and traded      *)
(* later: a session that ends meanwhile comes back with the new token, and *)
(* one token that two requests have had accepted becomes two.  Nothing     *)
(* else brings a session back.  Sessions implements this (SessionsHistory) *)
(* and it is the server of WebSession.                                     *)
(***************************************************************************)
CONSTANTS Users, Tokens, Requests

VARIABLES open,     \* the sessions: how each began, whose it is, and its token
          used,     \* every token there has been
          accepted  \* requests to refresh, each with the session it found open

Session == [chain: Tokens, user: Users, token: Tokens]

Init == open = {} /\ used = {} /\ accepted = {}

\* Register or login: the session is named after its first token.
Open(u, t) ==
  /\ t \notin used
  /\ open' = open \cup {[chain |-> t, user |-> u, token |-> t]}
  /\ used' = used \cup {t}
  /\ UNCHANGED accepted

\* Refresh: the session's token is good.
Accept(r, s) ==
  /\ s \in open
  /\ \A p \in accepted : p[1] # r
  /\ accepted' = accepted \cup {<<r, s>>}
  /\ UNCHANGED <<open, used>>

\* The token is replaced by a new one, whatever has become of the session.
Rotate(r, s, t) ==
  /\ <<r, s>> \in accepted
  /\ t \notin used
  /\ open' = (open \ {s}) \cup {[s EXCEPT !.token = t]}
  /\ used' = used \cup {t}
  /\ accepted' = accepted \ {<<r, s>>}

\* The request fails.
Drop(r, s) ==
  /\ <<r, s>> \in accepted
  /\ accepted' = accepted \ {<<r, s>>}
  /\ UNCHANGED <<open, used>>

\* Logout ends one session, a password reset all sessions of a user.
End(ended) ==
  /\ open' = open \ ended
  /\ open' # open
  /\ UNCHANGED <<used, accepted>>

Next ==
  \/ \E u \in Users, t \in Tokens : Open(u, t)
  \/ \E r \in Requests, s \in open : Accept(r, s)
  \/ \E p \in accepted : Drop(p[1], p[2]) \/ \E t \in Tokens : Rotate(p[1], p[2], t)
  \/ \E ended \in SUBSET open : End(ended)

Spec == Init /\ [][Next]_<<open, used, accepted>>
=============================================================================
