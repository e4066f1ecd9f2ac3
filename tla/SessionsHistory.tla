--------------------------- MODULE SessionsHistory ---------------------------
(***************************************************************************)
(* Sessions with the history its rows do not keep, for properties that say *)
(* what requests which overlap may and may not do: Sessions implements     *)
(* LiveSessions; which tokens survive a password reset; and when one       *)
(* mailed token pays for two changes.  A session's name is the first token *)
(* of its chain of rotations, whose row the clean-up may have deleted.     *)
(***************************************************************************)
EXTENDS Sessions

VARIABLES chainOf,    \* history: the first token of the chain of each token
          issued,     \* history: every refresh token there has been
          overtaken,  \* history: requests in flight whose user's password was
                      \* replaced since they began
          spared,     \* history: tokens that a password reset could not see
          outrun      \* history: requests in flight whose mailed token another
                      \* request has spent since they checked it

history == <<chainOf, issued, overtaken, spared, outrun>>

HistoryInit == /\ chainOf = [t \in 1 .. MaxIds |-> NoToken]
               /\ issued = {} /\ overtaken = {} /\ spared = {} /\ outrun = {}

New == {t \in tokens' : t.id \notin issued}

\* The request will issue a refresh token to u.
WillIssueTo(q, u) ==
  \/ q.at \in {"register.create", "register.mail", "issue"} /\ q.user = u
  \/ q.at = "refresh.commit" /\ q.token.user = u

\* The request has checked a mailed token and will spend it.
WillSpend(q) == q.at \in {"verify.commit", "reset.revoke", "reset.commit"}

PasswordReplaced(u) == passwordHash'[u] # passwordHash[u]

JustSpent == {m.id : m \in {n \in mailed' \ mailed : n.used}}

\* A reset of u has listed the tokens it revokes and is about to commit.
ResetUnderWay(u) == \E r \in Reqs : req[r].at = "reset.commit" /\ req[r].mail.user = u

\* The request r takes its next step.
Moves(r) == req'[r] # req[r]

HistoryNext ==
  /\ issued' = issued \cup {t.id : t \in New}
  /\ chainOf' = [id \in 1 .. MaxIds |->
                   IF \E t \in New : t.id = id
                   THEN LET t == CHOOSE n \in New : n.id = id
                        IN IF t.from = NoToken THEN id ELSE chainOf[t.from]
                   ELSE chainOf[id]]
  /\ overtaken' = {r \in Reqs :
       /\ req'[r] # Idle
       /\ r \in overtaken \/ \E u \in Users : WillIssueTo(req[r], u) /\ PasswordReplaced(u)}
  /\ spared' = spared \cup {t.id : t \in {n \in New :
       n.from \in spared \/ ResetUnderWay(n.user) \/ \E r \in overtaken : Moves(r)}}
  /\ outrun' = {r \in Reqs :
       /\ req'[r] # Idle
       /\ r \in outrun \/ (WillSpend(req[r]) /\ req[r].mail.id \in JustSpent)}

HistoryVars == <<vars, history>>

HistorySpec == Init /\ HistoryInit /\ [][Next /\ HistoryNext]_HistoryVars

-----------------------------------------------------------------------------
(***************************************************************************)
(* Properties                                                              *)
(***************************************************************************)
SessionOf(t) == [chain |-> chainOf[t.id], user |-> t.user, token |-> t.id]

\* The sessions a reader of the rows would call open: those with a token that is
\* not revoked.  Its expiry is time passing, no step of LiveSessions.
OpenSessions == {SessionOf(t) : t \in {row \in tokens : ~row.revoked}}

Refreshing == {<<r, SessionOf(req[r].token)>> : r \in {q \in Reqs : req[q].at = "refresh.commit"}}

Promise == INSTANCE LiveSessions WITH
             Tokens <- 1 .. MaxIds, Requests <- Reqs,
             open <- OpenSessions, used <- issued, accepted <- Refreshing

\* refresh, logout and resetPassword, however many run at once: whoever refreshes
\* has been accepted with a token that was not revoked then, and gets one new token
\* for it.  Only such a request brings a session back that was closed meanwhile, or
\* makes two sessions of one.
ImplementsLiveSessions == Promise!Spec

\* A reset ends every session (the updateMany of resetPassword).  A live token of an
\* earlier password was issued by a request that was in flight when the password was
\* replaced, or between the reset's updateMany and its commit, or goes back to such a
\* token by rotation; a token that is issued, and a login or refresh that begins,
\* before or after the reset is no exception.
ResetEndsSessions ==
  \A t \in tokens : Live(t) => t.login = passwordHash[t.user] \/ t.id \in spared

\* The request r commits with a mailed token of u.  If the token was spent before,
\* this was after r had checked it.
Pays(r, kind, u) ==
  /\ WillSpend(req[r]) /\ Moves(r)
  /\ \E m \in mailed :
       /\ m.id = req[r].mail.id /\ m.kind = kind /\ m.user = u
       /\ m.used => r \in outrun
       /\ \E n \in mailed' : n.id = m.id /\ n.used

\* An address is verified, or a password replaced, only with a token that was mailed to
\* that address and is spent by it; and a token that is spent pays for no second change,
\* but in a request that had checked it before (verifyEmail and resetPassword check
\* usedAt outside of the transaction that sets it).
AccountChangesCostAToken ==
  [][/\ \A u \in verified' \ verified : \E r \in Reqs : Pays(r, "verify", u)
     /\ \A u \in Users : PasswordReplaced(u) => \E r \in Reqs : Pays(r, "reset", u)]_HistoryVars

(***************************************************************************)
(* The inductive invariant: what a request in flight has read is still so, *)
(* or the history says that the request was overtaken.                     *)
(***************************************************************************)
Accounted(t) == t.login = passwordHash[t.user] \/ t.id \in spared

IssuesFresh(r) ==
  LET q == req[r]
  IN /\ q.at \in {"register.create", "register.mail"} =>
          passwordHash[q.user] = 0 \/ r \in overtaken
     /\ q.at = "issue" => q.login = passwordHash[q.user] \/ r \in overtaken
     /\ q.at = "refresh.commit" =>
          q.token.id \in issued /\ (Accounted(q.token) \/ r \in overtaken)
     /\ q.at = "reset.commit" =>
          \A t \in UnrevokedOf(q.mail.user) : t.id \in q.doomed \cup spared

SpendsFresh(r) ==
  WillSpend(req[r]) =>
    \A m \in mailed : m.id = req[r].mail.id /\ m.used => r \in outrun

HistoryOK == /\ chainOf \in [1 .. MaxIds -> Nat]
             /\ issued \subseteq 1 .. MaxIds
             /\ \A id \in issued : id < nextId
             /\ \A t \in tokens : t.id \in issued

HistoryInv ==
  /\ IInv
  /\ HistoryOK
  /\ \A t \in tokens : ~t.revoked => Accounted(t)
  /\ \A r \in Reqs : IssuesFresh(r) /\ SpendsFresh(r)
=============================================================================
