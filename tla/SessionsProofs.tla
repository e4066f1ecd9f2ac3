--------------------------- MODULE SessionsProofs ---------------------------
(***************************************************************************)
(* Proofs about Sessions for every set of users and request slots and any  *)
(* number of tokens: IInv is inductive, HistoryInv is with the history, and *)
(* the properties follow from them.                                        *)
(***************************************************************************)
EXTENDS SessionsHistory, TLAPS

\* The invariant's part about the refresh tokens.
TokensOK ==
  /\ tokens \subseteq RefreshToken
  /\ \A t \in tokens : t.user \in registered
  /\ \A t \in tokens : t.id < nextId /\ t.from < nextId /\ t.replacedBy < nextId
  /\ \A s, t \in tokens : s.id = t.id => s = t
  /\ ExpiryFollowsIssue
  /\ RotationIsAtomic

\* The invariant's part about the mailed tokens.
MailedOK ==
  /\ mailed \subseteq MailedToken
  /\ \A m \in mailed : m.user \in registered /\ m.id < nextId
  /\ \A m, n \in mailed : m.id = n.id => m = n

\* The rest of it, but for the requests in flight.
AccountsOK ==
  /\ registered \subseteq Users
  /\ verified \subseteq registered
  /\ passwordHash \in [Users -> Nat]
  /\ nextId \in Nat \ {NoToken}
  /\ \A u \in Users : passwordHash[u] # 0 => u \in registered

LEMMA IInvParts ==
  IInv <=> /\ TokensOK /\ MailedOK /\ AccountsOK
           /\ req \in [Reqs -> Request]
           /\ \A r \in Reqs : RequestOK(req[r])
BY DEF IInv, TypeOK, IdsAreFresh, IdsAreUnique, TokensOK, MailedOK, AccountsOK

\* How the tables may change under the feet of a request in flight: accounts
\* and mailed tokens stay, and a refresh token keeps its user and its login.
TokensEvolve ==
  \A s \in tokens' :
    s.id < nextId => \E t \in tokens : t.id = s.id /\ t.user = s.user /\ t.login = s.login

MailedEvolve ==
  \A m \in mailed : \E n \in mailed' : n.id = m.id /\ n.kind = m.kind /\ n.user = m.user

\* One step of SignedOutByTheUser.
SignedOutStep ==
  \A t \in tokens :
    Live(t) =>
      \E s \in tokens' :
        /\ s.id = t.id /\ s.user = t.user /\ s.login = t.login
        /\ s.revoked =>
             \/ s.replacedBy # NoToken
             \/ passwordHash'[t.user] # passwordHash[t.user]
             \/ passwordHash' = passwordHash /\ tokens' \ {s} = tokens \ {t}

-----------------------------------------------------------------------------
\* What a request in flight knows stays true when the tables evolve.
LEMMA RequestsStayOK ==
  ASSUME registered \subseteq registered', TokensEvolve, MailedEvolve,
         nextId \in Nat, nextId' \in Nat, nextId <= nextId',
         NEW q \in Request, RequestOK(q)
  PROVE  RequestOK(q)'
<1>1. ASSUME q.at = "refresh.commit" PROVE TokenSnapshotOK(q.token)'
  <2>1. TokenSnapshotOK(q.token) /\ q.token.id \in Nat
    BY <1>1 DEF RequestOK, Request, Idle, Registering, Refused, Issuing, Rotating,
       Verifying, Resetting, ResetTx, RefreshToken
  <2>2. \A s \in tokens' : s.id = q.token.id =>
          s.user = q.token.user /\ s.login = q.token.login
    BY <2>1 DEF TokenSnapshotOK, TokensEvolve, TokenRow
  <2> QED
    BY <2>1, <2>2 DEF TokenSnapshotOK, TokenRow
<1>2. ASSUME q.at \in {"verify.commit", "reset.revoke", "reset.commit"}
      PROVE  MailSnapshotOK(q.mail)'
  BY <1>2 DEF RequestOK, MailSnapshotOK, MailedEvolve
<1>3. ASSUME q.at = "reset.commit"
      PROVE  /\ \A id \in q.doomed : id < nextId'
             /\ \A t \in tokens' : t.id \in q.doomed => t.user = q.mail.user
  <2>1. q.doomed \subseteq Nat
    BY <1>3 DEF Request, Idle, Registering, Refused, Issuing, Rotating,
       Verifying, Resetting, ResetTx
  <2> QED
    BY <1>3, <2>1 DEF RequestOK, TokensEvolve
<1>4. q.at \in {"register.mail", "issue"} => q.user \in registered'
  BY DEF RequestOK
<1> QED
  BY <1>1, <1>2, <1>3, <1>4 DEF RequestOK

\* What is left to show for a step that changes tables: the tables' own part of
\* the invariant, and the request it moves on.
LEMMA TablesKeepIInv ==
  ASSUME IInv, TokensOK', MailedOK', AccountsOK', registered \subseteq registered',
         TokensEvolve, MailedEvolve, nextId <= nextId',
         req' \in [Reqs -> Request],
         \A r \in Reqs : \/ req'[r] = req[r]
                         \/ req'[r] = Idle
                         \/ req'[r].at \in {"register.mail", "issue"}
                            /\ req'[r].user \in registered'
  PROVE  IInv'
<1>1. nextId \in Nat /\ nextId' \in Nat
  BY IInvParts DEF AccountsOK
<1>2. ASSUME NEW q \in Request, RequestOK(q) PROVE RequestOK(q)'
  BY <1>1, <1>2, RequestsStayOK
<1>3. ASSUME NEW r \in Reqs PROVE RequestOK(req[r])'
  <2>1. req[r] \in Request /\ RequestOK(req[r])
    BY IInvParts
  <2>2. CASE req'[r] = req[r]
    BY <1>2, <2>1, <2>2 DEF RequestOK, TokenSnapshotOK, MailSnapshotOK, TokenRow
  <2>3. CASE req'[r] = Idle
    BY <2>3 DEF RequestOK, Idle
  <2>4. CASE req'[r].at \in {"register.mail", "issue"} /\ req'[r].user \in registered'
    BY <2>4 DEF RequestOK
  <2> QED
    BY <2>2, <2>3, <2>4
<1> QED
  BY <1>3 DEF IInv, TypeOK, IdsAreFresh, IdsAreUnique, TokensOK, MailedOK, AccountsOK

\* A step that changes no table: the request it moves has to know no more than
\* it has just read.
LEMMA GotoKeepsIInv ==
  ASSUME IInv, NEW r \in Reqs, NEW q \in Request, RequestOK(q), Goto(r, q),
         UNCHANGED <<account, tokens, mailed, nextId>>
  PROVE  IInv' /\ SignedOutStep
<1>1. req' \in [Reqs -> Request] /\ \A p \in Reqs : req'[p] = req[p] \/ req'[p] = q
  BY DEF IInv, TypeOK, Goto
<1>2. ASSUME NEW p \in Reqs PROVE RequestOK(req[p])'
  BY <1>1 DEF IInv, RequestOK, TokenSnapshotOK, MailSnapshotOK, TokenRow, account
<1>3. SignedOutStep
  BY DEF SignedOutStep, Live, IInv, TypeOK, RefreshToken
<1> QED
  BY <1>1, <1>2, <1>3 DEF IInv, TypeOK, IdsAreFresh, IdsAreUnique, ExpiryFollowsIssue,
     RotationIsAtomic, TokenRow, account

-----------------------------------------------------------------------------
\* The refresh tokens, table write by table write.
LEMMA IssueKeepsTokens ==
  ASSUME TokensOK, AccountsOK, NEW u \in registered, NEW login \in Nat,
         registered' = registered, nextId' = nextId + 1,
         tokens' = tokens \cup {IssuedToken(u, NoToken, login)}
  PROVE  TokensOK' /\ TokensEvolve /\ SignedOutStep
<1> DEFINE new == IssuedToken(u, NoToken, login)
<1>1. /\ new \in RefreshToken /\ new.id = nextId /\ new.user = u
      /\ new.from = 0 /\ new.replacedBy = 0 /\ ~new.expired
      /\ nextId \in Nat /\ nextId # 0
  BY DEF AccountsOK, IssuedToken, RefreshToken, NoToken
<1> HIDE DEF new
<1>2. /\ tokens \subseteq RefreshToken
      /\ \A t \in tokens : t.id \in Nat /\ t.from \in Nat /\ t.replacedBy \in Nat
                           /\ t.id < nextId /\ t.from < nextId /\ t.replacedBy < nextId
  BY DEF TokensOK, RefreshToken
<1>3. tokens' = tokens \cup {new}
  BY DEF new
<1>4. (\A t \in tokens : t.id < nextId /\ t.from < nextId /\ t.replacedBy < nextId)'
      /\ (tokens \subseteq RefreshToken)' /\ (\A t \in tokens : t.user \in registered)'
  BY <1>1, <1>2, <1>3 DEF TokensOK
<1>5. (\A s, t \in tokens : s.id = t.id => s = t)'
  BY <1>1, <1>2, <1>3 DEF TokensOK
<1>6. ExpiryFollowsIssue'
  BY <1>1, <1>2, <1>3 DEF TokensOK, ExpiryFollowsIssue
<1>7. RotationIsAtomic'
  BY <1>1, <1>2, <1>3 DEF TokensOK, RotationIsAtomic, TokenRow, NoToken
<1>8. TokensEvolve
  BY <1>1, <1>3 DEF TokensEvolve
<1>9. SignedOutStep
  BY <1>3 DEF SignedOutStep, Live
<1> QED
  BY <1>4, <1>5, <1>6, <1>7, <1>8, <1>9 DEF TokensOK

LEMMA RotateKeepsTokens ==
  ASSUME TokensOK, AccountsOK, NEW old \in RefreshToken, TokenSnapshotOK(old),
         TokenRow(old.id) # {}, registered' = registered, nextId' = nextId + 1,
         tokens' = (tokens \ TokenRow(old.id))
                     \cup {ReplacedBy(t, nextId) : t \in TokenRow(old.id)}
                     \cup {IssuedToken(old.user, old.id, old.login)}
  PROVE  TokensOK' /\ TokensEvolve /\ SignedOutStep
<1> DEFINE new == IssuedToken(old.user, old.id, old.login)
<1>1. PICK t \in tokens : t.id = old.id
  BY DEF TokenRow
<1> DEFINE spent == ReplacedBy(t, nextId)
<1>2. TokenRow(old.id) = {t}
  BY <1>1 DEF TokenRow, TokensOK
<1>3. /\ new \in RefreshToken /\ new.id = nextId /\ new.user = t.user
      /\ new.from = t.id /\ new.login = t.login /\ new.replacedBy = 0 /\ ~new.expired
      /\ nextId \in Nat /\ nextId # 0 /\ t.user \in registered
  BY <1>1, <1>2 DEF AccountsOK, TokensOK, IssuedToken, RefreshToken, NoToken, TokenSnapshotOK
<1>4. /\ spent \in RefreshToken /\ spent.id = t.id /\ spent.user = t.user
      /\ spent.from = t.from /\ spent.login = t.login /\ spent.expired = t.expired
      /\ spent.replacedBy = nextId /\ spent.revoked
  BY <1>1, <1>3 DEF TokensOK, ReplacedBy, RefreshToken
<1>5. tokens' = (tokens \ {t}) \cup {spent, new}
  BY <1>2
<1> HIDE DEF new, spent
<1>6. /\ tokens \subseteq RefreshToken
      /\ \A s \in tokens : s.id \in Nat /\ s.from \in Nat /\ s.replacedBy \in Nat
                           /\ s.id < nextId /\ s.from < nextId /\ s.replacedBy < nextId
                           /\ s.user \in registered
  BY DEF TokensOK, RefreshToken
<1>7. (\A s \in tokens : s.id < nextId /\ s.from < nextId /\ s.replacedBy < nextId)'
      /\ (tokens \subseteq RefreshToken)' /\ (\A s \in tokens : s.user \in registered)'
  BY <1>1, <1>3, <1>4, <1>5, <1>6
<1>8. (\A s1, s2 \in tokens : s1.id = s2.id => s1 = s2)'
  BY <1>1, <1>3, <1>4, <1>5, <1>6 DEF TokensOK
<1>9. ExpiryFollowsIssue'
  BY <1>1, <1>3, <1>4, <1>5, <1>6 DEF TokensOK, ExpiryFollowsIssue
<1>10. RotationIsAtomic'
  <2> SUFFICES ASSUME NEW s \in tokens', s.replacedBy # 0
               PROVE  /\ s.revoked
                      /\ s.expired \/ \E n \in tokens' :
                           n.id = s.replacedBy /\ n.from = s.id
                           /\ n.user = s.user /\ n.login = s.login
    BY DEF RotationIsAtomic, TokenRow, NoToken
  <2>1. CASE s = spent
    BY <2>1, <1>3, <1>4, <1>5
  <2>2. CASE s \in tokens \ {t}
    <3>1. s.revoked /\ (s.expired \/ \E n \in tokens : n.id = s.replacedBy
             /\ n.from = s.id /\ n.user = s.user /\ n.login = s.login)
      BY <2>2 DEF TokensOK, RotationIsAtomic, TokenRow, NoToken
    <3> QED
      BY <3>1, <1>4, <1>5
  <2> QED
    BY <2>1, <2>2, <1>3, <1>5
<1>11. TokensEvolve
  BY <1>1, <1>3, <1>4, <1>5, <1>6 DEF TokensEvolve
<1>12. SignedOutStep
  BY <1>3, <1>4, <1>5 DEF SignedOutStep, Live, NoToken
<1> QED
  BY <1>7, <1>8, <1>9, <1>10, <1>11, <1>12 DEF TokensOK

LEMMA RevokingKeepsTokens ==
  ASSUME TokensOK, AccountsOK, NEW D \in SUBSET tokens,
         registered' = registered, nextId' = nextId,
         tokens' = (tokens \ D) \cup Revoked(D)
  PROVE  TokensOK' /\ TokensEvolve
<1> DEFINE f(t) == [t EXCEPT !.revoked = TRUE]
<1>1. \A t \in tokens :
        /\ f(t) \in RefreshToken /\ f(t).id = t.id /\ f(t).user = t.user
        /\ f(t).from = t.from /\ f(t).login = t.login /\ f(t).expired = t.expired
        /\ f(t).replacedBy = t.replacedBy /\ f(t).revoked
  BY DEF TokensOK, RefreshToken
<1>2. /\ \A s \in tokens' : s \in tokens \ D \/ \E t \in D : s = f(t)
      /\ \A t \in tokens \ D : t \in tokens'
      /\ \A t \in D : f(t) \in tokens'
  BY DEF Revoked
<1> HIDE DEF f
\* Each row now on file is a row that was, up to `revoked`, and conversely.
<1>3. ASSUME NEW s \in tokens'
      PROVE  \E t \in tokens :
               /\ s \in RefreshToken /\ s.id = t.id /\ s.user = t.user /\ s.from = t.from
               /\ s.login = t.login /\ s.expired = t.expired
               /\ s.replacedBy = t.replacedBy /\ (t.revoked => s.revoked)
               /\ s = IF t \in D THEN f(t) ELSE t
  BY <1>1, <1>2 DEF TokensOK
<1>4. ASSUME NEW t \in tokens
      PROVE  \E s \in tokens' : s.id = t.id /\ s.user = t.user /\ s.from = t.from
                                /\ s.login = t.login
  BY <1>1, <1>2
<1>5. /\ (tokens \subseteq RefreshToken)' /\ (\A s \in tokens : s.user \in registered)'
      /\ (\A s \in tokens : s.id < nextId /\ s.from < nextId /\ s.replacedBy < nextId)'
  BY <1>3 DEF TokensOK
<1>6. (\A s1, s2 \in tokens : s1.id = s2.id => s1 = s2)'
  BY <1>3 DEF TokensOK
<1>7. ExpiryFollowsIssue'
  BY <1>3 DEF TokensOK, ExpiryFollowsIssue
<1>8. RotationIsAtomic'
  BY <1>3, <1>4 DEF TokensOK, RotationIsAtomic, TokenRow
<1>9. TokensEvolve
  BY <1>3 DEF TokensEvolve
<1> QED
  BY <1>5, <1>6, <1>7, <1>8, <1>9 DEF TokensOK

\* A token expires after the one it was rotated from.
LEMMA ExpireTokenKeepsTokens ==
  ASSUME TokensOK, AccountsOK, registered' = registered, NEW t \in tokens, ExpireToken(t)
  PROVE  TokensOK' /\ TokensEvolve /\ SignedOutStep
<1> DEFINE old == [t EXCEPT !.expired = TRUE]
<1>1. /\ old \in RefreshToken /\ old.id = t.id /\ old.user = t.user /\ old.from = t.from
      /\ old.login = t.login /\ old.revoked = t.revoked /\ old.replacedBy = t.replacedBy
      /\ old.expired
  BY DEF TokensOK, RefreshToken
<1>2. /\ tokens' = (tokens \ {t}) \cup {old} /\ nextId' = nextId
      /\ \A s \in tokens : s.id = t.from => s.expired
  BY DEF ExpireToken, TokenRow
<1> HIDE DEF old
<1>3. /\ (tokens \subseteq RefreshToken)' /\ (\A s \in tokens : s.user \in registered)'
      /\ (\A s \in tokens : s.id < nextId /\ s.from < nextId /\ s.replacedBy < nextId)'
  BY <1>1, <1>2 DEF TokensOK
<1>4. (\A s1, s2 \in tokens : s1.id = s2.id => s1 = s2)'
  BY <1>1, <1>2 DEF TokensOK
<1>5. ExpiryFollowsIssue'
  BY <1>1, <1>2 DEF TokensOK, ExpiryFollowsIssue
<1>6. RotationIsAtomic'
  BY <1>1, <1>2 DEF TokensOK, RotationIsAtomic, TokenRow
<1>7. TokensEvolve
  BY <1>1, <1>2 DEF TokensEvolve
<1>8. SignedOutStep
  BY <1>1, <1>2 DEF SignedOutStep, Live
<1> QED
  BY <1>3, <1>4, <1>5, <1>6, <1>7, <1>8 DEF TokensOK

\* The clean-up does not remove the successor of a token that has not expired:
\* the successor has not expired either.
LEMMA CleanupKeepsTokens ==
  ASSUME TokensOK, registered' = registered, Cleanup
  PROVE  TokensOK' /\ TokensEvolve /\ SignedOutStep
<1>1. tokens' = {t \in tokens : ~(t.expired /\ t.revoked)} /\ nextId' = nextId
  BY DEF Cleanup, Prunable
<1>2. RotationIsAtomic'
  BY <1>1 DEF TokensOK, RotationIsAtomic, ExpiryFollowsIssue, TokenRow
<1>3. TokensEvolve /\ SignedOutStep
  BY <1>1 DEF TokensEvolve, SignedOutStep, Live
<1> QED
  BY <1>1, <1>2, <1>3 DEF TokensOK, ExpiryFollowsIssue

\* Nothing is asked of a step that leaves the tokens alone.
LEMMA TokensLeftAlone ==
  ASSUME TokensOK, AccountsOK, tokens' = tokens, registered \subseteq registered',
         nextId' \in Nat, nextId <= nextId'
  PROVE  TokensOK' /\ TokensEvolve /\ SignedOutStep
<1>1. \A t \in tokens : t.id \in Nat /\ t.from \in Nat /\ t.replacedBy \in Nat
  BY DEF TokensOK, RefreshToken
<1>2. TokensOK'
  BY <1>1 DEF TokensOK, AccountsOK, ExpiryFollowsIssue, RotationIsAtomic, TokenRow
<1> QED
  BY <1>2 DEF TokensEvolve, SignedOutStep, Live

-----------------------------------------------------------------------------
\* The mailed tokens, likewise.
LEMMA AddingKeepsMailed ==
  ASSUME MailedOK, AccountsOK, NEW kind \in {"verify", "reset"}, NEW u \in registered,
         UNCHANGED account, nextId' = nextId + 1, mailed' = mailed \cup {Mail(kind, u)}
  PROVE  MailedOK' /\ MailedEvolve /\ AccountsOK'
<1>1. /\ Mail(kind, u) \in MailedToken /\ Mail(kind, u).id = nextId
      /\ Mail(kind, u).user = u /\ nextId \in Nat /\ nextId # 0
  BY DEF AccountsOK, Mail, MailedToken, NoToken
<1>2. \A m \in mailed : m \in MailedToken /\ m.id \in Nat /\ m.id < nextId
  BY DEF MailedOK, MailedToken
<1>3. MailedOK' /\ MailedEvolve
  BY <1>1, <1>2 DEF MailedOK, MailedEvolve, account
<1>4. AccountsOK'
  BY <1>1 DEF AccountsOK, account, NoToken
<1> QED
  BY <1>3, <1>4

\* Marking one: kinds and users stay, and what was used stays used.
LEMMA MarkingKeepsMailed ==
  ASSUME MailedOK, AccountsOK, NEW id, registered' = registered, nextId' = nextId,
         mailed' = MarkedMail(id)
  PROVE  /\ MailedOK' /\ MailedEvolve
         /\ \A m \in mailed : \E n \in mailed' :
              n.id = m.id /\ n.kind = m.kind /\ n.user = m.user
              /\ (m.used \/ m.id = id => n.used)
<1> DEFINE f(m) == [m EXCEPT !.used = TRUE]
<1>1. \A m \in mailed : f(m) \in MailedToken /\ f(m).id = m.id /\ f(m).kind = m.kind
                        /\ f(m).user = m.user /\ f(m).used
  BY DEF MailedOK, MailedToken
<1>2. /\ \A n \in mailed' : \E m \in mailed : n = IF m.id = id THEN f(m) ELSE m
      /\ \A m \in mailed : (IF m.id = id THEN f(m) ELSE m) \in mailed'
  BY DEF MarkedMail, UsedMail
<1> HIDE DEF f
<1>3. MailedOK'
  BY <1>1, <1>2 DEF MailedOK
<1>4. \A m \in mailed : \E n \in mailed' :
        n.id = m.id /\ n.kind = m.kind /\ n.user = m.user /\ (m.used \/ m.id = id => n.used)
  BY <1>1, <1>2
<1> QED
  BY <1>3, <1>4 DEF MailedEvolve

LEMMA ExpireMailKeepsMailed ==
  ASSUME MailedOK, AccountsOK, NEW m \in mailed, ExpireMail(m)
  PROVE  MailedOK' /\ MailedEvolve /\ AccountsOK'
<1> DEFINE old == [m EXCEPT !.expired = TRUE]
<1>1. /\ old \in MailedToken /\ old.id = m.id /\ old.kind = m.kind
      /\ old.user = m.user /\ old.used = m.used
  BY DEF MailedOK, MailedToken
<1>2. mailed' = (mailed \ {m}) \cup {old} /\ nextId' = nextId /\ UNCHANGED account
  BY DEF ExpireMail
<1> HIDE DEF old
<1>3. MailedOK' /\ MailedEvolve
  BY <1>1, <1>2 DEF MailedOK, MailedEvolve, account
<1>4. AccountsOK'
  BY <1>1, <1>2 DEF AccountsOK, account
<1> QED
  BY <1>3, <1>4

\* Nothing is asked of a step that leaves accounts and mailed tokens alone.
LEMMA MailedLeftAlone ==
  ASSUME MailedOK, AccountsOK, mailed' = mailed, UNCHANGED account,
         nextId' \in Nat, nextId <= nextId'
  PROVE  MailedOK' /\ MailedEvolve /\ AccountsOK'
<1>1. MailedOK' /\ MailedEvolve
  <2>1. \A m \in mailed : m.id \in Nat
    BY DEF MailedOK, MailedToken
  <2> QED
    BY <2>1 DEF MailedOK, MailedEvolve, account, AccountsOK
<1>2. AccountsOK'
  BY DEF AccountsOK, account, NoToken
<1> QED
  BY <1>1, <1>2

-----------------------------------------------------------------------------
\* Every step keeps the invariant, and signs nobody out but its own user.
LEMMA NextKeepsIInv ==
  ASSUME IInv, Next
  PROVE  IInv' /\ SignedOutStep
<1>1. TokensOK /\ MailedOK /\ AccountsOK /\ req \in [Reqs -> Request]
      /\ \A r \in Reqs : req[r] \in Request /\ RequestOK(req[r])
  BY IInvParts
<1>2. nextId \in Nat /\ nextId <= nextId
  BY <1>1 DEF AccountsOK
<1>3. Idle \in Request /\ RequestOK(Idle)
  BY DEF Request, Idle, RequestOK
<1>4. ASSUME NEW r \in Reqs, NEW u \in Users, RegisterStart(r, u)
      PROVE  IInv' /\ SignedOutStep
  <2> DEFINE q == IF EmailTaken(u) THEN [at |-> "register.refused", status |-> 409]
                                   ELSE [at |-> "register.create", user |-> u]
  <2>1. q \in Request /\ RequestOK(q)
    BY DEF Request, Registering, Refused, RequestOK
  <2>2. Goto(r, q) /\ UNCHANGED <<account, tokens, mailed, nextId>>
    BY <1>4 DEF RegisterStart
  <2> HIDE DEF q
  <2> QED
    BY <2>1, <2>2, GotoKeepsIInv
<1>5. ASSUME NEW r \in Reqs, RegisterCreate(r)
      PROVE  IInv' /\ SignedOutStep
  <2> DEFINE u == req[r].user
             refusal == [at |-> "register.refused", status |-> 500]
             mailing == [at |-> "register.mail", user |-> u]
  <2>1. u \in Users
    BY <1>1, <1>5 DEF RegisterCreate, Request, Idle, Registering, Refused, Issuing,
       Rotating, Verifying, Resetting, ResetTx
  <2>2. CASE u \in registered
    <3>1. refusal \in Request /\ RequestOK(refusal)
      BY DEF Request, Refused, RequestOK
    <3>2. Goto(r, refusal) /\ UNCHANGED <<account, tokens, mailed, nextId>>
      BY <1>5, <2>2 DEF RegisterCreate, account
    <3> QED
      BY <3>1, <3>2, GotoKeepsIInv
  <2>3. CASE u \notin registered
    <3>1. /\ registered' = registered \cup {u} /\ Goto(r, mailing)
          /\ UNCHANGED <<verified, passwordHash, tokens, mailed, nextId>>
      BY <1>5, <2>3 DEF RegisterCreate
    <3>2. TokensOK' /\ TokensEvolve /\ SignedOutStep
      BY <1>1, <1>2, <3>1, TokensLeftAlone
    <3>3. MailedOK' /\ MailedEvolve /\ AccountsOK'
      BY <1>1, <2>1, <3>1 DEF MailedOK, MailedEvolve, AccountsOK,
         NoToken
    <3>4. mailing \in Request
      BY <2>1 DEF Request, Registering
    <3>5. /\ req' \in [Reqs -> Request]
          /\ \A p \in Reqs : req'[p] = req[p] \/ req'[p] = mailing
      BY <1>1, <3>1, <3>4 DEF Goto
    <3>6. mailing.at = "register.mail" /\ mailing.user \in registered'
      BY <3>1
    <3> HIDE DEF mailing
    <3> QED
      BY <1>2, <3>1, <3>2, <3>3, <3>5, <3>6, TablesKeepIInv
  <2> QED
    BY <2>2, <2>3
<1>6. ASSUME NEW r \in Reqs, RegisterMail(r)
      PROVE  IInv' /\ SignedOutStep
  <2> DEFINE u == req[r].user
             issuing == [at |-> "issue", user |-> u, login |-> 0]
  <2>1. u \in registered
    BY <1>1, <1>6 DEF RegisterMail, RequestOK
  <2>2. /\ mailed' = mailed \cup {Mail("verify", u)} /\ nextId' = nextId + 1
        /\ Goto(r, issuing) /\ UNCHANGED account /\ UNCHANGED tokens
    BY <1>6 DEF RegisterMail, TakeId
  <2>3. registered' = registered /\ nextId' \in Nat /\ nextId <= nextId'
    BY <1>2, <2>2 DEF account
  <2>4. TokensOK' /\ TokensEvolve /\ SignedOutStep
    BY <1>1, <2>2, <2>3, TokensLeftAlone
  <2>5. MailedOK' /\ MailedEvolve /\ AccountsOK'
    BY <1>1, <2>1, <2>2, AddingKeepsMailed
  <2>6. issuing \in Request
    BY <1>1, <2>1 DEF Request, Issuing, AccountsOK
  <2>7. /\ req' \in [Reqs -> Request]
        /\ \A p \in Reqs : req'[p] = req[p] \/ req'[p] = issuing
    BY <1>1, <2>2, <2>6 DEF Goto
  <2>8. issuing.at = "issue" /\ issuing.user \in registered'
    BY <2>1, <2>3
  <2> HIDE DEF issuing
  <2> QED
    BY <2>3, <2>4, <2>5, <2>7, <2>8, TablesKeepIInv
<1>7. ASSUME NEW r \in Reqs, NEW u \in Users, Login(r, u)
      PROVE  IInv' /\ SignedOutStep
  <2> DEFINE q == [at |-> "issue", user |-> u, login |-> passwordHash[u]]
  <2>1. q \in Request /\ RequestOK(q)
    BY <1>1, <1>7 DEF Login, HasAccount, Request, Issuing, RequestOK, AccountsOK
  <2>2. Goto(r, q) /\ UNCHANGED <<account, tokens, mailed, nextId>>
    BY <1>7 DEF Login
  <2> HIDE DEF q
  <2> QED
    BY <2>1, <2>2, GotoKeepsIInv
<1>8. ASSUME NEW r \in Reqs, Issue(r)
      PROVE  IInv' /\ SignedOutStep
  <2> DEFINE u == req[r].user
             login == req[r].login
  <2>1. u \in registered /\ login \in Nat
    BY <1>1, <1>8 DEF Issue, RequestOK, Request, Idle, Registering, Refused, Issuing,
       Rotating, Verifying, Resetting, ResetTx
  <2>2. /\ tokens' = tokens \cup {IssuedToken(u, NoToken, login)} /\ nextId' = nextId + 1
        /\ Goto(r, Idle) /\ UNCHANGED account /\ UNCHANGED mailed
    BY <1>8 DEF Issue, TakeId
  <2> HIDE DEF u, login
  <2>3. registered' = registered /\ nextId' \in Nat /\ nextId <= nextId'
    BY <1>2, <2>2 DEF account
  <2>4. TokensOK' /\ TokensEvolve /\ SignedOutStep
    BY <1>1, <2>1, <2>2, <2>3, IssueKeepsTokens
  <2>5. MailedOK' /\ MailedEvolve /\ AccountsOK'
    BY <1>1, <2>2, <2>3, MailedLeftAlone
  <2>6. /\ req' \in [Reqs -> Request]
        /\ \A p \in Reqs : req'[p] = req[p] \/ req'[p] = Idle
    BY <1>1, <1>3, <2>2 DEF Goto
  <2> QED
    BY <2>3, <2>4, <2>5, <2>6, TablesKeepIInv
<1>9. ASSUME NEW r \in Reqs, NEW t \in tokens, RefreshStart(r, t)
      PROVE  IInv' /\ SignedOutStep
  <2> DEFINE q == [at |-> "refresh.commit", token |-> t]
  <2>1. TokenSnapshotOK(t) /\ t \in RefreshToken
    BY <1>1 DEF TokensOK, TokenSnapshotOK, TokenRow
  <2>2. q \in Request /\ RequestOK(q)
    BY <2>1 DEF Request, Rotating, RequestOK
  <2>3. Goto(r, q) /\ UNCHANGED <<account, tokens, mailed, nextId>>
    BY <1>9 DEF RefreshStart
  <2> HIDE DEF q
  <2> QED
    BY <2>2, <2>3, GotoKeepsIInv
<1>10. ASSUME NEW r \in Reqs, RefreshCommit(r)
       PROVE  IInv' /\ SignedOutStep
  <2> DEFINE old == req[r].token
  <2>1. old \in RefreshToken /\ TokenSnapshotOK(old)
    BY <1>1, <1>10 DEF RefreshCommit, RequestOK, Request, Idle, Registering, Refused,
       Issuing, Rotating, Verifying, Resetting, ResetTx
  <2>2. /\ TokenRow(old.id) # {}
        /\ tokens' = (tokens \ TokenRow(old.id))
                       \cup {ReplacedBy(t, nextId) : t \in TokenRow(old.id)}
                       \cup {IssuedToken(old.user, old.id, old.login)}
        /\ nextId' = nextId + 1
        /\ Goto(r, Idle) /\ UNCHANGED account /\ UNCHANGED mailed
    BY <1>10 DEF RefreshCommit, TakeId
  <2> HIDE DEF old
  <2>3. registered' = registered /\ nextId' \in Nat /\ nextId <= nextId'
    BY <1>2, <2>2 DEF account
  <2>4. TokensOK' /\ TokensEvolve /\ SignedOutStep
    BY <1>1, <2>1, <2>2, <2>3, RotateKeepsTokens
  <2>5. MailedOK' /\ MailedEvolve /\ AccountsOK'
    BY <1>1, <2>2, <2>3, MailedLeftAlone
  <2>6. /\ req' \in [Reqs -> Request]
        /\ \A p \in Reqs : req'[p] = req[p] \/ req'[p] = Idle
    BY <1>1, <1>3, <2>2 DEF Goto
  <2> QED
    BY <2>3, <2>4, <2>5, <2>6, TablesKeepIInv
<1>11. ASSUME NEW r \in Reqs, NEW t \in tokens, Logout(r, t)
       PROVE  IInv' /\ SignedOutStep
  <2>1. /\ tokens' = (tokens \ {t}) \cup Revoked({t})
        /\ nextId' = nextId /\ req' = req /\ UNCHANGED account /\ UNCHANGED mailed
    BY <1>11 DEF Logout
  <2>2. registered' = registered /\ nextId' \in Nat /\ nextId <= nextId'
    BY <1>2, <2>1 DEF account
  <2>3. TokensOK' /\ TokensEvolve
    BY <1>1, <2>1, <2>2, RevokingKeepsTokens
  <2>4. SignedOutStep
    <3> DEFINE out == [t EXCEPT !.revoked = TRUE]
    <3>1. /\ out.id = t.id /\ out.user = t.user /\ out.login = t.login
          /\ \A s \in tokens : s.id = t.id => s = t
      BY <1>1 DEF TokensOK, RefreshToken
    <3>2. tokens' = (tokens \ {t}) \cup {out}
      BY <2>1 DEF Revoked
    <3> HIDE DEF out
    <3>3. out \notin tokens \ {t}
      BY <3>1
    <3>4. passwordHash' = passwordHash /\ tokens' \ {out} = tokens \ {t}
      BY <2>1, <3>2, <3>3 DEF account
    <3> QED
      BY <3>1, <3>2, <3>4 DEF SignedOutStep, Live
  <2>5. MailedOK' /\ MailedEvolve /\ AccountsOK'
    BY <1>1, <2>1, <2>2, MailedLeftAlone
  <2> QED
    BY <1>1, <2>1, <2>2, <2>3, <2>4, <2>5, TablesKeepIInv
<1>12. ASSUME NEW r \in Reqs, NEW m \in mailed, VerifyStart(r, m)
       PROVE  IInv' /\ SignedOutStep
  <2> DEFINE q == [at |-> "verify.commit", mail |-> m]
  <2>1. m \in MailedToken /\ MailSnapshotOK(m) /\ m.kind = "verify"
    BY <1>1, <1>12 DEF VerifyStart, Usable, MailedOK, MailSnapshotOK
  <2>2. q \in Request /\ RequestOK(q)
    BY <2>1 DEF Request, Verifying, RequestOK
  <2>3. Goto(r, q) /\ UNCHANGED <<account, tokens, mailed, nextId>>
    BY <1>12 DEF VerifyStart
  <2> HIDE DEF q
  <2> QED
    BY <2>2, <2>3, GotoKeepsIInv
<1>13. ASSUME NEW r \in Reqs, VerifyCommit(r)
       PROVE  IInv' /\ SignedOutStep
  <2> DEFINE m == req[r].mail
  <2>1. MailSnapshotOK(m) /\ m.kind = "verify"
    BY <1>1, <1>13 DEF VerifyCommit, RequestOK
  <2>2. /\ mailed' = MarkedMail(m.id) /\ verified' = verified \cup {m.user}
        /\ Goto(r, Idle) /\ UNCHANGED <<registered, passwordHash, tokens, nextId>>
    BY <1>13 DEF VerifyCommit
  <2> HIDE DEF m
  <2>3. /\ MailedOK' /\ MailedEvolve
        /\ \A n \in mailed : \E n1 \in mailed' :
             n1.id = n.id /\ n1.kind = n.kind /\ n1.user = n.user
             /\ (n.used \/ n.id = m.id => n1.used)
    BY <1>1, <2>2, MarkingKeepsMailed
  <2>4. AccountsOK'
    BY <1>1, <2>1, <2>2 DEF AccountsOK, MailSnapshotOK
  <2>5. TokensOK' /\ TokensEvolve /\ SignedOutStep
    BY <1>1, <1>2, <2>2, TokensLeftAlone
  <2>6. /\ req' \in [Reqs -> Request]
        /\ \A p \in Reqs : req'[p] = req[p] \/ req'[p] = Idle
    BY <1>1, <1>3, <2>2 DEF Goto
  <2> QED
    BY <1>2, <2>2, <2>3, <2>4, <2>5, <2>6, TablesKeepIInv
<1>14. ASSUME NEW r \in Reqs, NEW u \in Users, ForgotPassword(r, u)
       PROVE  IInv' /\ SignedOutStep
  <2>1. /\ u \in registered /\ mailed' = mailed \cup {Mail("reset", u)}
        /\ nextId' = nextId + 1 /\ req' = req /\ UNCHANGED account /\ UNCHANGED tokens
    BY <1>14 DEF ForgotPassword, HasAccount, TakeId
  <2>2. registered' = registered /\ nextId' \in Nat /\ nextId <= nextId'
    BY <1>2, <2>1 DEF account
  <2>3. TokensOK' /\ TokensEvolve /\ SignedOutStep
    BY <1>1, <2>1, <2>2, TokensLeftAlone
  <2>4. MailedOK' /\ MailedEvolve /\ AccountsOK'
    BY <1>1, <2>1, AddingKeepsMailed
  <2> QED
    BY <1>1, <2>1, <2>2, <2>3, <2>4, TablesKeepIInv
<1>15. ASSUME NEW r \in Reqs, NEW m \in mailed, ResetStart(r, m)
       PROVE  IInv' /\ SignedOutStep
  <2> DEFINE q == [at |-> "reset.revoke", mail |-> m]
  <2>1. m \in MailedToken /\ MailSnapshotOK(m) /\ m.kind = "reset"
    BY <1>1, <1>15 DEF ResetStart, Usable, MailedOK, MailSnapshotOK
  <2>2. q \in Request /\ RequestOK(q)
    BY <2>1 DEF Request, Resetting, RequestOK
  <2>3. Goto(r, q) /\ UNCHANGED <<account, tokens, mailed, nextId>>
    BY <1>15 DEF ResetStart
  <2> HIDE DEF q
  <2> QED
    BY <2>2, <2>3, GotoKeepsIInv
<1>16. ASSUME NEW r \in Reqs, ResetRevoke(r)
       PROVE  IInv' /\ SignedOutStep
  <2> DEFINE m == req[r].mail
             doomed == {t.id : t \in UnrevokedOf(m.user)}
             q == [at |-> "reset.commit", mail |-> m, doomed |-> doomed]
  <2>1. m \in MailedToken /\ MailSnapshotOK(m) /\ m.kind = "reset"
    BY <1>1, <1>16 DEF ResetRevoke, RequestOK, Request, Idle, Registering, Refused,
       Issuing, Rotating, Verifying, Resetting, ResetTx
  <2>2. Goto(r, q) /\ UNCHANGED <<account, tokens, mailed, nextId>>
    BY <1>16 DEF ResetRevoke
  <2> HIDE DEF m
  <2>3. /\ \A id \in doomed : id \in Nat /\ id < nextId
        /\ \A t \in tokens : t.id \in doomed => t.user = m.user
    BY <1>1 DEF UnrevokedOf, TokensOK, RefreshToken
  <2> HIDE DEF doomed
  <2>4. q \in Request /\ RequestOK(q)
    BY <2>1, <2>3 DEF Request, ResetTx, RequestOK
  <2> HIDE DEF q
  <2> QED
    BY <2>2, <2>4, GotoKeepsIInv
<1>17. ASSUME NEW r \in Reqs, ResetCommit(r)
       PROVE  IInv' /\ SignedOutStep
  <2> DEFINE m == req[r].mail
             D == RevokedByReset(req[r].doomed)
  <2>1. /\ MailSnapshotOK(m) /\ m.kind = "reset"
        /\ \A t \in D : t \in tokens /\ t.user = m.user
    BY <1>1, <1>17 DEF ResetCommit, RequestOK, RevokedByReset
  <2>2. /\ mailed' = MarkedMail(m.id)
        /\ passwordHash' = [passwordHash EXCEPT ![m.user] = @ + 1]
        /\ tokens' = (tokens \ D) \cup Revoked(D)
        /\ Goto(r, Idle) /\ UNCHANGED <<registered, verified, nextId>>
    BY <1>17 DEF ResetCommit
  <2> HIDE DEF m, D
  <2>3. /\ MailedOK' /\ MailedEvolve
        /\ \A n \in mailed : \E n1 \in mailed' :
             n1.id = n.id /\ n1.kind = n.kind /\ n1.user = n.user
             /\ (n.used \/ n.id = m.id => n1.used)
    BY <1>1, <2>2, MarkingKeepsMailed
  <2>4. m.user \in Users /\ passwordHash \in [Users -> Nat]
    BY <1>1, <2>1 DEF AccountsOK, MailSnapshotOK
  <2>5. AccountsOK'
    <3>1. passwordHash' \in [Users -> Nat]
      BY <2>2, <2>4
    <3>2. \A u \in Users : passwordHash'[u] # 0 => u \in registered
      BY <1>1, <2>1, <2>2, <2>4 DEF AccountsOK, MailSnapshotOK
    <3> QED
      BY <1>1, <2>2, <3>1, <3>2 DEF AccountsOK
  <2>6. TokensOK' /\ TokensEvolve
    BY <1>1, <2>1, <2>2, RevokingKeepsTokens
  <2>7. SignedOutStep
    <3>1. passwordHash'[m.user] # passwordHash[m.user]
      BY <2>2, <2>4
    <3>2. \A t \in D : /\ [t EXCEPT !.revoked = TRUE] \in tokens'
                       /\ [t EXCEPT !.revoked = TRUE].id = t.id
                       /\ [t EXCEPT !.revoked = TRUE].user = t.user
                       /\ [t EXCEPT !.revoked = TRUE].login = t.login
      BY <1>1, <2>1, <2>2 DEF Revoked, TokensOK, RefreshToken
    <3>3. \A t \in tokens \ D : t \in tokens'
      BY <2>2
    <3> QED
      BY <2>1, <3>1, <3>2, <3>3 DEF SignedOutStep, Live
  <2>8. /\ req' \in [Reqs -> Request]
        /\ \A p \in Reqs : req'[p] = req[p] \/ req'[p] = Idle
    BY <1>1, <1>3, <2>2 DEF Goto
  <2> QED
    BY <1>2, <2>2, <2>3, <2>5, <2>6, <2>7, <2>8, TablesKeepIInv
<1>18. ASSUME NEW r \in Reqs, Abandon(r)
       PROVE  IInv' /\ SignedOutStep
  BY <1>3, <1>18, GotoKeepsIInv DEF Abandon
<1>19. ASSUME NEW t \in tokens, ExpireToken(t)
       PROVE  IInv' /\ SignedOutStep
  <2>1. /\ UNCHANGED account /\ UNCHANGED mailed /\ nextId' = nextId /\ req' = req
        /\ registered' = registered
    BY <1>19 DEF ExpireToken, account
  <2>2. TokensOK' /\ TokensEvolve /\ SignedOutStep
    BY <1>1, <1>19, <2>1, ExpireTokenKeepsTokens
  <2>3. MailedOK' /\ MailedEvolve /\ AccountsOK'
    BY <1>1, <1>2, <2>1, MailedLeftAlone
  <2> QED
    BY <1>1, <1>2, <2>1, <2>2, <2>3, TablesKeepIInv
<1>20. ASSUME NEW m \in mailed, ExpireMail(m)
       PROVE  IInv' /\ SignedOutStep
  <2>1. tokens' = tokens /\ nextId' = nextId /\ req' = req /\ registered' = registered
    BY <1>20 DEF ExpireMail, account
  <2>2. TokensOK' /\ TokensEvolve /\ SignedOutStep
    BY <1>1, <1>2, <2>1, TokensLeftAlone
  <2>3. MailedOK' /\ MailedEvolve /\ AccountsOK'
    BY <1>1, <1>20, ExpireMailKeepsMailed
  <2> QED
    BY <1>1, <1>2, <2>1, <2>2, <2>3, TablesKeepIInv
<1>21. ASSUME Cleanup
       PROVE  IInv' /\ SignedOutStep
  <2>1. /\ UNCHANGED account /\ UNCHANGED mailed /\ nextId' = nextId /\ req' = req
        /\ registered' = registered
    BY <1>21 DEF Cleanup, account
  <2>2. TokensOK' /\ TokensEvolve /\ SignedOutStep
    BY <1>1, <1>21, <2>1, CleanupKeepsTokens
  <2>3. MailedOK' /\ MailedEvolve /\ AccountsOK'
    BY <1>1, <1>2, <2>1, MailedLeftAlone
  <2> QED
    BY <1>1, <1>2, <2>1, <2>2, <2>3, TablesKeepIInv
<1> QED
  BY <1>4, <1>5, <1>6, <1>7, <1>8, <1>9, <1>10, <1>11, <1>12, <1>13, <1>14, <1>15,
     <1>16, <1>17, <1>18, <1>19, <1>20, <1>21
     DEF Next, RegisterStep, SessionStep, MailedTokenStep

-----------------------------------------------------------------------------
\* No accounts and no requests, no snapshots to worry about.
LEMMA InitIInv == Init => IInv
<1> SUFFICES ASSUME Init PROVE IInv
  OBVIOUS
<1>1. req \in [Reqs -> Request] /\ \A r \in Reqs : RequestOK(req[r])
  BY DEF Init, Request, Idle, RequestOK
<1> QED
  BY <1>1 DEF Init, IInv, TypeOK, IdsAreFresh, IdsAreUnique, ExpiryFollowsIssue,
     RotationIsAtomic, NoToken

LEMMA StutteringKeepsIInv ==
  ASSUME IInv, UNCHANGED vars
  PROVE  IInv' /\ SignedOutStep
<1>1. IInv'
  BY DEF IInv, TypeOK, IdsAreFresh, IdsAreUnique, ExpiryFollowsIssue, RotationIsAtomic,
     TokenRow, RequestOK, TokenSnapshotOK, MailSnapshotOK,
     vars, account
<1>2. SignedOutStep
  BY DEF SignedOutStep, Live, vars
<1> QED
  BY <1>1, <1>2

\* The inductive invariant, for any number of users, requests and tokens.
THEOREM Invariance == Spec => []IInv
<1>1. IInv /\ [Next]_vars => IInv'
  BY NextKeepsIInv, StutteringKeepsIInv
<1> QED
  BY InitIInv, <1>1, PTL DEF Spec

\* Rows keep referring to users there are, and slots to handlers there are.
THEOREM TypeCorrect == Spec => []TypeOK
  BY Invariance, PTL DEF IInv

\* refresh's transaction against itself, logouts, resets and the clean-up job: a
\* rotated token is revoked and, until it expires, its successor is on file.
THEOREM RotationKeepsTheChain == Spec => []RotationIsAtomic
  BY Invariance, PTL DEF IInv

\* logout, refresh, resetPassword and the clean-up job: whatever runs at once, a
\* live session ends by its own rotation, its own logout or its own user's reset.
THEOREM NobodyElseSignsOut == Spec => SignedOutByTheUser
<1>1. IInv /\ [Next]_vars => [SignedOutStep]_vars
  BY NextKeepsIInv
<1>2. Spec => [][SignedOutStep]_vars
  BY Invariance, <1>1, PTL DEF Spec
<1> QED
  BY <1>2 DEF SignedOutByTheUser, SignedOutStep

-----------------------------------------------------------------------------
(***************************************************************************)
(* The history, however many requests overlap: HistoryInv.                 *)
(***************************************************************************)

\* No token is issued: the history of tokens stays.
LEMMA HistoryStays ==
  ASSUME HistoryOK, HistoryNext, nextId' \in Nat, nextId \in Nat, nextId <= nextId',
         \A t \in tokens' : \E s \in tokens : s.id = t.id
  PROVE  New = {} /\ chainOf' = chainOf /\ issued' = issued /\ HistoryOK'
<1>1. New = {}
  BY DEF New, HistoryOK
<1>2. issued' = issued
  BY <1>1 DEF HistoryNext
<1>3. chainOf' = [id \in 1 .. MaxIds |-> chainOf[id]]
  BY <1>1 DEF HistoryNext
<1>4. chainOf' = chainOf
  BY <1>3 DEF HistoryOK
<1>5. \A id \in issued : id < nextId'
  BY MaxIdsAssumption DEF HistoryOK
<1> QED
  BY <1>1, <1>2, <1>4, <1>5 DEF HistoryOK

\* A token is issued: it is new, and starts a chain or belongs to that of its
\* predecessor.
LEMMA HistoryGrows ==
  ASSUME HistoryOK, HistoryNext, TakeId, nextId \in Nat \ {NoToken},
         NEW new \in tokens', new.id = nextId, new.from \in Nat,
         new.from = NoToken \/ new.from \in 1 .. MaxIds,
         \A t \in tokens' : t = new \/ \E s \in tokens : s.id = t.id
  PROVE  /\ nextId \in 1 .. MaxIds /\ nextId \notin issued
         /\ New = {new}
         /\ issued' = issued \cup {nextId}
         /\ chainOf'[nextId] = (IF new.from = NoToken THEN nextId ELSE chainOf[new.from])
         /\ \A id \in issued : chainOf'[id] = chainOf[id]
         /\ HistoryOK'
<1>1. nextId \in 1 .. MaxIds /\ nextId' = nextId + 1 /\ nextId \notin issued
  BY MaxIdsAssumption DEF TakeId, HistoryOK, NoToken
<1>2. New = {new}
  BY <1>1 DEF New, HistoryOK
<1>3. issued' = issued \cup {nextId}
  BY <1>2 DEF HistoryNext
<1>4. chainOf' = [id \in 1 .. MaxIds |->
                    IF id = nextId
                    THEN IF new.from = NoToken THEN id ELSE chainOf[new.from]
                    ELSE chainOf[id]]
  <2> DEFINE c(id) == CHOOSE n \in {new} : n.id = id
  <2>1. chainOf' = [id \in 1 .. MaxIds |->
                     IF \E t \in {new} : t.id = id
                     THEN IF c(id).from = NoToken THEN id ELSE chainOf[c(id).from]
                     ELSE chainOf[id]]
    BY <1>2 DEF HistoryNext
  <2>2. c(nextId) = new
    OBVIOUS
  <2> HIDE DEF c
  <2>3. \A id : (\E t \in {new} : t.id = id) <=> id = nextId
    OBVIOUS
  <2> QED
    BY <2>1, <2>2, <2>3
<1>5. /\ chainOf'[nextId] = (IF new.from = NoToken THEN nextId ELSE chainOf[new.from])
      /\ \A id \in 1 .. MaxIds : id # nextId => chainOf'[id] = chainOf[id]
  BY <1>1, <1>4
<1>6. \A id \in issued : id \in 1 .. MaxIds /\ id # nextId
  BY <1>1 DEF HistoryOK
<1>7. chainOf' \in [1 .. MaxIds -> Nat]
  <2>1. \A id \in 1 .. MaxIds : id \in Nat /\ chainOf[id] \in Nat
    BY DEF HistoryOK
  <2> QED
    BY <1>4, <2>1
<1>8. HistoryOK'
  <2>1. \A id \in issued' : id < nextId'
    BY <1>1, <1>3, MaxIdsAssumption DEF HistoryOK
  <2>2. \A t \in tokens' : t.id \in issued'
    BY <1>3 DEF HistoryOK
  <2> QED
    BY <1>1, <1>3, <1>7, <2>1, <2>2 DEF HistoryOK
<1> QED
  BY <1>1, <1>2, <1>3, <1>5, <1>6, <1>8

\* A token that is not revoked is new, or was not revoked before either.
LiveRowsEvolve ==
  \A t \in tokens' : ~t.revoked =>
    \/ t \in New
    \/ \E s \in tokens : ~s.revoked /\ s.id = t.id /\ s.user = t.user /\ s.login = t.login

LEMMA AccountedStays ==
  ASSUME NEW t, NEW r \in Reqs, Accounted(t) \/ r \in overtaken, t.user \in Users,
         HistoryNext, WillIssueTo(req[r], t.user), req'[r] # Idle
  PROVE  Accounted(t)' \/ r \in overtaken'
<1>1. spared \subseteq spared'
  BY DEF HistoryNext
<1>2. CASE r \in overtaken \/ PasswordReplaced(t.user)
  BY <1>2 DEF HistoryNext
<1>3. CASE Accounted(t) /\ ~PasswordReplaced(t.user)
  BY <1>1, <1>3 DEF Accounted, PasswordReplaced
<1> QED
  BY <1>2, <1>3

\* What a waiting request has read is still so, or the history says that it was
\* overtaken, outrun or, if it is a reset, that it does not see a token.
LEMMA WaitingStaysFresh ==
  ASSUME HistoryInv, HistoryNext, LiveRowsEvolve, NEW r \in Reqs, req'[r] = req[r]
  PROVE  IssuesFresh(r)' /\ SpendsFresh(r)'
<1> DEFINE q == req[r]
<1>0. /\ q \in Request /\ RequestOK(q) /\ IssuesFresh(r) /\ SpendsFresh(r)
      /\ spared \subseteq spared' /\ issued \subseteq issued'
      /\ registered \subseteq Users
  BY DEF HistoryInv, IInv, TypeOK, HistoryNext
<1>1. /\ q.at \in {"register.create", "register.mail", "issue"} => q.user \in Users
      /\ q.at # "idle" => q # Idle
  BY <1>0 DEF Request, Idle, Registering, Refused, Issuing, Rotating, Verifying,
     Resetting, ResetTx, RequestOK
<1>2. ASSUME q.at \in {"register.create", "register.mail"}
      PROVE  passwordHash'[q.user] = 0 \/ r \in overtaken'
  BY <1>0, <1>1, <1>2 DEF IssuesFresh, HistoryNext, WillIssueTo, PasswordReplaced
<1>3. ASSUME q.at = "issue"
      PROVE  q.login = passwordHash'[q.user] \/ r \in overtaken'
  BY <1>0, <1>1, <1>3 DEF IssuesFresh, HistoryNext, WillIssueTo, PasswordReplaced
<1>4. ASSUME q.at = "refresh.commit"
      PROVE  q.token.id \in issued' /\ (Accounted(q.token)' \/ r \in overtaken')
  <2>1. q.token.id \in issued /\ (Accounted(q.token) \/ r \in overtaken)
    BY <1>0, <1>4 DEF IssuesFresh
  <2>2. q.token.user \in Users
    BY <1>0, <1>4 DEF RequestOK, TokenSnapshotOK
  <2>3. WillIssueTo(q, q.token.user) /\ req'[r] # Idle
    BY <1>1, <1>4 DEF WillIssueTo
  <2> QED
    BY <1>0, <2>1, <2>2, <2>3, AccountedStays
<1>5. ASSUME q.at = "reset.commit", NEW t \in UnrevokedOf(q.mail.user)'
      PROVE  t.id \in q.doomed \cup spared'
  <2>1. t \in tokens' /\ t.user = q.mail.user /\ ~t.revoked
    BY DEF UnrevokedOf
  <2>2. CASE t \in New
    <3>1. ResetUnderWay(t.user)
      BY <1>5, <2>1 DEF ResetUnderWay
    <3> QED
      BY <2>2, <3>1 DEF HistoryNext
  <2>3. CASE \E s \in tokens : ~s.revoked /\ s.id = t.id /\ s.user = t.user
    BY <1>0, <1>5, <2>1, <2>3 DEF IssuesFresh, UnrevokedOf
  <2> QED
    BY <2>1, <2>2, <2>3 DEF LiveRowsEvolve
<1>6. IssuesFresh(r)'
  BY <1>2, <1>3, <1>4, <1>5 DEF IssuesFresh
<1>7. ASSUME WillSpend(q), NEW m \in mailed', m.id = q.mail.id, m.used
      PROVE  r \in outrun'
  <2>1. q # Idle
    BY <1>1, <1>7 DEF WillSpend
  <2>2. m \in mailed => r \in outrun
    BY <1>0, <1>7 DEF SpendsFresh
  <2>3. m \notin mailed => q.mail.id \in JustSpent
    BY <1>7 DEF JustSpent
  <2> QED
    BY <1>7, <2>1, <2>2, <2>3 DEF HistoryNext
<1>8. WillSpend(q)' <=> WillSpend(q)
  BY DEF WillSpend
<1>9. SpendsFresh(r)'
  BY <1>7, <1>8 DEF SpendsFresh, WillSpend
<1> QED
  BY <1>6, <1>9

\* What is left to show of a step in which at most one request moves.
LEMMA MoveKeepsHistory ==
  ASSUME HistoryInv, HistoryNext, IInv', HistoryOK', LiveRowsEvolve,
         (\A t \in tokens : ~t.revoked => Accounted(t))',
         \A x \in Reqs : req'[x] = req[x] \/ (IssuesFresh(x)' /\ SpendsFresh(x)')
  PROVE  HistoryInv'
<1>1. ASSUME NEW x \in Reqs PROVE IssuesFresh(x)' /\ SpendsFresh(x)'
  BY WaitingStaysFresh
<1> QED
  BY <1>1 DEF HistoryInv

\* A step that issues and revokes nothing.
LEMMA TokensStayAccounted ==
  ASSUME HistoryInv, HistoryNext, tokens' = tokens, passwordHash' = passwordHash,
         nextId' = nextId \/ nextId' = nextId + 1
  PROVE  HistoryOK' /\ LiveRowsEvolve /\ (\A t \in tokens : ~t.revoked => Accounted(t))'
<1>1. nextId \in Nat /\ HistoryOK
  BY DEF HistoryInv, IInv, TypeOK
<1>2. HistoryOK'
  BY <1>1, HistoryStays
<1>3. LiveRowsEvolve
  BY DEF LiveRowsEvolve
<1>4. spared \subseteq spared'
  BY DEF HistoryNext
<1> QED
  BY <1>2, <1>3, <1>4 DEF HistoryInv, Accounted

LEMMA IdleIsFresh ==
  ASSUME NEW r \in Reqs, req'[r] = Idle
  PROVE  IssuesFresh(r)' /\ SpendsFresh(r)'
  BY DEF IssuesFresh, SpendsFresh, WillSpend, Idle

\* A step that issues and revokes nothing and moves the request r.
LEMMA QuietMoveKeepsHistory ==
  ASSUME HistoryInv, HistoryNext, IInv', tokens' = tokens, passwordHash' = passwordHash,
         nextId' = nextId \/ nextId' = nextId + 1, NEW r \in Reqs, NEW q, Goto(r, q),
         req'[r] = q => IssuesFresh(r)' /\ SpendsFresh(r)'
  PROVE  HistoryInv'
<1>1. req'[r] = q /\ \A x \in Reqs : x # r => req'[x] = req[x]
  BY DEF Goto, HistoryInv, IInv, TypeOK
<1> QED
  BY <1>1, TokensStayAccounted, MoveKeepsHistory

\* Registering, likewise.
LEMMA RegisterKeepsHistory ==
  ASSUME HistoryInv, HistoryNext, IInv', NEW r \in Reqs, RegisterStep(r)
  PROVE  HistoryInv'
<1>0. /\ IssuesFresh(r) /\ req \in [Reqs -> Request]
      /\ \A u \in Users : u \notin registered => passwordHash[u] = 0
  BY DEF HistoryInv, IInv, TypeOK
<1>1. ASSUME NEW u \in Users, RegisterStart(r, u)
      PROVE  HistoryInv'
  <2> DEFINE q == IF EmailTaken(u) THEN [at |-> "register.refused", status |-> 409]
                                   ELSE [at |-> "register.create", user |-> u]
  <2>1. /\ Goto(r, q) /\ passwordHash' = passwordHash /\ tokens' = tokens
        /\ nextId' = nextId
    BY <1>1 DEF RegisterStart, account
  <2>2. u \notin registered => passwordHash'[u] = 0
    BY <1>0, <2>1
  <2>3. req'[r] = q => IssuesFresh(r)' /\ SpendsFresh(r)'
    BY <2>2 DEF IssuesFresh, SpendsFresh, WillSpend, EmailTaken, HasAccount
  <2> HIDE DEF q
  <2> QED
    BY <2>1, <2>3, QuietMoveKeepsHistory
<1>2. CASE RegisterCreate(r)
  <2> DEFINE q == IF req[r].user \in registered
                  THEN [at |-> "register.refused", status |-> 500]
                  ELSE [at |-> "register.mail", user |-> req[r].user]
  <2>1. /\ Goto(r, q) /\ passwordHash' = passwordHash /\ tokens' = tokens
        /\ nextId' = nextId /\ req[r].at = "register.create"
    BY <1>2 DEF RegisterCreate
  <2>2. passwordHash'[req[r].user] = 0 \/ r \in overtaken
    BY <1>0, <2>1 DEF IssuesFresh
  <2>3. req'[r] = q /\ r \in overtaken => r \in overtaken'
    BY DEF HistoryNext, Idle
  <2>4. req'[r] = q => IssuesFresh(r)' /\ SpendsFresh(r)'
    BY <2>2, <2>3 DEF IssuesFresh, SpendsFresh, WillSpend
  <2> HIDE DEF q
  <2> QED
    BY <2>1, <2>4, QuietMoveKeepsHistory
<1>3. CASE RegisterMail(r)
  <2> DEFINE q == [at |-> "issue", user |-> req[r].user, login |-> 0]
  <2>1. /\ Goto(r, q) /\ passwordHash' = passwordHash /\ tokens' = tokens
        /\ nextId' = nextId + 1 /\ req[r].at = "register.mail"
    BY <1>3 DEF RegisterMail, account, TakeId
  <2>2. passwordHash'[req[r].user] = 0 \/ r \in overtaken
    BY <1>0, <2>1 DEF IssuesFresh
  <2>3. req'[r] = q /\ r \in overtaken => r \in overtaken'
    BY DEF HistoryNext, Idle
  <2>4. req'[r] = q => IssuesFresh(r)' /\ SpendsFresh(r)'
    BY <2>2, <2>3 DEF IssuesFresh, SpendsFresh, WillSpend
  <2> HIDE DEF q
  <2> QED
    BY <2>1, <2>4, QuietMoveKeepsHistory
<1> QED
  BY <1>1, <1>2, <1>3 DEF RegisterStep

\* A token is issued: its login is its user's password, or it is spared.
LEMMA IssuingKeepsHistory ==
  ASSUME HistoryInv, HistoryNext, IInv', NEW r \in Reqs, req'[r] = Idle,
         \A x \in Reqs : x # r => req'[x] = req[x],
         passwordHash' = passwordHash, HistoryOK', NEW new, New = {new},
         new.login = passwordHash[new.user] \/ new.id \in spared',
         \A t \in tokens' : t = new \/ t.revoked \/ t \in tokens
  PROVE  HistoryInv'
<1>1. LiveRowsEvolve
  BY DEF LiveRowsEvolve
<1>2. spared \subseteq spared'
  BY DEF HistoryNext
<1>3. \A t \in tokens' : ~t.revoked => t = new \/ Accounted(t)
  BY DEF HistoryInv
<1>4. (\A t \in tokens : ~t.revoked => Accounted(t))'
  BY <1>2, <1>3 DEF Accounted
<1> QED
  BY <1>1, <1>4, IdleIsFresh, MoveKeepsHistory

\* Rows are revoked, deleted or expire, and no token is issued.
LEMMA RevokingKeepsHistory ==
  ASSUME HistoryInv, HistoryNext, IInv', passwordHash' = passwordHash, nextId' = nextId,
         req' = req, \A t \in tokens' : \E s \in tokens : s.id = t.id /\
           (~t.revoked => ~s.revoked /\ s.user = t.user /\ s.login = t.login)
  PROVE  HistoryInv'
<1>1. nextId \in Nat /\ HistoryOK
  BY DEF HistoryInv, IInv, TypeOK
<1>2. HistoryOK'
  BY <1>1, HistoryStays
<1>3. LiveRowsEvolve
  BY DEF LiveRowsEvolve
<1>4. spared \subseteq spared'
  BY DEF HistoryNext
<1>5. (\A t \in tokens : ~t.revoked => Accounted(t))'
  BY <1>4 DEF HistoryInv, Accounted
<1> QED
  BY <1>2, <1>3, <1>5, MoveKeepsHistory

\* What a commit of refresh does to the rows.
LEMMA RefreshRows ==
  ASSUME IInv, HistoryOK, NEW r \in Reqs, IssuesFresh(r), RefreshCommit(r)
  PROVE  LET old == req[r].token
             new == IssuedToken(old.user, old.id, old.login)
         IN /\ old.id \in issued /\ old.id \in 1 .. MaxIds /\ old.id # NoToken
            /\ old.user \in Users
            /\ new.id = nextId /\ new.from = old.id /\ ~new.revoked
            /\ new.user = old.user /\ new.login = old.login
            /\ \E row \in tokens :
                 /\ TokenRow(old.id) = {row}
                 /\ row.id = old.id /\ row.user = old.user /\ row.login = old.login
                 /\ \E spent : /\ spent.id = row.id /\ spent.revoked
                               /\ tokens' = (tokens \ {row}) \cup {spent, new}
<1> DEFINE old == req[r].token
           new == IssuedToken(old.user, old.id, old.login)
<1>1. /\ tokens' = (tokens \ TokenRow(old.id))
                     \cup {ReplacedBy(t, nextId) : t \in TokenRow(old.id)} \cup {new}
      /\ TokenRow(old.id) # {} /\ req[r].at = "refresh.commit"
  BY DEF RefreshCommit
<1>2. /\ new.id = nextId /\ new.from = old.id /\ ~new.revoked
      /\ new.user = old.user /\ new.login = old.login
  BY DEF IssuedToken
<1>3. old.id \in issued /\ old.id \in 1 .. MaxIds /\ old.id # NoToken
  <2>1. old.id \in issued
    BY <1>1 DEF IssuesFresh
  <2>2. \A id \in issued : id \in 1 .. MaxIds /\ id # NoToken
    BY MaxIdsAssumption DEF HistoryOK, NoToken
  <2> QED
    BY <2>1, <2>2
<1>4. TokenSnapshotOK(old) /\ old.user \in Users
  BY <1>1 DEF IInv, TypeOK, RequestOK, TokenSnapshotOK
<1> HIDE DEF new, old
<1>5. PICK row \in tokens : row.id = old.id
  BY <1>1 DEF TokenRow
<1>6. TokenRow(old.id) = {row} /\ row.user = old.user /\ row.login = old.login
  BY <1>4, <1>5 DEF TokenRow, IInv, IdsAreUnique, TokenSnapshotOK
<1> DEFINE spent == ReplacedBy(row, nextId)
<1>7. spent.id = row.id /\ spent.revoked
  BY <1>5 DEF ReplacedBy, RefreshToken, IInv, TypeOK
<1>8. tokens' = (tokens \ {row}) \cup {spent, new}
  BY <1>1, <1>6
<1> HIDE DEF spent
<1> QED
  BY <1>2, <1>3, <1>4, <1>5, <1>6, <1>7, <1>8 DEF old, new

LEMMA SessionKeepsHistory ==
  ASSUME HistoryInv, HistoryNext, IInv', NEW r \in Reqs, SessionStep(r)
  PROVE  HistoryInv'
<1>0. /\ IInv /\ HistoryOK /\ tokens \subseteq RefreshToken /\ IssuesFresh(r)
      /\ nextId \in Nat \ {NoToken} /\ req \in [Reqs -> Request]
      /\ \A t \in tokens : ~t.revoked => Accounted(t)
  BY DEF HistoryInv, IInv, TypeOK
<1>1. ASSUME NEW u \in Users, Login(r, u)
      PROVE  HistoryInv'
  <2> DEFINE q == [at |-> "issue", user |-> u, login |-> passwordHash[u]]
  <2>1. /\ Goto(r, q) /\ passwordHash' = passwordHash /\ tokens' = tokens
        /\ nextId' = nextId
    BY <1>1 DEF Login, account
  <2>2. req'[r] = q => IssuesFresh(r)' /\ SpendsFresh(r)'
    BY <2>1 DEF IssuesFresh, SpendsFresh, WillSpend
  <2> HIDE DEF q
  <2> QED
    BY <2>1, <2>2, QuietMoveKeepsHistory
<1>2. CASE Issue(r)
  <2> DEFINE new == IssuedToken(req[r].user, NoToken, req[r].login)
  <2>1. /\ tokens' = tokens \cup {new} /\ passwordHash' = passwordHash /\ TakeId
        /\ req' = [req EXCEPT ![r] = Idle] /\ req[r].at = "issue"
    BY <1>2 DEF Issue, account, Goto
  <2>2. /\ new.login = req[r].login /\ new.user = req[r].user /\ new.id = nextId
        /\ new.from = NoToken /\ new.from \in Nat
    BY DEF IssuedToken, NoToken
  <2> HIDE DEF new
  <2>3. req'[r] = Idle /\ Moves(r) /\ \A x \in Reqs : x # r => req'[x] = req[x]
    BY <1>0, <2>1 DEF Moves, Idle
  <2>4. HistoryOK' /\ New = {new}
    <3>1. new \in tokens' /\ \A t \in tokens' : t = new \/ \E s \in tokens : s.id = t.id
      BY <2>1
    <3> QED
      BY <1>0, <2>1, <2>2, <3>1, HistoryGrows
  <2>5. new.login = passwordHash[new.user] \/ new.id \in spared'
    <3>1. new.login = passwordHash[new.user] \/ r \in overtaken
      BY <1>0, <2>1, <2>2 DEF IssuesFresh
    <3>2. r \in overtaken => new.id \in spared'
      BY <2>3, <2>4 DEF HistoryNext
    <3> QED
      BY <3>1, <3>2
  <2> QED
    BY <2>1, <2>3, <2>4, <2>5, IssuingKeepsHistory
<1>3. ASSUME NEW t \in tokens, RefreshStart(r, t)
      PROVE  HistoryInv'
  <2> DEFINE q == [at |-> "refresh.commit", token |-> t]
  <2>1. /\ Goto(r, q) /\ passwordHash' = passwordHash /\ tokens' = tokens
        /\ nextId' = nextId
    BY <1>3 DEF RefreshStart, account
  <2>2. t.id \in issued' /\ Accounted(t)'
    BY <1>0, <1>3, <2>1 DEF HistoryNext, HistoryOK, Accounted, RefreshStart, Refreshable
  <2>3. req'[r] = q => IssuesFresh(r)' /\ SpendsFresh(r)'
    BY <2>2 DEF IssuesFresh, SpendsFresh, WillSpend
  <2> HIDE DEF q
  <2> QED
    BY <2>1, <2>3, QuietMoveKeepsHistory
<1>4. CASE RefreshCommit(r)
  <2> DEFINE old == req[r].token
             new == IssuedToken(old.user, old.id, old.login)
  <2>1. /\ old.id \in issued /\ old.id \in 1 .. MaxIds /\ old.id # NoToken
        /\ new.id = nextId /\ new.from = old.id
        /\ new.user = old.user /\ new.login = old.login
        /\ \E row \in tokens : \E spent :
             /\ spent.id = row.id /\ spent.revoked
             /\ tokens' = (tokens \ {row}) \cup {spent, new}
    BY <1>0, <1>4, RefreshRows
  <2>2. /\ passwordHash' = passwordHash /\ TakeId
        /\ req' = [req EXCEPT ![r] = Idle] /\ req[r].at = "refresh.commit"
    BY <1>4 DEF RefreshCommit, account, Goto
  <2>3. Accounted(old) \/ r \in overtaken
    BY <1>0, <2>2 DEF IssuesFresh
  <2> HIDE DEF new, old
  <2>4. req'[r] = Idle /\ Moves(r) /\ \A x \in Reqs : x # r => req'[x] = req[x]
    BY <1>0, <2>2 DEF Moves, Idle
  <2>5. HistoryOK' /\ New = {new}
    <3>1. new \in tokens' /\ \A t \in tokens' : t = new \/ \E s \in tokens : s.id = t.id
      BY <2>1
    <3>2. new.from \in 1 .. MaxIds /\ new.from \in Nat
      BY <2>1
    <3> QED
      BY <1>0, <2>1, <2>2, <3>1, <3>2, HistoryGrows
  <2>6. new.login = passwordHash[new.user] \/ new.id \in spared'
    <3>1. new.login = passwordHash[new.user] \/ old.id \in spared \/ r \in overtaken
      BY <2>1, <2>3 DEF Accounted
    <3>2. old.id \in spared \/ r \in overtaken => new.id \in spared'
      BY <2>1, <2>4, <2>5 DEF HistoryNext
    <3> QED
      BY <3>1, <3>2
  <2>7. \A t \in tokens' : t = new \/ t.revoked \/ t \in tokens
    BY <2>1
  <2> QED
    BY <2>2, <2>4, <2>5, <2>6, <2>7, IssuingKeepsHistory
<1>5. ASSUME NEW t \in tokens, Logout(r, t)
      PROVE  HistoryInv'
  <2> DEFINE out == [t EXCEPT !.revoked = TRUE]
  <2>1. out.id = t.id /\ out.revoked
    BY <1>0 DEF RefreshToken
  <2>2. /\ tokens' = (tokens \ {t}) \cup {out} /\ passwordHash' = passwordHash
        /\ nextId' = nextId /\ req' = req
    BY <1>5 DEF Logout, Revoked, account
  <2> HIDE DEF out
  <2> QED
    BY <2>1, <2>2, RevokingKeepsHistory
<1> QED
  BY <1>1, <1>2, <1>3, <1>4, <1>5 DEF SessionStep

\* Spending a mailed token: whoever checked it before finds it unused, or is outrun.
LEMMA MailedTokenKeepsHistory ==
  ASSUME HistoryInv, HistoryNext, IInv', NEW r \in Reqs, MailedTokenStep(r)
  PROVE  HistoryInv'
<1>0. /\ IInv /\ HistoryOK /\ tokens \subseteq RefreshToken
      /\ IssuesFresh(r) /\ SpendsFresh(r)
      /\ nextId \in Nat /\ req \in [Reqs -> Request]
      /\ passwordHash \in [Users -> Nat] /\ spared \subseteq spared'
      /\ \A t \in tokens : ~t.revoked => Accounted(t)
      /\ \A m, n \in mailed : m.id = n.id => m = n
  BY DEF HistoryInv, IInv, TypeOK, IdsAreUnique, HistoryNext
<1>1. ASSUME NEW m \in mailed, VerifyStart(r, m) \/ ResetStart(r, m)
      PROVE  HistoryInv'
  <2>1. PICK at \in {"verify.commit", "reset.revoke"} : Goto(r, [at |-> at, mail |-> m])
    BY <1>1 DEF VerifyStart, ResetStart
  <2> DEFINE q == [at |-> at, mail |-> m]
  <2>2. /\ Goto(r, q) /\ passwordHash' = passwordHash /\ tokens' = tokens
        /\ nextId' = nextId /\ mailed' = mailed /\ ~m.used
    BY <1>1, <2>1 DEF VerifyStart, ResetStart, account, Usable
  <2>3. req'[r] = q => IssuesFresh(r)' /\ SpendsFresh(r)'
    BY <1>0, <2>2 DEF IssuesFresh, SpendsFresh
  <2> HIDE DEF q
  <2> QED
    BY <2>2, <2>3, QuietMoveKeepsHistory
<1>2. CASE VerifyCommit(r)
  <2>1. /\ Goto(r, Idle) /\ passwordHash' = passwordHash /\ tokens' = tokens
        /\ nextId' = nextId
    BY <1>2 DEF VerifyCommit
  <2> QED
    BY <2>1, IdleIsFresh, QuietMoveKeepsHistory
<1>3. ASSUME NEW u \in Users, ForgotPassword(r, u)
      PROVE  HistoryInv'
  <2>1. /\ req' = req /\ passwordHash' = passwordHash /\ tokens' = tokens
        /\ nextId' = nextId + 1
    BY <1>3 DEF ForgotPassword, TakeId, account
  <2> QED
    BY <2>1, TokensStayAccounted, MoveKeepsHistory
<1>4. CASE ResetRevoke(r)
  <2> DEFINE q == [at |-> "reset.commit", mail |-> req[r].mail,
                   doomed |-> {t.id : t \in UnrevokedOf(req[r].mail.user)}]
  <2>1. /\ Goto(r, q) /\ passwordHash' = passwordHash /\ tokens' = tokens
        /\ nextId' = nextId /\ mailed' = mailed /\ req[r].at = "reset.revoke"
    BY <1>4 DEF ResetRevoke, account
  <2>2. ASSUME req'[r] = q
        PROVE  IssuesFresh(r)'
    <3>1. UnrevokedOf(req[r].mail.user)' = {t \in tokens : t.user = req'[r].mail.user /\ ~t.revoked}
      BY <2>1, <2>2 DEF UnrevokedOf
    <3> QED
      BY <2>1, <2>2 DEF IssuesFresh, UnrevokedOf
  <2>3. ASSUME req'[r] = q
        PROVE  SpendsFresh(r)'
    <3>1. req'[r].mail = req[r].mail /\ req'[r] # Idle
      BY <2>3 DEF Idle
    <3>2. r \in outrun => r \in outrun'
      BY <3>1 DEF HistoryNext
    <3> QED
      BY <1>0, <2>1, <3>1, <3>2 DEF SpendsFresh, WillSpend
  <2> HIDE DEF q
  <2> QED
    BY <2>1, <2>2, <2>3, QuietMoveKeepsHistory
<1>5. CASE ResetCommit(r)
  <2> DEFINE u == req[r].mail.user
             dead == RevokedByReset(req[r].doomed)
  <2>1. /\ passwordHash' = [passwordHash EXCEPT ![u] = @ + 1] /\ nextId' = nextId
        /\ tokens' = (tokens \ dead) \cup Revoked(dead) /\ req[r].at = "reset.commit"
        /\ req' = [req EXCEPT ![r] = Idle]
    BY <1>5 DEF ResetCommit, Goto
  <2>2. /\ dead \subseteq tokens
        /\ \A t \in tokens : t.user = u /\ ~t.revoked => t \in dead \/ t.id \in spared
    BY <1>0, <2>1 DEF IssuesFresh, UnrevokedOf, RevokedByReset
  <2> HIDE DEF dead
  <2>3. \A t \in tokens' : \E s \in tokens : s.id = t.id /\ (~t.revoked => s = t /\ t \notin dead)
    BY <1>0, <2>1, <2>2 DEF Revoked, RefreshToken
  <2>4. HistoryOK'
    BY <1>0, <2>1, <2>3, HistoryStays
  <2>5. LiveRowsEvolve
    BY <2>3 DEF LiveRowsEvolve
  <2>6. ASSUME NEW t \in tokens', ~t.revoked
        PROVE  Accounted(t)'
    <3>1. t \in tokens /\ t \notin dead
      BY <2>3, <2>6
    <3>2. CASE t.user = u
      BY <1>0, <2>2, <2>6, <3>1, <3>2 DEF Accounted
    <3>3. CASE t.user # u
      <4>1. passwordHash'[t.user] = passwordHash[t.user]
        BY <1>0, <2>1, <3>1, <3>3 DEF RefreshToken
      <4> QED
        BY <1>0, <2>6, <3>1, <4>1 DEF Accounted
    <3> QED
      BY <3>2, <3>3
  <2>7. req'[r] = Idle /\ \A x \in Reqs : x # r => req'[x] = req[x]
    BY <1>0, <2>1
  <2>8. (\A t \in tokens : ~t.revoked => Accounted(t))'
    BY <2>6
  <2> QED
    BY <2>4, <2>5, <2>7, <2>8, IdleIsFresh, MoveKeepsHistory
<1> QED
  BY <1>1, <1>2, <1>3, <1>4, <1>5 DEF MailedTokenStep

LEMMA NextKeepsHistory ==
  ASSUME HistoryInv, [Next /\ HistoryNext]_HistoryVars
  PROVE  HistoryInv'
<1>0. IInv /\ tokens \subseteq RefreshToken
  BY DEF HistoryInv, IInv, TypeOK
<1>1. CASE UNCHANGED HistoryVars
  <2>1. IInv'
    BY <1>0, <1>1, StutteringKeepsIInv DEF HistoryVars
  <2>2. UNCHANGED vars /\ UNCHANGED history
    BY <1>1 DEF HistoryVars
  <2>3. HistoryOK' /\ (\A t \in tokens : ~t.revoked => Accounted(t))'
    BY <2>2 DEF HistoryInv, HistoryOK, Accounted, vars, history
  <2>4. ASSUME NEW r \in Reqs PROVE IssuesFresh(r)' /\ SpendsFresh(r)'
    BY <2>2 DEF HistoryInv, IssuesFresh, SpendsFresh, WillSpend, UnrevokedOf, Accounted,
       vars, history
  <2> QED
    BY <2>1, <2>3, <2>4 DEF HistoryInv
<1>2. CASE Next /\ HistoryNext
  <2>0. IInv'
    BY <1>0, <1>2, NextKeepsIInv
  <2>1. ASSUME NEW r \in Reqs, Abandon(r)
        PROVE  HistoryInv'
    <3>1. /\ Goto(r, Idle) /\ passwordHash' = passwordHash /\ tokens' = tokens
          /\ nextId' = nextId
      BY <2>1 DEF Abandon, account
    <3> QED
      BY <1>2, <2>0, <3>1, IdleIsFresh, QuietMoveKeepsHistory
  <2>2. ASSUME NEW t \in tokens, ExpireToken(t)
        PROVE  HistoryInv'
    <3> DEFINE old == [t EXCEPT !.expired = TRUE]
    <3>1. old.id = t.id /\ old.user = t.user /\ old.login = t.login /\ old.revoked = t.revoked
      BY <1>0 DEF RefreshToken
    <3>2. /\ tokens' = (tokens \ {t}) \cup {old} /\ passwordHash' = passwordHash
          /\ nextId' = nextId /\ req' = req
      BY <2>2 DEF ExpireToken, account
    <3> HIDE DEF old
    <3> QED
      BY <1>2, <2>0, <3>1, <3>2, RevokingKeepsHistory
  <2>3. CASE Cleanup
    <3>1. /\ tokens' \subseteq tokens /\ passwordHash' = passwordHash
          /\ nextId' = nextId /\ req' = req
      BY <2>3 DEF Cleanup, account
    <3> QED
      BY <1>2, <2>0, <3>1, RevokingKeepsHistory
  <2>4. ASSUME NEW m \in mailed, ExpireMail(m)
        PROVE  HistoryInv'
    <3>1. tokens' = tokens /\ passwordHash' = passwordHash /\ nextId' = nextId /\ req' = req
      BY <2>4 DEF ExpireMail, account
    <3> QED
      BY <1>2, <2>0, <3>1, TokensStayAccounted, MoveKeepsHistory
  <2> QED
    BY <1>2, <2>0, <2>1, <2>2, <2>3, <2>4, RegisterKeepsHistory, SessionKeepsHistory,
       MailedTokenKeepsHistory DEF Next
<1> QED
  BY <1>1, <1>2

LEMMA InitHistoryInv ==
  ASSUME Init, HistoryInit
  PROVE  HistoryInv
<1>1. IInv /\ tokens = {} /\ \A r \in Reqs : req[r] = Idle
  BY InitIInv DEF Init
<1>2. \A r \in Reqs : IssuesFresh(r) /\ SpendsFresh(r)
  BY <1>1 DEF IssuesFresh, SpendsFresh, WillSpend, Idle
<1>3. HistoryOK
  BY <1>1, MaxIdsAssumption DEF HistoryInit, HistoryOK, NoToken
<1> QED
  BY <1>1, <1>2, <1>3 DEF HistoryInv

\* The inductive invariant with the history, for any number of users, requests and
\* tokens: what a request in flight has read is still so, or it is on record that the
\* request was overtaken or outrun, and every token that is not revoked was issued to
\* the password its user has now, or is on record as spared by a reset.
THEOREM HistoryInvariance == HistorySpec => []HistoryInv
<1>1. Init /\ HistoryInit => HistoryInv
  BY InitHistoryInv
<1>2. HistoryInv /\ [Next /\ HistoryNext]_HistoryVars => HistoryInv'
  BY NextKeepsHistory
<1> QED
  BY <1>1, <1>2, PTL DEF HistorySpec

\* resetPassword, whatever runs at once: a token of an earlier password is live only if
\* the request that issued it was in flight when the password was replaced, or committed
\* between the reset's updateMany and its commit, or rotates such a token.
THEOREM ResetsEndSessions == HistorySpec => []ResetEndsSessions
<1>1. HistoryInv => ResetEndsSessions
  BY DEF HistoryInv, Accounted, ResetEndsSessions, Live
<1> QED
  BY <1>1, HistoryInvariance, PTL

\* One step of AccountChangesCostAToken.
PaidStep ==
  /\ \A u \in verified' \ verified : \E r \in Reqs : Pays(r, "verify", u)
  /\ \A u \in Users : PasswordReplaced(u) => \E r \in Reqs : Pays(r, "reset", u)

LEMMA SpendingPays ==
  ASSUME HistoryInv, NEW r \in Reqs, NEW kind, WillSpend(req[r]), req[r].mail.kind = kind,
         MailSnapshotOK(req[r].mail), Goto(r, Idle), mailed' = MarkedMail(req[r].mail.id)
  PROVE  Pays(r, kind, req[r].mail.user)
<1> DEFINE id == req[r].mail.id
<1>1. PICK m \in mailed : m.id = id /\ m.kind = kind /\ m.user = req[r].mail.user
  BY DEF MailSnapshotOK
<1>2. m.used => r \in outrun
  BY <1>1 DEF HistoryInv, SpendsFresh
<1> DEFINE n == [m EXCEPT !.used = TRUE]
<1>3. n.id = m.id /\ n.used
  BY DEF HistoryInv, IInv, TypeOK, MailedToken
<1>4. n \in mailed'
  BY <1>1 DEF MarkedMail, UsedMail
<1> HIDE DEF n
<1>5. Moves(r)
  <2>1. req'[r] = Idle
    BY DEF Goto, HistoryInv, IInv, TypeOK
  <2> QED
    BY <2>1 DEF Moves, WillSpend, Idle
<1> QED
  BY <1>1, <1>2, <1>3, <1>4, <1>5 DEF Pays

LEMMA NextIsPaidFor ==
  ASSUME HistoryInv, Next
  PROVE  PaidStep
<1>0. \A r \in Reqs : RequestOK(req[r])
  BY DEF HistoryInv, IInv
<1>1. ASSUME NEW r \in Reqs, VerifyCommit(r)
      PROVE  PaidStep
  <2>1. Pays(r, "verify", req[r].mail.user)
    BY <1>0, <1>1, SpendingPays DEF VerifyCommit, RequestOK, WillSpend
  <2> QED
    BY <1>1, <2>1 DEF VerifyCommit, PaidStep, PasswordReplaced
<1>2. ASSUME NEW r \in Reqs, ResetCommit(r)
      PROVE  PaidStep
  <2>1. Pays(r, "reset", req[r].mail.user)
    BY <1>0, <1>2, SpendingPays DEF ResetCommit, RequestOK, WillSpend
  <2>2. /\ verified' = verified
        /\ passwordHash' = [passwordHash EXCEPT ![req[r].mail.user] = @ + 1]
        /\ passwordHash \in [Users -> Nat]
    BY <1>2 DEF ResetCommit, HistoryInv, IInv, TypeOK
  <2>3. \A u \in Users : PasswordReplaced(u) => u = req[r].mail.user
    BY <2>2 DEF PasswordReplaced
  <2> QED
    BY <2>1, <2>2, <2>3 DEF PaidStep
<1>3. CASE verified' = verified /\ passwordHash' = passwordHash
  BY <1>3 DEF PaidStep, PasswordReplaced
<1>4. ASSUME NEW r \in Reqs, RegisterStep(r) \/ SessionStep(r) \/ Abandon(r)
      PROVE  verified' = verified /\ passwordHash' = passwordHash
  BY <1>4 DEF RegisterStep, SessionStep, RegisterStart, RegisterCreate, RegisterMail,
     Login, Issue, RefreshStart, RefreshCommit, Logout, Abandon, account
<1>5. ASSUME NEW r \in Reqs, MailedTokenStep(r), ~VerifyCommit(r), ~ResetCommit(r)
      PROVE  verified' = verified /\ passwordHash' = passwordHash
  BY <1>5 DEF MailedTokenStep, VerifyStart, ForgotPassword, ResetStart, ResetRevoke, account
<1>6. ASSUME (\E t \in tokens : ExpireToken(t)) \/ (\E m \in mailed : ExpireMail(m)) \/ Cleanup
      PROVE  verified' = verified /\ passwordHash' = passwordHash
  BY <1>6 DEF ExpireToken, ExpireMail, Cleanup, account
<1> QED
  BY <1>1, <1>2, <1>3, <1>4, <1>5, <1>6 DEF Next

\* verifyEmail and resetPassword, whatever runs at once: an address is verified, or a
\* password replaced, only with a token mailed to that address, and a second time with
\* the same token only by a request that had checked it before it was spent.
THEOREM AccountsArePaidFor == HistorySpec => AccountChangesCostAToken
<1>1. HistoryInv /\ [Next /\ HistoryNext]_HistoryVars => [PaidStep]_HistoryVars
  BY NextIsPaidFor
<1>2. HistorySpec => [][PaidStep]_HistoryVars
  BY HistoryInvariance, <1>1, PTL DEF HistorySpec
<1> QED
  BY <1>2 DEF AccountChangesCostAToken, PaidStep

-----------------------------------------------------------------------------
(***************************************************************************)
(* The refinement: each step of Sessions with its history is a step of     *)
(* LiveSessions or changes nothing of what it promises.                    *)
(***************************************************************************)
PromiseStep == Promise!Next \/ UNCHANGED <<OpenSessions, issued, Refreshing>>

\* A request goes somewhere but to or from the commit of a refresh, or none does.
NoRefreshMoves ==
  \A r \in Reqs :
    req'[r] = req[r] \/ (req[r].at # "refresh.commit" /\ req'[r].at # "refresh.commit")

\* Sessions keep their names.
LEMMA RefreshingStays ==
  ASSUME HistoryInv, \A id \in issued : chainOf'[id] = chainOf[id], NoRefreshMoves
  PROVE  Refreshing' = Refreshing
<1> DEFINE waiting == {r \in Reqs : req[r].at = "refresh.commit"}
           pair(r) == <<r, [chain |-> chainOf[req[r].token.id], user |-> req[r].token.user,
                            token |-> req[r].token.id]>>
           pairNow(r) == <<r, [chain |-> chainOf'[req'[r].token.id], user |-> req'[r].token.user,
                               token |-> req'[r].token.id]>>
<1>1. \A r \in Reqs : (req'[r].at = "refresh.commit") <=> (req[r].at = "refresh.commit")
  BY DEF NoRefreshMoves
<1>2. \A r \in waiting : req'[r] = req[r] /\ req[r].token.id \in issued
  BY DEF NoRefreshMoves, HistoryInv, IssuesFresh
<1>3. \A r \in waiting : pairNow(r) = pair(r)
  BY <1>2
<1>4. Refreshing = {pair(r) : r \in waiting}
  BY DEF Refreshing, SessionOf
<1>5. Refreshing' = {pairNow(r) : r \in waiting}
  BY <1>1 DEF Refreshing, SessionOf
<1> HIDE DEF pair, pairNow, waiting
<1> QED
  BY <1>3, <1>4, <1>5

\* Tokens that are not revoked stay what they were.
LiveRowsStay ==
  /\ \A t \in tokens' : ~t.revoked =>
       \E s \in tokens : ~s.revoked /\ s.id = t.id /\ s.user = t.user
  /\ \A t \in tokens : ~t.revoked =>
       \E s \in tokens' : ~s.revoked /\ s.id = t.id /\ s.user = t.user

LEMMA OpenStays ==
  ASSUME LiveRowsStay, chainOf' = chainOf
  PROVE  OpenSessions' = OpenSessions
  BY DEF LiveRowsStay, OpenSessions, SessionOf

LEMMA QuietIsStutter ==
  ASSUME HistoryInv, LiveRowsStay, chainOf' = chainOf, issued' = issued, NoRefreshMoves
  PROVE  PromiseStep
  BY OpenStays, RefreshingStays DEF PromiseStep

\* Logout and reset: tokens that are revoked end their sessions.
LEMMA RevokingEnds ==
  ASSUME HistoryInv, NEW dead \in SUBSET tokens, tokens' = (tokens \ dead) \cup Revoked(dead),
         chainOf' = chainOf, issued' = issued, NoRefreshMoves
  PROVE  PromiseStep
<1> DEFINE session(t) == [chain |-> chainOf[t.id], user |-> t.user, token |-> t.id]
           ended == {session(t) : t \in {row \in dead : ~row.revoked}}
<1>0. tokens \subseteq RefreshToken /\ \A s, t \in tokens : s.id = t.id => s = t
  BY DEF HistoryInv, IInv, TypeOK, IdsAreUnique
<1>1. \A t \in tokens' : ~t.revoked => t \in tokens /\ t \notin dead
  BY <1>0 DEF Revoked, RefreshToken
<1>2. \A t \in tokens : t \notin dead => t \in tokens'
  OBVIOUS
<1>3. OpenSessions = {session(t) : t \in {row \in tokens : ~row.revoked}}
  BY DEF OpenSessions, SessionOf
<1>4. OpenSessions' = {session(t) : t \in {row \in tokens' : ~row.revoked}}
  BY DEF OpenSessions, SessionOf
<1>5. \A s, t \in tokens : session(s) = session(t) => s = t
  BY <1>0
<1> HIDE DEF session
<1>6. OpenSessions' = OpenSessions \ ended
  BY <1>1, <1>2, <1>3, <1>4, <1>5
<1>7. ended \in SUBSET OpenSessions
  BY <1>3
<1>8. Refreshing' = Refreshing
  BY RefreshingStays
<1> HIDE DEF ended
<1>9. CASE OpenSessions' = OpenSessions
  BY <1>8, <1>9 DEF PromiseStep
<1>10. CASE OpenSessions' # OpenSessions
  <2>1. Promise!End(ended)
    BY <1>6, <1>8, <1>10 DEF Promise!End
  <2> QED
    BY <1>7, <2>1 DEF PromiseStep, Promise!Next
<1> QED
  BY <1>9, <1>10

\* Register and login open a session.
LEMMA IssueOpens ==
  ASSUME HistoryInv, HistoryNext, NEW r \in Reqs, Issue(r)
  PROVE  PromiseStep
<1> DEFINE u == req[r].user
           new == IssuedToken(u, NoToken, req[r].login)
           session(c, t) == [chain |-> c[t.id], user |-> t.user, token |-> t.id]
<1>0. HistoryOK /\ req \in [Reqs -> Request] /\ nextId \in Nat \ {NoToken}
  BY DEF HistoryInv, IInv, TypeOK
<1>1. /\ tokens' = tokens \cup {new} /\ TakeId /\ req[r].at = "issue"
      /\ req' = [req EXCEPT ![r] = Idle]
  BY DEF Issue, Goto
<1>2. /\ new.id = nextId /\ new.from = NoToken /\ ~new.revoked /\ new.user = u
      /\ new.from \in Nat
  BY DEF IssuedToken, NoToken
<1>3. u \in Users
  BY <1>0, <1>1 DEF Request, Idle, Registering, Refused, Issuing, Rotating,
     Verifying, Resetting, ResetTx
<1> HIDE DEF new
<1>4. NoRefreshMoves
  BY <1>0, <1>1 DEF NoRefreshMoves, Idle
<1>5. new \in tokens' /\ \A t \in tokens' : t = new \/ \E s \in tokens : s.id = t.id
  BY <1>1
<1>6. /\ nextId \in 1 .. MaxIds /\ nextId \notin issued
      /\ issued' = issued \cup {nextId}
      /\ chainOf'[nextId] = nextId
      /\ \A id \in issued : chainOf'[id] = chainOf[id]
  BY <1>0, <1>1, <1>2, <1>5, HistoryGrows
<1>7. OpenSessions' = OpenSessions \cup {[chain |-> nextId, user |-> u, token |-> nextId]}
  <2>1. \A t \in tokens : session(chainOf', t) = session(chainOf, t)
    BY <1>0, <1>6 DEF HistoryOK
  <2>2. session(chainOf', new) = [chain |-> nextId, user |-> u, token |-> nextId]
    BY <1>2, <1>6
  <2>3. OpenSessions = {session(chainOf, t) : t \in {row \in tokens : ~row.revoked}}
    BY DEF OpenSessions, SessionOf
  <2>4. OpenSessions' = {session(chainOf', t) : t \in {row \in tokens' : ~row.revoked}}
    BY DEF OpenSessions, SessionOf
  <2> HIDE DEF session
  <2> QED
    BY <1>1, <1>2, <2>1, <2>2, <2>3, <2>4
<1>8. Refreshing' = Refreshing
  BY <1>4, <1>6, RefreshingStays
<1>9. Promise!Open(u, nextId)
  BY <1>6, <1>7, <1>8 DEF Promise!Open
<1> QED
  BY <1>3, <1>6, <1>9 DEF PromiseStep, Promise!Next

\* The check of refresh accepts a session that is open.
LEMMA StartAccepts ==
  ASSUME HistoryInv, NEW r \in Reqs, NEW t \in tokens, RefreshStart(r, t),
         chainOf' = chainOf, issued' = issued
  PROVE  PromiseStep
<1> DEFINE s == SessionOf(t)
<1>0. req \in [Reqs -> Request]
  BY DEF HistoryInv, IInv, TypeOK
<1>1. /\ tokens' = tokens /\ req[r] = Idle /\ ~t.revoked
      /\ req' = [req EXCEPT ![r] = [at |-> "refresh.commit", token |-> t]]
  BY DEF RefreshStart, Refreshable, Goto
<1>2. OpenSessions' = OpenSessions
  BY <1>1, OpenStays DEF LiveRowsStay
<1>3. s \in OpenSessions
  BY <1>1 DEF OpenSessions
<1>4. \A p \in Refreshing : p[1] # r
  BY <1>1 DEF Refreshing, Idle
<1>5. /\ req'[r].at = "refresh.commit" /\ req'[r].token = t /\ req[r].at # "refresh.commit"
      /\ \A x \in Reqs : x # r => req'[x] = req[x]
  BY <1>0, <1>1 DEF Idle
<1> DEFINE pair(q, x) == <<x, [chain |-> chainOf[q.token.id], user |-> q.token.user,
                               token |-> q.token.id]>>
<1>6. /\ Refreshing = {pair(req[x], x) : x \in {y \in Reqs : req[y].at = "refresh.commit"}}
      /\ Refreshing' = {pair(req'[x], x) : x \in {y \in Reqs : req'[y].at = "refresh.commit"}}
  BY DEF Refreshing, SessionOf
<1>7. pair(req'[r], r) = <<r, s>>
  BY <1>5 DEF SessionOf
<1> HIDE DEF pair, s
<1>8. Refreshing' = Refreshing \cup {<<r, s>>}
  BY <1>5, <1>6, <1>7
<1>9. Promise!Accept(r, s)
  BY <1>2, <1>3, <1>4, <1>8 DEF Promise!Accept
<1> QED
  BY <1>3, <1>9 DEF PromiseStep, Promise!Next

\* The request r leaves the commit of a refresh: so does its accepted session.
LEMMA RefreshingLeaves ==
  ASSUME HistoryInv, \A id \in issued : chainOf'[id] = chainOf[id],
         NEW r \in Reqs, req[r].at = "refresh.commit", req' = [req EXCEPT ![r] = Idle]
  PROVE  /\ <<r, SessionOf(req[r].token)>> \in Refreshing
         /\ Refreshing' = Refreshing \ {<<r, SessionOf(req[r].token)>>}
<1> DEFINE pair(c, q, x) == <<x, [chain |-> c[q.token.id], user |-> q.token.user,
                                  token |-> q.token.id]>>
           at(q) == {x \in Reqs : q[x].at = "refresh.commit"}
<1>0. req \in [Reqs -> Request]
  BY DEF HistoryInv, IInv, TypeOK
<1>1. \A x \in at(req) : req[x].token.id \in issued
  BY DEF HistoryInv, IssuesFresh
<1>2. at(req') = at(req) \ {r} /\ r \in at(req)
  BY <1>0 DEF Idle
<1>3. \A x \in at(req') : req'[x] = req[x]
  BY <1>0, <1>2
<1>4. \A x \in at(req') : pair(chainOf', req'[x], x) = pair(chainOf, req[x], x)
  BY <1>1, <1>2, <1>3
<1>5. Refreshing = {pair(chainOf, req[x], x) : x \in at(req)}
  BY DEF Refreshing, SessionOf
<1>6. Refreshing' = {pair(chainOf', req'[x], x) : x \in at(req')}
  BY DEF Refreshing, SessionOf
<1>7. /\ <<r, SessionOf(req[r].token)>> = pair(chainOf, req[r], r)
      /\ \A x \in at(req) : pair(chainOf, req[x], x) = pair(chainOf, req[r], r) => x = r
  BY DEF SessionOf
<1> HIDE DEF pair, at
<1> QED
  BY <1>2, <1>4, <1>5, <1>6, <1>7

\* Refresh hands the session on to the new token, or opens it again.
LEMMA RefreshRotates ==
  ASSUME HistoryInv, HistoryNext, NEW r \in Reqs, RefreshCommit(r)
  PROVE  PromiseStep
<1> DEFINE old == req[r].token
           new == IssuedToken(old.user, old.id, old.login)
           session(c, t) == [chain |-> c[t.id], user |-> t.user, token |-> t.id]
           s == SessionOf(old)
<1>0. /\ IInv /\ HistoryOK /\ IssuesFresh(r) /\ nextId \in Nat \ {NoToken}
      /\ \A x, y \in tokens : x.id = y.id => x = y
  BY DEF HistoryInv, IInv, TypeOK, IdsAreUnique
<1>1. /\ TakeId /\ req[r].at = "refresh.commit" /\ req' = [req EXCEPT ![r] = Idle]
  BY DEF RefreshCommit, Goto
<1>2. /\ old.id \in issued /\ old.id \in 1 .. MaxIds /\ old.id # NoToken
      /\ new.id = nextId /\ new.from = old.id /\ ~new.revoked /\ new.user = old.user
      /\ \E row \in tokens :
           /\ row.id = old.id /\ row.user = old.user
           /\ \E spent : /\ spent.id = row.id /\ spent.revoked
                         /\ tokens' = (tokens \ {row}) \cup {spent, new}
  BY <1>0, RefreshRows
<1>3. s = session(chainOf, old)
  BY DEF SessionOf
<1> HIDE DEF new
<1>4. PICK row \in tokens :
        /\ row.id = old.id /\ row.user = old.user
        /\ \E spent : /\ spent.id = row.id /\ spent.revoked
                      /\ tokens' = (tokens \ {row}) \cup {spent, new}
  BY <1>2
<1>5. PICK spent : /\ spent.id = row.id /\ spent.revoked
                   /\ tokens' = (tokens \ {row}) \cup {spent, new}
  BY <1>4
<1>6. /\ nextId \in 1 .. MaxIds /\ nextId \notin issued
      /\ issued' = issued \cup {nextId}
      /\ chainOf'[nextId] = chainOf[old.id]
      /\ \A id \in issued : chainOf'[id] = chainOf[id]
  <2>1. new \in tokens' /\ \A t \in tokens' : t = new \/ \E x \in tokens : x.id = t.id
    BY <1>5
  <2>2. new.from \in Nat /\ new.from \in 1 .. MaxIds /\ new.from # NoToken
    BY <1>2
  <2>3. /\ nextId \in 1 .. MaxIds /\ nextId \notin issued
        /\ issued' = issued \cup {nextId}
        /\ chainOf'[nextId] = (IF new.from = NoToken THEN nextId ELSE chainOf[new.from])
        /\ \A id \in issued : chainOf'[id] = chainOf[id]
    BY <1>0, <1>1, <1>2, <2>1, <2>2, HistoryGrows
  <2> QED
    BY <1>2, <2>2, <2>3
<1>7. /\ <<r, s>> \in Refreshing /\ Refreshing' = Refreshing \ {<<r, s>>}
  BY <1>1, <1>6, RefreshingLeaves
<1> DEFINE next == [s EXCEPT !.token = nextId]
<1>8. session(chainOf', new) = next
  BY <1>2, <1>3, <1>6
<1>9. \A t \in tokens : session(chainOf', t) = session(chainOf, t)
  BY <1>0, <1>6 DEF HistoryOK
<1>10. /\ session(chainOf, row) = s
       /\ \A t \in tokens : session(chainOf, t) = s => t = row
  BY <1>0, <1>3, <1>4
<1>11. OpenSessions = {session(chainOf, t) : t \in {x \in tokens : ~x.revoked}}
  BY DEF OpenSessions, SessionOf
<1>12. OpenSessions' = {session(chainOf', t) : t \in {x \in tokens' : ~x.revoked}}
  BY DEF OpenSessions, SessionOf
<1>13. \A t : t \in tokens' /\ ~t.revoked <=> (t \in tokens /\ ~t.revoked /\ t # row) \/ t = new
  BY <1>2, <1>5
<1> HIDE DEF session, next, s, old
<1>14. OpenSessions' = (OpenSessions \ {s}) \cup {next}
  <2>1. ASSUME NEW x \in OpenSessions'
        PROVE  x \in (OpenSessions \ {s}) \cup {next}
    BY <1>8, <1>9, <1>10, <1>11, <1>12, <1>13
  <2>2. ASSUME NEW x \in OpenSessions, x # s
        PROVE  x \in OpenSessions'
    <3>1. PICK t \in tokens : ~t.revoked /\ x = session(chainOf, t)
      BY <1>11
    <3>2. t # row
      BY <1>10, <2>2, <3>1
    <3> QED
      BY <1>9, <1>12, <1>13, <3>1, <3>2
  <2>3. next \in OpenSessions'
    BY <1>8, <1>12, <1>13
  <2> QED
    BY <2>1, <2>2, <2>3
<1>15. Promise!Rotate(r, s, nextId)
  BY <1>6, <1>7, <1>14 DEF Promise!Rotate, next
<1> QED
  BY <1>6, <1>7, <1>15 DEF PromiseStep, Promise!Next

\* A request to refresh that fails is dropped.
LEMMA AbandonDrops ==
  ASSUME HistoryInv, NEW r \in Reqs, Abandon(r), chainOf' = chainOf, issued' = issued
  PROVE  PromiseStep
<1>1. tokens' = tokens /\ req' = [req EXCEPT ![r] = Idle] /\ req \in [Reqs -> Request]
  BY DEF Abandon, Goto, HistoryInv, IInv, TypeOK
<1>2. LiveRowsStay
  BY <1>1 DEF LiveRowsStay
<1>3. CASE req[r].at = "refresh.commit"
  <2> DEFINE s == SessionOf(req[r].token)
  <2>1. <<r, s>> \in Refreshing /\ Refreshing' = Refreshing \ {<<r, s>>}
    BY <1>1, <1>3, RefreshingLeaves
  <2>2. OpenSessions' = OpenSessions
    BY <1>2, OpenStays
  <2> HIDE DEF s
  <2>3. Promise!Drop(r, s)
    BY <2>1, <2>2 DEF Promise!Drop
  <2> QED
    BY <2>1, <2>3 DEF PromiseStep, Promise!Next
<1>4. CASE req[r].at # "refresh.commit"
  <2>1. NoRefreshMoves
    BY <1>1, <1>4 DEF NoRefreshMoves, Idle
  <2> QED
    BY <1>2, <2>1, QuietIsStutter
<1> QED
  BY <1>3, <1>4

LEMMA NextRefines ==
  ASSUME HistoryInv, Next, HistoryNext
  PROVE  PromiseStep
<1>0. /\ IInv /\ HistoryOK /\ tokens \subseteq RefreshToken /\ nextId \in Nat
      /\ req \in [Reqs -> Request]
  BY DEF HistoryInv, IInv, TypeOK
\* No token is issued: the history of tokens stays.
<1>1. ASSUME tokens' = tokens, nextId' = nextId \/ nextId' = nextId + 1
      PROVE  LiveRowsStay /\ chainOf' = chainOf /\ issued' = issued
  <2>1. chainOf' = chainOf /\ issued' = issued
    BY <1>0, <1>1, HistoryStays
  <2> QED
    BY <1>1, <2>1 DEF LiveRowsStay
<1>2. ASSUME NEW dead \in SUBSET tokens, tokens' = (tokens \ dead) \cup Revoked(dead),
             nextId' = nextId, NoRefreshMoves
      PROVE  PromiseStep
  <2>1. \A t \in tokens' : \E s \in tokens : s.id = t.id
    BY <1>0, <1>2 DEF Revoked, RefreshToken
  <2>2. chainOf' = chainOf /\ issued' = issued
    BY <1>0, <1>2, <2>1, HistoryStays
  <2> QED
    BY <1>2, <2>2, RevokingEnds
<1>3. ASSUME LiveRowsStay, nextId' = nextId, req' = req,
             \A t \in tokens' : \E s \in tokens : s.id = t.id
      PROVE  PromiseStep
  <2>1. chainOf' = chainOf /\ issued' = issued
    BY <1>0, <1>3, HistoryStays
  <2> QED
    BY <1>3, <2>1, QuietIsStutter DEF NoRefreshMoves
<1>4. ASSUME NEW r \in Reqs, RegisterStep(r)
      PROVE  PromiseStep
  <2>1. /\ tokens' = tokens /\ (nextId' = nextId \/ nextId' = nextId + 1)
        /\ req[r].at # "refresh.commit"
        /\ \E q : Goto(r, q) /\ q.at # "refresh.commit"
    <3>1. ASSUME NEW u \in Users, RegisterStart(r, u)
          PROVE  /\ tokens' = tokens /\ nextId' = nextId /\ req[r].at # "refresh.commit"
                 /\ \E q : Goto(r, q) /\ q.at # "refresh.commit"
      <4> DEFINE q == IF EmailTaken(u) THEN [at |-> "register.refused", status |-> 409]
                                       ELSE [at |-> "register.create", user |-> u]
      <4>1. Goto(r, q) /\ tokens' = tokens /\ nextId' = nextId /\ req[r].at # "refresh.commit"
        BY <3>1 DEF RegisterStart, Idle
      <4>2. q.at # "refresh.commit"
        OBVIOUS
      <4> QED
        BY <4>1, <4>2
    <3>2. CASE RegisterCreate(r)
      <4> DEFINE q == IF req[r].user \in registered
                      THEN [at |-> "register.refused", status |-> 500]
                      ELSE [at |-> "register.mail", user |-> req[r].user]
      <4>1. Goto(r, q) /\ tokens' = tokens /\ nextId' = nextId /\ req[r].at # "refresh.commit"
        BY <3>2 DEF RegisterCreate
      <4>2. q.at # "refresh.commit"
        OBVIOUS
      <4> QED
        BY <4>1, <4>2
    <3>3. CASE RegisterMail(r)
      <4>1. /\ Goto(r, [at |-> "issue", user |-> req[r].user, login |-> 0])
            /\ tokens' = tokens /\ nextId' = nextId + 1 /\ req[r].at # "refresh.commit"
        BY <3>3 DEF RegisterMail, TakeId
      <4> QED
        BY <4>1
    <3> QED
      BY <1>4, <3>1, <3>2, <3>3 DEF RegisterStep
  <2>2. NoRefreshMoves
    BY <1>0, <2>1 DEF NoRefreshMoves, Goto
  <2> QED
    BY <1>1, <2>1, <2>2, QuietIsStutter
<1>5. ASSUME NEW r \in Reqs, SessionStep(r)
      PROVE  PromiseStep
  <2>1. CASE Issue(r)
    BY <2>1, IssueOpens
  <2>2. CASE RefreshCommit(r)
    BY <2>2, RefreshRotates
  <2>3. ASSUME NEW t \in tokens, Logout(r, t)
        PROVE  PromiseStep
    <3>1. /\ {t} \in SUBSET tokens /\ tokens' = (tokens \ {t}) \cup Revoked({t})
          /\ nextId' = nextId /\ req' = req
      BY <2>3 DEF Logout
    <3> QED
      BY <1>2, <3>1 DEF NoRefreshMoves
  <2>4. ASSUME NEW t \in tokens, RefreshStart(r, t)
        PROVE  PromiseStep
    <3>1. tokens' = tokens /\ nextId' = nextId
      BY <2>4 DEF RefreshStart
    <3> QED
      BY <1>1, <2>4, <3>1, StartAccepts
  <2>5. ASSUME NEW u \in Users, Login(r, u)
        PROVE  PromiseStep
    <3>1. /\ tokens' = tokens /\ nextId' = nextId /\ req[r] = Idle
          /\ req' = [req EXCEPT ![r] = [at |-> "issue", user |-> u, login |-> passwordHash[u]]]
      BY <2>5 DEF Login, Goto
    <3>2. NoRefreshMoves
      BY <1>0, <3>1 DEF NoRefreshMoves, Idle
    <3> QED
      BY <1>1, <3>1, <3>2, QuietIsStutter
  <2> QED
    BY <1>5, <2>1, <2>2, <2>3, <2>4, <2>5 DEF SessionStep
<1>6. ASSUME NEW r \in Reqs, MailedTokenStep(r)
      PROVE  PromiseStep
  <2>1. CASE ResetCommit(r)
    <3> DEFINE dead == RevokedByReset(req[r].doomed)
    <3>1. /\ dead \in SUBSET tokens /\ tokens' = (tokens \ dead) \cup Revoked(dead)
          /\ nextId' = nextId
      BY <2>1 DEF ResetCommit, RevokedByReset
    <3>2. NoRefreshMoves
      BY <1>0, <2>1 DEF NoRefreshMoves, ResetCommit, Goto, Idle
    <3> HIDE DEF dead
    <3> QED
      BY <1>2, <3>1, <3>2
  <2>2. CASE ~ResetCommit(r)
    <3>1. tokens' = tokens /\ (nextId' = nextId \/ nextId' = nextId + 1)
      BY <1>6, <2>2 DEF MailedTokenStep, VerifyStart, VerifyCommit, ForgotPassword,
         ResetStart, ResetRevoke, TakeId
    <3>2. NoRefreshMoves
      <4>1. CASE (\E m \in mailed : VerifyStart(r, m) \/ ResetStart(r, m))
                 \/ (\E u \in Users : ForgotPassword(r, u))
        BY <1>0, <4>1 DEF NoRefreshMoves, VerifyStart, ResetStart, ForgotPassword, Goto, Idle
      <4>2. CASE VerifyCommit(r) \/ ResetRevoke(r)
        BY <1>0, <4>2 DEF NoRefreshMoves, VerifyCommit, ResetRevoke, Goto, Idle
      <4> QED
        BY <1>6, <2>2, <4>1, <4>2 DEF MailedTokenStep
    <3> QED
      BY <1>1, <3>1, <3>2, QuietIsStutter
  <2> QED
    BY <2>1, <2>2
<1>7. ASSUME NEW r \in Reqs, Abandon(r)
      PROVE  PromiseStep
  <2>1. tokens' = tokens /\ nextId' = nextId
    BY <1>7 DEF Abandon
  <2> QED
    BY <1>1, <1>7, <2>1, AbandonDrops
<1>8. ASSUME NEW t \in tokens, ExpireToken(t)
      PROVE  PromiseStep
  <2> DEFINE u == [t EXCEPT !.expired = TRUE]
  <2>1. u.id = t.id /\ u.user = t.user /\ u.revoked = t.revoked
    BY <1>0 DEF RefreshToken
  <2>2. tokens' = (tokens \ {t}) \cup {u} /\ nextId' = nextId /\ req' = req
    BY <1>8 DEF ExpireToken
  <2> HIDE DEF u
  <2>3. LiveRowsStay /\ \A x \in tokens' : \E s \in tokens : s.id = x.id
    BY <2>1, <2>2 DEF LiveRowsStay
  <2> QED
    BY <1>3, <2>2, <2>3
<1>9. CASE Cleanup
  <2>1. /\ LiveRowsStay /\ nextId' = nextId /\ req' = req
        /\ \A t \in tokens' : \E s \in tokens : s.id = t.id
    BY <1>9 DEF Cleanup, LiveRowsStay, Prunable
  <2> QED
    BY <1>3, <2>1
<1>10. CASE \E m \in mailed : ExpireMail(m)
  <2>1. tokens' = tokens /\ nextId' = nextId /\ req' = req
    BY <1>10 DEF ExpireMail
  <2> QED
    BY <1>1, <2>1, QuietIsStutter DEF NoRefreshMoves
<1> QED
  BY <1>4, <1>5, <1>6, <1>7, <1>8, <1>9, <1>10 DEF Next

\* The refinement: however many requests overlap, the rows of RefreshToken behave as
\* sessions whose token is traded by requests that had it accepted while the session
\* was open, whatever users, tokens, rotations and clean-ups there are.
THEOREM Refinement == HistorySpec => ImplementsLiveSessions
<1>1. Init /\ HistoryInit => Promise!Init
  BY DEF Init, HistoryInit, Promise!Init, OpenSessions, Refreshing, Idle
<1>2. HistoryInv /\ [Next /\ HistoryNext]_HistoryVars
        => [Promise!Next]_<<OpenSessions, issued, Refreshing>>
  <2>1. HistoryInv /\ Next /\ HistoryNext => [Promise!Next]_<<OpenSessions, issued, Refreshing>>
    BY NextRefines DEF PromiseStep
  <2>2. UNCHANGED HistoryVars => UNCHANGED <<OpenSessions, issued, Refreshing>>
    BY DEF OpenSessions, Refreshing, SessionOf, HistoryVars, vars, history
  <2> QED
    BY <2>1, <2>2
<1> QED
  BY HistoryInvariance, <1>1, <1>2, PTL DEF HistorySpec, ImplementsLiveSessions, Promise!Spec
=============================================================================
