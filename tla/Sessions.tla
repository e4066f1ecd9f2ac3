------------------------------ MODULE Sessions ------------------------------
(***************************************************************************)
(* Accounts and sessions (auth.service.ts): registering, logging in,       *)
(* rotating and revoking refresh tokens, verifying an address, resetting a *)
(* password, and the worker's clean-up of refresh tokens.                  *)
(*                                                                         *)
(* Requests interleave at each `await`, as in WorkspaceMembers: what a     *)
(* handler has read stays in its slot, a transaction's writes appear at    *)
(* its commit, and a statement inside it sees the rows committed when that *)
(* statement starts (READ COMMITTED).                                      *)
(*                                                                         *)
(* A token is the id of its row: tokens are 48 random bytes, stored as a   *)
(* SHA-256 hash under a unique index (common/crypto/tokens.ts), so nobody  *)
(* presents a token that was not issued and no two rows share one.         *)
(* Passwords are counted: passwordHash[u] is the number of times it was    *)
(* replaced, and knowing the password means knowing the current number.    *)
(* Access tokens are stateless (15 minutes) and leave no row.              *)
(***************************************************************************)
EXTENDS Naturals, FiniteSets

CONSTANTS Users,    \* the addresses somebody may register
          Reqs,     \* request slots: how many requests are in flight at once
          MaxIds    \* bound: token rows ever created, of all three tables

ASSUME MaxIdsAssumption == MaxIds \in Nat

VARIABLES registered,    \* users that have a row in User
          verified,      \* users with emailVerifiedAt set
          passwordHash,  \* which password each user has
          tokens,        \* rows of RefreshToken
          mailed,        \* rows of EmailVerificationToken and PasswordResetToken
          nextId,        \* the next fresh token
          req            \* what each request slot is doing

vars == <<registered, verified, passwordHash, tokens, mailed, nextId, req>>

account == <<registered, verified, passwordHash>>

-----------------------------------------------------------------------------
\* replacedBy of a token that was not rotated, `from` of one issued at a login.
NoToken == 0

(***************************************************************************)
(* `from` and `login` are history: the token this one was rotated from,    *)
(* and the password its chain of rotations was opened with.                *)
(***************************************************************************)
RefreshToken == [id: Nat, user: Users, revoked: BOOLEAN, expired: BOOLEAN,
                 replacedBy: Nat, from: Nat, login: Nat]

MailedToken == [id: Nat, kind: {"verify", "reset"}, user: Users,
                used: BOOLEAN, expired: BOOLEAN]

IssuedToken(u, from, login) ==
  [id |-> nextId, user |-> u, revoked |-> FALSE, expired |-> FALSE,
   replacedBy |-> NoToken, from |-> from, login |-> login]

Mail(kind, u) ==
  [id |-> nextId, kind |-> kind, user |-> u, used |-> FALSE, expired |-> FALSE]

Live(t) == ~t.revoked /\ ~t.expired

TokenRow(id) == {t \in tokens : t.id = id}

(***************************************************************************)
(* Requests in flight, by the point of the handler they have reached.      *)
(***************************************************************************)
Idle == [at |-> "idle"]

Registering == [at: {"register.create", "register.mail"}, user: Users]
Refused == [at: {"register.refused"}, status: {409, 500}]
Issuing == [at: {"issue"}, user: Users, login: Nat]
Rotating == [at: {"refresh.commit"}, token: RefreshToken]
Verifying == [at: {"verify.commit"}, mail: MailedToken]
Resetting == [at: {"reset.revoke"}, mail: MailedToken]
ResetTx == [at: {"reset.commit"}, mail: MailedToken, doomed: SUBSET Nat]

Request == {Idle} \cup Registering \cup Refused \cup Issuing \cup Rotating
             \cup Verifying \cup Resetting \cup ResetTx

Goto(r, q) == req' = [req EXCEPT ![r] = q]

TakeId == nextId <= MaxIds /\ nextId' = nextId + 1

Init == /\ registered = {}
        /\ verified = {}
        /\ passwordHash = [u \in Users |-> 0]
        /\ tokens = {}
        /\ mailed = {}
        /\ nextId = 1
        /\ req = [r \in Reqs |-> Idle]

-----------------------------------------------------------------------------

\* usersService.findByEmail
HasAccount(u) == u \in registered

EmailTaken(u) == HasAccount(u)

(***************************************************************************)
(* POST /auth/register: look the address up, hash the password, create the *)
(* user, create a verification token, issue a refresh token.               *)
(***************************************************************************)
RegisterStart(r, u) ==
  /\ req[r] = Idle
  /\ Goto(r, IF EmailTaken(u) THEN [at |-> "register.refused", status |-> 409]
                              ELSE [at |-> "register.create", user |-> u])
  /\ UNCHANGED <<account, tokens, mailed, nextId>>

\* The unique index on email is the second line of defence; nothing turns its
\* P2002 into an HTTP error, so the filter answers 500.
RegisterCreate(r) ==
  /\ req[r].at = "register.create"
  /\ LET u == req[r].user
     IN IF u \in registered
        THEN /\ Goto(r, [at |-> "register.refused", status |-> 500])
             /\ UNCHANGED registered
        ELSE /\ Goto(r, [at |-> "register.mail", user |-> u])
             /\ registered' = registered \cup {u}
  /\ UNCHANGED <<verified, passwordHash, tokens, mailed, nextId>>

RegisterMail(r) ==
  /\ req[r].at = "register.mail"
  /\ mailed' = mailed \cup {Mail("verify", req[r].user)}
  /\ TakeId
  /\ Goto(r, [at |-> "issue", user |-> req[r].user, login |-> 0])
  /\ UNCHANGED <<account, tokens>>

\* POST /auth/login: argon2 checks the password against the hash just read.
Login(r, u) ==
  /\ req[r] = Idle
  /\ HasAccount(u)
  /\ Goto(r, [at |-> "issue", user |-> u, login |-> passwordHash[u]])
  /\ UNCHANGED <<account, tokens, mailed, nextId>>

\* issueAuthResponse: the end of register and login.
Issue(r) ==
  /\ req[r].at = "issue"
  /\ tokens' = tokens \cup {IssuedToken(req[r].user, NoToken, req[r].login)}
  /\ TakeId
  /\ Goto(r, Idle)
  /\ UNCHANGED <<account, mailed>>

-----------------------------------------------------------------------------
(***************************************************************************)
(* POST /auth/refresh: the token is checked, then a transaction revokes it *)
(* by its id and inserts its successor.                                    *)
(***************************************************************************)
\* A bug to catch: the check forgets revokedAt.
RefreshableUnlessExpired(t) == ~t.expired

Refreshable(t) == ~t.revoked /\ ~t.expired

RefreshStart(r, t) ==
  /\ req[r] = Idle
  /\ Refreshable(t)
  /\ Goto(r, [at |-> "refresh.commit", token |-> t])
  /\ UNCHANGED <<account, tokens, mailed, nextId>>

\* A bug to catch: the old token is linked to its successor but not revoked.
LinkedTo(t, successor) == [t EXCEPT !.replacedBy = successor]

ReplacedBy(t, successor) == [t EXCEPT !.revoked = TRUE, !.replacedBy = successor]

RefreshCommit(r) ==
  /\ req[r].at = "refresh.commit"
  /\ LET old == req[r].token
     IN /\ TokenRow(old.id) # {}
        /\ tokens' = (tokens \ TokenRow(old.id))
                       \cup {ReplacedBy(t, nextId) : t \in TokenRow(old.id)}
                       \cup {IssuedToken(old.user, old.id, old.login)}
  /\ TakeId
  /\ Goto(r, Idle)
  /\ UNCHANGED <<account, mailed>>

Revoked(S) == {[t EXCEPT !.revoked = TRUE] : t \in S}

\* POST /auth/logout: one updateMany on a token that is not revoked yet.
Logout(r, t) ==
  /\ req[r] = Idle
  /\ ~t.revoked
  /\ tokens' = (tokens \ {t}) \cup Revoked({t})
  /\ UNCHANGED <<account, mailed, nextId, req>>

-----------------------------------------------------------------------------
(***************************************************************************)
(* POST /auth/verify-email                                                 *)
(***************************************************************************)

\* A bug to catch: the check forgets usedAt.
UsableIfInTime(m, kind) == m.kind = kind /\ ~m.expired

Usable(m, kind) == m.kind = kind /\ ~m.used /\ ~m.expired

UsedMail(id) == {[m EXCEPT !.used = TRUE] : m \in {n \in mailed : n.id = id}}

MarkedMail(id) == {m \in mailed : m.id # id} \cup UsedMail(id)

VerifyStart(r, m) ==
  /\ req[r] = Idle
  /\ Usable(m, "verify")
  /\ Goto(r, [at |-> "verify.commit", mail |-> m])
  /\ UNCHANGED <<account, tokens, mailed, nextId>>

VerifyCommit(r) ==
  /\ req[r].at = "verify.commit"
  /\ mailed' = MarkedMail(req[r].mail.id)
  /\ verified' = verified \cup {req[r].mail.user}
  /\ Goto(r, Idle)
  /\ UNCHANGED <<registered, passwordHash, tokens, nextId>>

-----------------------------------------------------------------------------
(***************************************************************************)
(* POST /auth/forgot-password and POST /auth/reset-password.  The reset is *)
(* one transaction: spend the token, replace the password, revoke the      *)
(* user's refresh tokens.                                                  *)
(***************************************************************************)
ForgotPassword(r, u) ==
  /\ req[r] = Idle
  /\ HasAccount(u)
  /\ mailed' = mailed \cup {Mail("reset", u)}
  /\ TakeId
  /\ UNCHANGED <<account, tokens, req>>

ResetStart(r, m) ==
  /\ req[r] = Idle
  /\ Usable(m, "reset")
  /\ Goto(r, [at |-> "reset.revoke", mail |-> m])
  /\ UNCHANGED <<account, tokens, mailed, nextId>>

\* A bug to catch: the WHERE clause forgets userId.
UnrevokedOfAll(u) == {t \in tokens : ~t.revoked}

UnrevokedOf(u) == {t \in tokens : t.user = u /\ ~t.revoked}

\* The transaction's updateMany sees the tokens that are committed by now.
ResetRevoke(r) ==
  /\ req[r].at = "reset.revoke"
  /\ Goto(r, [at |-> "reset.commit", mail |-> req[r].mail,
              doomed |-> {t.id : t \in UnrevokedOf(req[r].mail.user)}])
  /\ UNCHANGED <<account, tokens, mailed, nextId>>

\* A bug to catch: a reset that leaves the sessions alone.
SparedByReset(doomed) == {}

RevokedByReset(doomed) == {t \in tokens : t.id \in doomed}

ResetCommit(r) ==
  /\ req[r].at = "reset.commit"
  /\ LET u == req[r].mail.user
         doomed == RevokedByReset(req[r].doomed)
     IN /\ mailed' = MarkedMail(req[r].mail.id)
        /\ passwordHash' = [passwordHash EXCEPT ![u] = @ + 1]
        /\ tokens' = (tokens \ doomed) \cup Revoked(doomed)
  /\ Goto(r, Idle)
  /\ UNCHANGED <<registered, verified, nextId>>

-----------------------------------------------------------------------------
\* A request ends without writing: it is answered, a check fails, a statement
\* aborts its transaction, or the process dies.
Abandon(r) ==
  /\ req[r] # Idle
  /\ Goto(r, Idle)
  /\ UNCHANGED <<account, tokens, mailed, nextId>>

\* Seven days pass.  A successor is issued later than the token it replaces
\* and all live equally long, so it expires later.
ExpireToken(t) ==
  /\ ~t.expired
  /\ \A s \in TokenRow(t.from) : s.expired
  /\ tokens' = (tokens \ {t}) \cup {[t EXCEPT !.expired = TRUE]}
  /\ UNCHANGED <<account, mailed, nextId, req>>

\* A day (verification) or an hour (reset) passes.
ExpireMail(m) ==
  /\ ~m.used
  /\ ~m.expired
  /\ mailed' = (mailed \ {m}) \cup {[m EXCEPT !.expired = TRUE]}
  /\ UNCHANGED <<account, tokens, nextId, req>>

\* A bug to catch: tokens revoked by a logout or a reset are kept.
PrunableIfRotated(t) == t.expired /\ t.replacedBy # NoToken

Prunable(t) == t.expired /\ t.revoked

\* The worker's maintenance job, every ten minutes.
Cleanup ==
  /\ \E t \in tokens : Prunable(t)
  /\ tokens' = {t \in tokens : ~Prunable(t)}
  /\ UNCHANGED <<account, mailed, nextId, req>>

RegisterStep(r) ==
  \/ \E u \in Users : RegisterStart(r, u)
  \/ RegisterCreate(r)
  \/ RegisterMail(r)

SessionStep(r) ==
  \/ \E u \in Users : Login(r, u)
  \/ Issue(r)
  \/ \E t \in tokens : RefreshStart(r, t)
  \/ RefreshCommit(r)
  \/ \E t \in tokens : Logout(r, t)

MailedTokenStep(r) ==
  \/ \E m \in mailed : VerifyStart(r, m)
  \/ VerifyCommit(r)
  \/ \E u \in Users : ForgotPassword(r, u)
  \/ \E m \in mailed : ResetStart(r, m)
  \/ ResetRevoke(r)
  \/ ResetCommit(r)

Next ==
  \/ \E r \in Reqs : RegisterStep(r) \/ SessionStep(r) \/ MailedTokenStep(r) \/ Abandon(r)
  \/ \E t \in tokens : ExpireToken(t)
  \/ \E m \in mailed : ExpireMail(m)
  \/ Cleanup

Spec == Init /\ [][Next]_vars

-----------------------------------------------------------------------------
(***************************************************************************)
(* Properties                                                              *)
(***************************************************************************)

\* Every table holds rows of its type that refer to users there are, and every
\* slot a request of a known shape.
TypeOK ==
  /\ registered \subseteq Users
  /\ verified \subseteq registered
  /\ \A t \in tokens \cup mailed : t.user \in registered
  /\ passwordHash \in [Users -> Nat]
  /\ \A u \in Users : passwordHash[u] # 0 => u \in registered
  /\ tokens \subseteq RefreshToken
  /\ mailed \subseteq MailedToken
  /\ nextId \in Nat \ {NoToken}
  /\ req \in [Reqs -> Request]

\* Rotation is all or nothing: a token that names a successor is revoked, and
\* until it expires the successor is on file, for the same user and login, even
\* when several requests rotate it at once or the clean-up runs between them.
RotationIsAtomic ==
  \A t \in tokens :
    t.replacedBy # NoToken =>
      /\ t.revoked
      /\ t.expired \/ \E s \in TokenRow(t.replacedBy) :
                        s.from = t.id /\ s.user = t.user /\ s.login = t.login

\* Nobody is signed out by somebody else: a live token stays on file, and one
\* that gets revoked was rotated, lost to a new password of its own user, or is
\* the only row that changes (its logout).
SignedOutByTheUser ==
  [][\A t \in tokens :
       Live(t) =>
         \E s \in tokens' :
           /\ s.id = t.id /\ s.user = t.user /\ s.login = t.login
           /\ s.revoked =>
                \/ s.replacedBy # NoToken
                \/ passwordHash'[t.user] # passwordHash[t.user]
                \/ passwordHash' = passwordHash /\ tokens' \ {s} = tokens \ {t}]_vars

\* "revokes the refresh token so it can no longer be refreshed"
\* (auth.e2e-spec.ts): nothing is issued in exchange for a revoked token.
RevokedTokensYieldNothing ==
  [][\A s \in tokens' :
       s.id = nextId /\ s.from # NoToken =>
         \E t \in TokenRow(s.from) : ~t.revoked]_vars

\* A revoked token's row does not stay for ever: it expires and is pruned.
RevokedTokensArePruned ==
  \A id \in 1..MaxIds :
    (\E t \in TokenRow(id) : t.revoked) ~> (TokenRow(id) = {})

(***************************************************************************)
(* The inductive invariant: the properties above need to know that ids are *)
(* unique, that a token expires no earlier than the one it replaces, and   *)
(* what the snapshots held by requests in flight still have in common with *)
(* their rows.                                                             *)
(***************************************************************************)
IdsAreFresh ==
  /\ \A t \in tokens : t.id < nextId /\ t.from < nextId /\ t.replacedBy < nextId
  /\ \A m \in mailed : m.id < nextId

IdsAreUnique ==
  /\ \A s, t \in tokens : s.id = t.id => s = t
  /\ \A m, n \in mailed : m.id = n.id => m = n

ExpiryFollowsIssue ==
  \A s, t \in tokens : s.from = t.id /\ s.expired => t.expired

\* The row that a token was read from, if it is still there, is of the same user
\* and login.
TokenSnapshotOK(old) ==
  /\ old.id < nextId
  /\ old.user \in registered
  /\ \A t \in TokenRow(old.id) : t.user = old.user /\ t.login = old.login

\* Mailed tokens are never deleted.
MailSnapshotOK(mail) ==
  /\ mail.user \in registered
  /\ \E m \in mailed : m.id = mail.id /\ m.kind = mail.kind /\ m.user = mail.user

RequestOK(q) ==
  /\ q.at \in {"register.mail", "issue"} => q.user \in registered
  /\ q.at = "refresh.commit" => TokenSnapshotOK(q.token)
  /\ q.at = "verify.commit" => MailSnapshotOK(q.mail) /\ q.mail.kind = "verify"
  /\ q.at \in {"reset.revoke", "reset.commit"} =>
       MailSnapshotOK(q.mail) /\ q.mail.kind = "reset"
  /\ q.at = "reset.commit" =>
       /\ \A id \in q.doomed : id < nextId
       /\ \A t \in tokens : t.id \in q.doomed => t.user = q.mail.user

IInv ==
  /\ TypeOK
  /\ IdsAreFresh
  /\ IdsAreUnique
  /\ ExpiryFollowsIssue
  /\ RotationIsAtomic
  /\ \A r \in Reqs : RequestOK(req[r])
=============================================================================
