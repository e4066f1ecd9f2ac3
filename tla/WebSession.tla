----------------------------- MODULE WebSession -----------------------------
(***************************************************************************)
(* The session in the browser (lib/api/client.ts, lib/store/auth-store.ts, *)
(* the log-in form, the log-out button): tabs that keep the tokens in      *)
(* memory and share a copy in localStorage, which a tab reads when it      *)
(* loads; calls that are answered 401 share one refresh per tab.           *)
(*                                                                         *)
(* The server is LiveSessions.  Requests and answers travel separately and *)
(* either may be lost; an answer is handled in one step, up to the next    *)
(* request.  An access token and the refresh token issued with it go by    *)
(* one number.                                                             *)
(***************************************************************************)
EXTENDS Naturals, Sequences

CONSTANTS Users, Tabs,
          Calls,     \* the calls a tab may have in flight
          MaxTokens  \* bound: tokens ever issued

VARIABLES open,    \* the server's sessions
          given,   \* the session of each token, when it was issued
          stale,   \* access tokens that have expired
          stored,  \* localStorage "devsync-auth"
          mem,     \* the auth store of each tab
          promise, \* refreshPromise: the call that runs the refresh
          call,    \* what each call is doing
          spenders, \* history: the tabs that have rotated a token and know it
          mixed    \* history: a refresh was answered to a tab that had moved on

vars == <<open, given, stale, stored, mem, promise, call, spenders, mixed>>

ASSUME BoundsAssumption == MaxTokens \in Nat
ASSUME NamesAssumption == "no call" \notin Calls

server == <<open, given, spenders>>
client == <<stored, mem>>

-----------------------------------------------------------------------------
Nobody == "nobody"
NoToken == 0
NoCall == "no call"

SignedOut == [user |-> Nobody, token |-> NoToken]

Idle == [at |-> "idle"]

Token == NoToken .. MaxTokens

Call == {Idle}
  \cup [at: {"sent", "denied"}, token: Token, retry: BOOLEAN]
  \cup [at: {"refresh", "accepted", "refused", "waiting", "logout", "logged out"},
        token: Token]
  \cup [at: {"rotated"}, token: Token, new: Token]
  \cup [at: {"failed"}]
  \cup [at: {"login"}, user: Users]
  \cup [at: {"granted"}, user: Users, new: Token]

Init == /\ open = {}
        /\ given = <<>>
        /\ stale = {}
        /\ stored = SignedOut
        /\ mem = [t \in Tabs |-> SignedOut]
        /\ promise = [t \in Tabs |-> NoCall]
        /\ call = [t \in Tabs |-> [c \in Calls |-> Idle]]
        /\ spenders = [k \in 1 .. MaxTokens |-> {}]
        /\ mixed = FALSE

At(t, c, where) == call[t][c].at = where

Goto(t, c, q) == call' = [call EXCEPT ![t][c] = q]

\* The session the token was issued for.
SessionOf(k) == [chain |-> given[k].chain, user |-> given[k].user, token |-> k]

\* The refreshes that the server has accepted, by the call that waits for the answer.
Accepted == {<<r, SessionOf(call[r[1]][r[2]].token)>> :
               r \in {x \in Tabs \X Calls : At(x[1], x[2], "accepted")}}

Server == INSTANCE LiveSessions WITH
            Tokens <- 1 .. MaxTokens, Requests <- Tabs \X Calls,
            used <- DOMAIN given, accepted <- Accepted

\* zustand's set: the tab's memory, and all of it to localStorage.
SetState(t, session) ==
  /\ mem' = [mem EXCEPT ![t] = session]
  /\ stored' = session

\* AppLayout: the pages that make calls, and the log-out button, are shown to a user.
AppShown(t) == mem[t].user # Nobody

SessionsWith(k) == {s \in open : s.token = k}

NextToken == Len(given) + 1

-----------------------------------------------------------------------------
(***************************************************************************)
(* Logging in and out.                                                     *)
(***************************************************************************)
LoginSent(t, c, u) ==
  /\ At(t, c, "idle")
  /\ Goto(t, c, [at |-> "login", user |-> u])
  /\ UNCHANGED <<server, stale, client, promise, mixed>>

LoginServed(t, c) ==
  /\ At(t, c, "login")
  /\ NextToken <= MaxTokens
  /\ LET u == call[t][c].user
     IN /\ given' = Append(given, [chain |-> NextToken, user |-> u])
        /\ Goto(t, c, [at |-> "granted", user |-> u, new |-> NextToken])
        /\ Server!Open(u, NextToken)
  /\ UNCHANGED <<stale, client, promise, spenders, mixed>>

\* setSession
LoginAnswered(t, c) ==
  /\ At(t, c, "granted")
  /\ SetState(t, [user |-> call[t][c].user, token |-> call[t][c].new])
  /\ Goto(t, c, Idle)
  /\ UNCHANGED <<server, stale, promise, mixed>>

LogoutSent(t, c) ==
  /\ At(t, c, "idle") /\ AppShown(t)
  /\ Goto(t, c, [at |-> IF mem[t].token = NoToken THEN "logged out" ELSE "logout",
                 token |-> mem[t].token])
  /\ UNCHANGED <<server, stale, client, promise, mixed>>

\* The server revokes the token if it is a session's; `served` FALSE: the request is
\* lost, which the page ignores.
LogoutServed(t, c, served) ==
  /\ At(t, c, "logout")
  /\ IF served THEN open' = open \ SessionsWith(call[t][c].token) ELSE UNCHANGED open
  /\ Goto(t, c, [call[t][c] EXCEPT !.at = "logged out"])
  /\ UNCHANGED <<given, spenders, stale, client, promise, mixed>>

\* A bug to catch: a clear that forgets the tokens.
UserCleared(t) == [mem[t] EXCEPT !.user = Nobody]

\* clear
Cleared(t) == SignedOut

LogoutAnswered(t, c) ==
  /\ At(t, c, "logged out")
  /\ SetState(t, Cleared(t))
  /\ Goto(t, c, Idle)
  /\ UNCHANGED <<server, stale, promise, mixed>>

-----------------------------------------------------------------------------
(***************************************************************************)
(* apiRequest and refreshTokens.                                           *)
(***************************************************************************)
Sent(token, retry) == [at |-> "sent", token |-> token, retry |-> retry]

CallSent(t, c) ==
  /\ At(t, c, "idle") /\ AppShown(t)
  /\ Goto(t, c, Sent(mem[t].token, TRUE))
  /\ UNCHANGED <<server, stale, client, promise, mixed>>

\* An answer that is no 401, or none.
CallServed(t, c) ==
  /\ \E where \in {"sent", "login"} : At(t, c, where)
  /\ Goto(t, c, Idle)
  /\ UNCHANGED <<server, stale, client, promise, mixed>>

\* JwtStrategy: no access token, or one that has expired.
Unauthorized(token) == token \in stale \cup {NoToken}

CallRefused(t, c) ==
  /\ At(t, c, "sent")
  /\ Unauthorized(call[t][c].token)
  /\ Goto(t, c, [call[t][c] EXCEPT !.at = "denied"])
  /\ UNCHANGED <<server, stale, client, promise, mixed>>

\* A bug to catch: every call that is refused refreshes for itself.
AlwaysStarts(t) == TRUE

StartsRefresh(t) == promise[t] = NoCall

\* 401: refresh, or wait for the refresh under way, unless it was the retry or there
\* is no refresh token.
CallDenied(t, c) ==
  /\ At(t, c, "denied")
  /\ IF ~call[t][c].retry \/ mem[t].token = NoToken
     THEN Goto(t, c, Idle) /\ UNCHANGED promise
     ELSE IF StartsRefresh(t)
     THEN /\ Goto(t, c, [at |-> "refresh", token |-> mem[t].token])
          /\ promise' = [promise EXCEPT ![t] = c]
     ELSE Goto(t, c, [at |-> "waiting", token |-> mem[t].token]) /\ UNCHANGED promise
  /\ UNCHANGED <<server, stale, client, mixed>>

\* The token is a session's: it will be rotated, whatever happens to the session.
RefreshAccepted(t, c) ==
  /\ At(t, c, "refresh")
  /\ Goto(t, c, [call[t][c] EXCEPT !.at = "accepted"])
  /\ UNCHANGED <<server, stale, client, promise, mixed>>
  /\ \E s \in SessionsWith(call[t][c].token) : Server!Accept(<<t, c>>, s)

\* The token is rotated; `arrives` FALSE: the answer is lost.
RefreshServed(t, c, arrives) ==
  /\ At(t, c, "accepted")
  /\ NextToken <= MaxTokens
  /\ LET token == call[t][c].token
         s == SessionOf(token)
     IN /\ given' = Append(given, [chain |-> s.chain, user |-> s.user])
        /\ spenders' = IF arrives THEN [spenders EXCEPT ![token] = @ \cup {t}] ELSE spenders
        /\ Goto(t, c, IF arrives THEN [at |-> "rotated", token |-> token, new |-> NextToken]
                      ELSE [at |-> "failed"])
        /\ Server!Rotate(<<t, c>>, s, NextToken)
  /\ UNCHANGED <<stale, client, promise, mixed>>

Refreshing(t, c) == At(t, c, "refresh") \/ At(t, c, "accepted")

\* 401 of a token that is no session's any more, or 429 or 500 of any.
RefreshRefused(t, c) ==
  /\ Refreshing(t, c)
  /\ Goto(t, c, [call[t][c] EXCEPT !.at = "refused"])
  /\ UNCHANGED <<server, stale, client, promise, mixed>>

RefreshLost(t, c) ==
  /\ Refreshing(t, c)
  /\ Goto(t, c, [at |-> "failed"])
  /\ UNCHANGED <<server, stale, client, promise, mixed>>

\* A bug to catch: only the call that ran the refresh is resumed.
OnlyTheFirst(t, c) == {c}

\* The calls that await the promise: each resumes.
Awaiting(t, c) == {c} \cup {d \in Calls : At(t, d, "waiting")}

Resume(t, c, next) ==
  /\ call' = [call EXCEPT ![t] = [d \in Calls |-> IF d \in Awaiting(t, c) THEN next ELSE @[d]]]
  /\ promise' = [promise EXCEPT ![t] = NoCall]

\* setTokens leaves the user as it is.
SetTokens(t, new) == [mem[t] EXCEPT !.token = new]

RefreshAnswered(t, c) ==
  /\ At(t, c, "rotated")
  /\ SetState(t, SetTokens(t, call[t][c].new))
  /\ mixed' = (mixed \/ mem[t].token # call[t][c].token)
  /\ Resume(t, c, Sent(call[t][c].new, FALSE))
  /\ UNCHANGED <<server, stale>>

\* clear, whatever the store holds by now.
RefreshDenied(t, c) ==
  /\ At(t, c, "refused")
  /\ SetState(t, Cleared(t))
  /\ Resume(t, c, Idle)
  /\ UNCHANGED <<server, stale, mixed>>

RefreshFailed(t, c) ==
  /\ At(t, c, "failed")
  /\ Resume(t, c, Idle)
  /\ UNCHANGED <<server, stale, client, mixed>>

-----------------------------------------------------------------------------
\* The tab is loaded again: its calls are gone, with the answers on their way.  What the
\* server still does for them the tab sees as a session that has ended.
Load(t) ==
  /\ mem' = [mem EXCEPT ![t] = stored]
  /\ call' = [call EXCEPT ![t] = [c \in Calls |-> Idle]]
  /\ promise' = [promise EXCEPT ![t] = NoCall]
  /\ spenders' = [k \in DOMAIN spenders |->
                    IF \E c \in Calls : At(t, c, "rotated") /\ call[t][c].token = k
                    THEN spenders[k] \ {t} ELSE spenders[k]]
  /\ UNCHANGED <<open, given, stale, stored, mixed>>

\* 15 minutes pass.
AccessExpires(k) ==
  /\ k \in DOMAIN given \ stale
  /\ stale' = stale \cup {k}
  /\ UNCHANGED <<server, client, promise, call, mixed>>

\* A password reset, or seven days.
SessionEnds(s) ==
  /\ s \in open
  /\ UNCHANGED <<given, spenders, stale, client, promise, call, mixed>>
  /\ Server!End({s})

LoginStep(t, c) ==
  \/ LoginServed(t, c) \/ LoginAnswered(t, c)
  \/ \E served \in BOOLEAN : LogoutServed(t, c, served)
  \/ LogoutAnswered(t, c)

ApiStep(t, c) ==
  \/ CallServed(t, c) \/ CallRefused(t, c) \/ CallDenied(t, c)
  \/ RefreshAccepted(t, c) \/ \E arrives \in BOOLEAN : RefreshServed(t, c, arrives)
  \/ RefreshRefused(t, c) \/ RefreshLost(t, c)
  \/ RefreshAnswered(t, c) \/ RefreshDenied(t, c) \/ RefreshFailed(t, c)

Next ==
  \/ \E t \in Tabs, c \in Calls :
       \/ \E u \in Users : LoginSent(t, c, u)
       \/ LogoutSent(t, c) \/ CallSent(t, c)
       \/ LoginStep(t, c) \/ ApiStep(t, c)
  \/ \E t \in Tabs : Load(t)
  \/ \E k \in 1 .. MaxTokens : AccessExpires(k)
  \/ \E s \in open : SessionEnds(s)

Spec == Init /\ [][Next]_vars

\* Requests are answered or fail, and answers are handled.
FairCall(t, c) == WF_vars(LoginStep(t, c) \/ ApiStep(t, c))

-----------------------------------------------------------------------------
(***************************************************************************)
(* Properties                                                              *)
(***************************************************************************)
Session == [user: Users \cup {Nobody}, token: Token]

TypeOK ==
  /\ open \subseteq Server!Session
  /\ given \in Seq([chain: 1 .. MaxTokens, user: Users])
  /\ stale \subseteq DOMAIN given
  /\ stored \in Session
  /\ mem \in [Tabs -> Session]
  /\ promise \in [Tabs -> Calls \cup {NoCall}]
  /\ call \in [Tabs -> [Calls -> Call]]
  /\ spenders \in [1 .. MaxTokens -> SUBSET Tabs]
  /\ mixed \in BOOLEAN

\* "only one refresh call should hit the server": no tab presents a token for rotation
\* that it has itself had rotated, as far as it knows, so as many calls as are refused
\* at once do not sign the tab out.  A tab that misses the answer does present the token
\* again, and one whose token another tab has had rotated signs both out.
NoTabSpendsATokenTwice ==
  \A t \in Tabs, c \in Calls : At(t, c, "refresh") => t \notin spenders[call[t][c].token]

UserOwns(session) ==
  session.token = NoToken \/ given[session.token].user = session.user

\* The tokens a tab uses, and those it finds when it loads, are the signed-in user's,
\* unless the answer to a refresh came after a logout, a login or a refused refresh.
TokensBelongToTheUser ==
  mixed \/ (UserOwns(stored) /\ \A t \in Tabs : UserOwns(mem[t]))

\* Every call ends: nobody waits for a refresh that is over.
CallEnds(t, c) == ~At(t, c, "idle") ~> At(t, c, "idle")
=============================================================================
