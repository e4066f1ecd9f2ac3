--------------------------- MODULE WebClientProofs ---------------------------
(***************************************************************************)
(* Proofs about the web client: the session in the browser, for any number *)
(* of tabs, calls, users and tokens; and what a tab shows of a board and   *)
(* an open task while others write, for any number of changes and          *)
(* messages.  The two share no state.                                      *)
(***************************************************************************)
EXTENDS WebSession, TaskPanel, TLAPS


\* The call that runs the refresh of its tab.
Refreshes(t, c) == call[t][c].at \in {"refresh", "accepted", "refused", "rotated", "failed"}

\* The call has presented the token k for rotation.
Presents(t, c, k) ==
  call[t][c].at \in {"refresh", "accepted", "rotated"} /\ call[t][c].token = k

\* The call brings the new token n, which nothing else in the browser has.
Brings(t, c, n) == call[t][c].at \in {"granted", "rotated"} /\ call[t][c].new = n

\* One refresh at a time in a tab: it is the promise, and others wait only for it.
OneRefresh ==
  \A t \in Tabs, c \in Calls :
    /\ Refreshes(t, c) <=> promise[t] = c
    /\ At(t, c, "waiting") => promise[t] # NoCall

\* Every token there is in the browser has been issued.
TokensIssued ==
  /\ Len(given) <= MaxTokens
  /\ stored.token <= Len(given)
  /\ \A t \in Tabs : mem[t].token <= Len(given)
  /\ \A t \in Tabs, c \in Calls, k \in Token :
       Presents(t, c, k) \/ Brings(t, c, k) => k \in 1 .. Len(given)
  /\ \A k \in 1 .. MaxTokens : spenders[k] # {} => k <= Len(given)

\* A session's token was issued to its user.
SessionsOwn ==
  \A s \in open : s.token <= Len(given) /\ given[s.token].user = s.user

\* A token that an answer brings is in one answer and nowhere else.
AnswersAreNew ==
  \A t \in Tabs, c \in Calls, n \in Token : Brings(t, c, n) =>
    /\ spenders[n] = {}
    /\ stored.token # n
    /\ \A u \in Tabs : mem[u].token # n
    /\ \A u \in Tabs, d \in Calls :
         ~Presents(u, d, n) /\ (Brings(u, d, n) => u = t /\ d = c)

\* A token that a tab has had rotated is out of its reach, or the answer that takes it
\* away is on its way.
SpentIsGone ==
  \A t \in Tabs, k \in 1 .. MaxTokens : t \in spenders[k] =>
    \/ \E c \in Calls : At(t, c, "rotated") /\ call[t][c].token = k
    \/ mem[t].token # k /\ stored.token # k

\* An answer brings a token of the user it is for.
AnswersOwn ==
  \A t \in Tabs, c \in Calls :
    /\ At(t, c, "granted") => given[call[t][c].new].user = call[t][c].user
    /\ At(t, c, "rotated") => given[call[t][c].new].user = given[call[t][c].token].user

Safe == /\ TokensIssued /\ SessionsOwn /\ AnswersAreNew /\ SpentIsGone /\ AnswersOwn
        /\ NoTabSpendsATokenTwice /\ TokensBelongToTheUser

IInv == TypeOK /\ OneRefresh /\ Safe

-----------------------------------------------------------------------------
(***************************************************************************)
(* Calls and tokens.                                                       *)
(***************************************************************************)
LEMMA Numbers == Token \subseteq Nat /\ NoToken \in Token /\ 1 .. MaxTokens \subseteq Token
BY BoundsAssumption DEF Token, NoToken

\* What a call holds, by what it is doing.
LEMMA CallKinds ==
  ASSUME NEW q \in Call
  PROVE  /\ q.at \in {"sent", "denied"} =>
              /\ q.token \in Token /\ q.retry \in BOOLEAN
              /\ q = [at |-> q.at, token |-> q.token, retry |-> q.retry]
         /\ q.at \in {"refresh", "accepted", "refused", "waiting", "logout", "logged out"} =>
              q.token \in Token /\ q = [at |-> q.at, token |-> q.token]
         /\ q.at = "rotated" => q.token \in Token /\ q.new \in Token
         /\ q.at = "login" => q.user \in Users
         /\ q.at = "granted" => q.user \in Users /\ q.new \in Token
<1>1. CASE q = Idle
  BY <1>1 DEF Idle
<1>2. CASE q \in [at: {"sent", "denied"}, token: Token, retry: BOOLEAN]
  BY <1>2
<1>3. CASE q \in [at: {"refresh", "accepted", "refused", "waiting", "logout", "logged out"},
            token: Token]
  BY <1>3
<1>4. CASE q \in [at: {"rotated"}, token: Token, new: Token]
  BY <1>4
<1>5. CASE q \in [at: {"failed"}]
  BY <1>5
<1>6. CASE q \in [at: {"login"}, user: Users]
  BY <1>6
<1>7. CASE q \in [at: {"granted"}, user: Users, new: Token]
  BY <1>7
<1>8. QED  BY <1>1, <1>2, <1>3, <1>4, <1>5, <1>6, <1>7 DEF Call

\* The calls that the steps make.
LEMMA Made ==
  /\ Idle \in Call
  /\ [at |-> "failed"] \in Call
  /\ \A k \in Token, where \in {"sent", "denied"}, retry \in BOOLEAN :
       [at |-> where, token |-> k, retry |-> retry] \in Call
  /\ \A k \in Token, where \in {"refresh", "accepted", "refused", "waiting", "logout", "logged out"} :
       [at |-> where, token |-> k] \in Call
  /\ \A k \in Token, n \in Token : [at |-> "rotated", token |-> k, new |-> n] \in Call
  /\ \A u \in Users : [at |-> "login", user |-> u] \in Call
  /\ \A u \in Users, n \in Token : [at |-> "granted", user |-> u, new |-> n] \in Call
BY DEF Call

\* A call that goes on with the token it has.
LEMMA Relabelled ==
  ASSUME NEW q \in Call
  PROVE  /\ q.at = "sent" =>
              [q EXCEPT !.at = "denied"] \in Call /\ [q EXCEPT !.at = "denied"].at = "denied"
         /\ q.at \in {"refresh", "accepted"} =>
              [q EXCEPT !.at = "refused"] \in Call /\ [q EXCEPT !.at = "refused"].at = "refused"
         /\ q.at = "refresh" =>
              /\ [q EXCEPT !.at = "accepted"] \in Call
              /\ [q EXCEPT !.at = "accepted"].at = "accepted"
              /\ [q EXCEPT !.at = "accepted"].token = q.token
         /\ q.at = "logout" =>
              /\ [q EXCEPT !.at = "logged out"] \in Call
              /\ [q EXCEPT !.at = "logged out"].at = "logged out"
<1> DEFINE Sents == [at: {"sent", "denied"}, token: Token, retry: BOOLEAN]
           Plain == [at: {"refresh", "accepted", "refused", "waiting", "logout", "logged out"},
            token: Token]
<1>1. ASSUME q.at = "sent"  PROVE q \in Sents
  <2>1. \A k \in Token, b \in BOOLEAN : [at |-> "sent", token |-> k, retry |-> b] \in Sents
    OBVIOUS
  <2>2. /\ q.token \in Token /\ q.retry \in BOOLEAN
        /\ q = [at |-> "sent", token |-> q.token, retry |-> q.retry]
    BY <1>1, CallKinds
  <2>3. [at |-> "sent", token |-> q.token, retry |-> q.retry] \in Sents
    BY <2>1, <2>2
  <2>4. QED  BY <2>2, <2>3
<1>2. ASSUME q.at \in {"refresh", "accepted", "logout"}  PROVE q \in Plain
  <2>1. \A k \in Token : [at |-> q.at, token |-> k] \in Plain
    BY <1>2
  <2>2. q.token \in Token /\ q = [at |-> q.at, token |-> q.token]
    BY <1>2, CallKinds
  <2>3. [at |-> q.at, token |-> q.token] \in Plain
    BY <2>1, <2>2
  <2>4. QED  BY <2>2, <2>3
<1>3. ASSUME q \in Sents
      PROVE  [q EXCEPT !.at = "denied"] \in Sents /\ [q EXCEPT !.at = "denied"].at = "denied"
  BY <1>3
<1>4. ASSUME q \in Plain, NEW where \in {"accepted", "refused", "logged out"}
      PROVE  /\ [q EXCEPT !.at = where] \in Plain /\ [q EXCEPT !.at = where].at = where
             /\ [q EXCEPT !.at = where].token = q.token
  BY <1>4
<1>5. Sents \subseteq Call /\ Plain \subseteq Call
  BY DEF Call
<1>6. QED  BY <1>1, <1>2, <1>3, <1>4, <1>5

\* A step of one call.
LEMMA GotoOK ==
  ASSUME TypeOK, NEW t \in Tabs, NEW c \in Calls, NEW q \in Call, Goto(t, c, q)
  PROVE  /\ call' \in [Tabs -> [Calls -> Call]]
         /\ \A u \in Tabs, d \in Calls :
              call'[u][d] = IF u = t /\ d = c THEN q ELSE call[u][d]
BY DEF TypeOK, Goto

\* A step of the calls that await a refresh.
LEMMA ResumeOK ==
  ASSUME TypeOK, NEW t \in Tabs, NEW c \in Calls, NEW q \in Call, Resume(t, c, q)
  PROVE  /\ call' \in [Tabs -> [Calls -> Call]]
         /\ \A u \in Tabs, d \in Calls :
              call'[u][d] = IF u = t /\ (d = c \/ At(t, d, "waiting")) THEN q ELSE call[u][d]
         /\ promise' \in [Tabs -> Calls \cup {NoCall}]
         /\ \A u \in Tabs : promise'[u] = IF u = t THEN NoCall ELSE promise[u]
BY DEF TypeOK, Resume, Awaiting

\* The store of one tab, and localStorage.
LEMMA SetStateOK ==
  ASSUME TypeOK, NEW t \in Tabs, NEW x \in Session, SetState(t, x)
  PROVE  /\ mem' \in [Tabs -> Session] /\ stored' \in Session
         /\ stored' = x
         /\ \A u \in Tabs : mem'[u] = IF u = t THEN x ELSE mem[u]
BY DEF TypeOK, SetState

-----------------------------------------------------------------------------
(***************************************************************************)
(* The refresh of a tab.                                                   *)
(***************************************************************************)

\* A call that neither starts nor ends a refresh.
LEMMA RefreshGoesOn ==
  ASSUME IInv, NEW t \in Tabs, NEW c \in Calls, NEW q \in Call, Goto(t, c, q),
         UNCHANGED promise,
         Refreshes(t, c) <=> q.at \in {"refresh", "accepted", "refused", "rotated", "failed"},
         q.at = "waiting" => promise[t] # NoCall
  PROVE  OneRefresh'
<1>1. \A u \in Tabs, d \in Calls : call'[u][d] = IF u = t /\ d = c THEN q ELSE call[u][d]
  BY GotoOK DEF IInv
<1>2. QED  BY <1>1 DEF IInv, OneRefresh, Refreshes, At

\* A refresh that starts, in a tab that has none.
LEMMA RefreshStarts ==
  ASSUME IInv, NEW t \in Tabs, NEW c \in Calls, NEW q \in Call, Goto(t, c, q),
         promise[t] = NoCall, promise' = [promise EXCEPT ![t] = c], q.at = "refresh"
  PROVE  OneRefresh'
<1>1. \A u \in Tabs, d \in Calls : call'[u][d] = IF u = t /\ d = c THEN q ELSE call[u][d]
  BY GotoOK DEF IInv
<1>2. \A u \in Tabs : promise'[u] = IF u = t THEN c ELSE promise[u]
  BY DEF IInv, TypeOK
<1>3. c # NoCall
  BY NamesAssumption DEF NoCall
<1>4. \A d \in Calls : ~Refreshes(t, d)
  BY NamesAssumption DEF IInv, OneRefresh, NoCall
<1>5. QED  BY <1>1, <1>2, <1>3, <1>4 DEF IInv, OneRefresh, Refreshes, At

\* A refresh that is over: the calls that waited for it do not wait any more.
LEMMA RefreshEnds ==
  ASSUME IInv, NEW t \in Tabs, NEW c \in Calls, NEW q \in Call, Resume(t, c, q),
         Refreshes(t, c), q.at \in {"idle", "sent"}
  PROVE  OneRefresh'
<1>1. /\ \A u \in Tabs, d \in Calls :
           call'[u][d] = IF u = t /\ (d = c \/ At(t, d, "waiting")) THEN q ELSE call[u][d]
      /\ \A u \in Tabs : promise'[u] = IF u = t THEN NoCall ELSE promise[u]
  BY ResumeOK DEF IInv
<1>2. promise[t] = c /\ \A d \in Calls : d # NoCall
  BY NamesAssumption DEF IInv, OneRefresh, NoCall
<1>3. \A d \in Calls : d # c => ~Refreshes(t, d)
  BY <1>2 DEF IInv, OneRefresh
<1>4. QED  BY <1>1, <1>2, <1>3 DEF IInv, OneRefresh, Refreshes, At

-----------------------------------------------------------------------------
(***************************************************************************)
(* The steps that issue no token.                                          *)
(***************************************************************************)

\* Calls that present and bring no token, where the stores stay as they are.
LEMMA QuietStep ==
  ASSUME IInv, UNCHANGED <<given, spenders, client, mixed>>, open' \subseteq open,
         \A u \in Tabs, d \in Calls :
           \/ call'[u][d] = call[u][d]
           \/ /\ call[u][d].at # "rotated"
              /\ call'[u][d].at \notin {"refresh", "accepted", "rotated", "granted"}
           \/ /\ call[u][d].at = "refresh" /\ call'[u][d].at = "accepted"
              /\ call'[u][d].token = call[u][d].token
  PROVE  Safe'
<1>1. /\ \A u \in Tabs, d \in Calls, k \in Token :
           /\ Presents(u, d, k)' => Presents(u, d, k)
           /\ Brings(u, d, k)' => Brings(u, d, k)
      /\ UNCHANGED <<stored, mem>>
  BY DEF Presents, Brings, client
<1>2. TokensIssued'
  BY <1>1 DEF IInv, Safe, TokensIssued
<1>3. SessionsOwn'
  BY DEF IInv, Safe, SessionsOwn
<1>4. AnswersAreNew'
  BY <1>1 DEF IInv, Safe, AnswersAreNew
<1>5. SpentIsGone'
  BY <1>1 DEF IInv, Safe, SpentIsGone, At
<1>6. AnswersOwn'
  BY DEF IInv, Safe, AnswersOwn, At
<1>7. NoTabSpendsATokenTwice'
  BY DEF IInv, Safe, NoTabSpendsATokenTwice, At
<1>8. TokensBelongToTheUser'
  BY <1>1 DEF IInv, Safe, TokensBelongToTheUser, UserOwns
<1>9. QED  BY <1>2, <1>3, <1>4, <1>5, <1>6, <1>7, <1>8 DEF Safe

\* A tab that is signed out, and localStorage with it.
LEMMA SignedOutStep ==
  ASSUME IInv, NEW t \in Tabs, UNCHANGED <<server, mixed>>, SetState(t, SignedOut),
         \A u \in Tabs, d \in Calls :
           \/ call'[u][d] = call[u][d]
           \/ /\ call[u][d].at # "rotated"
              /\ call'[u][d].at \notin {"refresh", "accepted", "rotated", "granted"}
  PROVE  Safe'
<1>1. SignedOut \in Session /\ SignedOut.token = NoToken /\ NoToken = 0
  BY Numbers DEF SignedOut, Session, NoToken
<1>2. /\ stored' = SignedOut
      /\ \A u \in Tabs : mem'[u] = IF u = t THEN SignedOut ELSE mem[u]
      /\ UNCHANGED <<open, given, spenders, mixed>>
  BY <1>1, SetStateOK DEF IInv, server
<1>3. \A u \in Tabs, d \in Calls, k \in Token :
        /\ Presents(u, d, k)' => Presents(u, d, k)
        /\ Brings(u, d, k)' => Brings(u, d, k)
  BY DEF Presents, Brings
<1>4. Len(given) \in Nat
  BY DEF IInv, TypeOK
<1>5. TokensIssued'
  BY <1>1, <1>2, <1>3, <1>4 DEF IInv, Safe, TokensIssued
<1>6. SessionsOwn'
  BY <1>2 DEF IInv, Safe, SessionsOwn
<1>7. AnswersAreNew'
  <2>1. \A u \in Tabs, d \in Calls, n \in Token : Brings(u, d, n) => n # 0
    BY <1>4 DEF IInv, Safe, TokensIssued
  <2>2. QED  BY <1>1, <1>2, <1>3, <2>1 DEF IInv, Safe, AnswersAreNew
<1>8. SpentIsGone'
  <2>1. \A k \in 1 .. MaxTokens : k # 0
    BY BoundsAssumption
  <2>2. QED  BY <1>1, <1>2, <2>1 DEF IInv, Safe, SpentIsGone, At
<1>9. AnswersOwn'
  BY <1>2 DEF IInv, Safe, AnswersOwn, At
<1>10. NoTabSpendsATokenTwice'
  BY <1>2 DEF IInv, Safe, NoTabSpendsATokenTwice, At
<1>11. TokensBelongToTheUser'
  BY <1>1, <1>2 DEF IInv, Safe, TokensBelongToTheUser, UserOwns
<1>12. QED  BY <1>5, <1>6, <1>7, <1>8, <1>9, <1>10, <1>11 DEF Safe

\* A refresh that starts presents the token in the tab's memory, which the tab has not
\* had rotated: the answer that would have replaced it is not on its way.
LEMMA PresentStep ==
  ASSUME IInv, NEW t \in Tabs, NEW c \in Calls, UNCHANGED <<server, client, mixed>>,
         promise[t] = NoCall, mem[t].token # NoToken, At(t, c, "denied"),
         Goto(t, c, [at |-> "refresh", token |-> mem[t].token])
  PROVE  Safe'
<1> DEFINE k == mem[t].token
<1>1. k \in Token /\ k # 0
  BY DEF IInv, TypeOK, Session, NoToken
<1>2. \A u \in Tabs, d \in Calls :
        call'[u][d] = IF u = t /\ d = c THEN [at |-> "refresh", token |-> k] ELSE call[u][d]
  <2>1. [at |-> "refresh", token |-> k] \in Call
    BY <1>1, Made
  <2>2. QED  BY <2>1, GotoOK DEF IInv
<1>3. UNCHANGED <<open, given, spenders, stored, mem, mixed>>
  BY DEF server, client
<1>4. \A u \in Tabs, d \in Calls, n \in Token :
        /\ Presents(u, d, n)' => Presents(u, d, n) \/ n = k
        /\ Brings(u, d, n)' => Brings(u, d, n)
  BY <1>2 DEF Presents, Brings
<1>5. \A d \in Calls : ~Refreshes(t, d)
  BY NamesAssumption DEF IInv, OneRefresh, NoCall
<1>6. k \in 1 .. Len(given) /\ k \in 1 .. MaxTokens
  <2>1. k \in Nat /\ MaxTokens \in Nat
    BY <1>1, Numbers, BoundsAssumption
  <2>2. k <= Len(given) /\ Len(given) <= MaxTokens
    BY DEF IInv, Safe, TokensIssued
  <2>3. Len(given) \in Nat
    BY DEF IInv, TypeOK
  <2>4. QED  BY <1>1, <2>1, <2>2, <2>3
<1>7. TokensIssued'
  BY <1>3, <1>4, <1>6 DEF IInv, Safe, TokensIssued
<1>8. SessionsOwn'
  BY <1>3 DEF IInv, Safe, SessionsOwn
<1>9. AnswersAreNew'
  BY <1>3, <1>4 DEF IInv, Safe, AnswersAreNew
<1>10. SpentIsGone'
  BY <1>2, <1>3 DEF IInv, Safe, SpentIsGone, At
<1>11. AnswersOwn'
  BY <1>2, <1>3 DEF IInv, Safe, AnswersOwn, At
<1>12. NoTabSpendsATokenTwice'
  <2>1. t \notin spenders[k]
    BY <1>5, <1>6 DEF IInv, Safe, SpentIsGone, At, Refreshes
  <2>2. QED  BY <1>2, <1>3, <2>1 DEF IInv, Safe, NoTabSpendsATokenTwice, At
<1>13. TokensBelongToTheUser'
  BY <1>3 DEF IInv, Safe, TokensBelongToTheUser, UserOwns
<1>14. QED  BY <1>7, <1>8, <1>9, <1>10, <1>11, <1>12, <1>13 DEF Safe

\* A tab that stores the token an answer has brought.
LEMMA StoreStep ==
  ASSUME IInv, NEW t \in Tabs, NEW c \in Calls, NEW n \in Token, NEW x \in Session,
         Brings(t, c, n), x.token = n, SetState(t, x), UNCHANGED server,
         call'[t][c].at \notin {"refresh", "rotated", "granted"},
         \A u \in Tabs, d \in Calls :
           \/ call'[u][d] = call[u][d]
           \/ /\ call[u][d].at # "rotated" \/ (u = t /\ d = c)
              /\ call'[u][d].at \notin {"refresh", "accepted", "rotated", "granted"},
         TokensBelongToTheUser'
  PROVE  Safe'
<1>1. /\ stored' = x
      /\ \A u \in Tabs : mem'[u] = IF u = t THEN x ELSE mem[u]
      /\ UNCHANGED <<open, given, spenders>>
  BY SetStateOK DEF IInv, server
<1>2. \A u \in Tabs, d \in Calls, k \in Token :
        /\ Presents(u, d, k)' => Presents(u, d, k)
        /\ Brings(u, d, k)' => Brings(u, d, k) /\ ~(u = t /\ d = c)
  BY DEF Presents, Brings
<1>3. n \in 1 .. Len(given) /\ spenders[n] = {}
  BY DEF IInv, Safe, TokensIssued, AnswersAreNew
<1>4. TokensIssued'
  BY <1>1, <1>2, <1>3 DEF IInv, Safe, TokensIssued
<1>5. SessionsOwn'
  BY <1>1 DEF IInv, Safe, SessionsOwn
<1>6. AnswersAreNew'
  <2>1. \A u \in Tabs, d \in Calls, m \in Token : Brings(u, d, m)' => m # n
    BY <1>2 DEF IInv, Safe, AnswersAreNew
  <2>2. QED  BY <1>1, <1>2, <2>1 DEF IInv, Safe, AnswersAreNew
<1>7. SpentIsGone'
  <2> SUFFICES ASSUME NEW u \in Tabs, NEW k \in 1 .. MaxTokens, u \in spenders'[k]
               PROVE  \/ \E d \in Calls : At(u, d, "rotated")' /\ call'[u][d].token = k
                      \/ mem'[u].token # k /\ stored'.token # k
    BY DEF SpentIsGone, At
  <2>1. k # n
    BY <1>1, <1>3
  <2>2. CASE mem[u].token # k /\ stored.token # k
    BY <1>1, <2>1, <2>2
  <2>3. CASE \E d \in Calls : At(u, d, "rotated") /\ call[u][d].token = k
    BY <1>1, <2>1, <2>3 DEF At
  <2>4. QED  BY <1>1, <2>2, <2>3 DEF IInv, Safe, SpentIsGone
<1>8. AnswersOwn'
  BY <1>1 DEF IInv, Safe, AnswersOwn, At
<1>9. NoTabSpendsATokenTwice'
  BY <1>1 DEF IInv, Safe, NoTabSpendsATokenTwice, At
<1>10. QED  BY <1>4, <1>5, <1>6, <1>7, <1>8, <1>9 DEF Safe

\* A tab that is loaded again: what localStorage holds it has not had rotated, and the
\* answers that were on their way reach nobody.
LEMMA LoadStep ==
  ASSUME IInv, NEW t \in Tabs, Load(t)
  PROVE  Safe'
<1>1. /\ \A u \in Tabs : mem'[u] = IF u = t THEN stored ELSE mem[u]
      /\ \A u \in Tabs, d \in Calls : call'[u][d] = IF u = t THEN Idle ELSE call[u][d]
      /\ UNCHANGED <<open, given, stored, mixed>>
  BY DEF IInv, TypeOK, Load
<1>2. \A k \in 1 .. MaxTokens :
        spenders'[k] = IF \E c \in Calls : At(t, c, "rotated") /\ call[t][c].token = k
                       THEN spenders[k] \ {t} ELSE spenders[k]
  BY DEF IInv, TypeOK, Load
<1>3. /\ \A u \in Tabs, d \in Calls, k \in Token :
           /\ Presents(u, d, k)' => Presents(u, d, k)
           /\ Brings(u, d, k)' => Brings(u, d, k)
      /\ \A d \in Calls : call'[t][d].at = "idle"
  BY <1>1 DEF Presents, Brings, Idle
<1>4. TokensIssued'
  BY <1>1, <1>2, <1>3 DEF IInv, Safe, TokensIssued
<1>5. SessionsOwn'
  BY <1>1 DEF IInv, Safe, SessionsOwn
<1>6. AnswersAreNew'
  <2>1. \A u \in Tabs, d \in Calls, n \in Token : Brings(u, d, n) => n \in 1 .. MaxTokens
    BY BoundsAssumption DEF IInv, TypeOK, Safe, TokensIssued
  <2>2. \A n \in 1 .. MaxTokens : spenders[n] = {} => spenders'[n] = {}
    BY <1>2
  <2>3. QED  BY <1>1, <1>3, <2>1, <2>2 DEF IInv, Safe, AnswersAreNew
<1>7. SpentIsGone'
  <2> SUFFICES ASSUME NEW u \in Tabs, NEW k \in 1 .. MaxTokens, u \in spenders'[k]
               PROVE  \/ \E d \in Calls : At(u, d, "rotated")' /\ call'[u][d].token = k
                      \/ mem'[u].token # k /\ stored'.token # k
    BY DEF SpentIsGone, At
  <2>1. /\ u \in spenders[k]
        /\ u = t => ~\E c \in Calls : At(t, c, "rotated") /\ call[t][c].token = k
    <3>1. \/ u \in spenders[k] \ {t}
          \/ u \in spenders[k] /\ ~\E c \in Calls : At(t, c, "rotated") /\ call[t][c].token = k
      BY Zenon, <1>2
    <3>2. QED  BY <3>1
  <2>2. CASE u = t
    BY <1>1, <2>1, <2>2 DEF IInv, Safe, SpentIsGone
  <2>3. CASE u # t
    BY <1>1, <2>1, <2>3 DEF IInv, Safe, SpentIsGone, At
  <2>4. QED  BY <2>2, <2>3
<1>8. AnswersOwn'
  BY <1>1, <1>3 DEF IInv, Safe, AnswersOwn, At
<1>9. NoTabSpendsATokenTwice'
  <2>1. \A u \in Tabs, d \in Calls : At(u, d, "refresh")' =>
          At(u, d, "refresh") /\ call'[u][d] = call[u][d] /\ call[u][d].token \in 1 .. MaxTokens
    <3>1. \A u \in Tabs, d \in Calls : At(u, d, "refresh")' => u # t
      BY <1>3 DEF At
    <3>2. \A u \in Tabs, d \in Calls : At(u, d, "refresh") =>
            call[u][d].token \in Token /\ Presents(u, d, call[u][d].token)
      BY CallKinds DEF IInv, TypeOK, At, Presents
    <3>3. \A u \in Tabs, d \in Calls : At(u, d, "refresh") => call[u][d].token \in 1 .. MaxTokens
      BY <3>2, BoundsAssumption DEF IInv, TypeOK, Safe, TokensIssued
    <3>4. QED  BY <1>1, <3>1, <3>3 DEF At
  <2>2. SUFFICES ASSUME NEW u \in Tabs, NEW d \in Calls, At(u, d, "refresh")'
                 PROVE  u \notin spenders'[call'[u][d].token]
    BY DEF NoTabSpendsATokenTwice, At
  <2>3. u \notin spenders[call[u][d].token]
    BY <2>1, <2>2 DEF IInv, Safe, NoTabSpendsATokenTwice
  <2>4. spenders'[call'[u][d].token] \subseteq spenders[call[u][d].token]
    BY <1>2, <2>1, <2>2
  <2>5. QED  BY <2>3, <2>4
<1>10. TokensBelongToTheUser'
  BY <1>1 DEF IInv, Safe, TokensBelongToTheUser, UserOwns
<1>11. QED  BY <1>4, <1>5, <1>6, <1>7, <1>8, <1>9, <1>10 DEF Safe

-----------------------------------------------------------------------------
(***************************************************************************)
(* The steps that issue a token.                                           *)
(***************************************************************************)
LEMMA Issued ==
  ASSUME IInv, NextToken <= MaxTokens, NEW r \in [chain: 1 .. MaxTokens, user: Users],
         given' = Append(given, r)
  PROVE  /\ given' \in Seq([chain: 1 .. MaxTokens, user: Users])
         /\ Len(given) \in Nat /\ NextToken = Len(given) + 1
         /\ Len(given') = NextToken /\ given'[NextToken] = r
         /\ \A k \in 1 .. Len(given) : given'[k] = given[k]
         /\ NextToken \in 1 .. MaxTokens /\ NextToken \in Token
         /\ DOMAIN given' = DOMAIN given \cup {NextToken}
<1>1. given \in Seq([chain: 1 .. MaxTokens, user: Users]) /\ MaxTokens \in Nat
  BY BoundsAssumption DEF IInv, TypeOK
<1>2. Len(given) \in Nat /\ NextToken = Len(given) + 1
  BY <1>1 DEF NextToken
<1>3. /\ given' \in Seq([chain: 1 .. MaxTokens, user: Users])
      /\ Len(given') = Len(given) + 1 /\ given'[Len(given) + 1] = r
      /\ \A k \in 1 .. Len(given) : given'[k] = given[k]
  BY <1>1
<1>4. NextToken \in 1 .. MaxTokens /\ NextToken \in Token
  BY <1>1, <1>2, Numbers
<1>5. DOMAIN given = 1 .. Len(given) /\ DOMAIN given' = 1 .. Len(given')
  BY <1>1, <1>3
<1>6. 1 .. (Len(given) + 1) = (1 .. Len(given)) \cup {Len(given) + 1}
  BY <1>2
<1>7. QED  BY <1>2, <1>3, <1>4, <1>5, <1>6

\* An element of a sequence.
LEMMA ElementOf ==
  ASSUME NEW S, NEW q \in Seq(S), NEW i \in 1 .. Len(q)
  PROVE  q[i] \in S
OBVIOUS

\* A login or a refresh that the server answers: the new token is nobody's yet, and the
\* one that was presented is spent.
LEMMA IssueStep ==
  ASSUME IInv, NEW t \in Tabs, NEW c \in Calls, NEW q \in Call,
         NextToken <= MaxTokens, NEW r \in [chain: 1 .. MaxTokens, user: Users],
         given' = Append(given, r), UNCHANGED <<client, mixed>>, Goto(t, c, q),
         call[t][c].at \in {"login", "accepted"},
         \/ q.at = "failed"
         \/ q.at = "granted" /\ q.new = NextToken /\ r.user = q.user
         \/ /\ q.at = "rotated" /\ q.new = NextToken /\ call[t][c].at = "accepted"
            /\ q.token = call[t][c].token /\ r.user = given[q.token].user,
         spenders' = IF q.at = "rotated" THEN [spenders EXCEPT ![q.token] = @ \cup {t}] ELSE spenders,
         SessionsOwn'
  PROVE  Safe'
<1>1. /\ Len(given) \in Nat /\ NextToken = Len(given) + 1
      /\ Len(given') = NextToken /\ given'[NextToken] = r
      /\ \A k \in 1 .. Len(given) : given'[k] = given[k]
      /\ NextToken \in 1 .. MaxTokens
  BY Issued
<1>2. \A u \in Tabs, d \in Calls : call'[u][d] = IF u = t /\ d = c THEN q ELSE call[u][d]
  BY GotoOK DEF IInv
<1>3. UNCHANGED <<stored, mem, mixed>>
  BY DEF client
<1>4. /\ stored.token \in 0 .. Len(given)
      /\ \A u \in Tabs : mem[u].token \in 0 .. Len(given)
  BY <1>1, Numbers DEF IInv, TypeOK, Session, Safe, TokensIssued, Token, NoToken
<1>5. \A u \in Tabs, d \in Calls, k \in Token :
        Presents(u, d, k) \/ Brings(u, d, k) => k \in 1 .. Len(given)
  BY DEF IInv, Safe, TokensIssued
<1>6. \A u \in Tabs, d \in Calls, k \in Token :
        /\ Presents(u, d, k)' => Presents(u, d, k)
        /\ Brings(u, d, k)' =>
             IF u = t /\ d = c THEN k = NextToken ELSE Brings(u, d, k)
  BY <1>2 DEF Presents, Brings
<1>7. q.at = "rotated" => /\ q.token \in Token /\ Presents(t, c, q.token)
                          /\ q.token \in 1 .. Len(given) /\ q.token \in 1 .. MaxTokens
  <2>1. q.at = "rotated" => q.token \in Token /\ Presents(t, c, q.token)
    <3>1. call[t][c] \in Call
      BY DEF IInv, TypeOK
    <3>2. QED  BY <3>1, CallKinds DEF Presents
  <2>2. q.at = "rotated" => q.token \in 1 .. Len(given)
    BY <1>5, <2>1
  <2>3. QED  BY <1>1, <2>1, <2>2, BoundsAssumption
<1>8. \A k \in 1 .. MaxTokens :
        spenders'[k] = spenders[k] \cup (IF q.at = "rotated" /\ k = q.token THEN {t} ELSE {})
  BY DEF IInv, TypeOK
<1>9. TokensIssued'
  <2>1. Len(given') <= MaxTokens /\ stored'.token <= Len(given')
        /\ \A u \in Tabs : mem'[u].token <= Len(given')
    BY <1>1, <1>3, <1>4
  <2>2. \A u \in Tabs, d \in Calls, k \in Token :
          Presents(u, d, k)' \/ Brings(u, d, k)' => k \in 1 .. Len(given')
    BY <1>1, <1>5, <1>6
  <2>3. \A k \in 1 .. MaxTokens : spenders'[k] # {} => k <= Len(given')
    BY <1>1, <1>7, <1>8 DEF IInv, Safe, TokensIssued
  <2>4. QED  BY <2>1, <2>2, <2>3 DEF TokensIssued
<1>10. AnswersAreNew'
  <2> SUFFICES ASSUME NEW u \in Tabs, NEW d \in Calls, NEW n \in Token, Brings(u, d, n)'
               PROVE  /\ spenders'[n] = {} /\ stored'.token # n
                      /\ \A v \in Tabs : mem'[v].token # n
                      /\ \A v \in Tabs, e \in Calls :
                           ~Presents(v, e, n)' /\ (Brings(v, e, n)' => v = u /\ e = d)
    BY DEF AnswersAreNew
  <2>1. CASE u = t /\ d = c
    <3>1. n = NextToken /\ n \notin 0 .. Len(given) /\ n \in 1 .. MaxTokens
      BY <1>1, <1>6, <2>1
    <3>2. spenders[n] = {}
      BY <1>1, <3>1 DEF IInv, Safe, TokensIssued
    <3>3. spenders'[n] = {}
      BY <1>7, <1>8, <3>1, <3>2
    <3>4. \A v \in Tabs, e \in Calls : ~Presents(v, e, n) /\ ~Brings(v, e, n)
      BY <1>1, <1>5, <3>1
    <3>5. QED  BY <1>3, <1>4, <1>6, <2>1, <3>1, <3>3, <3>4
  <2>2. CASE ~(u = t /\ d = c)
    <3>1. Brings(u, d, n) /\ n \in 1 .. Len(given) /\ n # NextToken /\ n \in 1 .. MaxTokens
      <4>1. Brings(u, d, n)
        BY <1>6, <2>2
      <4>2. n \in 1 .. Len(given)
        BY <1>5, <4>1
      <4>3. QED  BY <1>1, <4>1, <4>2, BoundsAssumption
    <3>2. /\ spenders[n] = {} /\ stored.token # n
          /\ \A v \in Tabs : mem[v].token # n
          /\ \A v \in Tabs, e \in Calls :
               ~Presents(v, e, n) /\ (Brings(v, e, n) => v = u /\ e = d)
      BY <3>1 DEF IInv, Safe, AnswersAreNew
    <3>3. spenders'[n] = {}
      BY <1>7, <1>8, <3>1, <3>2
    <3>4. QED  BY <1>3, <1>6, <3>1, <3>2, <3>3
  <2>3. QED  BY <2>1, <2>2
<1>11. SpentIsGone'
  <2> SUFFICES ASSUME NEW u \in Tabs, NEW k \in 1 .. MaxTokens, u \in spenders'[k]
               PROVE  \/ \E d \in Calls : At(u, d, "rotated")' /\ call'[u][d].token = k
                      \/ mem'[u].token # k /\ stored'.token # k
    BY DEF SpentIsGone, At
  <2>1. CASE u = t /\ q.at = "rotated" /\ k = q.token
    <3>1. call'[t][c] = q
      BY <1>2
    <3>2. QED  BY <2>1, <3>1 DEF At
  <2>2. CASE ~(u = t /\ q.at = "rotated" /\ k = q.token)
    <3>1. u \in spenders[k]
      BY <1>8, <2>2
    <3>2. CASE \E d \in Calls : At(u, d, "rotated") /\ call[u][d].token = k
      BY <1>2, <3>2 DEF At
    <3>3. CASE mem[u].token # k /\ stored.token # k
      BY <1>3, <3>3
    <3>4. QED  BY <3>1, <3>2, <3>3 DEF IInv, Safe, SpentIsGone
  <2>3. QED  BY <2>1, <2>2
<1>12. AnswersOwn'
  <2> SUFFICES ASSUME NEW u \in Tabs, NEW d \in Calls
               PROVE  /\ At(u, d, "granted")' =>
                           given'[call'[u][d].new].user = call'[u][d].user
                      /\ At(u, d, "rotated")' =>
                           given'[call'[u][d].new].user = given'[call'[u][d].token].user
    BY DEF AnswersOwn, At
  <2>1. CASE u = t /\ d = c
    BY <1>1, <1>2, <1>7, <2>1 DEF At
  <2>2. CASE ~(u = t /\ d = c)
    <3>1. call'[u][d] = call[u][d] /\ call[u][d] \in Call
      BY <1>2, <2>2 DEF IInv, TypeOK
    <3>2. /\ At(u, d, "granted") => call[u][d].new \in 1 .. Len(given)
          /\ At(u, d, "rotated") =>
               call[u][d].new \in 1 .. Len(given) /\ call[u][d].token \in 1 .. Len(given)
      BY <1>5, <3>1, CallKinds DEF At, Presents, Brings
    <3>3. QED  BY <1>1, <3>1, <3>2 DEF IInv, Safe, AnswersOwn, At
  <2>3. QED  BY <2>1, <2>2
<1>13. NoTabSpendsATokenTwice'
  <2> SUFFICES ASSUME NEW u \in Tabs, NEW d \in Calls, At(u, d, "refresh")'
               PROVE  u \notin spenders'[call'[u][d].token]
    BY DEF NoTabSpendsATokenTwice, At
  <2>1. ~(u = t /\ d = c) /\ call'[u][d] = call[u][d] /\ call[u][d].at = "refresh"
    BY <1>2 DEF At
  <2>2. call[u][d].token \in 1 .. MaxTokens
    <3>1. call[u][d] \in Call
      BY DEF IInv, TypeOK
    <3>2. call[u][d].token \in Token /\ Presents(u, d, call[u][d].token)
      BY <2>1, <3>1, CallKinds DEF Presents
    <3>3. call[u][d].token \in 1 .. Len(given)
      BY <1>5, <3>2
    <3>4. QED  BY <1>1, <3>3, BoundsAssumption
  <2>3. u \notin spenders[call[u][d].token]
    BY <2>1 DEF IInv, Safe, NoTabSpendsATokenTwice, At
  <2>4. q.at = "rotated" => u # t
    BY <2>1 DEF IInv, OneRefresh, Refreshes
  <2>5. QED  BY <1>8, <2>1, <2>2, <2>3, <2>4
<1>14. TokensBelongToTheUser'
  <2>1. UserOwns(stored) => UserOwns(stored)'
    BY <1>1, <1>3, <1>4 DEF UserOwns, NoToken
  <2>2. \A u \in Tabs : UserOwns(mem[u]) => UserOwns(mem[u])'
    BY <1>1, <1>3, <1>4 DEF UserOwns, NoToken
  <2>3. QED  BY <1>3, <2>1, <2>2 DEF IInv, Safe, TokensBelongToTheUser
<1>15. QED  BY <1>9, <1>10, <1>11, <1>12, <1>13, <1>14 DEF Safe

-----------------------------------------------------------------------------
(***************************************************************************)
(* The steps of the specification.                                         *)
(***************************************************************************)
LEMMA InitOK == Init => IInv
<1> SUFFICES ASSUME Init  PROVE IInv
  OBVIOUS
<1>1. SignedOut \in Session /\ SignedOut.token = 0 /\ Idle \in Call /\ Idle.at = "idle"
  BY Numbers, Made DEF SignedOut, Session, NoToken, Idle
<1>2. /\ open = {} /\ given = <<>> /\ stale = {} /\ stored = SignedOut /\ mixed = FALSE
      /\ mem = [t \in Tabs |-> SignedOut] /\ promise = [t \in Tabs |-> NoCall]
      /\ call = [t \in Tabs |-> [c \in Calls |-> Idle]]
      /\ spenders = [k \in 1 .. MaxTokens |-> {}]
  BY DEF Init
<1>3. Len(given) = 0 /\ DOMAIN given = {} /\ given \in Seq([chain: 1 .. MaxTokens, user: Users])
  BY <1>2
<1>4. TypeOK
  BY <1>1, <1>2, <1>3 DEF TypeOK
<1>5. /\ \A t \in Tabs, c \in Calls : call[t][c].at = "idle" /\ promise[t] = NoCall
      /\ \A t \in Tabs : mem[t] = SignedOut
      /\ \A k \in 1 .. MaxTokens : spenders[k] = {}
  BY <1>1, <1>2
<1>6. OneRefresh
  BY <1>5, NamesAssumption DEF OneRefresh, Refreshes, At, NoCall
<1>7. TokensIssued
  BY <1>1, <1>2, <1>3, <1>5, BoundsAssumption DEF TokensIssued, Presents, Brings
<1>8. SessionsOwn /\ AnswersAreNew /\ AnswersOwn /\ NoTabSpendsATokenTwice
  BY <1>2, <1>5
     DEF SessionsOwn, AnswersAreNew, Brings, AnswersOwn, NoTabSpendsATokenTwice, At
<1>9. SpentIsGone
  BY <1>5 DEF SpentIsGone
<1>10. TokensBelongToTheUser
  BY <1>1, <1>2, <1>5 DEF TokensBelongToTheUser, UserOwns, NoToken
<1>11. QED  BY <1>4, <1>6, <1>7, <1>8, <1>9, <1>10 DEF IInv, Safe

\* A call that neither presents nor brings a token, before and after.
LEMMA OtherStepOK ==
  ASSUME IInv, NEW t \in Tabs, NEW c \in Calls, NEW q \in Call, Goto(t, c, q),
         UNCHANGED <<given, spenders, client, stale, promise, mixed>>, open' \subseteq open,
         call[t][c].at # "rotated", q.at \notin {"refresh", "rotated", "granted"},
         q.at = "accepted" => call[t][c].at = "refresh" /\ q.token = call[t][c].token,
         Refreshes(t, c) <=> q.at \in {"accepted", "refused", "failed"},
         q.at = "waiting" => promise[t] # NoCall
  PROVE  IInv'
<1>1. /\ call' \in [Tabs -> [Calls -> Call]]
      /\ \A u \in Tabs, d \in Calls : call'[u][d] = IF u = t /\ d = c THEN q ELSE call[u][d]
  BY GotoOK DEF IInv
<1>2. TypeOK'
  BY <1>1 DEF IInv, TypeOK, client
<1>3. OneRefresh'
  BY RefreshGoesOn
<1>4. Safe'
  BY <1>1, QuietStep
<1>5. QED  BY <1>2, <1>3, <1>4 DEF IInv

LEMMA LoginServedOK ==
  ASSUME IInv, NEW t \in Tabs, NEW c \in Calls, LoginServed(t, c)
  PROVE  IInv'
<1> DEFINE u == call[t][c].user
           r == [chain |-> NextToken, user |-> u]
           q == [at |-> "granted", user |-> u, new |-> NextToken]
<1>1. call[t][c] \in Call /\ call[t][c].at = "login"
  BY DEF IInv, TypeOK, LoginServed, At
<1>2. u \in Users
  BY <1>1, CallKinds
<1>3. /\ given' = Append(given, r) /\ NextToken <= MaxTokens /\ Goto(t, c, q)
      /\ open' = open \cup {[chain |-> NextToken, user |-> u, token |-> NextToken]}
      /\ UNCHANGED <<stale, client, promise, spenders, mixed>>
  BY DEF LoginServed, Server!Open
<1>4. NextToken \in 1 .. MaxTokens /\ NextToken \in Token
  <2>1. Len(given) \in Nat
    BY DEF IInv, TypeOK
  <2>2. QED  BY <1>3, <2>1, BoundsAssumption, Numbers DEF NextToken
<1>5. r \in [chain: 1 .. MaxTokens, user: Users] /\ q \in Call
  BY <1>2, <1>4, Made
<1>6. /\ given' \in Seq([chain: 1 .. MaxTokens, user: Users])
      /\ Len(given) \in Nat /\ NextToken = Len(given) + 1
      /\ Len(given') = NextToken /\ given'[NextToken] = r
      /\ \A k \in 1 .. Len(given) : given'[k] = given[k]
      /\ DOMAIN given' = DOMAIN given \cup {NextToken}
  BY <1>3, <1>5, Issued
<1>7. /\ call' \in [Tabs -> [Calls -> Call]]
      /\ \A v \in Tabs, d \in Calls : call'[v][d] = IF v = t /\ d = c THEN q ELSE call[v][d]
  BY <1>3, <1>5, GotoOK DEF IInv
<1>8. TypeOK'
  <2>1. open' \subseteq Server!Session
    BY <1>2, <1>3, <1>4 DEF IInv, TypeOK, Server!Session
  <2>2. QED  BY <1>3, <1>6, <1>7, <2>1 DEF IInv, TypeOK, client
<1>9. OneRefresh'
  BY <1>1, <1>3, <1>5, RefreshGoesOn DEF Refreshes
<1>10. SessionsOwn'
  <2> SUFFICES ASSUME NEW s \in open'
               PROVE  s.token <= Len(given') /\ given'[s.token].user = s.user
    BY DEF SessionsOwn
  <2>1. CASE s \in open
    <3>1. s.token \in 1 .. MaxTokens
      BY <2>1 DEF IInv, TypeOK, Server!Session
    <3>2. s.token <= Len(given) /\ given[s.token].user = s.user
      BY <2>1 DEF IInv, Safe, SessionsOwn
    <3>3. QED  BY <1>6, <3>1, <3>2
  <2>2. CASE s = [chain |-> NextToken, user |-> u, token |-> NextToken]
    BY <1>6, <2>2
  <2>3. QED  BY <1>3, <2>1, <2>2
<1>11. Safe'
  <2>1. q.at = "granted" /\ q.new = NextToken /\ r.user = q.user
    OBVIOUS
  <2>2. QED  BY <1>1, <1>3, <1>5, <1>10, <2>1, IssueStep
<1>12. QED  BY <1>8, <1>9, <1>11 DEF IInv

LEMMA RefreshServedOK ==
  ASSUME IInv, NEW t \in Tabs, NEW c \in Calls, NEW arrives \in BOOLEAN,
         RefreshServed(t, c, arrives)
  PROVE  IInv'
<1> DEFINE token == call[t][c].token
           q == IF arrives THEN [at |-> "rotated", token |-> token, new |-> NextToken]
                ELSE [at |-> "failed"]
<1> DEFINE s == SessionOf(token)
           r == [chain |-> s.chain, user |-> s.user]
<1>1. /\ given' = Append(given, r)
      /\ open' = (open \ {s}) \cup {[s EXCEPT !.token = NextToken]}
      /\ spenders' = IF arrives THEN [spenders EXCEPT ![token] = @ \cup {t}] ELSE spenders
      /\ Goto(t, c, q)
  BY DEF RefreshServed, Server!Rotate
<1>2. /\ call[t][c] \in Call /\ call[t][c].at = "accepted" /\ NextToken <= MaxTokens
      /\ UNCHANGED <<stale, client, promise, mixed>>
  BY DEF IInv, TypeOK, RefreshServed, At
<1>3. token \in Token /\ Presents(t, c, token)
  BY <1>2, CallKinds DEF Presents
<1>4. Len(given) \in Nat /\ NextToken \in 1 .. MaxTokens /\ NextToken \in Token
  <2>1. Len(given) \in Nat
    BY DEF IInv, TypeOK
  <2>2. QED  BY <1>2, <2>1, BoundsAssumption, Numbers DEF NextToken
<1>5. s \in Server!Session /\ s.token = token /\ s.user = given[token].user
  <2>1. token \in 1 .. Len(given) /\ token \in 1 .. MaxTokens
    <3>1. token \in 1 .. Len(given) /\ Len(given) <= MaxTokens
      BY <1>3 DEF IInv, Safe, TokensIssued
    <3>2. QED  BY <1>4, <3>1, BoundsAssumption
  <2>2. given[token] \in [chain: 1 .. MaxTokens, user: Users]
    <3>1. given \in Seq([chain: 1 .. MaxTokens, user: Users])
      BY DEF IInv, TypeOK
    <3>2. QED  BY <2>1, <3>1, ElementOf
  <2>3. s = [chain |-> given[token].chain, user |-> given[token].user, token |-> token]
    BY DEF SessionOf
  <2>4. QED  BY <2>1, <2>2, <2>3 DEF Server!Session
<1>6. r \in [chain: 1 .. MaxTokens, user: Users] /\ q \in Call
  BY <1>3, <1>4, <1>5, Made DEF Server!Session
<1>7. /\ given' \in Seq([chain: 1 .. MaxTokens, user: Users])
      /\ NextToken = Len(given) + 1
      /\ Len(given') = NextToken /\ given'[NextToken] = r
      /\ \A k \in 1 .. Len(given) : given'[k] = given[k]
      /\ DOMAIN given' = DOMAIN given \cup {NextToken}
  BY <1>1, <1>2, <1>6, Issued
<1>8. /\ call' \in [Tabs -> [Calls -> Call]]
      /\ \A v \in Tabs, d \in Calls : call'[v][d] = IF v = t /\ d = c THEN q ELSE call[v][d]
  BY <1>1, <1>6, GotoOK DEF IInv
<1>9. TypeOK'
  <2>1. open' \subseteq Server!Session
    BY <1>1, <1>4, <1>5 DEF IInv, TypeOK, Server!Session
  <2>2. spenders' \in [1 .. MaxTokens -> SUBSET Tabs]
    BY <1>1 DEF IInv, TypeOK
  <2>3. QED  BY <1>2, <1>7, <1>8, <2>1, <2>2 DEF IInv, TypeOK, client
<1>10. OneRefresh'
  <2>1. q.at \in {"rotated", "failed"}
    OBVIOUS
  <2>2. QED  BY <1>1, <1>2, <1>6, <2>1, RefreshGoesOn DEF Refreshes
<1>11. SessionsOwn'
  <2> SUFFICES ASSUME NEW x \in open'
               PROVE  x.token <= Len(given') /\ given'[x.token].user = x.user
    BY DEF SessionsOwn
  <2>1. CASE x \in open
    <3>1. x.token \in 1 .. MaxTokens
      BY <2>1 DEF IInv, TypeOK, Server!Session
    <3>2. x.token <= Len(given) /\ given[x.token].user = x.user
      BY <2>1 DEF IInv, Safe, SessionsOwn
    <3>3. QED  BY <1>4, <1>7, <3>1, <3>2
  <2>2. CASE x = [s EXCEPT !.token = NextToken]
    BY <1>4, <1>5, <1>7, <2>2 DEF Server!Session
  <2>3. QED  BY <1>1, <2>1, <2>2
<1>12. r.user = given[token].user
  BY <1>5
<1>13. Safe'
  <2>1. CASE arrives
    <3>1. q.at = "rotated" /\ q.new = NextToken /\ q.token = token
      BY <2>1
    <3>2. spenders' = [spenders EXCEPT ![q.token] = @ \cup {t}]
      BY <1>1, <2>1
    <3>3. QED  BY <1>1, <1>2, <1>6, <1>11, <1>12, <3>1, <3>2, IssueStep
  <2>2. CASE ~arrives
    <3>1. q.at = "failed" /\ spenders' = spenders
      BY <1>1, <2>2
    <3>2. QED  BY <1>1, <1>2, <1>6, <1>11, <3>1, IssueStep
  <2>3. QED  BY <2>1, <2>2
<1>14. QED  BY <1>9, <1>10, <1>13 DEF IInv

LEMMA LoginAnsweredOK ==
  ASSUME IInv, NEW t \in Tabs, NEW c \in Calls, LoginAnswered(t, c)
  PROVE  IInv'
<1> DEFINE n == call[t][c].new
           x == [user |-> call[t][c].user, token |-> n]
<1>1. call[t][c] \in Call /\ call[t][c].at = "granted"
  BY DEF IInv, TypeOK, LoginAnswered, At
<1>2. n \in Token /\ x \in Session /\ Brings(t, c, n)
  BY <1>1, CallKinds DEF Session, Brings
<1>3. SetState(t, x) /\ Goto(t, c, Idle) /\ UNCHANGED <<server, stale, promise, mixed>>
  BY DEF LoginAnswered
<1>4. /\ call' \in [Tabs -> [Calls -> Call]]
      /\ \A u \in Tabs, d \in Calls : call'[u][d] = IF u = t /\ d = c THEN Idle ELSE call[u][d]
  <2>1. TypeOK /\ Idle \in Call
    BY Made DEF IInv
  <2>2. QED  BY <1>3, <2>1, GotoOK
<1>5. /\ mem' \in [Tabs -> Session] /\ stored' \in Session /\ stored' = x
      /\ \A u \in Tabs : mem'[u] = IF u = t THEN x ELSE mem[u]
  BY <1>2, <1>3, SetStateOK DEF IInv
<1>6. TypeOK'
  BY <1>3, <1>4, <1>5 DEF IInv, TypeOK, server
<1>7. OneRefresh'
  BY <1>1, <1>3, Made, RefreshGoesOn DEF Refreshes, Idle
<1>8. TokensBelongToTheUser'
  <2>1. given[n].user = x.user /\ given' = given
    BY <1>1, <1>3 DEF IInv, Safe, AnswersOwn, At, server
  <2>2. QED
    BY <1>3, <1>5, <2>1 DEF IInv, Safe, TokensBelongToTheUser, UserOwns
<1>9. Safe'
  BY <1>1, <1>2, <1>3, <1>4, <1>8, StoreStep DEF Idle
<1>10. QED  BY <1>6, <1>7, <1>9 DEF IInv

LEMMA RefreshAnsweredOK ==
  ASSUME IInv, NEW t \in Tabs, NEW c \in Calls, RefreshAnswered(t, c)
  PROVE  IInv'
<1> DEFINE n == call[t][c].new
           k == call[t][c].token
           x == SetTokens(t, n)
           q == Sent(n, FALSE)
<1>1. call[t][c] \in Call /\ call[t][c].at = "rotated" /\ mem[t] \in Session
  BY DEF IInv, TypeOK, RefreshAnswered, At
<1>2. /\ n \in Token /\ k \in Token /\ Brings(t, c, n) /\ Presents(t, c, k)
      /\ x \in Session /\ x.token = n /\ x.user = mem[t].user
  BY <1>1, CallKinds DEF Session, SetTokens, Brings, Presents
<1>3. q \in Call /\ q.at = "sent"
  BY <1>2, Made DEF Sent
<1>4. /\ SetState(t, x) /\ Resume(t, c, q) /\ UNCHANGED <<server, stale>>
      /\ mixed' = (mixed \/ mem[t].token # k)
  BY DEF RefreshAnswered
<1> HIDE DEF q
<1>5. /\ call' \in [Tabs -> [Calls -> Call]]
      /\ \A u \in Tabs, d \in Calls :
           call'[u][d] = IF u = t /\ (d = c \/ At(t, d, "waiting")) THEN q ELSE call[u][d]
      /\ promise' \in [Tabs -> Calls \cup {NoCall}]
  <2>1. TypeOK /\ q \in Call /\ Resume(t, c, q)
    BY <1>3, <1>4 DEF IInv
  <2>2. QED  BY <2>1, ResumeOK
<1>6. /\ mem' \in [Tabs -> Session] /\ stored' \in Session /\ stored' = x
      /\ \A u \in Tabs : mem'[u] = IF u = t THEN x ELSE mem[u]
  BY <1>2, <1>4, SetStateOK DEF IInv
<1>7. TypeOK'
  <2>1. mixed' \in BOOLEAN
    BY <1>4 DEF IInv, TypeOK
  <2>2. QED  BY <1>4, <1>5, <1>6, <2>1 DEF IInv, TypeOK, server
<1>8. OneRefresh'
  BY <1>1, <1>3, <1>4, RefreshEnds DEF Refreshes
<1>9. TokensBelongToTheUser'
  <2> SUFFICES ASSUME ~mixed'
               PROVE  UserOwns(stored)' /\ \A u \in Tabs : UserOwns(mem[u])'
    BY DEF TokensBelongToTheUser, UserOwns
  <2>1. ~mixed /\ mem[t].token = k
    BY <1>4 DEF IInv, TypeOK
  <2>2. k # NoToken
    BY <1>2 DEF IInv, Safe, TokensIssued, NoToken
  <2>3. given[k].user = mem[t].user
    BY <2>1, <2>2 DEF IInv, Safe, TokensBelongToTheUser, UserOwns
  <2>4. given[n].user = x.user
    BY <1>1, <1>2, <2>3 DEF IInv, Safe, AnswersOwn, At
  <2>5. given' = given /\ \A u \in Tabs : UserOwns(mem[u])
    BY <1>4, <2>1 DEF IInv, Safe, TokensBelongToTheUser, server
  <2>6. QED  BY <1>2, <1>6, <2>4, <2>5 DEF UserOwns
<1>10. Safe'
  <2>1. call'[t][c] = q
    BY <1>5
  <2>2. \A u \in Tabs, d \in Calls :
          \/ call'[u][d] = call[u][d]
          \/ /\ call[u][d].at # "rotated" \/ (u = t /\ d = c)
             /\ call'[u][d].at \notin {"refresh", "accepted", "rotated", "granted"}
    BY <1>3, <1>5 DEF At
  <2>3. QED  BY <1>2, <1>3, <1>4, <1>9, <2>1, <2>2, StoreStep
<1>11. QED  BY <1>7, <1>8, <1>10 DEF IInv

\* A logout, and a refresh that is refused or that fails.
LEMMA OverOK ==
  ASSUME IInv, NEW t \in Tabs, NEW c \in Calls,
         LogoutAnswered(t, c) \/ RefreshDenied(t, c) \/ RefreshFailed(t, c)
  PROVE  IInv'
<1>1. Idle \in Call /\ Idle.at = "idle" /\ SignedOut \in Session /\ Cleared(t) = SignedOut
  BY Made, Numbers DEF Idle, SignedOut, Session, Cleared
<1>2. CASE LogoutAnswered(t, c)
  <2>1. /\ SetState(t, SignedOut) /\ Goto(t, c, Idle) /\ call[t][c].at = "logged out"
        /\ UNCHANGED <<server, stale, promise, mixed>>
    BY <1>1, <1>2 DEF LogoutAnswered, At
  <2>2. /\ call' \in [Tabs -> [Calls -> Call]]
        /\ \A u \in Tabs, d \in Calls :
             call'[u][d] = IF u = t /\ d = c THEN Idle ELSE call[u][d]
    <3>1. TypeOK /\ Idle \in Call /\ Goto(t, c, Idle)
      BY <1>1, <2>1 DEF IInv
    <3>2. QED  BY <3>1, GotoOK
  <2>3. mem' \in [Tabs -> Session] /\ stored' \in Session
    BY <1>1, <2>1, SetStateOK DEF IInv
  <2>4. TypeOK'
    BY <2>1, <2>2, <2>3 DEF IInv, TypeOK, server
  <2>5. OneRefresh'
    BY <1>1, <2>1, RefreshGoesOn DEF Refreshes
  <2>6. Safe'
    BY <1>1, <2>1, <2>2, SignedOutStep
  <2>7. QED  BY <2>4, <2>5, <2>6 DEF IInv
<1>3. CASE RefreshDenied(t, c) \/ RefreshFailed(t, c)
  <2>1. /\ Resume(t, c, Idle) /\ UNCHANGED <<server, stale, mixed>>
        /\ call[t][c].at \in {"refused", "failed"}
        /\ SetState(t, SignedOut) \/ UNCHANGED client
    BY <1>1, <1>3 DEF RefreshDenied, RefreshFailed, At
  <2>2. /\ call' \in [Tabs -> [Calls -> Call]]
        /\ \A u \in Tabs, d \in Calls :
             call'[u][d] = IF u = t /\ (d = c \/ At(t, d, "waiting")) THEN Idle
                           ELSE call[u][d]
        /\ promise' \in [Tabs -> Calls \cup {NoCall}]
    BY <1>1, <2>1, ResumeOK DEF IInv
  <2>3. mem' \in [Tabs -> Session] /\ stored' \in Session
    <3>1. CASE SetState(t, SignedOut)
      BY <1>1, <3>1, SetStateOK DEF IInv
    <3>2. CASE UNCHANGED client
      BY <3>2 DEF IInv, TypeOK, client
    <3>3. QED  BY <2>1, <3>1, <3>2
  <2>4. TypeOK'
    BY <2>1, <2>2, <2>3 DEF IInv, TypeOK, server
  <2>5. OneRefresh'
    BY <1>1, <2>1, RefreshEnds DEF Refreshes
  <2>6. \A u \in Tabs, d \in Calls :
          \/ call'[u][d] = call[u][d]
          \/ /\ call[u][d].at # "rotated"
             /\ call'[u][d].at \notin {"refresh", "accepted", "rotated", "granted"}
    BY <1>1, <2>1, <2>2 DEF At
  <2>7. Safe'
    <3>1. CASE SetState(t, SignedOut)
      BY <2>1, <2>6, <3>1, SignedOutStep
    <3>2. CASE UNCHANGED client
      BY <2>1, <2>6, <3>2, QuietStep DEF server
    <3>3. QED  BY <2>1, <3>1, <3>2
  <2>8. QED  BY <2>4, <2>5, <2>7 DEF IInv
<1>4. QED  BY <1>2, <1>3

LEMMA LoadOK ==
  ASSUME IInv, NEW t \in Tabs, Load(t)
  PROVE  IInv'
<1>1. /\ \A u \in Tabs, d \in Calls : call'[u][d] = IF u = t THEN Idle ELSE call[u][d]
      /\ \A u \in Tabs : promise'[u] = IF u = t THEN NoCall ELSE promise[u]
  BY DEF IInv, TypeOK, Load
<1>2. TypeOK'
  <2>1. call' \in [Tabs -> [Calls -> Call]]
    BY Made DEF IInv, TypeOK, Load
  <2>2. mem' \in [Tabs -> Session] /\ promise' \in [Tabs -> Calls \cup {NoCall}]
    BY DEF IInv, TypeOK, Load
  <2>3. spenders' \in [1 .. MaxTokens -> SUBSET Tabs]
    BY DEF IInv, TypeOK, Load
  <2>4. QED  BY <2>1, <2>2, <2>3 DEF IInv, TypeOK, Load
<1>3. OneRefresh'
  <2>1. \A d \in Calls : ~Refreshes(t, d)' /\ ~At(t, d, "waiting")' /\ promise'[t] # d
    <3>1. \A d \in Calls : call'[t][d].at = "idle" /\ promise'[t] = NoCall
      BY <1>1 DEF Idle
    <3>2. \A d \in Calls : d # NoCall
      BY NamesAssumption DEF NoCall
    <3>3. QED  BY <3>1, <3>2 DEF Refreshes, At
  <2>2. \A u \in Tabs, d \in Calls : u # t =>
          call'[u][d] = call[u][d] /\ promise'[u] = promise[u]
    BY <1>1
  <2>3. QED  BY <2>1, <2>2 DEF IInv, OneRefresh, Refreshes, At
<1>4. QED  BY <1>2, <1>3, LoadStep DEF IInv

\* A refused call: it ends, waits for the refresh under way, or starts one.
LEMMA CallDeniedOK ==
  ASSUME IInv, NEW t \in Tabs, NEW c \in Calls, CallDenied(t, c)
  PROVE  IInv'
<1> DEFINE k == mem[t].token
<1>1. call[t][c].at = "denied" /\ k \in Token /\ UNCHANGED <<server, stale, client, mixed>>
  BY DEF CallDenied, At, IInv, TypeOK, Session
<1>2. /\ Idle \in Call /\ Idle.at = "idle"
      /\ [at |-> "waiting", token |-> k] \in Call
      /\ [at |-> "refresh", token |-> k] \in Call
  BY <1>1, Made DEF Idle
<1>3. CASE Goto(t, c, Idle) /\ UNCHANGED promise
  BY <1>1, <1>2, <1>3, OtherStepOK DEF Refreshes, server
<1>4. CASE promise[t] # NoCall /\ Goto(t, c, [at |-> "waiting", token |-> k])
           /\ UNCHANGED promise
  BY <1>1, <1>2, <1>4, OtherStepOK DEF Refreshes, server
<1>5. CASE /\ promise[t] = NoCall /\ k # NoToken
           /\ Goto(t, c, [at |-> "refresh", token |-> k])
           /\ promise' = [promise EXCEPT ![t] = c]
  <2>1. call' \in [Tabs -> [Calls -> Call]]
    BY <1>2, <1>5, GotoOK DEF IInv
  <2>2. TypeOK'
    BY <1>1, <1>5, <2>1 DEF IInv, TypeOK, server, client
  <2>3. OneRefresh'
    BY <1>2, <1>5, RefreshStarts
  <2>4. Safe'
    BY <1>1, <1>5, PresentStep DEF At
  <2>5. QED  BY <2>2, <2>3, <2>4 DEF IInv
<1>6. QED  BY <1>3, <1>4, <1>5 DEF CallDenied, StartsRefresh

\* The other steps of a call.
LEMMA CallStepOK ==
  ASSUME IInv, NEW t \in Tabs, NEW c \in Calls,
         \/ \E u \in Users : LoginSent(t, c, u)
         \/ LogoutSent(t, c) \/ CallSent(t, c) \/ CallServed(t, c) \/ CallRefused(t, c)
         \/ \E served \in BOOLEAN : LogoutServed(t, c, served)
         \/ RefreshAccepted(t, c) \/ RefreshRefused(t, c) \/ RefreshLost(t, c)
  PROVE  IInv'
<1>1. call[t][c] \in Call /\ mem[t].token \in Token
  BY DEF IInv, TypeOK, Session
<1>2. CASE \E u \in Users : LoginSent(t, c, u)
  <2>1. PICK u \in Users : LoginSent(t, c, u)
    BY <1>2
  <2>2. [at |-> "login", user |-> u] \in Call
    BY Made
  <2>3. QED  BY <2>1, <2>2, OtherStepOK DEF LoginSent, Refreshes, At, server
<1>3. CASE LogoutSent(t, c)
  <2> DEFINE q == [at |-> IF mem[t].token = NoToken THEN "logged out" ELSE "logout",
                   token |-> mem[t].token]
  <2>1. q \in Call /\ q.at \in {"logged out", "logout"}
    BY <1>1, Made
  <2>2. QED  BY <1>3, <2>1, OtherStepOK DEF LogoutSent, Refreshes, At, server
<1>4. CASE CallSent(t, c)
  <2>1. Sent(mem[t].token, TRUE) \in Call /\ Sent(mem[t].token, TRUE).at = "sent"
    BY <1>1, Made DEF Sent
  <2>2. QED  BY <1>4, <2>1, OtherStepOK DEF CallSent, Refreshes, At, server
<1>5. CASE CallServed(t, c)
  <2>1. Idle \in Call /\ Idle.at = "idle"
    BY Made DEF Idle
  <2>2. QED  BY <1>5, <2>1, OtherStepOK DEF CallServed, Refreshes, At, server
<1>6. CASE CallRefused(t, c)
  <2> DEFINE q == [call[t][c] EXCEPT !.at = "denied"]
  <2>1. call[t][c].at = "sent" /\ Goto(t, c, q)
    BY <1>6 DEF CallRefused, At
  <2>2. q \in Call /\ q.at = "denied"
    BY <1>1, <2>1, Relabelled
  <2>3. QED  BY <1>6, <2>1, <2>2, OtherStepOK DEF CallRefused, Refreshes, server
<1>7. CASE \E served \in BOOLEAN : LogoutServed(t, c, served)
  <2> DEFINE q == [call[t][c] EXCEPT !.at = "logged out"]
  <2>1. PICK served \in BOOLEAN : LogoutServed(t, c, served)
    BY <1>7
  <2>2. call[t][c].at = "logout" /\ Goto(t, c, q) /\ open' \subseteq open
    BY <2>1 DEF LogoutServed, At
  <2>3. q \in Call /\ q.at = "logged out"
    BY <1>1, <2>2, Relabelled
  <2>4. QED  BY <2>1, <2>2, <2>3, OtherStepOK DEF LogoutServed, Refreshes
<1>8. CASE RefreshRefused(t, c)
  <2> DEFINE q == [call[t][c] EXCEPT !.at = "refused"]
  <2>1. call[t][c].at \in {"refresh", "accepted"} /\ Goto(t, c, q)
    BY <1>8 DEF RefreshRefused, Refreshing, At
  <2>2. q \in Call /\ q.at = "refused"
    BY <1>1, <2>1, Relabelled
  <2>3. QED  BY <1>8, <2>1, <2>2, OtherStepOK DEF RefreshRefused, Refreshes, server
<1>9. CASE RefreshLost(t, c)
  <2>1. [at |-> "failed"] \in Call
    BY Made
  <2>2. QED  BY <1>9, <2>1, OtherStepOK DEF RefreshLost, Refreshing, Refreshes, At, server
<1>10. CASE RefreshAccepted(t, c)
  <2> DEFINE q == [call[t][c] EXCEPT !.at = "accepted"]
  <2>1. call[t][c].at = "refresh" /\ Goto(t, c, q)
    BY <1>10 DEF RefreshAccepted, At
  <2>2. q \in Call /\ q.at = "accepted" /\ q.token = call[t][c].token
    BY <1>1, <2>1, Relabelled
  <2> HIDE DEF q
  <2>3. UNCHANGED <<open, given, spenders, stale, client, promise, mixed>>
    BY <1>10 DEF RefreshAccepted, server
  <2>4. QED  BY <2>1, <2>2, <2>3, OtherStepOK DEF Refreshes
<1>11. QED  BY <1>2, <1>3, <1>4, <1>5, <1>6, <1>7, <1>8, <1>9, <1>10

\* Time: access tokens expire, and sessions end on the server.
LEMMA TimeOK ==
  ASSUME IInv,
         \/ \E k \in 1 .. MaxTokens : AccessExpires(k)
         \/ \E s \in open : SessionEnds(s)
  PROVE  IInv'
<1>1. /\ UNCHANGED <<given, spenders, client, promise, call, mixed>>
      /\ open' \subseteq open /\ stale' \subseteq DOMAIN given
  <2>1. CASE \E k \in 1 .. MaxTokens : AccessExpires(k)
    BY <2>1 DEF AccessExpires, server, IInv, TypeOK
  <2>2. CASE \E s \in open : SessionEnds(s)
    BY <2>2 DEF SessionEnds, Server!End, IInv, TypeOK
  <2>3. QED  BY <2>1, <2>2
<1>2. TypeOK'
  BY <1>1 DEF IInv, TypeOK, client
<1>3. OneRefresh'
  BY <1>1 DEF IInv, OneRefresh, Refreshes, At
<1>4. Safe'
  BY <1>1, QuietStep
<1>5. QED  BY <1>2, <1>3, <1>4 DEF IInv

\* Every step preserves the invariant.
LEMMA StepOK == IInv /\ [Next]_vars => IInv'
<1> SUFFICES ASSUME IInv, [Next]_vars  PROVE IInv'
  OBVIOUS
<1>1. CASE UNCHANGED vars
  <2>1. UNCHANGED <<open, given, stale, stored, mem, promise, call, spenders, mixed>>
    BY <1>1 DEF vars
  <2>2. TypeOK' /\ OneRefresh'
    BY <2>1 DEF IInv, TypeOK, OneRefresh, Refreshes, At
  <2>3. Safe'
    BY <2>1, QuietStep DEF client
  <2>4. QED  BY <2>2, <2>3 DEF IInv
<1>2. ASSUME NEW t \in Tabs, NEW c \in Calls,
             LoginStep(t, c) \/ ApiStep(t, c)
      PROVE  IInv'
  BY <1>2, LoginServedOK, LoginAnsweredOK, OverOK, CallDeniedOK, CallStepOK, RefreshServedOK,
     RefreshAnsweredOK DEF LoginStep, ApiStep
<1>3. ASSUME NEW t \in Tabs, NEW c \in Calls,
             (\E u \in Users : LoginSent(t, c, u)) \/ LogoutSent(t, c) \/ CallSent(t, c)
      PROVE  IInv'
  BY <1>3, CallStepOK
<1>4. QED  BY <1>1, <1>2, <1>3, LoadOK, TimeOK DEF Next

-----------------------------------------------------------------------------
\* The invariant above holds in every reachable state.
THEOREM Invariance == Spec => []IInv
<1>1. Init => IInv
  BY InitOK
<1>2. IInv /\ [Next]_vars => IInv'
  BY StepOK
<1>3. QED  BY <1>1, <1>2, PTL DEF Spec

\* Every variable has its type.
THEOREM TypeCorrect == Spec => []TypeOK
<1>1. IInv => TypeOK
  BY DEF IInv
<1>2. QED  BY <1>1, Invariance, PTL

\* No tab presents a refresh token that it has itself had rotated.
THEOREM NoTokenIsSpentTwice == Spec => []NoTabSpendsATokenTwice
<1>1. IInv => NoTabSpendsATokenTwice
  BY DEF IInv, Safe
<1>2. QED  BY <1>1, Invariance, PTL

\* The tokens in the browser are the signed-in user's, unless a refresh was answered to
\* a tab that had moved on.
THEOREM TokensAreTheUsers == Spec => []TokensBelongToTheUser
<1>1. IInv => TokensBelongToTheUser
  BY DEF IInv, Safe
<1>2. QED  BY <1>1, Invariance, PTL

\* A call waits only while a call of its tab refreshes.
WaitersHaveARefresh ==
  \A t \in Tabs, c \in Calls : At(t, c, "waiting") => \E d \in Calls : Refreshes(t, d)

\* Nobody waits for a refresh that is over.
THEOREM NobodyWaitsForNothing == Spec => []WaitersHaveARefresh
<1>1. IInv => WaitersHaveARefresh
  BY DEF IInv, TypeOK, OneRefresh, WaitersHaveARefresh
<1>2. QED  BY <1>1, Invariance, PTL

-----------------------------------------------------------------------------
(***************************************************************************)
(* The board and the panel on it.                                          *)
(***************************************************************************)


\* What query q lacks of kind k was missed, is on its way, or is fetched when q is opened.
Waits(q, k) == \/ missed[q] # ""
               \/ unsent[k] > 0
               \/ \E i \in DOMAIN inbox : inbox[i] = k
               \/ q \notin opened /\ q \in old /\ fetch[q] = "none"

JoinsIfShown == conn /\ PageShown("board") => room # "out"

BoardInv ==
  /\ BoardTypeOK
  /\ \A k \in Kinds : unsent[k] <= db[k]
  /\ \A q \in Queries : fetch[q] = "read" => got[q] # NoData
  /\ JoinsIfShown
  /\ \A q \in Queries, k \in Kinds : Behind(q, k) => Waits(q, k)

\* The last message says that the other is typing.
Ends(messages) == messages # <<>> /\ messages[Len(messages)]

\* What the tab shows once all messages have arrived.
Said == IF sent # <<>> THEN Ends(sent) ELSE IF heard # <<>> THEN Ends(heard) ELSE typing

\* The input is set from the task as it is shown; and who has said last that they type
\* has a timer, or the message that says otherwise was lost.
PanelInv ==
  /\ PanelTypeOK
  /\ draft # NoData => draft = data["panel"]
  /\ Ends(sent) => timer
  /\ Said => timer \/ lost

-----------------------------------------------------------------------------
LEMMA NoDataIsNoVersion == NoData \notin Version
<1>1. "task" \in Kinds
  BY DEF Kinds
<1>2. DOMAIN NoData = {}
  BY DEF NoData
<1>3. QED  BY <1>1, <1>2 DEF Version

\* The numbers that versions hold.
LEMMA Versions ==
  ASSUME NEW v \in Version, NEW k \in Kinds
  PROVE  v[k] \in Nat /\ v[k] <= MaxWrites
BY MaxWritesAssumption DEF Version

LEMMA BoardInitOK == BoardInit => BoardInv
<1> SUFFICES ASSUME BoardInit  PROVE BoardInv
  OBVIOUS
<1>1. BoardTypeOK
  <2>1. [k \in Kinds |-> 0] \in Version
    BY MaxWritesAssumption DEF Version
  <2>2. inbox \in Seq(Kinds)
    <3>1. inbox = <<>>
      BY Zenon DEF BoardInit
    <3>2. QED  BY <3>1
  <2>3. db \in Version /\ unsent \in Version
    BY <2>1 DEF BoardInit
  <2>4. mine \in Kinds \cup {NoMutation} /\ conn \in BOOLEAN /\ opened \in SUBSET Queries
    BY DEF BoardInit
  <2>5. room = "out" /\ "panel" \notin opened /\ old \subseteq Queries
    BY DEF BoardInit
  <2>6. data \in [Queries -> Version \cup {NoData}] /\ got \in [Queries -> Version \cup {NoData}]
    BY DEF BoardInit
  <2>7. fetch \in [Queries -> {"none", "asked", "read"}] /\ missed \in [Queries -> Reasons \cup {""}]
    BY DEF BoardInit
  <2>8. QED  BY <2>2, <2>3, <2>4, <2>5, <2>6, <2>7 DEF BoardTypeOK
<1>2. \A q \in Queries, k \in Kinds : ~Behind(q, k)
  BY DEF BoardInit, Behind
<1>3. \A k \in Kinds : unsent[k] <= db[k]
  <2>1. db = [k \in Kinds |-> 0] /\ unsent = [k \in Kinds |-> 0]
    BY Zenon DEF BoardInit
  <2>2. QED  BY <2>1
<1>4. \A q \in Queries : fetch[q] # "read"
  BY DEF BoardInit
<1>5. JoinsIfShown
  BY DEF BoardInit, JoinsIfShown
<1>6. QED  BY <1>1, <1>2, <1>3, <1>4, <1>5 DEF BoardInv

-----------------------------------------------------------------------------
\* A step that changes the database: what is behind afterwards, or was before, waits.
LEMMA CommittedOK ==
  ASSUME BoardInv, NEW k \in Kinds, Committed(k), mine' \in Kinds \cup {NoMutation},
         UNCHANGED <<socket, cache>>
  PROVE  BoardInv'
<1>1. /\ db[k] \in Nat /\ unsent[k] \in Nat /\ unsent[k] <= db[k] /\ db["task"] \in Nat /\ db["comment"] \in Nat
      /\ db["task"] + db["comment"] < MaxWrites /\ k \in {"task", "comment"}
  BY Versions DEF BoardInv, BoardTypeOK, Committed, Kinds
<1>2. /\ db' = [db EXCEPT ![k] = db[k] + 1] /\ unsent' = [unsent EXCEPT ![k] = unsent[k] + 1]
      /\ db[k] + 1 \in 0 .. MaxWrites /\ unsent[k] + 1 \in 0 .. MaxWrites
  BY <1>1, MaxWritesAssumption DEF Committed
<1>3. db' \in Version /\ unsent' \in Version
  BY <1>2 DEF BoardInv, BoardTypeOK, Version
<1>4. BoardTypeOK'
  BY <1>3 DEF BoardInv, BoardTypeOK, socket, cache
<1>5. ASSUME NEW j \in Kinds
      PROVE  /\ unsent'[j] <= db'[j]
             /\ j = k => unsent'[j] > 0
             /\ j # k => db'[j] = db[j] /\ unsent'[j] = unsent[j]
  <2>1. /\ db \in [Kinds -> 0 .. MaxWrites] /\ unsent \in [Kinds -> 0 .. MaxWrites]
        /\ unsent[j] <= db[j]
    BY DEF BoardInv, BoardTypeOK, Version
  <2>2. CASE j = k
    BY <1>1, <1>2, <2>1, <2>2
  <2>3. CASE j # k
    BY <1>2, <2>1, <2>3
  <2>4. QED  BY <2>2, <2>3
<1>6. ASSUME NEW q \in Queries, NEW j \in Kinds, Behind(q, j)'  PROVE Waits(q, j)'
  <2>1. CASE j = k
    BY <1>5, <2>1 DEF Waits
  <2>2. CASE j # k
    BY <1>5, <1>6, <2>2 DEF BoardInv, Behind, Waits, socket, cache
  <2>3. QED  BY <2>1, <2>2
<1>7. QED  BY <1>4, <1>5, <1>6 DEF BoardInv, JoinsIfShown, PageShown, socket, cache

-----------------------------------------------------------------------------
LEMMA SameBehind ==
  ASSUME UNCHANGED <<db, data, fetch, got>>, NEW q, NEW k
  PROVE  Behind(q, k)' <=> Behind(q, k)
BY DEF Behind

\* Who is told to have missed something stays told, and who is behind is told.
LEMMA MissOK ==
  ASSUME BoardTypeOK, NEW S, NEW K, NEW why \in Reasons, Miss(S, K, why)
  PROVE  /\ missed' \in [Queries -> Reasons \cup {""}]
         /\ \A q \in Queries : missed[q] # "" => missed'[q] # ""
         /\ \A q \in Queries \cap S, k \in K : Behind(q, k) => missed'[q] # ""
<1>1. why # ""
  BY DEF Reasons
<1>2. QED  BY <1>1 DEF Miss, BoardTypeOK

\* An invalidation fetches the queries in use; the others are marked.
LEMMA InvalidateOK ==
  ASSUME BoardTypeOK, NEW S \in SUBSET Queries, Invalidate(S), UNCHANGED <<db, opened, data, got>>
  PROVE  /\ fetch' \in [Queries -> {"none", "asked", "read"}] /\ old' \subseteq Queries
         /\ old \subseteq old'
         /\ \A q \in S : q \notin opened /\ data[q] # NoData => q \in old'
         /\ \A q \in Queries : IF q \in Restarted(S) THEN fetch'[q] = "asked" ELSE fetch'[q] = fetch[q]
         /\ \A q \in Queries, k \in Kinds :
              Behind(q, k)' => Behind(q, k) /\ fetch'[q] = fetch[q] /\ q \notin Restarted(S)
<1>1. /\ fetch' = [q \in Queries |-> IF q \in Restarted(S) THEN "asked" ELSE fetch[q]]
      /\ old' = old \cup {q \in S \ opened : data[q] # NoData}
  BY DEF Invalidate
<1>2. ASSUME NEW q \in Queries, NEW k \in Kinds, Behind(q, k)'
      PROVE  Behind(q, k) /\ fetch'[q] = fetch[q] /\ q \notin Restarted(S)
  <2>1. fetch'[q] # "asked"
    BY <1>2 DEF Behind
  <2>2. fetch'[q] = fetch[q] /\ q \notin Restarted(S)
    BY <1>1, <2>1
  <2>3. QED  BY <1>2, <2>2 DEF Behind
<1>3. QED  BY <1>1, <1>2 DEF BoardTypeOK

\* The emit that reaches the tab's socket, or does not.
LEMMA EmitOK ==
  ASSUME BoardInv, NEW k \in Kinds, Emit(k)
  PROVE  BoardInv'
<1>1. /\ unsent[k] > 0 /\ unsent' = [unsent EXCEPT ![k] = unsent[k] - 1]
      /\ UNCHANGED <<db, mine, conn, room, opened, data, fetch, got, old>>
  BY DEF Emit
<1>2. /\ unsent \in [Kinds -> 0 .. MaxWrites] /\ db \in [Kinds -> 0 .. MaxWrites]
      /\ inbox \in Seq(Kinds)
  BY DEF BoardInv, BoardTypeOK, Version
<1>3. ASSUME NEW j \in Kinds
      PROVE  /\ unsent'[j] \in 0 .. MaxWrites /\ unsent'[j] <= db[j]
             /\ j # k => unsent'[j] = unsent[j]
  <2>1. unsent[j] \in Nat /\ unsent[j] <= MaxWrites /\ db[j] \in Nat /\ unsent[j] <= db[j]
    BY <1>2, MaxWritesAssumption DEF BoardInv
  <2>2. unsent'[j] = IF j = k THEN unsent[j] - 1 ELSE unsent[j]
    BY <1>1, <1>2
  <2>3. QED  BY <1>1, <2>1, <2>2, MaxWritesAssumption
<1>4. unsent' \in Version
  BY <1>1, <1>2, <1>3 DEF Version
<1>5. /\ inbox' \in Seq(Kinds) /\ missed' \in [Queries -> Reasons \cup {""}]
      /\ \A i \in DOMAIN inbox : i \in DOMAIN inbox' /\ inbox'[i] = inbox[i]
      /\ \A q \in Queries : missed[q] # "" => missed'[q] # ""
      /\ \A q \in Queries : Behind(q, k) => missed'[q] # "" \/ \E i \in DOMAIN inbox' : inbox'[i] = k
  <2>1. CASE room = "in"
    <3>1. inbox' = Append(inbox, k) /\ missed' = missed
      BY <2>1 DEF Emit
    <3>2. /\ inbox' \in Seq(Kinds)
          /\ \A i \in DOMAIN inbox : i \in DOMAIN inbox' /\ inbox'[i] = inbox[i]
      BY <1>2, <3>1
    <3>3. Len(inbox') \in DOMAIN inbox' /\ inbox'[Len(inbox')] = k
      BY <1>2, <3>1
    <3>4. missed \in [Queries -> Reasons \cup {""}]
      BY DEF BoardInv, BoardTypeOK
    <3>5. QED  BY <3>1, <3>2, <3>3, <3>4
  <2>2. CASE room # "in"
    <3> DEFINE why == IF room = "refused" THEN "refused" ELSE "away"
    <3>1. inbox' = inbox /\ Miss(Queries, {k}, why)
      BY <2>2 DEF Emit
    <3>2. why \in Reasons
      BY DEF Reasons
    <3> HIDE DEF why
    <3>3. QED  BY <1>2, <3>1, <3>2, MissOK DEF BoardInv
  <2>3. QED  BY <2>1, <2>2
<1>6. BoardTypeOK'
  BY <1>1, <1>4, <1>5 DEF BoardInv, BoardTypeOK
<1>7. ASSUME NEW q \in Queries, NEW j \in Kinds, Behind(q, j)'  PROVE Waits(q, j)'
  <2>1. Behind(q, j) /\ Waits(q, j)
    BY <1>1, <1>7, SameBehind DEF BoardInv
  <2>2. CASE j = k
    BY <1>5, <2>1, <2>2 DEF Waits
  <2>3. CASE j # k
    BY <1>1, <1>3, <1>5, <2>1, <2>3 DEF Waits
  <2>4. QED  BY <2>2, <2>3
<1>8. QED  BY <1>1, <1>3, <1>6, <1>7 DEF BoardInv, JoinsIfShown, PageShown

\* Events on their way are lost with the connection, emits with the process.
LEMMA LostOK ==
  ASSUME BoardInv, Crash \/ Disconnect
  PROVE  BoardInv'
<1>1. /\ conn' = FALSE /\ room' = "out" /\ inbox' = <<>>
      /\ UNCHANGED <<db, mine, opened, data, fetch, got, old>>
  BY DEF Crash, Disconnect, changes
<1>2. /\ unsent' \in Version /\ \A k \in Kinds : unsent'[k] <= db[k]
      /\ missed' \in [Queries -> Reasons \cup {""}]
      /\ \A q \in Queries : missed[q] # "" => missed'[q] # ""
      /\ \A q \in Queries, k \in Kinds :
           Behind(q, k) => \/ missed'[q] # "" \/ unsent'[k] > 0
                           \/ q \notin opened /\ q \in old /\ fetch[q] = "none"
  <2>1. CASE Crash
    <3>1. unsent' = [k \in Kinds |-> 0] /\ Miss(Queries, Kinds, "lost emit")
      BY <2>1 DEF Crash
    <3>2. "lost emit" \in Reasons
      BY DEF Reasons
    <3>3. unsent' \in Version /\ \A k \in Kinds : unsent'[k] <= db[k]
      <4>1. [k \in Kinds |-> 0] \in Version
        BY MaxWritesAssumption DEF Version
      <4>2. \A k \in Kinds : db[k] \in Nat
        BY Versions DEF BoardInv, BoardTypeOK
      <4>3. unsent' = [k \in Kinds |-> 0]
        BY Zenon, <3>1
      <4>4. QED  BY <4>1, <4>2, <4>3
    <3>4. QED  BY <3>1, <3>2, <3>3, MissOK DEF BoardInv
  <2>2. CASE Disconnect
    <3>1. unsent' = unsent /\ Miss(Queries, {inbox[i] : i \in DOMAIN inbox}, "away")
      BY <2>2 DEF Disconnect, changes
    <3>2. "away" \in Reasons
      BY DEF Reasons
    <3> DEFINE K == {inbox[i] : i \in DOMAIN inbox}
    <3>3. \A k \in Kinds : (\E i \in DOMAIN inbox : inbox[i] = k) => k \in K
      OBVIOUS
    <3> HIDE DEF K
    <3>4. /\ missed' \in [Queries -> Reasons \cup {""}]
          /\ \A q \in Queries : missed[q] # "" => missed'[q] # ""
          /\ \A q \in Queries, k \in K : Behind(q, k) => missed'[q] # ""
      BY <3>1, <3>2, MissOK DEF BoardInv, K
    <3>5. \A q \in Queries, k \in Kinds : Behind(q, k) => Waits(q, k)
      BY DEF BoardInv
    <3>6. QED  BY <3>1, <3>3, <3>4, <3>5 DEF BoardInv, BoardTypeOK, Waits
  <2>3. QED  BY <2>1, <2>2
<1>3. inbox' \in Seq(Kinds)
  BY <1>1
<1>4. BoardTypeOK'
  BY <1>1, <1>2, <1>3 DEF BoardInv, BoardTypeOK
<1>5. ASSUME NEW q \in Queries, NEW k \in Kinds, Behind(q, k)'  PROVE Waits(q, k)'
  <2>1. Behind(q, k)
    BY <1>1, <1>5, SameBehind
  <2>2. QED  BY <1>1, <1>2, <2>1 DEF Waits
<1>6. QED  BY <1>1, <1>2, <1>4, <1>5 DEF BoardInv, JoinsIfShown

\* The listeners: what an event is about is fetched, fetched when opened, or missed.
LEMMA DeliverOK ==
  ASSUME BoardInv, Deliver
  PROVE  BoardInv'
<1>1. /\ inbox # <<>> /\ inbox' = Tail(inbox)
      /\ UNCHANGED <<db, unsent, mine, conn, room, opened, data, got>>
  BY DEF Deliver, changes
<1>2. /\ inbox \in Seq(Kinds) /\ Head(inbox) \in Kinds /\ inbox' \in Seq(Kinds)
      /\ \A k \in Kinds : (\E i \in DOMAIN inbox : inbox[i] = k)
                             => k = Head(inbox) \/ \E i \in DOMAIN inbox' : inbox'[i] = k
  <2>1. inbox \in Seq(Kinds)
    BY DEF BoardInv, BoardTypeOK
  <2>2. Head(inbox) \in Kinds /\ inbox' \in Seq(Kinds) /\ Head(inbox) = inbox[1]
    BY <1>1, <2>1
  <2>3. ASSUME NEW i \in DOMAIN inbox, i # 1  PROVE i - 1 \in DOMAIN inbox' /\ inbox'[i - 1] = inbox[i]
    BY <1>1, <2>1, <2>3
  <2>4. QED  BY <2>1, <2>2, <2>3
<1> DEFINE e == Head(inbox)
           S == InvalidatedBy(e)
<1>3. CASE Listening
  <2>1. Hear(e, S) /\ S \in SUBSET Queries /\ "board" \in S /\ (e = "comment" => S = Queries)
    BY <1>3 DEF Deliver, InvalidatedBy, Queries
  <2>2. /\ fetch' \in [Queries -> {"none", "asked", "read"}] /\ old' \subseteq Queries
        /\ old \subseteq old'
        /\ \A q \in S : q \notin opened /\ data[q] # NoData => q \in old'
        /\ \A q \in Queries : IF q \in Restarted(S) THEN fetch'[q] = "asked" ELSE fetch'[q] = fetch[q]
        /\ \A q \in Queries, k \in Kinds :
             Behind(q, k)' => Behind(q, k) /\ fetch'[q] = fetch[q] /\ q \notin Restarted(S)
    BY <1>1, <2>1, InvalidateOK DEF BoardInv, Hear
  <2>3. missed' = [q \in Queries |->
          IF missed[q] # "" \/ ~Behind(q, e) \/ q \in Restarted(S) THEN missed[q]
          ELSE IF q = "panel" /\ e = "task" THEN "no listener"
          ELSE IF fetch[q] = "read" THEN "fetching" ELSE ""]
    BY <2>1 DEF Hear
  <2>4. missed \in [Queries -> Reasons \cup {""}]
    BY DEF BoardInv, BoardTypeOK
  <2>5. missed' \in [Queries -> Reasons \cup {""}] /\ \A q \in Queries : missed[q] # "" => missed'[q] # ""
    BY <2>3, <2>4 DEF Reasons
  <2>6. BoardTypeOK'
    BY <1>1, <1>2, <2>2, <2>5 DEF BoardInv, BoardTypeOK
  <2>7. ASSUME NEW q \in Queries, NEW k \in Kinds, Behind(q, k)'  PROVE Waits(q, k)'
    <3>1. Behind(q, k) /\ fetch'[q] = fetch[q] /\ q \notin Restarted(S) /\ Waits(q, k)
      BY <2>2, <2>7 DEF BoardInv
    <3>2. CASE k = e /\ missed[q] = "" /\ ~(q = "panel" /\ e = "task") /\ fetch[q] # "read"
      <4>1. fetch[q] = "none" /\ data[q] # NoData
        BY <3>1, <3>2 DEF BoardInv, BoardTypeOK, Behind
      <4>2. q \in S
        BY <2>1, <3>2 DEF Queries, Kinds
      <4>3. q \notin opened
        BY <3>1, <4>1, <4>2 DEF Restarted
      <4>4. QED  BY <1>1, <2>2, <3>1, <4>1, <4>2, <4>3 DEF Waits
    <3>3. CASE k = e /\ (missed[q] # "" \/ (q = "panel" /\ e = "task") \/ fetch[q] = "read")
      BY <2>3, <3>1, <3>3 DEF Waits
    <3>4. CASE k # e
      BY <1>1, <1>2, <2>2, <2>5, <3>1, <3>4 DEF Waits
    <3>5. QED  BY <3>2, <3>3, <3>4
  <2>8. \A q \in Queries : fetch'[q] = "read" => fetch[q] = "read"
    BY <2>2
  <2>9. QED  BY <1>1, <2>6, <2>7, <2>8 DEF BoardInv, JoinsIfShown, PageShown
<1>4. CASE ~Listening
  <2>1. Miss(Queries, {e}, "no listener") /\ UNCHANGED <<fetch, old>> /\ "no listener" \in Reasons
    BY <1>4 DEF Deliver, Reasons
  <2>2. /\ missed' \in [Queries -> Reasons \cup {""}]
        /\ \A q \in Queries : missed[q] # "" => missed'[q] # ""
        /\ \A q \in Queries : Behind(q, e) => missed'[q] # ""
    BY <2>1, MissOK DEF BoardInv
  <2>3. BoardTypeOK'
    BY <1>1, <1>2, <2>1, <2>2 DEF BoardInv, BoardTypeOK
  <2>4. ASSUME NEW q \in Queries, NEW k \in Kinds, Behind(q, k)'  PROVE Waits(q, k)'
    <3>1. Behind(q, k) /\ Waits(q, k)
      BY <1>1, <2>1, <2>4, SameBehind DEF BoardInv
    <3>2. QED  BY <1>1, <1>2, <2>1, <2>2, <3>1 DEF Waits
  <2>5. QED  BY <1>1, <2>1, <2>3, <2>4 DEF BoardInv, JoinsIfShown, PageShown
<1>5. QED  BY <1>3, <1>4

\* The tab's own changes, and the answers to them.
LEMMA OwnOK ==
  ASSUME BoardInv, moveTask \/ saveField \/ addComment \/ OwnAnswered \/ OwnAnswerLost
  PROVE  BoardInv'
<1>1. ASSUME NEW k \in Kinds, OwnCommit(k)  PROVE BoardInv'
  BY <1>1, CommittedOK DEF OwnCommit
<1>2. CASE OwnAnswered
  <2> DEFINE S == IF mine = "comment" THEN {"panel"} ELSE Queries
  <2>1. /\ Invalidate(S) /\ S \in SUBSET Queries /\ mine' = NoMutation
        /\ UNCHANGED <<db, unsent, conn, room, inbox, opened, data, got, missed>>
    BY <1>2 DEF OwnAnswered, Queries, changes, socket
  <2> HIDE DEF S
  <2>2. /\ fetch' \in [Queries -> {"none", "asked", "read"}] /\ old' \subseteq Queries
        /\ old \subseteq old'
        /\ \A q \in Queries : fetch'[q] = "read" => fetch[q] = "read"
        /\ \A q \in Queries, k \in Kinds : Behind(q, k)' => Behind(q, k) /\ fetch'[q] = fetch[q]
    BY <2>1, InvalidateOK DEF BoardInv
  <2>3. BoardTypeOK'
    BY <2>1, <2>2 DEF BoardInv, BoardTypeOK
  <2>4. ASSUME NEW q \in Queries, NEW k \in Kinds, Behind(q, k)'  PROVE Waits(q, k)'
    BY <2>1, <2>2, <2>4 DEF BoardInv, Waits
  <2>5. QED  BY <2>1, <2>2, <2>3, <2>4 DEF BoardInv, JoinsIfShown, PageShown
<1>3. CASE OwnAnswerLost
  <2>1. mine' = NoMutation /\ UNCHANGED <<db, unsent, conn, room, inbox, opened, data, fetch, got, old, missed>>
    BY <1>3 DEF OwnAnswerLost, changes, socket, cache
  <2>2. BoardTypeOK'
    BY <2>1 DEF BoardInv, BoardTypeOK
  <2>3. QED  BY <2>1, <2>2, SameBehind DEF BoardInv, JoinsIfShown, PageShown, Waits
<1>4. "task" \in Kinds /\ "comment" \in Kinds
  BY DEF Kinds
<1>5. QED  BY <1>1, <1>2, <1>3, <1>4 DEF moveTask, saveField, addComment

\* Connecting, joining and leaving.
LEMMA RoomOK ==
  ASSUME BoardInv, Connect \/ JoinProject \/ JoinRefused \/ ClosePanel \/ CloseBoard
  PROVE  BoardInv'
<1>1. /\ UNCHANGED <<db, unsent, mine, inbox, data, fetch, got, old, missed>>
      /\ opened' \subseteq opened /\ conn' \in BOOLEAN /\ room' \in {"out", "joining", "in", "refused"}
      /\ room' # "out" => conn'
      /\ "panel" \in opened' => "board" \in opened'
      /\ JoinsIfShown'
  <2>1. CASE Connect
    BY <2>1 DEF Connect, changes, cache, Listening, PageShown, JoinsIfShown, BoardInv, BoardTypeOK
  <2>2. CASE JoinProject \/ JoinRefused
    BY <2>2 DEF JoinProject, JoinRefused, changes, cache, PageShown, JoinsIfShown, BoardInv, BoardTypeOK
  <2>3. CASE ClosePanel
    BY <2>3 DEF ClosePanel, changes, socket, PageShown, JoinsIfShown, BoardInv, BoardTypeOK
  <2>4. CASE CloseBoard
    BY <2>4 DEF CloseBoard, leaveProject, changes, PageShown, JoinsIfShown, BoardInv, BoardTypeOK
  <2>5. QED  BY <2>1, <2>2, <2>3, <2>4
<1>2. BoardTypeOK'
  BY <1>1 DEF BoardInv, BoardTypeOK
<1>3. ASSUME NEW q \in Queries, NEW k \in Kinds, Behind(q, k)'  PROVE Waits(q, k)'
  BY <1>1, <1>3, SameBehind DEF BoardInv, Waits
<1>4. QED  BY <1>1, <1>2, <1>3 DEF BoardInv

\* A query that was invalidated meanwhile is fetched when it is opened.
LEMMA OpenOK ==
  ASSUME BoardInv, NEW q \in Queries, NEW isStale \in BOOLEAN, Open(q, isStale)
  PROVE  BoardInv'
<1> DEFINE S == IF fetch[q] = "none" /\ (isStale \/ data[q] = NoData \/ q \in old) THEN {q} ELSE {}
<1>1. /\ q \notin opened /\ opened' = opened \cup {q}
      /\ q = "panel" => "board" \in opened /\ data["board"] # NoData
      /\ fetch' = [p \in Queries |-> IF p \in S THEN "asked" ELSE fetch[p]]
      /\ UNCHANGED <<db, unsent, mine, conn, inbox, data, got, old, missed>>
  BY DEF Open, Fetched, changes
<1>2. /\ room' \in {"out", "joining", "in", "refused"} /\ (room' # "out" => conn)
      /\ room # "out" => room' # "out"
      /\ q = "board" /\ conn /\ data["board"] # NoData => room' # "out"
  BY DEF Open, JoinsAtOnce, join, BoardInv, BoardTypeOK
<1>3. BoardTypeOK'
  <2>1. opened' \in SUBSET Queries /\ ("panel" \in opened' => "board" \in opened')
    BY <1>1 DEF BoardInv, BoardTypeOK
  <2>2. fetch' \in [Queries -> {"none", "asked", "read"}]
    BY <1>1 DEF BoardInv, BoardTypeOK
  <2>3. QED  BY <1>1, <1>2, <2>1, <2>2 DEF BoardInv, BoardTypeOK
<1>4. JoinsIfShown'
  BY <1>1, <1>2 DEF BoardInv, JoinsIfShown, PageShown
<1>5. ASSUME NEW p \in Queries, NEW k \in Kinds, Behind(p, k)'  PROVE Waits(p, k)'
  <2>1. fetch'[p] = fetch[p] /\ p \notin S
    BY <1>1, <1>5 DEF Behind
  <2>2. Behind(p, k)
    BY <1>1, <1>5, <2>1 DEF Behind
  <2>3. ~(p = q /\ q \in old /\ fetch[q] = "none")
    BY <2>1
  <2>4. QED  BY <1>1, <2>1, <2>2, <2>3 DEF BoardInv, Waits
<1>6. \A p \in Queries : fetch'[p] = "read" => fetch[p] = "read"
  BY <1>1
<1>7. QED  BY <1>1, <1>3, <1>4, <1>5, <1>6 DEF BoardInv

\* A fetch reads what there is; its data replaces the old; or it fails.
LEMMA FetchOK ==
  ASSUME BoardInv, NEW q \in Queries, FetchRead(q) \/ FetchArrives(q) \/ FetchFails(q)
  PROVE  BoardInv'
<1>1. /\ db \in Version /\ data \in [Queries -> Version \cup {NoData}]
      /\ got \in [Queries -> Version \cup {NoData}] /\ old \subseteq Queries
      /\ fetch \in [Queries -> {"none", "asked", "read"}] /\ missed \in [Queries -> Reasons \cup {""}]
  BY DEF BoardInv, BoardTypeOK
<1>2. CASE FetchRead(q)
  <2>1. /\ fetch' = [fetch EXCEPT ![q] = "read"] /\ got' = [got EXCEPT ![q] = db]
        /\ missed' = [missed EXCEPT ![q] = ""]
        /\ UNCHANGED <<db, unsent, mine, conn, room, inbox, opened, data, old>>
    BY <1>2 DEF FetchRead, changes, socket
  <2>2. BoardTypeOK'
    BY <1>1, <2>1 DEF BoardInv, BoardTypeOK
  <2>3. ASSUME NEW p \in Queries, NEW k \in Kinds, Behind(p, k)'  PROVE Waits(p, k)'
    <3>1. CASE p = q
      <4>1. fetch'[q] = "read" /\ got'[q] = db /\ db' = db
        BY <1>1, <2>1
      <4>2. got'[q][k] < db'[k]
        BY <2>3, <3>1, <4>1 DEF Behind
      <4>3. db[k] \in Nat
        BY <1>1, Versions
      <4>4. db[k] < db[k]
        BY <4>1, <4>2
      <4>5. QED  BY <4>3, <4>4
    <3>2. CASE p # q
      <4>1. fetch'[p] = fetch[p] /\ got'[p] = got[p] /\ missed'[p] = missed[p]
        BY <1>1, <2>1, <3>2
      <4>2. Behind(p, k)
        BY <2>1, <2>3, <4>1 DEF Behind
      <4>3. QED  BY <2>1, <4>1, <4>2 DEF BoardInv, Waits
    <3>3. QED  BY <3>1, <3>2
  <2>4. \A p \in Queries : fetch'[p] = "read" => got'[p] # NoData
    BY <1>1, <2>1, NoDataIsNoVersion DEF BoardInv
  <2>5. QED  BY <2>1, <2>2, <2>3, <2>4 DEF BoardInv, JoinsIfShown, PageShown
<1>3. CASE FetchArrives(q)
  <2>1. /\ fetch[q] = "read" /\ fetch' = [fetch EXCEPT ![q] = "none"]
        /\ data' = [data EXCEPT ![q] = got[q]] /\ got' = [got EXCEPT ![q] = NoData]
        /\ old' = old \ {q}
        /\ UNCHANGED <<db, unsent, mine, conn, inbox, opened, missed>>
        /\ got[q] # NoData
    BY <1>3 DEF FetchArrives, changes, BoardInv
  <2>2. /\ room' \in {"out", "joining", "in", "refused"} /\ (room' # "out" => conn)
        /\ room # "out" => room' # "out"
        /\ q = "board" /\ q \in opened /\ data[q] = NoData /\ conn => room' # "out"
    BY <1>3 DEF FetchArrives, join, BoardInv, BoardTypeOK
  <2>3. BoardTypeOK'
    BY <1>1, <2>1, <2>2 DEF BoardInv, BoardTypeOK
  <2>4. JoinsIfShown'
    <3>1. CASE q = "board"
      <4>1. data[q] = NoData \/ (conn /\ "board" \in opened => room # "out")
        BY <3>1 DEF BoardInv, JoinsIfShown, PageShown
      <4>2. conn /\ "board" \in opened => room' # "out"
        BY <2>2, <3>1, <4>1
      <4>3. QED  BY <2>1, <4>2 DEF JoinsIfShown, PageShown
    <3>2. CASE q # "board"
      <4>1. data'["board"] = data["board"]
        BY <1>1, <2>1, <3>2 DEF Queries
      <4>2. PageShown("board")' <=> PageShown("board")
        BY <2>1, <4>1 DEF PageShown
      <4>3. QED  BY <2>1, <2>2, <4>2 DEF BoardInv, JoinsIfShown
    <3>3. QED  BY <3>1, <3>2
  <2>5. ASSUME NEW p \in Queries, NEW k \in Kinds, Behind(p, k)'  PROVE Waits(p, k)'
    <3>1. Behind(p, k)
      <4>1. CASE p = q
        <5>1. fetch'[q] = "none" /\ data'[q] = got[q]
          BY <1>1, <2>1
        <5>2. QED  BY <2>1, <2>5, <4>1, <5>1 DEF Behind
      <4>2. CASE p # q
        <5>1. fetch'[p] = fetch[p] /\ data'[p] = data[p] /\ got'[p] = got[p]
          BY <1>1, <2>1, <4>2
        <5>2. QED  BY <2>1, <2>5, <5>1 DEF Behind
      <4>3. QED  BY <4>1, <4>2
    <3>2. Waits(p, k)
      BY <3>1 DEF BoardInv
    <3>3. p # q => fetch'[p] = fetch[p]
      BY <1>1, <2>1
    <3>4. QED  BY <2>1, <3>2, <3>3 DEF Waits
  <2>6. \A p \in Queries : fetch'[p] = "read" => got'[p] # NoData
    BY <1>1, <2>1 DEF BoardInv
  <2>7. QED  BY <2>1, <2>3, <2>4, <2>5, <2>6 DEF BoardInv
<1>4. CASE FetchFails(q)
  <2>1. /\ fetch' = [fetch EXCEPT ![q] = "none"] /\ got' = [got EXCEPT ![q] = NoData]
        /\ old' = old \cup {p \in {q} : data[p] # NoData}
        /\ missed' = [missed EXCEPT ![q] = "fetch failed"]
        /\ UNCHANGED <<db, unsent, mine, conn, room, inbox, opened, data>>
        /\ "fetch failed" \in Reasons
    BY <1>4 DEF FetchFails, changes, socket, Reasons
  <2>2. BoardTypeOK'
    BY <1>1, <2>1 DEF BoardInv, BoardTypeOK
  <2>3. ASSUME NEW p \in Queries, NEW k \in Kinds, Behind(p, k)'  PROVE Waits(p, k)'
    <3>1. CASE p = q
      BY <1>1, <2>1, <3>1 DEF Waits
    <3>2. CASE p # q
      <4>1. fetch'[p] = fetch[p] /\ got'[p] = got[p] /\ missed'[p] = missed[p]
        BY <1>1, <2>1, <3>2
      <4>2. Behind(p, k)
        BY <2>1, <2>3, <4>1 DEF Behind
      <4>3. QED  BY <2>1, <4>1, <4>2 DEF BoardInv, Waits
    <3>3. QED  BY <3>1, <3>2
  <2>4. \A p \in Queries : fetch'[p] = "read" => got'[p] # NoData
    BY <1>1, <2>1 DEF BoardInv
  <2>5. QED  BY <2>1, <2>2, <2>3, <2>4 DEF BoardInv, JoinsIfShown, PageShown
<1>5. QED  BY <1>2, <1>3, <1>4

LEMMA BoardStepOK ==
  ASSUME BoardInv, BoardNext \/ UNCHANGED boardVars
  PROVE  BoardInv'
<1>1. ASSUME NEW k \in Kinds, Commit(k)  PROVE BoardInv'
  BY <1>1, CommittedOK DEF Commit, BoardInv, BoardTypeOK
<1>2. ASSUME NEW q \in Queries, Open(q, TRUE) \/ Open(q, FALSE)  PROVE BoardInv'
  BY <1>2, OpenOK
<1>3. CASE UNCHANGED boardVars
  <2>1. UNCHANGED <<db, unsent, mine, conn, room, inbox, opened, data, fetch, got, old, missed>>
    BY <1>3 DEF boardVars, changes, socket, cache
  <2>2. BoardTypeOK'
    BY <2>1 DEF BoardInv, BoardTypeOK
  <2>3. QED  BY <2>1, <2>2, SameBehind DEF BoardInv, JoinsIfShown, PageShown, Waits
<1>4. QED
  BY <1>1, <1>2, <1>3, EmitOK, LostOK, DeliverOK, OwnOK, RoomOK, FetchOK DEF BoardNext

-----------------------------------------------------------------------------
(***************************************************************************)
(* Messages, in order.                                                     *)
(***************************************************************************)
LEMMA LastOfAppend ==
  ASSUME NEW S, NEW m \in Seq(S), NEW x \in S
  PROVE  /\ Append(m, x) \in Seq(S) /\ Append(m, x) # <<>>
         /\ Append(m, x)[Len(Append(m, x))] = x
OBVIOUS

LEMMA LastOfTail ==
  ASSUME NEW S, NEW m \in Seq(S), m # <<>>
  PROVE  /\ Head(m) \in S /\ Tail(m) \in Seq(S)
         /\ Tail(m) = <<>> => m[Len(m)] = Head(m)
         /\ Tail(m) # <<>> => Tail(m)[Len(Tail(m))] = m[Len(m)]
<1>1. /\ Len(m) \in Nat \ {0} /\ Head(m) = m[1] /\ Head(m) \in S
      /\ Tail(m) \in Seq(S) /\ Len(Tail(m)) = Len(m) - 1
  OBVIOUS
<1>2. Tail(m) = <<>> => Len(m) = 1
  BY <1>1
<1>3. ASSUME Tail(m) # <<>>  PROVE Tail(m)[Len(Tail(m))] = m[Len(m)]
  <2>1. Len(m) - 1 \in 1 .. Len(Tail(m))
    BY <1>1, <1>3
  <2>2. \A i \in 1 .. Len(Tail(m)) : Tail(m)[i] = m[i + 1]
    BY <1>1
  <2>3. QED  BY <1>1, <2>1, <2>2
<1>4. QED  BY <1>1, <1>2, <1>3

LEMMA LastOfBoth ==
  ASSUME NEW S, NEW h \in Seq(S), NEW m \in Seq(S)
  PROVE  /\ m # <<>> => h \o m # <<>> /\ (h \o m)[Len(h \o m)] = m[Len(m)]
         /\ m = <<>> => h \o m = h
OBVIOUS

LEMMA LastIn ==
  ASSUME NEW S, NEW m \in Seq(S), m # <<>>
  PROVE  Len(m) \in DOMAIN m /\ m[Len(m)] \in S
OBVIOUS

LEMMA SaidIsShown == ASSUME PanelTypeOK  PROVE TypingIsReal <=> (Said => timer \/ lost)
<1>1. sent \in Seq(BOOLEAN) /\ heard \in Seq(BOOLEAN)
  BY DEF PanelTypeOK
<1>2. CASE sent # <<>>
  <2>1. heard \o sent # <<>> /\ (heard \o sent)[Len(heard \o sent)] = sent[Len(sent)]
    BY <1>1, <1>2, LastOfBoth
  <2>2. QED  BY Zenon, <1>2, <2>1 DEF TypingIsReal, Said, Ends
<1>3. CASE sent = <<>>
  <2>1. heard \o sent = heard
    BY <1>1, <1>3, LastOfBoth
  <2>2. QED  BY Zenon, <1>3, <2>1 DEF TypingIsReal, Said, Ends
<1>4. QED  BY <1>2, <1>3

-----------------------------------------------------------------------------
LEMMA PanelInitOK == PanelInit => PanelInv
<1> SUFFICES ASSUME PanelInit  PROVE PanelInv
  OBVIOUS
<1>1. BoardTypeOK
  BY BoardInitOK DEF PanelInit, BoardInv
<1>2. sent = <<>> /\ heard = <<>> /\ draft = NoData /\ typed = FALSE /\ lost = FALSE
  BY Zenon DEF PanelInit
<1>3. writing = FALSE /\ timer = FALSE /\ typing = FALSE
  BY Zenon DEF PanelInit
<1>4. opened = {}
  BY DEF PanelInit, BoardInit
<1>5. sent \in Seq(BOOLEAN) /\ heard \in Seq(BOOLEAN)
  BY <1>2
<1>6. PanelTypeOK
  BY Zenon, <1>1, <1>2, <1>3, <1>4, <1>5 DEF PanelTypeOK, PageShown
<1>7. QED  BY Zenon, <1>2, <1>3, <1>6 DEF PanelInv, Said, Ends

\* The input follows the task that is shown.
LEMMA DraftOK ==
  ASSUME BoardInv', PanelInv, SetDraft
  PROVE  /\ draft' \in Version \cup {NoData}
         /\ typed' \in BOOLEAN /\ (typed' => draft' # NoData)
         /\ (draft' # NoData) <=> PageShown("panel")'
         /\ draft' # NoData => draft' = data'["panel"]
<1>1. data'["panel"] \in Version \cup {NoData}
  BY DEF BoardInv, BoardTypeOK, Queries
<1>2. /\ draft \in Version \cup {NoData} /\ typed \in BOOLEAN /\ (typed => draft # NoData)
      /\ (draft # NoData) <=> PageShown("panel")
      /\ draft # NoData => draft = data["panel"]
  BY DEF PanelInv, PanelTypeOK
<1>3. CASE "panel" \notin opened' \/ data'["panel"] = NoData
  <2>1. draft' = NoData /\ typed' = FALSE
    BY <1>3 DEF SetDraft
  <2>2. QED  BY <1>3, <2>1 DEF PageShown
<1>4. CASE "panel" \in opened' /\ data'["panel"] # NoData /\ TaskChanges
  <2>1. draft' = data'["panel"] /\ typed' = FALSE
    BY <1>4 DEF SetDraft
  <2>2. QED  BY <1>1, <1>4, <2>1 DEF PageShown
<1>5. CASE "panel" \in opened' /\ data'["panel"] # NoData /\ ~TaskChanges
  <2>1. draft' = draft /\ typed' = typed
    BY <1>5 DEF SetDraft
  <2>2. data'["panel"] = data["panel"] /\ "panel" \in opened
    BY <1>5 DEF TaskChanges
  <2>3. PageShown("panel") /\ PageShown("panel")'
    BY <1>5, <2>2 DEF PageShown
  <2>4. QED  BY <1>2, <2>1, <2>2, <2>3
<1>6. QED  BY <1>3, <1>4, <1>5

\* A connection that breaks takes messages along; the page that closes, what it showed.
LEMMA HearingOK ==
  ASSUME BoardInv', PanelInv, Hearing, UNCHANGED other
  PROVE  /\ heard' \in Seq(BOOLEAN) /\ (heard' # <<>> => conn')
         /\ typing' \in BOOLEAN /\ (typing' => "board" \in opened')
         /\ lost' \in BOOLEAN
         /\ Ends(sent)' => timer'
         /\ Said' => timer' \/ lost'
<1>1. /\ sent' = sent /\ timer' = timer
      /\ sent \in Seq(BOOLEAN) /\ heard \in Seq(BOOLEAN)
      /\ Ends(sent) => timer
      /\ Said => timer \/ lost
  BY Zenon DEF PanelInv, PanelTypeOK, other
<1>2. /\ heard' = IF conn' THEN heard ELSE <<>>
      /\ typing' = (typing /\ "board" \in opened')
      /\ lost' = /\ lost \/ (~conn' /\ Stops(heard))
                 /\ "board" \in opened' \/ heard' # <<>>
  BY Zenon DEF Hearing
<1>3. heard' \in Seq(BOOLEAN) /\ (heard' # <<>> => conn' /\ heard' = heard)
  <2>1. <<>> \in Seq(BOOLEAN)
    OBVIOUS
  <2>2. QED  BY Zenon, <1>1, <1>2, <2>1
<1>4. typing' \in BOOLEAN /\ (typing' => typing /\ "board" \in opened')
  BY Zenon, <1>2
<1>5. lost' \in BOOLEAN
  BY Zenon, <1>2
<1>6. Ends(sent)' <=> Ends(sent)
  BY Zenon, <1>1 DEF Ends
<1>7. ASSUME Said'  PROVE timer' \/ lost'
  <2>1. CASE sent # <<>>
    BY Zenon, <1>1, <1>6, <1>7, <2>1 DEF Said
  <2>2. CASE sent = <<>> /\ heard' # <<>>
    <3>1. Said
      BY Zenon, <1>1, <1>3, <1>7, <2>2 DEF Said, Ends
    <3>2. lost => lost'
      BY Zenon, <1>2, <2>2
    <3>3. QED  BY Zenon, <1>1, <3>1, <3>2
  <2>3. CASE sent = <<>> /\ heard' = <<>> /\ heard = <<>>
    <3>1. typing'
      BY Zenon, <1>1, <1>7, <2>3 DEF Said
    <3>2. Said /\ (lost => lost')
      BY Zenon, <1>2, <1>4, <2>3, <3>1 DEF Said
    <3>3. QED  BY Zenon, <1>1, <3>2
  <2>4. CASE sent = <<>> /\ heard' = <<>> /\ heard # <<>>
    <3>1. typing'
      BY Zenon, <1>1, <1>7, <2>4 DEF Said
    <3>2. "board" \in opened' /\ ~conn'
      BY Zenon, <1>2, <1>4, <2>4, <3>1
    <3>3. CASE heard[Len(heard)]
      <4>1. Said
        BY Zenon, <2>4, <3>3 DEF Said, Ends
      <4>2. QED  BY Zenon, <1>1, <1>2, <3>2, <4>1
    <3>4. CASE ~heard[Len(heard)]
      <4>1. Len(heard) \in DOMAIN heard
        BY <1>1, <2>4, LastIn
      <4>2. Stops(heard)
        BY Zenon, <3>4, <4>1 DEF Stops
      <4>3. QED  BY Zenon, <1>2, <3>2, <4>2
    <3>5. QED  BY Zenon, <3>3, <3>4
  <2>5. QED  BY Zenon, <2>1, <2>2, <2>3, <2>4
<1>8. QED  BY Zenon, <1>1, <1>2, <1>3, <1>4, <1>5, <1>6, <1>7

LEMMA AroundOK ==
  ASSUME BoardInv, PanelInv, Around(BoardNext)
  PROVE  BoardInv' /\ PanelInv'
<1>1. BoardInv' /\ SetDraft /\ Hearing /\ UNCHANGED other
  BY BoardStepOK DEF Around
<1>2. BoardTypeOK'
  BY <1>1 DEF BoardInv
<1>3. writing' \in BOOLEAN /\ timer' \in BOOLEAN /\ sent' \in Seq(BOOLEAN)
  BY Zenon, <1>1 DEF PanelInv, PanelTypeOK, other
<1>4. PanelTypeOK'
  BY Zenon, <1>1, <1>2, <1>3, DraftOK, HearingOK DEF PanelTypeOK
<1>5. QED  BY Zenon, <1>1, <1>4, DraftOK, HearingOK DEF PanelInv

\* The steps that leave the tab's data and its input alone.
LEMMA MessagesOK ==
  ASSUME PanelInv, UNCHANGED <<boardVars, draft>>,
         typed' \in BOOLEAN, typed' => draft # NoData,
         writing' \in BOOLEAN, timer' \in BOOLEAN, typing' \in BOOLEAN, lost' \in BOOLEAN,
         sent' \in Seq(BOOLEAN), heard' \in Seq(BOOLEAN),
         heard' # <<>> => conn, typing' => "board" \in opened,
         Ends(sent)' => timer', Said' => timer' \/ lost'
  PROVE  PanelInv'
<1>1. UNCHANGED <<data, opened, conn>> /\ BoardTypeOK' /\ draft' = draft
  <2>1. UNCHANGED <<data, opened, conn, draft>>
    BY Zenon DEF boardVars, socket, cache
  <2>2. BoardTypeOK'
    BY Zenon DEF PanelInv, PanelTypeOK, BoardTypeOK, boardVars, changes, socket, cache
  <2>3. QED  BY Zenon, <2>1, <2>2
<1>2. PageShown("panel")' <=> PageShown("panel")
  BY Zenon, <1>1 DEF PageShown
<1>3. /\ draft \in Version \cup {NoData}
      /\ (draft # NoData) <=> PageShown("panel")
      /\ draft # NoData => draft = data["panel"]
  BY Zenon DEF PanelInv, PanelTypeOK
<1>4. PanelTypeOK'
  BY Zenon, <1>1, <1>2, <1>3 DEF PanelTypeOK
<1>5. QED  BY Zenon, <1>1, <1>3, <1>4 DEF PanelInv

LEMMA OtherOK ==
  ASSUME PanelInv, OtherTypes
  PROVE  PanelInv'
<1>1. /\ UNCHANGED <<boardVars, draft, typed, heard, typing>>
      /\ typed' \in BOOLEAN /\ (typed' => draft # NoData)
      /\ heard' \in Seq(BOOLEAN) /\ (heard' # <<>> => conn)
      /\ typing' \in BOOLEAN /\ (typing' => "board" \in opened)
  <2>1. UNCHANGED <<boardVars, draft, typed, heard, typing>>
    BY Zenon DEF OtherTypes, OtherOpens, onCommentChange, TimerFires, submitComment,
                 OtherCloses, OtherDisconnects, here
  <2>2. QED  BY Zenon, <2>1 DEF PanelInv, PanelTypeOK
<1>2. /\ writing \in BOOLEAN /\ timer \in BOOLEAN /\ lost \in BOOLEAN
      /\ sent \in Seq(BOOLEAN) /\ heard \in Seq(BOOLEAN)
      /\ (Ends(sent) => timer) /\ (Said => timer \/ lost)
  BY Zenon DEF PanelInv, PanelTypeOK
<1>3. ASSUME writing' \in BOOLEAN, timer' \in BOOLEAN, lost' \in BOOLEAN, sent' \in Seq(BOOLEAN),
             Ends(sent)' => timer', Said' => timer' \/ lost'
      PROVE  PanelInv'
  BY Zenon, <1>1, <1>3, MessagesOK
<1>4. ASSUME NEW x \in BOOLEAN, emitTyping(x), timer' \in BOOLEAN, x => timer',
             UNCHANGED <<writing, lost>>
      PROVE  PanelInv'
  <2>1. sent' = Append(sent, x)
    BY Zenon, <1>4 DEF emitTyping
  <2>2. sent' \in Seq(BOOLEAN) /\ sent' # <<>> /\ sent'[Len(sent')] = x
    <3>1. /\ Append(sent, x) \in Seq(BOOLEAN) /\ Append(sent, x) # <<>>
          /\ Append(sent, x)[Len(Append(sent, x))] = x
      <4>1. x \in BOOLEAN /\ sent \in Seq(BOOLEAN)
        BY Zenon, <1>2, <1>4
      <4>2. QED  BY Zenon, <4>1, LastOfAppend
    <3>2. QED  BY Zenon, <2>1, <3>1
  <2>3. Ends(sent)' => timer'
    BY Zenon, <1>4, <2>2 DEF Ends
  <2>4. Said' => timer'
    BY Zenon, <2>2, <2>3 DEF Said
  <2>5. QED  BY Zenon, <1>2, <1>3, <1>4, <2>2, <2>3, <2>4
<1>5. ASSUME sent' = sent
      PROVE  (Ends(sent)' <=> Ends(sent)) /\ (Said' <=> Said)
  BY Zenon, <1>1, <1>5 DEF Ends, Said
<1>6. CASE OtherOpens
  <2>1. writing' = TRUE /\ timer' = timer /\ sent' = sent /\ lost' = lost
    BY Zenon, <1>6 DEF OtherOpens
  <2>2. QED  BY Zenon, <1>2, <1>3, <1>5, <2>1
<1>7. CASE onCommentChange
  <2>1. emitTyping(TRUE) /\ timer' = TRUE /\ UNCHANGED <<writing, lost>>
    BY Zenon, <1>7 DEF onCommentChange
  <2>2. QED  BY Zenon, <1>4, <2>1
<1>8. CASE TimerFires
  <2>1. emitTyping(FALSE) /\ timer' = FALSE /\ UNCHANGED <<writing, lost>>
    BY Zenon, <1>8 DEF TimerFires
  <2>2. QED  BY Zenon, <1>4, <2>1
<1>9. CASE submitComment
  <2>1. emitTyping(FALSE) /\ timer' = timer /\ UNCHANGED <<writing, lost>>
    BY Zenon, <1>9 DEF submitComment
  <2>2. QED  BY Zenon, <1>2, <1>4, <2>1
<1>10. CASE OtherCloses
  <2>1. writing' = FALSE /\ timer' = timer /\ sent' = sent /\ lost' = lost
    BY Zenon, <1>10 DEF OtherCloses, TimerKept
  <2>2. QED  BY Zenon, <1>2, <1>3, <1>5, <2>1
<1>11. ASSUME NEW gone \in BOOLEAN, OtherDisconnects(gone)  PROVE PanelInv'
  <2>1. /\ sent' = <<>> /\ timer' = (timer /\ ~gone) /\ writing' = (writing /\ ~gone)
        /\ lost' = (lost \/ Stops(sent) \/ (gone /\ timer))
    BY Zenon, <1>11 DEF OtherDisconnects
  <2>2. writing' \in BOOLEAN /\ timer' \in BOOLEAN /\ lost' \in BOOLEAN
    BY Zenon, <2>1
  <2>3. sent' \in Seq(BOOLEAN)
    BY <2>1
  <2>4. ~Ends(sent)'
    BY Zenon, <2>1 DEF Ends
  <2>5. timer \/ lost => timer' \/ lost'
    BY Zenon, <2>1
  <2>6. ASSUME Said'  PROVE timer' \/ lost'
    <3>1. CASE sent = <<>>
      <4>1. Said
        BY Zenon, <1>5, <2>1, <2>6, <3>1
      <4>2. QED  BY Zenon, <1>2, <2>5, <4>1
    <3>2. CASE Ends(sent)
      BY Zenon, <1>2, <2>5, <3>2
    <3>3. CASE sent # <<>> /\ ~sent[Len(sent)]
      <4>1. Len(sent) \in DOMAIN sent
        BY <1>2, <3>3, LastIn
      <4>2. Stops(sent)
        BY Zenon, <3>3, <4>1 DEF Stops
      <4>3. QED  BY Zenon, <2>1, <4>2
    <3>4. QED  BY Zenon, <3>1, <3>2, <3>3 DEF Ends
  <2>7. QED  BY Zenon, <1>3, <2>2, <2>3, <2>4, <2>6
<1>12. QED  BY Zenon, <1>6, <1>7, <1>8, <1>9, <1>10, <1>11 DEF OtherTypes

\* The gateway passes a message on, or has nobody to pass it on to.
LEMMA RelayOK ==
  ASSUME BoardInv, PanelInv, Relay
  PROVE  PanelInv'
<1>1. /\ sent # <<>> /\ sent' = Tail(sent)
      /\ heard' = IF room = "in" THEN Append(heard, Head(sent)) ELSE heard
      /\ lost' = (lost \/ (room # "in" /\ ~Head(sent)))
      /\ UNCHANGED <<boardVars, draft, typed, writing, timer, typing>>
  BY Zenon DEF Relay
<1>2. /\ writing \in BOOLEAN /\ timer \in BOOLEAN /\ lost \in BOOLEAN
      /\ typed \in BOOLEAN /\ (typed => draft # NoData)
      /\ sent \in Seq(BOOLEAN) /\ heard \in Seq(BOOLEAN) /\ (heard # <<>> => conn)
      /\ typing \in BOOLEAN /\ (typing => "board" \in opened)
      /\ (Ends(sent) => timer) /\ (Said => timer \/ lost)
  BY Zenon DEF PanelInv, PanelTypeOK
<1>3. /\ Head(sent) \in BOOLEAN /\ sent' \in Seq(BOOLEAN)
      /\ sent' = <<>> => sent[Len(sent)] = Head(sent)
      /\ sent' # <<>> => sent'[Len(sent')] = sent[Len(sent)]
  BY Zenon, <1>1, <1>2, LastOfTail
<1>4. heard' \in Seq(BOOLEAN) /\ (heard' # <<>> => conn)
  <2>1. CASE room = "in"
    <3>1. conn
      BY <2>1 DEF BoardInv, BoardTypeOK
    <3>2. QED  BY Zenon, <1>1, <1>2, <1>3, <2>1, <3>1, LastOfAppend
  <2>2. CASE room # "in"
    BY Zenon, <1>1, <1>2, <2>2
  <2>3. QED  BY Zenon, <2>1, <2>2
<1>5. lost' \in BOOLEAN /\ (lost => lost')
  BY Zenon, <1>1
<1>6. Ends(sent)' => Ends(sent)
  BY Zenon, <1>1, <1>3 DEF Ends
<1>7. ASSUME Said'  PROVE timer' \/ lost'
  <2>1. CASE Ends(sent)
    BY Zenon, <1>1, <1>2, <2>1
  <2>2. CASE sent' # <<>>
    BY Zenon, <1>1, <1>2, <1>6, <1>7, <2>2 DEF Said
  <2>3. CASE sent' = <<>> /\ ~Ends(sent) /\ room # "in"
    <3>1. ~Head(sent)
      BY Zenon, <1>1, <1>3, <2>3 DEF Ends
    <3>2. QED  BY Zenon, <1>1, <2>3, <3>1
  <2>4. CASE sent' = <<>> /\ ~Ends(sent) /\ room = "in"
    <3>1. ~Head(sent)
      BY Zenon, <1>1, <1>3, <2>4 DEF Ends
    <3>2. heard' # <<>> /\ heard'[Len(heard')] = Head(sent)
      BY Zenon, <1>1, <1>2, <1>3, <2>4, LastOfAppend
    <3>3. QED  BY Zenon, <1>7, <2>4, <3>1, <3>2 DEF Said, Ends
  <2>5. QED  BY Zenon, <2>1, <2>2, <2>3, <2>4
<1>8. Ends(sent)' => timer'
  BY Zenon, <1>1, <1>2, <1>6
<1>9. typed' \in BOOLEAN /\ (typed' => draft # NoData) /\ writing' \in BOOLEAN /\ timer' \in BOOLEAN
      /\ typing' \in BOOLEAN /\ (typing' => "board" \in opened)
  BY Zenon, <1>1, <1>2
<1>10. QED  BY Zenon, <1>1, <1>3, <1>4, <1>5, <1>7, <1>8, <1>9, MessagesOK

\* The tab shows what the message says; a board that is closed shows nothing.
LEMMA onTypingOK ==
  ASSUME PanelInv, onTyping
  PROVE  PanelInv'
<1>1. /\ heard # <<>> /\ heard' = Tail(heard)
      /\ typing' = (Listening /\ Head(heard))
      /\ lost' = (lost /\ (Listening \/ heard' # <<>>))
      /\ UNCHANGED <<boardVars, draft, typed, writing, timer, sent>>
  BY Zenon DEF onTyping, other
<1>2. /\ writing \in BOOLEAN /\ timer \in BOOLEAN /\ lost \in BOOLEAN
      /\ typed \in BOOLEAN /\ (typed => draft # NoData)
      /\ sent \in Seq(BOOLEAN) /\ heard \in Seq(BOOLEAN) /\ (heard # <<>> => conn)
      /\ (Ends(sent) => timer) /\ (Said => timer \/ lost)
  BY Zenon DEF PanelInv, PanelTypeOK
<1>3. /\ heard' \in Seq(BOOLEAN)
      /\ heard' = <<>> => heard[Len(heard)] = Head(heard)
      /\ heard' # <<>> => heard'[Len(heard')] = heard[Len(heard)]
  BY Zenon, <1>1, <1>2, LastOfTail
<1>4. typing' \in BOOLEAN /\ (typing' => "board" \in opened) /\ lost' \in BOOLEAN
  BY Zenon, <1>1 DEF Listening
<1>5. Ends(sent)' <=> Ends(sent)
  BY Zenon, <1>1 DEF Ends
<1>6. ASSUME Said'  PROVE timer' \/ lost'
  <2>1. CASE sent # <<>>
    BY Zenon, <1>1, <1>2, <1>5, <1>6, <2>1 DEF Said
  <2>2. CASE sent = <<>> /\ heard' # <<>>
    <3>1. Said /\ (lost => lost')
      BY Zenon, <1>1, <1>3, <1>6, <2>2 DEF Said, Ends
    <3>2. QED  BY Zenon, <1>1, <1>2, <3>1
  <2>3. CASE sent = <<>> /\ heard' = <<>>
    <3>1. typing'
      BY Zenon, <1>1, <1>6, <2>3 DEF Said
    <3>2. Listening /\ Said /\ (lost => lost')
      BY Zenon, <1>1, <1>3, <2>3, <3>1 DEF Said, Ends
    <3>3. QED  BY Zenon, <1>1, <1>2, <3>2
  <2>4. QED  BY Zenon, <2>1, <2>2, <2>3
<1>7. /\ typed' \in BOOLEAN /\ (typed' => draft # NoData) /\ writing' \in BOOLEAN /\ timer' \in BOOLEAN
      /\ sent' \in Seq(BOOLEAN) /\ (heard' # <<>> => conn) /\ (Ends(sent)' => timer')
  BY Zenon, <1>1, <1>2, <1>5
<1>8. QED  BY Zenon, <1>1, <1>3, <1>4, <1>6, <1>7, MessagesOK

LEMMA PanelStepOK ==
  ASSUME BoardInv, PanelInv, [PanelNext]_panel
  PROVE  BoardInv' /\ PanelInv'
<1>1. CASE Around(BoardNext)
  BY <1>1, AroundOK
<1>2. CASE Blur
  <2>1. Around(BoardNext)
    BY <1>2 DEF Blur, Around, BoardNext
  <2>2. QED  BY <2>1, AroundOK
<1>3. CASE UNCHANGED boardVars /\ PanelInv'
  BY <1>3, BoardStepOK
<1>4. CASE Type
  <2>1. /\ UNCHANGED <<boardVars, draft, writing, timer, sent, heard, typing, lost>>
        /\ draft # NoData /\ typed' = TRUE
    BY Zenon, <1>4 DEF Type, other
  <2>2. (Ends(sent)' <=> Ends(sent)) /\ (Said' <=> Said)
    BY Zenon, <2>1 DEF Ends, Said
  <2>3. PanelInv'
    BY Zenon, <2>1, <2>2, MessagesOK DEF PanelInv, PanelTypeOK
  <2>4. QED  BY Zenon, <1>3, <2>1, <2>3
<1>5. CASE OtherTypes
  <2>1. UNCHANGED boardVars
    BY Zenon, <1>5 DEF OtherTypes, OtherOpens, onCommentChange, TimerFires, submitComment,
                       OtherCloses, OtherDisconnects, here
  <2>2. QED  BY <1>3, <1>5, <2>1, OtherOK
<1>6. CASE Relay
  <2>1. UNCHANGED boardVars
    BY Zenon, <1>6 DEF Relay
  <2>2. QED  BY <1>3, <1>6, <2>1, RelayOK
<1>7. CASE onTyping
  <2>1. UNCHANGED boardVars
    BY Zenon, <1>7 DEF onTyping
  <2>2. QED  BY <1>3, <1>7, <2>1, onTypingOK
<1>8. CASE UNCHANGED panel
  <2>1. UNCHANGED <<boardVars, draft, typed, writing, timer, sent, heard, typing, lost>>
    BY Zenon, <1>8 DEF panel, panelVars, other
  <2>2. (Ends(sent)' <=> Ends(sent)) /\ (Said' <=> Said)
    BY Zenon, <2>1 DEF Ends, Said
  <2>3. PanelInv'
    BY Zenon, <2>1, <2>2, MessagesOK DEF PanelInv, PanelTypeOK
  <2>4. QED  BY Zenon, <1>3, <2>1, <2>3
<1>9. QED  BY Zenon, <1>1, <1>2, <1>4, <1>5, <1>6, <1>7, <1>8 DEF PanelNext

-----------------------------------------------------------------------------
(***************************************************************************)
(* Theorems                                                                *)
(***************************************************************************)

\* What a tab lacks waits somewhere or was missed, the input follows the task, and who is
\* said to type has a timer: in every state, whatever the other users and the connections
\* do between the steps of the tab.
THEOREM PanelInvariance == PanelSpec => [](BoardInv /\ PanelInv)
<1>1. PanelInit => BoardInv /\ PanelInv
  BY BoardInitOK, PanelInitOK DEF PanelInit
<1>2. (BoardInv /\ PanelInv) /\ [PanelNext]_panel => (BoardInv /\ PanelInv)'
  BY PanelStepOK
<1>3. QED  BY <1>1, <1>2, PTL DEF PanelSpec

\* The tab's state keeps its type, and there is an input while there is a panel to show.
THEOREM PanelTypeCorrect == PanelSpec => []PanelTypeOK
<1>1. PanelInv => PanelTypeOK
  BY DEF PanelInv
<1>2. QED  BY <1>1, PanelInvariance, PTL

\* What an open board or panel does not show is on its way to it, as an emit to come, an
\* event or a fetch, or was missed for a reason on the list; and a connected board that
\* is shown has asked to join its project's room.
THEOREM WhatIsMissingHasAReason == PanelSpec => []BehindForAReason
<1>1. BoardInv => BehindForAReason
  <2> SUFFICES ASSUME BoardInv  PROVE BehindForAReason
    OBVIOUS
  <2>1. conn /\ PageShown("board") => room # "out"
    BY DEF BoardInv, JoinsIfShown
  <2>2. ASSUME NEW q \in opened, NEW k \in Kinds, Behind(q, k)
        PROVE  \/ missed[q] # ""
               \/ \E j \in Shows(q) : unsent[j] > 0 \/ \E i \in DOMAIN inbox : inbox[i] = j
    <3>1. q \in Queries
      BY DEF BoardInv, BoardTypeOK
    <3>2. Waits(q, k) /\ k \in Shows(q)
      BY <2>2, <3>1 DEF BoardInv, Behind
    <3>3. QED  BY <3>2 DEF Waits
  <2>3. QED  BY <2>1, <2>2 DEF BehindForAReason
<1>2. QED  BY <1>1, PanelInvariance, PTL

\* Leaving the title's input saves no title that nobody typed: whatever others changed in
\* the task since the panel was opened, the input holds the task as it is shown.
THEOREM SavedTextIsTyped == PanelSpec => []SavedTextWasTyped
<1>1. PanelInv => SavedTextWasTyped
  BY DEF PanelInv, SavedTextWasTyped, Differs
<1>2. QED  BY <1>1, PanelInvariance, PTL

\* Once all messages have arrived, a tab shows another user as typing only while that
\* user's timer runs, unless the message that ends it was lost with a connection.
THEOREM TypingEnds == PanelSpec => []TypingIsReal
<1>1. PanelInv => TypingIsReal
  BY SaidIsShown DEF PanelInv
<1>2. QED  BY <1>1, PanelInvariance, PTL
=============================================================================
