--------------------------- MODULE PresenceProofs ---------------------------
(***************************************************************************)
(* Proofs about Presence, for any number of users, tabs and handlers: the  *)
(* counts, the fields at zero and the expiry.  Each of the three is        *)
(* preserved by every step once it is known that a field which is not      *)
(* there counts for 0 and that a handler whose socket is not `gone` has it *)
(* connected (`Sane`).  What the pages show comes last: the order of a     *)
(* tab's messages, and of the handlers they start, is what it rests on.    *)
(***************************************************************************)
EXTENDS Presence, FiniteSetTheorems, TLAPS

\* Fields that are not there count for 0, and handlers know when their socket is gone.
Sane ==
  /\ \A u \in Users : u \notin listed => count[u] = 0
  /\ \A r \in Ops : op[r] # Idle /\ ~op[r].gone => op[r].s \in conn

IInv ==
  /\ TypeOK
  /\ Sane
  /\ MiscountsHaveAReason
  /\ NobodyIsListedAtZero
  /\ LeaksExpire

-----------------------------------------------------------------------------
\* A slot that is not idle has a handler.
LEMMA AtWork ==
  ASSUME TypeOK, NEW r \in Ops, op[r] # Idle \/ op[r].at # "idle"
  PROVE  /\ op[r] # Idle /\ op[r] \in Handling
         /\ op[r].s \in Sockets /\ Of(r) \in Users /\ op[r].gone \in BOOLEAN
<1>1. op[r] \in Handling /\ op[r] # Idle
  BY DEF TypeOK, Idle, Handling
<1>2. QED  BY <1>1 DEF TypeOK, Handling, Of

\* What Goto does to a slot at work, and what it leaves alone.
LEMMA Moved ==
  ASSUME TypeOK, NEW r \in Ops, op[r].at # "idle", NEW at \in {"join.check", "join.room", "remove.del", "expire", "broadcast"},
         Goto(r, at), userOf' = userOf
  PROVE  /\ op' \in [Ops -> {Idle} \cup Handling]
         /\ op'[r] # Idle /\ op'[r].at = at /\ op'[r].s = op[r].s /\ op'[r].gone = op[r].gone
         /\ Of(r)' = Of(r)
         /\ \A q \in Ops : q # r => op'[q] = op[q] /\ Of(q)' = Of(q)
<1>1. op[r] \in Handling
  BY AtWork
<1>2. op' = [op EXCEPT ![r] = [op[r] EXCEPT !.at = at]]
  BY DEF Goto
<1>3. /\ [op[r] EXCEPT !.at = at] \in Handling
      /\ [op[r] EXCEPT !.at = at].at = at
      /\ [op[r] EXCEPT !.at = at].s = op[r].s
      /\ [op[r] EXCEPT !.at = at].gone = op[r].gone
  BY <1>1 DEF Handling
<1>4. op'[r] = [op[r] EXCEPT !.at = at] /\ \A q \in Ops : q # r => op'[q] = op[q]
  BY <1>2 DEF TypeOK
<1>5. op' \in [Ops -> {Idle} \cup Handling]
  BY <1>2, <1>3 DEF TypeOK
<1>6. op'[r] # Idle
  BY <1>3, <1>4 DEF Idle, Handling
<1>7. QED  BY <1>3, <1>4, <1>5, <1>6 DEF Of

\* What the end of a handler leaves alone.
LEMMA Finished ==
  ASSUME TypeOK, NEW r \in Ops, Finish(r), userOf' = userOf
  PROVE  /\ op' \in [Ops -> {Idle} \cup Handling]
         /\ op'[r] = Idle
         /\ \A q \in Ops : q # r => op'[q] = op[q] /\ Of(q)' = Of(q)
BY DEF Finish, TypeOK, Of

\* A socket more in the room is one more of its user's, and of nobody else's.
LEMMA OneMore ==
  ASSUME TypeOK, NEW s \in Sockets, s \notin joined, joined' = joined \cup {s},
         userOf' = userOf
  PROVE  \A u \in Users : Cardinality(JoinedOf(u)') =
           IF u = userOf[s] THEN Cardinality(JoinedOf(u)) + 1 ELSE Cardinality(JoinedOf(u))
<1> SUFFICES ASSUME NEW u \in Users
             PROVE  Cardinality(JoinedOf(u)') =
                      IF u = userOf[s] THEN Cardinality(JoinedOf(u)) + 1
                      ELSE Cardinality(JoinedOf(u))
  OBVIOUS
<1>1. IsFiniteSet(JoinedOf(u))
  BY FS_Subset, SocketsAssumption DEF JoinedOf, TypeOK
<1>2. CASE u = userOf[s]
  <2>1. JoinedOf(u)' = JoinedOf(u) \cup {s} /\ s \notin JoinedOf(u)
    BY <1>2 DEF JoinedOf
  <2>2. QED  BY <1>1, <1>2, <2>1, FS_AddElement
<1>3. CASE u # userOf[s]
  <2>1. JoinedOf(u)' = JoinedOf(u)
    BY <1>3 DEF JoinedOf
  <2>2. QED  BY <1>3, <2>1
<1>4. QED  BY <1>2, <1>3

\* A socket less.
LEMMA OneLess ==
  ASSUME TypeOK, NEW s \in joined, joined' = joined \ {s}, userOf' = userOf
  PROVE  \A u \in Users : Cardinality(JoinedOf(u)') =
           IF u = userOf[s] THEN Cardinality(JoinedOf(u)) - 1 ELSE Cardinality(JoinedOf(u))
<1> SUFFICES ASSUME NEW u \in Users
             PROVE  Cardinality(JoinedOf(u)') =
                      IF u = userOf[s] THEN Cardinality(JoinedOf(u)) - 1
                      ELSE Cardinality(JoinedOf(u))
  OBVIOUS
<1>1. IsFiniteSet(JoinedOf(u))
  BY FS_Subset, SocketsAssumption DEF JoinedOf, TypeOK
<1>2. CASE u = userOf[s]
  <2>1. JoinedOf(u)' = JoinedOf(u) \ {s} /\ s \in JoinedOf(u)
    BY <1>2 DEF JoinedOf
  <2>2. QED  BY <1>1, <1>2, <2>1, FS_RemoveElement
<1>3. CASE u # userOf[s]
  <2>1. JoinedOf(u)' = JoinedOf(u)
    BY <1>3 DEF JoinedOf
  <2>2. QED  BY <1>3, <2>1
<1>4. QED  BY <1>2, <1>3

\* Counts of sockets are natural numbers.
LEMMA CountsAreNatural ==
  ASSUME TypeOK, NEW u \in Users
  PROVE  Cardinality(JoinedOf(u)) \in Nat
BY FS_Subset, FS_CardinalityType, SocketsAssumption DEF JoinedOf, TypeOK

\* Nobody is online at first.
LEMMA InitOK == Init => IInv
<1> SUFFICES ASSUME Init  PROVE IInv
  OBVIOUS
<1>1. TypeOK
  <2>1. <<>> \in Seq({"join", "leave"})
    OBVIOUS
  <2>2. mail \in [Sockets -> Seq({"join", "leave"})]
    BY <2>1 DEF Init
  <2>3. op \in [Ops -> {Idle} \cup Handling] /\ count \in [Users -> Int]
    BY DEF Init
  <2>4. seen \in [Sockets -> SUBSET Users]
    BY DEF Init
  <2>5. QED  BY <2>2, <2>3, <2>4 DEF Init, TypeOK
<1>2. Sane /\ NobodyIsListedAtZero /\ LeaksExpire
  BY DEF Init, Sane, NobodyIsListedAtZero, LeaksExpire
<1>3. MiscountsHaveAReason
  BY FS_EmptySet DEF Init, MiscountsHaveAReason, JoinedOf
<1>4. QED  BY <1>1, <1>2, <1>3 DEF IInv

-----------------------------------------------------------------------------
\* The steps of a tab leave the hash and the room alone.
LEMMA TabOK ==
  ASSUME IInv, NEW s \in Sockets, Connect(s) \/ Mount(s) \/ Unmount(s), userOf' = userOf
  PROVE  IInv'
<1>1. /\ UNCHANGED <<members, joined, hash, op, why>>
      /\ conn \subseteq conn' /\ conn' \subseteq Sockets /\ shows' \subseteq Sockets
  BY DEF Connect, Mount, Unmount, IInv, TypeOK
<1>2. seen' \in [Sockets -> SUBSET Users]
  BY DEF Connect, Mount, Unmount, IInv, TypeOK
<1>3. mail' \in [Sockets -> Seq({"join", "leave"})]
  <2>1. mail \in [Sockets -> Seq({"join", "leave"})]
    BY DEF IInv, TypeOK
  <2>2. /\ mail[s] \o JoinsOnConnect(s) \in Seq({"join", "leave"})
        /\ Append(mail[s], "join") \in Seq({"join", "leave"})
        /\ Append(mail[s], "leave") \in Seq({"join", "leave"})
    <3>1. <<>> \in Seq({"join", "leave"}) /\ <<"join">> \in Seq({"join", "leave"})
      OBVIOUS
    <3>2. JoinsOnConnect(s) \in Seq({"join", "leave"}) /\ mail[s] \in Seq({"join", "leave"})
      BY <2>1, <3>1 DEF JoinsOnConnect
    <3>3. mail[s] \o JoinsOnConnect(s) \in Seq({"join", "leave"})
      BY <3>2
    <3>4. QED  BY <3>2, <3>3
  <2>3. \/ mail' = mail
        \/ \E m \in Seq({"join", "leave"}) : mail' = [mail EXCEPT ![s] = m]
    BY <2>2 DEF Connect, Mount, Unmount
  <2>4. QED  BY <2>1, <2>3
<1>4. TypeOK'
  BY <1>1, <1>2, <1>3 DEF IInv, TypeOK, hash
<1>5. Sane'
  BY <1>1 DEF IInv, TypeOK, Sane, hash
<1>6. MiscountsHaveAReason' /\ NobodyIsListedAtZero' /\ LeaksExpire'
  BY <1>1 DEF IInv, MiscountsHaveAReason, NobodyIsListedAtZero, LeaksExpire, hash, JoinedOf, Of
<1>7. QED  BY <1>4, <1>5, <1>6 DEF IInv

\* A handler that starts: its socket is connected, and no message is of another kind.
LEMMA JoinReceivedOK ==
  ASSUME IInv, NEW r \in Ops, NEW s \in Sockets, JoinReceived(r, s), userOf' = userOf
  PROVE  IInv'
<1>1. /\ op[r] = Idle /\ s \in conn
      /\ mail' = [mail EXCEPT ![s] = Tail(@)] /\ mail[s] # <<>>
      /\ op' = [op EXCEPT ![r] = [at |-> "join.check", s |-> s, gone |-> FALSE]]
      /\ UNCHANGED <<members, conn, shows, joined, hash, seen, why>>
  BY DEF JoinReceived, Receive
<1>2. TypeOK'
  BY <1>1 DEF IInv, TypeOK, hash, Handling
<1>3. Sane'
  BY <1>1 DEF IInv, TypeOK, Sane, hash
<1>4. MiscountsHaveAReason'
  BY <1>1 DEF IInv, MiscountsHaveAReason, hash, JoinedOf
<1>5. NobodyIsListedAtZero'
  BY <1>1 DEF IInv, TypeOK, NobodyIsListedAtZero, hash, Of
<1>6. LeaksExpire'
  BY <1>1 DEF IInv, TypeOK, LeaksExpire, hash
<1>7. QED  BY <1>2, <1>3, <1>4, <1>5, <1>6 DEF IInv

\* The membership has been looked up.
LEMMA JoinCheckedOK ==
  ASSUME IInv, NEW r \in Ops, JoinChecked(r), userOf' = userOf
  PROVE  IInv'
<1>1. /\ TypeOK /\ op[r].at = "join.check"
      /\ Goto(r, "join.room") \/ Finish(r)
      /\ UNCHANGED <<members, conn, shows, mail, joined, hash, seen, why>>
  BY DEF JoinChecked, IInv
<1>2. /\ op' \in [Ops -> {Idle} \cup Handling]
      /\ op'[r] = Idle \/ (op'[r] # Idle /\ op'[r].s = op[r].s /\ op'[r].gone = op[r].gone)
      /\ \A q \in Ops : q # r => op'[q] = op[q] /\ Of(q)' = Of(q)
  BY <1>1, Moved, Finished
<1>3. TypeOK'
  BY <1>1, <1>2 DEF TypeOK, hash
<1>4. Sane'
  BY <1>1, <1>2, AtWork DEF IInv, Sane, hash
<1>5. MiscountsHaveAReason'
  BY <1>1 DEF IInv, MiscountsHaveAReason, hash, JoinedOf
<1>6. NobodyIsListedAtZero'
  BY <1>1, <1>2 DEF IInv, NobodyIsListedAtZero, hash
<1>7. LeaksExpire'
  BY <1>1, <1>2 DEF IInv, LeaksExpire, hash
<1>8. QED  BY <1>3, <1>4, <1>5, <1>6, <1>7 DEF IInv

\* The count goes up with the room, or the race is on record.
LEMMA JoinRoomOK ==
  ASSUME IInv, NEW r \in Ops, NEW ok \in BOOLEAN, JoinRoom(r, ok), userOf' = userOf
  PROVE  IInv'
<1> DEFINE s == op[r].s
           u == userOf[s]
<1>1. /\ TypeOK /\ op[r].at = "join.room"
      /\ Goto(r, IF ok THEN "expire" ELSE "broadcast")
      /\ UNCHANGED <<members, conn, shows, mail, seen>>
  BY DEF JoinRoom, IInv
<1>2. /\ op[r] # Idle /\ op[r].gone \in BOOLEAN /\ s \in Sockets /\ u \in Users
      /\ ~op[r].gone => s \in conn
  BY <1>1, AtWork DEF IInv, Sane, Of
<1>3. joined' = joined \cup (IF op[r].gone THEN {} ELSE {s})
  BY DEF JoinRoom, Entering
<1>4. /\ ok => /\ listed' = listed \cup {u}
               /\ count' = [count EXCEPT ![u] = @ + 1]
               /\ ttl' = (ttl /\ listed # {})
               /\ why' = IF (op[r].gone \/ s \in joined) /\ why = {} THEN {"joined late"} ELSE why
      /\ ~ok => /\ listed' = listed /\ count' = count /\ ttl' = ttl
                /\ why' = why \cup {"redis"}
  BY DEF JoinRoom, Hincrby, Of, Race, Fault, hash
<1>5. /\ op' \in [Ops -> {Idle} \cup Handling]
      /\ op'[r] # Idle /\ op'[r].at = IF ok THEN "expire" ELSE "broadcast"
      /\ op'[r].s = s /\ op'[r].gone = op[r].gone /\ Of(r)' = Of(r)
      /\ \A q \in Ops : q # r => op'[q] = op[q] /\ Of(q)' = Of(q)
  BY <1>1, Moved
<1> HIDE DEF s, u
<1>6. count' \in [Users -> Int] /\ listed' \subseteq Users
  <2>1. count \in [Users -> Int] /\ listed \subseteq Users
    BY <1>1 DEF TypeOK
  <2>2. CASE ok
    <3>1. count' = [count EXCEPT ![u] = @ + 1] /\ listed' = listed \cup {u}
      BY <1>4, <2>2
    <3>2. count[u] + 1 \in Int /\ count' = [count EXCEPT ![u] = count[u] + 1]
      BY <1>2, <2>1, <3>1
    <3>3. QED  BY <1>2, <2>1, <3>1, <3>2
  <2>3. CASE ~ok
    BY <1>4, <2>1, <2>3
  <2>4. QED  BY <2>2, <2>3
<1>7. TypeOK'
  <2>1. why' \subseteq Reasons /\ ttl' \in BOOLEAN
    BY <1>1, <1>4 DEF TypeOK, Reasons, Races
  <2>2. joined' \subseteq conn'
    BY <1>1, <1>2, <1>3 DEF TypeOK
  <2>3. QED  BY <1>1, <1>5, <1>6, <2>1, <2>2 DEF TypeOK
<1>8. Sane'
  <2>1. ASSUME NEW v \in Users, v \notin listed'  PROVE count'[v] = 0
    <3>1. v \notin listed /\ count[v] = 0
      BY <1>4, <2>1 DEF IInv, Sane
    <3>2. QED  BY <1>1, <1>2, <1>4, <2>1, <3>1 DEF TypeOK
  <2>2. ASSUME NEW q \in Ops, op'[q] # Idle, ~op'[q].gone  PROVE op'[q].s \in conn'
    BY <1>1, <1>2, <1>5, <2>2 DEF IInv, Sane, s
  <2>3. QED  BY <2>1, <2>2 DEF Sane
<1>9. MiscountsHaveAReason'
  <2>1. SUFFICES ASSUME why' = {}, NEW v \in Users
                 PROVE  count'[v] = Cardinality(JoinedOf(v)')
    BY DEF MiscountsHaveAReason, JoinedOf
  <2>2. ok /\ ~op[r].gone /\ s \notin joined /\ why = {}
    BY <1>4, <2>1
  <2>3. joined' = joined \cup {s}
    BY <1>3, <2>2
  <2>4. Cardinality(JoinedOf(v)') = IF v = u THEN Cardinality(JoinedOf(v)) + 1
                                   ELSE Cardinality(JoinedOf(v))
    BY <1>1, <1>2, <2>2, <2>3, OneMore DEF u
  <2>5. count[v] = Cardinality(JoinedOf(v)) /\ count \in [Users -> Int]
    BY <1>1, <2>2 DEF IInv, MiscountsHaveAReason, TypeOK
  <2>6. count'[v] = IF v = u THEN count[v] + 1 ELSE count[v]
    BY <1>2, <1>4, <2>2, <2>5
  <2>7. QED  BY <2>4, <2>5, <2>6
<1>10. NobodyIsListedAtZero'
  <2>1. SUFFICES ASSUME why' \cap {"crash", "stuck"} = {}, NEW v \in listed'
                 PROVE  \/ count'[v] > 0
                        \/ \E q \in Ops : op'[q] # Idle /\ op'[q].at = "remove.del" /\ Of(q)' = v
    BY DEF NobodyIsListedAtZero
  <2>2. why \cap {"crash", "stuck"} = {} /\ v \in Users
    BY <1>4, <1>6, <2>1
  <2>3. count[v] \in Int /\ count'[v] = IF ok /\ v = u THEN count[v] + 1 ELSE count[v]
    BY <1>1, <1>2, <1>4, <2>2 DEF TypeOK
  <2>4. CASE count[v] > 0
    BY <2>3, <2>4
  <2>5. CASE ~(count[v] > 0) /\ v \in listed
    <3>1. PICK q \in Ops : op[q] # Idle /\ op[q].at = "remove.del" /\ Of(q) = v
      BY <2>2, <2>5 DEF IInv, NobodyIsListedAtZero
    <3>2. QED  BY <1>1, <1>5, <3>1
  <2>6. CASE v \notin listed
    <3>1. ok /\ v = u /\ count[v] = 0
      BY <1>4, <2>2, <2>6 DEF IInv, Sane
    <3>2. QED  BY <2>3, <3>1
  <2>7. QED  BY <2>4, <2>5, <2>6
<1>11. LeaksExpire'
  <2>1. CASE ok
    <3>1. op'[r] # Idle /\ op'[r].at = "expire"
      BY <1>5, <2>1
    <3>2. QED  BY <3>1 DEF LeaksExpire
  <2>2. CASE ~ok
    <3>1. \A q \in Ops : op[q] # Idle /\ op[q].at \in {"remove.del", "expire"} => op'[q] = op[q]
      BY <1>1, <1>5
    <3>2. /\ listed' = listed /\ ttl' = ttl
          /\ "stuck" \in why => "stuck" \in why'
      BY <1>4, <2>2
    <3>3. QED  BY <3>1, <3>2 DEF IInv, LeaksExpire
  <2>3. QED  BY <2>1, <2>2
<1>12. QED  BY <1>7, <1>8, <1>9, <1>10, <1>11 DEF IInv

-----------------------------------------------------------------------------
\* A socket less in the room is one less in the count, and the handler that has taken a
\* field to zero is the one that will delete it.
LEMMA Removing ==
  ASSUME TypeOK, NEW r \in Ops, NEW s \in Sockets, NEW ok \in BOOLEAN, op[r] = Idle,
         Remove(r, s, ok), userOf' = userOf
  PROVE  /\ op' \in [Ops -> {Idle} \cup Handling]
         /\ op'[r] # Idle /\ op'[r].s = s /\ op'[r].gone = (s \notin conn') /\ Of(r)' = userOf[s]
         /\ op'[r].at = IF ~ok THEN "broadcast"
                        ELSE IF count[userOf[s]] - 1 <= 0 THEN "remove.del" ELSE "expire"
         /\ \A q \in Ops : q # r =>
              /\ op'[q] = Idle <=> op[q] = Idle
              /\ op[q] # Idle => /\ op'[q].at = op[q].at /\ op'[q].s = op[q].s
                                 /\ op'[q].gone = (op[q].gone \/ (s \notin conn' /\ op[q].s = s))
                                 /\ Of(q)' = Of(q)
<1> DEFINE new == [at |-> IF ~ok THEN "broadcast"
                          ELSE IF count[userOf[s]] - 1 <= 0 THEN "remove.del" ELSE "expire",
                   s |-> s, gone |-> s \notin conn']
<1>1. op' = [q \in Ops |-> IF q = r THEN new
                           ELSE IF op[q] # Idle /\ s \notin conn' /\ op[q].s = s
                           THEN [op[q] EXCEPT !.gone = TRUE] ELSE op[q]]
  BY DEF Remove, DeletedAtZero
<1>2. new \in Handling /\ new # Idle
  BY DEF Handling, Idle
<1>3. op'[r] = new
  BY <1>1
<1>4. ASSUME NEW q \in Ops, q # r
      PROVE  /\ op'[q] \in {Idle} \cup Handling
             /\ op'[q] = Idle <=> op[q] = Idle
             /\ op[q] # Idle => /\ op'[q].at = op[q].at /\ op'[q].s = op[q].s
                                /\ op'[q].gone = (op[q].gone \/ (s \notin conn' /\ op[q].s = s))
                                /\ Of(q)' = Of(q)
  <2>1. CASE op[q] # Idle /\ s \notin conn' /\ op[q].s = s
    <3>1. op[q] \in Handling
      BY <2>1, AtWork
    <3>2. op'[q] = [op[q] EXCEPT !.gone = TRUE]
      BY <1>1, <1>4, <2>1
    <3>3. op'[q] \in Handling /\ op'[q].at = op[q].at /\ op'[q].s = op[q].s /\ op'[q].gone = TRUE
      BY <3>1, <3>2 DEF Handling
    <3>4. op'[q] # Idle
      BY <3>3 DEF Handling, Idle
    <3>5. QED  BY <2>1, <3>3, <3>4 DEF Of
  <2>2. CASE ~(op[q] # Idle /\ s \notin conn' /\ op[q].s = s)
    <3>1. op'[q] = op[q]
      BY <1>1, <1>4, <2>2
    <3>2. op[q] # Idle => op[q].gone \in BOOLEAN
      BY AtWork
    <3>3. QED  BY <2>2, <3>1, <3>2 DEF Of, TypeOK
  <2>3. QED  BY <2>1, <2>2
<1>5. op' \in [Ops -> {Idle} \cup Handling]
  <2>1. \A q \in Ops : op'[q] \in {Idle} \cup Handling
    BY <1>2, <1>3, <1>4
  <2>2. QED  BY <1>1, <2>1
<1>6. Of(r)' = userOf[s]
  BY <1>3 DEF Of
<1>7. QED  BY <1>2, <1>3, <1>4, <1>5, <1>6

\* The steps that take a socket out of the room, whether or not it was in.
LEMMA RemoveOK ==
  ASSUME IInv, NEW r \in Ops, NEW s \in Sockets, NEW ok \in BOOLEAN, op[r] = Idle,
         Remove(r, s, ok), UNCHANGED <<userOf, members, shows, seen>>,
         conn' \subseteq conn, conn \ {s} \subseteq conn', joined' = joined \ {s},
         mail' \in [Sockets -> Seq({"join", "leave"})], why' \subseteq Reasons,
         why' \cap {"crash", "stuck"} = why \cap {"crash", "stuck"},
         why' = {} => why = {} /\ ok /\ s \in joined
  PROVE  IInv'
<1> DEFINE u == userOf[s]
<1>1. TypeOK /\ u \in Users
  BY DEF IInv, TypeOK
<1>2. /\ op' \in [Ops -> {Idle} \cup Handling]
      /\ op'[r] # Idle /\ op'[r].s = s /\ op'[r].gone = (s \notin conn') /\ Of(r)' = u
      /\ op'[r].at = IF ~ok THEN "broadcast"
                     ELSE IF count[u] - 1 <= 0 THEN "remove.del" ELSE "expire"
      /\ \A q \in Ops : q # r =>
           /\ op'[q] = Idle <=> op[q] = Idle
           /\ op[q] # Idle => /\ op'[q].at = op[q].at /\ op'[q].s = op[q].s
                              /\ op'[q].gone = (op[q].gone \/ (s \notin conn' /\ op[q].s = s))
                              /\ Of(q)' = Of(q)
  BY <1>1, Removing
<1>3. /\ ok => /\ listed' = listed \cup {u}
               /\ count' = [count EXCEPT ![u] = @ + (-1)]
               /\ ttl' = (ttl /\ listed # {})
      /\ ~ok => listed' = listed /\ count' = count /\ ttl' = ttl
  BY DEF Remove, Hincrby, hash
<1> HIDE DEF u
<1>4. /\ count' \in [Users -> Int] /\ listed' \subseteq Users
      /\ \A v \in Users : count'[v] = IF ok /\ v = u THEN count[v] - 1 ELSE count[v]
  <2>1. count \in [Users -> Int] /\ listed \subseteq Users
    BY <1>1 DEF TypeOK
  <2>2. CASE ok
    <3>1. count[u] - 1 \in Int /\ count' = [count EXCEPT ![u] = count[u] - 1]
      BY <1>1, <1>3, <2>1, <2>2
    <3>2. QED  BY <1>1, <1>3, <2>1, <2>2, <3>1
  <2>3. CASE ~ok
    BY <1>3, <2>1, <2>3
  <2>4. QED  BY <2>2, <2>3
<1>5. TypeOK'
  <2>1. ttl' \in BOOLEAN /\ joined' \subseteq conn'
    BY <1>1, <1>3 DEF TypeOK
  <2>2. QED  BY <1>1, <1>2, <1>4, <2>1 DEF TypeOK
<1>6. Sane'
  <2>1. ASSUME NEW v \in Users, v \notin listed'  PROVE count'[v] = 0
    BY <1>3, <1>4, <2>1 DEF IInv, Sane
  <2>2. ASSUME NEW q \in Ops, op'[q] # Idle, ~op'[q].gone  PROVE op'[q].s \in conn'
    BY <1>2, <2>2 DEF IInv, Sane
  <2>3. QED  BY <2>1, <2>2 DEF Sane
<1>7. MiscountsHaveAReason'
  <2>1. SUFFICES ASSUME why' = {}, NEW v \in Users
                 PROVE  count'[v] = Cardinality(JoinedOf(v)')
    BY DEF MiscountsHaveAReason, JoinedOf
  <2>2. Cardinality(JoinedOf(v)') = IF v = u THEN Cardinality(JoinedOf(v)) - 1
                                   ELSE Cardinality(JoinedOf(v))
    BY <1>1, <2>1, OneLess DEF u
  <2>3. count[v] = Cardinality(JoinedOf(v)) /\ ok
    BY <2>1 DEF IInv, MiscountsHaveAReason
  <2>4. QED  BY <1>4, <2>2, <2>3
<1>8. NobodyIsListedAtZero'
  <2>1. SUFFICES ASSUME why' \cap {"crash", "stuck"} = {}, NEW v \in listed'
                 PROVE  \/ count'[v] > 0
                        \/ \E q \in Ops : op'[q] # Idle /\ op'[q].at = "remove.del" /\ Of(q)' = v
    BY DEF NobodyIsListedAtZero
  <2>2. v \in Users /\ count[v] \in Int
    BY <1>1, <1>4 DEF TypeOK
  <2>3. CASE ok /\ v = u
    BY <1>2, <1>4, <2>2, <2>3
  <2>4. CASE ~(ok /\ v = u)
    <3>1. count'[v] = count[v] /\ v \in listed
      BY <1>3, <1>4, <2>2, <2>4
    <3>2. CASE ~(count[v] > 0)
      <4>1. PICK q \in Ops : op[q] # Idle /\ op[q].at = "remove.del" /\ Of(q) = v
        BY <2>1, <3>1, <3>2 DEF IInv, NobodyIsListedAtZero
      <4>2. QED  BY <1>2, <4>1
    <3>3. QED  BY <3>1, <3>2
  <2>5. QED  BY <2>3, <2>4
<1>9. LeaksExpire'
  <2>1. CASE ok
    <3>1. op'[r] # Idle /\ op'[r].at \in {"remove.del", "expire"}
      BY <1>2, <2>1
    <3>2. QED  BY <3>1 DEF LeaksExpire
  <2>2. CASE ~ok
    <3>1. \A q \in Ops : op[q] # Idle /\ op[q].at \in {"remove.del", "expire"}
                          => op'[q] # Idle /\ op'[q].at = op[q].at
      BY <1>2
    <3>2. /\ listed' = listed /\ ttl' = ttl
          /\ "stuck" \in why => "stuck" \in why'
      BY <1>3, <2>2
    <3>3. QED  BY <3>1, <3>2 DEF IInv, LeaksExpire
  <2>3. QED  BY <2>1, <2>2
<1>10. QED  BY <1>5, <1>6, <1>7, <1>8, <1>9 DEF IInv

\* A leave, also of a socket that had not joined.
LEMMA LeaveReceivedOK ==
  ASSUME IInv, NEW r \in Ops, NEW s \in Sockets, NEW ok \in BOOLEAN,
         LeaveReceived(r, s, ok), userOf' = userOf
  PROVE  IInv'
<1>1. /\ op[r] = Idle /\ Remove(r, s, ok) /\ UNCHANGED <<userOf, members, shows, seen>>
      /\ conn' = conn /\ joined' = joined \ {s}
  BY DEF LeaveReceived, Receive, Forgotten
<1>2. mail' \in [Sockets -> Seq({"join", "leave"})]
  <2>1. mail \in [Sockets -> Seq({"join", "leave"})] /\ mail[s] # <<>>
    BY DEF IInv, TypeOK, LeaveReceived, Receive
  <2>2. Tail(mail[s]) \in Seq({"join", "leave"})
    BY <2>1
  <2>3. QED  BY <2>1, <2>2 DEF LeaveReceived, Receive
<1>3. why' = IF ok THEN IF s \notin joined /\ why = {} THEN {"stray leave"} ELSE why
             ELSE why \cup {"redis"}
  BY DEF LeaveReceived, Race, Fault
<1>4. /\ why' \subseteq Reasons
      /\ why' \cap {"crash", "stuck"} = why \cap {"crash", "stuck"}
      /\ why' = {} => why = {} /\ ok /\ s \in joined
  BY <1>3 DEF IInv, TypeOK, Reasons, Races
<1>5. QED  BY <1>1, <1>2, <1>4, RemoveOK

\* A connection that is lost.
LEMMA DisconnectOK ==
  ASSUME IInv, NEW r \in Ops, NEW s \in Sockets, NEW ok \in BOOLEAN,
         Disconnect(r, s, ok), userOf' = userOf
  PROVE  IInv'
<1>1. /\ op[r] = Idle /\ Remove(r, s, ok) /\ UNCHANGED <<userOf, members, shows, seen>>
      /\ conn' = conn \ {s} /\ joined' = joined \ {s} /\ s \in joined
  BY DEF Disconnect
<1>2. mail' \in [Sockets -> Seq({"join", "leave"})]
  BY DEF IInv, TypeOK, Disconnect
<1>3. why' = IF ok THEN why ELSE why \cup {"redis"}
  BY DEF Disconnect, Fault
<1>4. /\ why' \subseteq Reasons
      /\ why' \cap {"crash", "stuck"} = why \cap {"crash", "stuck"}
      /\ why' = {} => why = {} /\ ok /\ s \in joined
  BY <1>1, <1>3 DEF IInv, TypeOK, Reasons, Races
<1>5. QED  BY <1>1, <1>2, <1>4, RemoveOK

\* The handlers of a socket that goes learn of it, and nothing else.
LEMMA Marked ==
  ASSUME IInv, NEW s \in Sockets, DisconnectUnjoined(s), userOf' = userOf
  PROVE  /\ op' \in [Ops -> {Idle} \cup Handling]
         /\ \A q \in Ops :
              /\ op'[q] = Idle <=> op[q] = Idle
              /\ op[q] # Idle => /\ op'[q].at = op[q].at /\ op'[q].s = op[q].s
                                 /\ op'[q].gone = (op[q].gone \/ op[q].s = s)
                                 /\ Of(q)' = Of(q)
<1>1. /\ TypeOK
      /\ op' = [q \in Ops |-> IF op[q] # Idle /\ op[q].s = s
                              THEN [op[q] EXCEPT !.gone = TRUE] ELSE op[q]]
  BY DEF DisconnectUnjoined, IInv
<1>2. ASSUME NEW q \in Ops
      PROVE  /\ op'[q] \in {Idle} \cup Handling
             /\ op'[q] = Idle <=> op[q] = Idle
             /\ op[q] # Idle => /\ op'[q].at = op[q].at /\ op'[q].s = op[q].s
                                /\ op'[q].gone = (op[q].gone \/ op[q].s = s)
                                /\ Of(q)' = Of(q)
  <2>1. CASE op[q] # Idle /\ op[q].s = s
    <3>1. op[q] \in Handling
      BY <1>1, <2>1, AtWork
    <3>2. op'[q] = [op[q] EXCEPT !.gone = TRUE]
      BY <1>1, <2>1
    <3>3. op'[q] \in Handling /\ op'[q].at = op[q].at /\ op'[q].s = op[q].s /\ op'[q].gone = TRUE
      BY <3>1, <3>2 DEF Handling
    <3>4. op'[q] # Idle
      BY <3>3 DEF Handling, Idle
    <3>5. QED  BY <2>1, <3>3, <3>4 DEF Of
  <2>2. CASE ~(op[q] # Idle /\ op[q].s = s)
    <3>1. op'[q] = op[q]
      BY <1>1, <2>2
    <3>2. op[q] # Idle => op[q].gone \in BOOLEAN
      BY <1>1, AtWork
    <3>3. QED  BY <1>1, <2>2, <3>1, <3>2 DEF Of, TypeOK
  <2>3. QED  BY <2>1, <2>2
<1>3. op' \in [Ops -> {Idle} \cup Handling]
  <2>1. \A q \in Ops : op'[q] \in {Idle} \cup Handling
    BY <1>2
  <2>2. QED  BY <1>1, <2>1
<1>4. QED  BY <1>2, <1>3

\* A socket that has not joined goes: only the handlers learn of it.
LEMMA DisconnectUnjoinedOK ==
  ASSUME IInv, NEW s \in Sockets, DisconnectUnjoined(s), userOf' = userOf
  PROVE  IInv'
<1>1. /\ TypeOK /\ s \notin joined
      /\ conn' = conn \ {s} /\ UNCHANGED <<members, shows, joined, hash, seen, why>>
      /\ mail' = [mail EXCEPT ![s] = <<>>]
      /\ op' = [q \in Ops |-> IF op[q] # Idle /\ op[q].s = s
                              THEN [op[q] EXCEPT !.gone = TRUE] ELSE op[q]]
  BY DEF DisconnectUnjoined, IInv
<1>2. \A q \in Ops :
        /\ op'[q] = Idle <=> op[q] = Idle
        /\ op[q] # Idle => /\ op'[q].at = op[q].at /\ op'[q].s = op[q].s
                           /\ op'[q].gone = (op[q].gone \/ op[q].s = s)
                           /\ Of(q)' = Of(q)
  BY Marked
<1>3. op' \in [Ops -> {Idle} \cup Handling]
  BY Marked
<1>4. TypeOK'
  BY <1>1, <1>3 DEF TypeOK, hash
<1>5. Sane'
  <2>1. ASSUME NEW q \in Ops, op'[q] # Idle, ~op'[q].gone  PROVE op'[q].s \in conn'
    BY <1>1, <1>2, <2>1 DEF IInv, Sane
  <2>2. QED  BY <1>1, <2>1 DEF IInv, Sane, hash
<1>6. MiscountsHaveAReason'
  BY <1>1 DEF IInv, MiscountsHaveAReason, hash, JoinedOf
<1>7. NobodyIsListedAtZero'
  <2>1. \A q \in Ops : op[q] # Idle /\ op[q].at = "remove.del" =>
          op'[q] # Idle /\ op'[q].at = "remove.del" /\ Of(q)' = Of(q)
    BY <1>2
  <2>2. QED  BY <1>1, <2>1 DEF IInv, NobodyIsListedAtZero, hash
<1>8. LeaksExpire'
  BY <1>1, <1>2 DEF IInv, LeaksExpire, hash
<1>9. QED  BY <1>4, <1>5, <1>6, <1>7, <1>8 DEF IInv

\* What is deleted is a field that counts for nobody, unless a join has sneaked in.
LEMMA RemoveFieldOK ==
  ASSUME IInv, NEW r \in Ops, NEW ok \in BOOLEAN, RemoveField(r, ok), userOf' = userOf
  PROVE  IInv'
<1> DEFINE u == Of(r)
<1>1. /\ TypeOK /\ op[r].at = "remove.del"
      /\ Goto(r, IF ok THEN "expire" ELSE "broadcast")
      /\ UNCHANGED <<members, conn, shows, mail, joined, seen>>
  BY DEF RemoveField, IInv
<1>2. op[r] # Idle /\ u \in Users
  BY <1>1, AtWork
<1>3. /\ ok => /\ listed' = listed \ {u}
               /\ count' = [count EXCEPT ![u] = 0]
               /\ ttl' = (ttl /\ listed' # {})
               /\ why' = IF count[u] > 0 /\ why = {} THEN {"sneaked in"} ELSE why
      /\ ~ok => /\ listed' = listed /\ count' = count /\ ttl' = ttl
                /\ why' = why \cup {"stuck"}
  BY DEF RemoveField, Hdel, Race, Fault, hash
<1>4. /\ op' \in [Ops -> {Idle} \cup Handling]
      /\ op'[r] # Idle /\ op'[r].at = IF ok THEN "expire" ELSE "broadcast"
      /\ op'[r].s = op[r].s /\ op'[r].gone = op[r].gone /\ Of(r)' = Of(r)
      /\ \A q \in Ops : q # r => op'[q] = op[q] /\ Of(q)' = Of(q)
  BY <1>1, Moved
<1> HIDE DEF u
<1>5. TypeOK'
  <2>1. why' \subseteq Reasons /\ ttl' \in BOOLEAN
    BY <1>1, <1>3 DEF TypeOK, Reasons, Races
  <2>2. count' \in [Users -> Int] /\ listed' \subseteq Users
    <3>1. count \in [Users -> Int] /\ listed \subseteq Users
      BY <1>1 DEF TypeOK
    <3>2. CASE ok
      <4>1. count' = [count EXCEPT ![u] = 0] /\ listed' = listed \ {u}
        BY <1>3, <3>2
      <4>2. count' \in [Users -> Int]
        <5>1. count' = [v \in Users |-> IF v = u THEN 0 ELSE count[v]]
          BY <3>1, <4>1
        <5>2. QED  BY <3>1, <5>1
      <4>3. listed' \subseteq Users
        BY <3>1, <4>1
      <4>4. QED  BY <4>2, <4>3
    <3>3. CASE ~ok
      BY <1>3, <3>1, <3>3
    <3>4. QED  BY <3>2, <3>3
  <2>3. QED  BY <1>1, <1>4, <2>1, <2>2 DEF TypeOK
<1>6. Sane'
  <2>1. ASSUME NEW v \in Users, v \notin listed'  PROVE count'[v] = 0
    BY <1>1, <1>3, <2>1 DEF IInv, Sane, TypeOK
  <2>2. ASSUME NEW q \in Ops, op'[q] # Idle, ~op'[q].gone  PROVE op'[q].s \in conn'
    BY <1>1, <1>2, <1>4, <2>2 DEF IInv, Sane
  <2>3. QED  BY <2>1, <2>2 DEF Sane
<1>7. MiscountsHaveAReason'
  <2>1. SUFFICES ASSUME why' = {}, NEW v \in Users
                 PROVE  count'[v] = Cardinality(JoinedOf(v)')
    BY DEF MiscountsHaveAReason, JoinedOf
  <2>2. ok /\ why = {} /\ ~(count[u] > 0)
    BY <1>3, <2>1
  <2>3. JoinedOf(v)' = JoinedOf(v)
    BY <1>1 DEF JoinedOf
  <2>4. \A w \in Users : count[w] = Cardinality(JoinedOf(w)) /\ Cardinality(JoinedOf(w)) \in Nat
    BY <1>1, <2>2, CountsAreNatural DEF IInv, MiscountsHaveAReason
  <2>5. count[u] = 0
    BY <1>2, <2>2, <2>4
  <2>6. count'[v] = count[v]
    BY <1>1, <1>3, <2>2, <2>5 DEF TypeOK
  <2>7. QED  BY <2>3, <2>4, <2>6
<1>8. NobodyIsListedAtZero'
  <2>1. SUFFICES ASSUME why' \cap {"crash", "stuck"} = {}, NEW v \in listed'
                 PROVE  \/ count'[v] > 0
                        \/ \E q \in Ops : op'[q] # Idle /\ op'[q].at = "remove.del" /\ Of(q)' = v
    BY DEF NobodyIsListedAtZero
  <2>2. /\ ok /\ v \in listed /\ v # u /\ v \in Users
        /\ why \cap {"crash", "stuck"} = {}
    BY <1>1, <1>3, <2>1 DEF TypeOK
  <2>3. count'[v] = count[v]
    BY <1>1, <1>3, <2>2 DEF TypeOK
  <2>4. CASE ~(count[v] > 0)
    <3>1. PICK q \in Ops : op[q] # Idle /\ op[q].at = "remove.del" /\ Of(q) = v
      BY <2>2, <2>4 DEF IInv, NobodyIsListedAtZero
    <3>2. q # r
      BY <2>2, <3>1 DEF u
    <3>3. QED  BY <1>4, <3>1, <3>2
  <2>5. QED  BY <2>3, <2>4
<1>9. LeaksExpire'
  <2>1. CASE ok
    <3>1. op'[r] # Idle /\ op'[r].at = "expire"
      BY <1>4, <2>1
    <3>2. QED  BY <3>1 DEF LeaksExpire
  <2>2. CASE ~ok
    BY <1>3, <2>2 DEF LeaksExpire
  <2>3. QED  BY <2>1, <2>2
<1>10. QED  BY <1>5, <1>6, <1>7, <1>8, <1>9 DEF IInv

\* The hash gets its expiry, or it is on record that it did not.
LEMMA SetExpiryOK ==
  ASSUME IInv, NEW r \in Ops, NEW ok \in BOOLEAN, SetExpiry(r, ok), userOf' = userOf
  PROVE  IInv'
<1>1. /\ TypeOK /\ op[r].at = "expire" /\ Goto(r, "broadcast")
      /\ UNCHANGED <<members, conn, shows, mail, joined, listed, count, seen>>
      /\ ttl' = IF ok THEN listed # {} ELSE ttl
      /\ why' = IF ok THEN why ELSE why \cup {"stuck"}
  BY DEF SetExpiry, ExpirySet, Fault, IInv
<1>2. /\ op' \in [Ops -> {Idle} \cup Handling]
      /\ op[r] # Idle /\ op'[r] # Idle /\ op'[r].at = "broadcast"
      /\ op'[r].s = op[r].s /\ op'[r].gone = op[r].gone
      /\ \A q \in Ops : q # r => op'[q] = op[q] /\ Of(q)' = Of(q)
  BY <1>1, Moved, AtWork
<1>3. TypeOK'
  BY <1>1, <1>2 DEF TypeOK, Reasons
<1>4. Sane'
  BY <1>1, <1>2 DEF IInv, Sane
<1>5. MiscountsHaveAReason'
  BY <1>1 DEF IInv, MiscountsHaveAReason, JoinedOf
<1>6. NobodyIsListedAtZero'
  <2>1. \A q \in Ops : op[q] # Idle /\ op[q].at = "remove.del" => op'[q] = op[q] /\ Of(q)' = Of(q)
    BY <1>1, <1>2
  <2>2. why \cap {"crash", "stuck"} # {} => why' \cap {"crash", "stuck"} # {}
    BY <1>1
  <2>3. QED  BY <1>1, <2>1, <2>2 DEF IInv, NobodyIsListedAtZero
<1>7. LeaksExpire'
  BY <1>1 DEF LeaksExpire
<1>8. QED  BY <1>3, <1>4, <1>5, <1>6, <1>7 DEF IInv

\* The broadcast changes what pages show, no more.
LEMMA BroadcastOK ==
  ASSUME IInv, NEW r \in Ops, NEW ok \in BOOLEAN, Broadcast(r, ok), userOf' = userOf
  PROVE  IInv'
<1>1. /\ TypeOK /\ op[r].at = "broadcast" /\ Finish(r)
      /\ UNCHANGED <<members, conn, shows, mail, joined, hash>>
      /\ why' = IF ok THEN why ELSE why \cup {"redis"}
  BY DEF Broadcast, Fault, IInv
<1>2. /\ op' \in [Ops -> {Idle} \cup Handling]
      /\ op'[r] = Idle
      /\ \A q \in Ops : q # r => op'[q] = op[q] /\ Of(q)' = Of(q)
  BY <1>1, Finished
<1>3. seen' \in [Sockets -> SUBSET Users]
  BY DEF Broadcast, IInv, TypeOK
<1>4. TypeOK'
  BY <1>1, <1>2, <1>3 DEF TypeOK, Reasons, hash
<1>5. Sane'
  BY <1>1, <1>2 DEF IInv, Sane, hash
<1>6. MiscountsHaveAReason'
  BY <1>1 DEF IInv, MiscountsHaveAReason, JoinedOf, hash
<1>7. NobodyIsListedAtZero'
  <2>1. \A q \in Ops : op[q] # Idle /\ op[q].at = "remove.del" => op'[q] = op[q] /\ Of(q)' = Of(q)
    BY <1>1, <1>2
  <2>2. why \cap {"crash", "stuck"} # {} => why' \cap {"crash", "stuck"} # {}
    BY <1>1
  <2>3. QED  BY <1>1, <2>1, <2>2 DEF IInv, NobodyIsListedAtZero, hash
<1>8. LeaksExpire'
  <2>1. \A q \in Ops : op[q] # Idle /\ op[q].at \in {"remove.del", "expire"} => op'[q] = op[q]
    BY <1>1, <1>2
  <2>2. "stuck" \in why => "stuck" \in why'
    BY <1>1
  <2>3. QED  BY <1>1, <2>1, <2>2 DEF IInv, LeaksExpire, hash
<1>9. QED  BY <1>4, <1>5, <1>6, <1>7, <1>8 DEF IInv

-----------------------------------------------------------------------------
\* The hash is empty after its expiry, and a crash is on record.
LEMMA OutageOK ==
  ASSUME IInv, Expire \/ Crash, userOf' = userOf
  PROVE  IInv'
<1>1. CASE Expire
  <2>1. /\ TypeOK /\ listed' = {} /\ count' = [v \in Users |-> 0] /\ ttl' = FALSE
        /\ why' = why \cup {"expired"}
        /\ UNCHANGED <<members, conn, shows, mail, joined, op, seen>>
    BY <1>1 DEF Expire, Fault, IInv
  <2>2. count' \in [Users -> Int]
    BY <2>1
  <2>3. TypeOK'
    BY <2>1, <2>2 DEF TypeOK, Reasons
  <2>4. QED  BY <2>1, <2>3 DEF IInv, Sane, MiscountsHaveAReason, NobodyIsListedAtZero, LeaksExpire
<1>2. CASE Crash
  <2>1. /\ TypeOK /\ conn' = {} /\ joined' = {} /\ op' = [r \in Ops |-> Idle]
        /\ mail' = [s \in Sockets |-> <<>>]
        /\ why' = why \cup {IF listed # {} /\ ~ttl THEN "stuck" ELSE "crash"}
        /\ UNCHANGED <<members, shows, hash, seen>>
    BY <1>2 DEF Crash, Fault, IInv
  <2>2. mail' \in [Sockets -> Seq({"join", "leave"})] /\ op' \in [Ops -> {Idle} \cup Handling]
    BY <2>1
  <2>3. TypeOK'
    BY <2>1, <2>2 DEF TypeOK, Reasons, hash
  <2>4. QED
    BY <2>1, <2>3 DEF IInv, Sane, MiscountsHaveAReason, NobodyIsListedAtZero, LeaksExpire, hash
<1>3. QED  BY <1>1, <1>2

\* Nothing here depends on who is a member.
LEMMA RemoveMemberOK ==
  ASSUME IInv, NEW u \in Users, RemoveMember(u), userOf' = userOf
  PROVE  IInv'
<1>1. /\ members' \subseteq Users
      /\ UNCHANGED <<conn, shows, mail, joined, hash, op, seen, why>>
  BY DEF RemoveMember, IInv, TypeOK
<1>2. QED
  BY <1>1 DEF IInv, TypeOK, Sane, MiscountsHaveAReason, NobodyIsListedAtZero, LeaksExpire,
     hash, JoinedOf, Of

\* A step of other components.
LEMMA StutterOK ==
  ASSUME IInv, UNCHANGED vars
  PROVE  IInv'
BY DEF vars, hash, IInv, TypeOK, Sane, MiscountsHaveAReason, NobodyIsListedAtZero, LeaksExpire,
   JoinedOf, Of

\* Every step preserves the invariant.
LEMMA StepOK == IInv /\ [Next]_vars => IInv'
<1> SUFFICES ASSUME IInv, [Next]_vars  PROVE IInv'
  OBVIOUS
<1>1. CASE Next
  <2>1. Step /\ userOf' = userOf
    BY <1>1 DEF Next
  <2>2. ASSUME NEW s \in Sockets, TabStep(s)  PROVE IInv'
    BY <2>1, <2>2, TabOK, DisconnectUnjoinedOK DEF TabStep
  <2>3. ASSUME NEW r \in Ops, HandlerStep(r)  PROVE IInv'
    BY <2>1, <2>3, JoinCheckedOK, JoinRoomOK, RemoveFieldOK, SetExpiryOK, BroadcastOK
       DEF HandlerStep
  <2>4. QED
    BY <2>1, <2>2, <2>3, JoinReceivedOK, LeaveReceivedOK, DisconnectOK, OutageOK, RemoveMemberOK
       DEF Step
<1>2. QED  BY <1>1, StutterOK

\* The invariant above holds in every reachable state, for any number of users, tabs,
\* handlers and faults.
THEOREM Invariance == Spec => []IInv
<1>1. Init => IInv
  BY InitOK
<1>2. IInv /\ [Next]_vars => IInv'
  BY StepOK
<1>3. QED  BY <1>1, <1>2, PTL DEF Spec

\* The hash, the room, the handlers and the pages keep their types, and sockets in the
\* room are connected.
THEOREM TypeCorrect == Spec => []TypeOK
<1>1. IInv => TypeOK
  BY DEF IInv
<1>2. QED  BY <1>1, Invariance, PTL

\* A user's count is the number of sockets the user has in the room, unless one of the
\* seven reasons applies.
THEOREM CountsAreSockets == Spec => []MiscountsHaveAReason
<1>1. IInv => MiscountsHaveAReason
  BY DEF IInv
<1>2. QED  BY <1>1, Invariance, PTL

\* A field at zero is about to be deleted, unless the process or Redis failed.
THEOREM ZeroIsDeleted == Spec => []NobodyIsListedAtZero
<1>1. IInv => NobodyIsListedAtZero
  BY DEF IInv
<1>2. QED  BY <1>1, Invariance, PTL

\* A list that is not empty has an expiry, or is about to get one, unless setting it failed.
THEOREM ListsExpire == Spec => []LeaksExpire
<1>1. IInv => LeaksExpire
  BY DEF IInv
<1>2. QED  BY <1>1, Invariance, PTL

-----------------------------------------------------------------------------
(***************************************************************************)
(* What the pages show.  A tab's messages say where it is going: the last  *)
(* of them whether it shows a page, the first of them is a join only if    *)
(* the tab is neither in the room nor on its way there.  A page in the     *)
(* room shows the list, or a handler is at work that ends in a broadcast,  *)
(* or the tab has left since and is still to be taken out of the room.     *)
(***************************************************************************)
Has(m, x) == \E i \in 1 .. Len(m) : m[i] = x

\* A join is sent when the page is mounted: after a leave, if it is not the first.
Alternates(m) == \A i \in 2 .. Len(m) : m[i] = "join" => m[i - 1] = "leave"

\* The handlers on the way to the room for s, which is still connected.
Pending(s) ==
  {r \in Ops : /\ op[r] # Idle /\ op[r].at \in {"join.check", "join.room"}
               /\ op[r].s = s /\ ~op[r].gone}

Entered(s) == s \in joined \/ Pending(s) # {}

Settled(s) ==
  s \in conn /\ mail[s] = <<>> =>
    /\ Entered(s) => s \in shows
    /\ members = Users /\ s \in shows => Entered(s)

Travelling(s) ==
  s \in conn /\ mail[s] # <<>> =>
    /\ mail[s][Len(mail[s])] = "join" <=> s \in shows
    /\ mail[s][1] = "join" => ~Entered(s)
    /\ Alternates(mail[s])

Course(s) ==
  /\ s \notin conn => ~Has(mail[s], "join")
  /\ Settled(s)
  /\ Travelling(s)
  /\ \A q, r \in Pending(s) : q = r
  /\ Pending(s) # {} => s \notin joined

\* A handler that will end in a broadcast.
Working == \E r \in Ops : op[r] # Idle /\ op[r].at \in {"remove.del", "expire", "broadcast"}

UpToDate(s) == s \in joined \cap shows => seen[s] = listed \/ Working \/ Has(mail[s], "leave")

PagesInv == why = {} => \A s \in Sockets : Course(s) /\ UpToDate(s)

Messages == {"join", "leave"}

\* What a message that is sent does to the mail.
LEMMA Sent ==
  ASSUME NEW m \in Seq(Messages), NEW x \in Messages, NEW n, n = Append(m, x)
  PROVE  /\ n \in Seq(Messages) /\ n # <<>> /\ n[Len(n)] = x
         /\ n[1] = IF m = <<>> THEN x ELSE m[1]
         /\ \A y : Has(n, y) <=> Has(m, y) \/ y = x
         /\ Alternates(m) /\ (x = "join" => m = <<>> \/ m[Len(m)] = "leave") => Alternates(n)
<1>1. /\ n \in Seq(Messages) /\ Len(n) = Len(m) + 1 /\ Len(m) \in Nat
      /\ n[Len(n)] = x /\ \A i \in 1 .. Len(m) : n[i] = m[i]
  OBVIOUS
<1>2. n # <<>> /\ (m # <<>> <=> Len(m) > 0)
  BY <1>1
<1>3. \A y : Has(n, y) <=> Has(m, y) \/ y = x
  <2>1. SUFFICES ASSUME NEW y  PROVE Has(n, y) <=> Has(m, y) \/ y = x
    OBVIOUS
  <2>2. 1 .. Len(n) = (1 .. Len(m)) \cup {Len(n)}
    BY <1>1
  <2>3. QED  BY <1>1, <2>2 DEF Has
<1>4. n[1] = IF m = <<>> THEN x ELSE m[1]
  BY <1>1, <1>2
<1>5. ASSUME Alternates(m), x = "join" => m = <<>> \/ m[Len(m)] = "leave"
      PROVE  Alternates(n)
  <2>1. SUFFICES ASSUME NEW i \in 2 .. Len(n), n[i] = "join"  PROVE n[i - 1] = "leave"
    BY DEF Alternates
  <2>2. CASE i = Len(n)
    <3>1. i - 1 = Len(m) /\ Len(m) \in 1 .. Len(m)
      BY <1>1, <2>2
    <3>2. QED  BY <1>1, <1>2, <1>5, <2>1, <2>2, <3>1
  <2>3. CASE i # Len(n)
    <3>1. i \in 2 .. Len(m) /\ i \in 1 .. Len(m) /\ i - 1 \in 1 .. Len(m)
      BY <1>1, <2>3
    <3>2. QED  BY <1>1, <1>5, <2>1, <3>1 DEF Alternates
  <2>4. QED  BY <2>2, <2>3
<1>6. QED  BY <1>1, <1>2, <1>3, <1>4, <1>5

\* Mail of length zero is no mail.
LEMMA NoMessage ==
  ASSUME NEW m \in Seq(Messages)
  PROVE  m = <<>> <=> Len(m) = 0
OBVIOUS

\* What a message that is received does to it.
LEMMA Received ==
  ASSUME NEW m \in Seq(Messages), m # <<>>, NEW n, n = Tail(m)
  PROVE  /\ n \in Seq(Messages)
         /\ n = <<>> => m[Len(m)] = m[1]
         /\ n # <<>> => n[Len(n)] = m[Len(m)]
         /\ \A y : Has(m, y) <=> Has(n, y) \/ m[1] = y
         /\ Alternates(m) => Alternates(n)
         /\ Alternates(m) /\ m[1] = "join" /\ n # <<>> => n[1] = "leave"
<1>1. /\ n \in Seq(Messages) /\ Len(n) = Len(m) - 1 /\ Len(m) \in Nat /\ Len(m) > 0
      /\ \A i \in 1 .. Len(n) : n[i] = m[i + 1]
      /\ n = <<>> <=> Len(n) = 0
  <2>1. Len(m) \in Nat /\ Len(m) > 0
    OBVIOUS
  <2>2. n \in Seq(Messages) /\ Len(n) = Len(m) - 1
    BY <2>1
  <2>3. \A i \in 1 .. Len(n) : n[i] = m[i + 1]
    BY <2>1, <2>2
  <2>4. n = <<>> <=> Len(n) = 0
    BY <2>2, NoMessage
  <2>5. QED  BY <2>1, <2>2, <2>3, <2>4
<1>2. n = <<>> => m[Len(m)] = m[1]
  BY <1>1
<1>3. n # <<>> => n[Len(n)] = m[Len(m)]
  <2>1. SUFFICES ASSUME n # <<>>  PROVE n[Len(n)] = m[Len(m)]
    OBVIOUS
  <2>2. Len(n) \in 1 .. Len(n) /\ Len(n) + 1 = Len(m)
    BY <1>1, <2>1
  <2>3. QED  BY <1>1, <2>2
<1>4. \A y : Has(m, y) <=> Has(n, y) \/ m[1] = y
  <2>1. SUFFICES ASSUME NEW y  PROVE Has(m, y) <=> Has(n, y) \/ m[1] = y
    OBVIOUS
  <2>2. ASSUME NEW i \in 1 .. Len(n)  PROVE i + 1 \in 1 .. Len(m) /\ n[i] = m[i + 1]
    BY <1>1
  <2>3. ASSUME NEW i \in 1 .. Len(m), i # 1  PROVE i - 1 \in 1 .. Len(n) /\ n[i - 1] = m[i]
    <3>1. i - 1 \in 1 .. Len(n) /\ (i - 1) + 1 = i
      BY <1>1, <2>3
    <3>2. QED  BY <1>1, <3>1
  <2>4. 1 \in 1 .. Len(m)
    BY <1>1
  <2>5. QED  BY <2>2, <2>3, <2>4 DEF Has
<1>5. ASSUME Alternates(m)  PROVE Alternates(n)
  <2>1. SUFFICES ASSUME NEW i \in 2 .. Len(n), n[i] = "join"  PROVE n[i - 1] = "leave"
    BY DEF Alternates
  <2>2. /\ i \in 1 .. Len(n) /\ i - 1 \in 1 .. Len(n) /\ i + 1 \in 2 .. Len(m)
        /\ (i - 1) + 1 = i /\ (i + 1) - 1 = i
    BY <1>1
  <2>3. m[i + 1] = "join" /\ n[i - 1] = m[i]
    BY <1>1, <2>1, <2>2
  <2>4. QED  BY <1>5, <2>2, <2>3 DEF Alternates
<1>6. ASSUME Alternates(m), m[1] = "join", n # <<>>  PROVE n[1] = "leave"
  <2>1. 1 \in 1 .. Len(n) /\ 2 \in 2 .. Len(m) /\ 1 + 1 = 2 /\ 2 - 1 = 1
    BY <1>1, <1>6
  <2>2. n[1] = m[2] /\ n[1] \in Messages /\ m[2] # "join"
    BY <1>1, <1>6, <2>1 DEF Alternates, Messages
  <2>3. QED  BY <2>2 DEF Messages
<1>7. QED  BY <1>1, <1>2, <1>3, <1>4, <1>5, <1>6

-----------------------------------------------------------------------------
\* A socket to which nothing happens, or that loses a handler while somebody is no member.
LEMMA SameCourse ==
  ASSUME NEW s \in Sockets, Course(s), mail'[s] = mail[s],
         s \in conn' <=> s \in conn, s \in shows' <=> s \in shows, s \in joined' <=> s \in joined,
         Pending(s)' \subseteq Pending(s),
         members' = Users => members = Users /\ Pending(s)' = Pending(s)
  PROVE  Course(s)'
<1>1. Entered(s)' => Entered(s)
  BY DEF Entered
<1>2. members' = Users /\ Entered(s) => Entered(s)'
  BY DEF Entered
<1>3. Settled(s)'
  BY <1>1, <1>2 DEF Course, Settled
<1>4. Travelling(s)'
  BY <1>1 DEF Course, Travelling
<1>5. QED  BY <1>3, <1>4 DEF Course

\* A page that shows the list, while the list stays.
LEMMA StaysUpToDate ==
  ASSUME NEW s \in Sockets, UpToDate(s), listed' = listed, seen'[s] = seen[s],
         s \in joined' \cap shows' => s \in joined \cap shows, Working => Working',
         Has(mail[s], "leave") => Has(mail'[s], "leave")
  PROVE  UpToDate(s)'
BY DEF UpToDate

\* The handlers on their way to a room, when no slot changes.
LEMMA SameHandlers ==
  ASSUME UNCHANGED op
  PROVE  (Working' <=> Working) /\ \A s \in Sockets : Pending(s)' = Pending(s)
BY DEF Working, Pending

\* Connecting, mounting and unmounting: what the tab sends keeps pace with what it shows.
LEMMA TabPages ==
  ASSUME IInv, NEW t \in Sockets, Connect(t) \/ Mount(t) \/ Unmount(t),
         NEW s \in Sockets, Course(s), UpToDate(s)
  PROVE  Course(s)' /\ UpToDate(s)'
<1>1. /\ UNCHANGED <<members, joined, listed, op>>
      /\ mail \in [Sockets -> Seq(Messages)] /\ seen \in [Sockets -> SUBSET Users]
      /\ joined \subseteq conn
  BY DEF Connect, Mount, Unmount, hash, IInv, TypeOK, Messages
<1>2. (Working' <=> Working) /\ Pending(s)' = Pending(s) /\ (Entered(s)' <=> Entered(s))
  BY <1>1, SameHandlers DEF Entered
<1>3. CASE s # t
  <2>1. /\ mail'[s] = mail[s] /\ seen'[s] = seen[s]
        /\ s \in conn' <=> s \in conn
        /\ s \in shows' <=> s \in shows
    BY <1>1, <1>3 DEF Connect, Mount, Unmount
  <2>2. Course(s)'
    BY <1>1, <1>2, <2>1, SameCourse
  <2>3. UpToDate(s)'
    BY <1>1, <1>2, <2>1, StaysUpToDate
  <2>4. QED  BY <2>2, <2>3
<1>4. ASSUME s = t, s \in conn <=> s \in conn',
             NEW x \in Messages, mail'[s] = Append(mail[s], x),
             x = "join" <=> s \in shows',
             x = "join" <=> s \notin shows,
             x = "join" => s \in conn
      PROVE  Course(s)'
  <2>1. mail[s] \in Seq(Messages) /\ x \in Messages /\ mail'[s] = Append(mail[s], x)
    BY <1>1, <1>4
  <2>2. /\ mail'[s] # <<>> /\ mail'[s][Len(mail'[s])] = x
        /\ mail'[s][1] = IF mail[s] = <<>> THEN x ELSE mail[s][1]
        /\ \A y : Has(mail'[s], y) <=> Has(mail[s], y) \/ y = x
        /\ Alternates(mail[s]) /\ (x = "join" => mail[s] = <<>> \/ mail[s][Len(mail[s])] = "leave")
             => Alternates(mail'[s])
    <3> DEFINE m == mail[s]
               n == mail'[s]
    <3>1. m \in Seq(Messages) /\ x \in Messages /\ n = Append(m, x)
      BY <2>1
    <3> HIDE DEF m, n
    <3>2. /\ n # <<>> /\ n[Len(n)] = x
          /\ n[1] = IF m = <<>> THEN x ELSE m[1]
          /\ \A y : Has(n, y) <=> Has(m, y) \/ y = x
          /\ Alternates(m) /\ (x = "join" => m = <<>> \/ m[Len(m)] = "leave") => Alternates(n)
      <4>1. n # <<>> /\ n[Len(n)] = x
        BY <3>1, Sent
      <4>2. n[1] = IF m = <<>> THEN x ELSE m[1]
        BY <3>1, Sent
      <4>3. \A y : Has(n, y) <=> Has(m, y) \/ y = x
        BY <3>1, Sent
      <4>4. Alternates(m) /\ (x = "join" => m = <<>> \/ m[Len(m)] = "leave") => Alternates(n)
        BY <3>1, Sent
      <4>5. QED  BY <4>1, <4>2, <4>3, <4>4
    <3>3. QED  BY <3>2 DEF m, n
  <2>3. s \notin conn' => ~Has(mail'[s], "join")
    BY <1>4, <2>2 DEF Course
  <2>4. Settled(s)'
    BY <2>2 DEF Settled
  <2>5. ASSUME s \in conn'  PROVE Alternates(mail'[s]) /\ (mail'[s][1] = "join" => ~Entered(s)')
    <3>1. CASE mail[s] = <<>>
      <4>1. Alternates(mail[s])
        BY <2>1, <3>1, NoMessage DEF Alternates
      <4>2. x = "join" => ~Entered(s)
        BY <1>4, <2>5, <3>1 DEF Course, Settled
      <4>3. QED  BY <1>2, <2>2, <3>1, <4>1, <4>2
    <3>2. CASE mail[s] # <<>>
      <4>1. /\ mail[s][Len(mail[s])] = "join" <=> s \in shows
            /\ mail[s][1] = "join" => ~Entered(s)
            /\ Alternates(mail[s])
        BY <1>4, <2>5, <3>2 DEF Course, Travelling
      <4>2. x = "join" => mail[s][Len(mail[s])] = "leave"
        <5>1. Len(mail[s]) \in 1 .. Len(mail[s]) /\ mail[s][Len(mail[s])] \in Messages
          BY <2>1, <3>2, NoMessage
        <5>2. QED  BY <1>4, <4>1, <5>1 DEF Messages
      <4>3. QED  BY <1>2, <2>2, <3>2, <4>1, <4>2
    <3>3. QED  BY <3>1, <3>2
  <2>6. Travelling(s)'
    BY <1>4, <2>2, <2>5 DEF Travelling
  <2>7. QED  BY <1>1, <1>2, <2>3, <2>4, <2>6 DEF Course
<1>5. CASE s = t /\ Mount(t) /\ s \in conn
  <2>1. /\ s \notin shows /\ s \in shows' /\ conn' = conn
        /\ mail'[s] = Append(mail[s], "join")
    BY <1>1, <1>5 DEF Mount
  <2>2. Course(s)'
    BY <1>4, <1>5, <2>1 DEF Messages
  <2>3. UpToDate(s)'
    <3>1. SUFFICES ASSUME s \in joined  PROVE Has(mail'[s], "leave")
      BY <1>1 DEF UpToDate
    <3>2. mail[s] \in Seq(Messages) /\ Entered(s)
      BY <1>1, <3>1 DEF Entered
    <3>3. mail[s] # <<>>
      BY <1>5, <2>1, <3>2 DEF Course, Settled
    <3>4. mail[s][Len(mail[s])] # "join"
      BY <1>5, <2>1, <3>3 DEF Course, Travelling
    <3>5. Len(mail[s]) \in 1 .. Len(mail[s]) /\ mail[s][Len(mail[s])] \in Messages
      BY <3>2, <3>3, NoMessage
    <3>6. Has(mail[s], "leave")
      BY <3>4, <3>5 DEF Has, Messages
    <3>7. QED  BY <2>1, <3>2, <3>6, Sent DEF Messages
  <2>4. QED  BY <2>2, <2>3
<1>6. CASE s = t /\ Mount(t) /\ s \notin conn
  <2>1. conn' = conn /\ mail' = mail
    BY <1>6 DEF Mount
  <2>2. Course(s)'
    BY <1>1, <1>2, <1>6, <2>1 DEF Course, Settled, Travelling
  <2>3. UpToDate(s)'
    BY <1>1, <1>6 DEF UpToDate
  <2>4. QED  BY <2>2, <2>3
<1>7. CASE s = t /\ Unmount(t)
  <2>1. /\ s \in shows /\ s \notin shows' /\ conn' = conn
        /\ mail'[s] = Append(mail[s], "leave")
    BY <1>1, <1>7 DEF Unmount
  <2>2. Course(s)'
    BY <1>4, <1>7, <2>1 DEF Messages
  <2>3. UpToDate(s)'
    BY <2>1 DEF UpToDate
  <2>4. QED  BY <2>2, <2>3
<1>8. CASE s = t /\ Connect(t)
  <2>1. /\ s \notin conn /\ s \in conn' /\ shows' = shows /\ s \notin joined
        /\ mail'[s] = mail[s] \o JoinsOnConnect(s)
    BY <1>1, <1>8 DEF Connect
  <2>2. UpToDate(s)'
    BY <1>1, <2>1 DEF UpToDate
  <2>3. ~Entered(s)
    <3>1. \A r \in Ops : op[r] # Idle /\ op[r].s = s => op[r].gone
      BY <2>1 DEF IInv, Sane
    <3>2. QED  BY <2>1, <3>1 DEF Entered, Pending
  <2>4. mail[s] \in Seq(Messages) /\ ~Has(mail[s], "join")
    BY <1>1, <2>1 DEF Course
  <2>5. \A i \in 1 .. Len(mail[s]) : mail[s][i] \in Messages /\ mail[s][i] = "leave"
    BY <2>4 DEF Has, Messages
  <2>6. Alternates(mail[s])
    BY <2>4, <2>5 DEF Alternates
  <2>7. mail[s] # <<>> => mail[s][Len(mail[s])] = "leave" /\ mail[s][1] = "leave"
    <3>1. mail[s] # <<>> => Len(mail[s]) \in 1 .. Len(mail[s]) /\ 1 \in 1 .. Len(mail[s])
      BY <2>4, NoMessage
    <3>2. QED  BY <2>5, <3>1
  <2>8. CASE s \in shows
    <3>1. mail'[s] = Append(mail[s], "join")
      BY <2>1, <2>4, <2>8 DEF JoinsOnConnect, Messages
    <3>2. mail'[s] # <<>> /\ mail'[s][Len(mail'[s])] = "join" /\ Alternates(mail'[s])
      BY <2>4, <2>6, <2>7, <3>1, Sent DEF Messages
    <3>3. QED
      BY <1>1, <1>2, <2>1, <2>2, <2>3, <2>8, <3>2 DEF Course, Settled, Travelling
  <2>9. CASE s \notin shows
    <3>1. mail'[s] = mail[s]
      BY <2>1, <2>4, <2>9 DEF JoinsOnConnect
    <3>2. QED
      BY <1>1, <1>2, <2>1, <2>2, <2>3, <2>6, <2>7, <2>9, <3>1 DEF Course, Settled, Travelling
  <2>10. QED  BY <2>8, <2>9
<1>9. QED  BY <1>3, <1>5, <1>6, <1>7, <1>8

\* A slot changes that was not and is not on its way to the room for s.
LEMMA OtherHandlers ==
  ASSUME NEW s \in Sockets, NEW r \in Ops,
         \A q \in Ops : q # r => op'[q] = op[q],
         r \notin Pending(s), r \notin Pending(s)'
  PROVE  Pending(s)' = Pending(s)
<1>1. \A q \in Ops : q \in Pending(s)' <=> q \in Pending(s)
  BY DEF Pending
<1>2. QED  BY <1>1 DEF Pending

\* A slot that is done with its socket, or has not begun, is not on its way.
LEMMA NotOnItsWay ==
  ASSUME NEW s \in Sockets, NEW r \in Ops
  PROVE  /\ op[r] = Idle \/ op[r].at \in {"remove.del", "expire", "broadcast"}
              => r \notin Pending(s)
         /\ op'[r] = Idle \/ op'[r].at \in {"remove.del", "expire", "broadcast"}
              => r \notin Pending(s)'
BY DEF Pending

\* The page's join arrives: the tab is on its way, and shows the page or has left it again.
LEMMA JoinReceivedPages ==
  ASSUME IInv, NEW r \in Ops, NEW t \in Sockets, JoinReceived(r, t),
         NEW s \in Sockets, Course(s), UpToDate(s)
  PROVE  Course(s)' /\ UpToDate(s)'
<1>1. /\ op[r] = Idle /\ t \in conn /\ mail[t] # <<>> /\ Head(mail[t]) = "join"
      /\ mail' = [mail EXCEPT ![t] = Tail(mail[t])] /\ mail \in [Sockets -> Seq(Messages)]
      /\ op' = [op EXCEPT ![r] = [at |-> "join.check", s |-> t, gone |-> FALSE]]
      /\ op \in [Ops -> {Idle} \cup Handling]
      /\ UNCHANGED <<members, conn, shows, joined, listed, seen>>
  BY DEF JoinReceived, Receive, hash, IInv, TypeOK, Messages
<1>2. /\ op'[r] = [at |-> "join.check", s |-> t, gone |-> FALSE]
      /\ \A q \in Ops : q # r => op'[q] = op[q]
  BY <1>1
<1>3. op'[r] # Idle /\ op'[r].at = "join.check" /\ op'[r].s = t /\ ~op'[r].gone
  BY <1>2 DEF Idle
<1>4. r \notin Pending(s) /\ (Working => Working')
  BY <1>1, <1>2, NotOnItsWay DEF Working
<1>5. CASE s # t
  <2>1. Pending(s)' = Pending(s)
    <3>1. r \notin Pending(s)'
      BY <1>3, <1>5 DEF Pending
    <3>2. QED  BY <1>2, <1>4, <3>1, OtherHandlers
  <2>2. mail'[s] = mail[s]
    BY <1>1, <1>5
  <2>3. Course(s)'
    BY <1>1, <2>1, <2>2, SameCourse
  <2>4. UpToDate(s)'
    BY <1>1, <1>4, <2>2, StaysUpToDate
  <2>5. QED  BY <2>3, <2>4
<1>6. CASE s = t
  <2> DEFINE m == mail[s]
             n == mail'[s]
  <2>1. m \in Seq(Messages) /\ m # <<>> /\ n = Tail(m)
    BY <1>1, <1>6
  <2>2. m[1] = "join"
    BY <1>1, <1>6, <2>1
  <2>3. /\ m[Len(m)] = "join" <=> s \in shows
        /\ ~Entered(s) /\ Alternates(m)
    BY <1>1, <1>6, <2>1, <2>2 DEF Course, Travelling
  <2> HIDE DEF m, n
  <2>4. n = <<>> => m[Len(m)] = m[1]
    BY <2>1, Received
  <2>5. n # <<>> => n[Len(n)] = m[Len(m)] /\ n[1] = "leave"
    BY <2>1, <2>2, <2>3, Received
  <2>6. Alternates(n)
    BY <2>1, <2>3, Received
  <2>7. Pending(s)' = {r}
    <3>1. Pending(s) = {}
      BY <2>3 DEF Entered
    <3>2. r \in Pending(s)'
      BY <1>3, <1>6 DEF Pending
    <3>3. \A q \in Ops : q # r => (q \in Pending(s)' <=> q \in Pending(s))
      BY <1>2 DEF Pending
    <3>4. Pending(s)' \subseteq Ops
      BY DEF Pending
    <3>5. QED  BY <3>1, <3>2, <3>3, <3>4
  <2>8. Entered(s)' /\ s \notin joined'
    BY <1>1, <2>3, <2>7 DEF Entered
  <2>9. Settled(s)'
    BY <1>1, <2>2, <2>3, <2>4, <2>8 DEF Settled, n
  <2>10. Travelling(s)'
    BY <1>1, <2>3, <2>5, <2>6 DEF Travelling, n
  <2>11. QED
    BY <1>1, <1>6, <2>7, <2>8, <2>9, <2>10 DEF Course, UpToDate
<1>7. QED  BY <1>5, <1>6

\* The look-up lets the handler go on, unless somebody is no longer a member.
LEMMA JoinCheckedPages ==
  ASSUME IInv, NEW r \in Ops, JoinChecked(r), userOf' = userOf,
         NEW s \in Sockets, Course(s), UpToDate(s)
  PROVE  Course(s)' /\ UpToDate(s)'
<1>1. /\ TypeOK /\ op[r].at = "join.check"
      /\ IF Of(r) \in members THEN Goto(r, "join.room") ELSE Finish(r)
      /\ UNCHANGED <<members, conn, shows, mail, joined, listed, seen>>
  BY DEF JoinChecked, IInv, hash
<1>2. op[r] # Idle /\ Of(r) \in Users
  BY <1>1, AtWork
<1>3. \A q \in Ops : q # r => op'[q] = op[q]
  BY <1>1, Moved, Finished
<1>4. Working => Working'
  BY <1>1, <1>3 DEF Working
<1>5. UpToDate(s)'
  BY <1>1, <1>4, StaysUpToDate
<1>6. CASE Of(r) \in members
  <2>1. op'[r] # Idle /\ op'[r].at = "join.room" /\ op'[r].s = op[r].s /\ op'[r].gone = op[r].gone
    BY <1>1, <1>6, Moved
  <2>2. \A q \in Ops : q \in Pending(s)' <=> q \in Pending(s)
    BY <1>1, <1>2, <1>3, <2>1 DEF Pending
  <2>3. Pending(s)' = Pending(s)
    BY <2>2 DEF Pending
  <2>4. QED  BY <1>1, <1>5, <2>3, SameCourse
<1>7. CASE Of(r) \notin members
  <2>1. op'[r] = Idle
    BY <1>1, <1>7, Finished
  <2>2. \A q \in Ops : q \in Pending(s)' => q \in Pending(s)
    BY <1>3, <2>1 DEF Pending
  <2>3. Pending(s)' \subseteq Pending(s)
    BY <2>2 DEF Pending
  <2>4. members' # Users
    BY <1>1, <1>2, <1>7
  <2>5. QED  BY <1>1, <1>5, <2>3, <2>4, SameCourse
<1>8. QED  BY <1>6, <1>7

\* The tab is in the room, and the handler will tell all pages.
LEMMA JoinRoomPages ==
  ASSUME IInv, NEW r \in Ops, NEW ok \in BOOLEAN, JoinRoom(r, ok), userOf' = userOf,
         why' = {}, NEW s \in Sockets, Course(s), UpToDate(s)
  PROVE  Course(s)' /\ UpToDate(s)'
<1> DEFINE t == op[r].s
<1>1. /\ TypeOK /\ op[r].at = "join.room" /\ ok
      /\ ~op[r].gone /\ t \notin joined
      /\ Goto(r, "expire")
      /\ UNCHANGED <<members, conn, shows, mail, seen>>
  BY DEF JoinRoom, Race, Fault, IInv
<1>2. op[r] # Idle /\ t \in Sockets
  BY <1>1, AtWork
<1>3. joined' = joined \cup {t}
  BY <1>1 DEF JoinRoom, Entering
<1>4. op'[r] # Idle /\ op'[r].at = "expire" /\ \A q \in Ops : q # r => op'[q] = op[q]
  BY <1>1, Moved
<1>5. UpToDate(s)'
  BY <1>4 DEF UpToDate, Working
<1>6. r \notin Pending(s)'
  BY <1>4, NotOnItsWay
<1>7. CASE s # t
  <2>1. r \notin Pending(s)
    BY <1>7 DEF Pending
  <2>2. Pending(s)' = Pending(s)
    BY <1>4, <1>6, <2>1, OtherHandlers
  <2>3. s \in joined' <=> s \in joined
    BY <1>3, <1>7
  <2>4. QED  BY <1>1, <1>5, <2>2, <2>3, SameCourse
<1>8. CASE s = t
  <2>1. r \in Pending(s)
    BY <1>1, <1>2, <1>8 DEF Pending
  <2>2. Pending(s)' = {}
    <3>1. \A q \in Ops : q # r => (q \in Pending(s)' <=> q \in Pending(s))
      BY <1>4 DEF Pending
    <3>2. \A q \in Pending(s) : q = r
      BY <2>1 DEF Course
    <3>3. QED  BY <1>6, <3>1, <3>2 DEF Pending
  <2>3. Entered(s) /\ Entered(s)'
    BY <1>3, <1>8, <2>1 DEF Entered
  <2>4. Settled(s)' /\ Travelling(s)'
    BY <1>1, <2>3 DEF Course, Settled, Travelling
  <2>5. QED  BY <1>1, <1>5, <2>2, <2>4 DEF Course
<1>9. QED  BY <1>7, <1>8

\* Of a tab that leaves or goes, the handlers know; those of other tabs do not notice.
LEMMA RemovePages ==
  ASSUME IInv, NEW r \in Ops, NEW t \in Sockets, Remove(r, t, TRUE), op[r] = Idle,
         userOf' = userOf, NEW s \in Sockets
  PROVE  /\ Working'
         /\ s # t \/ s \in conn' => Pending(s)' = Pending(s)
         /\ s = t /\ s \notin conn' => Pending(s)' = {}
<1>1. TypeOK
  BY DEF IInv
<1>2. /\ op'[r] # Idle /\ op'[r].at \in {"remove.del", "expire"}
      /\ \A q \in Ops : q # r =>
           /\ op'[q] = Idle <=> op[q] = Idle
           /\ op[q] # Idle => /\ op'[q].at = op[q].at /\ op'[q].s = op[q].s
                              /\ op'[q].gone = (op[q].gone \/ (t \notin conn' /\ op[q].s = t))
  <2> DEFINE ok == TRUE
  <2>1. ok \in BOOLEAN /\ Remove(r, t, ok) /\ ok
    OBVIOUS
  <2> HIDE DEF ok
  <2>2. /\ op' \in [Ops -> {Idle} \cup Handling]
        /\ op'[r] # Idle /\ op'[r].s = t /\ op'[r].gone = (t \notin conn') /\ Of(r)' = userOf[t]
        /\ op'[r].at = IF ~ok THEN "broadcast"
                       ELSE IF count[userOf[t]] - 1 <= 0 THEN "remove.del" ELSE "expire"
        /\ \A q \in Ops : q # r =>
             /\ op'[q] = Idle <=> op[q] = Idle
             /\ op[q] # Idle => /\ op'[q].at = op[q].at /\ op'[q].s = op[q].s
                                /\ op'[q].gone = (op[q].gone \/ (t \notin conn' /\ op[q].s = t))
                                /\ Of(q)' = Of(q)
    BY <1>1, <2>1, Removing
  <2>3. QED  BY <2>1, <2>2
<1>3. Working'
  BY <1>2 DEF Working
<1>4. r \notin Pending(s) /\ r \notin Pending(s)'
  BY <1>2, NotOnItsWay
<1>5. ASSUME s # t \/ s \in conn'  PROVE Pending(s)' = Pending(s)
  <2>1. ASSUME NEW q \in Ops, q # r  PROVE q \in Pending(s)' <=> q \in Pending(s)
    <3>1. CASE op[q] # Idle /\ op[q].s = s
      <4>1. op[q].gone \in BOOLEAN /\ ~(t \notin conn' /\ op[q].s = t)
        BY <1>1, <1>5, <3>1, AtWork
      <4>2. op'[q].gone = op[q].gone
        BY <1>2, <2>1, <3>1, <4>1
      <4>3. QED  BY <1>2, <2>1, <3>1, <4>2 DEF Pending
    <3>2. CASE ~(op[q] # Idle /\ op[q].s = s)
      BY <1>2, <2>1, <3>2 DEF Pending
    <3>3. QED  BY <3>1, <3>2
  <2>2. QED  BY <1>4, <2>1 DEF Pending
<1>6. ASSUME s = t, s \notin conn'  PROVE Pending(s)' = {}
  <2>1. \A q \in Ops : q # r => q \notin Pending(s)'
    BY <1>2, <1>6 DEF Pending
  <2>2. QED  BY <1>4, <2>1 DEF Pending
<1>7. QED  BY <1>3, <1>5, <1>6

\* A leave arrives from a tab that is in the room: it has left the page, unless it is
\* coming back, and then its join is next.
LEMMA LeavePages ==
  ASSUME IInv, NEW r \in Ops, NEW t \in Sockets, NEW ok \in BOOLEAN, LeaveReceived(r, t, ok),
         userOf' = userOf, why' = {}, NEW s \in Sockets, Course(s)
  PROVE  Course(s)' /\ UpToDate(s)'
<1>1. /\ op[r] = Idle /\ t \in conn /\ mail[t] # <<>> /\ Head(mail[t]) = "leave"
      /\ mail' = [mail EXCEPT ![t] = Tail(mail[t])] /\ mail \in [Sockets -> Seq(Messages)]
      /\ ok /\ t \in joined /\ joined' = joined \ {t}
      /\ Remove(r, t, ok)
      /\ UNCHANGED <<members, conn, shows>>
  BY DEF LeaveReceived, Receive, Forgotten, Race, Fault, IInv, TypeOK, Messages
<1>2. Remove(r, t, TRUE)
  BY <1>1
<1>3. Working' /\ Pending(s)' = Pending(s)
  <2>1. s # t \/ s \in conn'
    BY <1>1
  <2>2. QED  BY <1>1, <1>2, <2>1, RemovePages
<1>4. UpToDate(s)'
  BY <1>3 DEF UpToDate
<1>5. CASE s # t
  <2>1. mail'[s] = mail[s] /\ (s \in joined' <=> s \in joined)
    BY <1>1, <1>5
  <2>2. QED  BY <1>1, <1>3, <1>4, <2>1, SameCourse
<1>6. CASE s = t
  <2> DEFINE m == mail[s]
             n == mail'[s]
  <2>1. m \in Seq(Messages) /\ m # <<>> /\ n = Tail(m)
    BY <1>1, <1>6
  <2>2. m[1] = "leave"
    BY <1>1, <1>6, <2>1
  <2>3. (m[Len(m)] = "join" <=> s \in shows) /\ Alternates(m)
    BY <1>1, <1>6, <2>1 DEF Course, Travelling
  <2> HIDE DEF m, n
  <2>4. n = <<>> => m[Len(m)] = m[1]
    BY <2>1, Received
  <2>5. n # <<>> => n[Len(n)] = m[Len(m)]
    BY <2>1, Received
  <2>6. Alternates(n)
    BY <2>1, <2>3, Received
  <2>7. Pending(s)' = {} /\ s \notin joined' /\ ~Entered(s)'
    BY <1>1, <1>3, <1>6 DEF Course, Entered
  <2>8. Settled(s)'
    BY <1>1, <2>2, <2>3, <2>4, <2>7 DEF Settled, n
  <2>9. Travelling(s)'
    BY <1>1, <2>3, <2>5, <2>6, <2>7 DEF Travelling, n
  <2>10. QED  BY <1>1, <1>4, <1>6, <2>7, <2>8, <2>9 DEF Course
<1>7. QED  BY <1>5, <1>6

\* A socket that is gone is on no way.
LEMMA Gone ==
  ASSUME NEW s \in Sockets, s \notin conn', mail'[s] = <<>>, Pending(s)' = {}
  PROVE  Course(s)'
BY DEF Course, Settled, Travelling, Has

\* A connection that is lost.
LEMMA DisconnectPages ==
  ASSUME IInv, NEW t \in Sockets,
         \/ DisconnectUnjoined(t)
         \/ \E r \in Ops, ok \in BOOLEAN : Disconnect(r, t, ok),
         userOf' = userOf, why' = {}, NEW s \in Sockets, Course(s), UpToDate(s)
  PROVE  Course(s)' /\ UpToDate(s)'
<1>1. /\ conn' = conn \ {t} /\ mail' = [mail EXCEPT ![t] = <<>>]
      /\ mail \in [Sockets -> Seq(Messages)]
      /\ joined' = joined \ {t} /\ UNCHANGED <<members, shows, seen>>
  BY DEF Disconnect, DisconnectUnjoined, IInv, TypeOK, Messages
<1>2. /\ s # t => Pending(s)' = Pending(s)
      /\ s = t => Pending(s)' = {}
      /\ Working' \/ (listed' = listed /\ (Working => Working'))
  <2>1. CASE DisconnectUnjoined(t)
    <3>1. \A q \in Ops :
            /\ op'[q] = Idle <=> op[q] = Idle
            /\ op[q] # Idle => /\ op'[q].at = op[q].at /\ op'[q].s = op[q].s
                               /\ op'[q].gone = (op[q].gone \/ op[q].s = t)
      BY <2>1, Marked
    <3>2. s # t => Pending(s)' = Pending(s)
      <4>1. SUFFICES ASSUME s # t, NEW q \in Ops  PROVE q \in Pending(s)' <=> q \in Pending(s)
        BY DEF Pending
      <4>2. CASE op[q] # Idle /\ op[q].s = s
        <5>1. op[q].gone \in BOOLEAN
          BY <4>2, AtWork DEF IInv
        <5>2. op'[q].gone = op[q].gone
          BY <3>1, <4>1, <4>2, <5>1
        <5>3. QED  BY <3>1, <4>2, <5>2 DEF Pending
      <4>3. CASE ~(op[q] # Idle /\ op[q].s = s)
        BY <3>1, <4>3 DEF Pending
      <4>4. QED  BY <4>2, <4>3
    <3>3. s = t => Pending(s)' = {}
      BY <3>1 DEF Pending
    <3>4. listed' = listed /\ (Working => Working')
      BY <2>1, <3>1 DEF DisconnectUnjoined, hash, Working
    <3>5. QED  BY <3>2, <3>3, <3>4
  <2>2. CASE \E r \in Ops, ok \in BOOLEAN : Disconnect(r, t, ok)
    <3>1. PICK r \in Ops, ok \in BOOLEAN : Disconnect(r, t, ok)
      BY <2>2
    <3>2. ok
      BY <3>1 DEF Disconnect, Fault
    <3>3. op[r] = Idle /\ Remove(r, t, TRUE) /\ t \notin conn'
      BY <1>1, <3>1, <3>2 DEF Disconnect
    <3>4. /\ Working'
          /\ s # t \/ s \in conn' => Pending(s)' = Pending(s)
          /\ s = t /\ s \notin conn' => Pending(s)' = {}
      BY <3>3, RemovePages
    <3>5. QED  BY <3>3, <3>4
  <2>3. QED  BY <2>1, <2>2
<1>3. CASE s = t
  <2>1. s \notin conn' /\ mail'[s] = <<>> /\ Pending(s)' = {}
    BY <1>1, <1>2, <1>3
  <2>2. Course(s)'
    BY <2>1, Gone
  <2>3. UpToDate(s)'
    BY <1>1, <1>3 DEF UpToDate
  <2>4. QED  BY <2>2, <2>3
<1>4. CASE s # t
  <2>1. /\ mail'[s] = mail[s] /\ Pending(s)' = Pending(s)
        /\ s \in conn' <=> s \in conn
        /\ s \in joined' <=> s \in joined
    BY <1>1, <1>2, <1>4
  <2>2. Course(s)'
    BY <1>1, <2>1, SameCourse
  <2>3. CASE Working'
    BY <2>2, <2>3 DEF UpToDate
  <2>4. CASE listed' = listed /\ (Working => Working')
    BY <1>1, <2>1, <2>2, <2>4, StaysUpToDate
  <2>5. QED  BY <1>2, <2>3, <2>4
<1>5. QED  BY <1>3, <1>4

\* After the room the handler changes the list and goes on to the broadcast.
LEMMA ListPages ==
  ASSUME IInv, NEW r \in Ops, NEW ok \in BOOLEAN, RemoveField(r, ok) \/ SetExpiry(r, ok),
         userOf' = userOf, NEW s \in Sockets, Course(s)
  PROVE  Course(s)' /\ UpToDate(s)'
<1>1. PICK at \in {"expire", "broadcast"} :
        /\ TypeOK /\ op[r].at \in {"remove.del", "expire"} /\ Goto(r, at)
        /\ UNCHANGED <<members, conn, shows, mail, joined, seen>>
  BY DEF RemoveField, SetExpiry, IInv
<1>2. op'[r] # Idle /\ op'[r].at = at /\ \A q \in Ops : q # r => op'[q] = op[q]
  BY <1>1, Moved
<1>3. Pending(s)' = Pending(s)
  BY <1>1, <1>2, NotOnItsWay, OtherHandlers
<1>4. UpToDate(s)'
  BY <1>2 DEF UpToDate, Working
<1>5. QED  BY <1>1, <1>3, <1>4, SameCourse

\* The broadcast reaches every page in the room.
LEMMA BroadcastPages ==
  ASSUME IInv, NEW r \in Ops, NEW ok \in BOOLEAN, Broadcast(r, ok), userOf' = userOf,
         why' = {}, NEW s \in Sockets, Course(s)
  PROVE  Course(s)' /\ UpToDate(s)'
<1>1. /\ TypeOK /\ op[r].at = "broadcast" /\ Finish(r) /\ ok
      /\ UNCHANGED <<members, conn, shows, mail, joined, listed>>
      /\ seen' = [q \in Sockets |-> IF q \in joined \cap shows THEN listed ELSE seen[q]]
  BY DEF Broadcast, Told, Fault, hash, IInv
<1>2. op'[r] = Idle /\ \A q \in Ops : q # r => op'[q] = op[q]
  BY <1>1, Finished
<1>3. Pending(s)' = Pending(s)
  BY <1>1, <1>2, NotOnItsWay, OtherHandlers
<1>4. UpToDate(s)'
  BY <1>1 DEF UpToDate
<1>5. QED  BY <1>1, <1>3, <1>4, SameCourse

\* Somebody is removed, or nothing happens.
LEMMA QuietPages ==
  ASSUME (\E u \in Users : RemoveMember(u)) \/ UNCHANGED vars,
         NEW s \in Sockets, Course(s), UpToDate(s)
  PROVE  Course(s)' /\ UpToDate(s)'
<1>1. /\ members' = Users => members = Users
      /\ UNCHANGED <<conn, shows, mail, joined, listed, op, seen>>
  BY DEF RemoveMember, vars, hash
<1>2. (Working' <=> Working) /\ Pending(s)' = Pending(s)
  BY <1>1, SameHandlers
<1>3. Course(s)'
  BY <1>1, <1>2, SameCourse
<1>4. UpToDate(s)'
  BY <1>1, <1>2, StaysUpToDate
<1>5. QED  BY <1>3, <1>4

-----------------------------------------------------------------------------
\* What has gone wrong stays on record.
LEMMA NothingForgotten == [Next]_vars /\ why' = {} => why = {}
BY DEF Next, Step, TabStep, HandlerStep, Connect, Mount, Unmount, DisconnectUnjoined, JoinReceived,
   JoinChecked, JoinRoom, LeaveReceived, Disconnect, RemoveField, SetExpiry, Broadcast, Expire,
   Crash, RemoveMember, Race, Fault, vars

\* Every step keeps the tabs on course, unless it is one of the reasons.
LEMMA PagesStep == IInv /\ PagesInv /\ [Next]_vars => PagesInv'
<1> SUFFICES ASSUME IInv, PagesInv, [Next]_vars, why' = {}, NEW s \in Sockets
             PROVE  Course(s)' /\ UpToDate(s)'
  BY DEF PagesInv, Course, UpToDate, Settled, Travelling, Entered, Pending, Working
<1>1. Course(s) /\ UpToDate(s)
  BY NothingForgotten DEF PagesInv
<1>2. CASE Next
  <2>1. Step /\ userOf' = userOf
    BY <1>2 DEF Next
  <2>2. ASSUME NEW t \in Sockets, TabStep(t)  PROVE Course(s)' /\ UpToDate(s)'
    BY <1>1, <2>1, <2>2, TabPages, DisconnectPages DEF TabStep
  <2>3. ASSUME NEW r \in Ops, HandlerStep(r)  PROVE Course(s)' /\ UpToDate(s)'
    BY <1>1, <2>1, <2>3, JoinCheckedPages, JoinRoomPages, ListPages, BroadcastPages
       DEF HandlerStep
  <2>4. ASSUME NEW r \in Ops, NEW t \in Sockets, NEW ok \in BOOLEAN,
               JoinReceived(r, t) \/ LeaveReceived(r, t, ok) \/ Disconnect(r, t, ok)
        PROVE  Course(s)' /\ UpToDate(s)'
    BY <1>1, <2>1, <2>4, JoinReceivedPages, LeavePages, DisconnectPages
  <2>5. ~Expire /\ ~Crash
    BY DEF Expire, Crash, Fault
  <2>6. QED  BY <1>1, <2>1, <2>2, <2>3, <2>4, <2>5, QuietPages DEF Step
<1>3. QED  BY <1>1, <1>2, QuietPages

\* At first all tabs are away and nothing is under way.
LEMMA PagesInit == Init => PagesInv
<1> SUFFICES ASSUME Init, NEW s \in Sockets  PROVE Course(s) /\ UpToDate(s)
  BY DEF PagesInv
<1>1. mail[s] = <<>> /\ s \notin conn /\ s \notin joined /\ Pending(s) = {}
  BY DEF Init, Pending
<1>2. ~Has(mail[s], "join")
  BY <1>1 DEF Has
<1>3. QED  BY <1>1, <1>2 DEF Course, Settled, Travelling, UpToDate

\* Tabs stay on course in every reachable state.
THEOREM PagesInvariance == Spec => []PagesInv
<1>1. QED  BY PagesInit, PagesStep, Invariance, PTL DEF Spec

\* Once all is handled, every page in the room shows exactly the users with a socket in
\* the room, and unless a member was removed these are the tabs that show a page: for any
\* number of users, tabs and handlers, and however their messages and handlers interleave.
THEOREM PagesAreRight == Spec => []PagesShowWhoIsOnline
<1>1. IInv /\ PagesInv => PagesShowWhoIsOnline
  <2> SUFFICES ASSUME IInv, PagesInv, why = {}, \A r \in Ops : op[r] = Idle,
                      \A s \in Sockets : mail[s] = <<>>
               PROVE  /\ \A s \in joined \cap shows : seen[s] = {u \in Users : JoinedOf(u) # {}}
                      /\ members = Users => joined = conn \cap shows
    BY DEF PagesShowWhoIsOnline
  <2>1. \A s \in Sockets : Course(s) /\ UpToDate(s)
    BY DEF PagesInv
  <2>2. ~Working /\ \A s \in Sockets : Pending(s) = {} /\ ~Has(mail[s], "leave")
    BY DEF Working, Pending, Has
  <2>3. joined \subseteq conn /\ conn \subseteq Sockets /\ listed \subseteq Users
    BY DEF IInv, TypeOK
  <2>4. \A u \in Users : u \in listed <=> JoinedOf(u) # {}
    <3>1. SUFFICES ASSUME NEW u \in Users  PROVE u \in listed <=> JoinedOf(u) # {}
      OBVIOUS
    <3>2. count[u] = Cardinality(JoinedOf(u)) /\ Cardinality(JoinedOf(u)) \in Nat
      BY CountsAreNatural DEF IInv, MiscountsHaveAReason
    <3>3. IsFiniteSet(JoinedOf(u))
      BY <2>3, FS_Subset, SocketsAssumption DEF JoinedOf
    <3>4. JoinedOf(u) = {} <=> Cardinality(JoinedOf(u)) = 0
      BY <3>3, FS_EmptySet
    <3>5. u \in listed => count[u] > 0
      BY DEF IInv, NobodyIsListedAtZero
    <3>6. u \notin listed => count[u] = 0
      BY DEF IInv, Sane
    <3>7. QED  BY <3>2, <3>4, <3>5, <3>6
  <2>5. listed = {u \in Users : JoinedOf(u) # {}}
    BY <2>3, <2>4
  <2>6. \A s \in joined \cap shows : seen[s] = listed
    BY <2>1, <2>2, <2>3 DEF UpToDate
  <2>7. ASSUME members = Users  PROVE joined = conn \cap shows
    <3>1. ASSUME NEW s \in Sockets  PROVE s \in joined <=> s \in conn /\ s \in shows
      BY <2>1, <2>2, <2>3, <2>7, <3>1 DEF Course, Settled, Entered
    <3>2. QED  BY <2>3, <3>1
  <2>8. QED  BY <2>5, <2>6, <2>7
<1>2. QED  BY <1>1, Invariance, PagesInvariance, PTL
=============================================================================
