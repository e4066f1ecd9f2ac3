---------------------------- MODULE RedisProofs ----------------------------
(***************************************************************************)
(* Proofs about what the API keeps in Redis and what depends on it.  Of    *)
(* ThrottledWalk: the rate limit, for any limit and any number of requests *)
(* that are counted at once, whatever is done behind it; and the walk      *)
(* through the pages, for any finite set of tasks and any page size, where *)
(* a page takes the first tasks of a linear order.  Of WorkspaceCache: for *)
(* any number of concurrent requests and writes, the cache is stale only   *)
(* for the reasons that StaleForAReason lists.                             *)
(***************************************************************************)
EXTENDS ThrottledWalk, WorkspaceCache, FiniteSetTheorems, TLAPS

\* The requests let through and those on their way are among the hits.
GrantsAreCounted ==
  /\ granted + Cardinality(T!OnTheirWay) <= hits
  /\ granted + Cardinality(T!OnTheirWay) <= Limit

IInv == T!TypeOK /\ GrantsAreCounted /\ EveryWindowEnds

\* What a request is doing.
Places == [at: {"idle", "incr", "pexpire", "compare", "handler"},
           totalHits: 0 .. Limit + 1, late: BOOLEAN]

-----------------------------------------------------------------------------
\* The walk does to the counter what the requests of Throttle do.
LEMMA ImplementsThrottle == [Next]_vars => [T!Next]_(T!vars)
<1> SUFFICES ASSUME [Next]_vars  PROVE [T!Next]_(T!vars)
  OBVIOUS
<1>1. CASE UNCHANGED <<throttle>>
  BY <1>1 DEF throttle, T!vars, T!redis
<1>2. CASE \E c \in Calls : \/ T!CheckBlock(c) \/ T!Incr(c) \/ T!Pexpire(c) \/ T!LetThrough(c)
                            \/ T!Block(c) \/ T!Handled(c) \/ T!Fail(c)
  BY <1>2 DEF T!Next
<1>3. CASE T!WindowEnds \/ T!BlockEnds
  BY <1>3 DEF T!Next
<1>4. QED
  BY <1>1, <1>2, <1>3, WalkerAssumption
     DEF Next, vars, Ask, PageServed, Time, OthersWrite, Guard, Counting, Fails, OtherAsks,
         OtherServed

\* How many requests are on their way.
LEMMA OnTheirWayIsFinite ==
  IsFiniteSet(T!OnTheirWay) /\ Cardinality(T!OnTheirWay) \in Nat
<1>1. T!OnTheirWay \subseteq Calls
  BY DEF T!OnTheirWay
<1>2. IsFiniteSet(T!OnTheirWay)
  BY <1>1, CallsAssumption, FS_Subset
<1>3. QED  BY <1>2, FS_CardinalityType

\* The counter is not there at first.
LEMMA InitOK == Init => IInv
<1> SUFFICES ASSUME Init  PROVE IInv
  OBVIOUS
<1>1. call \in [Calls -> Places] /\ \A c \in Calls : call[c].at = "idle"
  BY LimitAssumption DEF Init, T!Init, T!Idle, Places
<1>2. /\ hits = 0 /\ ~expires /\ ~block /\ granted = 0 /\ stuck = FALSE /\ faults = 0
      /\ expires \in BOOLEAN /\ block \in BOOLEAN
  BY DEF Init, T!Init
<1>3. 0 \in 0 .. Limit + 1 /\ 0 \in 0 .. MaxFaults /\ 0 <= Limit
  BY LimitAssumption
<1>4. T!TypeOK
  BY <1>1, <1>2, <1>3 DEF T!TypeOK, Places
<1>5. Cardinality(T!OnTheirWay) = 0
  <2>1. T!OnTheirWay = {}
    BY <1>1 DEF T!OnTheirWay, T!IsCounted
  <2>2. QED  BY <2>1, FS_EmptySet
<1>6. GrantsAreCounted /\ EveryWindowEnds
  BY <1>2, <1>3, <1>5 DEF GrantsAreCounted, EveryWindowEnds, T!EveryWindowEnds
<1>7. QED  BY <1>4, <1>6 DEF IInv

\* A step of one request leaves the others where they are.
LEMMA OthersStay ==
  ASSUME IInv, NEW c \in Calls, NEW q \in Places, call' = [call EXCEPT ![c] = q]
  PROVE  /\ call' \in [Calls -> Places] /\ call'[c] = q
         /\ \A d \in Calls \ {c} : call'[d] = call[d]
         /\ \A d \in Calls : d # c => (d \in T!OnTheirWay' <=> d \in T!OnTheirWay)
         /\ c \in T!OnTheirWay' <=>
              q.at \in {"pexpire", "compare"} /\ ~q.late /\ q.totalHits <= Limit
         /\ c \in T!OnTheirWay <=>
              call[c].at \in {"pexpire", "compare"} /\ ~call[c].late /\ call[c].totalHits <= Limit
         /\ IsFiniteSet(T!OnTheirWay') /\ Cardinality(T!OnTheirWay)' \in Nat
<1>1. /\ call' \in [Calls -> Places] /\ call'[c] = q
      /\ \A d \in Calls \ {c} : call'[d] = call[d]
  BY DEF IInv, T!TypeOK, Places
<1>2. T!OnTheirWay' \subseteq Calls /\ T!OnTheirWay \subseteq Calls
  BY DEF T!OnTheirWay
<1>3. IsFiniteSet(T!OnTheirWay') /\ Cardinality(T!OnTheirWay)' \in Nat
  BY <1>2, CallsAssumption, FS_Subset, FS_CardinalityType
<1>4. QED  BY <1>1, <1>2, <1>3 DEF T!OnTheirWay, T!IsCounted

\* A hit that is counted: it is on its way if it is within the limit, and the first of a
\* window is about to set the window's expiry.
LEMMA IncrOK ==
  ASSUME IInv, NEW c \in Calls, T!Incr(c)
  PROVE  IInv'
<1> DEFINE q == [at |-> IF hits' = 1 THEN "pexpire" ELSE "compare",
                 totalHits |-> hits', late |-> FALSE]
           n == Cardinality(T!OnTheirWay)
<1>1. /\ hits \in 0 .. Limit + 1 /\ granted \in Nat /\ Limit \in Nat \ {0} /\ n \in Nat
      /\ granted + n <= hits /\ granted + n <= Limit
  BY LimitAssumption, OnTheirWayIsFinite DEF IInv, T!TypeOK, GrantsAreCounted
<1>2. /\ hits' = IF hits + 1 > Limit + 1 THEN Limit + 1 ELSE hits + 1
      /\ UNCHANGED <<expires, block, granted, stuck, faults>>
      /\ call' = [call EXCEPT ![c] = q]
      /\ call[c].at = "incr"
  BY DEF T!Incr, T!AtMost, T!IsFirst
<1>3. hits' \in 1 .. Limit + 1
  BY <1>1, <1>2
<1>4. q \in Places
  BY <1>1, <1>3 DEF Places
<1>5. /\ call' \in [Calls -> Places] /\ call'[c] = q
      /\ \A d \in Calls \ {c} : call'[d] = call[d]
      /\ \A d \in Calls : d # c => (d \in T!OnTheirWay' <=> d \in T!OnTheirWay)
      /\ c \in T!OnTheirWay' <=>
           q.at \in {"pexpire", "compare"} /\ ~q.late /\ q.totalHits <= Limit
      /\ c \notin T!OnTheirWay
  BY <1>2, <1>4, OthersStay
<1>6. T!TypeOK'
  BY <1>1, <1>2, <1>3, <1>5 DEF IInv, T!TypeOK, Places
<1>7. GrantsAreCounted'
  <2>1. T!OnTheirWay \subseteq Calls /\ T!OnTheirWay' \subseteq Calls
    BY DEF T!OnTheirWay
  <2>2. CASE hits' <= Limit
    <3>1. T!OnTheirWay' = T!OnTheirWay \cup {c}
      BY <1>5, <2>1, <2>2
    <3>2. Cardinality(T!OnTheirWay') = n + 1
      BY <1>5, <3>1, OnTheirWayIsFinite, FS_AddElement
    <3>3. hits' = hits + 1
      BY <1>1, <1>2, <2>2
    <3>4. QED  BY <1>1, <1>2, <2>2, <3>2, <3>3 DEF GrantsAreCounted
  <2>3. CASE ~(hits' <= Limit)
    <3>1. T!OnTheirWay' = T!OnTheirWay
      BY <1>5, <2>1, <2>3
    <3>2. Cardinality(T!OnTheirWay') = n /\ hits' >= Limit
      BY <1>1, <1>3, <2>3, <3>1
    <3>3. QED  BY <1>1, <1>2, <1>3, <3>2 DEF GrantsAreCounted
  <2>4. QED  BY <2>2, <2>3
<1>8. EveryWindowEnds'
  <2>1. CASE hits' = 1
    <3>1. call'[c].at = "pexpire"
      BY <1>5, <2>1
    <3>2. QED  BY <3>1 DEF EveryWindowEnds, T!EveryWindowEnds
  <2>2. CASE hits' # 1
    <3>1. hits > 0
      BY <1>1, <1>2, <2>2
    <3>2. \A d \in Calls : call[d].at = "pexpire" => call'[d].at = "pexpire"
      BY <1>2, <1>5
    <3>3. QED  BY <1>2, <3>1, <3>2 DEF IInv, EveryWindowEnds, T!EveryWindowEnds
  <2>3. QED  BY <2>1, <2>2
<1>9. QED  BY <1>6, <1>7, <1>8 DEF IInv

\* A step that counts nothing: it takes a request off its way, or leaves it there.
LEMMA CountsNothing ==
  ASSUME IInv, NEW c \in Calls, NEW q \in Places, call' = [call EXCEPT ![c] = q],
         UNCHANGED hits, granted' \in Nat,
         \/ granted' = granted /\ (c \in T!OnTheirWay' => c \in T!OnTheirWay)
         \/ granted' = granted + 1 /\ c \in T!OnTheirWay /\ c \notin T!OnTheirWay'
  PROVE  GrantsAreCounted'
<1> DEFINE n == Cardinality(T!OnTheirWay)
           m == Cardinality(T!OnTheirWay')
<1>1. /\ granted \in Nat /\ hits \in Nat /\ Limit \in Nat /\ n \in Nat
      /\ granted + n <= hits /\ granted + n <= Limit
  BY LimitAssumption, OnTheirWayIsFinite DEF IInv, T!TypeOK, GrantsAreCounted
<1>2. /\ T!OnTheirWay \subseteq Calls /\ T!OnTheirWay' \subseteq Calls
      /\ \A d \in Calls : d # c => (d \in T!OnTheirWay' <=> d \in T!OnTheirWay)
      /\ IsFiniteSet(T!OnTheirWay') /\ m \in Nat
  BY OthersStay DEF T!OnTheirWay
<1>3. CASE granted' = granted
  <2>1. T!OnTheirWay' \subseteq T!OnTheirWay
    BY <1>2, <1>3, <1>1
  <2>2. m <= n
    BY <2>1, OnTheirWayIsFinite, FS_Subset
  <2>3. QED  BY <1>1, <1>2, <1>3, <2>2 DEF GrantsAreCounted
<1>4. CASE granted' = granted + 1 /\ c \in T!OnTheirWay /\ c \notin T!OnTheirWay'
  <2>1. T!OnTheirWay' = T!OnTheirWay \ {c}
    BY <1>2, <1>4
  <2>2. m = n - 1
    BY <1>4, <2>1, OnTheirWayIsFinite, FS_RemoveElement
  <2>3. QED  BY <1>1, <1>2, <1>4, <2>2 DEF GrantsAreCounted
<1>5. QED  BY <1>3, <1>4

\* The other commands and answers leave the counter alone.
LEMMA RequestOK ==
  ASSUME IInv, NEW c \in Calls,
         \/ T!CheckBlock(c) \/ T!Pexpire(c) \/ T!LetThrough(c)
         \/ T!Block(c) \/ T!Handled(c) \/ T!Fail(c)
  PROVE  IInv'
<1>0. /\ call \in [Calls -> Places] /\ call[c] \in Places
      /\ granted \in Nat /\ Limit \in Nat
  BY LimitAssumption DEF IInv, T!TypeOK, Places
<1>1. PICK q \in Places :
        /\ call' = [call EXCEPT ![c] = q]
        /\ q.at \in {"idle", "incr", "compare", "handler"}
        /\ q.at = "compare" => q.late = call[c].late /\ q.totalHits = call[c].totalHits
        /\ q.at = "compare" <=> T!Pexpire(c)
        /\ q.at = "handler" <=> T!LetThrough(c)
  <2>1. T!Idle \in Places /\ T!Idle.at = "idle"
    BY <1>0 DEF T!Idle, Places
  <2>2. CASE T!CheckBlock(c)
    <3> DEFINE q == [call[c] EXCEPT !.at = "incr"]
    <3>1. q \in Places /\ q.at = "incr"
      BY <1>0 DEF Places
    <3>2. call' = [call EXCEPT ![c] = q] /\ call[c].at = "idle"
      BY <2>2 DEF T!CheckBlock
    <3>3. ~T!Pexpire(c) /\ ~T!LetThrough(c)
      BY <3>2 DEF T!Pexpire, T!LetThrough
    <3> HIDE DEF q
    <3>4. QED  BY <3>1, <3>2, <3>3
  <2>3. CASE T!Block(c) \/ T!Handled(c) \/ T!Fail(c)
    <3>1. call' = [call EXCEPT ![c] = T!Idle]
      BY <2>3 DEF T!Block, T!Handled, T!Fail
    <3>2. call'[c].at = "idle"
      BY <1>0, <2>1, <3>1
    <3>3. ~T!Pexpire(c) /\ ~T!LetThrough(c)
      <4>1. T!Pexpire(c) => call'[c].at = "compare"
        BY <1>0 DEF T!Pexpire, Places
      <4>2. T!LetThrough(c) => call'[c].at = "handler"
        BY <1>0 DEF T!LetThrough, T!Idle
      <4>3. QED  BY <3>2, <4>1, <4>2
    <3>4. QED  BY <2>1, <3>1, <3>3
  <2>4. CASE T!Pexpire(c)
    <3> DEFINE q == [call[c] EXCEPT !.at = "compare"]
    <3>1. /\ q \in Places /\ q.at = "compare" /\ q.late = call[c].late
          /\ q.totalHits = call[c].totalHits
      BY <1>0 DEF Places
    <3>2. call' = [call EXCEPT ![c] = q] /\ call[c].at = "pexpire"
      BY <2>4 DEF T!Pexpire
    <3>3. ~T!LetThrough(c)
      BY <3>2 DEF T!LetThrough
    <3> HIDE DEF q
    <3>4. QED  BY <2>4, <3>1, <3>2, <3>3
  <2>5. CASE T!LetThrough(c)
    <3> DEFINE q == [T!Idle EXCEPT !.at = "handler"]
    <3>1. q \in Places /\ q.at = "handler"
      BY <2>1 DEF Places
    <3>2. call' = [call EXCEPT ![c] = q] /\ call[c].at = "compare"
      BY <2>5 DEF T!LetThrough
    <3>3. ~T!Pexpire(c)
      BY <3>2 DEF T!Pexpire
    <3> HIDE DEF q
    <3>4. QED  BY <2>5, <3>1, <3>2, <3>3
  <2>6. QED  BY <2>2, <2>3, <2>4, <2>5
<1>2. /\ UNCHANGED hits /\ block' \in BOOLEAN
      /\ stuck' \in BOOLEAN /\ faults' \in 0 .. MaxFaults
      /\ expires' \in BOOLEAN /\ (expires' => hits > 0)
      /\ granted' = IF T!LetThrough(c) /\ ~call[c].late THEN granted + 1 ELSE granted
  <2>1. /\ hits \in Nat /\ expires \in BOOLEAN /\ block \in BOOLEAN /\ (expires => hits > 0)
        /\ stuck \in BOOLEAN /\ faults \in 0 .. MaxFaults /\ MaxFaults \in Nat
    BY LimitAssumption DEF IInv, T!TypeOK
  <2>2. CASE T!Pexpire(c)
    <3>1. ~T!LetThrough(c)
      BY <2>2 DEF T!Pexpire, T!LetThrough
    <3>2. QED  BY <2>1, <2>2, <3>1 DEF T!Pexpire
  <2>3. CASE T!Fail(c)
    <3>1. faults < MaxFaults /\ faults' = faults + 1 /\ stuck' \in BOOLEAN
      BY <2>3 DEF T!Fail
    <3>2. faults' \in 0 .. MaxFaults
      BY <2>1, <3>1
    <3>3. UNCHANGED <<hits, expires, block, granted>>
      BY <2>3 DEF T!Fail, T!redis
    <3>4. call'[c] = T!Idle
      BY <1>0, <2>3 DEF T!Fail
    <3>5. T!LetThrough(c) => call'[c].at = "handler"
      BY <1>0 DEF T!LetThrough, T!Idle
    <3>6. ~T!LetThrough(c)
      BY <3>4, <3>5 DEF T!Idle
    <3>7. QED  BY <2>1, <3>1, <3>2, <3>3, <3>6
  <2>4. CASE T!CheckBlock(c) \/ T!Handled(c)
    <3>1. call[c].at \in {"idle", "handler"}
      BY <2>4 DEF T!CheckBlock, T!Handled
    <3>2. ~T!LetThrough(c)
      BY <3>1 DEF T!LetThrough
    <3>3. QED  BY <2>1, <2>4, <3>2 DEF T!CheckBlock, T!Handled, T!redis
  <2>5. CASE T!Block(c)
    <3>1. ~T!LetThrough(c)
      BY <2>5 DEF T!Block, T!LetThrough
    <3>2. QED  BY <2>1, <2>5, <3>1 DEF T!Block
  <2>6. CASE T!LetThrough(c)
    BY <2>1, <2>6 DEF T!LetThrough, T!redis
  <2>7. QED  BY <2>2, <2>3, <2>4, <2>5, <2>6
<1>3. T!TypeOK'
  <2>1. call' \in [Calls -> Places] /\ granted' \in Nat
    BY <1>0, <1>1, <1>2
  <2>2. QED  BY <1>2, <2>1 DEF IInv, T!TypeOK, Places
<1>4. GrantsAreCounted'
  <2>1. /\ c \in T!OnTheirWay' <=>
             q.at \in {"pexpire", "compare"} /\ ~q.late /\ q.totalHits <= Limit
        /\ c \in T!OnTheirWay <=>
             /\ call[c].at \in {"pexpire", "compare"}
             /\ ~call[c].late /\ call[c].totalHits <= Limit
    BY <1>1, OthersStay
  <2>2. granted' \in Nat
    BY <1>0, <1>2
  <2>3. CASE T!LetThrough(c) /\ ~call[c].late
    <3>1. call[c].at = "compare" /\ ~(call[c].totalHits > Limit)
      BY <2>3 DEF T!LetThrough, T!IsBlocked
    <3>2. call[c].totalHits <= Limit
      BY <1>0, <3>1 DEF Places
    <3>3. c \in T!OnTheirWay /\ c \notin T!OnTheirWay'
      BY <1>1, <2>1, <2>3, <3>1, <3>2
    <3>4. granted' = granted + 1
      BY <1>2, <2>3
    <3>5. QED  BY <1>1, <1>2, <2>2, <3>3, <3>4, CountsNothing
  <2>4. CASE ~(T!LetThrough(c) /\ ~call[c].late)
    <3>1. granted' = granted
      BY <1>2, <2>4
    <3>2. c \in T!OnTheirWay' => c \in T!OnTheirWay
      <4>1. T!Pexpire(c) => call[c].at = "pexpire"
        BY DEF T!Pexpire
      <4>2. QED  BY <1>1, <2>1, <4>1
    <3>3. QED  BY <1>1, <1>2, <2>2, <3>1, <3>2, CountsNothing
  <2>5. QED  BY <2>3, <2>4
<1>5. EveryWindowEnds'
  <2>1. CASE T!Pexpire(c)
    BY <1>2, <2>1 DEF T!Pexpire, EveryWindowEnds, T!EveryWindowEnds
  <2>2. CASE T!Fail(c) /\ call[c].at = "pexpire"
    BY <2>2 DEF T!Fail, EveryWindowEnds, T!EveryWindowEnds
  <2>3. CASE ~T!Pexpire(c) /\ call[c].at # "pexpire"
    <3>1. \A d \in Calls : call[d].at = "pexpire" => call'[d].at = "pexpire"
      BY <1>0, <1>1, <2>3
    <3>2. expires' = expires /\ (stuck => stuck')
      <4>1. CASE T!CheckBlock(c) \/ T!LetThrough(c) \/ T!Handled(c)
        BY <4>1 DEF T!CheckBlock, T!LetThrough, T!Handled, T!redis
      <4>2. CASE T!Block(c)
        BY <4>2 DEF T!Block
      <4>3. CASE T!Fail(c)
        BY <4>3 DEF T!Fail, T!redis
      <4>4. QED  BY <2>3, <4>1, <4>2, <4>3
    <3>3. QED  BY <1>2, <3>1, <3>2 DEF IInv, EveryWindowEnds, T!EveryWindowEnds
  <2>4. QED
    BY <2>1, <2>2, <2>3 DEF T!CheckBlock, T!LetThrough, T!Block, T!Handled
<1>6. QED  BY <1>3, <1>4, <1>5 DEF IInv

\* The window ends: nobody is on the way that it has counted.
LEMMA WindowEndsOK ==
  ASSUME IInv, T!WindowEnds
  PROVE  IInv'
<1>1. /\ hits' = 0 /\ expires' = FALSE /\ granted' = 0
      /\ UNCHANGED <<block, stuck, faults>>
      /\ call' = [c \in Calls |-> [call[c] EXCEPT !.late = T!IsCounted(c)]]
  BY DEF T!WindowEnds
<1>2. call \in [Calls -> Places] /\ Limit \in Nat
  BY LimitAssumption DEF IInv, T!TypeOK, Places
<1>3. \A c \in Calls :
        /\ call'[c] \in Places /\ call'[c].at = call[c].at
        /\ T!IsCounted(c) => call'[c].late
  <2> SUFFICES ASSUME NEW c \in Calls
               PROVE  /\ call'[c] \in Places /\ call'[c].at = call[c].at
                      /\ T!IsCounted(c) => call'[c].late
    OBVIOUS
  <2> DEFINE b == T!IsCounted(c)
  <2>1. b \in BOOLEAN /\ call[c] \in Places
    BY <1>2 DEF T!IsCounted
  <2>2. call'[c] = [call[c] EXCEPT !.late = b]
    BY <1>1
  <2> HIDE DEF b
  <2>3. call'[c] \in Places /\ call'[c].at = call[c].at /\ call'[c].late = b
    BY <2>1, <2>2 DEF Places
  <2>4. QED  BY <2>3 DEF b
<1>4. 0 \in 0 .. Limit + 1 /\ 0 <= Limit /\ FALSE \in BOOLEAN /\ 0 \in Nat /\ ~(0 > 0)
  BY <1>2
<1>5. T!TypeOK'
  <2>1. call' \in [Calls -> Places]
    BY <1>1, <1>3
  <2>2. QED  BY <1>1, <1>4, <2>1 DEF IInv, T!TypeOK, Places
<1>6. GrantsAreCounted'
  <2>1. T!OnTheirWay' = {}
    BY <1>3 DEF T!OnTheirWay, T!IsCounted
  <2>2. Cardinality(T!OnTheirWay') = 0
    BY <2>1, FS_EmptySet
  <2>3. QED  BY <1>1, <1>4, <2>2 DEF GrantsAreCounted
<1>7. EveryWindowEnds'
  BY <1>1, <1>4 DEF EveryWindowEnds, T!EveryWindowEnds
<1>8. QED  BY <1>5, <1>6, <1>7 DEF IInv

\* Every step preserves the invariant.
LEMMA StepOK == IInv /\ [Next]_vars => IInv'
<1> SUFFICES ASSUME IInv, [T!Next]_(T!vars)  PROVE IInv'
  BY ImplementsThrottle
<1>1. CASE T!BlockEnds
  <2>1. block' = FALSE /\ UNCHANGED <<hits, expires, call, granted, stuck, faults>>
    BY <1>1 DEF T!BlockEnds
  <2>2. QED
    BY <2>1 DEF IInv, T!TypeOK, GrantsAreCounted, T!OnTheirWay, T!IsCounted, EveryWindowEnds,
                T!EveryWindowEnds
<1>2. CASE UNCHANGED T!vars
  BY <1>2 DEF T!vars, T!redis, IInv, T!TypeOK, GrantsAreCounted, T!OnTheirWay, T!IsCounted,
              EveryWindowEnds, T!EveryWindowEnds
<1>3. QED  BY <1>1, <1>2, IncrOK, RequestOK, WindowEndsOK DEF T!Next

\* The invariant above holds in every reachable state, for any limit.
THEOREM Invariance == Spec => []IInv
<1>1. Init => IInv
  BY InitOK
<1>2. IInv /\ [Next]_vars => IInv'
  BY StepOK
<1>3. QED  BY <1>1, <1>2, PTL DEF Spec

\* Counter, keys and requests keep their types.
THEOREM CountersKeepTheirTypes == Spec => []T!TypeOK
<1>1. IInv => T!TypeOK
  BY DEF IInv
<1>2. QED  BY <1>1, Invariance, PTL

\* Of the requests that one window counts at most Limit are let through, those on their
\* way when it ends included.
THEOREM TheLimitHolds == Spec => []AtMostTheLimit
<1>1. IInv => AtMostTheLimit
  BY DEF IInv, GrantsAreCounted, AtMostTheLimit
<1>2. QED  BY <1>1, Invariance, PTL

\* A counter without an expiry is about to get one, or the request that had to set it
\* was cut short between incr and pexpire.
THEOREM WindowsEnd == Spec => []EveryWindowEnds
<1>1. IInv => EveryWindowEnds
  BY DEF IInv
<1>2. QED  BY <1>1, Invariance, PTL

-----------------------------------------------------------------------------
\* The pages.  A task that has been listed is not behind the cursor, a task that was there
\* all the time and is not behind the cursor has been listed, and none was listed twice:
\* for the tasks whose sort value has not changed.
Walked ==
  cursor # P!End =>
    /\ \A t \in Ids \ moved : seen[t] > 0 => ~P!After(t)
    /\ \A t \in stayed \ moved : P!After(t) \/ seen[t] = 1 \/ P!Value(t) = Null

WalkInv == P!TypeOK /\ NoTaskTwice /\ NoTaskMissing /\ Walked

\* Cardinality as the instance P sees it.
LEMMA SameCardinality ==
  ASSUME NEW S
  PROVE  P!Cardinality(S) = Cardinality(S)
BY DEF P!Cardinality, Cardinality

\* A finite set that is not empty has a minimal element in a strict order.
LEMMA Minimal ==
  ASSUME NEW S, NEW R, IsFiniteSet(S), S # {},
         \A x \in S : <<x, x>> \notin R,
         \A x, y, z \in S : <<x, y>> \in R /\ <<y, z>> \in R => <<x, z>> \in R
  PROVE  \E x \in S : \A y \in S : <<y, x>> \notin R
<1> DEFINE Below(x) == {y \in S : <<y, x>> \in R}
           All == {Below(x) : x \in S}
<1>1. IsWellFoundedOn(StrictSubsetOrdering(S), SUBSET S)
  BY FS_StrictSubsetOrderingWellFounded, FS_FiniteSubsetsOfFinite
<1>2. All \subseteq SUBSET S /\ All # {}
  <2>1. PICK x \in S : TRUE
    OBVIOUS
  <2>2. Below(x) \in All
    OBVIOUS
  <2>3. All # {}
    BY <2>2
  <2>4. ASSUME NEW U \in All  PROVE U \in SUBSET S
    <3>1. PICK y \in S : U = Below(y)
      OBVIOUS
    <3>2. QED  BY <3>1
  <2>5. QED  BY <2>3, <2>4
<1>3. PICK U \in All : \A V \in All : <<V, U>> \notin StrictSubsetOrdering(S)
  <2> HIDE DEF All
  <2>1. QED  BY <1>1, <1>2, WFMin
<1>4. PICK x \in S : U = Below(x)
  BY <1>3
<1>5. ASSUME NEW y \in S, <<y, x>> \in R  PROVE FALSE
  <2>1. Below(y) \subseteq Below(x) /\ y \in Below(x) /\ y \notin Below(y)
    BY <1>5
  <2>2. <<Below(y), Below(x)>> \in StrictSubsetOrdering(S)
    BY <2>1 DEF StrictSubsetOrdering
  <2>3. QED  BY <1>3, <1>4, <2>2
<1>6. QED  BY <1>5

\* The value of a task is a time or null, null only in a list sorted by due dates.
LEMMA Values ==
  ASSUME P!TypeOK, NEW t \in Ids
  PROVE  /\ t \in Nat
         /\ P!Value(t) = Null \/ (P!Value(t) \in Times /\ P!Value(t) \in Nat)
         /\ P!Value(t) = Null => P!ByDueDate /\ dueAt[t] = Null
BY PagesAssumption DEF P!TypeOK, P!Value

\* The list is a strict linear order.
LEMMA Ordered ==
  ASSUME P!TypeOK, NEW s \in Ids, NEW t \in Ids, NEW u \in Ids
  PROVE  /\ ~P!Before(s, s)
         /\ P!Before(s, t) /\ P!Before(t, u) => P!Before(s, u)
         /\ s = t \/ P!Before(s, t) \/ P!Before(t, s)
<1>1. s \in Nat /\ t \in Nat /\ u \in Nat
  BY Values
<1> DEFINE v(x) == P!Value(x)
<1>2. /\ v(s) = Null \/ v(s) \in Nat
      /\ v(t) = Null \/ v(t) \in Nat
      /\ v(u) = Null \/ v(u) \in Nat
  BY Values
<1> HIDE DEF v
<1>3. \A x, y \in {s, t, u} :
        P!Before(x, y) <=> \/ v(x) = v(y) /\ P!Precedes(x, y)
                           \/ v(x) = Null /\ v(y) # Null /\ P!Descending
                           \/ v(x) # Null /\ v(y) = Null /\ ~P!Descending
                           \/ v(x) # Null /\ v(y) # Null /\ P!Precedes(v(x), v(y))
  BY DEF P!Before, v
<1>4. CASE P!Descending
  BY <1>1, <1>2, <1>3, <1>4 DEF P!Precedes
<1>5. CASE ~P!Descending
  BY <1>1, <1>2, <1>3, <1>5 DEF P!Precedes
<1>6. QED  BY <1>4, <1>5

\* A set of tasks that is not empty has a first and a last one.
LEMMA FirstAndLast ==
  ASSUME P!TypeOK, NEW S \in SUBSET Ids, S # {}
  PROVE  /\ \E t \in S : \A s \in S : s = t \/ P!Before(t, s)
         /\ \E t \in S : \A s \in S : s = t \/ P!Before(s, t)
<1> DEFINE Up == {p \in S \X S : P!Before(p[1], p[2])}
           Down == {p \in S \X S : P!Before(p[2], p[1])}
<1>1. IsFiniteSet(S)
  BY PagesAssumption, FS_Subset
<1>2. \A x, y \in S : (<<x, y>> \in Up <=> P!Before(x, y)) /\ (<<x, y>> \in Down <=> P!Before(y, x))
  OBVIOUS
<1> HIDE DEF Up, Down
<1>3. \A x \in S : <<x, x>> \notin Up /\ <<x, x>> \notin Down
  BY <1>2, Ordered
<1>4. /\ \A x, y, z \in S : <<x, y>> \in Up /\ <<y, z>> \in Up => <<x, z>> \in Up
      /\ \A x, y, z \in S : <<x, y>> \in Down /\ <<y, z>> \in Down => <<x, z>> \in Down
  <2> SUFFICES ASSUME NEW x \in S, NEW y \in S, NEW z \in S
               PROVE  /\ <<x, y>> \in Up /\ <<y, z>> \in Up => <<x, z>> \in Up
                      /\ <<x, y>> \in Down /\ <<y, z>> \in Down => <<x, z>> \in Down
    OBVIOUS
  <2>1. P!Before(x, y) /\ P!Before(y, z) => P!Before(x, z)
    BY Ordered
  <2>2. P!Before(z, y) /\ P!Before(y, x) => P!Before(z, x)
    BY Ordered
  <2>3. QED  BY <1>2, <2>1, <2>2
<1>5. PICK t \in S : \A s \in S : <<s, t>> \notin Up
  BY <1>1, <1>3, <1>4, Minimal
<1>6. PICK u \in S : \A s \in S : <<s, u>> \notin Down
  BY <1>1, <1>3, <1>4, Minimal
<1>7. \A s \in S : s = t \/ P!Before(t, s)
  BY <1>2, <1>5, Ordered
<1>8. \A s \in S : s = u \/ P!Before(s, u)
  BY <1>2, <1>6, Ordered
<1>9. QED  BY <1>7, <1>8

\* The cursor only advances: what is behind a task that is behind it is behind it.
LEMMA Behind ==
  ASSUME P!TypeOK, cursor # P!End, NEW s \in Ids, NEW t \in Ids,
         P!After(s), P!Value(s) # Null,
         P!Value(t) # Null, P!Before(s, t)
  PROVE  P!After(t)
<1>1. CASE cursor = P!Start
  BY <1>1 DEF P!After
<1>2. CASE cursor # P!Start
  <2>1. P!Value(s) \in Nat /\ P!Value(t) \in Nat /\ s \in Nat /\ t \in Nat
    BY Values
  <2>2. cursor.value \in Nat /\ cursor.id \in Nat
    BY <1>2, <2>1, PagesAssumption DEF P!TypeOK, P!Cursor
  <2>3. /\ \/ P!Precedes(cursor.value, P!Value(s))
           \/ P!Value(s) = cursor.value /\ P!Precedes(cursor.id, s)
        /\ \/ P!Value(s) = P!Value(t) /\ P!Precedes(s, t)
           \/ P!Precedes(P!Value(s), P!Value(t))
    BY <1>2 DEF P!After, P!Before
  <2>4. \/ P!Precedes(cursor.value, P!Value(t))
        \/ P!Value(t) = cursor.value /\ P!Precedes(cursor.id, t)
    BY <2>1, <2>2, <2>3 DEF P!Precedes
  <2>5. QED  BY <2>4 DEF P!After
<1>3. QED  BY <1>1, <1>2

\* What a page takes of the tasks that match: all of them if they are not more than the
\* limit, and otherwise a set that is not empty, closed towards the front of the list.
LEMMA Taken ==
  ASSUME P!TypeOK, NEW matching \in SUBSET Ids, NEW items,
         items = {t \in matching : Cardinality({s \in matching : P!Before(s, t)}) < limit}
  PROVE  /\ ~P!IsMore(matching) => items = matching
         /\ P!IsMore(matching) => items # {}
         /\ \A s \in matching, t \in items : P!Before(s, t) => s \in items
<1> DEFINE Ahead(t) == {s \in matching : P!Before(s, t)}
<1>1. IsFiniteSet(matching) /\ Cardinality(matching) \in Nat /\ limit \in Nat /\ limit > 0
  <2>1. IsFiniteSet(matching)
    BY PagesAssumption, FS_Subset
  <2>2. QED  BY <2>1, PagesAssumption, FS_CardinalityType
<1>2. \A t \in matching : /\ IsFiniteSet(Ahead(t)) /\ Cardinality(Ahead(t)) \in Nat
                          /\ Cardinality(Ahead(t)) < Cardinality(matching)
  <2> SUFFICES ASSUME NEW t \in matching
               PROVE  /\ IsFiniteSet(Ahead(t)) /\ Cardinality(Ahead(t)) \in Nat
                      /\ Cardinality(Ahead(t)) < Cardinality(matching)
    OBVIOUS
  <2>1. Ahead(t) \in SUBSET matching /\ t \notin Ahead(t)
    BY Ordered
  <2> HIDE DEF Ahead
  <2>2. IsFiniteSet(Ahead(t)) /\ Cardinality(Ahead(t)) <= Cardinality(matching)
    BY <1>1, <2>1, FS_Subset
  <2>3. Cardinality(Ahead(t)) # Cardinality(matching)
    BY <1>1, <2>1, FS_Subset
  <2>4. Cardinality(Ahead(t)) \in Nat
    BY <2>2, FS_CardinalityType
  <2>5. QED  BY <1>1, <2>2, <2>3, <2>4
<1>3. ~P!IsMore(matching) => items = matching
  <2>1. SUFFICES ASSUME ~P!IsMore(matching), NEW t \in matching  PROVE t \in items
    OBVIOUS
  <2>2. Cardinality(Ahead(t)) < limit
    <3> HIDE DEF Ahead
    <3>1. QED  BY <1>1, <1>2, <2>1, SameCardinality DEF P!IsMore
  <2>3. QED  BY <2>2
<1>4. ASSUME P!IsMore(matching)  PROVE items # {}
  <2>1. matching # {}
    <3>1. Cardinality({}) = 0 /\ Cardinality(matching) > limit
      BY <1>4, FS_EmptySet, SameCardinality DEF P!IsMore
    <3>2. QED  BY <1>1, <3>1
  <2>2. PICK t \in matching : \A s \in matching : s = t \/ P!Before(t, s)
    BY <2>1, FirstAndLast
  <2>3. Ahead(t) = {}
    <3>1. SUFFICES ASSUME NEW s \in Ahead(t)  PROVE FALSE
      OBVIOUS
    <3>2. s \in Ids /\ t \in Ids /\ P!Before(s, t) /\ ~P!Before(s, s) /\ ~P!Before(t, t)
      BY Ordered
    <3>3. s = t \/ P!Before(t, s)
      BY <2>2
    <3>4. QED  BY <3>2, <3>3, Ordered
  <2>4. Cardinality({s \in matching : P!Before(s, t)}) < limit
    BY <1>1, <2>3, FS_EmptySet
  <2>5. t \in items
    BY <2>4
  <2>6. QED  BY <2>5
<1>5. ASSUME NEW s \in matching, NEW t \in items, P!Before(s, t)  PROVE s \in items
  <2>1. Ahead(s) \in SUBSET Ahead(t)
    <3>1. SUFFICES ASSUME NEW r \in matching, P!Before(r, s)  PROVE P!Before(r, t)
      OBVIOUS
    <3>2. r \in Ids /\ s \in Ids /\ t \in Ids
      OBVIOUS
    <3>3. QED  BY <1>5, <3>1, <3>2, Ordered
  <2>2. Cardinality(Ahead(t)) < limit /\ t \in matching
    OBVIOUS
  <2>3. IsFiniteSet(Ahead(t)) /\ Cardinality(Ahead(t)) \in Nat /\ Cardinality(Ahead(s)) \in Nat
    BY <1>2, <2>2
  <2>4. Cardinality(Ahead(s)) <= Cardinality(Ahead(t))
    <3> HIDE DEF Ahead
    <3>1. QED  BY <2>1, <2>3, FS_Subset
  <2>5. Cardinality(Ahead(s)) < limit
    BY <1>1, <2>2, <2>3, <2>4
  <2>6. QED  BY <2>5
<1>6. QED  BY <1>3, <1>4, <1>5

\* A page takes the next tasks of the list, up to its last one, and the cursor goes there;
\* the walk ends with the list, or with a page whose last task has no value.
LEMMA Paged ==
  ASSUME P!TypeOK, P!NextPage
  PROVE  \E items \in SUBSET {t \in rows : P!After(t)} :
           /\ seen' = [t \in Ids |-> IF t \in items THEN seen[t] + 1 ELSE seen[t]]
           /\ \/ /\ cursor' = P!End /\ ~cut'
                 /\ items = {t \in rows : P!After(t)}
              \/ /\ cursor' = P!End /\ cut' /\ P!ByDueDate
              \/ \E last \in items :
                   /\ cursor' = P!At(last, P!Value(last)) /\ ~cut'
                   /\ P!Value(last) \in Times
                   /\ \A t \in rows : P!After(t) =>
                        (t \in items <=> t = last \/ P!Before(t, last))
<1> DEFINE matching == {t \in rows : P!After(t)}
           items == {t \in matching : Cardinality({s \in matching : P!Before(s, t)}) < limit}
           last == CHOOSE t \in items : \A s \in items : s = t \/ P!Before(s, t)
           more == P!IsMore(matching)
<1>1. /\ seen' = [t \in Ids |-> IF t \in items THEN seen[t] + 1 ELSE seen[t]]
      /\ cursor' = IF more /\ P!Value(last) # Null
                   THEN P!At(last, P!Value(last)) ELSE P!End
      /\ cut' = (more /\ P!Value(last) = Null)
  <2>1. items = {t \in matching : P!Cardinality({s \in matching : P!Before(s, t)}) < limit}
    BY SameCardinality
  <2> HIDE DEF items
  <2>2. QED  BY <2>1 DEF P!NextPage, P!IsDate
<1>2. matching \in SUBSET Ids
  BY DEF P!TypeOK
<1> HIDE DEF matching
<1>3. items \in SUBSET matching
  OBVIOUS
<1>4. /\ ~more => items = matching
      /\ more => items # {}
      /\ \A s \in matching, t \in items : P!Before(s, t) => s \in items
  BY <1>2, Taken
<1> HIDE DEF items
<1>5. ASSUME more
      PROVE  last \in items /\ \A s \in items : s = last \/ P!Before(s, last)
  <2>1. \E t \in items : \A s \in items : s = t \/ P!Before(s, t)
    BY <1>2, <1>3, <1>4, <1>5, FirstAndLast
  <2>2. QED  BY <2>1
<1> HIDE DEF last, more
<1>6. CASE ~more
  <2>1. cursor' = P!End /\ ~cut' /\ items = matching
    BY <1>1, <1>4, <1>6
  <2>2. QED  BY <1>1, <1>3, <2>1 DEF matching
<1>7. CASE more /\ P!Value(last) = Null
  <2>1. last \in Ids
    BY <1>2, <1>3, <1>5, <1>7
  <2>2. cursor' = P!End /\ cut' /\ P!ByDueDate
    BY <1>1, <1>7, <2>1, Values
  <2>3. QED  BY <1>1, <1>3, <2>2 DEF matching
<1>8. CASE more /\ P!Value(last) # Null
  <2>1. last \in items /\ \A s \in items : s = last \/ P!Before(s, last)
    BY <1>5, <1>8
  <2>2. cursor' = P!At(last, P!Value(last)) /\ ~cut' /\ P!Value(last) \in Times
    BY <1>1, <1>2, <1>3, <1>8, <2>1, Values
  <2>3. \A t \in matching : t \in items <=> t = last \/ P!Before(t, last)
    BY <1>4, <2>1
  <2>4. QED  BY <1>1, <1>3, <2>1, <2>2, <2>3 DEF matching
<1>9. QED  BY <1>6, <1>7, <1>8

\* Behind a cursor are the tasks that come after its task in the list and have a value.
LEMMA CursorAt ==
  ASSUME P!TypeOK, UNCHANGED <<sort, createdAt, dueAt>>,
         NEW last \in Ids, P!Value(last) \in Times, cursor' = P!At(last, P!Value(last)),
         NEW t \in Ids
  PROVE  P!After(t)' <=> P!Value(t) # Null /\ P!Before(last, t)
<1>1. cursor' # P!Start /\ cursor'.value = P!Value(last) /\ cursor'.id = last
  BY DEF P!At, P!Start
<1>2. /\ P!Value(t)' = P!Value(t)
      /\ \A x, y : P!Precedes(x, y)' <=> P!Precedes(x, y)
  BY DEF P!Value, P!Precedes, P!ByDueDate, P!Descending
<1>3. P!After(t)' <=> /\ P!Value(t) # Null
                      /\ \/ P!Precedes(P!Value(last), P!Value(t))
                         \/ P!Value(t) = P!Value(last) /\ P!Precedes(last, t)
  BY <1>1, <1>2 DEF P!After
<1>4. P!Value(last) # Null
  BY PagesAssumption
<1>5. QED  BY <1>3, <1>4 DEF P!Before

\* The changes of the others keep the order and the cursor, but for a task that is
\* rescheduled.
LEMMA WriteOK ==
  ASSUME WalkInv, P!OthersWrite
  PROVE  WalkInv'
<1>1. PICK t \in Ids : P!Enter(t) \/ P!Leave(t) \/ \E due \in Times : P!Reschedule(t, due)
  BY DEF P!OthersWrite
<1>2. /\ cursor # P!End /\ changes' \in 0 .. MaxChanges
      /\ UNCHANGED <<sort, createdAt, cursor, seen, cut>>
  <2>1. cursor # P!End /\ changes < MaxChanges /\ changes' = changes + 1
        /\ UNCHANGED <<sort, createdAt, cursor, seen, cut>>
    BY <1>1 DEF P!Enter, P!Leave, P!Reschedule, P!Changed
  <2>2. changes' \in 0 .. MaxChanges
    BY <2>1, PagesAssumption DEF WalkInv, P!TypeOK
  <2>3. QED  BY <2>1, <2>2
<1>3. /\ rows' \subseteq Ids /\ stayed' \subseteq rows' /\ stayed' \subseteq stayed
      /\ moved \subseteq moved' /\ moved' \subseteq Ids
      /\ dueAt' \in [Ids -> Times \cup {Null}]
      /\ \A s \in Ids \ moved' : dueAt'[s] = dueAt[s]
  <2>1. /\ rows \subseteq Ids /\ stayed \subseteq rows /\ moved \subseteq Ids
        /\ dueAt \in [Ids -> Times \cup {Null}]
    BY DEF WalkInv, P!TypeOK
  <2>2. CASE P!Enter(t)
    BY <2>1, <2>2 DEF P!Enter
  <2>3. CASE P!Leave(t)
    BY <2>1, <2>3 DEF P!Leave
  <2>4. CASE \E due \in Times : P!Reschedule(t, due)
    BY <2>1, <2>4 DEF P!Reschedule
  <2>5. QED  BY <1>1, <2>2, <2>3, <2>4
<1>4. \A s \in Ids \ moved' : P!Value(s)' = P!Value(s) /\ (P!After(s)' <=> P!After(s))
  <2>1. /\ \A s \in Ids \ moved' : P!Value(s)' = P!Value(s)
        /\ \A x, y : P!Precedes(x, y)' <=> P!Precedes(x, y)
    BY <1>2, <1>3 DEF P!Value, P!Precedes, P!ByDueDate, P!Descending
  <2>2. QED  BY <1>2, <2>1 DEF P!After, P!Start
<1>5. P!TypeOK'
  BY <1>2, <1>3 DEF WalkInv, P!TypeOK, P!Cursor, P!End, P!Start, P!Sorts
<1>6. NoTaskTwice'
  BY <1>2, <1>3 DEF WalkInv, NoTaskTwice, P!NoTaskTwice
<1>7. NoTaskMissing'
  BY <1>2 DEF NoTaskMissing, P!NoTaskMissing, P!End
<1>8. Walked'
  <2>1. \A s \in stayed' \ moved' : s \in stayed \ moved /\ s \in Ids \ moved'
    BY <1>3
  <2>2. QED  BY <1>2, <1>3, <1>4, <2>1 DEF WalkInv, Walked, P!End
<1>9. QED  BY <1>5, <1>6, <1>7, <1>8 DEF WalkInv

\* A page: its tasks were behind the cursor, so they have not been listed before; those
\* that it leaves out are behind the cursor that it answers with.
LEMMA PageOK ==
  ASSUME WalkInv, P!NextPage
  PROVE  WalkInv'
<1>1. /\ cursor # P!End
      /\ UNCHANGED <<sort, rows, createdAt, dueAt, stayed, moved, changes>>
  BY DEF P!NextPage
<1>2. PICK items \in SUBSET {t \in rows : P!After(t)} :
        /\ seen' = [t \in Ids |-> IF t \in items THEN seen[t] + 1 ELSE seen[t]]
        /\ \/ /\ cursor' = P!End /\ ~cut'
              /\ items = {t \in rows : P!After(t)}
           \/ /\ cursor' = P!End /\ cut' /\ P!ByDueDate
           \/ \E last \in items :
                /\ cursor' = P!At(last, P!Value(last)) /\ ~cut'
                /\ P!Value(last) \in Times
                /\ \A t \in rows : P!After(t) =>
                     (t \in items <=> t = last \/ P!Before(t, last))
  BY Paged DEF WalkInv
<1>3. /\ seen \in [Ids -> Nat] /\ stayed \subseteq rows /\ rows \subseteq Ids /\ items \subseteq Ids
      /\ sort' \in P!Sorts
  BY <1>1, <1>2 DEF WalkInv, P!TypeOK
<1>4. \A t \in Ids \ moved : t \in items => seen[t] = 0 /\ seen'[t] = 1
  <2>1. SUFFICES ASSUME NEW t \in Ids \ moved, t \in items  PROVE seen[t] = 0 /\ seen'[t] = 1
    OBVIOUS
  <2>2. P!After(t)
    BY <1>2, <2>1
  <2>3. ~(seen[t] > 0) /\ seen[t] \in Nat
    BY <1>1, <1>3, <2>1, <2>2 DEF WalkInv, Walked
  <2>4. QED  BY <1>2, <2>1, <2>3
<1>5. \A t \in Ids : t \notin items => seen'[t] = seen[t]
  BY <1>2
<1>6. \A t \in Ids : P!Value(t)' = P!Value(t)
  BY <1>1 DEF P!Value, P!ByDueDate
<1>7. NoTaskTwice'
  BY <1>1, <1>4, <1>5 DEF WalkInv, NoTaskTwice, P!NoTaskTwice
<1>8. P!TypeOK'
  <2>1. seen' \in [Ids -> Nat]
    BY <1>2, <1>3
  <2>2. cursor' \in P!Cursor /\ cut' \in BOOLEAN /\ (cut' => cursor' = P!End)
    <3>1. cut' \in BOOLEAN
      BY DEF P!NextPage
    <3>2. CASE cursor' = P!End
      BY <3>1, <3>2 DEF P!Cursor
    <3>3. CASE cursor' # P!End
      <4>1. PICK last \in items : cursor' = P!At(last, P!Value(last)) /\ ~cut' /\ P!Value(last) \in Times
        BY <1>2, <3>3
      <4>2. QED  BY <1>3, <3>1, <4>1 DEF P!Cursor, P!At
    <3>4. QED  BY <3>2, <3>3
  <2>3. QED  BY <1>1, <2>1, <2>2 DEF WalkInv, P!TypeOK, P!Sorts
<1>9. CASE cursor' = P!End
  <2>1. Walked'
    BY <1>9 DEF Walked, P!End
  <2>2. ASSUME NEW t \in stayed \ moved
        PROVE  seen'[t] = 1 \/ (P!ByDueDate /\ (dueAt[t] = Null \/ cut'))
    <3>1. t \in rows /\ t \in Ids \ moved
      BY <1>3, <2>2
    <3>2. CASE t \in items
      BY <1>4, <3>1, <3>2
    <3>3. CASE t \notin items /\ P!After(t)
      <4>1. cut' /\ P!ByDueDate
        BY <1>2, <1>9, <3>1, <3>3 DEF P!At, P!End
      <4>2. QED  BY <4>1
    <3>4. CASE t \notin items /\ ~P!After(t)
      <4>1. seen[t] = 1 \/ P!Value(t) = Null
        BY <1>1, <2>2, <3>4 DEF WalkInv, Walked
      <4>2. CASE seen[t] = 1
        BY <1>5, <3>1, <3>4, <4>2
      <4>3. CASE P!Value(t) = Null
        BY <3>1, <4>3, Values DEF WalkInv
      <4>4. QED  BY <4>1, <4>2, <4>3
    <3>5. QED  BY <3>2, <3>3, <3>4
  <2>3. NoTaskMissing'
    BY <1>1, <2>2 DEF NoTaskMissing, P!NoTaskMissing, P!ByDueDate
  <2>4. QED  BY <1>7, <1>8, <2>1, <2>3 DEF WalkInv
<1>10. CASE cursor' # P!End
  <2>1. PICK last \in items :
          /\ cursor' = P!At(last, P!Value(last)) /\ P!Value(last) \in Times
          /\ \A t \in rows : P!After(t) => (t \in items <=> t = last \/ P!Before(t, last))
    BY <1>2, <1>10
  <2>2. last \in Ids /\ P!After(last) /\ P!Value(last) # Null /\ P!TypeOK
    BY <1>2, <1>3, <2>1, PagesAssumption DEF WalkInv
  <2>3. \A t \in Ids : P!After(t)' <=> P!Value(t) # Null /\ P!Before(last, t)
    BY <1>1, <2>1, <2>2, CursorAt
  <2>4. ASSUME NEW t \in Ids \ moved, seen'[t] > 0  PROVE ~P!After(t)'
    <3>1. CASE t \in items
      <4>1. t \in rows /\ P!After(t)
        BY <1>2, <3>1
      <4>2. t = last \/ P!Before(t, last)
        BY <2>1, <3>1, <4>1
      <4>3. ~P!Before(last, t)
        BY <2>2, <4>2, Ordered
      <4>4. QED  BY <2>3, <4>3
    <3>2. CASE t \notin items
      <4>1. ~P!After(t)
        BY <1>1, <1>5, <2>4, <3>2 DEF WalkInv, Walked
      <4>2. QED  BY <1>1, <2>2, <2>3, <4>1, Behind
    <3>3. QED  BY <3>1, <3>2
  <2>5. ASSUME NEW t \in stayed \ moved
        PROVE  P!After(t)' \/ seen'[t] = 1 \/ P!Value(t)' = Null
    <3>1. t \in rows /\ t \in Ids /\ t \in Ids \ moved
      BY <1>3, <2>5
    <3>2. CASE t \in items
      BY <1>4, <3>1, <3>2
    <3>3. CASE t \notin items /\ P!After(t)
      <4>1. P!Before(last, t)
        BY <2>1, <2>2, <3>1, <3>3, Ordered
      <4>2. QED  BY <1>6, <2>3, <3>1, <4>1
    <3>4. CASE t \notin items /\ ~P!After(t)
      <4>1. seen[t] = 1 \/ P!Value(t) = Null
        BY <1>1, <2>5, <3>4 DEF WalkInv, Walked
      <4>2. QED  BY <1>5, <1>6, <3>1, <3>4, <4>1
    <3>5. QED  BY <3>2, <3>3, <3>4
  <2>6. Walked'
    BY <1>1, <2>4, <2>5 DEF Walked
  <2>7. NoTaskMissing'
    BY <1>10 DEF NoTaskMissing, P!NoTaskMissing, P!End
  <2>8. QED  BY <1>7, <1>8, <2>6, <2>7 DEF WalkInv
<1>11. QED  BY <1>9, <1>10

\* The pages are served one by one, whatever the limit does to the requests in between.
LEMMA WalkStep == WalkInv /\ [Next]_vars => WalkInv'
<1> SUFFICES ASSUME WalkInv, [Next]_vars  PROVE WalkInv'
  OBVIOUS
<1>1. P!NextPage \/ P!OthersWrite \/ UNCHANGED pages
  BY DEF Next, vars, Ask, PageServed, Time, OthersWrite, Guard, Fails, OtherAsks, OtherServed
<1>2. CASE UNCHANGED pages
  BY <1>2 DEF pages, WalkInv, P!TypeOK, P!Cursor, P!Sorts, P!Start, P!End, NoTaskTwice, P!NoTaskTwice,
     NoTaskMissing, P!NoTaskMissing, Walked, P!After, P!Value, P!Precedes, P!Descending, P!ByDueDate
<1>3. QED  BY <1>1, <1>2, PageOK, WriteOK

\* Nothing has been listed at first, and all tasks are behind the start.
LEMMA WalkInit == Init => WalkInv
<1> SUFFICES ASSUME Init  PROVE WalkInv
  OBVIOUS
<1>1. P!Init
  BY DEF Init
<1>2. P!TypeOK
  <2>1. seen \in [Ids -> Nat] /\ changes \in 0 .. MaxChanges
    BY <1>1, PagesAssumption DEF P!Init
  <2>2. cursor \in P!Cursor /\ cut = FALSE /\ moved \subseteq Ids /\ stayed \subseteq rows
    BY <1>1 DEF P!Init, P!Cursor
  <2>3. QED  BY <1>1, <2>1, <2>2 DEF P!Init, P!TypeOK
<1>3. cursor # P!End /\ \A t \in Ids : P!After(t) /\ seen[t] = 0
  BY <1>1 DEF P!Init, P!After, P!Start, P!End
<1>4. QED
  BY <1>1, <1>2, <1>3
     DEF WalkInv, NoTaskTwice, P!NoTaskTwice, NoTaskMissing, P!NoTaskMissing, Walked, P!Init, P!TypeOK

\* The invariant of the walk holds in every reachable state, for any page size, any tasks
\* and any changes of the others.
THEOREM WalkInvariance == Spec => []WalkInv
<1>1. QED  BY WalkInit, WalkStep, PTL DEF Spec

\* No task is listed twice, also while others write, unless its own sort value changes.
THEOREM NoTaskIsListedTwice == Spec => []NoTaskTwice
<1>1. WalkInv => NoTaskTwice
  BY DEF WalkInv
<1>2. QED  BY <1>1, WalkInvariance, PTL

\* A task that was there all the time has been listed when the walk ends, unless its due
\* date was changed, or the order is by due dates and it or the end of a page has none.
THEOREM NoTaskIsMissing == Spec => []NoTaskMissing
<1>1. WalkInv => NoTaskMissing
  BY DEF WalkInv
<1>2. QED  BY <1>1, WalkInvariance, PTL

-----------------------------------------------------------------------------
(***************************************************************************)
(* The workspace cache.                                                    *)
(***************************************************************************)
\* Nothing is cached, loaded or written in the beginning.
LEMMA InitCacheInv == CacheInit => CacheInv
  BY DEF CacheInit, CacheInv, CacheTypeOK, StaleForAReason, LoadsStaleForAReason, Request, Idle

\* Every operation touches tables there are, and both keys count some of them.
LEMMA TablesThere ==
  /\ \A op \in Operation : Touched[op] \subseteq Table
  /\ \A k \in Key : Counted[k] \subseteq Table
  BY DEF Operation, Touched, Table, Key, Counted

\* A reason to see the old version v of table t.
Explained(t, v) == Excused(t, v) \/ NotTold(t, v)

(***************************************************************************)
(* An old version stays excused by a step that completes no del.           *)
(***************************************************************************)
LEMMA ExcusesStay ==
  ASSUME NEW t \in Table, NEW v \in Nat, Explained(t, v),
         unannounced \in [Table -> Nat], unannounced' \in [Table -> Nat],
         unannounced[t] <= unannounced'[t],
         silent \in [Table -> Nat], silent' \in [Table -> Nat], silent[t] <= silent'[t],
         \A r \in Reqs : req[r].at = "del" /\ t \in req[r].touched =>
           \/ req'[r] = req[r]
           \/ unannounced'[t] > v
  PROVE  Explained(t, v)'
  <1>1. CASE unannounced[t] > v
    BY <1>1 DEF Explained, Excused
  <1>2. CASE silent[t] > v
    BY <1>2 DEF Explained, NotTold
  <1>3. CASE DelPending(t)
    BY <1>3 DEF Explained, Excused, DelPending
  <1> QED BY <1>1, <1>2, <1>3 DEF Explained, Excused, NotTold

LEMMA WriteKeepsCacheInv ==
  ASSUME CacheInv, NEW r \in Reqs, NEW op \in Operation, Write(r, op)
  PROVE  CacheInv'
  <1> USE DEF CacheInv, CacheTypeOK
  <1>1. /\ version' \in [Table -> Nat]
        /\ \A t \in Table : version[t] <= version'[t]
        /\ \A t \in Table : version'[t] # version[t] => t \in Touched[op]
    BY DEF Write, Bumped
  <1>2. silent' \in [Table -> Nat] /\ unannounced' = unannounced
    BY <1>1 DEF Write, Noted
  <1>3. Touched[op] \in SUBSET Table
    BY TablesThere
  <1>4. /\ req' \in [Reqs -> Request]
        /\ \A p \in Reqs : p # r => req'[p] = req[p]
        /\ req[r] = Idle
        /\ req'[r].at # "load"
    BY <1>3 DEF Write, Goto, Request, Deleting, Idle
  <1>5. ASSUME NEW t \in Table, NEW v \in Nat, v < version'[t],
               v < version[t] => Explained(t, v)
        PROVE  Explained(t, v)'
    <2>1. CASE t \in Touched[op]
      <3>1. CASE op \in Invalidating
        BY <3>1, <2>1, <1>4 DEF Write, Goto, Explained, Excused, DelPending
      <3>2. CASE op \notin Invalidating
        BY <3>2, <2>1, <1>5 DEF Write, Noted, Explained, NotTold
      <3> QED BY <3>1, <3>2
    <2>2. CASE t \notin Touched[op]
      <3>1. version'[t] = version[t] /\ silent'[t] = silent[t]
        BY <2>2, <1>1 DEF Write, Noted
      <3>2. Explained(t, v)
        BY <3>1, <1>5
      <3> QED BY <3>1, <3>2, <1>2, <1>4, ExcusesStay DEF Idle
    <2> QED BY <2>1, <2>2
  <1>6. StaleForAReason'
    BY <1>5, TablesThere DEF Write, StaleForAReason, Explained, Entry
  <1>7. LoadsStaleForAReason'
    BY <1>4, <1>5 DEF LoadsStaleForAReason, Explained, Request, Loading, Deleting, Idle
  <1> QED BY <1>1, <1>2, <1>4, <1>6, <1>7 DEF Write

LEMMA DelKeepsCacheInv ==
  ASSUME CacheInv, NEW r \in Reqs, Del(r)
  PROVE  CacheInv'
  <1> USE DEF CacheInv, CacheTypeOK
  <1>1. cache' = [k \in {} |-> cache[k]]
    BY DEF Del, workspaceCacheKeys
  <1>2. \A p \in Reqs : req[p].at = "load" => req[p].key \in Key
    BY DEF Request, Loading, Deleting, Idle
  <1>3. \A p \in Reqs :
          \/ req'[p] = Idle
          \/ req'[p] = req[p] /\ ~HasRead(req[p])
          \/ req'[p] = [req[p] EXCEPT !.raced = TRUE] /\ req[p] \in Loading
    BY <1>2 DEF Del, workspaceCacheKeys, HasRead, Request, Loading, Deleting, Idle
  <1>4. req' \in [Reqs -> Request]
    <2>1. \A p \in Reqs : req'[p] \in Request
      BY <1>3 DEF Request, Loading
    <2> QED BY <2>1 DEF Del
  <1>5. ASSUME NEW p \in Reqs, req'[p].at = "load"
        PROVE  req'[p].raced \/ req'[p].loaded = {}
    <2>1. CASE req'[p] = Idle
      BY <2>1, <1>5 DEF Idle
    <2>2. CASE req'[p] = req[p] /\ ~HasRead(req[p])
      BY <2>2, <1>5 DEF HasRead
    <2>3. CASE req'[p] = [req[p] EXCEPT !.raced = TRUE] /\ req[p] \in Loading
      BY <2>3 DEF Loading
    <2> QED BY <2>1, <2>2, <2>3, <1>3
  <1>6. LoadsStaleForAReason'
    BY <1>5 DEF LoadsStaleForAReason
  <1> QED BY <1>1, <1>4, <1>6 DEF Del, StaleForAReason

LEMMA DelLostKeepsCacheInv ==
  ASSUME CacheInv, NEW r \in Reqs, DelLost(r)
  PROVE  CacheInv'
  <1> USE DEF CacheInv, CacheTypeOK
  <1>1. unannounced' \in [Table -> Nat]
    BY DEF DelLost, Noted
  <1>2. /\ req' \in [Reqs -> Request]
        /\ \A p \in Reqs : p # r => req'[p] = req[p]
        /\ req'[r].at # "load"
    BY DEF DelLost, Goto, Request, Idle
  <1>3. ASSUME NEW t \in Table, NEW v \in Nat, v < version[t], Explained(t, v)
        PROVE  Explained(t, v)'
    <2>1. CASE t \in req[r].touched
      BY <2>1, <1>1, <1>3 DEF DelLost, Noted, Explained, Excused
    <2>2. CASE t \notin req[r].touched
      BY <2>2, <1>2, <1>3 DEF DelLost, Noted, Explained, Excused, NotTold, DelPending
    <2> QED BY <2>1, <2>2
  <1>4. StaleForAReason'
    BY <1>3, TablesThere DEF DelLost, StaleForAReason, Explained, Entry
  <1>5. LoadsStaleForAReason'
    BY <1>2, <1>3 DEF DelLost, LoadsStaleForAReason, Explained, Request, Loading, Deleting, Idle
  <1> QED BY <1>1, <1>2, <1>4, <1>5 DEF DelLost

(***************************************************************************)
(* The readers: they change neither the database nor a del that is due.    *)
(***************************************************************************)
LEMMA ReadersKeepExcuses ==
  ASSUME CacheInv, NEW r \in Reqs, NEW q \in Request, req[r].at # "del", Goto(r, q),
         UNCHANGED <<version, unannounced, silent>>
  PROVE  /\ req' \in [Reqs -> Request]
         /\ \A p \in Reqs : p # r => req'[p] = req[p]
         /\ req'[r] = q
         /\ \A t \in Table, v \in Nat : Explained(t, v) => Explained(t, v)'
  BY DEF CacheInv, CacheTypeOK, Goto, Explained, Excused, NotTold, DelPending

LEMMA ReadKeepsCacheInv ==
  ASSUME CacheInv, NEW r \in Reqs,
         \/ \E k \in Key : Miss(r, k)
         \/ \E t \in Table : Load(r, t)
         \/ Abandon(r)
  PROVE  CacheInv'
  <1> USE DEF CacheInv, CacheTypeOK
  <1>1. PICK q \in Request :
          /\ Goto(r, q)
          /\ q.at = "load" =>
               \A t \in q.loaded :
                 q.value[t] < version[t] => q.raced \/ Explained(t, q.value[t])
    <2>1. CASE \E k \in Key : Miss(r, k)
      <3>1. PICK k \in Key : Miss(r, k)
        BY <2>1
      <3> DEFINE q == [at |-> "load", key |-> k, loaded |-> {},
                       value |-> [t \in Table |-> 0], raced |-> FALSE]
      <3>2. q \in Request
        BY DEF Request, Loading
      <3>3. Goto(r, q)
        BY <3>1 DEF Miss
      <3>4. q.loaded = {}
        OBVIOUS
      <3> HIDE DEF q
      <3> QED BY <3>2, <3>3, <3>4
    <2>2. CASE \E t \in Table : Load(r, t)
      <3>1. PICK t \in Table : Load(r, t)
        BY <2>2
      <3>2. req[r] \in Loading
        <4>1. req[r] \in Request /\ req[r].at = "load"
          BY <3>1 DEF Load
        <4> QED BY <4>1 DEF Request, Deleting, Idle
      <3> DEFINE q == [req[r] EXCEPT !.loaded = @ \cup {t}, !.value[t] = version[t]]
      <3>3. q \in Request
        BY <3>2 DEF Request, Loading
      <3>4. \A u \in q.loaded : u = t \/ (u \in req[r].loaded /\ q.value[u] = req[r].value[u])
        BY <3>2 DEF Loading
      <3>5. q.value[t] = version[t] /\ q.raced = req[r].raced
        BY <3>2 DEF Loading
      <3>6. \A u \in q.loaded :
              q.value[u] < version[u] => q.raced \/ Explained(u, q.value[u])
        BY <3>1, <3>2, <3>4, <3>5 DEF LoadsStaleForAReason, Explained, Loading
      <3> QED BY <3>1, <3>3, <3>6 DEF Load
    <2>3. CASE Abandon(r)
      BY <2>3 DEF Abandon, Request, Idle
    <2> QED BY <2>1, <2>2, <2>3
  <1>2. req[r].at # "del" /\ UNCHANGED <<version, cache, unannounced, silent>>
    <2>1. CASE \E k \in Key : Miss(r, k)
      BY <2>1 DEF Miss, Idle
    <2>2. CASE \E t \in Table : Load(r, t)
      BY <2>2 DEF Load
    <2>3. CASE Abandon(r)
      BY <2>3 DEF Abandon
    <2> QED BY <2>1, <2>2, <2>3
  <1>3. /\ req' \in [Reqs -> Request]
        /\ \A p \in Reqs : p # r => req'[p] = req[p]
        /\ req'[r] = q
        /\ \A t \in Table, v \in Nat : Explained(t, v) => Explained(t, v)'
    BY <1>1, <1>2, ReadersKeepExcuses
  <1>4. StaleForAReason'
    BY <1>2, <1>3, TablesThere DEF StaleForAReason, Explained, Entry
  <1>5. LoadsStaleForAReason'
    BY <1>1, <1>2, <1>3 DEF LoadsStaleForAReason, Explained, Request, Loading, Deleting, Idle
  <1> QED BY <1>2, <1>3, <1>4, <1>5

LEMMA FillKeepsCacheInv ==
  ASSUME CacheInv, NEW r \in Reqs, Fill(r)
  PROVE  CacheInv'
  <1> USE DEF CacheInv, CacheTypeOK
  <1>1. req[r] \in Loading
    BY DEF Fill, Request, Deleting, Idle
  <1>2. Idle \in Request /\ req[r].at # "del" /\ UNCHANGED <<version, unannounced, silent>>
    BY <1>1 DEF Fill, Request, Loading
  <1>3. /\ req' \in [Reqs -> Request]
        /\ \A p \in Reqs : p # r => req'[p] = req[p]
        /\ req'[r] = Idle
        /\ \A t \in Table, v \in Nat : Explained(t, v) => Explained(t, v)'
    BY <1>2, ReadersKeepExcuses DEF Fill
  <1> DEFINE k == req[r].key
             entry == [loaded |-> req[r].loaded, value |-> req[r].value,
                       raced |-> req[r].raced]
  <1>4. /\ k \in Key
        /\ entry \in Entry(k)
        /\ DOMAIN cache' = DOMAIN cache \cup {k}
        /\ cache'[k] = entry
        /\ \A j \in DOMAIN cache : j # k => cache'[j] = cache[j]
    BY <1>1 DEF Fill, Loaded, Loading, Entry
  <1>5. \A t \in Counted[k] :
          entry.value[t] < version[t] => entry.raced \/ Explained(t, entry.value[t])
    BY <1>1 DEF Fill, Loaded, Loading, LoadsStaleForAReason, Explained
  <1>6. StaleForAReason'
    BY <1>2, <1>3, <1>4, <1>5, TablesThere DEF StaleForAReason, Explained, Entry
  <1>7. LoadsStaleForAReason'
    BY <1>2, <1>3 DEF LoadsStaleForAReason, Explained, Request, Loading, Deleting, Idle
  <1> QED BY <1>2, <1>3, <1>4, <1>6, <1>7

LEMMA ExpireKeepsCacheInv ==
  ASSUME CacheInv, NEW k \in Key, Expire(k)
  PROVE  CacheInv'
  BY DEF CacheInv, CacheTypeOK, Expire, StaleForAReason, LoadsStaleForAReason, Excused, NotTold, DelPending

LEMMA StutterKeepsCacheInv ==
  ASSUME CacheInv, UNCHANGED cacheVars
  PROVE  CacheInv'
  BY DEF CacheInv, CacheTypeOK, StaleForAReason, LoadsStaleForAReason, Excused, NotTold, DelPending, cacheVars

LEMMA NextKeepsCacheInv ==
  ASSUME CacheInv, [CacheNext]_cacheVars
  PROVE  CacheInv'
  BY WriteKeepsCacheInv, DelKeepsCacheInv, DelLostKeepsCacheInv, ReadKeepsCacheInv, FillKeepsCacheInv,
     ExpireKeepsCacheInv, StutterKeepsCacheInv DEF CacheNext

\* The inductive invariant holds in every reachable state.
THEOREM CacheInvariance == CacheSpec => []CacheInv
  BY InitCacheInv, NextKeepsCacheInv, PTL DEF CacheSpec

\* Every cached value has all of its counts, at any number of requests.
THEOREM CacheTypeCorrect == CacheSpec => []CacheTypeOK
  BY CacheInvariance, PTL DEF CacheInv

\* cache.remember against the del after each commit: no interleaving of any
\* number of writers, readers, outages and crashes leaves an old value behind for
\* another reason than those listed.
THEOREM StalenessIsExplained == CacheSpec => []StaleForAReason
  BY CacheInvariance, PTL DEF CacheInv
=============================================================================
