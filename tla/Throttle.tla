------------------------------- MODULE Throttle -------------------------------
(***************************************************************************)
(* Rate limiting: RedisThrottlerStorage.increment, of one client and one   *)
(* handler.  Its Redis commands are separate awaits, and the server's      *)
(* processes share the two keys, `hits` and `block`.                       *)
(***************************************************************************)
EXTENDS Naturals

CONSTANTS Calls,     \* requests in flight
          Limit,     \* the throttler's limit; hits are counted up to Limit + 1
          MaxFaults  \* bound: crashes and failing commands

VARIABLES hits,     \* the counter, 0 if the key is not there
          expires,  \* the counter has an expiry
          block,    \* the block key is there; it always has an expiry
          call,     \* how far each request is, the totalHits it was told, and whether it
                    \* is `late`: the window that counted it has ended (history)
          granted,  \* history: requests that this window has counted and that were let through
          stuck,    \* history: a pexpire that was due did not happen
          faults

redis == <<hits, expires, block>>
vars == <<redis, call, granted, stuck, faults>>

Idle == [at |-> "idle", totalHits |-> 0, late |-> FALSE]

Init == /\ hits = 0 /\ expires = FALSE /\ block = FALSE
        /\ call = [c \in Calls |-> Idle]
        /\ granted = 0 /\ stuck = FALSE /\ faults = 0

-----------------------------------------------------------------------------
\* exists blockKey; a blocked request is answered 429.
CheckBlock(c) ==
  /\ call[c].at = "idle" /\ ~block
  /\ call' = [call EXCEPT ![c].at = "incr"]
  /\ UNCHANGED <<redis, granted, stuck, faults>>

AtMost(n) == IF n > Limit + 1 THEN Limit + 1 ELSE n

IsFirst(n) == n = 1

\* incr hitsKey
Incr(c) ==
  /\ call[c].at = "incr"
  /\ hits' = AtMost(hits + 1)
  /\ call' = [call EXCEPT ![c] = [at |-> IF IsFirst(hits') THEN "pexpire" ELSE "compare",
                                 totalHits |-> hits', late |-> FALSE]]
  /\ UNCHANGED <<expires, block, granted, stuck, faults>>

Pexpire(c) ==
  /\ call[c].at = "pexpire"
  /\ expires' = (hits > 0)
  /\ call' = [call EXCEPT ![c].at = "compare"]
  /\ UNCHANGED <<hits, block, granted, stuck, faults>>

\* A bug to catch: a comparison that lets through one request too many.
IsPastByOne(totalHits) == totalHits > Limit + 1

IsBlocked(totalHits) == totalHits > Limit

LetThrough(c) ==
  /\ call[c].at = "compare" /\ ~IsBlocked(call[c].totalHits)
  /\ call' = [call EXCEPT ![c] = [Idle EXCEPT !.at = "handler"]]
  /\ granted' = IF call[c].late THEN granted ELSE granted + 1
  /\ UNCHANGED <<redis, stuck, faults>>

\* set blockKey; 429.
Block(c) ==
  /\ call[c].at = "compare" /\ IsBlocked(call[c].totalHits)
  /\ block' = TRUE
  /\ call' = [call EXCEPT ![c] = Idle]
  /\ UNCHANGED <<hits, expires, granted, stuck, faults>>

Handled(c) ==
  /\ call[c].at = "handler"
  /\ call' = [call EXCEPT ![c] = Idle]
  /\ UNCHANGED <<redis, granted, stuck, faults>>

-----------------------------------------------------------------------------
\* The request is over without its next command: the process died, or Redis refused it
\* (500, the guard does not catch it).
Fail(c) ==
  /\ call[c].at \in {"incr", "pexpire", "compare"}
  /\ faults < MaxFaults /\ faults' = faults + 1
  /\ call' = [call EXCEPT ![c] = Idle]
  /\ stuck' = (stuck \/ call[c].at = "pexpire")
  /\ UNCHANGED <<redis, granted>>

\* Counted, and not answered yet.
IsCounted(c) == call[c].at \in {"pexpire", "compare"}

WindowEnds ==
  /\ expires
  /\ hits' = 0 /\ expires' = FALSE
  /\ granted' = 0
  /\ call' = [c \in Calls |-> [call[c] EXCEPT !.late = IsCounted(c)]]
  /\ UNCHANGED <<block, stuck, faults>>

\* A bug to catch: a block key that is set without PX.
NeverExpires == FALSE

HasPX == block

BlockEnds ==
  /\ HasPX /\ block' = FALSE
  /\ UNCHANGED <<hits, expires, call, granted, stuck, faults>>

Next ==
  \/ \E c \in Calls : \/ CheckBlock(c) \/ Incr(c) \/ Pexpire(c) \/ LetThrough(c)
                      \/ Block(c) \/ Handled(c) \/ Fail(c)
  \/ WindowEnds \/ BlockEnds

Spec == Init /\ [][Next]_vars

-----------------------------------------------------------------------------
TypeOK ==
  /\ hits \in 0 .. Limit + 1
  /\ expires \in BOOLEAN /\ block \in BOOLEAN /\ (expires => hits > 0)
  /\ call \in [Calls -> [at: {"idle", "incr", "pexpire", "compare", "handler"},
                         totalHits: 0 .. Limit + 1, late: BOOLEAN]]
  /\ granted \in Nat
  /\ stuck \in BOOLEAN
  /\ faults \in 0 .. MaxFaults

\* Those that this window has counted within the limit and that are still on their way,
\* into the handler or into a failure.
OnTheirWay == {c \in Calls : IsCounted(c) /\ ~call[c].late /\ call[c].totalHits <= Limit}

\* A counter that does not expire is about to, or the process died (or Redis failed)
\* between incr and pexpire: from then on the client is refused for ever.
EveryWindowEnds ==
  hits > 0 /\ ~expires => stuck \/ \E c \in Calls : call[c].at = "pexpire"
=============================================================================
