---------------------------- MODULE RateLimiter -----------------------------
(***************************************************************************)
(* The sliding window of rate_limit.py for one key (one endpoint and one   *)
(* identity): a Redis sorted set of the times of requests, and the         *)
(* requests that go through _hit and enforce.  Each Redis command is a     *)
(* step, requests interleave at them, and time passes between any two: a   *)
(* request may go on with a `now` that is long over.                       *)
(***************************************************************************)
EXTENDS Integers, FiniteSets, FiniteSetsExt

CONSTANTS Tasks,      \* requests served concurrently
          Limit, Window,
          MaxTime,    \* bound: the clock stops there
          MaxHits     \* bound: requests ever received

ASSUME LimitAssumption == Limit \in Nat \ {0} /\ Window \in Nat \ {0}
ASSUME MaxAssumption == MaxTime \in Nat /\ MaxHits \in Nat

Hits == 1..MaxHits    \* a request stands for the random part of its member
Never == -1

VARIABLES
  clock,      \* time.time(), in the unit of the window
  zset,       \* the sorted set: members [hit, at]
  expires,    \* when Redis drops the key; Never without a TTL
  hit,        \* requests received so far
  task,       \* task[t]: step, number, `now` and `count` of its request, when
              \* it counted, and whether it came after a window of silence
  admitted,   \* requests let through: [hit, at], when it counted, and whether
              \* its entry was still in the set at its EXPIRE
  lastSeen    \* time of the last request, Never before the first

vars == <<clock, zset, expires, hit, task, admitted, lastSeen>>

Idle == [pc |-> "idle", hit |-> 0, now |-> 0, count |-> 0, counted |-> 0, fresh |-> FALSE]
At(t, s) == task[t].pc = s
Goto(t, s) == task' = [task EXCEPT ![t].pc = s]
MutantStamp(t) == [hit |-> 0, at |-> task[t].now]   \* no random part
Stamp(t) == [hit |-> task[t].hit, at |-> task[t].now]

Init ==
  /\ clock = 0 /\ zset = {} /\ expires = Never /\ hit = 0
  /\ task = [t \in Tasks |-> Idle]
  /\ admitted = {} /\ lastSeen = Never

\* Time passes, whatever is under way; Redis drops the key when its TTL is
\* over, also the entries whose request has not come to its EXPIRE.
Tick ==
  /\ clock < MaxTime
  /\ clock' = clock + 1
  /\ IF expires # Never /\ clock + 1 >= expires
     THEN zset' = {} /\ expires' = Never
     ELSE UNCHANGED <<zset, expires>>
  /\ UNCHANGED <<hit, task, admitted, lastSeen>>

\* No other request is under way, and none came for a window.
Silence(t) ==
  /\ \A s \in Tasks \ {t} : At(s, "idle")
  /\ lastSeen = Never \/ clock - lastSeen >= Window

Begin(t) ==
  /\ At(t, "idle") /\ hit < MaxHits
  /\ hit' = hit + 1
  /\ task' = [task EXCEPT ![t] = [pc |-> "zadd", hit |-> hit + 1, now |-> clock, count |-> 0,
                                 counted |-> 0, fresh |-> Silence(t)]]
  /\ lastSeen' = clock
  /\ UNCHANGED <<clock, zset, expires, admitted>>

Zadd(t) ==
  /\ At(t, "zadd")
  /\ zset' = zset \union {Stamp(t)}
  /\ Goto(t, "zrem")
  /\ UNCHANGED <<clock, expires, hit, admitted, lastSeen>>

MutantStale(x, now) == x.at < now - Window     \* the boundary kept
\* zremrangebyscore includes its bound.
Stale(x, now) == x.at <= now - Window

\* A set that becomes empty is deleted, and its TTL with it.
ZremRangeByScore(t) ==
  /\ At(t, "zrem")
  /\ zset' = {x \in zset : ~Stale(x, task[t].now)}
  /\ expires' = IF zset' = {} THEN Never ELSE expires
  /\ Goto(t, "zcard")
  /\ UNCHANGED <<clock, hit, admitted, lastSeen>>

Counted(t, n) == [task[t] EXCEPT !.pc = "expire", !.count = n, !.counted = clock]
MutantZcard(t) ==              \* counts the requests before this one
  /\ At(t, "zcard")
  /\ task' = [task EXCEPT ![t] = Counted(t, Cardinality(zset \ {Stamp(t)}))]
  /\ UNCHANGED <<clock, zset, expires, hit, admitted, lastSeen>>
Zcard(t) ==
  /\ At(t, "zcard")
  /\ task' = [task EXCEPT ![t] = Counted(t, Cardinality(zset))]
  /\ UNCHANGED <<clock, zset, expires, hit, admitted, lastSeen>>

Entry(t) == [hit |-> task[t].hit, at |-> task[t].now, counted |-> task[t].counted,
             kept |-> Stamp(t) \in zset]
Admit(t) ==
  /\ admitted' = admitted \union {Entry(t)}
  /\ task' = [task EXCEPT ![t] = Idle]

Expire(t) ==
  /\ At(t, "expire")
  /\ expires' = IF zset = {} THEN Never ELSE clock + Window
  /\ IF task[t].count <= Limit THEN Admit(t) ELSE Goto(t, "zrange") /\ UNCHANGED admitted
  /\ UNCHANGED <<clock, zset, hit, lastSeen>>

\* 429 with Retry-After, which no later step depends on.
Refuse(t) ==
  /\ At(t, "zrange")
  /\ task' = [task EXCEPT ![t] = Idle]
  /\ UNCHANGED <<clock, zset, expires, hit, admitted, lastSeen>>

\* Redis fails: FAIL_OPEN lets the request through, which nobody counts.
FailOpen(t) ==
  /\ task[t].pc # "idle"
  /\ task' = [task EXCEPT ![t] = Idle]
  /\ UNCHANGED <<clock, zset, expires, hit, admitted, lastSeen>>

Next ==
  \/ Tick
  \/ \E t \in Tasks : \/ Begin(t) \/ Zadd(t) \/ ZremRangeByScore(t) \/ Zcard(t)
                      \/ Expire(t) \/ Refuse(t) \/ FailOpen(t)

Spec == Init /\ [][Next]_vars

-----------------------------------------------------------------------------
\* The entries of the set are requests received, each once.
TypeOK ==
  /\ clock \in 0..MaxTime /\ hit \in 0..MaxHits /\ expires \in {Never} \union (0..(MaxTime + Window))
  /\ \A x \in zset \union admitted : x.hit \in 1..hit /\ x.at \in 0..clock
  /\ \A x, y \in zset : x.hit = y.hit => x = y
  /\ zset = {} => expires = Never
  /\ lastSeen \in {Never} \union (0..clock)
  /\ task \in [Tasks -> [pc : {"idle", "zadd", "zrem", "zcard", "expire", "zrange"},
                         hit : 0..MaxHits, now : 0..MaxTime, count : 0..MaxHits,
                         counted : 0..MaxTime, fresh : BOOLEAN]]

\* Requests that were let through at time T or before, within a window less d
\* of it, that counted at most d after they arrived.  The entry of a request
\* whose key was dropped before its EXPIRE is not among them.
InWindow(T, d) ==
  {x \in admitted : x.kept /\ x.counted - x.at <= d /\ x.at \in (T - Window + d + 1)..T}

\* At most Limit requests are let through in a window, also when they arrive
\* together, since a request counts itself before it looks (docs/08, section
\* 5).  Requests that take long shorten the window by the time between their
\* `now` and their ZCARD: another request may meanwhile remove what still is in
\* the window of theirs (rate_limit.py:47-50).
WindowHonoured ==
  \A T \in 0..MaxTime, d \in 0..Window : Cardinality(InWindow(T, d)) <= Limit

\* A client that was silent for a whole window is let through again, unless
\* Limit more of its requests arrived while this one was served
\* (rate_limit.py:49-55).
Recovers ==
  [][\A t \in Tasks :
       At(t, "expire") /\ task[t].fresh /\ hit - task[t].hit < Limit
         => task'[t].pc # "zrange"]_vars
=============================================================================
