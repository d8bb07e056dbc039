-------------------------- MODULE RateLimiterProofs --------------------------
(***************************************************************************)
(* Facts about the sliding window for any limit, any window and any number *)
(* of concurrent requests: no window lets through more than the limit, and *)
(* who was silent for a window is let through.                             *)
(***************************************************************************)
EXTENDS RateLimiter, FiniteSetTheorems, TLAPS

Working(t) == task[t].pc # "idle"

Typed == TypeOK /\ zset \subseteq [hit : Nat, at : Nat] /\ IsFiniteSet(zset)

\* Each request has a number of its own, also among those let through, and a
\* `now` that is over.
Numbered ==
  /\ \A t \in Tasks : Working(t) => task[t].now <= clock /\ task[t].hit \in 1..hit
  /\ \A s, t \in Tasks : Working(s) /\ Working(t) /\ s # t => task[s].hit # task[t].hit
  /\ \A t \in Tasks : Working(t) => \A x \in admitted : x.hit # task[t].hit
  /\ \A x, y \in admitted : x.hit = y.hit => x = y

\* Before its ZADD a request is not in the set; after it, it is there as it is.
Stamped ==
  \A t \in Tasks : Working(t) =>
    /\ At(t, "zadd") => \A x \in zset : x.hit # task[t].hit
    /\ \A x \in zset : x.hit = task[t].hit => x = Stamp(t)

\* What was let through and had its entry stays in the set for a window, and
\* so does the key.
Kept ==
  \A x \in admitted : x.kept /\ x.at > clock - Window =>
    [hit |-> x.hit, at |-> x.at] \in zset /\ expires # Never /\ expires >= x.at + Window

\* Requests that have seen a count within the limit and have their entry.
Approved ==
  {x \in admitted : x.kept} \union
  {Entry(t) : t \in {s \in Tasks : At(s, "expire") /\ task[s].count <= Limit /\ Stamp(s) \in zset}}
ApprovedIn(T, d) ==
  {x \in Approved : x.counted - x.at <= d /\ x.at \in (T - Window + d + 1)..T}
Bounded ==
  \A T, d \in Nat : IsFiniteSet(ApprovedIn(T, d)) /\ Cardinality(ApprovedIn(T, d)) <= Limit

\* Nothing in the set is later than the last request.
InOrder ==
  /\ \A x \in zset : lastSeen # Never /\ x.at <= lastSeen
  /\ \A t \in Tasks : Working(t) => lastSeen # Never /\ task[t].now <= lastSeen

\* What a request that came after a silence meets: earlier ones that its ZREM
\* takes away, later ones, and itself.
Alone ==
  \A t \in Tasks : Working(t) /\ task[t].fresh =>
    /\ \A s \in Tasks : Working(s) => task[s].hit >= task[t].hit
    /\ \A x \in zset : x.hit < task[t].hit =>
         task[t].pc \in {"zadd", "zrem"} /\ x.at <= task[t].now - Window
    /\ At(t, "expire") => task[t].count <= hit - task[t].hit + 1

IInv == Typed /\ Numbered /\ Stamped /\ Kept /\ Bounded /\ InOrder /\ Alone

-----------------------------------------------------------------------------
LEMMA Sizes == /\ Limit \in Nat /\ Limit >= 1 /\ Window \in Nat /\ Window >= 1
               /\ MaxTime \in Nat /\ MaxHits \in Nat
  BY LimitAssumption, MaxAssumption

\* A set of requests, each once, is no larger than the number of requests.
LEMMA SetIsSmall ==
  ASSUME Typed
  PROVE  Cardinality(zset) \in 0..MaxHits
<1> DEFINE number == [x \in zset |-> x.hit]
<1>1. number \in Injection(zset, 1..MaxHits)
  BY Sizes DEF Typed, TypeOK, Injection, IsInjective
<1>2. IsFiniteSet(1..MaxHits) /\ Cardinality(1..MaxHits) = MaxHits
  BY Sizes, FS_Interval
<1>3. Cardinality(zset) <= MaxHits
  BY <1>1, <1>2, FS_Injection
<1>4. Cardinality(zset) \in Nat
  BY FS_CardinalityType DEF Typed
<1> QED
  BY <1>3, <1>4, Sizes

\* Nobody is let through beyond those who have seen a count within the limit:
\* the bound is kept as long as they do not become more.
LEMMA NoMoreIn ==
  ASSUME Bounded, NEW T \in Nat, NEW d \in Nat, ApprovedIn(T, d)' \subseteq ApprovedIn(T, d)
  PROVE  IsFiniteSet(ApprovedIn(T, d)') /\ Cardinality(ApprovedIn(T, d)') <= Limit
<1>1. IsFiniteSet(ApprovedIn(T, d)) /\ Cardinality(ApprovedIn(T, d)) <= Limit
  BY DEF Bounded
<1>2. IsFiniteSet(ApprovedIn(T, d)') /\ Cardinality(ApprovedIn(T, d)') <= Cardinality(ApprovedIn(T, d))
  BY <1>1, FS_Subset
<1>3. Cardinality(ApprovedIn(T, d)') \in Nat /\ Cardinality(ApprovedIn(T, d)) \in Nat
  BY <1>1, <1>2, FS_CardinalityType
<1> QED
  BY <1>1, <1>2, <1>3, Sizes

LEMMA NoMoreApproved ==
  ASSUME Bounded, Approved' \subseteq Approved
  PROVE  Bounded'
<1>1. ASSUME NEW T \in Nat, NEW d \in Nat
      PROVE  IsFiniteSet(ApprovedIn(T, d)') /\ Cardinality(ApprovedIn(T, d)') <= Limit
  <2>1. ApprovedIn(T, d)' \subseteq ApprovedIn(T, d)
    BY DEF ApprovedIn
  <2> QED
    BY <2>1, NoMoreIn
<1> QED
  BY <1>1 DEF Bounded

\* No request has been received.
THEOREM InitIInv == Init => IInv
<1> SUFFICES ASSUME Init PROVE IInv
  OBVIOUS
<1> USE Sizes DEF Init, Idle, Never
<1>1. Typed
  BY FS_EmptySet DEF Typed, TypeOK
<1>2. Numbered /\ Stamped /\ Kept /\ InOrder /\ Alone
  BY DEF Numbered, Stamped, Kept, InOrder, Alone, Working, At
<1>3. Approved = {}
  BY DEF Approved, At
<1>4. \A T, d \in Nat : ApprovedIn(T, d) = {}
  BY <1>3 DEF ApprovedIn
<1>5. Bounded
  BY <1>4, FS_EmptySet DEF Bounded
<1> QED
  BY <1>1, <1>2, <1>5 DEF IInv

-----------------------------------------------------------------------------
\* Time passes; what leaves with the key is older than a window, or has not
\* come to its EXPIRE.
LEMMA TickStep == ASSUME IInv, Tick PROVE IInv'
<1> USE Sizes DEF IInv, Never
<1>1. /\ clock' = clock + 1 /\ clock \in 0..(MaxTime - 1)
      /\ UNCHANGED <<hit, task, admitted, lastSeen>>
  BY DEF Tick, Typed, TypeOK
<1>2. \/ zset' = {} /\ expires' = -1 /\ expires # -1 /\ clock + 1 >= expires
      \/ zset' = zset /\ expires' = expires
  BY DEF Tick
<1>3. Typed'
  <2>1. IsFiniteSet(zset') /\ zset' \subseteq zset
    BY <1>2, FS_EmptySet DEF Typed
  <2>2. /\ clock' \in 0..MaxTime /\ expires' \in {-1} \union (0..(MaxTime + Window))
        /\ zset' = {} => expires' = -1
    BY <1>1, <1>2 DEF Typed, TypeOK
  <2>3. \A x \in zset' \union admitted' : x.hit \in 1..hit' /\ x.at \in 0..clock'
    BY <1>1, <2>1 DEF Typed, TypeOK
  <2>4. lastSeen' \in {Never} \union (0..clock')
    BY <1>1 DEF Typed, TypeOK
  <2> QED
    BY <1>1, <2>1, <2>2, <2>3, <2>4 DEF Typed, TypeOK
<1>4. Numbered' /\ Stamped' /\ InOrder' /\ Alone'
  BY <1>1, <1>2 DEF Numbered, Stamped, InOrder, Alone, Working, At, Stamp, Typed, TypeOK
<1>5. Kept'
  BY <1>1, <1>2 DEF Kept, Typed, TypeOK
<1>6. Bounded'
  <2>1. Approved' \subseteq Approved
    BY <1>1, <1>2 DEF Approved, At, Stamp, Entry
  <2> QED
    BY <2>1, NoMoreApproved
<1> QED
  BY <1>3, <1>4, <1>5, <1>6

\* The new request has the greatest number and is the latest.
LEMMA BeginStep == ASSUME IInv, NEW t \in Tasks, Begin(t) PROVE IInv'
<1> USE Sizes DEF IInv, Never
<1>1. /\ task[t].pc = "idle" /\ hit \in 0..(MaxHits - 1) /\ hit' = hit + 1
      /\ task' = [task EXCEPT ![t] = [pc |-> "zadd", hit |-> hit + 1, now |-> clock, count |-> 0,
                                     counted |-> 0, fresh |-> Silence(t)]]
      /\ lastSeen' = clock /\ UNCHANGED <<clock, zset, expires, admitted>>
  BY DEF Begin, At, Idle, Typed, TypeOK
<1>2. clock \in Nat /\ clock \in 0..MaxTime /\ Silence(t) \in BOOLEAN
  BY DEF Typed, TypeOK, Silence
<1>3. Typed'
  <2>1. task' \in [Tasks -> [pc : {"idle", "zadd", "zrem", "zcard", "expire", "zrange"},
                            hit : 0..MaxHits, now : 0..MaxTime, count : 0..MaxHits,
                            counted : 0..MaxTime, fresh : BOOLEAN]]
    BY <1>1, <1>2 DEF Typed, TypeOK
  <2> QED
    BY <1>1, <1>2, <2>1 DEF Typed, TypeOK
<1>4. /\ \A s \in Tasks : s # t => task'[s] = task[s]
      /\ task'[t].pc = "zadd" /\ task'[t].hit = hit + 1 /\ task'[t].now = clock
      /\ task'[t].fresh = Silence(t)
  BY <1>1 DEF Typed, TypeOK
<1>5. \A x \in zset \union admitted : x.hit <= hit /\ x.hit \in Nat /\ x.at <= clock
  BY DEF Typed, TypeOK
<1>6. Numbered'
  BY <1>1, <1>2, <1>4, <1>5 DEF Numbered, Working
<1>7. Stamped'
  BY <1>1, <1>4, <1>5 DEF Stamped, Working, At, Stamp
<1>8. Kept'
  BY <1>1 DEF Kept
<1>9. Bounded'
  <2>1. ASSUME NEW s \in Tasks, s # t PROVE Stamp(s)' = Stamp(s) /\ Entry(s)' = Entry(s)
    BY <1>1, <1>4, <2>1 DEF Stamp, Entry
  <2>2. Approved' \subseteq Approved
    BY <1>1, <1>4, <2>1 DEF Approved, At
  <2> QED
    BY <2>2, NoMoreApproved
<1>10. InOrder'
  BY <1>1, <1>2, <1>4, <1>5 DEF InOrder, Numbered, Working
<1>11. Alone'
  <2>1. ASSUME Silence(t) PROVE \A s \in Tasks : s # t => ~Working(s)
    BY <2>1 DEF Silence, At, Working
  <2>2. ASSUME Silence(t), NEW x \in zset PROVE x.at <= clock - Window
    BY <1>2, <1>5, <2>2 DEF Silence, InOrder, Typed, TypeOK
  <2>3. ASSUME NEW s \in Tasks, s # t, Working(s) PROVE task[s].hit <= hit + 1 /\ task[s].hit \in Nat
    BY <1>1, <2>3 DEF Numbered
  <2> QED
    BY <1>1, <1>4, <2>1, <2>2, <2>3 DEF Alone, At, Working, Typed, TypeOK
<1> QED
  BY <1>3, <1>6, <1>7, <1>8, <1>9, <1>10, <1>11

\* A request adds itself under its own number.
LEMMA ZaddStep == ASSUME IInv, NEW t \in Tasks, Zadd(t) PROVE IInv'
<1> USE Sizes DEF IInv, Never
<1>1. /\ task[t].pc = "zadd" /\ zset' = zset \union {Stamp(t)}
      /\ task' = [task EXCEPT ![t].pc = "zrem"]
      /\ UNCHANGED <<clock, expires, hit, admitted, lastSeen>>
  BY DEF Zadd, At, Goto
<1>2. /\ Stamp(t) = [hit |-> task[t].hit, at |-> task[t].now] /\ task[t].hit \in 1..hit
      /\ task[t].now \in 0..clock /\ clock \in 0..MaxTime /\ hit \in 0..MaxHits
      /\ \A x \in zset : x.hit # task[t].hit
  BY <1>1 DEF Numbered, Stamped, Working, At, Stamp, Typed, TypeOK
<1>3. Typed'
  <2>1. IsFiniteSet(zset')
    BY <1>1, FS_AddElement DEF Typed
  <2>2. TypeOK'
    BY <1>1, <1>2 DEF Typed, TypeOK
  <2> QED
    BY <1>1, <1>2, <2>1, <2>2 DEF Typed
<1>4. /\ \A s \in Tasks : s # t => task'[s] = task[s]
      /\ task'[t].pc = "zrem" /\ task'[t].hit = task[t].hit /\ task'[t].now = task[t].now
      /\ task'[t].fresh = task[t].fresh
  BY <1>1 DEF Typed, TypeOK
<1>5. Numbered'
  BY <1>1, <1>4 DEF Numbered, Working
<1>6. Stamped'
  BY <1>1, <1>2, <1>4 DEF Stamped, Numbered, Working, At, Stamp
<1>7. Kept'
  BY <1>1 DEF Kept
<1>8. Bounded'
  <2>1. ASSUME NEW s \in Tasks, s # t, At(s, "expire")
        PROVE  /\ Stamp(s)' = Stamp(s) /\ (Stamp(s) \in zset' => Stamp(s) \in zset)
               /\ (Stamp(s) \in zset => Entry(s)' = Entry(s))
    BY <1>1, <1>2, <1>4, <2>1 DEF Numbered, Working, At, Stamp, Entry
  <2>2. Approved' \subseteq Approved
    BY <1>1, <1>4, <2>1 DEF Approved, At
  <2> QED
    BY <2>2, NoMoreApproved
<1>9. InOrder'
  BY <1>1, <1>2, <1>4 DEF InOrder, Working
<1>10. Alone'
  <2>1. ASSUME NEW s \in Tasks, Working(s), task[s].fresh PROVE task[t].hit >= task[s].hit
    BY <1>1, <2>1 DEF Alone, Working
  <2> QED
    BY <1>1, <1>2, <1>4, <2>1 DEF Alone, At, Working, Typed, TypeOK
<1> QED
  BY <1>3, <1>5, <1>6, <1>7, <1>8, <1>9, <1>10

\* What is removed is older than a window, and after a silence all that came
\* before the request is.
LEMMA ZremStep == ASSUME IInv, NEW t \in Tasks, ZremRangeByScore(t) PROVE IInv'
<1> USE Sizes DEF IInv, Never
<1>1. /\ task[t].pc = "zrem" /\ task[t].now \in 0..clock /\ clock \in 0..MaxTime
      /\ task' = [task EXCEPT ![t].pc = "zcard"]
      /\ UNCHANGED <<clock, hit, admitted, lastSeen>>
  BY DEF ZremRangeByScore, At, Goto, Numbered, Working, Typed, TypeOK
<1>2. /\ zset' = {x \in zset : x.at > task[t].now - Window}
      /\ expires' = IF zset' = {} THEN -1 ELSE expires
  BY <1>1 DEF ZremRangeByScore, Stale, Typed, TypeOK
<1>3. Typed'
  <2>1. IsFiniteSet(zset')
    BY <1>2, FS_Subset DEF Typed
  <2>2. TypeOK'
    BY <1>1, <1>2 DEF Typed, TypeOK
  <2> QED
    BY <1>1, <1>2, <2>1, <2>2 DEF Typed
<1>4. /\ \A s \in Tasks : s # t => task'[s] = task[s]
      /\ task'[t].pc = "zcard" /\ task'[t].hit = task[t].hit /\ task'[t].now = task[t].now
      /\ task'[t].fresh = task[t].fresh
  BY <1>1 DEF Typed, TypeOK
<1>5. Numbered' /\ Stamped' /\ InOrder'
  BY <1>1, <1>2, <1>4 DEF Numbered, Stamped, InOrder, Working, At, Stamp
<1>6. Kept'
  BY <1>1, <1>2 DEF Kept, Typed, TypeOK
<1>7. Bounded'
  <2>1. Approved' \subseteq Approved
    BY <1>1, <1>2, <1>4 DEF Approved, At, Stamp, Entry
  <2> QED
    BY <2>1, NoMoreApproved
<1>8. Alone'
  <2>1. ASSUME task[t].fresh, NEW x \in zset' PROVE x.hit >= task[t].hit
    BY <1>1, <1>2, <2>1 DEF Alone, Working, Numbered, Typed, TypeOK
  <2> QED
    BY <1>1, <1>2, <1>4, <2>1 DEF Alone, At, Working, Typed, TypeOK
<1> QED
  BY <1>3, <1>5, <1>6, <1>7, <1>8

-----------------------------------------------------------------------------
\* A request that sees a count within the limit sees, besides itself, all that
\* have done so in the window before now: the bound holds with it.
LEMMA ZcardStep == ASSUME IInv, NEW t \in Tasks, Zcard(t) PROVE IInv'
<1> USE Sizes DEF IInv, Never
<1> DEFINE n == Cardinality(zset)
<1>1. /\ task[t].pc = "zcard" /\ UNCHANGED <<clock, zset, expires, hit, admitted, lastSeen>>
      /\ task' = [task EXCEPT ![t] = Counted(t, n)]
  BY DEF Zcard, At
<1>2. n \in 0..MaxHits /\ IsFiniteSet(zset) /\ clock \in 0..MaxTime
  BY SetIsSmall DEF Typed, TypeOK
<1> HIDE DEF n
<1>3. Counted(t, n) = [task[t] EXCEPT !.pc = "expire", !.count = n, !.counted = clock]
  BY DEF Counted
<1>4. Typed'
  BY <1>1, <1>2, <1>3 DEF Typed, TypeOK
<1>5. /\ \A s \in Tasks : s # t => task'[s] = task[s]
      /\ task'[t].pc = "expire" /\ task'[t].count = n /\ task'[t].counted = clock
      /\ task'[t].hit = task[t].hit /\ task'[t].now = task[t].now /\ task'[t].fresh = task[t].fresh
  BY <1>1, <1>2, <1>3 DEF Typed, TypeOK
<1>6. Numbered' /\ Stamped' /\ InOrder'
  BY <1>1, <1>5 DEF Numbered, Stamped, InOrder, Working, At, Stamp
<1>7. Kept'
  BY <1>1 DEF Kept
<1>8. Bounded'
  <2>1. ASSUME NEW s \in Tasks, s # t PROVE Stamp(s)' = Stamp(s) /\ Entry(s)' = Entry(s)
    BY <1>1, <1>5, <2>1 DEF Stamp, Entry
  <2>2. CASE n > Limit
    <3>1. Approved' \subseteq Approved
      BY <1>1, <1>2, <1>5, <2>1, <2>2 DEF Approved, At
    <3> QED
      BY <3>1, NoMoreApproved
  <2>3. CASE n <= Limit
    <3>1. Approved' \subseteq Approved \union {Entry(t)'}
      BY <1>1, <1>5, <2>1 DEF Approved, At
    <3>2. /\ Entry(t)'.counted = clock /\ Entry(t)'.at = task[t].now /\ Entry(t)'.hit = task[t].hit
          /\ Stamp(t)' = Stamp(t) /\ task[t].now \in 0..clock
      BY <1>1, <1>5 DEF Entry, Stamp, Numbered, Working, Typed, TypeOK
    <3>3. ASSUME NEW T \in Nat, NEW d \in Nat
          PROVE  IsFiniteSet(ApprovedIn(T, d)') /\ Cardinality(ApprovedIn(T, d)') <= Limit
      <4>1. CASE Entry(t)' \notin ApprovedIn(T, d)'
        <5>1. ApprovedIn(T, d)' \subseteq ApprovedIn(T, d)
          BY <3>1, <4>1 DEF ApprovedIn
        <5> QED
          BY <5>1, NoMoreIn
      <4>2. CASE Entry(t)' \in ApprovedIn(T, d)'
        <5>1. clock - task[t].now <= d /\ task[t].now <= T
          BY <3>2, <4>2 DEF ApprovedIn
        <5> DEFINE own == [x \in ApprovedIn(T, d)' |-> [hit |-> x.hit, at |-> x.at]]
        <5>2. ASSUME NEW x \in ApprovedIn(T, d)'
              PROVE  /\ x \in Approved' /\ x.at \in Int /\ x.at > clock - Window
          BY <1>2, <3>2, <5>1, <5>2 DEF ApprovedIn
        <5>3. ASSUME NEW x \in Approved', x.at > clock - Window
              PROVE  [hit |-> x.hit, at |-> x.at] \in zset
          <6>1. CASE x \in admitted /\ x.kept
            BY <1>1, <5>3, <6>1 DEF Kept
          <6>2. ASSUME NEW s \in Tasks, Stamp(s)' \in zset, x = Entry(s)'
                PROVE  [hit |-> x.hit, at |-> x.at] = Stamp(s)'
            BY <6>2 DEF Entry, Stamp
          <6>3. \/ x \in admitted /\ x.kept
                \/ \E s \in Tasks : Stamp(s)' \in zset /\ x = Entry(s)'
            BY <1>1 DEF Approved
          <6> QED
            BY <6>1, <6>2, <6>3
        <5>4. ASSUME NEW x \in Approved', NEW y \in Approved', x.hit = y.hit PROVE x = y
          BY <1>1, <1>5, <1>6, <5>4 DEF Approved, At, Entry, Numbered, Working
        <5>5. own \in Injection(ApprovedIn(T, d)', zset)
          BY <5>2, <5>3, <5>4 DEF Injection, IsInjective
        <5>6. IsFiniteSet(ApprovedIn(T, d)') /\ Cardinality(ApprovedIn(T, d)') <= n
          BY <1>2, <5>5, FS_Injection DEF n
        <5>7. Cardinality(ApprovedIn(T, d)') \in Nat
          BY <5>6, FS_CardinalityType
        <5> QED
          BY <1>2, <2>3, <5>6, <5>7
      <4> QED
        BY <4>1, <4>2
    <3> QED
      BY <3>3 DEF Bounded
  <2> QED
    BY <1>2, <2>2, <2>3
<1>9. Alone'
  <2>1. ASSUME task[t].fresh PROVE n <= hit - task[t].hit + 1
    <3> DEFINE number == [x \in zset |-> x.hit]
    <3>1. hit \in Nat /\ task[t].hit \in 1..hit
      BY <1>1 DEF Numbered, Working, Typed, TypeOK
    <3>2. \A x \in zset : x.hit \in task[t].hit..hit
      BY <1>1, <2>1, <3>1 DEF Alone, Working, Typed, TypeOK
    <3>3. number \in Injection(zset, task[t].hit..hit)
      BY <3>2 DEF Injection, IsInjective, Typed, TypeOK
    <3>4. /\ IsFiniteSet(task[t].hit..hit)
          /\ Cardinality(task[t].hit..hit) = hit - task[t].hit + 1
      BY <3>1, FS_Interval
    <3> QED
      BY <3>3, <3>4, FS_Injection DEF n
  <2> QED
    BY <1>1, <1>5, <2>1 DEF Alone, At, Working
<1> QED
  BY <1>4, <1>6, <1>7, <1>8, <1>9

\* EXPIRE keeps the key for a window after every request that is let through
\* with its entry.
LEMMA ExpireStep == ASSUME IInv, NEW t \in Tasks, Expire(t) PROVE IInv'
<1> USE Sizes DEF IInv, Never
<1>1. /\ task[t].pc = "expire" /\ UNCHANGED <<clock, zset, hit, lastSeen>>
      /\ expires' = IF zset = {} THEN -1 ELSE clock + Window
      /\ clock \in 0..MaxTime
  BY DEF Expire, At, Typed, TypeOK
<1>2. \/ /\ task[t].count <= Limit /\ admitted' = admitted \union {Entry(t)}
         /\ task' = [task EXCEPT ![t] = Idle]
      \/ /\ task[t].count > Limit /\ admitted' = admitted
         /\ task' = [task EXCEPT ![t].pc = "zrange"]
  BY DEF Expire, Admit, Goto, Typed, TypeOK
<1>3. /\ Entry(t).hit = task[t].hit /\ Entry(t).at = task[t].now
      /\ Entry(t).kept <=> Stamp(t) \in zset
      /\ task[t].hit \in 1..hit /\ task[t].now \in 0..clock /\ hit \in 0..MaxHits
      /\ Stamp(t) = [hit |-> task[t].hit, at |-> task[t].now]
  <2>1. /\ task[t].hit \in 1..hit /\ task[t].now \in 0..clock /\ hit \in 0..MaxHits
        /\ Stamp(t) = [hit |-> task[t].hit, at |-> task[t].now]
    BY <1>1 DEF Numbered, Working, Stamp, Typed, TypeOK
  <2>2. /\ Entry(t).hit = task[t].hit /\ Entry(t).at = task[t].now
        /\ Entry(t).kept <=> Stamp(t) \in zset
    BY Zenon DEF Entry
  <2> QED
    BY <2>1, <2>2
<1>4. Typed'
  <2>1. task' \in [Tasks -> [pc : {"idle", "zadd", "zrem", "zcard", "expire", "zrange"},
                            hit : 0..MaxHits, now : 0..MaxTime, count : 0..MaxHits,
                            counted : 0..MaxTime, fresh : BOOLEAN]]
    <3>1. Idle \in [pc : {"idle", "zadd", "zrem", "zcard", "expire", "zrange"},
                   hit : 0..MaxHits, now : 0..MaxTime, count : 0..MaxHits,
                   counted : 0..MaxTime, fresh : BOOLEAN]
      BY DEF Idle
    <3> QED
      BY <1>1, <1>2, <3>1 DEF Typed, TypeOK
  <2>2. \A x \in admitted' : x.hit \in 1..hit /\ x.at \in 0..clock
    BY <1>2, <1>3 DEF Typed, TypeOK
  <2>3. expires' \in {-1} \union (0..(MaxTime + Window)) /\ (zset = {} => expires' = -1)
    BY <1>1
  <2> QED
    BY <1>1, <2>1, <2>2, <2>3 DEF Typed, TypeOK
<1>5. /\ \A s \in Tasks : s # t => task'[s] = task[s]
      /\ task'[t].pc \in {"idle", "zrange"}
      /\ task'[t].pc = "zrange" => /\ task'[t].hit = task[t].hit /\ task'[t].now = task[t].now
                                   /\ task'[t].fresh = task[t].fresh /\ admitted' = admitted
  BY <1>2 DEF Typed, TypeOK, Idle
<1>6. Numbered'
  <2>1. \A x \in admitted' : x \in admitted \/ (x.hit = task[t].hit /\ x = Entry(t) /\ task'[t].pc = "idle")
    BY <1>2, <1>3, <1>5 DEF Idle, Typed, TypeOK
  <2> QED
    BY <1>1, <1>5, <2>1 DEF Numbered, Working
<1>7. Stamped' /\ InOrder'
  BY <1>1, <1>5 DEF Stamped, InOrder, Working, At, Stamp
<1>8. Kept'
  BY <1>1, <1>2, <1>3 DEF Kept, Typed, TypeOK
<1>9. Bounded'
  <2>1. ASSUME NEW s \in Tasks, s # t PROVE Stamp(s)' = Stamp(s) /\ Entry(s)' = Entry(s)
    BY <1>1, <1>5, <2>1 DEF Stamp, Entry
  <2>2. ASSUME NEW x \in admitted', x.kept PROVE x \in Approved
    <3>1. CASE x \in admitted
      BY <2>2, <3>1 DEF Approved
    <3>2. CASE x = Entry(t) /\ task[t].count <= Limit
      BY <1>1, <1>3, <2>2, <3>2 DEF Approved, At
    <3> QED
      BY <1>2, <3>1, <3>2
  <2>3. ASSUME NEW s \in Tasks, At(s, "expire")', task'[s].count <= Limit, Stamp(s)' \in zset'
        PROVE  Entry(s)' \in Approved
    BY <1>1, <1>5, <2>1, <2>3 DEF Approved, At
  <2>4. Approved' \subseteq Approved
    BY <2>2, <2>3 DEF Approved
  <2> QED
    BY <2>4, NoMoreApproved
<1>10. Alone'
  BY <1>1, <1>5 DEF Alone, At, Working
<1> QED
  BY <1>4, <1>6, <1>7, <1>8, <1>9, <1>10

\* A request ends without being counted as let through.
LEMMA EndStep ==
  ASSUME IInv, NEW t \in Tasks, task' = [task EXCEPT ![t] = Idle],
         UNCHANGED <<clock, zset, expires, hit, admitted, lastSeen>>
  PROVE  IInv'
<1> USE Sizes DEF IInv, Never
<1>1. /\ \A s \in Tasks : s # t => task'[s] = task[s]
      /\ task'[t].pc = "idle"
  BY DEF Typed, TypeOK, Idle
<1>2. Typed'
  BY DEF Typed, TypeOK, Idle
<1>3. Numbered' /\ Stamped' /\ InOrder' /\ Alone'
  BY <1>1 DEF Numbered, Stamped, InOrder, Alone, Working, At, Stamp
<1>4. Kept'
  BY DEF Kept
<1>5. Bounded'
  <2>1. ASSUME NEW s \in Tasks, s # t PROVE Stamp(s)' = Stamp(s) /\ Entry(s)' = Entry(s)
    BY <1>1, <2>1 DEF Stamp, Entry
  <2>2. Approved' \subseteq Approved
    BY <1>1, <2>1 DEF Approved, At
  <2> QED
    BY <2>2, NoMoreApproved
<1> QED
  BY <1>2, <1>3, <1>4, <1>5

\* The invariant is kept by every Redis command of every request.
THEOREM StepIInv == IInv /\ [Next]_vars => IInv'
<1> SUFFICES ASSUME IInv, [Next]_vars PROVE IInv'
  OBVIOUS
<1>1. ASSUME NEW t \in Tasks, Refuse(t) \/ FailOpen(t) PROVE IInv'
  <2>1. /\ task' = [task EXCEPT ![t] = Idle]
        /\ UNCHANGED <<clock, zset, expires, hit, admitted, lastSeen>>
    BY <1>1 DEF Refuse, FailOpen
  <2> QED
    BY <2>1, EndStep
<1>2. CASE UNCHANGED vars
  <2>1. (Typed /\ Numbered /\ Stamped /\ Kept /\ InOrder /\ Alone)'
    BY <1>2 DEF IInv, vars, Typed, TypeOK, Numbered, Stamped, Kept, InOrder, Alone,
                Working, At, Stamp
  <2>2. Bounded'
    BY <1>2, NoMoreApproved DEF IInv, vars, Approved, At, Stamp, Entry
  <2> QED
    BY <2>1, <2>2 DEF IInv
<1> QED
  BY <1>1, <1>2, TickStep, BeginStep, ZaddStep, ZremStep, ZcardStep, ExpireStep DEF Next

\* What holds in every state of the limiter.
THEOREM Invariance == Spec => []IInv
  BY InitIInv, StepIInv, PTL DEF Spec

\* The set holds requests received, each once, and never more than there were
\* (rate_limit.py:47-52).
THEOREM TypeCorrect == Spec => []TypeOK
<1>1. IInv => TypeOK
  BY DEF IInv, Typed
<1> QED
  BY <1>1, Invariance, PTL

\* No window of time, less the time its requests took to count, lets through
\* more requests than the limit, however requests and the clock interleave:
\* each adds itself before it counts (rate_limit.py:47-55).
THEOREM WindowIsHonoured == Spec => []WindowHonoured
<1>1. ASSUME IInv, NEW T \in 0..MaxTime, NEW d \in 0..Window
      PROVE  Cardinality(InWindow(T, d)) <= Limit
  <2>1. IsFiniteSet(ApprovedIn(T, d)) /\ Cardinality(ApprovedIn(T, d)) <= Limit
    BY <1>1, Sizes DEF IInv, Bounded
  <2>2. InWindow(T, d) \subseteq ApprovedIn(T, d)
    BY DEF InWindow, ApprovedIn, Approved
  <2>3. Cardinality(InWindow(T, d)) <= Cardinality(ApprovedIn(T, d)) /\ IsFiniteSet(InWindow(T, d))
    BY <2>1, <2>2, FS_Subset
  <2>4. Cardinality(InWindow(T, d)) \in Nat /\ Cardinality(ApprovedIn(T, d)) \in Nat
    BY <2>1, <2>3, FS_CardinalityType
  <2> QED
    BY <2>1, <2>3, <2>4, Sizes
<1>2. IInv => WindowHonoured
  BY <1>1 DEF WindowHonoured
<1> QED
  BY <1>2, Invariance, PTL

\* A request that follows a window of silence is let through, whatever else is
\* in the set, unless too many followed it (rate_limit.py:49-55).
THEOREM SilenceRecovers == Spec => Recovers
<1>1. ASSUME IInv, [Next]_vars, NEW t \in Tasks,
             At(t, "expire"), task[t].fresh, hit - task[t].hit < Limit
      PROVE  task'[t].pc # "zrange"
  <2> USE Sizes DEF IInv, Never
  <2>1. task[t].hit \in 1..hit /\ hit \in Nat /\ task[t].count \in Nat
    BY <1>1 DEF Numbered, Working, At, Typed, TypeOK
  <2>2. task[t].count <= Limit
    BY <1>1, <2>1 DEF Alone, Working, At
  <2>3. CASE UNCHANGED task
    BY <1>1, <2>3 DEF At
  <2>4. ASSUME NEW s \in Tasks, s # t,
               Begin(s) \/ Zadd(s) \/ ZremRangeByScore(s) \/ Zcard(s) \/ Expire(s) \/ Refuse(s) \/ FailOpen(s)
        PROVE  task'[t] = task[t]
    <3>1. CASE Begin(s)
      BY <1>1, <2>4, <3>1 DEF Begin, Typed, TypeOK
    <3>2. CASE Zadd(s) \/ ZremRangeByScore(s)
      BY <1>1, <2>4, <3>2 DEF Zadd, ZremRangeByScore, Goto, Typed, TypeOK
    <3>3. CASE Zcard(s)
      BY <1>1, <2>4, <3>3 DEF Zcard, Typed, TypeOK
    <3>4. CASE Expire(s)
      BY <1>1, <2>4, <3>4 DEF Expire, Admit, Goto, Typed, TypeOK
    <3>5. CASE Refuse(s) \/ FailOpen(s)
      BY <1>1, <2>4, <3>5 DEF Refuse, FailOpen, Typed, TypeOK
    <3> QED
      BY <2>4, <3>1, <3>2, <3>3, <3>4, <3>5
  <2>5. CASE Expire(t) \/ FailOpen(t)
    BY <1>1, <2>2, <2>5 DEF Expire, Admit, FailOpen, Idle, Typed, TypeOK
  <2>6. ~(Begin(t) \/ Zadd(t) \/ ZremRangeByScore(t) \/ Zcard(t) \/ Refuse(t))
    BY <1>1 DEF Begin, Zadd, ZremRangeByScore, Zcard, Refuse, At
  <2>7. CASE Tick
    BY <2>3, <2>7 DEF Tick
  <2>8. CASE UNCHANGED vars
    BY <2>3, <2>8 DEF vars
  <2> QED
    BY <1>1, <2>4, <2>5, <2>6, <2>7, <2>8 DEF Next, At
<1>2. IInv /\ [Next]_vars =>
        [\A t \in Tasks :
           At(t, "expire") /\ task[t].fresh /\ hit - task[t].hit < Limit
             => task'[t].pc # "zrange"]_vars
  BY <1>1
<1> QED
  BY <1>2, Invariance, PTL DEF Spec, Recovers
=============================================================================
