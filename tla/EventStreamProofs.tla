------------------------- MODULE EventStreamProofs --------------------------
(***************************************************************************)
(* Proofs about EventStream, for any users, events, audiences and any      *)
(* length of the list: nobody is sent what is not addressed to him, and    *)
(* registering a connection before the replay leaves no gap, whatever is   *)
(* emitted, broken, swept or restarted meanwhile.                          *)
(***************************************************************************)
EXTENDS EventStream, FiniteSetTheorems, SequenceTheorems, TLAPS

-----------------------------------------------------------------------------
\* Types.

Frames == EventFrame \union {SyncDone}

EmittersTyped ==
  /\ seq \in Nat /\ log \in Seq(Entry)
  /\ stage \in [Events -> {"idle", "lpush", "ltrim", "send", "done", "failed"}]
  /\ num \in [Events -> Nat]
  /\ left \in [Events -> SUBSET Users]
  /\ targets \in [Events -> SUBSET Conns]

ConnectionsTyped ==
  /\ registered \in SUBSET Conns
  /\ phase \in [Conns -> {"none", "registered", "replay", "live", "closed"}]
  /\ queue \in [Conns -> SUBSET [at : Nat, seq : Nat, ev : Events]]
  /\ from \in [Conns -> Nat]
  /\ sent \in [Conns -> SUBSET Events]
  /\ up \in SUBSET Conns
  /\ wire \in [Conns -> Seq(Frames)]
  /\ lastSeq \in [Users -> Nat]
  /\ got \in [Users -> SUBSET Events]

Typed == EmittersTyped /\ ConnectionsTyped

-----------------------------------------------------------------------------
\* The length of the list.

\* Emissions that have begun and did not end well: finitely many.
Unfinished == {e \in Events : stage[e] \notin {"idle", "done"}}
\* Those of them whose entry no LTRIM has followed.
Untrimmed == {e \in Events : stage[e] \in {"ltrim", "failed"}}

ListShort ==
  /\ IsFiniteSet(Unfinished)
  /\ Len(log) <= MaxEvents + Cardinality(Untrimmed)

-----------------------------------------------------------------------------
\* Whom an event is for.

Pushed(e) == stage[e] \notin {"idle", "lpush"}

\* An emission serves nobody before it has pushed its event, and then only
\* connections of its audience.
ServesAudience ==
  \A e \in Events :
    /\ stage[e] # "send" => left[e] = {} /\ targets[e] = {}
    /\ left[e] \subseteq Audience[e]
    /\ \A c \in targets[e] : UserOf(c) \in Audience[e]

\* Wherever an event is under way to a client, it was pushed and is for him.
For(u, e) == Pushed(e) /\ u \in Audience[e]

ListPushed == \A i \in DOMAIN log : Pushed(log[i].ev)
QueueFor == \A c \in Conns : \A x \in queue[c] : For(UserOf(c), x.ev)
WireFor ==
  \A c \in Conns : \A i \in DOMAIN wire[c] :
    wire[c][i] # SyncDone => For(UserOf(c), wire[c][i].ev)
GotFor == \A u \in Users : \A e \in got[u] : For(u, e)

OnlyFor == ListPushed /\ QueueFor /\ WireFor /\ GotFor

-----------------------------------------------------------------------------
\* The replay and the live events together.

QueueWhere == \A c \in Conns : phase[c] # "replay" => queue[c] = {}

\* The i-th entry of the list is one that the replay to c does not pass by.
InReach(c, i) ==
  /\ i <= MaxEvents /\ UserOf(c) \in Audience[log[i].ev]
  /\ \A j \in 1..i : log[j].seq > from[c]

\* c was sent the event, or is going to be: from its queue, or by the emission,
\* which has not come to the user or has c in its snapshot of his connections.
Served(c, e) ==
  \/ e \in sent[c]
  \/ \E x \in queue[c] : x.ev = e
  \/ stage[e] = "send" /\ (UserOf(c) \in left[e] \/ c \in targets[e])

\* From the replay on, nothing that the connection should get is missed: what
\* was in the list then is queued, what is pushed later finds c registered.
NothingMissed ==
  \A c \in registered \intersect up :
    phase[c] \in {"replay", "live"} =>
      \A i \in DOMAIN log :
        stage[log[i].ev] \in {"send", "done"} /\ InReach(c, i) => Served(c, log[i].ev)

IInv == Typed /\ ListShort /\ ServesAudience /\ OnlyFor /\ QueueWhere /\ NothingMissed

-----------------------------------------------------------------------------
\* Helpers.

LEMMA UserOfConn == ASSUME NEW c \in Conns PROVE UserOf(c) \in Users
BY DEF Conns, UserOf

\* The first n entries of a list are entries of it, at their places.
LEMMA FirstEntries ==
  ASSUME NEW S, NEW s \in Seq(S), NEW n \in Nat
  PROVE  /\ FirstN(s, n) \in Seq(S)
         /\ Len(FirstN(s, n)) <= n /\ Len(FirstN(s, n)) <= Len(s)
         /\ \A i \in 1..Len(s) : i <= n => i <= Len(FirstN(s, n))
         /\ \A i \in 1..Len(FirstN(s, n)) : FirstN(s, n)[i] = s[i]
<1> DEFINE m == IF Len(s) < n THEN Len(s) ELSE n
<1>1. m \in Nat /\ m <= n /\ m <= Len(s) /\ \A i \in 1..Len(s) : i <= n => i <= m
  OBVIOUS
<1>2. \A i \in 1..m : s[i] \in S
  BY <1>1
<1> HIDE DEF m
<1>3. /\ SubSeq(s, 1, m) \in Seq(S) /\ Len(SubSeq(s, 1, m)) = m
      /\ \A i \in 1..m : SubSeq(s, 1, m)[i] = s[i]
  BY <1>1, <1>2, SubSeqProperties
<1>4. FirstN(s, n) = SubSeq(s, 1, m)
  BY DEF FirstN, m
<1> QED
  BY <1>1, <1>3, <1>4

\* The same of a list of entries, cut at MaxEvents.
LEMMA TrimmedEntries ==
  ASSUME NEW s \in Seq(Entry)
  PROVE  /\ FirstN(s, MaxEvents) \in Seq(Entry)
         /\ Len(FirstN(s, MaxEvents)) <= MaxEvents /\ Len(FirstN(s, MaxEvents)) <= Len(s)
         /\ \A i \in 1..Len(s) : i <= MaxEvents => i \in 1..Len(FirstN(s, MaxEvents))
         /\ \A i \in 1..Len(FirstN(s, MaxEvents)) :
              i \in 1..Len(s) /\ FirstN(s, MaxEvents)[i] = s[i]
<1> DEFINE r == FirstN(s, MaxEvents)
<1>1. MaxEvents \in Nat
  BY MaxAssumption
<1>2. /\ r \in Seq(Entry) /\ Len(r) <= MaxEvents /\ Len(r) <= Len(s)
      /\ \A i \in 1..Len(s) : i <= MaxEvents => i <= Len(r)
      /\ \A i \in 1..Len(r) : r[i] = s[i]
  BY <1>1, FirstEntries
<1> HIDE DEF r
<1>3. Len(s) \in Nat /\ Len(r) \in Nat
  BY <1>2
<1>4. /\ \A i \in 1..Len(s) : i <= MaxEvents => i \in 1..Len(r)
      /\ \A i \in 1..Len(r) : i \in 1..Len(s)
  BY <1>1, <1>2, <1>3
<1>5. /\ r \in Seq(Entry) /\ Len(r) <= MaxEvents /\ Len(r) <= Len(s)
      /\ \A i \in 1..Len(s) : i <= MaxEvents => i \in 1..Len(r)
      /\ \A i \in 1..Len(r) : i \in 1..Len(s) /\ r[i] = s[i]
  BY <1>2, <1>4
<1> QED
  BY <1>5 DEF r

LEMMA Entries ==
  ASSUME NEW l \in Seq(Entry)
  PROVE  /\ Len(l) \in Nat /\ DOMAIN l = 1..Len(l)
         /\ \A i \in 1..Len(l) : l[i].ev \in Events /\ l[i].seq \in Nat
<1>1. Len(l) \in Nat /\ DOMAIN l = 1..Len(l) /\ \A i \in 1..Len(l) : l[i] \in Entry
  OBVIOUS
<1> QED
  BY <1>1 DEF Entry

\* What a replay queues: entries of the list for the user, as far as the walk
\* goes.
LEMMA MissedEntries ==
  ASSUME NEW l \in Seq(Entry), NEW u, NEW last
  PROVE  /\ Missed(l, u, last) \subseteq [at : Nat, seq : Nat, ev : Events]
         /\ \A x \in Missed(l, u, last) :
              u \in Audience[x.ev] /\ \E i \in DOMAIN l : x.ev = l[i].ev
         /\ \A i \in DOMAIN l :
              i <= MaxEvents /\ u \in Audience[l[i].ev] /\ (\A j \in 1..i : l[j].seq > last)
              => \E x \in Missed(l, u, last) : x.ev = l[i].ev
<1> DEFINE raw == FirstN(l, MaxEvents)
           newer == {i \in DOMAIN raw : \A j \in 1..i : raw[j].seq > last}
           mine == {i \in newer : u \in Audience[raw[i].ev]}
<1>1. Missed(l, u, last) = {Placed(raw, i) : i \in mine}
  BY DEF Missed
<1>2. /\ raw \in Seq(Entry) /\ \A i \in DOMAIN raw : i \in DOMAIN l /\ raw[i] = l[i]
      /\ \A i \in DOMAIN l : i <= MaxEvents => i \in DOMAIN raw
  <2>1. /\ raw \in Seq(Entry)
        /\ \A i \in 1..Len(l) : i <= MaxEvents => i \in 1..Len(raw)
        /\ \A i \in 1..Len(raw) : i \in 1..Len(l) /\ raw[i] = l[i]
    BY TrimmedEntries
  <2> HIDE DEF raw
  <2>2. DOMAIN raw = 1..Len(raw) /\ DOMAIN l = 1..Len(l)
    BY <2>1
  <2> QED
    BY <2>1, <2>2
<1> HIDE DEF raw
<1>3. ASSUME NEW i \in mine
      PROVE  /\ i \in DOMAIN raw /\ u \in Audience[raw[i].ev]
             /\ Placed(raw, i) \in [at : Nat, seq : Nat, ev : Events]
             /\ Placed(raw, i).ev = raw[i].ev
  <2>1. i \in DOMAIN raw /\ u \in Audience[raw[i].ev]
    OBVIOUS
  <2>2. i \in Nat /\ raw[i] \in Entry
    BY <1>2, <2>1
  <2> QED
    BY <2>1, <2>2 DEF Placed, Entry
<1>4. ASSUME NEW i \in DOMAIN l, i <= MaxEvents, u \in Audience[l[i].ev],
             \A j \in 1..i : l[j].seq > last
      PROVE  i \in mine
  <2>1. i \in DOMAIN raw /\ raw[i] = l[i]
    BY <1>2, <1>4
  <2>2. \A j \in 1..i : raw[j] = l[j]
    BY <1>2, <2>1
  <2> QED
    BY <1>4, <2>1, <2>2
<1> HIDE DEF mine
<1>5. \A x \in Missed(l, u, last) : \E i \in mine : x = Placed(raw, i)
  BY <1>1
<1>6. \A i \in mine : Placed(raw, i) \in Missed(l, u, last)
  BY <1>1
<1>7. Missed(l, u, last) \subseteq [at : Nat, seq : Nat, ev : Events]
  BY <1>3, <1>5
<1>8. \A x \in Missed(l, u, last) :
        u \in Audience[x.ev] /\ \E i \in DOMAIN l : x.ev = l[i].ev
  BY <1>2, <1>3, <1>5
<1>9. ASSUME NEW i \in DOMAIN l, i <= MaxEvents, u \in Audience[l[i].ev],
             \A j \in 1..i : l[j].seq > last
      PROVE  \E x \in Missed(l, u, last) : x.ev = l[i].ev
  BY <1>2, <1>3, <1>4, <1>6, <1>9
<1> QED
  BY <1>7, <1>8, <1>9

-----------------------------------------------------------------------------
\* The steps, one by one: those of an emission, of a connection, of the process.

EmitStep(e) == Emit(e) \/ EmitFails(e)
ConnStep(c) == Handle(c) \/ HandlerFails(c) \/ Sweep(c) \/ Receive(c) \/ Break(c)

LEMMA Steps ==
  ASSUME [Next]_vars
  PROVE  \/ \E e \in Events : EmitStep(e)
         \/ \E u \in Users : Connect(u)
         \/ \E c \in Conns : ConnStep(c)
         \/ Restart \/ UNCHANGED vars
BY DEF Next, EmitStep, ConnStep

\* Only emissions and the process change what is listed and emitted.
LEMMA OthersEmitNothing ==
  ASSUME \/ \E u \in Users : Connect(u)
         \/ \E c \in Conns : ConnStep(c)
         \/ UNCHANGED vars
  PROVE  UNCHANGED <<redis, emitters>>
<1>1. CASE \E u \in Users : Connect(u)
  BY <1>1 DEF Connect
<1>2. CASE \E c \in Conns : ConnStep(c)
  BY <1>2 DEF ConnStep, Handle, Replay, SendReplay, SendSyncDone, HandlerEnds, HandlerFails, Sweep,
              Receive, Break
<1>3. CASE UNCHANGED vars
  BY <1>3 DEF vars
<1> QED
  BY <1>1, <1>2, <1>3

-----------------------------------------------------------------------------
\* Types are kept.

\* The list the server finds when it starts.
LEMMA ListAtStart ==
  ASSUME Init
  PROVE  /\ log \in Seq(Entry) /\ Len(log) = Len(Earlier)
         /\ \A i \in DOMAIN log : \E k \in DOMAIN Earlier : log[i].ev = Earlier[k]
<1> DEFINE n == Len(Earlier)
           rows == [i \in DOMAIN Earlier |-> [seq |-> i, ev |-> Earlier[i]]]
<1>1. n \in Nat /\ DOMAIN Earlier = 1..n /\ \A i \in 1..n : Earlier[i] \in Events
  BY EarlierAssumption
<1>2. DOMAIN rows = 1..n /\ \A i \in 1..n : rows[i] \in Entry /\ rows[i].ev = Earlier[i]
  BY <1>1 DEF Entry
<1>3. log = Reverse(rows)
  BY DEF Init
<1> HIDE DEF rows
<1>4. rows \in Seq(Entry) /\ Len(rows) = n
  <2>1. rows = [i \in 1..n |-> rows[i]]
    BY <1>2 DEF rows
  <2> QED
    BY <1>1, <1>2, <2>1, IsASeq
<1>5. \A i \in 1..n : n - i + 1 \in 1..n
  BY <1>1
<1>6. log = [i \in 1..n |-> rows[(n - i) + 1]]
  BY <1>3, <1>4 DEF Reverse
<1> HIDE DEF n
<1>7. log \in Seq(Entry) /\ Len(log) = n
  BY <1>1, <1>2, <1>5, <1>6
<1> QED
  BY <1>1, <1>2, <1>5, <1>6, <1>7 DEF n

LEMMA InitTyped == Init => Typed
<1> SUFFICES ASSUME Init PROVE Typed
  OBVIOUS
<1>1. EmittersTyped
  BY ListAtStart, EarlierAssumption DEF Init, EmittersTyped
<1>2. ConnectionsTyped
  BY DEF Init, ConnectionsTyped
<1> QED
  BY <1>1, <1>2 DEF Typed

LEMMA EmittersKept == ASSUME Typed, [Next]_vars PROVE EmittersTyped'
<1> USE DEF Typed, EmittersTyped
<1>1. ASSUME NEW e \in Events, EmitStep(e) PROVE EmittersTyped'
  <2>1. CASE Incr(e)
    BY <2>1 DEF Incr
  <2>2. CASE Lpush(e)
    <3>1. [seq |-> num[e], ev |-> e] \in Entry
      BY DEF Entry
    <3>2. log' \in Seq(Entry)
      BY <2>2, <3>1 DEF Lpush
    <3> QED
      BY <2>2, <3>2 DEF Lpush
  <2>3. CASE Ltrim(e)
    <3>1. log' \in Seq(Entry)
      BY <2>3, TrimmedEntries DEF Ltrim
    <3>2. Audience[e] \in SUBSET Users
      BY AudienceAssumption
    <3> QED
      BY <2>3, <3>1, <3>2 DEF Ltrim
  <2>4. CASE NextUser(e)
    BY <2>4 DEF NextUser, redis, ConnectionsTyped
  <2>5. CASE SendLive(e)
    BY <2>5 DEF SendLive, redis
  <2>6. CASE EmitDone(e)
    BY <2>6 DEF EmitDone, redis
  <2>7. CASE EmitFails(e)
    BY <2>7 DEF EmitFails, redis
  <2> QED
    BY <1>1, <2>1, <2>2, <2>3, <2>4, <2>5, <2>6, <2>7 DEF EmitStep, Emit
<1>2. CASE Restart
  BY <1>2 DEF Restart, redis
<1>3. CASE UNCHANGED <<redis, emitters>>
  BY <1>3 DEF redis, emitters
<1> QED
  BY <1>1, <1>2, <1>3, Steps, OthersEmitNothing

\* A frame of an event, and what a queue that has been worked on holds.
LEMMA EventFrames ==
  ASSUME NEW n \in Nat, NEW e \in Events
  PROVE  [kind |-> "event", seq |-> n, ev |-> e] \in EventFrame
BY DEF EventFrame

\* What a client receives: an event, or the end of the replay.
LEMMA FramesRead ==
  ASSUME NEW f \in Frames, f # SyncDone
  PROVE  f.seq \in Nat /\ f.ev \in Events
BY DEF Frames, EventFrame

LEMMA ConnectionsKept == ASSUME Typed, [Next]_vars PROVE ConnectionsTyped'
<1> USE DEF Typed, ConnectionsTyped
<1>1. ASSUME NEW e \in Events, EmitStep(e) PROVE ConnectionsTyped'
  <2>1. CASE SendLive(e)
    <3>1. PICK c \in targets[e] :
            \/ Put(c, [kind |-> "event", seq |-> num[e], ev |-> e])
               /\ sent' = [sent EXCEPT ![c] = @ \union {e}] /\ UNCHANGED registered
            \/ registered' \in {registered, registered \ {c}} /\ UNCHANGED <<wire, sent>>
      BY <2>1 DEF SendLive
    <3>2. UNCHANGED <<phase, queue, from, up, lastSeq, got>>
      BY <2>1 DEF SendLive
    <3>3. c \in Conns /\ [kind |-> "event", seq |-> num[e], ev |-> e] \in Frames
      BY EventFrames DEF EmittersTyped, Frames
    <3>4. wire' \in [Conns -> Seq(Frames)] /\ sent' \in [Conns -> SUBSET Events]
      <4>1. CASE UNCHANGED <<wire, sent>>
        BY <4>1
      <4>2. CASE /\ Put(c, [kind |-> "event", seq |-> num[e], ev |-> e])
                 /\ sent' = [sent EXCEPT ![c] = @ \union {e}]
        <5> DEFINE f == [kind |-> "event", seq |-> num[e], ev |-> e]
        <5>1. wire' = [wire EXCEPT ![c] = Append(wire[c], f)]
          BY <4>2 DEF Put
        <5>2. f \in Frames
          BY <3>3
        <5> HIDE DEF f
        <5> QED
          BY <4>2, <3>3, <5>1, <5>2
      <4> QED
        BY <3>1, <4>1, <4>2
    <3>5. registered' \in SUBSET Conns
      BY <3>1
    <3> QED
      BY <3>2, <3>4, <3>5
  <2>2. CASE ~SendLive(e)
    BY <1>1, <2>2 DEF EmitStep, Emit, Incr, Lpush, Ltrim, NextUser, EmitDone, EmitFails, handlers, clients
  <2> QED
    BY <2>1, <2>2
<1>2. ASSUME NEW u \in Users, Connect(u) PROVE ConnectionsTyped'
  BY <1>2 DEF Connect, Conns
<1>3. ASSUME NEW c \in Conns, ConnStep(c) PROVE ConnectionsTyped'
  <2> UserOf(c) \in Users
    BY UserOfConn
  <2>1. CASE Replay(c)
    <3>1. Missed(log, UserOf(c), from[c]) \subseteq [at : Nat, seq : Nat, ev : Events]
      BY MissedEntries DEF EmittersTyped
    <3> QED
      BY <2>1, <3>1 DEF Replay, clients
  <2>2. CASE SendReplay(c)
    <3>1. PICK x \in queue[c] :
            /\ Put(c, [kind |-> "event", seq |-> x.seq, ev |-> x.ev])
            /\ sent' = [sent EXCEPT ![c] = @ \union {x.ev}]
            /\ queue' = [queue EXCEPT ![c] = @ \ {x}]
      BY <2>2 DEF SendReplay
    <3>2. x.seq \in Nat /\ x.ev \in Events
      OBVIOUS
    <3>3. [kind |-> "event", seq |-> x.seq, ev |-> x.ev] \in Frames
      BY <3>2, EventFrames DEF Frames
    <3>4. wire' \in [Conns -> Seq(Frames)]
      BY <3>1, <3>3 DEF Put
    <3>5. sent' \in [Conns -> SUBSET Events]
      BY <3>1, <3>2
    <3> QED
      BY <2>2, <3>1, <3>4, <3>5 DEF SendReplay
  <2>3. CASE SendSyncDone(c)
    <3>1. wire' \in [Conns -> Seq(Frames)]
      BY <2>3 DEF SendSyncDone, Put, Frames
    <3> QED
      BY <2>3, <3>1 DEF SendSyncDone
  <2>4. CASE HandlerEnds(c)
    BY <2>4 DEF HandlerEnds, Close, clients
  <2>5. CASE HandlerFails(c)
    BY <2>5 DEF HandlerFails, Close, Cut
  <2>6. CASE Sweep(c)
    BY <2>6 DEF Sweep, Cut
  <2>7. CASE Receive(c)
    <3>1. wire[c] \in Seq(Frames) /\ wire[c] # <<>>
      BY <2>7 DEF Receive
    <3>2. Head(wire[c]) \in Frames /\ Tail(wire[c]) \in Seq(Frames)
      BY <3>1, HeadTailProperties
    <3>3. lastSeq' \in [Users -> Nat] /\ got' \in [Users -> SUBSET Events]
      <4> DEFINE f == Head(wire[c])
      <4>1. CASE f = SyncDone
        BY <2>7, <4>1 DEF Receive
      <4>2. CASE f # SyncDone
        <5>1. /\ lastSeq' = [lastSeq EXCEPT ![UserOf(c)] = f.seq]
              /\ got' = [got EXCEPT ![UserOf(c)] = @ \union {f.ev}]
          BY <2>7, <4>2 DEF Receive
        <5>2. f.seq \in Nat /\ f.ev \in Events
          BY <3>2, <4>2, FramesRead
        <5> HIDE DEF f
        <5> QED
          BY <5>1, <5>2
      <4> QED
        BY <4>1, <4>2
    <3>4. wire' \in [Conns -> Seq(Frames)]
      BY <2>7, <3>2 DEF Receive
    <3> QED
      BY <2>7, <3>3, <3>4 DEF Receive, handlers
  <2>8. CASE Break(c)
    BY <2>8 DEF Break, Cut
  <2> QED
    BY <1>3, <2>1, <2>2, <2>3, <2>4, <2>5, <2>6, <2>7, <2>8 DEF ConnStep, Handle
<1>4. CASE Restart
  BY <1>4 DEF Restart
<1>5. CASE UNCHANGED vars
  BY <1>5 DEF vars, handlers, clients
<1> QED
  BY <1>1, <1>2, <1>3, <1>4, <1>5, Steps

LEMMA TypedKept == ASSUME Typed, [Next]_vars PROVE Typed'
BY EmittersKept, ConnectionsKept DEF Typed

-----------------------------------------------------------------------------
\* The list keeps its length.

LEMMA InitShort == Init => ListShort
<1> SUFFICES ASSUME Init PROVE ListShort
  OBVIOUS
<1>1. Unfinished = {} /\ Untrimmed = {}
  BY DEF Init, Unfinished, Untrimmed
<1>2. Len(log) <= MaxEvents /\ MaxEvents \in Nat
  BY ListAtStart, EarlierAssumption, MaxAssumption
<1> QED
  BY <1>1, <1>2, FS_EmptySet DEF ListShort

LEMMA UntrimmedFinite ==
  ASSUME IsFiniteSet(Unfinished)
  PROVE  IsFiniteSet(Untrimmed) /\ Cardinality(Untrimmed) \in Nat
<1>1. Untrimmed \subseteq Unfinished
  BY DEF Untrimmed, Unfinished
<1> QED
  BY <1>1, FS_Subset, FS_CardinalityType

\* The list may grow with the entries that no LTRIM has followed.
LEMMA ShortByMore ==
  ASSUME Typed, ListShort, Typed', IsFiniteSet(Unfinished'),
         Untrimmed \subseteq Untrimmed', Len(log') <= Len(log)
  PROVE  ListShort'
<1>1. IsFiniteSet(Untrimmed') /\ Cardinality(Untrimmed') \in Nat /\ Cardinality(Untrimmed) \in Nat
  <2>1. Untrimmed' \subseteq Unfinished'
    BY DEF Untrimmed, Unfinished
  <2> QED
    BY <2>1, UntrimmedFinite, FS_Subset, FS_CardinalityType DEF ListShort
<1>2. Cardinality(Untrimmed) <= Cardinality(Untrimmed')
  BY <1>1, FS_Subset
<1>3. Len(log) \in Nat /\ Len(log') \in Nat /\ MaxEvents \in Nat
  BY MaxAssumption DEF Typed, EmittersTyped
<1> QED
  BY <1>1, <1>2, <1>3 DEF ListShort

LEMMA ShortKept == ASSUME Typed, Typed', ListShort, [Next]_vars PROVE ListShort'
<1>1. ASSUME NEW e \in Events, EmitStep(e) PROVE ListShort'
  <2>1. Unfinished' \subseteq Unfinished \union {e} /\ IsFiniteSet(Unfinished')
    <3>1. Unfinished' \subseteq Unfinished \union {e}
      BY <1>1 DEF EmitStep, Emit, Incr, Lpush, Ltrim, NextUser, SendLive, EmitDone, EmitFails,
                  Unfinished, Typed, EmittersTyped
    <3> QED
      BY <3>1, FS_AddElement, FS_Subset DEF ListShort
  <2>2. CASE Lpush(e)
    <3>1. Untrimmed' = Untrimmed \union {e} /\ e \notin Untrimmed
      BY <2>2 DEF Lpush, Untrimmed, Typed, EmittersTyped
    <3>2. Cardinality(Untrimmed') = Cardinality(Untrimmed) + 1
      BY <3>1, UntrimmedFinite, FS_AddElement DEF ListShort
    <3>3. Len(log') = Len(log) + 1 /\ Len(log) \in Nat
      <4>1. [seq |-> num[e], ev |-> e] \in Entry
        BY DEF Entry, Typed, EmittersTyped
      <4> QED
        BY <2>2, <4>1 DEF Lpush, Typed, EmittersTyped
    <3> QED
      BY <2>1, <3>2, <3>3, UntrimmedFinite, MaxAssumption DEF ListShort
  <2>3. CASE Ltrim(e)
    <3>1. Len(log') <= MaxEvents /\ Len(log') \in Nat
      <4>1. log' \in Seq(Entry) /\ Len(log') <= MaxEvents
        BY <2>3, TrimmedEntries DEF Ltrim, Typed, EmittersTyped
      <4> QED
        BY <4>1
    <3>2. Cardinality(Untrimmed') \in Nat
      <4>1. Untrimmed' \subseteq Unfinished'
        BY DEF Untrimmed, Unfinished
      <4> QED
        BY <2>1, <4>1, FS_Subset, FS_CardinalityType
    <3> QED
      BY <2>1, <3>1, <3>2, MaxAssumption DEF ListShort
  <2>4. CASE ~Lpush(e) /\ ~Ltrim(e)
    <3>1. Untrimmed \subseteq Untrimmed' /\ log' = log
      BY <1>1, <2>4 DEF EmitStep, Emit, Incr, NextUser, SendLive, EmitDone, EmitFails,
                        redis, Untrimmed, Typed, EmittersTyped
    <3> QED
      BY <2>1, <3>1, ShortByMore DEF Typed, EmittersTyped
  <2> QED
    BY <2>2, <2>3, <2>4
<1>2. CASE Restart
  <2>1. Unfinished' = Unfinished /\ Untrimmed \subseteq Untrimmed' /\ log' = log
    BY <1>2 DEF Restart, redis, Unfinished, Untrimmed, Typed, EmittersTyped
  <2> QED
    BY <2>1, ShortByMore DEF ListShort, Typed, EmittersTyped
<1>3. CASE UNCHANGED <<redis, emitters>>
  BY <1>3 DEF redis, emitters, ListShort, Unfinished, Untrimmed
<1> QED
  BY <1>1, <1>2, <1>3, Steps, OthersEmitNothing

-----------------------------------------------------------------------------
\* Nobody is sent what is not for him.

LEMMA InitServes == Init => ServesAudience
BY DEF Init, ServesAudience

LEMMA ServesKept == ASSUME Typed, ServesAudience, [Next]_vars PROVE ServesAudience'
<1> USE DEF Typed, EmittersTyped, ServesAudience
<1>1. ASSUME NEW e \in Events, EmitStep(e) PROVE ServesAudience'
  <2>1. CASE Incr(e) \/ Lpush(e) \/ EmitFails(e)
    BY <2>1 DEF Incr, Lpush, EmitFails
  <2>2. CASE Ltrim(e)
    BY <2>2 DEF Ltrim
  <2>3. CASE NextUser(e)
    BY <2>3 DEF NextUser
  <2>4. CASE SendLive(e)
    BY <2>4 DEF SendLive
  <2>5. CASE EmitDone(e)
    BY <2>5 DEF EmitDone
  <2> QED
    BY <1>1, <2>1, <2>2, <2>3, <2>4, <2>5 DEF EmitStep, Emit
<1>2. CASE Restart
  BY <1>2 DEF Restart
<1>3. CASE UNCHANGED <<redis, emitters>>
  BY <1>3 DEF redis, emitters
<1> QED
  BY <1>1, <1>2, <1>3, Steps, OthersEmitNothing

\* An event that was pushed remains one that was pushed.
LEMMA PushedStays ==
  ASSUME Typed, [Next]_vars, NEW e \in Events, Pushed(e)
  PROVE  Pushed(e)'
<1> USE DEF Typed, EmittersTyped, Pushed
<1>1. ASSUME NEW f \in Events, EmitStep(f) PROVE Pushed(e)'
  BY <1>1 DEF EmitStep, Emit, Incr, Lpush, Ltrim, NextUser, SendLive, EmitDone, EmitFails
<1>2. CASE Restart
  BY <1>2 DEF Restart
<1>3. CASE UNCHANGED <<redis, emitters>>
  BY <1>3 DEF redis, emitters
<1> QED
  BY <1>1, <1>2, <1>3, Steps, OthersEmitNothing

LEMMA InitOnlyFor == Init => OnlyFor
<1> SUFFICES ASSUME Init PROVE OnlyFor
  OBVIOUS
<1>1. ListPushed
  <2>1. ASSUME NEW i \in DOMAIN log PROVE stage[log[i].ev] = "done"
    <3>1. PICK k \in DOMAIN Earlier : log[i].ev = Earlier[k]
      BY ListAtStart
    <3>2. Earlier[k] \in Events /\ Earlier[k] \in Range(Earlier)
      BY EarlierAssumption DEF Range
    <3> QED
      BY <3>1, <3>2 DEF Init
  <2> QED
    BY <2>1 DEF ListPushed, Pushed
<1>2. QueueFor /\ WireFor /\ GotFor
  BY DEF Init, QueueFor, WireFor, GotFor
<1> QED
  BY <1>1, <1>2 DEF OnlyFor

\* The list: an emission puts its event in front of it, or it keeps its first
\* entries.
LEMMA ListSteps ==
  ASSUME Typed, [Next]_vars
  PROVE  \/ \E e \in Events :
              /\ Lpush(e) /\ Len(log') = Len(log) + 1 /\ log'[1].ev = e
              /\ \A i \in 1..Len(log) : log'[i + 1] = log[i]
         \/ Len(log') <= Len(log) /\ \A i \in 1..Len(log') : log'[i] = log[i]
<1> USE DEF Typed, EmittersTyped
<1>1. ASSUME NEW e \in Events, Lpush(e)
      PROVE  /\ Len(log') = Len(log) + 1 /\ log'[1].ev = e
             /\ \A i \in 1..Len(log) : log'[i + 1] = log[i]
  <2> DEFINE x == [seq |-> num[e], ev |-> e]
  <2>1. x \in Entry /\ x.ev = e
    BY DEF Entry
  <2>2. log' = <<x>> \o log
    BY <1>1 DEF Lpush
  <2> HIDE DEF x
  <2> QED
    BY <2>1, <2>2
<1>2. ASSUME NEW e \in Events, Ltrim(e)
      PROVE  Len(log') <= Len(log) /\ \A i \in 1..Len(log') : log'[i] = log[i]
  BY <1>2, TrimmedEntries DEF Ltrim
<1>3. ASSUME NEW e \in Events, EmitStep(e), ~Lpush(e), ~Ltrim(e) PROVE log' = log
  BY <1>3 DEF EmitStep, Emit, Incr, NextUser, SendLive, EmitDone, EmitFails, redis
<1>4. CASE Restart \/ UNCHANGED <<redis, emitters>>
  BY <1>4 DEF Restart, redis
<1> QED
  BY <1>1, <1>2, <1>3, <1>4, Steps, OthersEmitNothing

LEMMA ListPushedKept == ASSUME Typed, Typed', ListPushed, [Next]_vars PROVE ListPushed'
<1> SUFFICES ASSUME NEW i \in 1..Len(log'), NEW e, e = log'[i].ev PROVE Pushed(e)'
  <2>1. DOMAIN log' = 1..Len(log')
    BY Entries DEF Typed, EmittersTyped
  <2> QED
    BY <2>1 DEF ListPushed, Pushed
<1>1. /\ Len(log) \in Nat /\ DOMAIN log = 1..Len(log)
      /\ \A k \in 1..Len(log) : log[k].ev \in Events
  BY Entries DEF Typed, EmittersTyped
<1>2. CASE \E k \in 1..Len(log) : e = log[k].ev
  BY <1>1, <1>2, PushedStays DEF ListPushed, Typed, EmittersTyped
<1>3. ASSUME NEW f \in Events, Lpush(f), f = e PROVE Pushed(e)'
  BY <1>3 DEF Lpush, Pushed, Typed, EmittersTyped
<1>4. CASE Len(log') <= Len(log) /\ \A k \in 1..Len(log') : log'[k] = log[k]
  BY <1>1, <1>2, <1>4
<1>5. ASSUME NEW f \in Events, Lpush(f), Len(log') = Len(log) + 1, log'[1].ev = f,
             \A k \in 1..Len(log) : log'[k + 1] = log[k]
      PROVE  Pushed(e)'
  <2>1. CASE i = 1
    BY <1>3, <1>5, <2>1
  <2>2. CASE i # 1
    <3>1. i - 1 \in 1..Len(log) /\ log'[(i - 1) + 1] = log[i - 1] /\ (i - 1) + 1 = i
      BY <1>1, <1>5, <2>2
    <3> QED
      BY <1>2, <3>1
  <2> QED
    BY <2>1, <2>2
<1> QED
  BY <1>4, <1>5, ListSteps

\* For a user who is told of an event, it stays what it is.
LEMMA ForStays ==
  ASSUME Typed, [Next]_vars, NEW u, NEW e \in Events, For(u, e)
  PROVE  For(u, e)'
BY PushedStays DEF For

\* A queue is filled by the replay only.
LEMMA QueueSteps ==
  ASSUME Typed, [Next]_vars, NEW c \in Conns, ~Replay(c)
  PROVE  queue'[c] \subseteq queue[c]
<1> USE DEF Typed, ConnectionsTyped
<1>1. ASSUME NEW e \in Events, EmitStep(e) PROVE queue' = queue
  BY <1>1 DEF EmitStep, Emit, Incr, Lpush, Ltrim, NextUser, SendLive, EmitDone, EmitFails, handlers
<1>2. ASSUME NEW u \in Users, Connect(u) PROVE queue' = queue
  BY <1>2 DEF Connect
<1>3. ASSUME NEW d \in Conns, ConnStep(d) PROVE queue'[c] \subseteq queue[c]
  <2>1. CASE Replay(d)
    BY <2>1 DEF Replay
  <2>2. CASE SendReplay(d)
    BY <2>2 DEF SendReplay
  <2>3. CASE HandlerEnds(d) \/ HandlerFails(d)
    BY <2>3 DEF HandlerEnds, HandlerFails, Close
  <2>4. CASE SendSyncDone(d) \/ Sweep(d) \/ Receive(d) \/ Break(d)
    BY <2>4 DEF SendSyncDone, Sweep, Receive, Break, handlers
  <2> QED
    BY <1>3, <2>1, <2>2, <2>3, <2>4 DEF ConnStep, Handle
<1>4. CASE Restart
  BY <1>4 DEF Restart
<1>5. CASE UNCHANGED vars
  BY <1>5 DEF vars, handlers
<1> QED
  BY <1>1, <1>2, <1>3, <1>4, <1>5, Steps

LEMMA QueueForKept ==
  ASSUME Typed, Typed', ListPushed, QueueFor, [Next]_vars
  PROVE  QueueFor'
<1> SUFFICES ASSUME NEW c \in Conns, NEW x \in queue'[c] PROVE For(UserOf(c), x.ev)'
  BY DEF QueueFor
<1>1. x.ev \in Events
  BY DEF Typed, ConnectionsTyped
<1>2. CASE x \in queue[c]
  BY <1>1, <1>2, ForStays DEF QueueFor
<1>3. CASE Replay(c)
  <2>1. x \in Missed(log, UserOf(c), from[c])
    BY <1>3 DEF Replay, Typed, ConnectionsTyped
  <2>2. UserOf(c) \in Audience[x.ev] /\ \E i \in DOMAIN log : x.ev = log[i].ev
    BY <2>1, MissedEntries DEF Typed, EmittersTyped
  <2>3. For(UserOf(c), x.ev)
    BY <2>2 DEF ListPushed, For
  <2> QED
    BY <1>1, <2>3, ForStays
<1> QED
  BY <1>2, <1>3, QueueSteps

\* A frame of an event is put on its way by the emission that has the connection
\* among its targets, or by the replay.
LEMMA PutSteps ==
  ASSUME Typed, [Next]_vars, NEW c \in Conns, NEW i \in DOMAIN wire'[c],
         wire'[c][i] # SyncDone
  PROVE  \/ \E k \in DOMAIN wire[c] : wire[c][k] = wire'[c][i]
         \/ \E e \in Events : c \in targets[e] /\ stage[e] = "send" /\ wire'[c][i].ev = e
         \/ \E x \in queue[c] : wire'[c][i].ev = x.ev
<1> DEFINE Before == \E k \in DOMAIN wire[c] : wire[c][k] = wire'[c][i]
<1> USE DEF Typed, ConnectionsTyped
<1>0. ASSUME NEW d \in Conns, NEW f \in Frames, Put(d, f)
      PROVE  Before \/ (c = d /\ wire'[c][i] = f)
  <2>1. wire[c] \in Seq(Frames) /\ wire'[c] = IF c = d THEN Append(wire[c], f) ELSE wire[c]
    BY <1>0 DEF Put
  <2>2. CASE c = d
    <3>1. /\ Len(Append(wire[c], f)) = Len(wire[c]) + 1 /\ Len(wire[c]) \in Nat
          /\ \A k \in 1..Len(wire[c]) : Append(wire[c], f)[k] = wire[c][k]
          /\ Append(wire[c], f)[Len(wire[c]) + 1] = f
      BY <1>0, <2>1, AppendProperties
    <3>2. i \in 1..(Len(wire[c]) + 1) /\ DOMAIN wire[c] = 1..Len(wire[c])
      BY <1>0, <2>1, <2>2, <3>1
    <3> QED
      BY <2>1, <2>2, <3>1, <3>2
  <2>3. CASE c # d
    BY <2>1, <2>3
  <2> QED
    BY <2>2, <2>3
<1>1. ASSUME wire' = wire PROVE Before
  BY <1>1
<1>2. ASSUME wire'[c] = <<>> PROVE FALSE
  BY <1>2
<1>3. ASSUME NEW e \in Events, SendLive(e)
      PROVE  Before \/ (c \in targets[e] /\ stage[e] = "send" /\ wire'[c][i].ev = e)
  <2> DEFINE f == [kind |-> "event", seq |-> num[e], ev |-> e]
  <2>1. PICK d \in targets[e] : Put(d, f) \/ wire' = wire
    BY <1>3 DEF SendLive
  <2>2. d \in Conns /\ f \in Frames /\ f.ev = e
    BY EventFrames DEF EmittersTyped, Frames
  <2>3. stage[e] = "send"
    BY <1>3 DEF SendLive
  <2> HIDE DEF f
  <2> QED
    BY <1>0, <1>1, <2>1, <2>2, <2>3
<1>4. ASSUME NEW e \in Events, EmitStep(e), ~SendLive(e) PROVE wire' = wire
  BY <1>4 DEF EmitStep, Emit, Incr, Lpush, Ltrim, NextUser, EmitDone, EmitFails, clients
<1>5. ASSUME NEW d \in Conns, SendReplay(d)
      PROVE  Before \/ \E x \in queue[c] : wire'[c][i].ev = x.ev
  <2>1. PICK x \in queue[d] : Put(d, [kind |-> "event", seq |-> x.seq, ev |-> x.ev])
    BY <1>5 DEF SendReplay
  <2> DEFINE f == [kind |-> "event", seq |-> x.seq, ev |-> x.ev]
  <2>2. x.seq \in Nat /\ x.ev \in Events
    OBVIOUS
  <2>3. f \in Frames /\ f.ev = x.ev
    BY <2>2, EventFrames DEF Frames
  <2>4. Put(d, f)
    BY <2>1
  <2> HIDE DEF f
  <2> QED
    BY <1>0, <2>3, <2>4
<1>6. ASSUME NEW d \in Conns, SendSyncDone(d) PROVE Before
  <2>1. Put(d, SyncDone) /\ SyncDone \in Frames
    BY <1>6 DEF SendSyncDone, Frames
  <2> QED
    BY <1>0, <2>1
<1>7. ASSUME NEW d \in Conns, HandlerFails(d) \/ Sweep(d) \/ Break(d) PROVE Before
  <2>1. wire' = [wire EXCEPT ![d] = <<>>]
    BY <1>7 DEF HandlerFails, Sweep, Break, Cut
  <2> QED
    BY <1>2, <2>1
<1>8. ASSUME NEW d \in Conns, Receive(d) PROVE Before
  <2>1. wire' = [wire EXCEPT ![d] = Tail(wire[d])] /\ wire[d] # <<>>
    BY <1>8 DEF Receive
  <2>2. CASE c = d
    <3>1. wire[c] \in Seq(Frames) /\ wire'[c] = Tail(wire[c]) /\ wire[c] # <<>>
      BY <2>1, <2>2
    <3>2. i \in 1..Len(Tail(wire[c])) /\ Len(Tail(wire[c])) = Len(wire[c]) - 1
      BY <3>1, HeadTailProperties
    <3>3. wire'[c][i] = wire[c][i + 1] /\ i + 1 \in DOMAIN wire[c]
      BY <3>1, <3>2, HeadTailProperties
    <3> QED
      BY <3>3
  <2>3. CASE c # d
    BY <2>1, <2>3
  <2> QED
    BY <2>2, <2>3
<1>9. ASSUME NEW d \in Conns, Replay(d) \/ HandlerEnds(d) PROVE wire' = wire
  BY <1>9 DEF Replay, HandlerEnds, clients
<1>10. ASSUME NEW u \in Users, Connect(u) PROVE wire' = wire
  BY <1>10 DEF Connect
<1>11. CASE Restart
  BY <1>2, <1>11 DEF Restart
<1>12. CASE UNCHANGED vars
  BY <1>1, <1>12 DEF vars, clients
<1> HIDE DEF Before
<1>13. CASE \E e \in Events : EmitStep(e)
  BY <1>1, <1>3, <1>4, <1>13 DEF Before
<1>14. CASE \E d \in Conns : ConnStep(d)
  BY <1>1, <1>5, <1>6, <1>7, <1>8, <1>9, <1>14 DEF Before, ConnStep, Handle
<1> QED
  BY <1>1, <1>10, <1>11, <1>12, <1>13, <1>14, Steps DEF Before

LEMMA WireForKept ==
  ASSUME Typed, Typed', ServesAudience, QueueFor, WireFor, [Next]_vars
  PROVE  WireFor'
<1> SUFFICES ASSUME NEW c \in Conns, NEW i \in DOMAIN wire'[c], wire'[c][i] # SyncDone,
                    NEW e, e = wire'[c][i].ev
             PROVE  For(UserOf(c), e)'
  BY DEF WireFor, For, Pushed
<1>1. e \in Events
  <2>1. wire'[c][i] \in Frames
    BY DEF Typed, ConnectionsTyped
  <2> QED
    BY <2>1, FramesRead
<1>2. For(UserOf(c), e)
  <2>1. CASE \E k \in DOMAIN wire[c] : wire[c][k] = wire'[c][i]
    BY <2>1 DEF WireFor
  <2>2. CASE \E f \in Events : c \in targets[f] /\ stage[f] = "send" /\ e = f
    BY <2>2 DEF ServesAudience, For, Pushed
  <2>3. CASE \E x \in queue[c] : e = x.ev
    BY <2>3 DEF QueueFor
  <2> QED
    BY <2>1, <2>2, <2>3, PutSteps
<1> QED
  BY <1>1, <1>2, ForStays

LEMMA GotForKept ==
  ASSUME Typed, Typed', WireFor, GotFor, [Next]_vars
  PROVE  GotFor'
<1> USE DEF Typed, ConnectionsTyped
<1> SUFFICES ASSUME NEW u \in Users, NEW e \in got'[u] PROVE For(u, e)'
  BY DEF GotFor
<1>1. e \in Events
  OBVIOUS
<1>2. CASE e \in got[u]
  BY <1>1, <1>2, ForStays DEF GotFor
<1>3. ASSUME NEW c \in Conns, Receive(c), e \notin got[u] PROVE For(u, e)
  <2>1. /\ wire[c] \in Seq(Frames) /\ wire[c] # <<>>
        /\ 1 \in DOMAIN wire[c] /\ Head(wire[c]) = wire[c][1]
    BY <1>3 DEF Receive
  <2>2. Head(wire[c]) # SyncDone /\ u = UserOf(c) /\ e = Head(wire[c]).ev
    BY <1>3 DEF Receive
  <2> QED
    BY <2>1, <2>2 DEF WireFor
<1>4. CASE \E c \in Conns : ConnStep(c) /\ ~Receive(c)
  BY <1>2, <1>4 DEF ConnStep, Handle, Replay, SendReplay, SendSyncDone, HandlerEnds, HandlerFails,
                    Sweep, Break, clients
<1>5. CASE \E f \in Events : EmitStep(f)
  BY <1>2, <1>5 DEF EmitStep, Emit, Incr, Lpush, Ltrim, NextUser, SendLive, EmitDone, EmitFails, clients
<1>6. CASE (\E v \in Users : Connect(v)) \/ Restart \/ UNCHANGED vars
  BY <1>2, <1>6 DEF Connect, Restart, vars, clients
<1> QED
  BY <1>1, <1>2, <1>3, <1>4, <1>5, <1>6, Steps, ForStays

LEMMA OnlyForKept ==
  ASSUME Typed, Typed', ServesAudience, OnlyFor, [Next]_vars
  PROVE  OnlyFor'
BY ListPushedKept, QueueForKept, WireForKept, GotForKept DEF OnlyFor

-----------------------------------------------------------------------------
\* Nothing is missed.

LEMMA InitNothingMissed == Init => QueueWhere /\ NothingMissed
BY DEF Init, QueueWhere, NothingMissed

LEMMA QueueWhereKept == ASSUME Typed, QueueWhere, [Next]_vars PROVE QueueWhere'
<1> USE DEF Typed, ConnectionsTyped, QueueWhere
<1>1. ASSUME NEW e \in Events, EmitStep(e) PROVE UNCHANGED <<phase, queue>>
  BY <1>1 DEF EmitStep, Emit, Incr, Lpush, Ltrim, NextUser, SendLive, EmitDone, EmitFails, handlers
<1>2. ASSUME NEW u \in Users, Connect(u) PROVE QueueWhere'
  BY <1>2 DEF Connect, Conns
<1>3. ASSUME NEW c \in Conns, ConnStep(c) PROVE QueueWhere'
  <2>1. CASE Replay(c)
    BY <2>1 DEF Replay
  <2>2. CASE SendReplay(c) \/ SendSyncDone(c)
    BY <2>2 DEF SendReplay, SendSyncDone
  <2>3. CASE HandlerEnds(c) \/ HandlerFails(c)
    BY <2>3 DEF HandlerEnds, HandlerFails, Close
  <2>4. CASE Sweep(c) \/ Receive(c) \/ Break(c)
    BY <2>4 DEF Sweep, Receive, Break, handlers
  <2> QED
    BY <1>3, <2>1, <2>2, <2>3, <2>4 DEF ConnStep, Handle
<1>4. CASE Restart
  BY <1>4 DEF Restart
<1>5. CASE UNCHANGED vars
  BY <1>5 DEF vars, handlers
<1> QED
  BY <1>1, <1>2, <1>3, <1>4, <1>5, Steps

\* A connection that is registered, works and is past its replay was so before,
\* or is replayed to; it looks back to the same seq.
LEMMA ConnectionStays ==
  ASSUME Typed, [Next]_vars,
         NEW c \in registered' \intersect up', phase'[c] \in {"replay", "live"}
  PROVE  /\ c \in registered \intersect up /\ from'[c] = from[c]
         /\ phase[c] \in {"replay", "live"} \/ Replay(c)
<1> USE DEF Typed, ConnectionsTyped
<1>1. ASSUME NEW e \in Events, EmitStep(e)
      PROVE  registered' \subseteq registered /\ UNCHANGED <<phase, from, up>>
  BY <1>1 DEF EmitStep, Emit, Incr, Lpush, Ltrim, NextUser, SendLive, EmitDone, EmitFails, handlers, clients
<1>2. ASSUME NEW u \in Users, Connect(u)
      PROVE  /\ c \in registered \intersect up /\ from'[c] = from[c] /\ phase'[c] = phase[c]
  <2>1. PICK n \in 1..MaxConnects :
          /\ up' = up \union {<<u, n>>} /\ registered' = registered \union {<<u, n>>}
          /\ from' = [from EXCEPT ![<<u, n>>] = lastSeq[u]]
          /\ phase' = [phase EXCEPT ![<<u, n>>] = "registered"]
    BY <1>2 DEF Connect
  <2> QED
    BY <2>1 DEF Conns
<1>3. ASSUME NEW d \in Conns, ConnStep(d)
      PROVE  /\ c \in registered \intersect up /\ from'[c] = from[c]
             /\ phase[c] \in {"replay", "live"} \/ Replay(c)
  <2>1. CASE Replay(d)
    BY <2>1 DEF Replay, clients
  <2>2. CASE SendReplay(d) \/ SendSyncDone(d)
    BY <2>2 DEF SendReplay, SendSyncDone
  <2>3. CASE HandlerEnds(d) \/ HandlerFails(d)
    BY <2>3 DEF HandlerEnds, HandlerFails, Close, Cut, clients
  <2>4. CASE Sweep(d) \/ Receive(d) \/ Break(d)
    BY <2>4 DEF Sweep, Receive, Break, Cut, handlers
  <2> QED
    BY <1>3, <2>1, <2>2, <2>3, <2>4 DEF ConnStep, Handle
<1>4. CASE Restart
  BY <1>4 DEF Restart
<1>5. CASE UNCHANGED vars
  BY <1>5 DEF vars, handlers, clients
<1> QED
  BY <1>1, <1>2, <1>3, <1>4, <1>5, Steps

\* What an entry's place leaves in reach was in reach at the place it had.
LEMMA ReachStays ==
  ASSUME Typed, Typed', [Next]_vars, NEW c \in Conns, from'[c] = from[c],
         NEW i \in 1..Len(log'), InReach(c, i)', NEW e \in Events, e = log'[i].ev,
         stage'[e] \in {"send", "done"}
  PROVE  \E k \in 1..Len(log) : log[k].ev = e /\ InReach(c, k)
<1>1. Len(log) \in Nat /\ Len(log') \in Nat /\ MaxEvents \in Nat
  BY Entries, MaxAssumption DEF Typed, EmittersTyped
<1>2. /\ i <= MaxEvents /\ UserOf(c) \in Audience[e]
      /\ \A j \in 1..i : log'[j].seq > from[c]
  BY DEF InReach
<1>3. CASE Len(log') <= Len(log) /\ \A k \in 1..Len(log') : log'[k] = log[k]
  <2>1. i \in 1..Len(log) /\ log[i].ev = e /\ \A j \in 1..i : log[j] = log'[j]
    BY <1>1, <1>3
  <2> QED
    BY <1>2, <2>1 DEF InReach
<1>4. ASSUME NEW f \in Events, Lpush(f), Len(log') = Len(log) + 1, log'[1].ev = f,
             \A k \in 1..Len(log) : log'[k + 1] = log[k]
      PROVE  \E k \in 1..Len(log) : log[k].ev = e /\ InReach(c, k)
  <2>1. i # 1
    <3>1. stage'[f] = "ltrim"
      BY <1>4 DEF Lpush, Typed, EmittersTyped
    <3> QED
      BY <1>4, <3>1
  <2>2. i - 1 \in 1..Len(log) /\ log'[(i - 1) + 1] = log[i - 1] /\ (i - 1) + 1 = i
    BY <1>1, <1>4, <2>1
  <2>3. ASSUME NEW j \in 1..(i - 1) PROVE log[j].seq > from[c]
    <3>1. j \in 1..Len(log) /\ j + 1 \in 1..i
      BY <2>2
    <3> QED
      BY <1>2, <1>4, <3>1
  <2> QED
    BY <1>1, <1>2, <2>2, <2>3 DEF InReach
<1> QED
  BY <1>3, <1>4, ListSteps

\* What a connection was sent or is going to be sent remains so while it works.
LEMMA ServedStays ==
  ASSUME Typed, [Next]_vars,
         NEW c \in registered \intersect up, c \in up',
         phase[c] \in {"replay", "live"}, phase'[c] \in {"replay", "live"},
         NEW e \in Events, Served(c, e)
  PROVE  Served(c, e)'
<1> USE DEF Typed, EmittersTyped, ConnectionsTyped, Served
<1>1. ASSUME NEW f \in Events, EmitStep(f) PROVE Served(c, e)'
  <2> queue' = queue
    BY <1>1 DEF EmitStep, Emit, Incr, Lpush, Ltrim, NextUser, SendLive, EmitDone, EmitFails, handlers
  <2>1. CASE Incr(f) \/ Lpush(f) \/ Ltrim(f) \/ EmitDone(f) \/ EmitFails(f)
    BY <2>1 DEF Incr, Lpush, Ltrim, EmitDone, EmitFails, handlers
  <2>2. CASE NextUser(f)
    BY <2>2 DEF NextUser, handlers
  <2>3. CASE SendLive(f)
    BY <2>3 DEF SendLive
  <2> QED
    BY <1>1, <2>1, <2>2, <2>3 DEF EmitStep, Emit
<1>2. ASSUME NEW u \in Users, Connect(u) PROVE Served(c, e)'
  BY <1>2 DEF Connect, emitters
<1>3. ASSUME NEW d \in Conns, ConnStep(d) PROVE Served(c, e)'
  <2> UNCHANGED <<stage, left, targets>>
    BY <1>3, OthersEmitNothing DEF emitters
  <2>1. CASE Replay(d)
    BY <2>1 DEF Replay
  <2>2. CASE SendReplay(d)
    BY <2>2 DEF SendReplay
  <2>3. CASE HandlerEnds(d) \/ HandlerFails(d)
    BY <2>3 DEF HandlerEnds, HandlerFails, Close, Cut
  <2>4. CASE Sweep(d) \/ Break(d)
    BY <2>4 DEF Sweep, Break, Cut
  <2>5. CASE SendSyncDone(d) \/ Receive(d)
    BY <2>5 DEF SendSyncDone, Receive, handlers
  <2> QED
    BY <1>3, <2>1, <2>2, <2>3, <2>4, <2>5 DEF ConnStep, Handle
<1>4. CASE Restart
  BY <1>4 DEF Restart
<1>5. CASE UNCHANGED vars
  BY <1>5 DEF vars, emitters, handlers
<1> QED
  BY <1>1, <1>2, <1>3, <1>4, <1>5, Steps

LEMMA NothingMissedKept ==
  ASSUME Typed, Typed', NothingMissed, [Next]_vars
  PROVE  NothingMissed'
<1> SUFFICES ASSUME NEW c \in registered' \intersect up', phase'[c] \in {"replay", "live"},
                    NEW i \in 1..Len(log'), InReach(c, i)', NEW e, e = log'[i].ev,
                    stage'[e] \in {"send", "done"}
             PROVE  Served(c, e)'
  <2>1. DOMAIN log' = 1..Len(log')
    BY Entries DEF Typed, EmittersTyped
  <2> QED
    BY <2>1 DEF NothingMissed, Served
<1>1. /\ c \in registered \intersect up /\ from'[c] = from[c]
      /\ phase[c] \in {"replay", "live"} \/ Replay(c)
  BY ConnectionStays
<1>2. c \in Conns /\ e \in Events
  BY <1>1, Entries DEF Typed, EmittersTyped, ConnectionsTyped
<1>3. PICK k \in 1..Len(log) : log[k].ev = e /\ InReach(c, k)
  BY <1>1, <1>2, ReachStays
<1>4. CASE Replay(c)
  <2>1. /\ DOMAIN log = 1..Len(log) /\ k <= MaxEvents /\ UserOf(c) \in Audience[log[k].ev]
        /\ \A j \in 1..k : log[j].seq > from[c]
    BY <1>3, Entries DEF InReach, Typed, EmittersTyped
  <2>2. \E x \in Missed(log, UserOf(c), from[c]) : x.ev = e
    <3>1. log \in Seq(Entry) /\ k \in DOMAIN log
      BY <2>1 DEF Typed, EmittersTyped
    <3> QED
      BY <1>3, <2>1, <3>1, MissedEntries
  <2>3. queue'[c] = Missed(log, UserOf(c), from[c])
    BY <1>2, <1>4 DEF Replay, Typed, ConnectionsTyped
  <2> QED
    BY <2>2, <2>3 DEF Served
<1>5. CASE phase[c] \in {"replay", "live"} /\ stage[e] \in {"send", "done"}
  <2>1. k \in DOMAIN log
    BY <1>3, Entries DEF Typed, EmittersTyped
  <2>2. Served(c, log[k].ev)
    BY <1>1, <1>3, <1>5, <2>1 DEF NothingMissed
  <2> QED
    BY <1>1, <1>2, <1>3, <1>5, <2>2, ServedStays
<1>6. CASE stage[e] \notin {"send", "done"}
  <2>1. Ltrim(e)
    <3>1. ASSUME NEW f \in Events, EmitStep(f) PROVE Ltrim(e)
      BY <1>2, <1>6, <3>1 DEF EmitStep, Emit, Incr, Lpush, Ltrim, NextUser, SendLive, EmitDone, EmitFails,
                              Typed, EmittersTyped
    <3>2. CASE Restart
      BY <1>2, <1>6, <3>2 DEF Restart, Typed, EmittersTyped
    <3>3. CASE UNCHANGED <<redis, emitters>>
      BY <1>6, <3>3 DEF emitters
    <3> QED
      BY <3>1, <3>2, <3>3, Steps, OthersEmitNothing
  <2>2. stage'[e] = "send" /\ left'[e] = Audience[e]
    BY <1>2, <2>1 DEF Ltrim, Typed, EmittersTyped
  <2>3. UserOf(c) \in Audience[e]
    BY <1>3 DEF InReach
  <2> QED
    BY <2>2, <2>3 DEF Served
<1> QED
  BY <1>1, <1>4, <1>5, <1>6

-----------------------------------------------------------------------------
\* The invariant of the stream: types, the length of the list, whom events are
\* for, and what a connection is owed.
THEOREM Invariance == Spec => []IInv
<1>1. Init => IInv
  BY InitTyped, InitShort, InitServes, InitOnlyFor, InitNothingMissed DEF IInv
<1>2. IInv /\ [Next]_vars => IInv'
  <2> SUFFICES ASSUME IInv, [Next]_vars PROVE IInv'
    OBVIOUS
  <2>1. Typed /\ Typed'
    BY TypedKept DEF IInv
  <2>2. ListShort' /\ ServesAudience' /\ QueueWhere'
    BY <2>1, ShortKept, ServesKept, QueueWhereKept DEF IInv
  <2>3. OnlyFor' /\ NothingMissed'
    BY <2>1, OnlyForKept, NothingMissedKept DEF IInv
  <2> QED
    BY <2>1, <2>2, <2>3 DEF IInv
<1> QED
  BY <1>1, <1>2, PTL DEF Spec

\* The list is never longer than MAX_EVENTS, but for what no LTRIM has followed
\* (push_service.py:46-48), and every variable has its type.
THEOREM TypeCorrect == Spec => []TypeOK
<1>1. IInv => TypeOK
  BY DEF IInv, Typed, EmittersTyped, ConnectionsTyped, ListShort, Untrimmed, Frames, TypeOK
<1> QED
  BY <1>1, Invariance, PTL

\* Nobody ever receives what is not addressed to him, nor anything that was not
\* in the list before it: neither live nor from a replay, whatever breaks.
THEOREM AudienceOnly == Spec => []OnlyAudienceAfterPush
<1>1. IInv => OnlyAudienceAfterPush
  BY DEF IInv, OnlyFor, GotFor, For, Pushed, OnlyAudienceAfterPush
<1> QED
  BY <1>1, Invariance, PTL

\* Registering a connection before its replay leaves no gap (ws/router.py:70-85):
\* after sync.done it has been sent what was emitted for its user since last_seq.
THEOREM NoGap == Spec => []NoGapAtSync
<1>1. ASSUME IInv PROVE NoGapAtSync
  <2> SUFFICES ASSUME NEW c \in registered \intersect up, phase[c] = "live",
                      NEW i \in DOMAIN log, i <= MaxEvents, stage[log[i].ev] = "done",
                      UserOf(c) \in Audience[log[i].ev],
                      \A j \in 1..i : log[j].seq > from[c]
               PROVE  log[i].ev \in sent[c]
    BY DEF NoGapAtSync
  <2>1. Served(c, log[i].ev)
    BY <1>1 DEF IInv, NothingMissed, InReach
  <2>2. c \in Conns /\ queue[c] = {}
    BY <1>1 DEF IInv, QueueWhere, Typed, ConnectionsTyped
  <2> QED
    BY <2>1, <2>2 DEF Served
<1> QED
  BY <1>1, Invariance, PTL
=============================================================================
