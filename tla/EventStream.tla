---------------------------- MODULE EventStream -----------------------------
(***************************************************************************)
(* The event stream between the services and the browsers:                 *)
(*   - PushService._emit numbers an event (INCR), puts it in a capped      *)
(*     Redis list (LPUSH, LTRIM) and sends it to the connections           *)
(*     registered in the ConnectionManager;                                *)
(*   - websocket_endpoint registers a connection, replays what the list    *)
(*     holds above the client's last_seq, sends sync.done and then waits   *)
(*     for frames;                                                         *)
(*   - the web client keeps the seq of the last frame it got and           *)
(*     reconnects with it.                                                 *)
(* Everything on the server runs in one event loop; an action ends at an   *)
(* await.  A connection is a pair <<user, n>>: the n-th a user's tab opens.*)
(* Events are named by the task that emits them.                           *)
(***************************************************************************)
EXTENDS Naturals, Sequences, FiniteSets, SequencesExt, Functions

CONSTANTS Users,
          Events,        \* emissions, each by a task of its own
          Audience,      \* Audience[e]: the users event e is addressed to
          Earlier,       \* events the list holds when the server starts, oldest first
          MaxEvents,     \* MAX_EVENTS: length of the Redis list
          MaxConnects    \* bound: connections one tab opens

ASSUME AudienceAssumption == Audience \in [Events -> SUBSET Users]
ASSUME MaxAssumption == MaxEvents \in Nat \ {0} /\ MaxConnects \in Nat
ASSUME EarlierAssumption ==
  Earlier \in Seq(Events) /\ IsInjective(Earlier) /\ Len(Earlier) <= MaxEvents

Conns == Users \X (1..MaxConnects)
UserOf(c) == c[1]

VARIABLES
  \* Redis
  seq,         \* the counter minim:seq
  log,         \* the list minim:events, newest first
  \* PushService, per event
  stage,       \* the await the emitting task stands at
  num,         \* the seq it drew, while it is at work
  left,        \* audience not yet served
  targets,     \* snapshot of the connections of the user being served
  \* server side of the connections
  registered,  \* ConnectionManager._conns, as a set of connections
  phase,       \* phase[c]: where the endpoint's handler stands
  queue,       \* queue[c]: events the handler still has to replay, each with
               \* the place it had in the list
  from,        \* from[c]: last_seq of the connection's URL
  sent,        \* history: sent[c]: events sent on c while it works
  \* network and client
  up,          \* connections that work
  wire,        \* wire[c]: frames on their way to the client
  lastSeq,     \* lastSeq[u]: the client's cursor
  got          \* got[u]: events the client received

redis == <<seq, log>>
emitters == <<stage, num, left, targets>>
handlers == <<registered, phase, queue, from, sent>>
clients == <<up, wire, lastSeq, got>>
vars == <<redis, emitters, handlers, clients>>

SyncDone == [kind |-> "sync.done"]
Entry == [seq : Nat, ev : Events]
Placed(l, i) == [at |-> i, seq |-> l[i].seq, ev |-> l[i].ev]

Init ==
  /\ seq = Len(Earlier)
  /\ log = Reverse([i \in DOMAIN Earlier |-> [seq |-> i, ev |-> Earlier[i]]])
  /\ stage = [e \in Events |-> IF e \in Range(Earlier) THEN "done" ELSE "idle"]
  /\ num = [e \in Events |-> 0]
  /\ left = [e \in Events |-> {}]
  /\ targets = [e \in Events |-> {}]
  /\ registered = {}
  /\ phase = [c \in Conns |-> "none"]
  /\ queue = [c \in Conns |-> {}]
  /\ from = [c \in Conns |-> 0]
  /\ sent = [c \in Conns |-> {}]
  /\ up = {}
  /\ wire = [c \in Conns |-> <<>>]
  /\ lastSeq = [u \in Users |-> 0]
  /\ got = [u \in Users |-> {}]

-----------------------------------------------------------------------------
\* PushService._emit and the send loop of dispatch and emit_event.

Incr(e) ==
  /\ stage[e] = "idle"
  /\ seq' = seq + 1
  /\ num' = [num EXCEPT ![e] = seq + 1]
  /\ stage' = [stage EXCEPT ![e] = "lpush"]
  /\ UNCHANGED <<log, left, targets, handlers, clients>>

Lpush(e) ==
  /\ stage[e] = "lpush"
  /\ log' = <<[seq |-> num[e], ev |-> e]>> \o log
  /\ stage' = [stage EXCEPT ![e] = "ltrim"]
  /\ UNCHANGED <<seq, num, left, targets, handlers, clients>>

MutantFirstN(s, n) == SubSeq(s, 1, IF Len(s) < n + 1 THEN Len(s) ELSE n + 1)
                           \* LTRIM's end taken as exclusive
\* The first n entries of a list.
FirstN(s, n) == SubSeq(s, 1, IF Len(s) < n THEN Len(s) ELSE n)

Ltrim(e) ==
  /\ stage[e] = "ltrim"
  /\ log' = FirstN(log, MaxEvents)
  /\ stage' = [stage EXCEPT ![e] = "send"]
  /\ left' = [left EXCEPT ![e] = Audience[e]]
  /\ UNCHANGED <<seq, num, targets, handlers, clients>>

\* send_to_user copies the user's connections before the first await.
NextUser(e) ==
  /\ stage[e] = "send"
  /\ targets[e] = {}
  /\ \E u \in left[e] :
       /\ left' = [left EXCEPT ![e] = @ \ {u}]
       /\ targets' = [targets EXCEPT ![e] = {c \in registered : UserOf(c) = u}]
  /\ UNCHANGED <<redis, stage, num, handlers, clients>>

Put(c, frame) == wire' = [wire EXCEPT ![c] = Append(@, frame)]

\* One send_json.  On a connection that is gone it raises, and the connection
\* is dropped, or the frame disappears in a buffer.
SendLive(e) ==
  /\ stage[e] = "send"
  /\ \E c \in targets[e] :
       /\ targets' = [targets EXCEPT ![e] = @ \ {c}]
       /\ \/ /\ c \in up
             /\ Put(c, [kind |-> "event", seq |-> num[e], ev |-> e])
             /\ sent' = [sent EXCEPT ![c] = @ \union {e}]
             /\ UNCHANGED registered
          \/ /\ c \notin up
             /\ registered' \in {registered, registered \ {c}}
             /\ UNCHANGED <<wire, sent>>
  /\ UNCHANGED <<redis, stage, num, left, phase, queue, from, up, lastSeq, got>>

EmitDone(e) ==
  /\ stage[e] = "send"
  /\ targets[e] = {} /\ left[e] = {}
  /\ stage' = [stage EXCEPT ![e] = "done"] /\ num' = [num EXCEPT ![e] = 0]
  /\ UNCHANGED <<redis, left, targets, handlers, clients>>

\* Redis refuses LPUSH or LTRIM: the caller gives this emission up (a message
\* is emitted again, as another event, when its outbox row is retried).  If it
\* is INCR, nothing has happened.
EmitFails(e) ==
  /\ stage[e] \in {"lpush", "ltrim"}
  /\ stage' = [stage EXCEPT ![e] = "failed"] /\ num' = [num EXCEPT ![e] = 0]
  /\ UNCHANGED <<redis, left, targets, handlers, clients>>

-----------------------------------------------------------------------------
\* websocket_endpoint.

\* The tab opens its next connection with its cursor in the URL.  The handler
\* accepts it (manager.connect) and registers it before it reads the list.
Connect(u) ==
  /\ \A c \in up : UserOf(c) # u
  /\ \E n \in 1..MaxConnects :
       LET c == <<u, n>> IN
       /\ \A k \in 1..MaxConnects : (phase[<<u, k>>] = "none") <=> k >= n
       /\ up' = up \union {c}
       /\ registered' = registered \union {c}
       /\ from' = [from EXCEPT ![c] = lastSeq[u]]
       /\ phase' = [phase EXCEPT ![c] = "registered"]
  /\ UNCHANGED <<redis, emitters, queue, sent, wire, lastSeq, got>>

MutantMissedAudience(l, u, last) ==   \* no filter on `to`
  LET raw == FirstN(l, MaxEvents)
      newer == {i \in DOMAIN raw : \A j \in 1..i : raw[j].seq > last}
  IN  {Placed(raw, i) : i \in newer}

MutantMissedOffByOne(l, u, last) ==   \* stops one event early
  LET raw == FirstN(l, MaxEvents)
      newer == {i \in DOMAIN raw : \A j \in 1..i : raw[j].seq > last + 1}
  IN  {Placed(raw, i) : i \in {j \in newer : u \in Audience[raw[j].ev]}}

\* PushService.replay: walk the list from its newest entry and stop at the
\* first one that is not above last_seq; keep what is addressed to the user.
Missed(l, u, last) ==
  LET raw == FirstN(l, MaxEvents)
      newer == {i \in DOMAIN raw : \A j \in 1..i : raw[j].seq > last}
  IN  {Placed(raw, i) : i \in {j \in newer : u \in Audience[raw[j].ev]}}

Replay(c) ==
  /\ phase[c] = "registered" /\ c \in up
  /\ queue' = [queue EXCEPT ![c] = Missed(log, UserOf(c), from[c])]
  /\ phase' = [phase EXCEPT ![c] = "replay"]
  /\ UNCHANGED <<redis, emitters, registered, from, sent, clients>>

\* The replay is reversed: what stood last in the list is sent first.
SendReplay(c) ==
  /\ phase[c] = "replay" /\ c \in up
  /\ \E x \in queue[c] :
       /\ \A y \in queue[c] : y.at <= x.at
       /\ Put(c, [kind |-> "event", seq |-> x.seq, ev |-> x.ev])
       /\ sent' = [sent EXCEPT ![c] = @ \union {x.ev}]
       /\ queue' = [queue EXCEPT ![c] = @ \ {x}]
  /\ UNCHANGED <<redis, emitters, registered, phase, from, up, lastSeq, got>>

SendSyncDone(c) ==
  /\ phase[c] = "replay" /\ c \in up
  /\ queue[c] = {}
  /\ Put(c, SyncDone)
  /\ phase' = [phase EXCEPT ![c] = "live"]
  /\ UNCHANGED <<redis, emitters, registered, queue, from, sent, up, lastSeq, got>>

\* The handler's own variables go with it.
Close(c) ==
  /\ phase' = [phase EXCEPT ![c] = "closed"]
  /\ queue' = [queue EXCEPT ![c] = {}]
  /\ from' = [from EXCEPT ![c] = 0]

\* The connection breaks, and what was on its way is lost.
Cut(c) ==
  /\ up' = up \ {c}
  /\ wire' = [wire EXCEPT ![c] = <<>>]
  /\ sent' = [sent EXCEPT ![c] = {}]

MutantHandlerEnds(c) ==               \* no disconnect in `finally`
  /\ phase[c] \in {"registered", "replay", "live"} /\ c \notin up
  /\ Close(c)
  /\ UNCHANGED <<redis, emitters, registered, sent, clients>>

\* receive_text or send_json raises on a connection that is gone; `finally`
\* takes it out of the manager.
HandlerEnds(c) ==
  /\ phase[c] \in {"registered", "replay", "live"} /\ c \notin up
  /\ Close(c)
  /\ registered' = registered \ {c}
  /\ UNCHANGED <<redis, emitters, sent, clients>>

\* Another exception ends the handler, and with it the connection: Redis fails
\* in the replay, or report_read refuses a frame (of a room its user has left).
HandlerFails(c) ==
  /\ phase[c] \in {"registered", "live"} /\ c \in up
  /\ Close(c) /\ Cut(c)
  /\ registered' = registered \ {c}
  /\ UNCHANGED <<redis, emitters, lastSeq, got>>

\* drop_stale closes a connection that has been silent for too long.
Sweep(c) ==
  /\ c \in registered
  /\ registered' = registered \ {c}
  /\ Cut(c)
  /\ UNCHANGED <<redis, emitters, phase, queue, from, lastSeq, got>>

-----------------------------------------------------------------------------
\* Network and client.

\* A frame arrives: the client's cursor becomes its seq.
Receive(c) ==
  /\ c \in up /\ wire[c] # <<>>
  /\ LET f == Head(wire[c]) IN
     IF f = SyncDone
     THEN UNCHANGED <<lastSeq, got>>
     ELSE /\ lastSeq' = [lastSeq EXCEPT ![UserOf(c)] = f.seq]
          /\ got' = [got EXCEPT ![UserOf(c)] = @ \union {f.ev}]
  /\ wire' = [wire EXCEPT ![c] = Tail(@)]
  /\ UNCHANGED <<redis, emitters, handlers, up>>

Break(c) ==
  /\ c \in up
  /\ Cut(c)
  /\ UNCHANGED <<redis, emitters, registered, phase, queue, from, lastSeq, got>>

\* The server process restarts: tasks and connections are gone, Redis stays.
Restart ==
  /\ registered' = {}
  /\ phase' = [c \in Conns |-> IF phase[c] = "none" THEN "none" ELSE "closed"]
  /\ queue' = [c \in Conns |-> {}]
  /\ stage' = [e \in Events |->
                 IF stage[e] \in {"lpush", "ltrim", "send"} THEN "failed" ELSE stage[e]]
  /\ num' = [e \in Events |-> 0]
  /\ left' = [e \in Events |-> {}]
  /\ targets' = [e \in Events |-> {}]
  /\ up' = {}
  /\ wire' = [c \in Conns |-> <<>>]
  /\ from' = [c \in Conns |-> 0] /\ sent' = [c \in Conns |-> {}]
  /\ UNCHANGED <<redis, lastSeq, got>>

-----------------------------------------------------------------------------
Emit(e) == Incr(e) \/ Lpush(e) \/ Ltrim(e) \/ NextUser(e) \/ SendLive(e) \/ EmitDone(e)
Handle(c) == Replay(c) \/ SendReplay(c) \/ SendSyncDone(c) \/ HandlerEnds(c)

Next ==
  \/ \E e \in Events : Emit(e) \/ EmitFails(e)
  \/ \E u \in Users : Connect(u)
  \/ \E c \in Conns : Handle(c) \/ HandlerFails(c) \/ Sweep(c) \/ Receive(c) \/ Break(c)
  \/ Restart

Spec == Init /\ [][Next]_vars

\* The event loop runs every handler; on a connection that is gone its await
\* raises.  A connection that works delivers.  That the server emits, sweeps or
\* is connected to is not assumed.
FairSpec == Spec /\ \A c \in Conns : WF_vars(Handle(c)) /\ WF_vars(Receive(c))

-----------------------------------------------------------------------------
EventFrame == [kind : {"event"}, seq : Nat, ev : Events]

\* Besides types: the list is never longer than MAX_EVENTS, but for pushes that
\* are not yet trimmed or whose LTRIM failed.
TypeOK ==
  /\ seq \in Nat /\ log \in Seq(Entry)
  /\ Len(log) <= MaxEvents + Cardinality({e \in Events : stage[e] \in {"ltrim", "failed"}})
  /\ stage \in [Events -> {"idle", "lpush", "ltrim", "send", "done", "failed"}]
  /\ num \in [Events -> Nat]
  /\ left \in [Events -> SUBSET Users]
  /\ targets \in [Events -> SUBSET Conns]
  /\ registered \in SUBSET Conns
  /\ phase \in [Conns -> {"none", "registered", "replay", "live", "closed"}]
  /\ queue \in [Conns -> SUBSET [at : Nat, seq : Nat, ev : Events]]
  /\ from \in [Conns -> Nat]
  /\ sent \in [Conns -> SUBSET Events]
  /\ up \in SUBSET Conns
  /\ wire \in [Conns -> Seq(EventFrame \union {SyncDone})]
  /\ lastSeq \in [Users -> Nat]
  /\ got \in [Users -> SUBSET Events]

\* Nobody receives, live or replayed, an event that is not addressed to them;
\* and no event reaches a client before it is in the list, so another tab or
\* a reconnect can still replay it.
OnlyAudienceAfterPush ==
  \A u \in Users : \A e \in got[u] : u \in Audience[e] /\ stage[e] \notin {"idle", "lpush"}

\* Whatever is emitted, swept, broken or failing meanwhile, no connection stays
\* halfway or leaks: again and again (events are finitely many here) those that
\* are registered are in sync and their clients have all that was sent, and the
\* others have been taken out of the manager (ws/router.py:70-105).
InSync(c) == phase[c] = "live" /\ c \in up /\ wire[c] = <<>>
ConnectionsSettle == []<>(\A c \in registered : InSync(c))

\* Registering before replaying leaves no gap: once sync.done is sent, a
\* connection has been sent every event of its user above last_seq whose
\* emission completed, replayed or live.  Two exceptions remain: what an
\* older entry hides from the walk through the list, and a connection that
\* the manager dropped.
NoGapAtSync ==
  \A c \in registered \intersect up :
    phase[c] = "live" =>
      \A i \in DOMAIN log :
        LET e == log[i].ev IN
        /\ i <= MaxEvents /\ stage[e] = "done" /\ UserOf(c) \in Audience[e]
        /\ \A j \in 1..i : log[j].seq > from[c]
        => e \in sent[c]

\* push_service.py:66: the list descends, what follows an old entry is older.
LogDescends == \A i, j \in DOMAIN log : i < j => log[i].seq > log[j].seq

\* A client that is connected, in sync and has no frame under way has every
\* event of its own whose emission completed and that the list still holds,
\* even when the list is in order.
Drained(c) == c \in up /\ c \in registered /\ phase[c] = "live" /\ wire[c] = <<>>

NothingLost ==
  LogDescends =>
    \A c \in Conns : Drained(c) =>
      \A i \in DOMAIN log :
        LET e == log[i].ev IN
        stage[e] = "done" /\ UserOf(c) \in Audience[e] => e \in got[UserOf(c)]
=============================================================================
