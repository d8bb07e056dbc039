# MinIM in TLA+

TLA+ modules, TLC configurations and TLAPS proofs for MinIM, an instant-messaging
backend in Python (FastAPI, SQLAlchemy over PostgreSQL, Redis, MinIO) with a
single-page web client. Every definition is translated from the code under `src/`;
`PROJECT.json` names, for each one, the lines it stands for.

    tlc -workers 2 -config Outbox.cfg MCOutboxDelivery     # a run
    tlapm OutboxDeliveryProofs.tla                         # the proofs of a module

## 1. The system

One server process runs an asyncio event loop: HTTP requests, one task per WebSocket,
the outbox worker and the sweep of stale connections. Their steps interleave at every
`await`. State is shared in three places: PostgreSQL (transactions at READ COMMITTED, so
every statement sees what is committed when it runs), Redis (single commands are atomic,
sequences of them are not) and the memory of the process (the connection manager, the
flag of the object store), which a restart empties.

| component | code | state | operations | what is hard |
|---|---|---|---|---|
| Outbox | `message_service.send`, `push_service.dispatch`, `outbox_repo`, `tasks/outbox_worker` | rows of `outbox`: status, `retry_count`, `next_retry_at`; the worker's round | store message and row in one transaction, dispatch inline, poll, retry with back-off, give up | worker and sender dispatch the same row; decisions on a copy; lost answers; crashes |
| Event log and connections | `push_service._emit`, `emit_event`, `replay`; `ws/router`, `ws/manager` | Redis `seq` and list; registered sockets, each handler's progress | INCR, LPUSH, LTRIM, send; connect, replay, sync.done, disconnect; sweep | emitters interleave between INCR and LPUSH; live and replayed frames interleave; three places disconnect |
| Web client | `web/index.html` | `lastSeq`, open room, one window, `msgCursor`, `loadingMsgs` | connect, reconnect, open a room, page, send, report, answer events | events in any order; cursor kept over reconnects; answers that arrive in another room |
| Friends, blocks, single rooms | `friend_service`, `friend_repo`, `room_service` | `friend_requests`, `friendships`, `blocks`, `rooms` | apply, accept, reject, delete, block, unblock, get-or-create room | check-then-act without locks; two rows for one fact; lock order |
| Groups | `group_service`, `room_repo` | `room_members`, `rooms.owner_id`, `member_limit` | create, add, leave, kick; afterwards audit record, audience, event | count-then-insert; unique keys wait for each other; what follows a commit overtakes |
| Room history | `message_service`, `message_repo`, `room_repo` | `messages`, `last_msg_id`, `last_read_msg_id` | send, recall, page by cursor, report read | ids are drawn before the commit and become visible out of order |
| Read receipts | `message_service.report_read`, `ws/router`, client | read positions, events | report over POST and WebSocket, announce | two channels, reordering, clients that answer answers |
| Marks | `message_service.mark`, `message_repo.mark_toggle` | `message_marks` | toggle, count | SELECT, then DELETE or INSERT |
| Sensitive words | `security/sensitive` | trie, automaton | load (repeatedly), filter | indices; links that are followed while they are made; two algorithms for one contract |
| Rate limiter | `security/rate_limit` | one Redis sorted set per key | count, refuse, fail open | four commands that interleave while time passes; bounds of the window |
| Files | `file_service`, `core/storage`, `api/v1/files` | MinIO objects, `files`, `_bucket_ready` | upload, download, lazy bucket | two stores without a common transaction; threads |
| Accounts | `user_service`, `user_repo` | `users` | register, patch profile | two registrations of a name; patches from copies |
| Lists and counts | `room_service.list_my_rooms`, `list_members` | – | several reads in one request | each read sees another state |
| Audit log | `security/audit`, `audit_repo` | `audit_logs` | record, in a transaction of its own | fails unnoticed after the commit it is about |
| Tokens, routers, configuration | `core/security`, `api`, `core/config`, ... | – | – | – |

Interactions: `send` writes the outbox and then calls `dispatch`, as the worker does;
`dispatch` reads the room's members and emits through the event log; the friend, group and
receipt services emit through the same log after their commit; the WebSocket handler calls
`replay` and `report_read`; the client closes the loop by answering events with reports.

What makes each component correct:

- **Outbox**: a stored message is delivered at least once or abandoned after `MAX_RETRY`
  counted failures; it is not called sent before its event is in the log; duplicates are
  bounded by failures; nothing concluded is tried again.
- **Event log**: events reach their audience only; a connection in sync has a complete
  prefix; the log is bounded; every connection gets into sync or is dropped; a reconnecting
  client loses nothing.
- **Friends**: friendship is symmetric and comes from an accepted request; one pending
  request and one single room for two users; no request past a block; requests do not wait for
  each other in a circle but where two users do opposite things at once.
- **Groups**: the owner is a member; the limit holds; concurrent requests do not deadlock;
  every removal is audited and every member hears of the last change.
- **Room history and client**: `last_msg_id` is the newest message; a card of the room list
  hides nothing; a window scrolled to its beginning is complete; what was not shown is
  unread.
- **Receipts**: nothing unstored is announced; they come to rest.
- **Marks**: two toggles cancel; the count returned contains one's own effect.
- **Sensitive words**: what is hidden is exactly what words cover, in either algorithm.
- **Rate limiter**: never more than the limit in a window; recovery; a useful Retry-After.
- **Files**: whatever is recorded can be downloaded. **Accounts**: answers are true.

## 2. Modules

| module | models | proofs |
|---|---|---|
| `ReliableDelivery` | the abstract promise of the outbox | – |
| `OutboxDelivery` | sender, dispatch, worker, crash; implements `ReliableDelivery` | `OutboxDeliveryProofs` |
| `EventStream` | emission, replay, connections, client cursor | `EventStreamProofs` |
| `Friendship` | the services of two users over PostgreSQL | `UsersProofs` |
| `GroupRoom` | the members of one group | `GroupChatProofs` |
| `GroupChat` | extends it: what follows a commit | `GroupChatProofs` |
| `RoomTimeline` | messages, pages, read position and card of one room, in the database | `ChatWindowProofs` |
| `ChatWindow` | extends it: the window of a member's web client | `ChatWindowProofs` |
| `ReadReceipts` | reports and receipts between clients | `MarksAndReceiptsProofs` |
| `MessageMarks` | marks of one message | `MarksAndReceiptsProofs` |
| `SensitiveFilter` | both filters, loop by loop | `FilterAndFilesProofs` |
| `RateLimiter` | one key | `RateLimiterProofs` |
| `FileStore` | uploads, downloads, bucket | `FilterAndFilesProofs` |
| `Accounts` | one name, one profile | `UsersProofs` |

`MC<Module>` instantiates a module for TLC; `GroupRoom` and `RoomTimeline` are checked as parts of
`GroupChat` and `ChatWindow`. `UsersProofs`, `MarksAndReceiptsProofs` and `FilterAndFilesProofs`
each prove facts about two modules that share no state; the definitions every specification has
are therefore named `AccountsInit`, `ReceiptsInit`, `FilterInit` and so on in one of the two.
Conventions shared by all of them:

- A step ends at an `await`: one SQL statement, one Redis command, one `send_json`. What
  lies between two awaits is one action, and so is a transaction no other task can observe
  halfway (`send`'s creation of message and row in `OutboxDelivery`, `create_group`).
- Where PostgreSQL is modelled statement by statement, a transaction's uncommitted rows
  are kept beside the committed ones (`adds`, `dels`): others do not see them but wait
  where they touch the same row or unique key. Deadlocks are aborted, as PostgreSQL does.
- An exception, a refused statement and the death of a task are a `Fails` or `Rollback`
  that drops what is not committed. What happens after a commit (an event, an audit
  record) may still fail the request; the commit stays.
- `overlapped` is a history variable: two requests of a kind were at work together. It
  restricts properties that the code guarantees for requests served one after the other
  only; section 5 says what happens otherwise.
- An operator `MutantX` is `X` with a plausible bug. Nothing but the mutation list in
  `PROJECT.json` refers to it: each property is violated when its mutant takes `X`'s place.

How state and actions correspond to the code:

- **OutboxDelivery.** `status`, `retries`, `backoff` are the columns of `outbox`
  (`backoff` says that `next_retry_at` lies ahead). `stage[t]` is the await at which a
  sender or the worker stands, `batch` and `current` are the rows `process_once` has read,
  with the `retry_count` of that time. `ReadAudience` .. `MarkSent` are the awaits of
  `dispatch`; `ListPending`, `Take`, `Settle`, `Retry`, `DeadLetter`, `EndRound` those of
  `process_once`; `LpushAnswerLost` and `CommitAnswerLost` are calls that took effect and
  raised. `Unknown` and `Orphans` are rows that are in the table at the start: of a topic
  nobody handles, of a deleted message.
- **EventStream.** `seq` and `log` are Redis, `stage`, `num`, `left`, `targets` the
  locals of an emission, `registered` the manager, `phase`, `queue`, `from` a handler's
  progress, `up` and `wire` the network, `lastSeq` the client's cursor, which is the seq of
  the *last* frame it received. `HandlerFails` is an await of the endpoint that raises:
  its `finally` takes the connection out of the manager, as the sweep and a failed send do.
  `Missed` is `replay`: the newest entries down to the first that is not above `last_seq`. A
  queue is a set of entries with their places in the list, sent from the oldest place on, and
  not a sequence made by filtering one, about which the prover could show nothing.
- **Friendship.** `task[t].pc` is the statement a request stands at. The flush of an accept is
  three of them: `AcceptUpdate` writes the request, `AddFirst` and `AddSecond` the two rows of
  `create_both`. `WaitsFor` says whose uncommitted row a statement needs, and `DeadlockAbort`
  is the error with which PostgreSQL ends a circle of two. One task handles any
  sequence of requests of either user, so that earlier requests leave every state the API
  can produce. `pastBlock` remembers of a friend request that a block stood when it was
  inserted.
- **GroupRoom.** Users are their ids, because `add_members` sorts them. The checks that
  depend on `owner_id` only are decided when the request arrives: it never changes. `counted`
  in a task is the set that `count_members` counted, and `behind` remembers how many members
  joined between such a count and the commit of its request.
- **GroupChat.** `post[t]` is what a request has to do after its commit
  (`audit.record`, `list_members`, `emit_event`). `untraced` and `stale` are what a reader of
  the audit log and of the events would miss, `gone` and `failed` say what excuses it.
- **RoomTimeline.** `Insert` draws the id, `Touch` locks the room's row, `Commit` makes both
  visible, `Rollback` leaves a gap. `RecallCheck` and `RecallCommit` are `recall`. `Page` is
  `list_by_cursor`, whose order is that of `Descending`; `ListForUser`, `GetLast` and `CountAfter`
  are the statements of `list_my_rooms`, with what they have read in `card`.
- **ChatWindow.** `history` and `appended` are the elements of `#msgs`: those that
  `loadHistory` put there, and below them those of `message.new` and of the answers to own
  sends; `cursor` is `msgCursor` with `msgHasMore`, `loading` is `loadingMsgs`. `loads` and
  `answers` are requests under way, whose answers are put into the window whatever room it
  shows by then. `crossed` says that this could have mixed rooms. `reads` are the ids of
  another room's messages whose reports were not answered when this room was opened:
  `ReportAnswered` is the frame that follows, with this room's number on it.
- **ReadReceipts.** There are several rooms, and the positions of one of them (`Room`) are kept.
  A report is `Report` (UPDATE with GREATEST, commit) and `Emit` (the event, and the answer).
  What came by POST is followed by a frame over the WebSocket, with the same id and the room
  that is open at the answer (`Again`). A client answers every `message.read` with a report for
  the room it has open. Equal reports and events under way at the same time count as one, and
  overtake each other. A window is filled at once when its room is opened: `ChatWindow` is
  about how.
- **SensitiveFilter.** A node of a trie is the path to it; `Lower[c]` is what `c.lower()`
  consists of (that one letter, the Greek sigma, depends on its place is left out). A step is
  one iteration of a loop. `LoadTrie` is the whole of `DFAFilter.load`; `LoadWords` is the first
  loop of `ACFilter.load`, and the breadth-first pass follows step by step: `QueueFirst` (the
  children of the root), `PopLeft`, `NextChild` (in any order, as a dict has the order in which
  words came), `FollowFail`, `Link`, `Loaded`. A filter is loaded again with more words as often
  as one likes, and called for one text after another: `Type` puts a text together, `Call` is
  the call; `DFAStep` is one starting position, `FallBack` and `ACStep` are the automaton's two
  loops, `Merge` and `Replace` those of `_replace_hits`. Loading and filtering contain no await
  and never overlap. The early returns for an empty text, an empty trie and no hits are
  special cases of the loops: nothing is found and the text is returned.
- **RateLimiter.** `Tick` lets time pass between any two commands, and drops the key when its
  TTL is over. A task keeps the `now` it took before its ZADD; `counted` is the time of its
  ZCARD. `admitted` remembers both of every request that was let through, and whether its entry
  was still in the set at its EXPIRE.
- **FileStore, Accounts, MessageMarks.** `step`/`task` is where a request stands between
  two calls of the store or the database.

## 3. Runs

| run | instance | states | shows |
|---|---|---|---|
| `Outbox` | rows 1 (new), 2 (unknown topic), 3 (orphan), 3 attempts, batches of 2, one outage | 36 000 | types, `SentImpliesPublished`, `DeadMeansExhausted`, `SnapshotFresh`, `DuplicatesBounded`; implements `ReliableDelivery` (`ImplementsPromise`) and its progress: a stored message does not stay undecided (`KeepsPromise`) |
| `Stream` | one user, two connections, two emissions, a log of two that starts with somebody else's event | 513 000 | types and the bound of the log, `NoGapAtSync`, `OnlyAudienceAfterPush`; `ConnectionsSettle`: again and again those registered are in sync and the others dropped |
| `StreamNothingLost` | one user, two emissions | – | a counterexample: an event is lost (section 5) |
| `Friends` | two tasks, two friend requests | 3 525 000 | types; `OnlyOppositesDeadlock`: nobody waits in a circle, except that two users accept each other's request, or delete their friendship, at the same time; `ConsistentOneByOne`: as long as no two requests overlapped, `SymmetricFriendship`, `FriendsWereAccepted`, `SinglePending`, `OneSingleRoom` and `BlockRespected` |
| `Group` (`MCGroupChat`) | four users, limit 3, two adders of up to two users, one remover | 2 859 000 | types, `OwnerIsMember`, `NoDeadlock`, no deadlock; `LimitRespected`: exceeded by no more than joined between a count and its commit; `FollowedUp`: removals are audited, members hear of the last change |
| `Timeline` (`MCChatWindow`) | two senders, one of them the client's own, two messages, one recall, pages of one, two history requests under way, one appended element, one report of another room under way when this one is opened | 2 363 000 | types; `LastMsgIsNewest`: it names a stored message, the newest one unless two sends overlapped; `CardAddsUp`; `WindowComplete` and `ReadWasShown` until a room is opened while an answer is under way |
| `Receipts` | two clients, two rooms, of which they share one, two messages, two reports under way | 296 000 | types, nothing announced that is not stored; `ReceiptsCease` |
| `Filter` | letters a, b, A, and I, which is b, a in lower case; one or two words of up to 3, loaded at once or one after the other; one text after another, of up to 4 | 927 000 | `FindsAll`: the hits cover what words cover; `HidesWords`: the answer hides it, each run by one `***`, and nothing else; no deadlock |
| `Limiter` | two tasks, limit 2, window 2, 5 ticks, 4 requests | 4 780 000 | types, each request counted once, `WindowHonoured`, `Recovers` |
| `Marks` | two tabs of one user, one of another, 4 inserted rows | 102 000 | types, one row per user, one's own effect in the count returned; `TogglesCancel` for a user whose requests are served one at a time |
| `Files` | two uploads, one download, one restart | 872 | types, `RecordHasObject`, `OrphanIsFailure`, no deadlock |
| `Accounts` | three registrations of two names, three patches of two fields | 23 000 | types, `AnswersAreTrue`, `PatchesAreKept` |

**Why the bounds are enough.** The hazards need two actors and rarely a third: two dispatches of a
row, two emissions, two requests of a kind. `MAX_RETRY` 3 gives a first, a middle and a last
attempt; a batch of 2 of 3 rows leaves a row for the next round. The log of two overflows with the
third push, and an entry for somebody else stands between. Limit 3 with four users lets one
request overshoot alone, two together, and a removal make room meanwhile. Pages of one and two
messages give a first and a last page, a page that is stale by a commit below its cursor, and,
with two requests under way, answers that overtake; a third message is beyond the time of a run.
Window 2 and 5 ticks let two windows follow each other, let the key's TTL end while a request
is between two commands, and let a `now` be a whole window old when it is used; 4 requests
exceed the limit of 2.
Two rooms of which only one is shared let each client have the other's or a room of its own
open when a report is answered; more rooms would be alike.
The filters' words of three letters nest, overlap, touch and repeat, the second load changes links
and outputs the first one made, and one letter grows in lower case. `MaxWords`, `MaxText` and
the set of `Batches` bound what is loaded and filtered, `MaxReports` (reports
under way of all users), `MaxReads` (reports of another room under way when it is left, none once
rooms were crossed and nothing is claimed), `MaxLoads` (history requests under way), `MaxAppended` (elements below the
history), `MaxTargets` (users to be added by one request), `MaxRecalls`, `MaxHits`, `MaxTime`,
`MaxRequests`, `MaxId`, `MaxRows`, `MaxConnects`, `MaxOutages`, `MaxRestarts` each bound what the
code does not.

**Symmetry** is used where tasks are interchangeable and no liveness is checked (the
adders of `Group`, the tasks of `Limiter`).

**Fairness.** `OutboxDelivery` has weak fairness of every dispatch, of the worker and of
the back-off: the event loop runs whatever is ready, `run_forever` polls until the process
ends and survives exceptions of `process_once` (outbox_worker.py:41-47), and time passes.
Failures, crashes and aborted rounds are not fair, the latter bounded: a system that
crashes for ever concludes nothing. Failures of a dispatch are not bounded: each is counted, and the
row is a dead letter after the last. `ReadReceipts` has weak fairness of each user's client
and of the server's handling of what they sent; nothing makes a client open a room, and
`ReceiptsCease` assumes that they stop. `EventStream` (`FairSpec`) has weak fairness of every
handler's step, because the event loop runs it and because an await on a connection that is
gone raises (the server's pings notice the silent ones), and of the delivery of frames on a
connection that works; that the server emits, sweeps or is connected to is not assumed, and
events are finitely many in an instance. No other module states fairness.

**CHECK_DEADLOCK FALSE** stands where the bounded instance comes to rest: everything
concluded (`Outbox`), connections used up (`Stream`), no more messages (`Receipts`), the
clock at its end (`Limiter`), the requests answered
(`Accounts`). The others check for deadlock.

## 4. Proofs

For every value of the constants, from the named assumptions of the modules only:

- **OutboxDeliveryProofs**: `TypeCorrect`, `SentIsPublished`, `DeadIsExhausted`,
  `SnapshotIsFresh`, `NothingReopened` (no row becomes pending again), `DuplicatesAreBounded`,
  and `Refinement`: `SafeSpec => ImplementsPromise`.
  The invariant `IInv` adds to the properties what makes them inductive. `WorkerRows`: a row
  the worker knows exists, had an attempt left when it was read, and the one at hand is no
  longer in the list; that is why the count read at the start of the round is still
  the table's, as nobody but the worker increments it. `PastLpush`: a task past its LPUSH has an event
  in the log, so whoever marks a row sent does so rightly, although two tasks may.
  `SenderAndRow`, `SenderStages`, `LegacyHasNoSender` tie senders to rows. `Debts` is the
  invariant behind `DuplicatesAreBounded`: the events of a message, with the one its sender
  may still push and the one the worker may still push before anything is counted for it,
  are within the bound; a failure pays for the next attempt. Refinement takes
  each action, under `IInv`, to an abstract action or a stutter.
- **GroupChatProofs**, of the members (`GroupRoom`): `TypeCorrect`, `OwnerStays`,
  `AddersNeverDeadlock`, `LimitKept`. `IInv` says which request may hold rows (`HeldWhere`), that
  none is about to delete the owner (`OwnerIsNoTarget`), that nothing is at work before the group
  exists, and that the rows an adder has inserted are smaller than those it still has to insert
  (`InOrder`). Two adders that waited for each other would each hold a smaller id than the other:
  a contradiction. `LimitKept` rests on a second invariant (`LimitInvariance`): what an adder
  counted and what it adds are within the limit together (`Checked`), so that a room it commits
  into exceeds the limit by those only who were not among the counted.
- **GroupChatProofs**, of the chat: `ChatIsRoom` (`ChatSpec => Spec` of `GroupRoom`, so that its
  theorems hold here), `ChatTypeCorrect`, `AllIsFollowedUp`. `CInv` says that
  a task serves one request at a time (`OneAtATime`), that a removal about to be committed is of a
  member or of somebody another request has removed (`RemovalIsTrue`), and that whoever is not yet
  audited or not yet told is owed it by a request that has not finished (`Owed`).
- **EventStreamProofs**: `TypeCorrect`, `AudienceOnly`, `NoGap`, for any users, audiences,
  connections and length of the list. `OnlyFor` follows an event from the list over queue and
  network to the client and says of each place that it was pushed and is for him.
  `NothingMissed` is what makes it right to register a socket before its replay is read: from
  the replay on, every entry within its reach is sent, or queued, or still belongs to an
  emission that has not come to the user or has the socket in its snapshot (`Served`). An
  entry that LPUSH puts before the others moves them down, and one that is cut off or lies
  behind an entry of a smaller seq is out of reach (`InReach`): the theorem promises what
  `replay` does, not what point 2 of section 5 misses. `ListShort` counts the emissions whose
  LTRIM has not run: the list is longer by these at most.
- **ChatWindowProofs** (of `ChatSpec`, and so of `RoomTimeline`): `LastMsgCorrect`,
  `TypeCorrect`, `ShowsAll` (`WindowComplete`), `ReadCorrect` (`ReadWasShown`), `CardCorrect`
  (`CardAddsUp`) and, about the operator they rest on, `PageIs`. The invariant has three parts.
  *Messages*: while no two sends overlapped, one at most is between its insert and its commit,
  and its id is greater than all that are there, so the commit that sets `last_msg_id` sets the
  greatest. *Client*: unless rooms were crossed, one request for history is under way at a time
  (`InTurn`), and the history holds nothing twice, nothing below the cursor and everything
  from the cursor on that was there at the start (`Contiguous`); a page is a piece without a
  hole (`PageIs`), so that appending it keeps this, and a window without a cursor is complete.
  The position is no greater than the newest message shown or is another room's (`ReadShown`).
  *Card*: what a statement of the room list has read still holds when the next one runs, since
  messages are never taken away (`CardKnows`).
- **UsersProofs**, of `Friendship`: `FriendshipTypes`, `OneByOneIsConsistent` and
  `DeadlocksAreOpposite` (`OnlyOppositesDeadlock`), for any number of tasks and requests. The
  invariant `FriendsInv`: uncommitted rows are those of the inserts of an accept, the row
  that names his friend first after one of them, or of a first DELETE, which holds its own row only
  (`HeldBy`); who handles a request is the one it was sent to (`HandlesRequest`);
  while no two requests overlapped one is served at most, and what it has found stays true
  until it acts on it (`Knows`): no block and no pending request before the insert, the request
  still pending before it is decided, no room before one is created, its own row deleted before
  the other. `WithinBounds` counts those about to create a room: each has found none, and
  there are no more rooms than tasks. For the deadlocks, `WaitedFor` lists who can be waited for and
  where he stands: of these only `addSecond` and `deleteOther` hold a row and want another. Two
  accepts there wait for each other exactly if their users differ (`InsertWaits`); of those who
  delete, whoever holds the row that one waits for and waits himself is half of such a pair
  (`DeletionsInACircle`). So a circle of any length contains a pair of opposite requests.
- **MarksAndReceiptsProofs**, of `MessageMarks`: `TypeCorrect` (two transactions never hold the
  same row; one's own effect is in the count) and `TogglesCancelInPairs`. A transaction that
  inserts a mark is the only one of its user to do so (`Exclusive`); the only request of a user
  knows his mark and will change it (`KnowsItsMark`); the mark is there exactly after an odd
  number of toggles (`Parity`). Of `ReadReceipts`: `ToldIsStored`. A report that is done is stored
  (`ReportsOf`), and a position never goes back, so whatever a report announces, however late and
  for whatever room it was meant, is stored.
- **RateLimiterProofs**: `TypeCorrect`, `WindowIsHonoured`, `SilenceRecovers`, for any limit,
  window and number of requests at once, with time passing at any moment. `Bounded` speaks of the
  requests let through together with those that have seen a count within the limit
  (`Approved`): among those that counted at most d after their `now`, the one that counts last
  sees all others of a window shorter by d in the set, as no ZREMRANGEBYSCORE could have removed
  them yet and `Kept` keeps the key, so that they are no more than its count. `InOrder` and
  `Alone` carry the request after a silence: what it counts is itself and what came later.
- **FilterAndFilesProofs**, of `SensitiveFilter`: `LoadingInvariance`, `TablesAreRight`,
  `FilteringInvariance`, `FilterFindsAll`, `FilterHidesWords`, for any alphabet, any words, any
  sequence of loads and any text.
  *Loading.* `Levels`: the queue holds the nodes by their depth, and a node waits for its link
  until its parent has been taken from the queue and it was the child at hand. `LinksRight`:
  the link of a node that does not wait is its longest proper suffix in the trie, and its output
  the longest word it ends with. `OutSound`: also while a node waits, its output is the
  length of some word it ends with, and no less than its own if it is one. A second load makes every deeper
  node wait again, with links that are true of the old words only. `WalkRight` is why that does
  no harm: the walk over the links visits shorter nodes only, which are up to date, and passes
  none that has the child; so it finds the longest suffix, and terminates. The
  branch for a node that is its own link (sensitive.py:162) is never taken.
  *Filtering.* `StateRight`: the automaton is in the longest end of the text so far that can
  still become a word. `HitsComplete`: every occurrence the scan has passed lies inside a hit;
  each hit is itself an occurrence. `DfaInOrder`: the DFA finds hits by their beginnings.
  `Apart`, `MergedSound`: the segments cover what the hits merged so far cover, and, if these came
  in order, do not touch. `AnswerSound`: the answer lists, in order, what is to be shown of the
  positions before `prev`. The restrictions of `HidesWords` (`Aligned`, and `HitsInOrder` for the
  automaton) are real: section 5, 14 and 15. Of `FileStore`: `TypeCorrect`, `RecordedIsStored`,
  `OrphansAreFailures`; the invariant says that an upload about to write its record has stored
  its object, and that a download holds keys of records only.
- **UsersProofs**, of `Accounts`: `AccountsTypes`, `RegistrationAnswers`, `PatchesSurvive`; the
  invariant says that an uncommitted registration holds a name nobody else has, and, field by
  field, that the row has the old value until some patch of that field wrote its own.

Each inductive invariant that a proof needed beyond the checked properties was first checked
by TLC on the instance of its run.

Some arguments need an induction over sets, more than one step of the system at a time can
give: that a finite set of ids has a greatest element and that it can be put in
descending order, that there is a longest word at a position, a longest suffix in a trie. They
are made from the least element of a set of numbers (`LeastExists`), because the
induction theorems of the library take an operator as a parameter, which the provers here
cannot instantiate. For the same reason `SensitiveFilter` has the loops of the program as
steps of its own: what a loop computes is then an invariant, where a recursive function
would need an induction over data.

Model-checked only: liveness (`KeepsPromise`, `ConnectionsSettle`, `ReceiptsCease`), which the
prover does not handle.

## 5. Known limits of the code

Found while modelling. The first is a run of its own; the others are seen by checking the
property named here with its restriction removed (for `~overlapped`) or with the instance
mentioned, in the run of that module.

1. **An event can be lost over a reconnection** (run `StreamNothingLost`). README.md:78:
   "断线重连不丢消息", docs/06:491 "服务端补发所有 seq > last_seq 的事件". The socket is
   registered before its replay is read (ws/router.py:70), so a newer live event may
   arrive before an older replayed one; the client's cursor is then the newer one's. If the
   connection breaks in between, the older event is in the log but never asked for.
2. **The list is not in the order of seq** (push_service.py:75). The comment at
   push_service.py:66 says "seq 递减，后面都是旧的". Two emitters INCR in one order and
   LPUSH in the other; `replay` stops at the smaller one and hides what lies behind.
   `LogDescends` in `EventStream` is the property violated.
3. **A sent row becomes a dead letter** (outbox_repo.py:66). docs/05:385 lists "0 待发 · 1
   已发 · 2 死信". `mark_dead_letter`, unlike `mark_retry`, has no condition on the status: a
   row the sender has delivered and marked while the worker's last attempt at it failed is
   marked dead. `Abandon` of `ReliableDelivery` therefore allows concluded messages.
4. **Friendship in one direction** (friend_repo.py:31). friend_repo.py:30: "双向两条记录一起删".
   `delete_both` is two statements; an accept that commits between them leaves one row.
5. **Friends by a rejected request** (friend_service.py:114). docs/03:170: "拒绝：只更新
   request 状态为 rejected，不建关系". Accept and reject both find it pending, the
   rejection, which takes no lock, is written last.
6. **Two pending requests** (friend_service.py:42). docs/03:153: "校验：... 无待处理申请".
   Nothing but a query holds it.
7. **Two single rooms** (room_service.py:28). docs/06:236: "创建或获取单聊会话（**幂等**）".
   The same.
8. **Mutual blocks crash** (friend_repo.py:104). friend_repo.py:97: "任一方向被拉黑都算". When
   both users block each other the query has two rows, `scalar_one_or_none` raises, and the
   next apply ends in an internal error instead of 50003: `ApplyIsBlocked` answers `crashed`.
9. **The member limit is exceeded** (group_service.py:82). docs/01:118: "群成员上限 500". Two
   `add_members` count before either commits. `LimitRespected` says by how much; without
   `+ behind` it is violated.
10. **A member removed meanwhile writes** (message_service.py:39). docs/01:39: "非成员无法读写该群消息".
    `assert_member` is the first statement of `send`, `mark` and `report_read`, the write a later
    one, and the membership is not asked again. Seen in the code; no module has it.
11. **last_msg_id is not the newest** (room_repo.py:85). docs/05:43: "最后一条消息，列表展示用".
    The transaction with the smaller id may update the room last. For the same reason a
    message that commits late, or is announced after a newer one, counts as read without
    having been shown (`ReadWasShown` speaks of the newest one shown), and a pager that has
    passed it does not see it.
12. **Receipts without end** (web/index.html:451). docs/03:230: "进入会话 / 滚动到底时触发". The
    client reports on every `message.read` event too: two clients that show the room
    answer each other for ever, and so do two that show different rooms of which both
    are members: the client does not look at which room the event is about.
    `ReceiptsCease` with `<= 2` for `<= 1`.
13. **Announcements go back** (message_service.py:162). docs/03:243: "防止客户端乱序上报导致已读回退".
    The stored position only advances, but the event carries the reported one:
    `announced` may decrease.
14. **DFA and automaton differ** (sensitive.py:178). sensitive.py:40: "DFA 和 AC
    共用这段逻辑，保证切换实现不改行为". A step of the automaton reports one word, and hits are
    ordered by their ends, while `_replace_hits` merges as if ordered by their beginnings.
    `FindsAll` holds of the hits of both; `HidesWords` without `HitsInOrder` is violated.
15. **Letters that grow in lower case** (sensitive.py:98). sensitive.py:97: "原串下标扫描、另建输出：...
    下标才不会错位". The indices are those of `text.lower()`; with a `Lower` that maps a letter
    to two characters `HidesWords` without `Aligned` is violated.
16. **Retry-After is too early** (rate_limit.py:58). rate_limit.py:46: ">0 表示建议多少秒后重试". A
    refused request stays in the window: who returns exactly when told is refused again.
    The value of Retry-After is not modelled.
17. **Two toggles at once count as one** (message_repo.py:102). message_service.py:127: "同类型重复提交
    = 取消". Both requests of a user find the mark, and both delete it.
18. **Rooms are mixed in the window** (web/index.html:331, 426). docs/03:230 has the position
    reported on "进入会话". `openRoom` waits neither for the history of the room before nor for
    the answer to a message sent there: they are put into the window that is open by then,
    and `markReadAll` reports the id of another room's message. `WindowComplete` and
    `ReadWasShown` without `~crossed`.
19. **A failed scroll is the last one** (web/index.html:338). `loadingMsgs` is reset only when
    `loadHistory` succeeds. `WindowComplete` without `~loading`.
20. **Smaller things of the client.** Its own message is shown twice when the event is faster
    than the answer (web/index.html:426). A page of history is newest first and stays so above
    the messages that are appended in order (web/index.html:333). The text of a recalled
    message names nobody: it asks for `extra.by` (web/index.html:347), the server writes
    `recalled_by` (message_repo.py:91).
21. **Who is removed is not told** (group_service.py:143). The audience is read after the
    commit: the removed user is not in it, and his client shows the group until it asks again.
    The audit record says that a user was removed also when the DELETE matched no row.
22. **Loading does not replace** (sensitive.py:135). sensitive.py:25: "load() 可重复调用覆盖". Both
    `load`s add to the words known before; none is ever forgotten (`words` in `LoadWords`).
23. **A read report for the wrong room** (web/index.html:413-415). docs/03:229: "WS message.read
    {room_id, last_read_msg_id}". When the POST of `markReadAll` is answered the client sends a
    frame with the room that is open by then and the id that was newest in the room before. The
    position of the room just opened jumps to that id, and all its messages below it count as read
    without having been shown. `ReadWasShown` without its second disjunct.
24. **A slow request lets more through** (rate_limit.py:47-50). docs/01:154: "发消息频控 20 条/分钟".
    `now` is taken before three awaits. While a request waits for its ZCARD a later one may remove
    entries that are in the window of the former, which then counts too few. `WindowHonoured`
    without `- d` of `InWindow`, that is with the whole window for requests that took long.
25. **A request that is never counted** (rate_limit.py:48-51). The TTL of the key may end between
    the ZADD and the EXPIRE of a request: Redis drops the set with its entry, and the request is
    let through without a trace. `WindowHonoured` without `x.kept`.
26. **Opposite requests deadlock** (friend_repo.py:24-36). docs/03:168: "好友关系是双向两条记录".
    Each of the two rows is written first by one of two users who accept each other's request, if
    two are pending (point 6), or who delete their friendship at the same time. PostgreSQL
    aborts one; nothing catches the error, and the user gets an internal error.
    `OnlyOppositesDeadlock` without `Opposites`.

## 6. Not modelled

- `cleanup_sent`: nothing calls it, so the table of sent rows grows for ever.
- Of the room list, its order and length and the cards of several rooms; the member list, two
  reads that nothing is decided on; the lists of friends, requests and users found.
- Tokens and passwords, routers, schemas, configuration, logging: no state of their own.
- The audit records of logins, rate limits and hidden words, written as those of removals
  are (`GroupChat`); the program never reads them.
- Of the filters, `contains`, a search for the first word without any answer put together, and
  the stripping and lower-casing of the words given to `load`.
- Several server processes: the code keeps connections and the worker in one.
- The content of messages and events, wording, the clock beyond what expiry needs.

## 7. Plan

Done, in this order: the outbox and its promise with proofs; the event log; friends and
groups with the proofs of the latter; room history, receipts; the smaller components; then
the connections' progress under fairness, the group with what
follows its commits (`GroupChat`), the room list and the client's window over the room's
history (`ChatWindow`), the proofs of these, of the marks and of the limiter, and the bound
on duplicates; then the proofs of the event log, of the window and the room list, of
friendships and of read positions; then the filters as loops, loaded repeatedly, and their
proofs.

Next, extending the model:

1. A composition of `OutboxDelivery` and `EventStream`: what at-least-once means for a
   connected client when a row is dispatched twice. The handlers need an abstraction (in sync
   or dropped, as `ConnectionsSettle` has it) first.
2. `ChatWindow` with this room's own reports under way, as `ReadReceipts` has them, instead of
   arriving at once.
3. Abstract specifications of the group (a set with a bound) and of the limiter (a set of
   admitted times), for what builds on them.

Next, proving:

1. What two overlapping requests of two friends can still not do: which parts of
   `ConsistentOneByOne` survive which overlaps.
