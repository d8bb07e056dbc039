--------------------------- MODULE OutboxDelivery ---------------------------
(***************************************************************************)
(* Delivery of chat messages through the transactional outbox:             *)
(* MessageService.send commits the message and its outbox row and then     *)
(* dispatches inline, while the OutboxWorker polls the table, dispatches   *)
(* what is pending and counts failures.  Both run PushService.dispatch in  *)
(* one asyncio process, so their awaits interleave: each action below ends *)
(* at an await.  PostgreSQL rows survive a restart, tasks do not.          *)
(*                                                                         *)
(* A row is named by its id; message and row are created together.  The    *)
(* content of events, the clock and the Redis list are abstracted: a row   *)
(* backs off or not, and only the number of LPUSHes per row is kept        *)
(* (EventStream models the list).                                          *)
(***************************************************************************)
EXTENDS Naturals, FiniteSets

CONSTANTS Rows,        \* ids of the outbox rows
          Unknown,     \* rows found in the table, of a topic nobody handles
          Orphans,     \* rows found in the table, whose message is gone
          MaxRetry,    \* MAX_RETRY
          BatchSize,   \* limit of list_pending
          MaxOutages   \* bound: crashes and rounds aborted by the database

Worker == 0
Tasks == Rows \union {Worker}
Legacy == Unknown \union Orphans

ASSUME RowsAssumption == Rows \subseteq Nat \ {0} /\ Rows # {}
ASSUME LegacyAssumption == Unknown \subseteq Rows /\ Orphans \subseteq Rows /\ Unknown \cap Orphans = {}
ASSUME LimitsAssumption == MaxRetry \in Nat \ {0} /\ BatchSize \in Nat \ {0} /\ MaxOutages \in Nat

VARIABLES
  status,     \* status[m]: outbox.status, "none" before the row is committed
  retries,    \* retries[m]: outbox.retry_count
  backoff,    \* backoff[m]: outbox.next_retry_at lies in the future
  published,  \* published[m]: events of m pushed to the Redis list
  stage,      \* stage[t]: the await task t stands at
  batch,      \* rows the worker's round still has to handle, as it read them
  current,    \* the row the worker handles, as it read it
  outages     \* crashes and aborted rounds so far

vars == <<status, retries, backoff, published, stage, batch, current, outages>>

Status == {"none", "pending", "sent", "dead"}
DispatchStages == {"read", "incr", "lpush", "ltrim", "send", "mark", "void"}
Record == [row : Rows, retry : Nat]

\* PushService.dispatch of a sender is about its own row.
RowOf(t) == IF t = Worker THEN current.row ELSE t

Init ==
  /\ status = [m \in Rows |-> IF m \in Legacy THEN "pending" ELSE "none"]
  /\ retries = [m \in Rows |-> 0]
  /\ backoff = [m \in Rows |-> FALSE]
  /\ published = [m \in Rows |-> 0]
  /\ stage = [t \in Tasks |-> IF t \in Legacy THEN "done" ELSE "idle"]
  /\ batch = {}
  /\ current = [row |-> CHOOSE m \in Rows : TRUE, retry |-> 0]
  /\ outages = 0

-----------------------------------------------------------------------------
\* MessageService.send: one transaction creates the message, its outbox row
\* and the room's last message; a rollback leaves nothing.  The inline
\* dispatch starts outside the transaction.
Send(m) ==
  /\ stage[m] = "idle" /\ m # Worker
  /\ status' = [status EXCEPT ![m] = "pending"]
  /\ stage' = [stage EXCEPT ![m] = "read"]
  /\ UNCHANGED <<retries, backoff, published, batch, current, outages>>

-----------------------------------------------------------------------------
\* PushService.dispatch, one await at a time.

Goto(t, s) == stage' = [stage EXCEPT ![t] = s]

\* get_by_id and list_members.
ReadAudience(t) ==
  /\ stage[t] = "read"
  /\ Goto(t, IF RowOf(t) \in Orphans THEN "void" ELSE "incr")
  /\ UNCHANGED <<status, retries, backoff, published, batch, current, outages>>

Incr(t) ==
  /\ stage[t] = "incr"
  /\ Goto(t, "lpush")
  /\ UNCHANGED <<status, retries, backoff, published, batch, current, outages>>

Lpush(t) ==
  /\ stage[t] = "lpush"
  /\ published' = [published EXCEPT ![RowOf(t)] = @ + 1]
  /\ Goto(t, "ltrim")
  /\ UNCHANGED <<status, retries, backoff, batch, current, outages>>

Ltrim(t) ==
  /\ stage[t] = "ltrim"
  /\ Goto(t, "send")
  /\ UNCHANGED <<status, retries, backoff, published, batch, current, outages>>

\* send_to_user for everyone in the audience: it never raises.
SendToAudience(t) ==
  /\ stage[t] = "send"
  /\ Goto(t, "mark")
  /\ UNCHANGED <<status, retries, backoff, published, batch, current, outages>>

SetSent(m) ==
  /\ status' = [status EXCEPT ![m] = "sent"]
  /\ backoff' = [backoff EXCEPT ![m] = FALSE]

Returns(t) == Goto(t, IF t = Worker THEN "settle" ELSE "done")
Raises(t) == Goto(t, IF t = Worker THEN "failed" ELSE "done")

\* OutboxRepo.mark_sent and commit, whatever the status has become.
MarkSent(t) ==
  /\ stage[t] \in {"mark", "void"}
  /\ SetSent(RowOf(t))
  /\ Returns(t)
  /\ UNCHANGED <<retries, published, batch, current, outages>>

MutantDispatchFails(t) ==     \* mark_sent in a finally block
  /\ stage[t] \in DispatchStages \ {"send"}
  /\ SetSent(RowOf(t))
  /\ Raises(t)
  /\ UNCHANGED <<retries, published, batch, current, outages>>

\* Redis or the database refuses the call the task stands at.  A sender
\* swallows the exception, the worker counts it.
DispatchFails(t) ==
  /\ stage[t] \in DispatchStages \ {"send"}
  /\ Raises(t)
  /\ UNCHANGED <<status, retries, backoff, published, batch, current, outages>>

MutantLpushAnswerLost(t) ==   \* a sender's failure is counted in retry_count
  /\ stage[t] = "lpush"
  /\ published' = [published EXCEPT ![RowOf(t)] = @ + 1]
  /\ retries' = [retries EXCEPT ![RowOf(t)] = IF t = Worker THEN @ ELSE @ + 1]
  /\ Raises(t)
  /\ UNCHANGED <<status, backoff, batch, current, outages>>

\* The call took effect but its answer was lost.
LpushAnswerLost(t) ==
  /\ stage[t] = "lpush"
  /\ published' = [published EXCEPT ![RowOf(t)] = @ + 1]
  /\ Raises(t)
  /\ UNCHANGED <<status, retries, backoff, batch, current, outages>>

CommitAnswerLost(t) ==
  /\ stage[t] \in {"mark", "void"}
  /\ SetSent(RowOf(t))
  /\ Raises(t)
  /\ UNCHANGED <<retries, published, batch, current, outages>>

-----------------------------------------------------------------------------
\* OutboxWorker.process_once.

MutantDue == {m \in Rows : status[m] = "pending" /\ ~backoff[m] /\ retries[m] = 0}
                              \* only next_retry_at IS NULL
Due == {m \in Rows : status[m] = "pending" /\ ~backoff[m]}

\* The rows `ORDER BY id LIMIT BatchSize` selects from S.
FirstOf(S) == {m \in S : Cardinality({k \in S : k < m}) < BatchSize}

ListPending ==
  /\ stage[Worker] = "idle"
  /\ Due # {}
  /\ batch' = {[row |-> m, retry |-> retries[m]] : m \in FirstOf(Due)}
  /\ Goto(Worker, "take")
  /\ UNCHANGED <<status, retries, backoff, published, current, outages>>

MutantTake ==                 \* the row is claimed by marking it sent
  /\ stage[Worker] = "take"
  /\ \E r \in batch :
       /\ \A q \in batch : r.row <= q.row
       /\ batch' = batch \ {r}
       /\ SetSent(r.row)
       /\ current' = r
       /\ Goto(Worker, "read")
  /\ UNCHANGED <<retries, published, outages>>

\* The next record of the round; a row of an unknown topic is marked and dropped.
Take ==
  /\ stage[Worker] = "take"
  /\ \E r \in batch :
       /\ \A q \in batch : r.row <= q.row
       /\ batch' = batch \ {r}
       /\ IF r.row \in Unknown
          THEN SetSent(r.row) /\ UNCHANGED <<stage, current>>
          ELSE /\ current' = r
               /\ Goto(Worker, "read")
               /\ UNCHANGED <<status, backoff>>
  /\ UNCHANGED <<retries, published, outages>>

\* The worker marks the row once more after a dispatch that returned.
Settle ==
  /\ stage[Worker] = "settle"
  /\ SetSent(current.row)
  /\ Goto(Worker, "take")
  /\ UNCHANGED <<retries, published, batch, current, outages>>

MutantDeadLetter ==           \* off by one in the limit
  /\ stage[Worker] = "failed"
  /\ current.retry + 2 >= MaxRetry
  /\ status' = [status EXCEPT ![current.row] = "dead"]
  /\ retries' = [retries EXCEPT ![current.row] = @ + 1]
  /\ backoff' = [backoff EXCEPT ![current.row] = FALSE]
  /\ Goto(Worker, "take")
  /\ UNCHANGED <<published, batch, current, outages>>

MutantDeadLetterStatus ==     \* the status is left pending
  /\ stage[Worker] = "failed"
  /\ current.retry + 1 >= MaxRetry
  /\ retries' = [retries EXCEPT ![current.row] = @ + 1]
  /\ Goto(Worker, "take")
  /\ UNCHANGED <<status, backoff, published, batch, current, outages>>

\* mark_dead_letter: the last failure, whatever the status has become.
DeadLetter ==
  /\ stage[Worker] = "failed"
  /\ current.retry + 1 >= MaxRetry
  /\ status' = [status EXCEPT ![current.row] = "dead"]
  /\ retries' = [retries EXCEPT ![current.row] = @ + 1]
  /\ backoff' = [backoff EXCEPT ![current.row] = FALSE]
  /\ Goto(Worker, "take")
  /\ UNCHANGED <<published, batch, current, outages>>

MutantRetryCount ==           \* the failure is not counted
  /\ stage[Worker] = "failed"
  /\ current.retry + 1 < MaxRetry
  /\ backoff' = [backoff EXCEPT ![current.row] = status[current.row] = "pending"]
  /\ Goto(Worker, "take")
  /\ UNCHANGED <<status, retries, published, batch, current, outages>>

\* mark_retry: only a row that is still pending.
Retry ==
  /\ stage[Worker] = "failed"
  /\ current.retry + 1 < MaxRetry
  /\ IF status[current.row] = "pending"
     THEN /\ retries' = [retries EXCEPT ![current.row] = @ + 1]
          /\ backoff' = [backoff EXCEPT ![current.row] = TRUE]
     ELSE UNCHANGED <<retries, backoff>>
  /\ Goto(Worker, "take")
  /\ UNCHANGED <<status, published, batch, current, outages>>

EndRound ==
  /\ stage[Worker] = "take"
  /\ batch = {}
  /\ Goto(Worker, "idle")
  /\ UNCHANGED <<status, retries, backoff, published, batch, current, outages>>

\* The worker's own session fails: the exception leaves process_once and
\* run_forever starts the next round.
AbortRound ==
  /\ stage[Worker] \in {"take", "settle", "failed"}
  /\ outages < MaxOutages
  /\ outages' = outages + 1
  /\ batch' = {}
  /\ Goto(Worker, "idle")
  /\ UNCHANGED <<status, retries, backoff, published, current>>

\* next_retry_at passes.
BackoffElapses(m) ==
  /\ status[m] = "pending" /\ backoff[m]
  /\ backoff' = [backoff EXCEPT ![m] = FALSE]
  /\ UNCHANGED <<status, retries, published, stage, batch, current, outages>>

\* The process dies and comes back: requests in flight are gone, the worker
\* starts afresh, the table is what was committed.
Crash ==
  /\ outages < MaxOutages
  /\ outages' = outages + 1
  /\ batch' = {}
  /\ stage' = [t \in Tasks |->
                 IF t = Worker \/ stage[t] = "idle" THEN "idle" ELSE "done"]
  /\ UNCHANGED <<status, retries, backoff, published, current>>

-----------------------------------------------------------------------------
DispatchStep(t) ==
  ReadAudience(t) \/ Incr(t) \/ Lpush(t) \/ Ltrim(t) \/ SendToAudience(t) \/ MarkSent(t)

Failure(t) == DispatchFails(t) \/ LpushAnswerLost(t) \/ CommitAnswerLost(t)

WorkerStep == ListPending \/ Take \/ Settle \/ DeadLetter \/ Retry \/ EndRound

Next ==
  \/ \E m \in Rows : Send(m) \/ BackoffElapses(m)
  \/ \E t \in Tasks : DispatchStep(t) \/ Failure(t)
  \/ WorkerStep \/ AbortRound \/ Crash

\* The event loop runs every ready task, and time passes.
Fairness ==
  /\ \A t \in Tasks : WF_vars(DispatchStep(t))
  /\ WF_vars(WorkerStep)
  /\ \A m \in Rows : WF_vars(BackoffElapses(m))

SafeSpec == Init /\ [][Next]_vars
Spec == SafeSpec /\ Fairness

-----------------------------------------------------------------------------
\* Types.  retry_count never passes MAX_RETRY although two places increment it.
TypeOK ==
  /\ status \in [Rows -> Status]
  /\ retries \in [Rows -> 0..MaxRetry]
  /\ backoff \in [Rows -> BOOLEAN]
  /\ published \in [Rows -> Nat]
  /\ stage \in [Tasks -> DispatchStages \union {"idle", "done", "take", "settle", "failed"}]
  /\ batch \in SUBSET Record
  /\ current \in Record
  /\ outages \in 0..MaxOutages

\* A row is marked sent only after its event entered the Redis list, whichever
\* of the sender, the worker, a failure or a restart came between: what
\* reconnecting clients replay holds every message the table calls sent.
SentImpliesPublished ==
  \A m \in Rows \ Legacy : status[m] = "sent" => published[m] > 0

\* A dead letter had exactly MAX_RETRY counted failures, and a row that may
\* still be picked up has some attempt left.
DeadMeansExhausted ==
  \A m \in Rows : /\ status[m] = "dead" => retries[m] = MaxRetry
                  /\ status[m] \in {"none", "pending"} => retries[m] < MaxRetry

\* process_once decides between retry and dead letter on the retry_count it
\* read at the start of the round: it is still the one in the table.
SnapshotFresh ==
  /\ \A r \in batch : r.retry = retries[r.row]
  /\ stage[Worker] \in DispatchStages \union {"settle", "failed"} =>
       current.retry = retries[current.row]

\* At-least-once has a limit: besides the sender's and the last attempt, each
\* further event of a message is accounted for by a counted failure, an aborted
\* round or a crash.
DuplicatesBounded ==
  \A m \in Rows : published[m] <=
    retries[m] + outages + (IF status[m] = "dead" THEN 1 ELSE 2)

\* A row that was concluded is never offered for delivery again, and the
\* table never forgets a committed row.
NeverReopened ==
  [][\A m \in Rows : /\ status[m] \in {"sent", "dead"} => status'[m] # "pending"
                     /\ status[m] # "none" => status'[m] # "none"]_vars

\* OutboxDelivery implements the promise of ReliableDelivery for the messages
\* that the program itself sends.
Messages == Rows \ Legacy

FateOf(s) == CASE s = "none" -> "absent"
               [] s = "pending" -> "accepted"
               [] s = "sent" -> "concluded"
               [] s = "dead" -> "abandoned"

Promise == INSTANCE ReliableDelivery WITH
  fate <- [m \in Messages |-> FateOf(status[m])],
  offered <- {m \in Messages : published[m] > 0},
  failures <- [m \in Messages |-> retries[m]]

ImplementsPromise == Promise!SafeSpec
KeepsPromise == Promise!Spec
=============================================================================
