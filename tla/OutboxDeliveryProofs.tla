------------------------ MODULE OutboxDeliveryProofs ------------------------
(***************************************************************************)
(* Proofs about OutboxDelivery for any set of rows and any limits: types,  *)
(* the safety invariants TLC checks on small instances, and that every     *)
(* step is a step of ReliableDelivery.                                     *)
(***************************************************************************)
EXTENDS OutboxDelivery, TLAPS

\* The stages at which the worker holds the row `current`.
InFlight == DispatchStages \union {"settle", "failed"}

\* A sender has not started exactly while its row does not exist.
SenderAndRow == \A m \in Rows : stage[m] = "idle" <=> status[m] = "none"

\* The senders stay at the stages of a request.
SenderStages == \A m \in Rows : stage[m] \in DispatchStages \union {"idle", "done"}

\* A legacy row has no sender.
LegacyHasNoSender == \A m \in Legacy : stage[m] = "done"

\* Rows the worker knows exist, still have an attempt left as it read them,
\* and the one it handles is no longer in its list.
WorkerRows ==
  /\ \A r \in batch : status[r.row] # "none" /\ r.retry < MaxRetry
  /\ stage[Worker] \in InFlight =>
       /\ status[current.row] # "none"
       /\ current.retry < MaxRetry
       /\ \A r \in batch : r.row # current.row

\* Past LPUSH the row has an event; only orphans skip it.
PastLpush ==
  \A t \in Tasks :
    /\ stage[t] \in {"ltrim", "send", "mark", "settle"} =>
         published[RowOf(t)] > 0 \/ RowOf(t) \in Orphans
    /\ stage[t] = "void" => RowOf(t) \in Orphans

IInv == /\ TypeOK
        /\ SenderAndRow /\ SenderStages /\ LegacyHasNoSender
        /\ WorkerRows /\ SnapshotFresh
        /\ PastLpush /\ SentImpliesPublished /\ DeadMeansExhausted

-----------------------------------------------------------------------------
\* The worker is a task of its own, beside the one of each message.
LEMMA WorkerNotRow == /\ Worker \notin Rows /\ Worker \in Tasks /\ Rows \subseteq Tasks
                      /\ \A t \in Tasks : t # Worker => t \in Rows
                      /\ Rows # {} /\ \A m \in Rows : m \in Nat /\ m # Worker
                      /\ Legacy \subseteq Rows
  BY RowsAssumption, LegacyAssumption DEF Worker, Tasks, Legacy

\* Every dispatch is of a row: a sender's own, or the one the worker has at hand.
LEMMA RowOfType == TypeOK => \A t \in Tasks : RowOf(t) \in Rows
  BY WorkerNotRow DEF TypeOK, RowOf, Record

\* list_pending returns rows it was given.
LEMMA FirstOfRows == \A S \in SUBSET Rows : FirstOf(S) \subseteq S
  BY DEF FirstOf

\* An empty outbox, or one with the legacy rows of an earlier run, and an idle
\* worker satisfy the invariant.
THEOREM InitIInv == Init => IInv
  <1> SUFFICES ASSUME Init PROVE IInv
    OBVIOUS
  <1> USE WorkerNotRow, LimitsAssumption DEF Init
  <1>1. TypeOK
    BY DEF TypeOK, Status, Record
  <1>2. SenderAndRow /\ SenderStages /\ LegacyHasNoSender
    BY DEF SenderAndRow, SenderStages, LegacyHasNoSender, Tasks
  <1>3. WorkerRows /\ SnapshotFresh
    BY DEF WorkerRows, SnapshotFresh, InFlight, DispatchStages, Legacy
  <1>4. PastLpush /\ SentImpliesPublished /\ DeadMeansExhausted
    BY DEF PastLpush, SentImpliesPublished, DeadMeansExhausted, Legacy
  <1>5. QED
    BY <1>1, <1>2, <1>3, <1>4 DEF IInv

-----------------------------------------------------------------------------
\* Every action keeps the types.  The bound on retry_count needs SnapshotFresh
\* and WorkerRows: the worker increments a count it knows to be below the limit.
LEMMA TypeStep == IInv /\ [Next]_vars => TypeOK'
  <1> SUFFICES ASSUME IInv, [Next]_vars PROVE TypeOK'
    OBVIOUS
  <1> USE WorkerNotRow, RowOfType, LimitsAssumption
      DEF IInv, TypeOK, Goto, SetSent, Returns, Raises, DispatchStages, Status
  <1>1. ASSUME NEW m \in Rows, Send(m) PROVE TypeOK'
    BY <1>1 DEF Send
  <1>2. ASSUME NEW m \in Rows, BackoffElapses(m) PROVE TypeOK'
    BY <1>2 DEF BackoffElapses
  <1>3. ASSUME NEW t \in Tasks, DispatchStep(t) PROVE TypeOK'
    <2>1. CASE ReadAudience(t) \/ Incr(t) \/ Ltrim(t) \/ SendToAudience(t)
      BY <2>1 DEF ReadAudience, Incr, Ltrim, SendToAudience
    <2>2. CASE Lpush(t)
      BY <2>2 DEF Lpush
    <2>3. CASE MarkSent(t)
      BY <2>3 DEF MarkSent
    <2>4. QED
      BY <1>3, <2>1, <2>2, <2>3 DEF DispatchStep
  <1>4. ASSUME NEW t \in Tasks, Failure(t) PROVE TypeOK'
    <2>1. CASE DispatchFails(t)
      BY <2>1 DEF DispatchFails
    <2>2. CASE LpushAnswerLost(t)
      BY <2>2 DEF LpushAnswerLost
    <2>3. CASE CommitAnswerLost(t)
      BY <2>3 DEF CommitAnswerLost
    <2>4. QED
      BY <1>4, <2>1, <2>2, <2>3 DEF Failure
  <1>5. CASE ListPending
    <2>1. batch' \in SUBSET Record
      <3>1. FirstOf(Due) \subseteq Rows
        BY FirstOfRows DEF Due
      <3>2. \A m \in Rows : [row |-> m, retry |-> retries[m]] \in Record
        BY DEF Record
      <3>3. QED
        BY <1>5, <3>1, <3>2 DEF ListPending
    <2>2. QED
      BY <1>5, <2>1 DEF ListPending
  <1>6. CASE Take
    BY <1>6 DEF Take, Record
  <1>7. CASE Settle
    BY <1>7 DEF Settle, Record
  <1>8. CASE DeadLetter
    <2>1. current.row \in Rows /\ current.retry \in Nat
          /\ current.retry = retries[current.row] /\ current.retry < MaxRetry
      BY <1>8 DEF DeadLetter, SnapshotFresh, WorkerRows, InFlight, Record
    <2>2. QED
      BY <1>8, <2>1 DEF DeadLetter
  <1>9. CASE Retry
    <2>1. current.row \in Rows /\ current.retry \in Nat
          /\ current.retry = retries[current.row] /\ current.retry < MaxRetry
      BY <1>9 DEF Retry, SnapshotFresh, WorkerRows, InFlight, Record
    <2>2. CASE status[current.row] = "pending"
      <3>1. retries' = [retries EXCEPT ![current.row] = @ + 1]
            /\ backoff' = [backoff EXCEPT ![current.row] = TRUE]
        BY <1>9, <2>2 DEF Retry
      <3>2. retries' \in [Rows -> 0..MaxRetry]
        BY <2>1, <3>1
      <3>3. backoff' \in [Rows -> BOOLEAN]
        BY <2>1, <3>1
      <3>4. QED
        BY <1>9, <3>2, <3>3 DEF Retry
    <2>3. CASE status[current.row] # "pending"
      BY <1>9, <2>3 DEF Retry
    <2>4. QED
      BY <2>2, <2>3
  <1>10. CASE EndRound \/ AbortRound
    BY <1>10 DEF EndRound, AbortRound
  <1>11. CASE Crash
    BY <1>11 DEF Crash
  <1>12. CASE UNCHANGED vars
    BY <1>12 DEF vars
  <1>13. QED
    BY <1>1, <1>2, <1>3, <1>4, <1>5, <1>6, <1>7, <1>8, <1>9, <1>10, <1>11, <1>12
       DEF Next, WorkerStep

-----------------------------------------------------------------------------
\* A row exists exactly from its sender's commit on; a crash changes neither.
LEMMA SenderStep == IInv /\ [Next]_vars => SenderAndRow' /\ SenderStages' /\ LegacyHasNoSender'
  <1> SUFFICES ASSUME IInv, [Next]_vars
               PROVE  SenderAndRow' /\ SenderStages' /\ LegacyHasNoSender'
    OBVIOUS
  <1> USE WorkerNotRow, RowOfType
      DEF IInv, TypeOK, SenderAndRow, SenderStages, LegacyHasNoSender, WorkerRows, InFlight,
          Goto, SetSent, Returns, Raises, DispatchStages
  <1>0. \A t \in Tasks : stage[t] \in DispatchStages => status[RowOf(t)] # "none"
    BY DEF RowOf
  <1>1. ASSUME NEW m \in Rows, Send(m) \/ BackoffElapses(m)
        PROVE  SenderAndRow' /\ SenderStages' /\ LegacyHasNoSender'
    BY <1>1 DEF Send, BackoffElapses
  <1>2. ASSUME NEW t \in Tasks, ReadAudience(t) \/ Incr(t) \/ Lpush(t) \/ Ltrim(t) \/ SendToAudience(t)
        PROVE  SenderAndRow' /\ SenderStages' /\ LegacyHasNoSender'
    BY <1>2 DEF ReadAudience, Incr, Lpush, Ltrim, SendToAudience
  <1>3. ASSUME NEW t \in Tasks, MarkSent(t) \/ CommitAnswerLost(t)
        PROVE  SenderAndRow' /\ SenderStages' /\ LegacyHasNoSender'
    BY <1>0, <1>3 DEF MarkSent, CommitAnswerLost
  <1>4. ASSUME NEW t \in Tasks, DispatchFails(t) \/ LpushAnswerLost(t)
        PROVE  SenderAndRow' /\ SenderStages' /\ LegacyHasNoSender'
    BY <1>4 DEF DispatchFails, LpushAnswerLost
  <1>5. CASE ListPending \/ EndRound \/ AbortRound
    BY <1>5 DEF ListPending, EndRound, AbortRound
  <1>6. CASE Take
    BY <1>6 DEF Take, Record
  <1>7. CASE Settle \/ DeadLetter \/ Retry
    BY <1>7 DEF Settle, DeadLetter, Retry, Record
  <1>8. CASE Crash
    BY <1>8 DEF Crash
  <1>9. CASE UNCHANGED vars
    BY <1>9 DEF vars
  <1>10. QED
    BY <1>1, <1>2, <1>3, <1>4, <1>5, <1>6, <1>7, <1>8, <1>9
       DEF Next, WorkerStep, DispatchStep, Failure

-----------------------------------------------------------------------------
\* What the worker read of its rows stays true: only the worker itself changes
\* a retry count, and only that of the row it has taken out of its list.
LEMMA WorkerRowsStep == IInv /\ [Next]_vars => WorkerRows' /\ SnapshotFresh'
  <1> SUFFICES ASSUME IInv, [Next]_vars PROVE WorkerRows' /\ SnapshotFresh'
    OBVIOUS
  <1> USE WorkerNotRow, RowOfType
      DEF IInv, TypeOK, WorkerRows, SnapshotFresh, InFlight,
          Goto, SetSent, Returns, Raises, DispatchStages
  <1>1. ASSUME NEW m \in Rows, Send(m) \/ BackoffElapses(m) PROVE WorkerRows' /\ SnapshotFresh'
    BY <1>1 DEF Send, BackoffElapses, Record
  <1>2. ASSUME NEW t \in Tasks, ReadAudience(t) \/ Incr(t) \/ Lpush(t) \/ Ltrim(t) \/ SendToAudience(t)
        PROVE  WorkerRows' /\ SnapshotFresh'
    BY <1>2 DEF ReadAudience, Incr, Lpush, Ltrim, SendToAudience
  <1>3. ASSUME NEW t \in Tasks, MarkSent(t) \/ CommitAnswerLost(t) PROVE WorkerRows' /\ SnapshotFresh'
    BY <1>3 DEF MarkSent, CommitAnswerLost, Record
  <1>4. ASSUME NEW t \in Tasks, DispatchFails(t) \/ LpushAnswerLost(t) PROVE WorkerRows' /\ SnapshotFresh'
    BY <1>4 DEF DispatchFails, LpushAnswerLost
  <1>5. CASE ListPending
    <2>1. FirstOf(Due) \subseteq Due /\ Due \subseteq Rows
      BY FirstOfRows DEF Due
    <2>2. \A m \in Due : status[m] # "none" /\ retries[m] < MaxRetry
      BY DEF Due, DeadMeansExhausted
    <2>3. QED
      BY <1>5, <2>1, <2>2 DEF ListPending
  <1>6. CASE Take
    <2>1. PICK r \in batch : /\ batch' = batch \ {r}
                            /\ IF r.row \in Unknown
                               THEN SetSent(r.row) /\ UNCHANGED <<stage, current>>
                               ELSE current' = r /\ Goto(Worker, "read") /\ UNCHANGED <<status, backoff>>
      BY <1>6 DEF Take
    <2>2. \A q \in batch : q.row = r.row => q = r
      BY DEF Record
    <2>3. stage[Worker] = "take" /\ retries' = retries
      BY <1>6 DEF Take
    <2>4. CASE r.row \in Unknown
      BY <2>1, <2>3, <2>4 DEF Record
    <2>5. CASE r.row \notin Unknown
      BY <2>1, <2>2, <2>3, <2>5 DEF Record
    <2>6. QED
      BY <2>4, <2>5
  <1>7. CASE Settle
    BY <1>7 DEF Settle, Record
  <1>8. CASE DeadLetter \/ Retry
    BY <1>8 DEF DeadLetter, Retry, Record
  <1>9. CASE EndRound \/ AbortRound \/ Crash
    BY <1>9 DEF EndRound, AbortRound, Crash
  <1>10. CASE UNCHANGED vars
    BY <1>10 DEF vars
  <1>11. QED
    BY <1>1, <1>2, <1>3, <1>4, <1>5, <1>6, <1>7, <1>8, <1>9, <1>10
       DEF Next, WorkerStep, DispatchStep, Failure

-----------------------------------------------------------------------------
\* No task marks a row before it has pushed the event, and an event once
\* pushed is never taken back.
LEMMA PublishStep == IInv /\ [Next]_vars => PastLpush' /\ SentImpliesPublished'
  <1> SUFFICES ASSUME IInv, [Next]_vars PROVE PastLpush' /\ SentImpliesPublished'
    OBVIOUS
  <1> USE WorkerNotRow, RowOfType
      DEF IInv, TypeOK, PastLpush, SentImpliesPublished, LegacyHasNoSender,
          Goto, SetSent, Returns, Raises, DispatchStages, Legacy
  <1>0. ASSUME current' = current
        PROVE  \A t \in Tasks : RowOf(t)' = RowOf(t)
    BY <1>0 DEF RowOf
  <1>1. ASSUME NEW m \in Rows, Send(m) \/ BackoffElapses(m)
        PROVE  PastLpush' /\ SentImpliesPublished'
    BY <1>0, <1>1 DEF Send, BackoffElapses
  <1>2. ASSUME NEW t \in Tasks, ReadAudience(t) \/ Incr(t) \/ Ltrim(t) \/ SendToAudience(t) \/ DispatchFails(t)
        PROVE  PastLpush' /\ SentImpliesPublished'
    BY <1>0, <1>2 DEF ReadAudience, Incr, Ltrim, SendToAudience, DispatchFails
  <1>3. ASSUME NEW t \in Tasks, Lpush(t) \/ LpushAnswerLost(t)
        PROVE  PastLpush' /\ SentImpliesPublished'
    BY <1>0, <1>3 DEF Lpush, LpushAnswerLost
  <1>4. ASSUME NEW t \in Tasks, MarkSent(t) \/ CommitAnswerLost(t)
        PROVE  PastLpush' /\ SentImpliesPublished'
    BY <1>0, <1>4 DEF MarkSent, CommitAnswerLost
  <1>5. CASE ListPending \/ EndRound \/ AbortRound \/ Crash
    BY <1>0, <1>5 DEF ListPending, EndRound, AbortRound, Crash
  <1>6. CASE Take
    <2>1. \A t \in Rows : RowOf(t)' = RowOf(t)
      BY DEF RowOf
    <2>2. PICK r \in batch : IF r.row \in Unknown
                            THEN SetSent(r.row) /\ UNCHANGED <<stage, current>>
                            ELSE current' = r /\ Goto(Worker, "read") /\ UNCHANGED <<status, backoff>>
      BY <1>6 DEF Take
    <2>3. UNCHANGED <<retries, published>>
      BY <1>6 DEF Take
    <2>4. CASE r.row \in Unknown
      BY <1>0, <2>2, <2>3, <2>4 DEF Record
    <2>5. CASE r.row \notin Unknown
      <3>1. \A t \in Tasks : stage'[t] = IF t = Worker THEN "read" ELSE stage[t]
        BY <2>2, <2>5
      <3>2. UNCHANGED status
        BY <2>2, <2>5
      <3>3. QED
        BY <2>1, <2>3, <3>1, <3>2
    <2>6. QED
      BY <2>4, <2>5
  <1>7. CASE Settle
    <2>1. RowOf(Worker) = current.row
      BY DEF RowOf
    <2>2. QED
      BY <1>0, <1>7, <2>1 DEF Settle
  <1>8. CASE DeadLetter \/ Retry
    BY <1>0, <1>8 DEF DeadLetter, Retry, Record
  <1>9. CASE UNCHANGED vars
    BY <1>0, <1>9 DEF vars
  <1>10. QED
    BY <1>1, <1>2, <1>3, <1>4, <1>5, <1>6, <1>7, <1>8, <1>9
       DEF Next, WorkerStep, DispatchStep, Failure

-----------------------------------------------------------------------------
\* Only DeadLetter makes a dead row, from a row one attempt short of the limit.
LEMMA DeadStep == IInv /\ [Next]_vars => DeadMeansExhausted'
  <1> SUFFICES ASSUME IInv, [Next]_vars PROVE DeadMeansExhausted'
    OBVIOUS
  <1> USE WorkerNotRow, RowOfType, LimitsAssumption
      DEF IInv, TypeOK, DeadMeansExhausted, Goto, SetSent, Returns, Raises
  <1>1. ASSUME NEW m \in Rows, Send(m) \/ BackoffElapses(m) PROVE DeadMeansExhausted'
    BY <1>1 DEF Send, BackoffElapses, SenderAndRow
  <1>2. ASSUME NEW t \in Tasks, DispatchStep(t) \/ Failure(t) PROVE DeadMeansExhausted'
    <2>1. CASE MarkSent(t) \/ CommitAnswerLost(t)
      BY <2>1 DEF MarkSent, CommitAnswerLost
    <2>2. CASE UNCHANGED <<status, retries>>
      BY <2>2
    <2>3. QED
      BY <1>2, <2>1, <2>2 DEF DispatchStep, Failure, ReadAudience, Incr, Lpush, Ltrim,
           SendToAudience, DispatchFails, LpushAnswerLost
  <1>3. CASE ListPending \/ EndRound \/ AbortRound \/ Crash
    BY <1>3 DEF ListPending, EndRound, AbortRound, Crash
  <1>4. CASE Take \/ Settle
    BY <1>4 DEF Take, Settle, Record
  <1>5. CASE DeadLetter \/ Retry
    <2>1. current.row \in Rows /\ current.retry \in Nat
          /\ current.retry = retries[current.row] /\ current.retry < MaxRetry
      BY <1>5 DEF DeadLetter, Retry, SnapshotFresh, WorkerRows, InFlight, Record
    <2>2. QED
      BY <1>5, <2>1 DEF DeadLetter, Retry
  <1>6. CASE UNCHANGED vars
    BY <1>6 DEF vars
  <1>7. QED
    BY <1>1, <1>2, <1>3, <1>4, <1>5, <1>6 DEF Next, WorkerStep

-----------------------------------------------------------------------------
\* The invariant is inductive, for any rows and any limits.
THEOREM Invariance == SafeSpec => []IInv
  <1>1. IInv /\ [Next]_vars => IInv'
    BY TypeStep, SenderStep, WorkerRowsStep, PublishStep, DeadStep DEF IInv
  <1>2. QED
    BY InitIInv, <1>1, PTL DEF SafeSpec

\* The types hold, and retry_count never passes MAX_RETRY.
THEOREM TypeCorrect == SafeSpec => []TypeOK
  <1>1. IInv => TypeOK
    BY DEF IInv
  <1>2. QED
    BY Invariance, <1>1, PTL

\* A message the table calls sent has its event in the Redis list.
THEOREM SentIsPublished == SafeSpec => []SentImpliesPublished
  <1>1. IInv => SentImpliesPublished
    BY DEF IInv
  <1>2. QED
    BY Invariance, <1>1, PTL

\* A dead letter had exactly MAX_RETRY counted failures.
THEOREM DeadIsExhausted == SafeSpec => []DeadMeansExhausted
  <1>1. IInv => DeadMeansExhausted
    BY DEF IInv
  <1>2. QED
    BY Invariance, <1>1, PTL

\* The retry count the worker decides on is the one in the table.
THEOREM SnapshotIsFresh == SafeSpec => []SnapshotFresh
  <1>1. IInv => SnapshotFresh
    BY DEF IInv
  <1>2. QED
    BY Invariance, <1>1, PTL

-----------------------------------------------------------------------------
\* How many events of a message may still come.

\* The sender of m has its one LPUSH ahead of it.
SenderWill(m) == stage[m] \in {"idle", "read", "incr", "lpush"}

\* The worker's dispatch of m has its LPUSH behind it, or gave it up.
WorkerDid(m) ==
  current.row = m /\ stage[Worker] \in {"ltrim", "send", "mark", "void", "settle", "failed"}

\* The worker may push an event of m before anything is counted for it.
WorkerWill(m) ==
  /\ ~WorkerDid(m)
  /\ \/ status[m] \in {"none", "pending"}
     \/ \E r \in batch : r.row = m
     \/ current.row = m /\ stage[Worker] \in {"read", "incr", "lpush"}

\* The bound of DuplicatesBounded, less the events that may still come.
InDebt(m) ==
  published[m] + (IF SenderWill(m) THEN 1 ELSE 0) + (IF WorkerWill(m) THEN 1 ELSE 0)
    <= retries[m] + outages + (IF status[m] = "dead" THEN 1 ELSE 2)

Debts == \A m \in Rows : InDebt(m)

\* A step that neither pushes nor counts keeps every debt.
LEMMA DebtKept ==
  ASSUME IInv, IInv', NEW m \in Rows, InDebt(m),
         published'[m] = published[m], retries'[m] = retries[m], outages' = outages,
         status'[m] = "dead" => status[m] = "dead",
         SenderWill(m)' => SenderWill(m), WorkerWill(m)' => WorkerWill(m)
  PROVE  InDebt(m)'
  BY DEF InDebt, IInv, TypeOK

\* No step adds an event without a debt paid or a failure counted.
LEMMA DebtStep == IInv /\ IInv' /\ Debts /\ [Next]_vars => Debts'
  <1> SUFFICES ASSUME IInv, IInv', Debts, [Next]_vars, NEW m \in Rows PROVE InDebt(m)'
    BY DEF Debts
  <1> USE WorkerNotRow
  <1>0. /\ published[m] \in Nat /\ retries[m] \in Nat /\ outages \in Nat /\ InDebt(m)
        /\ \A t \in Tasks : RowOf(t) \in Rows
        /\ current.row \in Rows /\ batch \subseteq Record
    BY RowOfType, LimitsAssumption DEF IInv, TypeOK, Debts, Record
  <1> USE <1>0 DEF Goto, SetSent, Returns, Raises
  <1>1. ASSUME NEW k \in Rows, Send(k) \/ BackoffElapses(k) PROVE InDebt(m)'
    <2>1. /\ UNCHANGED <<published, retries, outages, batch, current>> /\ stage'[Worker] = stage[Worker]
          /\ SenderWill(m)' => SenderWill(m)
          /\ status'[m] = "dead" => status[m] = "dead"
          /\ status'[m] # status[m] => status[m] = "none"
      BY <1>1 DEF Send, BackoffElapses, SenderWill, IInv, TypeOK, SenderAndRow
    <2>2. WorkerWill(m)' => WorkerWill(m)
      BY <2>1 DEF WorkerWill, WorkerDid
    <2> QED
      BY <2>1, <2>2, DebtKept
  <1>2. ASSUME NEW t \in Tasks, ReadAudience(t) \/ Incr(t) \/ Ltrim(t) \/ SendToAudience(t) \/ DispatchFails(t)
        PROVE  InDebt(m)'
    <2>1. /\ UNCHANGED <<published, retries, outages, batch, current, status>>
          /\ SenderWill(m)' => SenderWill(m)
      BY <1>2 DEF ReadAudience, Incr, Ltrim, SendToAudience, DispatchFails, SenderWill, IInv, TypeOK
    <2>2. WorkerDid(m) => WorkerDid(m)'
      BY <1>2 DEF ReadAudience, Incr, Ltrim, SendToAudience, DispatchFails, WorkerDid, DispatchStages, IInv, TypeOK
    <2>3. current.row = m /\ stage'[Worker] \in {"read", "incr", "lpush"}
            => stage[Worker] \in {"read", "incr", "lpush"}
      BY <1>2 DEF ReadAudience, Incr, Ltrim, SendToAudience, DispatchFails, IInv, TypeOK
    <2>4. WorkerWill(m)' => WorkerWill(m)
      BY <2>1, <2>2, <2>3 DEF WorkerWill
    <2> QED
      BY <2>1, <2>4, DebtKept
  <1>3. ASSUME NEW t \in Tasks, Lpush(t) \/ LpushAnswerLost(t) PROVE InDebt(m)'
    <2>1. /\ stage[t] = "lpush" /\ UNCHANGED <<retries, outages, batch, current, status>>
          /\ published'[m] = IF m = RowOf(t) THEN published[m] + 1 ELSE published[m]
          /\ stage'[t] \in {"ltrim", "done", "failed"} /\ \A s \in Tasks : s # t => stage'[s] = stage[s]
          /\ t = Worker => stage'[t] \in {"ltrim", "failed"}
      BY <1>3 DEF Lpush, LpushAnswerLost, IInv, TypeOK
    <2>2. CASE t = Worker
      <3>1. SenderWill(m)' = SenderWill(m)
        BY <2>1, <2>2 DEF SenderWill
      <3>2. CASE current.row = m
        <4>1. WorkerWill(m) /\ ~WorkerWill(m)' /\ RowOf(t) = m
          BY <2>1, <2>2, <3>2 DEF WorkerWill, WorkerDid, RowOf
        <4> QED
          BY <2>1, <3>1, <4>1 DEF InDebt
      <3>3. CASE current.row # m
        <4>1. WorkerWill(m)' = WorkerWill(m) /\ RowOf(t) # m
          BY <2>1, <2>2, <3>3 DEF WorkerWill, WorkerDid, RowOf
        <4> QED
          BY <2>1, <3>1, <4>1 DEF InDebt
      <3> QED
        BY <3>2, <3>3
    <2>3. CASE t # Worker
      <3>1. WorkerWill(m)' = WorkerWill(m) /\ RowOf(t) = t
        BY <2>1, <2>3 DEF WorkerWill, WorkerDid, RowOf
      <3>2. IF t = m THEN SenderWill(m) /\ ~SenderWill(m)' ELSE SenderWill(m)' = SenderWill(m)
        BY <2>1, <2>3 DEF SenderWill
      <3> QED
        BY <2>1, <3>1, <3>2 DEF InDebt
    <2> QED
      BY <2>2, <2>3
  <1>4. ASSUME NEW t \in Tasks, MarkSent(t) \/ CommitAnswerLost(t) PROVE InDebt(m)'
    <2>1. /\ UNCHANGED <<published, retries, outages, batch, current>>
          /\ status'[m] = IF m = RowOf(t) THEN "sent" ELSE status[m]
          /\ stage[t] \in {"mark", "void"} /\ stage'[t] \in {"settle", "failed", "done"}
          /\ t = Worker => stage'[t] \in {"settle", "failed"}
          /\ \A s \in Tasks : s # t => stage'[s] = stage[s]
      BY <1>4 DEF MarkSent, CommitAnswerLost, IInv, TypeOK
    <2>2. SenderWill(m)' => SenderWill(m)
      BY <2>1 DEF SenderWill
    <2>3. WorkerWill(m)' => WorkerWill(m)
      BY <2>1 DEF WorkerWill, WorkerDid
    <2> QED
      BY <2>1, <2>2, <2>3 DEF InDebt
  <1>5. CASE ListPending \/ EndRound
    <2>1. /\ UNCHANGED <<published, retries, outages, status, current>>
          /\ \A k \in Rows : stage'[k] = stage[k]
          /\ stage[Worker] \in {"idle", "take"} /\ stage'[Worker] \in {"idle", "take"}
      BY <1>5 DEF ListPending, EndRound, IInv, TypeOK
    <2>2. (\E r \in batch' : r.row = m) => status[m] = "pending"
      <3>1. CASE ListPending
        <4>1. FirstOf(Due) \subseteq Due
          BY FirstOfRows DEF Due
        <4>2. batch' = {[row |-> k, retry |-> retries[k]] : k \in FirstOf(Due)}
          BY <3>1 DEF ListPending
        <4>3. \A r \in batch' : r.row \in FirstOf(Due)
          BY <4>2
        <4> QED
          BY <4>1, <4>3 DEF Due
      <3>2. CASE EndRound
        BY <3>2 DEF EndRound
      <3> QED
        BY <1>5, <3>1, <3>2
    <2>3. WorkerWill(m)' => WorkerWill(m)
      BY <2>1, <2>2 DEF WorkerWill, WorkerDid
    <2> QED
      BY <2>1, <2>3, DebtKept DEF SenderWill
  <1>6. CASE Take
    <2>1. PICK r \in batch : /\ batch' = batch \ {r}
                             /\ IF r.row \in Unknown
                                THEN SetSent(r.row) /\ UNCHANGED <<stage, current>>
                                ELSE current' = r /\ Goto(Worker, "read") /\ UNCHANGED <<status, backoff>>
      BY <1>6 DEF Take
    <2>2. /\ UNCHANGED <<published, retries, outages>> /\ stage[Worker] = "take"
          /\ \A k \in Rows : stage'[k] = stage[k]
          /\ stage'[Worker] \in {"take", "read"}
          /\ status'[m] \in {status[m], "sent"}
      BY <1>6, <2>1 DEF Take, IInv, TypeOK
    <2>3. WorkerWill(m)' => WorkerWill(m)
      <3>1. ~WorkerDid(m)
        BY <2>2 DEF WorkerDid
      <3>2. status'[m] \in {"none", "pending"} => status[m] \in {"none", "pending"}
        BY <2>2
      <3>3. \A q \in batch' : q \in batch
        BY <2>1
      <3>4. stage'[Worker] = "read" => current' = r
        BY <2>1, <2>2
      <3> QED
        BY <2>2, <3>1, <3>2, <3>3, <3>4 DEF WorkerWill
    <2> QED
      BY <2>2, <2>3, DebtKept DEF SenderWill
  <1>7. CASE Settle
    <2>1. /\ UNCHANGED <<published, retries, outages, batch, current>>
          /\ stage[Worker] = "settle" /\ stage'[Worker] = "take"
          /\ \A k \in Rows : stage'[k] = stage[k]
          /\ status'[m] = IF m = current.row THEN "sent" ELSE status[m]
          /\ \A r \in batch : r.row # current.row
      BY <1>7 DEF Settle, IInv, TypeOK, WorkerRows, InFlight
    <2>2. WorkerWill(m)' => WorkerWill(m)
      BY <2>1 DEF WorkerWill, WorkerDid
    <2> QED
      BY <2>1, <2>2, DebtKept DEF SenderWill
  <1>8. CASE DeadLetter \/ Retry
    <2>1. /\ UNCHANGED <<published, outages, batch, current>>
          /\ stage[Worker] = "failed" /\ stage'[Worker] = "take"
          /\ \A k \in Rows : stage'[k] = stage[k]
          /\ \A r \in batch : r.row # current.row
      BY <1>8 DEF DeadLetter, Retry, IInv, TypeOK, WorkerRows, InFlight
    <2>2. SenderWill(m)' = SenderWill(m)
      BY <2>1 DEF SenderWill
    <2>3. CASE m # current.row
      <3>1. retries'[m] = retries[m] /\ status'[m] = status[m]
        BY <1>8, <2>3 DEF DeadLetter, Retry, IInv, TypeOK
      <3>2. WorkerWill(m)' => WorkerWill(m)
        BY <2>1, <2>3, <3>1 DEF WorkerWill, WorkerDid
      <3> QED
        BY <2>1, <2>2, <3>1, <3>2, DebtKept
    <2>4. CASE m = current.row /\ DeadLetter
      <3>1. retries'[m] = retries[m] + 1 /\ status'[m] = "dead"
        BY <2>4 DEF DeadLetter, IInv, TypeOK
      <3>2. ~WorkerWill(m)'
        BY <2>1, <2>4, <3>1 DEF WorkerWill
      <3> QED
        BY <2>1, <2>2, <3>1, <3>2 DEF InDebt
    <2>5. CASE m = current.row /\ Retry /\ status[m] = "pending"
      <3>1. retries'[m] = retries[m] + 1 /\ status'[m] = status[m]
        BY <2>5 DEF Retry, IInv, TypeOK
      <3>2. ~WorkerWill(m)
        BY <2>1, <2>5 DEF WorkerWill, WorkerDid
      <3> QED
        BY <2>1, <2>2, <2>5, <3>1, <3>2 DEF InDebt
    <2>6. CASE m = current.row /\ Retry /\ status[m] # "pending"
      <3>1. retries'[m] = retries[m] /\ status'[m] = status[m] /\ status[m] # "none"
        BY <2>1, <2>6 DEF Retry, IInv, WorkerRows, InFlight
      <3>2. ~WorkerWill(m)'
        BY <2>1, <2>6, <3>1 DEF WorkerWill
      <3> QED
        BY <2>1, <2>2, <3>1, <3>2, DebtKept
    <2> QED
      BY <1>8, <2>3, <2>4, <2>5, <2>6
  <1>9. CASE AbortRound \/ Crash
    <2>1. /\ UNCHANGED <<published, retries, status>> /\ outages' = outages + 1
          /\ SenderWill(m)' => SenderWill(m)
      BY <1>9 DEF AbortRound, Crash, SenderWill, IInv, TypeOK
    <2>2. batch' = {} /\ current' = current /\ stage'[Worker] = "idle"
      BY <1>9 DEF AbortRound, Crash, IInv, TypeOK
    <2> QED
      BY <2>1, <2>2 DEF InDebt
  <1>10. CASE UNCHANGED vars
    BY <1>10 DEF vars, InDebt, SenderWill, WorkerWill, WorkerDid
  <1>11. QED
    BY <1>1, <1>2, <1>3, <1>4, <1>5, <1>6, <1>7, <1>8, <1>9, <1>10
       DEF Next, WorkerStep, DispatchStep, Failure

\* A message is announced twice at most, by its sender and by the last attempt,
\* and once more for each failure the table counts, each aborted round and each
\* crash, for any rows and any limits (push_service.py:22-45, outbox_worker.py:49-87).
THEOREM DuplicatesAreBounded == SafeSpec => []DuplicatesBounded
  <1>1. Init => Debts
    BY WorkerNotRow DEF Init, Debts, InDebt, SenderWill, WorkerWill, WorkerDid
  <1>2. IInv /\ Debts => DuplicatesBounded
    <2> SUFFICES ASSUME IInv, Debts, NEW m \in Rows
                 PROVE  published[m] <= retries[m] + outages + (IF status[m] = "dead" THEN 1 ELSE 2)
      BY DEF DuplicatesBounded
    <2> QED
      BY LimitsAssumption DEF Debts, InDebt, IInv, TypeOK
  <1>3. QED
    BY <1>1, <1>2, DebtStep, Invariance, PTL DEF SafeSpec

-----------------------------------------------------------------------------
\* Every step of the outbox is a step the promise allows, or changes nothing
\* the promise speaks of.

\* What each status of a row is to the abstract promise.
LEMMA Fates == /\ FateOf("none") = "absent" /\ FateOf("pending") = "accepted"
               /\ FateOf("sent") = "concluded" /\ FateOf("dead") = "abandoned"
  BY DEF FateOf

\* The messages of the promise are the rows that a sender has written.
LEMMA MessagesAreRows == Messages \subseteq Rows /\ Messages \cap Legacy = {}
  BY DEF Messages

\* A step that changes no status, no count and at most adds events.
LEMMA StutterOrOffer ==
  ASSUME IInv, NEW m \in Rows, status[m] # "none",
         UNCHANGED <<status, retries>>,
         published' = published \/ published' = [published EXCEPT ![m] = @ + 1]
  PROVE  Promise!Next \/ UNCHANGED Promise!vars
  <1> USE MessagesAreRows DEF IInv, TypeOK, Promise!vars
  <1>1. CASE published' = published
    BY <1>1
  <1>2. CASE published' = [published EXCEPT ![m] = @ + 1] /\ m \in Messages
    <2>1. Promise!Offer(m)
      BY <1>2 DEF Promise!Offer, Status, FateOf
    <2>2. QED
      BY <1>2, <2>1 DEF Promise!Next
  <1>3. CASE published' = [published EXCEPT ![m] = @ + 1] /\ m \notin Messages
    BY <1>3
  <1>4. QED
    BY <1>1, <1>2, <1>3

\* Marking a row sent, when its event was published, concludes the message.
LEMMA MarkConcludes ==
  ASSUME IInv, NEW m \in Rows, status[m] # "none",
         m \in Messages => published[m] > 0,
         status' = [status EXCEPT ![m] = "sent"],
         UNCHANGED <<retries, published>>
  PROVE  Promise!Next \/ UNCHANGED Promise!vars
  <1> USE MessagesAreRows DEF IInv, TypeOK, Promise!vars
  <1>1. CASE m \in Messages
    <2>1. Promise!Conclude(m)
      BY <1>1 DEF Promise!Conclude, Status, FateOf
    <2>2. QED
      BY <1>1, <2>1 DEF Promise!Next
  <1>2. CASE m \notin Messages
    BY <1>2
  <1>3. QED
    BY <1>1, <1>2

\* Each step of senders and worker is one of Accept, Offer, Conclude, Fail and
\* Abandon of the promise, or changes nothing of it.
LEMMA PromiseStep == IInv /\ [Next]_vars => Promise!Next \/ UNCHANGED Promise!vars
  <1> SUFFICES ASSUME IInv, [Next]_vars
               PROVE  Promise!Next \/ UNCHANGED Promise!vars
    OBVIOUS
  <1> USE WorkerNotRow, MessagesAreRows
  <1>0. /\ \A t \in Tasks : RowOf(t) \in Rows
        /\ \A t \in Tasks : stage[t] \in DispatchStages => status[RowOf(t)] # "none"
        /\ current.row \in Rows
    <2>1. \A t \in Tasks : RowOf(t) \in Rows
      BY RowOfType DEF IInv
    <2>2. current.row \in Rows
      BY DEF IInv, TypeOK, Record
    <2>3. QED
      BY <2>1, <2>2 DEF IInv, SenderAndRow, WorkerRows, InFlight, DispatchStages, RowOf
  <1>1. ASSUME NEW m \in Rows, Send(m) PROVE Promise!Next \/ UNCHANGED Promise!vars
    <2>1. m \in Messages
      BY <1>1 DEF Send, IInv, LegacyHasNoSender, Messages
    <2>2. status[m] = "none"
      BY <1>1 DEF Send, IInv, SenderAndRow
    <2>3. Promise!Accept(m)
      BY <1>1, <2>1, <2>2, Fates DEF Send, Promise!Accept, IInv, TypeOK
    <2>4. QED
      BY <2>1, <2>3 DEF Promise!Next
  <1>2. ASSUME NEW m \in Rows, BackoffElapses(m) PROVE Promise!Next \/ UNCHANGED Promise!vars
    BY <1>2 DEF BackoffElapses, Promise!vars
  <1>3. ASSUME NEW t \in Tasks,
               \/ ReadAudience(t) \/ Incr(t) \/ Lpush(t) \/ Ltrim(t) \/ SendToAudience(t)
               \/ DispatchFails(t) \/ LpushAnswerLost(t)
        PROVE  Promise!Next \/ UNCHANGED Promise!vars
    <2>1. status[RowOf(t)] # "none"
      BY <1>0, <1>3 DEF ReadAudience, Incr, Lpush, Ltrim, SendToAudience, DispatchFails,
           LpushAnswerLost, DispatchStages
    <2>2. /\ UNCHANGED <<status, retries>>
          /\ published' = published \/ published' = [published EXCEPT ![RowOf(t)] = @ + 1]
      BY <1>3 DEF ReadAudience, Incr, Lpush, Ltrim, SendToAudience, DispatchFails, LpushAnswerLost
    <2>3. QED
      BY <1>0, <2>1, <2>2, StutterOrOffer
  <1>4. ASSUME NEW t \in Tasks, MarkSent(t) \/ CommitAnswerLost(t)
        PROVE  Promise!Next \/ UNCHANGED Promise!vars
    <2>1. /\ stage[t] \in {"mark", "void"}
          /\ status' = [status EXCEPT ![RowOf(t)] = "sent"]
          /\ UNCHANGED <<retries, published>>
      BY <1>4 DEF MarkSent, CommitAnswerLost, SetSent
    <2>2. RowOf(t) \in Messages => published[RowOf(t)] > 0
      BY <2>1 DEF IInv, PastLpush, Messages, Legacy
    <2>3. QED
      BY <1>0, <2>1, <2>2, MarkConcludes DEF DispatchStages
  <1>5. CASE ListPending \/ EndRound \/ AbortRound \/ Crash
    BY <1>5 DEF ListPending, EndRound, AbortRound, Crash, Promise!vars
  <1>6. CASE Take
    <2>1. PICK r \in batch : IF r.row \in Unknown THEN SetSent(r.row) ELSE UNCHANGED status
      BY <1>6 DEF Take
    <2>2. UNCHANGED <<retries, published>>
      BY <1>6 DEF Take
    <2>3. r.row \in Rows /\ status[r.row] # "none"
      BY DEF IInv, TypeOK, Record, WorkerRows
    <2>4. CASE r.row \in Unknown
      <3>1. r.row \notin Messages
        BY <2>4 DEF Messages, Legacy
      <3>2. QED
        BY <2>1, <2>2, <2>3, <2>4, <3>1, MarkConcludes DEF SetSent
    <2>5. CASE r.row \notin Unknown
      BY <2>1, <2>2, <2>5 DEF Promise!vars
    <2>6. QED
      BY <2>4, <2>5
  <1>7. CASE Settle
    <2>1. status[current.row] # "none"
      BY <1>7 DEF Settle, IInv, WorkerRows, InFlight
    <2>2. current.row \in Messages => published[current.row] > 0
      BY <1>7 DEF Settle, IInv, PastLpush, RowOf, Messages, Legacy
    <2>3. QED
      BY <1>0, <1>7, <2>1, <2>2, MarkConcludes DEF Settle, SetSent
  <1>8. CASE DeadLetter \/ Retry
    <2>0. PICK m \in Rows : m = current.row
      BY <1>0
    <2>1. /\ current.retry \in Nat /\ MaxRetry \in Nat
          /\ current.retry = retries[m] /\ current.retry < MaxRetry
          /\ status[m] # "none"
      BY <1>8, <2>0, LimitsAssumption
         DEF DeadLetter, Retry, IInv, TypeOK, SnapshotFresh, WorkerRows, InFlight, Record
    <2>2. CASE m \notin Messages
      <3>1. \A k \in Messages : status'[k] = status[k] /\ retries'[k] = retries[k]
        BY <1>8, <2>0, <2>2 DEF DeadLetter, Retry, IInv, TypeOK
      <3>2. published' = published
        BY <1>8 DEF DeadLetter, Retry
      <3>3. QED
        BY <3>1, <3>2 DEF Promise!vars
    <2>3. CASE m \in Messages /\ DeadLetter
      <3>1. status[m] \in {"pending", "sent"}
        BY <2>1 DEF IInv, TypeOK, Status, DeadMeansExhausted
      <3>2. /\ status' = [status EXCEPT ![m] = "dead"]
            /\ retries' = [retries EXCEPT ![m] = @ + 1]
            /\ published' = published
            /\ retries[m] + 1 = MaxRetry
        BY <2>0, <2>1, <2>3 DEF DeadLetter, IInv, TypeOK
      <3>3. FateOf(status[m]) \in {"accepted", "concluded"}
        BY <3>1, Fates
      <3>4. \A k \in Messages : /\ status'[k] = IF k = m THEN "dead" ELSE status[k]
                                /\ retries'[k] = IF k = m THEN retries[k] + 1 ELSE retries[k]
        BY <2>1, <3>2 DEF IInv, TypeOK
      <3>5. Promise!Abandon(m)
        <4>1. [k \in Messages |-> FateOf(status[k])]'
              = [[k \in Messages |-> FateOf(status[k])] EXCEPT ![m] = "abandoned"]
          BY <2>3, <3>4, Fates
        <4>2. [k \in Messages |-> retries[k]]'
              = [[k \in Messages |-> retries[k]] EXCEPT ![m] = @ + 1]
          BY <2>3, <3>4
        <4>3. QED
          BY <2>3, <3>2, <3>3, <4>1, <4>2 DEF Promise!Abandon
      <3>6. QED
        BY <2>3, <3>5 DEF Promise!Next
    <2>4. CASE m \in Messages /\ Retry /\ status[m] = "pending"
      <3>1. Promise!Fail(m)
        BY <2>0, <2>1, <2>4, Fates DEF Retry, Promise!Fail, IInv, TypeOK
      <3>2. QED
        BY <2>4, <3>1 DEF Promise!Next
    <2>5. CASE Retry /\ status[m] # "pending"
      BY <2>0, <2>5 DEF Retry, Promise!vars
    <2>6. QED
      BY <1>8, <2>2, <2>3, <2>4, <2>5
  <1>9. CASE UNCHANGED vars
    BY <1>9 DEF vars, Promise!vars
  <1>10. QED
    BY <1>1, <1>2, <1>3, <1>4, <1>5, <1>6, <1>7, <1>8, <1>9
       DEF Next, WorkerStep, DispatchStep, Failure

\* The outbox starts as the promise does: with nothing accepted.
LEMMA PromiseInit == Init => Promise!Init
  <1> SUFFICES ASSUME Init PROVE Promise!Init
    OBVIOUS
  <1>1. \A m \in Messages : m \in Rows /\ m \notin Legacy
    BY MessagesAreRows
  <1>2. \A m \in Messages : status[m] = "none" /\ published[m] = 0 /\ retries[m] = 0
    BY <1>1 DEF Init
  <1>3. QED
    BY <1>2 DEF Promise!Init, FateOf

\* The outbox implements the abstract promise: a message is concluded only
\* after its event was offered and abandoned only on its last attempt.
THEOREM Refinement == SafeSpec => ImplementsPromise
  <1>1. IInv /\ [Next]_vars => [Promise!Next]_(Promise!vars)
    BY PromiseStep
  <1>2. QED
    BY PromiseInit, <1>1, Invariance, PTL DEF SafeSpec, ImplementsPromise, Promise!SafeSpec

\* A concluded row is never handed out again.
THEOREM NothingReopened == SafeSpec => NeverReopened
  <1> DEFINE Keep == \A m \in Rows : /\ status[m] \in {"sent", "dead"} => status'[m] # "pending"
                                     /\ status[m] # "none" => status'[m] # "none"
  <1>1. IInv /\ [Next]_vars => [Keep]_vars
    <2> SUFFICES ASSUME IInv, Next PROVE Keep
      BY DEF vars
    <2> USE DEF Keep, IInv, TypeOK
    <2>1. ASSUME NEW m \in Rows, Send(m) PROVE Keep
      BY <2>1 DEF Send, SenderAndRow
    <2>2. CASE \E m \in Rows : status' = [status EXCEPT ![m] = "sent"]
      BY <2>2
    <2>3. CASE \E m \in Rows : status' = [status EXCEPT ![m] = "dead"]
      BY <2>3
    <2>4. CASE UNCHANGED status
      BY <2>4
    <2>5. /\ current.row \in Rows /\ \A r \in batch : r.row \in Rows
          /\ \A t \in Tasks : RowOf(t) \in Rows
      BY RowOfType DEF Record
    <2>6. QED
      BY <2>1, <2>2, <2>3, <2>4, <2>5
         DEF Next, WorkerStep, DispatchStep, Failure, BackoffElapses, ReadAudience, Incr, Lpush, Ltrim,
             SendToAudience, DispatchFails, LpushAnswerLost, MarkSent, CommitAnswerLost, SetSent,
             ListPending, Take, Settle, DeadLetter, Retry, EndRound, AbortRound, Crash
  <1>2. QED
    BY <1>1, Invariance, PTL DEF SafeSpec, NeverReopened
=============================================================================
