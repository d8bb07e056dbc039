----------------------- MODULE MarksAndReceiptsProofs ------------------------
(***************************************************************************)
(* Facts about what the members of a room do with its messages.            *)
(*                                                                         *)
(* Marks (MessageMarks), for any users, any number of concurrent requests  *)
(* and any number of marks: transactions never hold each other's rows, the *)
(* count returned contains the request's own effect, and toggles that are  *)
(* served one at a time cancel in pairs.                                   *)
(*                                                                         *)
(* Read positions (ReadReceipts), for any members, tabs, rooms and         *)
(* messages: what the others are told is stored.  The two modules share no *)
(* state.                                                                  *)
(***************************************************************************)
EXTENDS MessageMarks, ReadReceipts, FiniteSetTheorems, SequenceTheorems, WellFoundedInduction, TLAPS

-----------------------------------------------------------------------------
\* Marks.

Steps == Resting \union {"toggle", "count", "commit"}

Typed ==
  /\ mark \in [Users -> 0..MaxRows] /\ nextId \in 1..(MaxRows + 1)
  /\ task \in [Tasks -> [pc : Steps, found : 0..MaxRows, count : 0..Cardinality(Users)]]
  /\ add \in [Tasks -> 0..MaxRows] /\ del \in [Tasks -> 0..MaxRows]
  /\ toggles \in [Users -> Nat]

\* A request holds a row only after its flush, and one at most.
HeldWhere ==
  \A t \in Tasks :
    /\ task[t].pc \notin {"count", "commit"} => add[t] = 0 /\ del[t] = 0
    /\ add[t] = 0 \/ del[t] = 0

\* Who inserts a mark is the only one, and who deletes one holds what is there.
Exclusive ==
  \A t \in Tasks :
    /\ add[t] # 0 => mark[UserOf[t]] = 0
    /\ del[t] # 0 => mark[UserOf[t]] = del[t]
    /\ \A s \in Others(t) : (add[t] # 0 => add[s] = 0) /\ (del[t] # 0 => del[s] # del[t])

\* The count to be returned was made with the row held.
OwnEffect ==
  \A t \in Tasks : At(t, "commit") =>
    /\ add[t] # 0 => task[t].count >= 1
    /\ del[t] # 0 => task[t].count < Cardinality(Users)

\* The only request of its user knows his mark and is about to change it.
KnowsItsMark ==
  \A t \in Tasks : Others(t) = {} =>
    /\ At(t, "toggle") => task[t].found = mark[UserOf[t]]
    /\ task[t].pc \in {"count", "commit"} => add[t] # 0 \/ del[t] # 0

Parity ==
  \A t \in Tasks : Others(t) = {} => (mark[UserOf[t]] # 0 <=> toggles[UserOf[t]] % 2 = 1)

IInv == Typed /\ HeldWhere /\ Exclusive /\ OwnEffect /\ KnowsItsMark /\ Parity

-----------------------------------------------------------------------------
LEMMA UsersFinite == Cardinality(Users) \in Nat /\ MaxRows \in Nat /\ UserOf \in [Tasks -> Users]
  BY UsersAssumption, UserOfAssumption, MaxAssumption, FS_CardinalityType

\* Being another request of the same user goes both ways.
LEMMA OthersSymmetric == \A s, t \in Tasks : s \in Others(t) <=> t \in Others(s)
  BY DEF Others

\* What a transaction sees of the marks: its own effect is part of it.
LEMMA VisibleBounds ==
  ASSUME Typed, NEW t \in Tasks
  PROVE  /\ Cardinality(Visible(t)) \in 0..Cardinality(Users)
         /\ add[t] # 0 => Cardinality(Visible(t)) >= 1
         /\ add[t] = 0 /\ del[t] # 0 => Cardinality(Visible(t)) < Cardinality(Users)
<1>1. Visible(t) \subseteq Users /\ UserOf[t] \in Users
  BY UsersFinite DEF Visible
<1>2. IsFiniteSet(Visible(t)) /\ Cardinality(Visible(t)) <= Cardinality(Users)
      /\ (Cardinality(Users) = Cardinality(Visible(t)) => Users = Visible(t))
  BY <1>1, UsersAssumption, FS_Subset
<1>3. Cardinality(Visible(t)) \in Nat
  BY <1>2, FS_CardinalityType
<1>4. ASSUME add[t] # 0 PROVE Cardinality(Visible(t)) >= 1
  <2>1. UserOf[t] \in Visible(t)
    BY <1>1, <1>4 DEF Visible
  <2>2. Cardinality(Visible(t)) # 0
    BY <1>2, <2>1, FS_EmptySet
  <2> QED
    BY <1>3, <2>2
<1>5. ASSUME add[t] = 0, del[t] # 0 PROVE Cardinality(Visible(t)) < Cardinality(Users)
  <2>1. UserOf[t] \notin Visible(t)
    BY <1>5 DEF Visible
  <2> QED
    BY <1>1, <1>2, <1>3, <2>1, UsersFinite
<1> QED
  BY <1>2, <1>3, <1>4, <1>5, UsersFinite

\* Nobody has a mark and nobody has toggled.
THEOREM InitIInv == Init => IInv
<1> SUFFICES ASSUME Init PROVE IInv
  OBVIOUS
<1> USE UsersFinite DEF Init, Rest, Resting, Steps
<1>1. Typed
  BY DEF Typed
<1>2. HeldWhere /\ Exclusive /\ OwnEffect /\ KnowsItsMark
  BY DEF HeldWhere, Exclusive, OwnEffect, KnowsItsMark, At
<1>3. Parity
  BY DEF Parity
<1> QED
  BY <1>1, <1>2, <1>3 DEF IInv

-----------------------------------------------------------------------------
\* A request ends without effect: it gives its row back.
LEMMA Ends ==
  ASSUME IInv, NEW t \in Tasks, NEW s \in Resting, Finish(t, s),
         UNCHANGED <<mark, nextId, toggles>>
  PROVE  IInv'
<1> USE UsersFinite DEF IInv, Finish, Rest, Resting, Steps
<1>1. Typed'
  BY DEF Typed
<1>2. HeldWhere'
  BY DEF Typed, HeldWhere
<1>3. Exclusive'
  BY DEF Typed, Exclusive, Others
<1>4. OwnEffect'
  BY DEF Typed, OwnEffect, At
<1>5. KnowsItsMark'
  BY DEF Typed, KnowsItsMark, At, Others
<1>6. Parity'
  BY DEF Parity, Others
<1> QED
  BY <1>1, <1>2, <1>3, <1>4, <1>5, <1>6

LEMMA SelectStep == ASSUME IInv, NEW t \in Tasks, Select(t) PROVE IInv'
<1> USE UsersFinite DEF IInv, Resting, Steps
<1>1. /\ task[t].pc \in Resting /\ UNCHANGED <<mark, nextId, add, del, toggles>>
      /\ task' = [task EXCEPT ![t] = [pc |-> "toggle", found |-> mark[UserOf[t]], count |-> 0]]
  <2>1. [Rest("toggle") EXCEPT !.found = mark[UserOf[t]]]
          = [pc |-> "toggle", found |-> mark[UserOf[t]], count |-> 0]
    BY DEF Rest
  <2> QED
    BY <2>1 DEF Select
<1>2. mark[UserOf[t]] \in 0..MaxRows
  BY DEF Typed
<1>3. Typed'
  BY <1>1, <1>2 DEF Typed
<1>4. HeldWhere'
  BY <1>1 DEF Typed, HeldWhere
<1>5. Exclusive'
  BY <1>1 DEF Typed, Exclusive, Others
<1>6. OwnEffect'
  BY <1>1 DEF Typed, OwnEffect, At
<1>7. KnowsItsMark'
  BY <1>1 DEF Typed, KnowsItsMark, At, Others
<1>8. Parity'
  BY <1>1 DEF Parity, Others
<1> QED
  BY <1>3, <1>4, <1>5, <1>6, <1>7, <1>8

\* The key is free, so no other request of the user holds a row.
LEMMA InsertStep == ASSUME IInv, NEW t \in Tasks, Insert(t) PROVE IInv'
<1> USE UsersFinite DEF IInv, Insert, Resting, Steps
<1>1. /\ task[t].pc = "toggle" /\ mark[UserOf[t]] = 0 /\ nextId \in 1..MaxRows
      /\ \A s \in Others(t) : add[s] = 0
      /\ task' = [task EXCEPT ![t].pc = "count"] /\ add' = [add EXCEPT ![t] = nextId]
      /\ nextId' = nextId + 1 /\ UNCHANGED <<mark, del, toggles>>
  BY DEF At, Inserting, Typed
<1>2. del[t] = 0
  BY <1>1 DEF HeldWhere
<1>3. Typed'
  BY <1>1 DEF Typed
<1>4. HeldWhere'
  BY <1>1, <1>2 DEF Typed, HeldWhere
<1>5. Exclusive'
  BY <1>1, <1>2, OthersSymmetric DEF Typed, Exclusive, Others
<1>6. OwnEffect'
  BY <1>1 DEF Typed, OwnEffect, At
<1>7. KnowsItsMark'
  BY <1>1 DEF Typed, KnowsItsMark, At, Others
<1>8. Parity'
  BY <1>1 DEF Parity, Others
<1> QED
  BY <1>3, <1>4, <1>5, <1>6, <1>7, <1>8

\* The row deleted is there and nobody else deletes it, or none is held.
LEMMA DeleteStep == ASSUME IInv, NEW t \in Tasks, Delete(t) PROVE IInv'
<1> USE UsersFinite DEF IInv, Resting, Steps
<1>1. /\ task[t].pc = "toggle" /\ task[t].found \in 1..MaxRows
      /\ \A s \in Others(t) : del[s] # task[t].found
      /\ task' = [task EXCEPT ![t].pc = "count"]
      /\ del' = [del EXCEPT ![t] = IF mark[UserOf[t]] = task[t].found THEN task[t].found ELSE 0]
      /\ UNCHANGED <<mark, nextId, add, toggles>>
  BY DEF Delete, At, Deleting, Typed
<1>2. add[t] = 0 /\ del[t] = 0
  BY <1>1 DEF HeldWhere
<1>3. Typed'
  BY <1>1 DEF Typed
<1>4. HeldWhere'
  BY <1>1, <1>2 DEF Typed, HeldWhere
<1>5. Exclusive'
  BY <1>1, <1>2, OthersSymmetric DEF Typed, Exclusive, Others
<1>6. OwnEffect'
  BY <1>1 DEF Typed, OwnEffect, At
<1>7. KnowsItsMark'
  BY <1>1 DEF Typed, KnowsItsMark, At, Others
<1>8. Parity'
  BY <1>1 DEF Parity, Others
<1> QED
  BY <1>3, <1>4, <1>5, <1>6, <1>7, <1>8

LEMMA CountStep == ASSUME IInv, NEW t \in Tasks, Count(t) PROVE IInv'
<1> USE UsersFinite DEF IInv, Resting, Steps
<1>1. /\ task[t].pc = "count" /\ UNCHANGED <<mark, nextId, add, del, toggles>>
      /\ task' = [task EXCEPT ![t].pc = "commit", ![t].count = Cardinality(Visible(t))]
  BY DEF Count, At
<1>2. /\ Cardinality(Visible(t)) \in 0..Cardinality(Users)
      /\ add[t] # 0 => Cardinality(Visible(t)) >= 1
      /\ add[t] = 0 /\ del[t] # 0 => Cardinality(Visible(t)) < Cardinality(Users)
  BY VisibleBounds
<1>3. Typed'
  BY <1>1, <1>2 DEF Typed
<1>4. HeldWhere'
  BY <1>1 DEF Typed, HeldWhere
<1>5. Exclusive'
  BY <1>1 DEF Typed, Exclusive, Others
<1>6. OwnEffect'
  BY <1>1, <1>2 DEF Typed, HeldWhere, OwnEffect, At
<1>7. KnowsItsMark'
  BY <1>1 DEF Typed, KnowsItsMark, At, Others
<1>8. Parity'
  BY <1>1 DEF Parity, Others
<1> QED
  BY <1>3, <1>4, <1>5, <1>6, <1>7, <1>8

\* The user's mark becomes what the request held; no other request of his holds
\* a row at that time, and a request that is his only one did change it.
LEMMA CommitStep == ASSUME IInv, NEW t \in Tasks, Commit(t) PROVE IInv'
<1> USE UsersFinite DEF IInv, Resting, Steps
<1> DEFINE u == UserOf[t]
           new == IF add[t] # 0 THEN add[t] ELSE IF del[t] # 0 THEN 0 ELSE mark[u]
<1>1. /\ task[t].pc = "commit" /\ u \in Users /\ nextId' = nextId
      /\ mark' = [mark EXCEPT ![u] = new]
      /\ toggles' = [toggles EXCEPT ![u] = toggles[u] + 1]
      /\ task' = [task EXCEPT ![t] = Rest("idle")]
      /\ add' = [add EXCEPT ![t] = 0] /\ del' = [del EXCEPT ![t] = 0]
  BY DEF Commit, At, Finish
<1>2. Typed'
  BY <1>1 DEF Typed, Rest
<1>3. HeldWhere'
  BY <1>1 DEF Typed, HeldWhere, Rest
<1>4. \A s \in Others(t) : add[t] # 0 \/ del[t] # 0 => add[s] = 0 /\ del[s] = 0
  BY DEF Exclusive, Others, Typed
<1>5. Exclusive'
  <2>1. \A s \in Tasks : add'[s] # 0 => mark'[UserOf[s]] = 0
    BY <1>1, <1>4 DEF Typed, Exclusive, Others
  <2>2. \A s \in Tasks : del'[s] # 0 => mark'[UserOf[s]] = del'[s]
    BY <1>1, <1>4 DEF Typed, Exclusive, Others
  <2>3. \A s \in Tasks : \A r \in Others(s) :
          (add'[s] # 0 => add'[r] = 0) /\ (del'[s] # 0 => del'[r] # del'[s])
    BY <1>1 DEF Typed, Exclusive, Others
  <2> QED
    BY <2>1, <2>2, <2>3 DEF Exclusive, Others
<1>6. OwnEffect'
  BY <1>1 DEF Typed, OwnEffect, At, Rest
<1>7. \A s \in Tasks : s # t /\ Others(s) = {} => UserOf[s] # u
  BY DEF Others
<1>8. KnowsItsMark'
  BY <1>1, <1>7 DEF Typed, KnowsItsMark, At, Rest, Others
<1>9. Parity'
  <2>1. ASSUME NEW s \in Tasks, s # t, Others(s) = {}
        PROVE  mark'[UserOf[s]] # 0 <=> toggles'[UserOf[s]] % 2 = 1
    BY <1>1, <1>7, <2>1 DEF Typed, Parity
  <2>2. ASSUME Others(t) = {}
        PROVE  mark'[u] # 0 <=> toggles'[u] % 2 = 1
    <3>1. mark'[u] # 0 <=> mark[u] = 0
      BY <1>1, <2>2 DEF Typed, KnowsItsMark, Exclusive, HeldWhere
    <3>2. toggles'[u] = toggles[u] + 1 /\ toggles[u] \in Nat
      BY <1>1 DEF Typed
    <3>3. mark[u] # 0 <=> toggles[u] % 2 = 1
      BY <2>2 DEF Parity
    <3> QED
      BY <3>1, <3>2, <3>3
  <2> QED
    BY <2>1, <2>2 DEF Parity, Others
<1> QED
  BY <1>2, <1>3, <1>5, <1>6, <1>8, <1>9

\* The invariant is kept by every statement of every request.
THEOREM StepIInv == IInv /\ [Next]_vars => IInv'
<1> SUFFICES ASSUME IInv, [Next]_vars PROVE IInv'
  OBVIOUS
<1>1. ASSUME NEW t \in Tasks, InsertConflict(t) \/ Fails(t) PROVE IInv'
  <2>1. Finish(t, "crashed") /\ UNCHANGED <<mark, nextId, toggles>>
    BY <1>1 DEF InsertConflict, Fails
  <2> QED
    BY <2>1, Ends DEF Resting
<1>2. CASE UNCHANGED vars
  BY <1>2 DEF vars, IInv, Typed, HeldWhere, Exclusive, OwnEffect, KnowsItsMark, Parity, At, Others
<1> QED
  BY <1>1, <1>2, SelectStep, InsertStep, DeleteStep, CountStep, CommitStep DEF Next, Toggle

\* What holds in every state of the marks.
THEOREM Invariance == Spec => []IInv
  BY InitIInv, StepIInv, PTL DEF Spec

\* Two transactions never hold the same row or key of uq_msg_mark, and the count
\* that mark_toggle returns contains its own effect (message_repo.py:102-119).
THEOREM TypeCorrect == Spec => []TypeOK
<1>1. IInv => TypeOK
  BY DEF IInv, Typed, Exclusive, OwnEffect, TypeOK, Steps
<1> QED
  BY <1>1, Invariance, PTL

\* Toggles of a user whose requests are served one at a time cancel in pairs,
\* whatever others do and however often his requests fail (message_service.py:127).
THEOREM TogglesCancelInPairs == Spec => []TogglesCancel
<1>1. IInv => TogglesCancel
  BY DEF IInv, Parity, TogglesCancel
<1> QED
  BY <1>1, Invariance, PTL

-----------------------------------------------------------------------------
\* Read positions.

\* Types of what the clients and the database hold.
Events == {New(id) : id \in Ids} \union {Read}
ReceiptsTyped ==
  /\ sent \in Seq(Rooms) /\ Len(sent) \in Positions
  /\ open \in [Members -> Rooms \union {NoRoom}]
  /\ shown \in [Members -> SUBSET Ids]
  /\ pos \in [Members -> Positions] /\ announced \in [Members -> Positions]
  /\ reports \in [Members -> SUBSET Reports]
  /\ frames \in [Members -> SUBSET Events]

\* A window shows messages of the room that is open, if one is.
WindowOf(u) ==
  /\ open[u] # NoRoom => u \in Tabs
  /\ \A id \in shown[u] : id \in DOMAIN sent /\ sent[id] = open[u]

\* A report is about a message that was sent, of whatever room; when it is done
\* the database holds its value or a greater one.
ReportsOf(u) ==
  \A report \in reports[u] :
    /\ report.value <= Len(sent)
    /\ report.done /\ report.room = Room => report.value <= pos[u]

\* What the others were told is stored, and nobody is told of a message that
\* was not sent.
ToldOf(u) ==
  /\ announced[u] <= pos[u] /\ pos[u] <= Len(sent)
  /\ \A id \in Ids : New(id) \in frames[u] => id <= Len(sent)

ReceiptsInv ==
  ReceiptsTyped /\ \A u \in Members : WindowOf(u) /\ ReportsOf(u) /\ ToldOf(u)

-----------------------------------------------------------------------------
\* A set of numbers has a least element.
LEMMA LeastExists ==
  ASSUME NEW S \in SUBSET Nat, S # {}
  PROVE  \E m \in S : \A x \in S : m <= x
<1>1. PICK m \in S : \A x \in S : ~(<<x, m>> \in OpToRel(<, Nat))
  BY WFMin, NatLessThanWellFounded
<1>2. \A x \in S : ~(x < m)
  BY <1>1 DEF OpToRel
<1> QED
  BY <1>2

\* One that is bounded has a greatest, and Max is it.
LEMMA MaxOf ==
  ASSUME NEW n \in Nat, NEW S \in SUBSET (0..n), S # {}
  PROVE  Max(S) \in S /\ \A x \in S : x <= Max(S)
<1> DEFINE Distance == {n - x : x \in S}
<1>1. Distance \in SUBSET Nat /\ Distance # {}
  <2>1. \A x \in S : n - x \in Nat
    OBVIOUS
  <2>2. Distance \subseteq Nat
    BY <2>1
  <2> QED
    BY <2>2
<1>2. PICK d \in Distance : \A e \in Distance : d <= e
  <2> HIDE DEF Distance
  <2> QED
    BY <1>1, LeastExists
<1>3. PICK m \in S : d = n - m
  OBVIOUS
<1>4. \A x \in S : m >= x
  BY <1>2, <1>3
<1> QED
  BY <1>4 DEF Max

\* The newest message of a window is one of it.
LEMMA NewestOf ==
  ASSUME NEW S \in SUBSET Ids
  PROVE  Newest(S) \in S \union {0}
<1>1. S \union {0} \in SUBSET (0..MaxMsg) /\ S \union {0} # {} /\ MaxMsg \in Nat
  BY BoundAssumption DEF Ids
<1>2. QED
  BY <1>1, MaxOf DEF Newest

\* GREATEST is not less than either of its arguments.
LEMMA ForwardIs ==
  ASSUME NEW a \in Positions, NEW b \in Positions
  PROVE  Forward(a, b) \in {a, b} /\ a <= Forward(a, b) /\ b <= Forward(a, b)
<1> DEFINE S == {a, b}
<1>1. S \in SUBSET (0..MaxMsg) /\ S # {} /\ MaxMsg \in Nat /\ a \in S /\ b \in S
  BY BoundAssumption DEF Positions
<1>2. Forward(a, b) = Max(S)
  BY DEF Forward
<1> HIDE DEF S
<1>3. Max(S) \in S /\ \A x \in S : x <= Max(S)
  BY <1>1, MaxOf
<1>4. QED
  BY <1>1, <1>2, <1>3 DEF S

\* The messages of a room were sent.
LEMMA RoomHolds ==
  ASSUME ReceiptsTyped, NEW r
  PROVE  /\ DOMAIN sent = 1..Len(sent) /\ Len(sent) \in Nat /\ Len(sent) <= MaxMsg
         /\ \A id \in DOMAIN sent : sent[id] \in Rooms
         /\ In(r) \in SUBSET Ids /\ \A id \in In(r) : id \in DOMAIN sent /\ sent[id] = r
<1>1. sent \in Seq(Rooms) /\ Len(sent) \in Nat /\ Len(sent) <= MaxMsg /\ MaxMsg \in Nat
  BY BoundAssumption DEF ReceiptsTyped, Positions
<1>2. DOMAIN sent = 1..Len(sent) /\ \A id \in DOMAIN sent : sent[id] \in Rooms
  BY <1>1, LenProperties, ElementOfSeq
<1>3. QED
  BY <1>1, <1>2 DEF In, Ids

\* What reports become when a client reports the newest message of some.
LEMMA MarkReadAllIs ==
  ASSUME ReceiptsTyped, NEW u \in Members, NEW room \in Rooms, NEW S \in SUBSET Ids,
         MarkReadAll(u, room, S)
  PROVE  /\ reports' \in [Members -> SUBSET Reports]
         /\ \A v \in Members : \A r \in reports'[v] :
              r \in reports[v] \/ (v = u /\ r.value \in S /\ r.done = FALSE)
<1> DEFINE new == {[via |-> "http", room |-> room, value |-> id, done |-> FALSE] : id \in {Newest(S)} \ {0}}
<1>1. \A id \in {Newest(S)} \ {0} : id \in S /\ id \in Ids
  BY NewestOf
<1>2. new \subseteq Reports
  <2>1. \A id \in Ids : [via |-> "http", room |-> room, value |-> id, done |-> FALSE] \in Reports
    BY DEF Reports
  <2>2. QED
    BY <1>1, <2>1
<1>3. \A r \in new : r.value \in S /\ r.done = FALSE
  BY <1>1
<1>4. reports' = [reports EXCEPT ![u] = reports[u] \union new]
  BY DEF MarkReadAll
<1> HIDE DEF new
<1>5. reports' \in [Members -> SUBSET Reports]
  BY <1>2, <1>4 DEF ReceiptsTyped
<1>6. \A v \in Members : reports'[v] = IF v = u THEN reports[u] \union new ELSE reports[v]
  BY <1>4 DEF ReceiptsTyped
<1>7. QED
  BY <1>3, <1>5, <1>6

-----------------------------------------------------------------------------
\* Nothing is open and nobody has reported at the start.
LEMMA InitReceiptsInv == ReceiptsInit => ReceiptsInv
<1> SUFFICES ASSUME ReceiptsInit
             PROVE  ReceiptsInv
  OBVIOUS
<1>1. Before \in Nat /\ Before \in Positions /\ 0 \in Positions
  BY BoundAssumption DEF Positions
<1>2. sent \in Seq(Rooms) /\ Len(sent) = Before
  <2>1. sent \in [1..Before -> Rooms]
    BY DEF ReceiptsInit
  <2>2. sent \in Seq(Rooms)
    BY <1>1, <2>1
  <2>3. DOMAIN sent = 1..Before /\ DOMAIN sent = 1..Len(sent) /\ Len(sent) \in Nat
    BY <2>1, <2>2, LenProperties
  <2>4. QED
    BY <1>1, <2>2, <2>3
<1>3. ReceiptsTyped
  BY <1>1, <1>2 DEF ReceiptsInit, ReceiptsTyped
<1>4. \A u \in Members : WindowOf(u) /\ ReportsOf(u) /\ ToldOf(u)
  BY <1>1, <1>2 DEF ReceiptsInit, WindowOf, ReportsOf, ToldOf
<1>5. QED
  BY <1>3, <1>4 DEF ReceiptsInv

\* openRoom
LEMMA OpenRoomKeeps ==
  ASSUME ReceiptsInv, NEW u \in Members, NEW room \in Rooms, OpenRoom(u, room)
  PROVE  ReceiptsInv'
<1>1. /\ ReceiptsTyped /\ In(room) \in SUBSET Ids /\ DOMAIN sent = 1..Len(sent) /\ Len(sent) \in Nat
      /\ \A id \in In(room) : id \in DOMAIN sent /\ sent[id] = room
  BY RoomHolds DEF ReceiptsInv
<1>2. /\ reports' \in [Members -> SUBSET Reports]
      /\ \A v \in Members : \A r \in reports'[v] :
           r \in reports[v] \/ (v = u /\ r.value \in In(room) /\ r.done = FALSE)
  BY <1>1, MarkReadAllIs DEF OpenRoom
<1>3. ReceiptsTyped'
  BY <1>1, <1>2 DEF OpenRoom, ReceiptsTyped
<1>4. ASSUME NEW v \in Members
      PROVE  WindowOf(v)' /\ ReportsOf(v)' /\ ToldOf(v)'
  <2>1. WindowOf(v) /\ ReportsOf(v) /\ ToldOf(v)
    BY DEF ReceiptsInv
  <2>2. /\ shown'[v] = IF v = u THEN In(room) ELSE shown[v]
        /\ open'[v] = IF v = u THEN room ELSE open[v]
    BY <1>1 DEF OpenRoom, ReceiptsTyped
  <2>3. WindowOf(v)'
    BY <1>1, <2>1, <2>2 DEF WindowOf, OpenRoom
  <2>4. ReportsOf(v)'
    BY <1>1, <1>2, <2>1 DEF ReportsOf, OpenRoom
  <2>5. ToldOf(v)'
    BY <2>1 DEF ToldOf, OpenRoom
  <2>6. QED
    BY <2>3, <2>4, <2>5
<1>5. QED
  BY <1>3, <1>4 DEF ReceiptsInv

\* activeRoom = null
LEMMA CloseRoomKeeps ==
  ASSUME ReceiptsInv, NEW u \in Members, CloseRoom(u)
  PROVE  ReceiptsInv'
<1>1. ReceiptsTyped'
  BY DEF CloseRoom, ReceiptsInv, ReceiptsTyped
<1>2. \A v \in Members : WindowOf(v)' /\ ReportsOf(v)' /\ ToldOf(v)'
  BY DEF CloseRoom, ReceiptsInv, ReceiptsTyped, WindowOf, ReportsOf, ToldOf
<1>3. QED
  BY <1>1, <1>2 DEF ReceiptsInv

\* onMessage of a new message
LEMMA ReceiveNewKeeps ==
  ASSUME ReceiptsInv, NEW u \in Members, ReceiveNew(u)
  PROVE  ReceiptsInv'
<1>1. PICK id \in Ids :
        /\ New(id) \in frames[u]
        /\ frames' = [frames EXCEPT ![u] = @ \ {New(id)}]
        /\ IF sent[id] # open[u] \/ id \in shown[u]
           THEN UNCHANGED <<shown, reports>>
           ELSE /\ shown' = [shown EXCEPT ![u] = @ \union {id}]
                /\ MarkReadAll(u, open[u], shown'[u])
        /\ UNCHANGED <<sent, open, pos, announced>>
  BY DEF ReceiveNew
<1>2. ReceiptsTyped /\ id \in Nat \ {0} /\ id <= Len(sent)
  BY <1>1 DEF ReceiptsInv, ToldOf, Ids
<1>3. id \in DOMAIN sent /\ sent[id] \in Rooms /\ DOMAIN sent = 1..Len(sent) /\ Len(sent) \in Nat
  BY <1>2, RoomHolds
<1>4. frames' \in [Members -> SUBSET Events] /\ \A v \in Members : frames'[v] \subseteq frames[v]
  BY <1>1, <1>2 DEF ReceiptsTyped
<1>5. /\ shown' \in [Members -> SUBSET Ids] /\ reports' \in [Members -> SUBSET Reports]
      /\ \A v \in Members : \A i \in shown'[v] : i \in shown[v] \/ (sent[i] = open[v] /\ i = id)
      /\ \A v \in Members : \A r \in reports'[v] :
           r \in reports[v] \/ (r.value \in shown'[v] /\ r.done = FALSE)
  <2>1. CASE UNCHANGED <<shown, reports>>
    BY <1>2, <2>1 DEF ReceiptsTyped
  <2>2. CASE /\ sent[id] = open[u] /\ shown' = [shown EXCEPT ![u] = @ \union {id}]
             /\ MarkReadAll(u, open[u], shown'[u])
    <3>1. shown' \in [Members -> SUBSET Ids] /\ shown'[u] \in SUBSET Ids
      BY <1>2, <2>2 DEF ReceiptsTyped
    <3>2. /\ reports' \in [Members -> SUBSET Reports]
          /\ \A v \in Members : \A r \in reports'[v] :
               r \in reports[v] \/ (v = u /\ r.value \in shown'[u] /\ r.done = FALSE)
      BY <1>2, <1>3, <2>2, <3>1, MarkReadAllIs
    <3>3. \A v \in Members : \A i \in shown'[v] : i \in shown[v] \/ (sent[i] = open[v] /\ i = id)
      BY <1>2, <2>2 DEF ReceiptsTyped
    <3>4. QED
      BY <3>1, <3>2, <3>3
  <2>3. QED
    BY <1>1, <2>1, <2>2
<1>6. ReceiptsTyped'
  BY <1>1, <1>2, <1>4, <1>5 DEF ReceiptsTyped
<1>7. ASSUME NEW v \in Members
      PROVE  WindowOf(v)' /\ ReportsOf(v)' /\ ToldOf(v)'
  <2>1. WindowOf(v) /\ ReportsOf(v) /\ ToldOf(v)
    BY DEF ReceiptsInv
  <2>2. WindowOf(v)'
    BY <1>1, <1>3, <1>5, <2>1 DEF WindowOf
  <2>3. ReportsOf(v)'
    BY <1>1, <1>3, <1>5, <2>1, <2>2 DEF ReportsOf, WindowOf
  <2>4. ToldOf(v)'
    BY <1>1, <1>4, <2>1 DEF ToldOf
  <2>5. QED
    BY <2>2, <2>3, <2>4
<1>8. QED
  BY <1>6, <1>7 DEF ReceiptsInv

\* The client answers another's position with its own.
LEMMA ReceiveReadKeeps ==
  ASSUME ReceiptsInv, NEW u \in Members, ReceiveRead(u)
  PROVE  ReceiptsInv'
<1>1. /\ frames' = [frames EXCEPT ![u] = @ \ {Read}]
      /\ IF open[u] # NoRoom THEN MarkReadAll(u, open[u], shown[u]) ELSE UNCHANGED reports
      /\ UNCHANGED <<sent, open, shown, pos, announced>>
  BY DEF ReceiveRead
<1>2. /\ ReceiptsTyped /\ shown[u] \in SUBSET Ids /\ (open[u] # NoRoom => open[u] \in Rooms)
      /\ DOMAIN sent = 1..Len(sent) /\ Len(sent) \in Nat
  BY RoomHolds DEF ReceiptsInv, ReceiptsTyped
<1>3. frames' \in [Members -> SUBSET Events] /\ \A v \in Members : frames'[v] \subseteq frames[v]
  BY <1>1, <1>2 DEF ReceiptsTyped
<1>4. /\ reports' \in [Members -> SUBSET Reports]
      /\ \A v \in Members : \A r \in reports'[v] :
           r \in reports[v] \/ (r.value \in shown[v] /\ r.done = FALSE)
  <2>1. CASE UNCHANGED reports
    BY <1>2, <2>1 DEF ReceiptsTyped
  <2>2. CASE open[u] # NoRoom /\ MarkReadAll(u, open[u], shown[u])
    BY <1>2, <2>2, MarkReadAllIs
  <2>3. QED
    BY <1>1, <2>1, <2>2
<1>5. ReceiptsTyped'
  BY <1>1, <1>2, <1>3, <1>4 DEF ReceiptsTyped
<1>6. ASSUME NEW v \in Members
      PROVE  WindowOf(v)' /\ ReportsOf(v)' /\ ToldOf(v)'
  <2>1. WindowOf(v) /\ ReportsOf(v) /\ ToldOf(v)
    BY DEF ReceiptsInv
  <2>2. ReportsOf(v)'
    BY <1>1, <1>2, <1>4, <2>1 DEF ReportsOf, WindowOf
  <2>3. QED
    BY <1>1, <1>3, <2>1, <2>2 DEF WindowOf, ToldOf
<1>7. QED
  BY <1>5, <1>6 DEF ReceiptsInv

\* A message is sent.
LEMMA NewMessageKeeps ==
  ASSUME ReceiptsInv, NewMessage
  PROVE  ReceiptsInv'
<1>1. /\ ReceiptsTyped /\ Len(sent) < MaxMsg /\ Len(sent) \in Nat /\ MaxMsg \in Nat /\ DOMAIN sent = 1..Len(sent)
      /\ UNCHANGED <<open, shown, pos, reports, announced>>
  BY BoundAssumption, RoomHolds DEF NewMessage, ReceiptsInv
<1>2. PICK room \in Rooms :
        /\ sent' = Append(sent, room)
        /\ frames' = [u \in Members |-> IF u \in Tabs \intersect MembersOf[room]
                                        THEN frames[u] \union {New(Len(sent'))} ELSE frames[u]]
  BY DEF NewMessage
<1>3. /\ sent' \in Seq(Rooms) /\ Len(sent') = Len(sent) + 1 /\ DOMAIN sent' = 1..(Len(sent) + 1)
      /\ \A id \in DOMAIN sent : sent'[id] = sent[id]
  <2>1. sent \in Seq(Rooms)
    BY <1>1 DEF ReceiptsTyped
  <2>2. /\ Append(sent, room) \in Seq(Rooms) /\ Len(Append(sent, room)) = Len(sent) + 1
        /\ \A id \in 1..Len(sent) : Append(sent, room)[id] = sent[id]
    BY <2>1, AppendProperties
  <2>3. DOMAIN sent' = 1..Len(sent')
    BY <1>2, <2>2, LenProperties
  <2>4. QED
    BY <1>1, <1>2, <2>2, <2>3
<1> DEFINE new == Len(sent')
<1>4. new \in Ids /\ new \in Positions /\ new = Len(sent) + 1
  BY <1>1, <1>3 DEF Ids, Positions
<1> HIDE DEF new
<1>5. New(new) \in Events /\ \A v \in Members : frames'[v] \subseteq frames[v] \union {New(new)}
  BY <1>2, <1>4 DEF Events, new
<1>6. frames' \in [Members -> SUBSET Events]
  BY <1>1, <1>2, <1>5 DEF ReceiptsTyped, new
<1>7. ReceiptsTyped'
  BY <1>1, <1>3, <1>4, <1>6 DEF ReceiptsTyped, new
<1>8. ASSUME NEW v \in Members
      PROVE  WindowOf(v)' /\ ReportsOf(v)' /\ ToldOf(v)'
  <2>1. WindowOf(v) /\ ReportsOf(v) /\ ToldOf(v)
    BY DEF ReceiptsInv
  <2>2. /\ \A r \in reports[v] : r.value \in Nat
        /\ pos[v] \in Nat /\ \A id \in Ids : id \in Nat
    BY <1>1 DEF ReceiptsTyped, Reports, Ids, Positions
  <2>3. \A id \in Ids : New(id) \in frames'[v] => New(id) \in frames[v] \/ id = new
    BY <1>5 DEF New
  <2>4. WindowOf(v)'
    BY <1>1, <1>3, <2>1 DEF WindowOf
  <2>5. ReportsOf(v)'
    BY <1>1, <1>3, <2>1, <2>2 DEF ReportsOf
  <2>6. ToldOf(v)'
    <3>1. \A id \in Ids : New(id) \in frames'[v] => id <= new
      BY <1>1, <1>4, <2>1, <2>2, <2>3 DEF ToldOf
    <3>2. announced'[v] <= pos'[v] /\ pos'[v] <= new
      BY <1>1, <1>4, <2>1, <2>2 DEF ToldOf
    <3>3. QED
      BY <3>1, <3>2 DEF ToldOf, new
  <2>7. QED
    BY <2>4, <2>5, <2>6
<1>9. QED
  BY <1>7, <1>8 DEF ReceiptsInv

-----------------------------------------------------------------------------
\* report_read to its commit: the position never goes back, so what was done
\* before stays stored.
LEMMA ReportKeeps ==
  ASSUME ReceiptsInv, NEW u \in Members, Report(u)
  PROVE  ReceiptsInv'
<1>1. PICK r \in reports[u] :
        /\ pos' = IF r.room = Room THEN [pos EXCEPT ![u] = Forward(@, r.value)] ELSE pos
        /\ reports' = [reports EXCEPT ![u] = (@ \ {r}) \union {[r EXCEPT !.done = TRUE]}]
        /\ UNCHANGED <<sent, open, shown, frames, announced>>
  BY DEF Report
<1>2. ReceiptsTyped /\ r \in Reports /\ r.value <= Len(sent) /\ Len(sent) \in Nat
  BY RoomHolds DEF ReceiptsInv, ReceiptsTyped, ReportsOf
<1> DEFINE done == [r EXCEPT !.done = TRUE]
<1>3. done \in Reports /\ done.value = r.value /\ done.room = r.room
  BY <1>2 DEF Reports
<1> HIDE DEF done
<1>4. /\ r.value \in Positions /\ pos[u] \in Positions
      /\ \A v \in Members : pos[v] \in Nat /\ announced[v] \in Nat
      /\ \A q \in Reports : q.value \in Nat
  BY <1>2, BoundAssumption DEF ReceiptsTyped, Positions, Reports, Ids
<1> DEFINE p == IF r.room = Room THEN Forward(pos[u], r.value) ELSE pos[u]
<1>5. p \in {pos[u], r.value} /\ pos[u] <= p /\ (r.room = Room => r.value <= p)
  BY <1>4, ForwardIs
<1>6. pos' = [pos EXCEPT ![u] = p] /\ reports' = [reports EXCEPT ![u] = (reports[u] \ {r}) \union {done}]
  BY <1>1, <1>2 DEF done, ReceiptsTyped
<1> HIDE DEF p
<1>7. \A v \in Members : pos'[v] = IF v = u THEN p ELSE pos[v]
  BY <1>2, <1>6 DEF ReceiptsTyped
<1>8. \A v \in Members : \A q \in reports'[v] : q \in reports[v] \/ (v = u /\ q = done)
  BY <1>2, <1>6 DEF ReceiptsTyped
<1>9. ReceiptsTyped'
  <2>1. pos' \in [Members -> Positions]
    BY <1>2, <1>4, <1>5, <1>6 DEF ReceiptsTyped
  <2>2. reports' \in [Members -> SUBSET Reports]
    <3>1. (reports[u] \ {r}) \union {done} \in SUBSET Reports
      BY <1>2, <1>3 DEF ReceiptsTyped
    <3>2. QED
      BY <1>2, <1>6, <3>1 DEF ReceiptsTyped
  <2>3. QED
    BY <1>1, <1>2, <2>1, <2>2 DEF ReceiptsTyped
<1>10. ASSUME NEW v \in Members
       PROVE  WindowOf(v)' /\ ReportsOf(v)' /\ ToldOf(v)'
  <2>1. WindowOf(v) /\ ReportsOf(v) /\ ToldOf(v)
    BY DEF ReceiptsInv
  <2>2. WindowOf(v)'
    BY <1>1, <2>1 DEF WindowOf
  <2>3. pos[v] <= pos'[v] /\ pos'[v] \in Nat
    <3>1. p \in Nat /\ pos[v] \in Nat
      BY <1>2, <1>4, <1>5 DEF ReceiptsTyped
    <3>2. CASE v = u
      BY <1>5, <1>7, <3>1, <3>2
    <3>3. CASE v # u
      <4>1. pos'[v] = pos[v]
        BY <1>7, <3>3
      <4>2. QED
        BY <3>1, <4>1
    <3>4. QED
      BY <3>2, <3>3
  <2>4. ReportsOf(v)'
    <3>1. reports[v] \subseteq Reports
      BY <1>2 DEF ReceiptsTyped
    <3> SUFFICES ASSUME NEW q \in reports'[v]
                 PROVE  q.value <= Len(sent) /\ (q.done /\ q.room = Room => q.value <= pos'[v])
      BY <1>1 DEF ReportsOf
    <3>2. CASE q \in reports[v]
      <4>1. /\ q.value \in Nat /\ pos[v] \in Nat /\ q.value <= Len(sent)
            /\ q.done /\ q.room = Room => q.value <= pos[v]
        BY <1>4, <2>1, <3>1, <3>2 DEF ReportsOf
      <4>2. QED
        BY <2>3, <4>1
    <3>3. CASE v = u /\ q = done
      BY <1>2, <1>3, <1>5, <1>7, <3>3
    <3>4. QED
      BY <1>8, <3>2, <3>3
  <2>5. ToldOf(v)'
    <3>1. announced[v] <= pos'[v]
      BY <1>4, <2>1, <2>3 DEF ToldOf
    <3>2. pos'[v] <= Len(sent)
      BY <1>2, <1>5, <1>7, <2>1 DEF ToldOf
    <3>3. QED
      BY <1>1, <2>1, <3>1, <3>2 DEF ToldOf
  <2>6. QED
    BY <2>2, <2>4, <2>5
<1>11. QED
  BY <1>9, <1>10 DEF ReceiptsInv

\* The others are told, or not, what a report that is done has stored; the
\* frame that may follow reports the same message of whatever room is open.
LEMMA EmitKeeps ==
  ASSUME ReceiptsInv, NEW u \in Members, Emit(u)
  PROVE  ReceiptsInv'
<1>1. PICK r \in reports[u] :
        /\ r.done
        /\ \E again \in Again(u, r) : reports' = [reports EXCEPT ![u] = (@ \ {r}) \union again]
        /\ \/ /\ frames' = [v \in Members |-> IF v \in OtherMembers(u, r.room) \intersect Tabs
                                              THEN frames[v] \union {Read} ELSE frames[v]]
              /\ announced' = IF r.room = Room THEN [announced EXCEPT ![u] = r.value] ELSE announced
           \/ UNCHANGED <<frames, announced>>
        /\ UNCHANGED <<sent, open, shown, pos>>
  BY DEF Emit
<1>2. /\ ReceiptsTyped /\ r \in Reports /\ r.value <= Len(sent) /\ (r.room = Room => r.value <= pos[u])
      /\ open[u] \in Rooms \union {NoRoom}
  BY <1>1 DEF ReceiptsInv, ReceiptsTyped, ReportsOf
<1>3. r.value \in Ids /\ r.value \in Positions
  BY <1>2, BoundAssumption DEF Reports, Ids, Positions
<1>4. PICK again \in Again(u, r) : reports' = [reports EXCEPT ![u] = (reports[u] \ {r}) \union again]
  BY <1>1
<1>5. \A q \in again : q \in Reports /\ q.value = r.value /\ q.done = FALSE
  <2>1. \A room \in Rooms : [via |-> "ws", room |-> room, value |-> r.value, done |-> FALSE] \in Reports
    BY <1>3 DEF Reports
  <2>2. \A q \in again : \E room \in {open[u]} \ {NoRoom} :
          q = [via |-> "ws", room |-> room, value |-> r.value, done |-> FALSE]
    BY <1>4 DEF Again
  <2>3. QED
    BY <1>2, <2>1, <2>2
<1>6. reports' \in [Members -> SUBSET Reports]
  <2>1. (reports[u] \ {r}) \union again \in SUBSET Reports
    BY <1>2, <1>5 DEF ReceiptsTyped
  <2>2. QED
    BY <1>2, <1>4, <2>1 DEF ReceiptsTyped
<1>7. \A v \in Members : \A q \in reports'[v] : q \in reports[v] \/ q \in again
  BY <1>2, <1>4 DEF ReceiptsTyped
<1>8. /\ announced' \in [Members -> Positions]
      /\ \A v \in Members : \/ announced'[v] = announced[v]
                            \/ v = u /\ announced'[v] = r.value /\ r.room = Room
  <2>1. CASE r.room = Room /\ announced' = [announced EXCEPT ![u] = r.value]
    BY <1>2, <1>3, <2>1 DEF ReceiptsTyped
  <2>2. CASE UNCHANGED announced
    BY <1>2, <2>2 DEF ReceiptsTyped
  <2>3. QED
    BY <1>1, <2>1, <2>2
<1>9. /\ frames' \in [Members -> SUBSET Events]
      /\ \A v \in Members : frames'[v] \subseteq frames[v] \union {Read}
  <2>1. Read \in Events
    BY DEF Events
  <2>2. CASE frames' = [v \in Members |-> IF v \in OtherMembers(u, r.room) \intersect Tabs
                                          THEN frames[v] \union {Read} ELSE frames[v]]
    BY <1>2, <2>1, <2>2 DEF ReceiptsTyped
  <2>3. CASE UNCHANGED frames
    BY <1>2, <2>3 DEF ReceiptsTyped
  <2>4. QED
    BY <1>1, <2>2, <2>3
<1>10. ReceiptsTyped'
  BY <1>1, <1>2, <1>6, <1>8, <1>9 DEF ReceiptsTyped
<1>11. ASSUME NEW v \in Members
       PROVE  WindowOf(v)' /\ ReportsOf(v)' /\ ToldOf(v)'
  <2>1. WindowOf(v) /\ ReportsOf(v) /\ ToldOf(v)
    BY DEF ReceiptsInv
  <2>2. WindowOf(v)'
    BY <1>1, <2>1 DEF WindowOf
  <2>3. ReportsOf(v)'
    BY <1>1, <1>2, <1>5, <1>7, <2>1 DEF ReportsOf
  <2>4. \A id \in Ids : New(id) \in frames'[v] => New(id) \in frames[v]
    <3>1. \A id \in Ids : New(id) # Read
      BY DEF New, Read
    <3>2. QED
      BY <1>9, <3>1
  <2>5. ToldOf(v)'
    BY <1>1, <1>2, <1>8, <2>1, <2>4 DEF ToldOf
  <2>6. QED
    BY <2>2, <2>3, <2>5
<1>12. QED
  BY <1>10, <1>11 DEF ReceiptsInv

\* A report that fails leaves no trace.
LEMMA ReportFailsKeeps ==
  ASSUME ReceiptsInv, NEW u \in Members, ReportFails(u)
  PROVE  ReceiptsInv'
<1>1. ReceiptsTyped'
  BY DEF ReportFails, ReceiptsInv, ReceiptsTyped
<1>2. \A v \in Members : WindowOf(v)' /\ ReportsOf(v)' /\ ToldOf(v)'
  BY DEF ReportFails, ReceiptsInv, ReceiptsTyped, WindowOf, ReportsOf, ToldOf
<1>3. QED
  BY <1>1, <1>2 DEF ReceiptsInv

\* ReceiptsInv is an invariant of ReadReceipts.
THEOREM ReceiptsInvariance == ReceiptsSpec => []ReceiptsInv
<1>1. ASSUME ReceiptsInv, [ReceiptsNext]_receiptVars
      PROVE  ReceiptsInv'
  <2>1. CASE NewMessage
    BY <1>1, <2>1, NewMessageKeeps
  <2>2. CASE \E u \in Members : Open(u) \/ CloseRoom(u) \/ Step(u) \/ ReportFails(u)
    BY <1>1, <2>2, OpenRoomKeeps, CloseRoomKeeps, ReceiveNewKeeps, ReceiveReadKeeps, ReportKeeps,
       EmitKeeps, ReportFailsKeeps DEF Step, Open
  <2>3. CASE UNCHANGED receiptVars
    BY <1>1, <2>3 DEF receiptVars, ReceiptsInv, ReceiptsTyped, WindowOf, ReportsOf, ToldOf
  <2>4. QED
    BY <1>1, <2>1, <2>2, <2>3 DEF ReceiptsNext
<1>2. QED
  BY InitReceiptsInv, <1>1, PTL DEF ReceiptsSpec

\* What the others are told about a member the database holds, in whatever
\* order his reports arrive, are committed and announced
\* (message_service.py:146-165).
THEOREM ToldIsStored == ReceiptsSpec => []ReceiptsTypeOK
<1>1. ReceiptsInv => ReceiptsTypeOK
  <2> SUFFICES ASSUME ReceiptsInv
               PROVE  ReceiptsTypeOK
    OBVIOUS
  <2>1. /\ ReceiptsTyped /\ Len(sent) \in Nat /\ Len(sent) <= MaxMsg /\ DOMAIN sent = 1..Len(sent)
        /\ \A id \in DOMAIN sent : sent[id] \in Rooms
    BY RoomHolds DEF ReceiptsInv
  <2>2. ASSUME NEW u \in Members
        PROVE  /\ open[u] # NoRoom => u \in Tabs
               /\ shown[u] \subseteq IF open[u] = NoRoom THEN {} ELSE In(open[u])
               /\ pos[u] \in 0..Len(sent) /\ announced[u] \in 0..pos[u]
               /\ frames[u] \subseteq {New(id) : id \in DOMAIN sent} \union {Read}
    <3>1. WindowOf(u) /\ ToldOf(u)
      BY DEF ReceiptsInv
    <3>2. /\ pos[u] \in Nat /\ announced[u] \in Nat /\ frames[u] \subseteq Events
          /\ \A id \in Ids : id \in Nat /\ 1 <= id
      BY <2>1, BoundAssumption DEF ReceiptsTyped, Positions, Ids
    <3>3. shown[u] \subseteq IF open[u] = NoRoom THEN {} ELSE In(open[u])
      BY <2>1, <3>1, RoomsAssumption DEF WindowOf, In
    <3>4. pos[u] \in 0..Len(sent) /\ announced[u] \in 0..pos[u]
      BY <2>1, <3>1, <3>2 DEF ToldOf
    <3>5. \A frame \in frames[u] : frame \in {New(id) : id \in DOMAIN sent} \union {Read}
      <4> SUFFICES ASSUME NEW id \in Ids, New(id) \in frames[u]
                   PROVE  id \in DOMAIN sent
        BY <3>2 DEF Events
      <4>1. QED
        BY <2>1, <3>1, <3>2 DEF ToldOf
    <3>6. QED
      BY <3>1, <3>3, <3>4, <3>5 DEF WindowOf
  <2>3. pos \in [Members -> 0..Len(sent)]
    BY <2>1, <2>2 DEF ReceiptsTyped
  <2>4. QED
    BY <2>1, <2>2, <2>3 DEF ReceiptsTypeOK, ReceiptsTyped
<1>2. QED
  BY <1>1, ReceiptsInvariance, PTL
=============================================================================
