---------------------------- MODULE ReadReceipts ----------------------------
(***************************************************************************)
(* Read positions in the rooms of some members: MessageService.report_read,*)
(* the two ways a web client calls it (POST /rooms/{id}/read and, when     *)
(* that succeeded, a message.read frame over its WebSocket) and what the   *)
(* client does with the events it receives.                                *)
(*                                                                         *)
(* A report is a transaction whose UPDATE holds the member's row, then the *)
(* emission of message.read to the other members.  The POST names the room *)
(* that is open when it is sent, the frame the one that is open when it is *)
(* answered, both the newest message of the former.                        *)
(*                                                                         *)
(* Reports and events that are equal and under way together count as one,  *)
(* and may overtake each other; an event may take any time, so it goes out *)
(* when the request is answered.  Members stay in their rooms, connections *)
(* stay up (EventStream is about them) and nothing is recalled.  A window  *)
(* is filled at once; ChatWindow is about how.                             *)
(***************************************************************************)
EXTENDS Naturals, Sequences, FiniteSets, FiniteSetsExt

CONSTANTS Members,     \* the users
          Tabs,        \* those who are connected with a web client
          Rooms, NoRoom,
          MembersOf,   \* MembersOf[r]: who is in the room
          Room,        \* one of the rooms: the one whose positions are kept here
          Before,      \* messages that were sent at the start
          MaxMsg,      \* bound: messages sent
          MaxReports   \* bound: reports under way at a time

ASSUME TabsAssumption == Tabs \subseteq Members
ASSUME RoomsAssumption ==
  NoRoom \notin Rooms /\ Room \in Rooms /\ MembersOf \in [Rooms -> SUBSET Members]
ASSUME BoundAssumption == MaxMsg \in Nat /\ Before \in 0..MaxMsg /\ MaxReports \in Nat \ {0}

VARIABLES
  sent,        \* sent[id]: the room of message id
  open,        \* open[u]: activeRoom of u's tab
  shown,       \* shown[u]: ids of the messages in u's window
  pos,         \* pos[u]: room_members.last_read_msg_id of u in Room
  reports,     \* reports[u]: u's reports under way
  frames,      \* frames[u]: events on their way to u's tab
  announced    \* announced[u]: position of u in Room last told to the others

receiptVars == <<sent, open, shown, pos, reports, frames, announced>>

Ids == 1..MaxMsg
Positions == 0..MaxMsg
In(r) == {id \in DOMAIN sent : sent[id] = r}

Reports == [via : {"http", "ws"}, room : Rooms, value : Ids, done : BOOLEAN]
New(id) == [type |-> "message.new", id |-> id]
Read == [type |-> "message.read", id |-> 0]    \* the client does not look at whose it is

ReceiptsInit ==
  /\ sent \in [1..Before -> Rooms]
  /\ open = [u \in Members |-> NoRoom]
  /\ shown = [u \in Members |-> {}]
  /\ pos = [u \in Members |-> 0]
  /\ reports = [u \in Members |-> {}]
  /\ frames = [u \in Members |-> {}]
  /\ announced = [u \in Members |-> 0]

-----------------------------------------------------------------------------
\* The web client.

Newest(ids) == Max(ids \union {0})

\* markReadAll: report the newest message in the window, if any.
MarkReadAll(u, r, ids) ==
  reports' = [reports EXCEPT ![u] = @ \union
    {[via |-> "http", room |-> r, value |-> id, done |-> FALSE] : id \in {Newest(ids)} \ {0}}]

MayReport == Cardinality(UNION {{u} \X reports[u] : u \in Members}) < MaxReports

\* openRoom: the window is cleared, the history loaded and then reported.
OpenRoom(u, r) ==
  /\ u \in Tabs \intersect MembersOf[r] /\ MayReport
  /\ open' = [open EXCEPT ![u] = r]
  /\ shown' = [shown EXCEPT ![u] = In(r)]
  /\ MarkReadAll(u, r, In(r))
  /\ UNCHANGED <<sent, pos, frames, announced>>

\* activeRoom = null: the user has logged out, or left the group.
CloseRoom(u) ==
  /\ open[u] # NoRoom
  /\ open' = [open EXCEPT ![u] = NoRoom]
  /\ shown' = [shown EXCEPT ![u] = {}]
  /\ UNCHANGED <<sent, pos, reports, frames, announced>>

\* onMessage: a message of another room than the open one, or one that is in
\* the window already, is ignored; else it is appended and reported.
ReceiveNew(u) ==
  \E id \in Ids :
    /\ New(id) \in frames[u] /\ MayReport
    /\ frames' = [frames EXCEPT ![u] = @ \ {New(id)}]
    /\ IF sent[id] # open[u] \/ id \in shown[u]
       THEN UNCHANGED <<shown, reports>>
       ELSE /\ shown' = [shown EXCEPT ![u] = @ \union {id}]
            /\ MarkReadAll(u, open[u], shown'[u])
    /\ UNCHANGED <<sent, open, pos, announced>>

\* Whatever room the event is about, the client answers with a report for the
\* one it has open.
ReceiveRead(u) ==
  /\ Read \in frames[u] /\ MayReport
  /\ frames' = [frames EXCEPT ![u] = @ \ {Read}]
  /\ IF open[u] # NoRoom THEN MarkReadAll(u, open[u], shown[u]) ELSE UNCHANGED reports
  /\ UNCHANGED <<sent, open, shown, pos, announced>>

\* A message is sent in a room, and pushed to whoever is connected.
NewMessage ==
  /\ Len(sent) < MaxMsg
  /\ \E r \in Rooms :
       /\ sent' = Append(sent, r)
       /\ frames' = [u \in Members |-> IF u \in Tabs \intersect MembersOf[r]
                                      THEN frames[u] \union {New(Len(sent'))} ELSE frames[u]]
  /\ UNCHANGED <<open, shown, pos, reports, announced>>

-----------------------------------------------------------------------------
\* MessageService.report_read.

MutantForward(old, new) == new       \* plain assignment
\* GREATEST(last_read_msg_id, new)
Forward(old, new) == Max({old, new})

\* assert_member, UPDATE, the unread count, the audience and commit: the
\* lock of the UPDATE makes other reports of the member wait.
Report(u) ==
  \E report \in reports[u] :
    /\ ~report.done
    /\ pos' = IF report.room = Room THEN [pos EXCEPT ![u] = Forward(@, report.value)] ELSE pos
    /\ reports' = [reports EXCEPT ![u] = (@ \ {report}) \union {[report EXCEPT !.done = TRUE]}]
    /\ UNCHANGED <<sent, open, shown, frames, announced>>

MutantOtherMembers(u, r) == MembersOf[r]     \* the reporter is told as well
OtherMembers(u, r) == MembersOf[r] \ {u}

\* The frame that follows the answer to a POST, if a room is open and the
\* WebSocket is.
Again(u, report) ==
  SUBSET {[via |-> "ws", room |-> r, value |-> report.value, done |-> FALSE] :
            r \in IF report.via = "http" THEN {open[u]} \ {NoRoom} ELSE {}}

\* emit_event, or its failure, which is only logged, and the answer.
Emit(u) ==
  \E report \in reports[u] :
    /\ report.done
    /\ \E again \in Again(u, report) : reports' = [reports EXCEPT ![u] = (@ \ {report}) \union again]
    /\ \/ /\ frames' = [v \in Members |-> IF v \in OtherMembers(u, report.room) \intersect Tabs
                                          THEN frames[v] \union {Read} ELSE frames[v]]
          /\ announced' = IF report.room = Room THEN [announced EXCEPT ![u] = report.value] ELSE announced
       \/ UNCHANGED <<frames, announced>>
    /\ UNCHANGED <<sent, open, shown, pos>>

\* The request or the database fails: the client ignores it.
ReportFails(u) ==
  \E report \in reports[u] :
    /\ ~report.done
    /\ reports' = [reports EXCEPT ![u] = @ \ {report}]
    /\ UNCHANGED <<sent, open, shown, pos, frames, announced>>

-----------------------------------------------------------------------------
Step(u) == ReceiveNew(u) \/ ReceiveRead(u) \/ Report(u) \/ Emit(u)

Open(u) == \E r \in Rooms : OpenRoom(u, r)

ReceiptsNext ==
  \/ NewMessage
  \/ \E u \in Members : Open(u) \/ CloseRoom(u) \/ Step(u) \/ ReportFails(u)

\* Tabs and the server handle what they have received.
ReceiptsSpec ==
  ReceiptsInit /\ [][ReceiptsNext]_receiptVars /\ \A u \in Members : WF_receiptVars(Step(u))

-----------------------------------------------------------------------------
\* Besides types: what the others are told about a member the database holds,
\* in whatever order his reports arrive over the two ways and are committed and
\* announced, because a position never goes back (message_service.py:146-165).
\* A window shows messages of the open room only; a position may be that of a
\* message of another room (web/index.html:413-415).
ReceiptsTypeOK ==
  /\ sent \in Seq(Rooms) /\ Len(sent) <= MaxMsg /\ open \in [Members -> Rooms \union {NoRoom}]
  /\ \A u \in Members : /\ open[u] # NoRoom => u \in Tabs
                        /\ shown[u] \subseteq IF open[u] = NoRoom THEN {} ELSE In(open[u])
  /\ pos \in [Members -> 0..Len(sent)] /\ \A u \in Members : announced[u] \in 0..pos[u]
  /\ reports \in [Members -> SUBSET Reports]
  /\ \A u \in Members : frames[u] \subseteq {New(id) : id \in DOMAIN sent} \union {Read}

\* Once no more messages are sent (at most MaxMsg are), nobody opens a room any
\* more and at most one client has one open, reports and events cease: a client
\* without a room does not answer, and nobody is told his own reports.
Quiet == \A u \in Members : reports[u] = {} /\ frames[u] = {}
InRoom == {u \in Members : open[u] # NoRoom}
ReceiptsCease ==
  <>[](Cardinality(InRoom) <= 1) /\ <>[][\A u \in Members : ~Open(u)]_receiptVars => <>[]Quiet
=============================================================================
