----------------------------- MODULE ChatWindow -----------------------------
(***************************************************************************)
(* The room of RoomTimeline in the window of one member's web client:      *)
(* openRoom, loadHistory (for the room just opened, and for older messages *)
(* on a scroll to the top), the event message.new, the answer to the       *)
(* client's own POST /messages, and markReadAll after each of them, with   *)
(* the report over the WebSocket that follows the answer to its POST.      *)
(*                                                                         *)
(* There is one window for all rooms, and what an answer brings is put     *)
(* into it whatever room it shows by then.  Here it shows this room or     *)
(* another one, of which only the messages that end up in this room's      *)
(* window matter.  A page is read when it arrives: a message committed and *)
(* announced in between is in the page too, in the code only below it.     *)
(*                                                                         *)
(* A message is announced late, repeatedly or never (OutboxDelivery and    *)
(* EventStream say why); ReadReceipts is about reports of this room that   *)
(* are delayed.                                                            *)
(***************************************************************************)
EXTENDS RoomTimeline

CONSTANTS Me,          \* the task that serves the sends of this client
          MaxLoads,    \* bound: history requests under way at a time
          MaxReads,    \* bound: reports of another room under way when it is left
          MaxAppended  \* bound: elements appended to one window

ASSUME MeAssumption == Me \in Senders
ASSUME BoundsAssumption == MaxLoads \in Nat \ {0} /\ MaxAppended \in Nat /\ MaxReads \in Nat

VARIABLES
  open,        \* activeRoom is this room
  history,     \* the elements of #msgs that loadHistory put in, from the top;
               \* each shows a message, and has its id unless it was recalled
  appended,    \* the elements below them: messages announced or sent
  cursor,      \* msgCursor; NoId when msgHasMore is false
  loading,     \* loadingMsgs
  loads,       \* requests for history under way, oldest first
  answers,     \* own messages whose POST is being answered
  reads,       \* ids that markReadAll reported of another room, not answered yet
               \* when the client left that room for this one
  start,       \* history: messages there when the room was opened, unless its
               \* history failed to load
  newest,      \* history: the newest message of the room shown so far, while ~crossed
  crossed      \* history: a room was opened while an answer was under way

client == <<open, history, appended, cursor, loading, loads, answers, reads, start, newest, crossed>>
vars == <<timeline, client>>

Element(id, tagged) == [id |-> id, tagged |-> tagged]
Window == history \o appended
ShownIn(w) == {x.id : x \in Range(w)}
TaggedIn(w) == {x.id : x \in {y \in Range(w) : y.tagged}}

UnderWay == loads # <<>> \/ answers # {} \/ send[Me].pc # "idle"

ChatInit ==
  /\ Init
  /\ open = FALSE /\ history = <<>> /\ appended = <<>> /\ cursor = NoId /\ loading = FALSE
  /\ loads = <<>> /\ answers = {} /\ reads = {} /\ start = {} /\ newest = 0 /\ crossed = FALSE

-----------------------------------------------------------------------------
\* The database, and what it means for the client.

\* The client sends into the room it shows.
Write(t) ==
  /\ \/ (t = Me => open) /\ Insert(t)
     \/ Touch(t) \/ Rollback(t) \/ Recall(t)
  /\ UNCHANGED client

Appear(t) ==
  /\ Commit(t)
  /\ answers' = IF t = Me THEN answers \union {send[t].id} ELSE answers
  /\ UNCHANGED <<open, history, appended, cursor, loading, loads, reads, start, newest, crossed>>

\* In another room; the client's own if it shows that room.
WriteElsewhere ==
  /\ InsertElsewhere
  /\ answers' \in {answers} \union (IF open THEN {} ELSE {answers \union {nextId}})
  /\ UNCHANGED <<open, history, appended, cursor, loading, loads, reads, start, newest, crossed>>

-----------------------------------------------------------------------------
\* openRoom and loadHistory

Ask(room, scroll, from) ==
  /\ Len(loads) < MaxLoads
  /\ loads' = Append(loads, [room |-> room, scroll |-> scroll, cursor |-> from])

\* Reports of another room that may be under way; while it is shown, an answer
\* to one of them changes nothing here.  Bound: none once rooms were crossed,
\* when nothing is claimed of the position any more.
ReadElsewhere == {S \in SUBSET elsewhere : Cardinality(S) <= MaxReads /\ (crossed => S = {})}

\* openRoom, for this room or another, also for the one that is open.
OpenRoom(room) ==
  /\ Ask(room, FALSE, NoId)
  /\ reads' \in IF ~room THEN {{}} ELSE IF open THEN {reads} ELSE ReadElsewhere
  /\ open' = room /\ history' = <<>> /\ appended' = <<>>
  /\ cursor' = NoId /\ loading' = FALSE
  /\ crossed' = (crossed \/ UnderWay)
  /\ start' = IF room /\ ~crossed' THEN there ELSE {}
  /\ newest' = IF crossed' THEN 0 ELSE newest
  /\ UNCHANGED <<timeline, answers>>

\* A scroll to the top of the window, while no other one is served.
Scroll ==
  /\ cursor # NoId /\ ~loading
  /\ loading' = TRUE
  /\ Ask(open, TRUE, cursor)
  /\ UNCHANGED <<timeline, open, history, appended, cursor, answers, reads, start, newest, crossed>>

MutantNewestIn(w) ==           \* the first one not shown
  IF TaggedIn(w) = {} THEN 0 ELSE Min({Max(TaggedIn(w)) + 1, MaxId})
NewestIn(w) == Max(TaggedIn(w) \union {0})

\* markReadAll reports the newest message that carries its id; a report that
\* fails is ignored.
MarkReadAll(w) == readPos' \in {readPos, Forward(readPos, NewestIn(w))}

Shows(w) == newest' = IF crossed THEN 0 ELSE Max({newest} \union (ShownIn(w) \intersect there))

\* MessageService.list_messages and its answer; openRoom goes on with
\* markReadAll.  When another room is open the page is put in its window.
HistoryArrives(i) ==
  LET load == loads[i]
      page == Page(IF load.room THEN there ELSE elsewhere, load.cursor)
      rows == [k \in DOMAIN page.items |-> Element(page.items[k], page.items[k] \notin recalled)]
  IN
  /\ loads' = RemoveAt(loads, i)
  /\ cursor' = page.next
  /\ loading' = (loading /\ ~load.scroll)
  /\ IF open
     THEN /\ history' = rows \o history
          /\ Shows(history')
          /\ IF load.scroll THEN UNCHANGED readPos ELSE MarkReadAll(history' \o appended)
     ELSE UNCHANGED <<history, newest, readPos>>
  /\ UNCHANGED <<messages, card, overlapped, open, appended, answers, reads, start, crossed>>

\* The request fails: openRoom and the scroll end there, loadingMsgs stays.
HistoryFails(i) ==
  /\ loads' = RemoveAt(loads, i)
  /\ start' = IF loads[i].scroll THEN start ELSE {}
  /\ UNCHANGED <<timeline, open, history, appended, cursor, loading, answers, reads, newest, crossed>>

-----------------------------------------------------------------------------
\* onMessage and send

Show(id, tagged) ==
  /\ Len(appended) < MaxAppended
  /\ appended' = Append(appended, Element(id, tagged))
  /\ Shows(appended')
  /\ MarkReadAll(history \o appended')

\* onMessage: an element with the id of the message is already there.
Known(id) == id \in TaggedIn(Window)

\* message.new; a recalled message may be announced as it was or as it is.
MessageNew(id) ==
  /\ open /\ id \in there /\ ~Known(id)
  /\ \E tagged \in {TRUE, id \notin recalled} : Show(id, tagged)
  /\ UNCHANGED <<messages, card, overlapped, open, history, cursor, loading, loads, answers, reads, start, crossed>>

\* message.read of somebody else: markReadAll once more.
MessageRead ==
  /\ open /\ MarkReadAll(Window) /\ readPos' # readPos
  /\ UNCHANGED <<messages, card, overlapped, client>>

\* The POST is answered, with success or not; nobody looks for the message in
\* the window.
Answered(id) ==
  /\ id \in answers
  /\ answers' = answers \ {id}
  /\ \/ open /\ Show(id, TRUE)
     \/ UNCHANGED <<appended, newest, readPos>>
  /\ UNCHANGED <<messages, card, overlapped, open, history, cursor, loading, loads, reads, start, crossed>>

-----------------------------------------------------------------------------
\* The report over the WebSocket that follows an answer names the room that is
\* open by then, with the id of the one that was.  (Of this room's own reports
\* it repeats what the POST said, or tells the other room.)
ReportAnswered(id) ==
  /\ id \in reads
  /\ reads' = reads \ {id}
  /\ readPos' \in {readPos, Forward(readPos, id)}
  /\ UNCHANGED <<messages, card, overlapped, open, history, appended, cursor, loading, loads, answers,
                 start, newest, crossed>>

-----------------------------------------------------------------------------
Client ==
  \/ \E room \in BOOLEAN : OpenRoom(room)
  \/ Scroll
  \/ \E i \in DOMAIN loads : HistoryArrives(i) \/ HistoryFails(i)
  \/ \E id \in Ids : MessageNew(id) \/ Answered(id) \/ ReportAnswered(id)
  \/ MessageRead

ChatNext ==
  \/ \E t \in Senders : Write(t) \/ Appear(t)
  \/ WriteElsewhere
  \/ ListMyRooms /\ UNCHANGED client
  \/ Client

ChatSpec == ChatInit /\ [][ChatNext]_vars

-----------------------------------------------------------------------------
Elements == [id : Ids, tagged : BOOLEAN]

\* Besides types: only a recalled message has no id, and another room's window
\* is none of this module's.
ChatTypeOK ==
  /\ TypeOK
  /\ open \in BOOLEAN /\ loading \in BOOLEAN /\ crossed \in BOOLEAN
  /\ Range(Window) \subseteq Elements /\ Len(appended) <= MaxAppended
  /\ \A x \in Range(Window) : x.tagged \/ x.id \in recalled
  /\ ~open => Window = <<>> /\ reads = {}
  /\ cursor \in Ids \union {NoId} /\ newest \in there \union {0}
  /\ Len(loads) <= MaxLoads
  /\ Range(loads) \subseteq [room : BOOLEAN, scroll : BOOLEAN, cursor : Ids \union {NoId}]
  /\ answers \union start \union reads \subseteq there \union elsewhere

\* What a member sees of a room he has scrolled to its beginning is what was
\* there when he opened it, whatever is sent, rolled back, recalled or
\* announced meanwhile: no page leaves a message out or repeats one
\* (message_repo.py:60-73, web/index.html:331-345), and no other room's
\* messages get into his window.  This is so as long as he opened no room while
\* another's history or the answer to a message of his was under way.
WindowComplete ==
  ~crossed /\ open =>
    /\ ShownIn(Window) \subseteq there
    /\ \A i, j \in DOMAIN history : i # j => history[i].id # history[j].id
    /\ cursor = NoId /\ ~loading /\ loads = <<>> => start \subseteq ShownIn(history)

\* A read position is never ahead of what the member was shown, so what came
\* later counts as unread, as long as he opened no room while an answer was
\* under way (web/index.html:407-417).  The exception is the id of a message of
\* another room: its report, answered after he has opened this one, moves this
\* one's position (web/index.html:413-415).
ReadWasShown == ~crossed => readPos <= newest \/ readPos \in elsewhere
=============================================================================
