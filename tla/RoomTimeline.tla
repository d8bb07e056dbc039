---------------------------- MODULE RoomTimeline ----------------------------
(***************************************************************************)
(* The messages of one room in the database while several requests write:  *)
(* the transaction of MessageService.send (INSERT of the message, UPDATE   *)
(* of rooms.last_msg_id, commit), recall, and what one member is answered: *)
(* pages of history (list_by_cursor), the read position and the card of    *)
(* the room in his list (list_my_rooms, one statement after the other).    *)
(*                                                                         *)
(* An id is drawn at the INSERT and the message seen at the commit, so the *)
(* order of ids is not the order of commits, and a rollback leaves a gap.  *)
(* The sequence of ids serves all rooms.  The UPDATE of the room's row     *)
(* holds its lock until the transaction ends.                              *)
(***************************************************************************)
EXTENDS Integers, Sequences, FiniteSets, FiniteSetsExt, SequencesExt

CONSTANTS Senders,     \* tasks that serve send or recall
          Initial,     \* messages that are in the room at the start, all unread
          MaxId,       \* bound: ids drawn from the sequence
          MaxRecalls,  \* bound: messages recalled
          PageSize     \* messages of a page (limit)

ASSUME SizesAssumption == MaxId \in Nat /\ Initial \in 0..MaxId /\ PageSize \in Nat \ {0}
ASSUME RecallsAssumption == MaxRecalls \in Nat

Ids == 1..MaxId
NoId == 0              \* NULL

VARIABLES
  nextId,     \* the next value of the sequence of messages.id
  there,      \* ids of the committed messages of the room
  elsewhere,  \* ids of the messages of another room
  recalled,   \* those of the room that are of type RECALL
  lastMsg,    \* rooms.last_msg_id, as committed
  send,       \* send[t]: the request's step and the id it is about
  readPos,    \* room_members.last_read_msg_id of the member
  card,       \* his request for the list of rooms: its step, what it has read
              \* and how much was unread when it began; the last answer's count
  overlapped  \* history: two messages were being sent at the same time

messages == <<nextId, there, elsewhere, recalled, lastMsg, send>>
timeline == <<messages, readPos, card, overlapped>>

Idle == [pc |-> "idle", id |-> NoId]
NoCard == [pc |-> "idle", last |-> NoId, read |-> 0, least |-> 0, found |-> FALSE, unread |-> 0]

Init ==
  /\ nextId = Initial + 1 /\ there = 1..Initial /\ elsewhere = {} /\ recalled = {}
  /\ lastMsg = Initial
  /\ send = [t \in Senders |-> Idle]
  /\ readPos = 0 /\ card = NoCard /\ overlapped = FALSE

-----------------------------------------------------------------------------
\* MessageService.send

Insert(t) ==
  /\ send[t].pc = "idle" /\ nextId \in Ids
  /\ send' = [send EXCEPT ![t] = [pc |-> "touch", id |-> nextId]]
  /\ nextId' = nextId + 1
  /\ overlapped' = (overlapped \/ \E s \in Senders : send[s].pc \in {"touch", "commit"})
  /\ UNCHANGED <<there, elsewhere, recalled, lastMsg, readPos, card>>

\* A message of another room.
InsertElsewhere ==
  /\ nextId \in Ids
  /\ nextId' = nextId + 1
  /\ elsewhere' = elsewhere \union {nextId}
  /\ UNCHANGED <<there, recalled, lastMsg, send, readPos, card, overlapped>>

RoomLocked == \E s \in Senders : send[s].pc = "commit"

\* touch_last_msg: locks the room's row, and waits for who holds it.
Touch(t) ==
  /\ send[t].pc = "touch" /\ ~RoomLocked
  /\ send' = [send EXCEPT ![t].pc = "commit"]
  /\ UNCHANGED <<nextId, there, elsewhere, recalled, lastMsg, readPos, card, overlapped>>

MutantCommit(t) ==           \* last_msg_id not in the transaction
  /\ send[t].pc = "commit"
  /\ there' = there \union {send[t].id}
  /\ send' = [send EXCEPT ![t] = Idle]
  /\ UNCHANGED <<nextId, elsewhere, recalled, lastMsg, readPos, card, overlapped>>
Commit(t) ==
  /\ send[t].pc = "commit"
  /\ there' = there \union {send[t].id}
  /\ lastMsg' = send[t].id
  /\ send' = [send EXCEPT ![t] = Idle]
  /\ UNCHANGED <<nextId, elsewhere, recalled, readPos, card, overlapped>>

MutantRollback(t) ==         \* the sequence is rolled back too
  /\ send[t].pc # "idle"
  /\ send' = [send EXCEPT ![t] = Idle]
  /\ nextId' = IF send[t].pc = "recall" THEN nextId ELSE send[t].id
  /\ UNCHANGED <<there, elsewhere, recalled, lastMsg, readPos, card, overlapped>>
\* A statement fails or the process dies.
Rollback(t) ==
  /\ send[t].pc # "idle"
  /\ send' = [send EXCEPT ![t] = Idle]
  /\ UNCHANGED <<nextId, there, elsewhere, recalled, lastMsg, readPos, card, overlapped>>

-----------------------------------------------------------------------------
\* MessageService.recall

\* The message is read, and is recent enough: any message may or may not be.
RecallCheck(t) ==
  /\ send[t].pc = "idle" /\ Cardinality(recalled) < MaxRecalls
  /\ \E id \in there : send' = [send EXCEPT ![t] = [pc |-> "recall", id |-> id]]
  /\ UNCHANGED <<nextId, there, elsewhere, recalled, lastMsg, readPos, card, overlapped>>

\* The type becomes RECALL, the status stays NORMAL; commit.
RecallCommit(t) ==
  /\ send[t].pc = "recall"
  /\ recalled' = recalled \union {send[t].id}
  /\ send' = [send EXCEPT ![t] = Idle]
  /\ UNCHANGED <<nextId, there, elsewhere, lastMsg, readPos, card, overlapped>>

-----------------------------------------------------------------------------
\* MessageRepo.list_by_cursor

MutantBefore(S, cursor) ==   \* the cursor itself again
  IF cursor = NoId THEN S ELSE {id \in S : id <= cursor}
Before(S, cursor) == IF cursor = NoId THEN S ELSE {id \in S : id < cursor}

\* ORDER BY id DESC
Descending(S) ==
  CHOOSE s \in [1..Cardinality(S) -> S] : \A i, j \in DOMAIN s : i < j => s[i] > s[j]

FirstRows(s, n) == SubSeq(s, 1, IF Len(s) < n THEN Len(s) ELSE n)

\* The page of the messages S (of status NORMAL: recalled ones are among them)
\* below the cursor; one row more than the page tells whether there are more.
Page(S, cursor) ==
  LET rows == FirstRows(Descending(Before(S, cursor)), PageSize + 1)
      items == FirstRows(rows, PageSize)
      hasMore == Len(rows) > PageSize
  IN  [items |-> items, more |-> hasMore, next |-> IF hasMore THEN Last(items) ELSE NoId]

\* RoomRepo.update_last_read: GREATEST(last_read_msg_id, new)
Forward(old, new) == Max({old, new})

-----------------------------------------------------------------------------
\* RoomService.list_my_rooms, as far as it is about this room

\* MessageRepo.count_after: the messages above a read position.
MutantUnread(pos) == {id \in there \ recalled : id > pos}     \* recalled ones left out
Unread(pos) == {id \in there : id > pos}

\* list_for_user: the room's row with the member's position.
ListForUser ==
  /\ card.pc = "idle"
  /\ card' = [pc |-> "last", last |-> lastMsg, read |-> readPos,
              least |-> Cardinality(Unread(readPos)), found |-> FALSE, unread |-> 0]
  /\ UNCHANGED <<messages, readPos, overlapped>>

\* get_by_ids: the card shows the message that last_msg_id named, if found.
GetLast ==
  /\ card.pc = "last"
  /\ card' = [card EXCEPT !.pc = "count", !.found = card.last \in there]
  /\ UNCHANGED <<messages, readPos, overlapped>>

CountAfter ==
  /\ card.pc = "count"
  /\ card' = [NoCard EXCEPT !.unread = IF card.last # NoId THEN Cardinality(Unread(card.read)) ELSE 0]
  /\ UNCHANGED <<messages, readPos, overlapped>>

ListMyRooms == ListForUser \/ GetLast \/ CountAfter

-----------------------------------------------------------------------------
Recall(t) == RecallCheck(t) \/ RecallCommit(t)

TypeOK ==
  /\ nextId \in 1..(MaxId + 1)
  /\ there \union elsewhere \subseteq 1..(nextId - 1) /\ there \intersect elsewhere = {}
  /\ recalled \subseteq there /\ overlapped \in BOOLEAN
  /\ lastMsg \in Ids \union {NoId} /\ readPos \in Ids \union {0}
  /\ send \in [Senders -> [pc : {"idle", "touch", "commit", "recall"}, id : Ids \union {NoId}]]
  /\ \A t \in Senders : send[t].pc \in {"touch", "commit"} => send[t].id \notin there \union elsewhere
  /\ card \in [pc : {"idle", "last", "count"}, last : Ids \union {NoId},
               read : Ids \union {0}, least : 0..MaxId, found : BOOLEAN, unread : 0..MaxId]

\* rooms.last_msg_id never refers to a message that is not there, although it
\* has no foreign key: a rollback takes both back (message_service.py:61-65).
\* It is the last message of the room (docs/05:43) as long as no two messages
\* were sent at the same time.
LastMsgIsNewest ==
  /\ lastMsg # NoId => lastMsg \in there
  /\ ~overlapped => \A id \in there : id <= lastMsg

\* The list of rooms is put together from several statements, between which
\* messages are sent and recalled.  A card never hides anything: it counts all
\* that was unread when the request came in and nothing that is not there, it
\* has the last message at hand, and never shows it as new without counting it
\* (room_service.py:50-60).
CardAddsUp ==
  [][card.pc = "count" /\ card'.pc = "idle" =>
       /\ card'.unread \in card.least..Cardinality(Unread(card.read))
       /\ card.last # NoId => card.found /\ (card.last > card.read => card'.unread > 0)]_card
=============================================================================
