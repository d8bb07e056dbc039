----------------------------- MODULE Friendship -----------------------------
(***************************************************************************)
(* Friend requests, friendships, blocks and the single chat room of two    *)
(* users A and B: FriendService and RoomService.get_or_create_single over  *)
(* PostgreSQL at READ COMMITTED.  A task serves one HTTP request at a      *)
(* time; every statement is a step, sees what is committed when it runs,   *)
(* and waits for the row locks and uncommitted unique keys of others.      *)
(*                                                                         *)
(* Users always exist and nobody names himself (the checks for these       *)
(* return before any statement).  Only the rooms both users are still      *)
(* members of count, so leaving a single room decrements `rooms`.          *)
(***************************************************************************)
EXTENDS Naturals, Sequences, FiniteSets

CONSTANTS A, B,          \* the two users
          Tasks,         \* requests served concurrently
          MaxRequests    \* bound: friend requests ever created

ASSUME UsersAssumption == A # B
ASSUME MaxAssumption == MaxRequests \in Nat
ASSUME FiniteAssumption == IsFiniteSet(Tasks)

Users == {A, B}
Other(u) == IF u = A THEN B ELSE A
Both == {<<A, B>>, <<B, A>>}

VARIABLES
  friends,   \* committed rows of friendships: <<user_id, friend_id>>
  blocks,    \* rows of blocks: <<user_id, blocked_id>>
  requests,  \* rows of friend_requests, by id; history: was one made past a block
  rooms,     \* number of single rooms of A and B
  task,      \* task[t]: where the request stands, for whom, about which id
  adds,      \* adds[t]: friendships t inserted and has not committed
  dels,      \* dels[t]: friendships t deleted and has not committed
  overlapped \* history: two requests were served at the same time

vars == <<friends, blocks, requests, rooms, task, adds, dels, overlapped>>
tables == <<friends, blocks, requests, rooms>>

RequestStatus == {"pending", "accepted", "rejected"}

\* A task that waits for its next request.  It answered the last one with
\* USER_BLOCKED (refused), an unhandled exception (crashed) or else (idle).
Resting == {"idle", "refused", "crashed"}

At(t, s) == task[t].pc = s
Goto(t, s) == task' = [task EXCEPT ![t].pc = s]
\* The answer is sent: what the transaction has not committed is rolled back.
Finish(t, s) ==
  /\ task' = [task EXCEPT ![t] = [pc |-> s, user |-> A, req |-> 0, new |-> FALSE]]
  /\ adds' = [adds EXCEPT ![t] = {}]
  /\ dels' = [dels EXCEPT ![t] = {}]

Init ==
  /\ friends = {} /\ blocks = {} /\ requests = <<>> /\ rooms = 0
  /\ task = [t \in Tasks |-> [pc |-> "idle", user |-> A, req |-> 0, new |-> FALSE]]
  /\ adds = [t \in Tasks |-> {}]
  /\ dels = [t \in Tasks |-> {}]
  /\ overlapped = FALSE

Applying == {t \in Tasks : task[t].pc \in {"friend?", "blocked?", "pending?", "insert"}}

\* A request arrives: an operation by a user, about a friend request if any.
Begin(t) ==
  /\ task[t].pc \in Resting
  /\ \E u \in Users :
       \/ /\ Len(requests) + Cardinality(Applying) < MaxRequests
          /\ task' = [task EXCEPT ![t] = [pc |-> "friend?", user |-> u, req |-> 0, new |-> FALSE]]
       \/ \E s \in {"delete?", "block?", "unblock", "room?"} :
            task' = [task EXCEPT ![t] = [pc |-> s, user |-> u, req |-> 0, new |-> FALSE]]
       \/ \E s \in {"accept?", "reject?"}, r \in DOMAIN requests :
            task' = [task EXCEPT ![t] = [pc |-> s, user |-> u, req |-> r, new |-> FALSE]]
  /\ overlapped' = (overlapped \/ \E s \in Tasks \ {t} : task[s].pc \notin Resting)
  /\ UNCHANGED <<tables, adds, dels>>

-----------------------------------------------------------------------------
\* FriendService.apply

ApplyIsFriend(t) ==
  /\ At(t, "friend?")
  /\ IF <<task[t].user, Other(task[t].user)>> \in friends
     THEN Finish(t, "idle")
     ELSE Goto(t, "blocked?") /\ UNCHANGED <<adds, dels>>
  /\ UNCHANGED tables

\* is_blocked_any: scalar_one_or_none raises when both rows exist.
ApplyIsBlocked(t) ==
  /\ At(t, "blocked?")
  /\ CASE Cardinality(blocks) = 0 -> Goto(t, "pending?") /\ UNCHANGED <<adds, dels>>
       [] Cardinality(blocks) = 1 -> Finish(t, "refused")
       [] OTHER -> Finish(t, "crashed")
  /\ UNCHANGED tables

\* pending_between, in either direction.
PendingBetween(u) == \E r \in DOMAIN requests : requests[r].status = "pending"

ApplyIsPending(t) ==
  /\ At(t, "pending?")
  /\ IF PendingBetween(task[t].user)
     THEN Finish(t, "idle")
     ELSE Goto(t, "insert") /\ UNCHANGED <<adds, dels>>
  /\ UNCHANGED tables

\* create_request and commit; the event after it may fail, the row stays.
ApplyInsert(t) ==
  /\ At(t, "insert")
  /\ requests' = Append(requests, [from |-> task[t].user, status |-> "pending", pastBlock |-> blocks # {}])
  /\ \E s \in {"idle", "crashed"} : Finish(t, s)
  /\ UNCHANGED <<friends, blocks, rooms>>

-----------------------------------------------------------------------------
\* FriendService.handle_request

ToUid(r) == Other(requests[r].from)

\* get_request, then the two checks; no lock is taken.
MayHandle(t) == /\ requests[task[t].req].status = "pending"
                /\ ToUid(task[t].req) = task[t].user

HandleGet(t) ==
  /\ task[t].pc \in {"accept?", "reject?"}
  /\ IF MayHandle(t)
     THEN /\ Goto(t, IF At(t, "accept?") THEN "accept" ELSE "reject")
          /\ UNCHANGED <<adds, dels>>
     ELSE Finish(t, "idle")
  /\ UNCHANGED tables

Locked(t, row) == \E s \in Tasks \ {t} : row \in dels[s]
Inserting(t, row) == \E s \in Tasks \ {t} : row \in adds[s]
\* An accept has updated the row of the request, and has not committed.
Updated(s) == task[s].pc \in {"addFirst", "addSecond", "findRoom", "commit"}
RequestLocked(t) == \E s \in Tasks \ {t} : Updated(s) /\ task[s].req = task[t].req

\* The flush of accept writes the UPDATE of the request first.
AcceptUpdate(t) ==
  /\ At(t, "accept") /\ ~RequestLocked(t)
  /\ Goto(t, "addFirst")
  /\ UNCHANGED <<tables, adds, dels>>

\* Then create_both(from, to) inserts two rows, one after the other; each waits
\* for whoever is inserting or deleting the same.
AddRow(t, row) ==
  /\ row \notin friends /\ ~Inserting(t, row)
  /\ adds' = [adds EXCEPT ![t] = @ \union {row}]
  /\ UNCHANGED <<tables, dels>>

First(t) == <<requests[task[t].req].from, ToUid(task[t].req)>>

MutantAddFirst(t) ==          \* the two rows in any order
  /\ At(t, "addFirst") /\ Goto(t, "addSecond")
  /\ \E row \in Both : AddRow(t, row)
AddFirst(t) ==
  /\ At(t, "addFirst") /\ Goto(t, "addSecond")
  /\ AddRow(t, First(t))

AddSecond(t) ==
  /\ At(t, "addSecond") /\ Goto(t, "findRoom")
  /\ \E row \in Both \ adds[t] : AddRow(t, row)

\* The rows that the task's next statement inserts or deletes.
Wanted(t) ==
  LET own == <<task[t].user, Other(task[t].user)>> IN
  CASE At(t, "addFirst") -> {First(t)}
    [] At(t, "addSecond") -> Both \ adds[t]
    [] At(t, "deleteOwn") -> {own}
    [] At(t, "deleteOther") -> Both \ {own}
    [] OTHER -> {}

\* uq_friendship: the row exists and nobody is deleting it.
AcceptConflict(t) ==
  /\ task[t].pc \in {"addFirst", "addSecond"}
  /\ \E row \in Wanted(t) \intersect friends : ~Locked(t, row)
  /\ Finish(t, "crashed")
  /\ UNCHANGED tables

AcceptFindRoom(t) ==
  /\ At(t, "findRoom")
  /\ task' = [task EXCEPT ![t].pc = "commit", ![t].new = (rooms = 0)]
  /\ UNCHANGED <<tables, adds, dels>>

\* Create the room if none was found and commit; the event may fail after it.
AcceptCommit(t) ==
  /\ At(t, "commit")
  /\ friends' = friends \union adds[t]
  /\ requests' = [requests EXCEPT ![task[t].req].status = "accepted"]
  /\ rooms' = IF task[t].new THEN rooms + 1 ELSE rooms
  /\ \E s \in {"idle", "crashed"} : Finish(t, s)
  /\ UNCHANGED blocks

\* The UPDATE names the row by its id only.
Reject(t) ==
  /\ At(t, "reject") /\ ~RequestLocked(t)
  /\ requests' = [requests EXCEPT ![task[t].req].status = "rejected"]
  /\ Finish(t, "idle")
  /\ UNCHANGED <<friends, blocks, rooms>>

-----------------------------------------------------------------------------
\* FriendService.delete_friend

DeleteIsFriend(t) ==
  /\ At(t, "delete?")
  /\ IF <<task[t].user, Other(task[t].user)>> \in friends
     THEN Goto(t, "deleteOwn") /\ UNCHANGED <<adds, dels>>
     ELSE Finish(t, "idle")
  /\ UNCHANGED tables

\* First DELETE of delete_both: the user's own row.
DeleteOwn(t) ==
  LET row == <<task[t].user, Other(task[t].user)>> IN
  /\ At(t, "deleteOwn") /\ ~Locked(t, row)
  /\ dels' = [dels EXCEPT ![t] = {row} \intersect friends]
  /\ Goto(t, "deleteOther")
  /\ UNCHANGED <<tables, adds>>

MutantDeleteOther(t) ==       \* the second DELETE names the first row again
  /\ At(t, "deleteOther")
  /\ friends' = friends \ dels[t]
  /\ Finish(t, "idle")
  /\ UNCHANGED <<blocks, requests, rooms>>

\* Second DELETE, of the friend's row, and commit.
DeleteOther(t) ==
  LET row == <<Other(task[t].user), task[t].user>> IN
  /\ At(t, "deleteOther") /\ ~Locked(t, row)
  /\ friends' = friends \ (dels[t] \union {row})
  /\ Finish(t, "idle")
  /\ UNCHANGED <<blocks, requests, rooms>>

-----------------------------------------------------------------------------
\* Who waits for whose transaction: to update a request that it has updated, to
\* insert or delete a row that it has deleted, to insert one it has inserted.
WaitsFor(t, s) ==
  /\ s # t
  /\ \/ task[t].pc \in {"accept", "reject"} /\ Updated(s) /\ task[s].req = task[t].req
     \/ Wanted(t) \intersect dels[s] # {}
     \/ task[t].pc \in {"addFirst", "addSecond"} /\ Wanted(t) \intersect adds[s] # {}

\* PostgreSQL aborts one of two transactions that wait for each other.
DeadlockAbort(t) ==
  /\ \E s \in Tasks : WaitsFor(t, s) /\ WaitsFor(s, t)
  /\ Finish(t, "crashed")
  /\ UNCHANGED tables

-----------------------------------------------------------------------------
\* FriendService.block and unblock

BlockCheck(t) ==
  /\ At(t, "block?")
  /\ IF <<task[t].user, Other(task[t].user)>> \in blocks
     THEN Finish(t, "idle")
     ELSE Goto(t, "block") /\ UNCHANGED <<adds, dels>>
  /\ UNCHANGED tables

\* uq_block refuses the row when another request inserted it meanwhile.
BlockInsert(t) ==
  LET row == <<task[t].user, Other(task[t].user)>> IN
  /\ At(t, "block")
  /\ blocks' = blocks \union {row}
  /\ Finish(t, IF row \in blocks THEN "crashed" ELSE "idle")
  /\ UNCHANGED <<friends, requests, rooms>>

Unblock(t) ==
  /\ At(t, "unblock")
  /\ blocks' = blocks \ {<<task[t].user, Other(task[t].user)>>}
  /\ Finish(t, "idle")
  /\ UNCHANGED <<friends, requests, rooms>>

-----------------------------------------------------------------------------
\* RoomService.get_or_create_single; GroupService.leave_or_kick on such a
\* room, which has no owner and so may be left by anyone.

MutantFindRoom(t) ==          \* find_single not asked
  /\ At(t, "room?") /\ Goto(t, "createRoom")
  /\ UNCHANGED <<tables, adds, dels>>
FindRoom(t) ==
  /\ At(t, "room?")
  /\ IF rooms > 0
     THEN Finish(t, "idle")
     ELSE Goto(t, "createRoom") /\ UNCHANGED <<adds, dels>>
  /\ UNCHANGED tables

CreateRoom(t) ==
  /\ At(t, "createRoom")
  /\ rooms' = rooms + 1
  /\ Finish(t, "idle")
  /\ UNCHANGED <<friends, blocks, requests>>

LeaveRoom ==
  /\ rooms > 0
  /\ rooms' = rooms - 1
  /\ UNCHANGED <<friends, blocks, requests, task, adds, dels>>

\* The database refuses a statement or the process dies: rolled back.
Fails(t) ==
  /\ task[t].pc \notin Resting
  /\ Finish(t, "idle")
  /\ UNCHANGED tables

-----------------------------------------------------------------------------
Apply(t) == ApplyIsFriend(t) \/ ApplyIsBlocked(t) \/ ApplyIsPending(t) \/ ApplyInsert(t)
HandleRequest(t) == \/ HandleGet(t) \/ AcceptUpdate(t) \/ AddFirst(t) \/ AddSecond(t)
                    \/ AcceptConflict(t) \/ AcceptFindRoom(t) \/ AcceptCommit(t) \/ Reject(t)
DeleteFriend(t) == DeleteIsFriend(t) \/ DeleteOwn(t) \/ DeleteOther(t)
BlockOrNot(t) == BlockCheck(t) \/ BlockInsert(t) \/ Unblock(t)
GetOrCreateSingle(t) == FindRoom(t) \/ CreateRoom(t)

Step(t) == \/ Apply(t) \/ HandleRequest(t) \/ DeleteFriend(t) \/ BlockOrNot(t) \/ GetOrCreateSingle(t)
           \/ DeadlockAbort(t)

Next ==
  \/ \E t \in Tasks : Begin(t)
  \/ /\ \/ \E t \in Tasks : Step(t) \/ Fails(t)
        \/ LeaveRoom
     /\ UNCHANGED overlapped

Spec == Init /\ [][Next]_vars

-----------------------------------------------------------------------------
PCs == Resting \union
  {"friend?", "blocked?", "pending?", "insert", "accept?", "reject?", "accept", "addFirst",
   "addSecond", "findRoom", "commit", "reject", "delete?", "deleteOwn", "deleteOther", "block?", "block", "unblock",
   "room?", "createRoom"}

\* Besides types: as many single rooms as there are concurrent tasks at most,
\* and a task holds locks only inside its transaction.
TypeOK ==
  /\ friends \subseteq Both /\ blocks \subseteq Both
  /\ \A r \in DOMAIN requests : requests[r] \in [from : Users, status : RequestStatus, pastBlock : BOOLEAN]
  /\ Len(requests) <= MaxRequests
  /\ rooms \in 0..Cardinality(Tasks)
  /\ overlapped \in BOOLEAN
  /\ task \in [Tasks -> [pc : PCs, user : Users, req : 0..MaxRequests, new : BOOLEAN]]
  /\ \A t \in Tasks : /\ adds[t] \subseteq Both /\ dels[t] \subseteq Both
                      /\ task[t].pc \in Resting => adds[t] = {} /\ dels[t] = {}

\* A friendship is two rows (friend_repo.py:23,30), both there or neither.
SymmetricFriendship == friends \in {{}, Both}

\* Two users are friends only because a request between them was accepted.
FriendsWereAccepted ==
  friends # {} => \E r \in DOMAIN requests : requests[r].status = "accepted"

\* At most one request waits to be handled, whoever of the two applied.
SinglePending ==
  \A r, q \in DOMAIN requests :
    requests[r].status = "pending" /\ requests[q].status = "pending" => r = q

\* Opening a room and accepting a request share one single room.
OneSingleRoom == rooms <= 1

\* Nobody applies while either has blocked the other, also when both have and
\* the query of is_blocked_any has more rows than it can return.
BlockRespected == \A r \in DOMAIN requests : ~requests[r].pastBlock

\* While requests are served one by one the four tables stay consistent,
\* whichever of them are repeated, refused or fail between two statements, and
\* whatever was answered, deleted or blocked before: nothing but the checks of
\* FriendService and RoomService holds this, no constraint does.
ConsistentOneByOne ==
  ~overlapped =>
    /\ SymmetricFriendship /\ FriendsWereAccepted /\ SinglePending
    /\ OneSingleRoom /\ BlockRespected

\* Only a user who deletes the friendship while the other does, or accepts the
\* other's request while the other accepts his, can be answered with a deadlock:
\* each has written its first row and wants the second (friend_repo.py:24-36).
\* Otherwise requests do not wait for each other in a circle, however many are
\* served: one of them can go on.
Opposites(s, t) ==
  /\ task[s].user # task[t].user
  /\ task[s].pc = task[t].pc /\ task[s].pc \in {"addSecond", "deleteOther"}
OnlyOppositesDeadlock ==
  /\ \A s, t \in Tasks : WaitsFor(s, t) /\ WaitsFor(t, s) => Opposites(s, t)
  /\ (\E t \in Tasks : task[t].pc \notin Resting) =>
       \/ \E t \in Tasks : task[t].pc \notin Resting /\ \A s \in Tasks : ~WaitsFor(t, s)
       \/ \E s, t \in Tasks : WaitsFor(s, t) /\ WaitsFor(t, s)
=============================================================================
