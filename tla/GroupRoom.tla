----------------------------- MODULE GroupRoom ------------------------------
(***************************************************************************)
(* The members of one group room: GroupService.create_group, add_members   *)
(* and leave_or_kick over PostgreSQL at READ COMMITTED.  Every statement   *)
(* is a step; what a transaction inserted or deleted is seen by others     *)
(* when it commits, and until then makes them wait where they touch the    *)
(* same row of room_members.                                               *)
(*                                                                         *)
(* Users are their numeric ids and all exist.  The owner of a room never   *)
(* changes, so what depends on owner_id only is decided when the request   *)
(* arrives.                                                                *)
(***************************************************************************)
EXTENDS Naturals, FiniteSets, FiniteSetsExt

CONSTANTS Users, Owner,
          Limit,         \* rooms.member_limit
          Adders, Removers   \* requests served concurrently

ASSUME UsersAssumption == Users \subseteq Nat /\ IsFiniteSet(Users)
ASSUME OwnerAssumption == Owner \in Users
ASSUME LimitAssumption == Limit \in Nat \ {0}
ASSUME TasksAssumption == Adders \intersect Removers = {}

Tasks == Adders \union Removers

VARIABLES
  members,   \* committed rows of room_members; empty before create_group
  task,      \* task[t]: where the request stands, and its local variables
  adds,      \* adds[t]: rows t inserted and has not committed
  dels,      \* dels[t]: rows t deleted and has not committed
  behind     \* history: the most members that were there when an add_members
             \* committed and were not when it counted, since the room last
             \* was within its limit

vars == <<members, task, adds, dels, behind>>

\* counted: the members count_members found, of which the code keeps the
\* number; left: the ids still to ask about (or to delete); new: those to insert.
Rest(s) == [pc |-> s, counted |-> {}, left |-> {}, new |-> {}]

At(t, s) == task[t].pc = s
Goto(t, s) == task' = [task EXCEPT ![t].pc = s]
\* The request is answered, refused or ends in an exception: in any case what
\* its transaction has not committed is rolled back.
Finish(t) ==
  /\ task' = [task EXCEPT ![t] = Rest("idle")]
  /\ adds' = [adds EXCEPT ![t] = {}]
  /\ dels' = [dels EXCEPT ![t] = {}]
AtWork(t) == task[t].pc # "idle"

Init ==
  /\ members = {}
  /\ task = [t \in Tasks |-> Rest("idle")]
  /\ adds = [t \in Tasks |-> {}]
  /\ dels = [t \in Tasks |-> {}]
  /\ behind = 0

\* GroupService.create_group: one transaction nobody can observe halfway.
Create ==
  /\ members = {}
  /\ \E invited \in SUBSET (Users \ {Owner}) :
       /\ Cardinality(invited) + 1 <= Limit
       /\ members' = {Owner} \union invited
  /\ UNCHANGED <<task, adds, dels>>

-----------------------------------------------------------------------------
\* GroupService.add_members

\* assert_owner refuses everybody else.
BeginAdd(t) ==
  /\ ~AtWork(t) /\ members # {}
  /\ \E u \in Users, T \in SUBSET Users :
       /\ T # {}
       /\ task' = [task EXCEPT ![t] =
            IF u = Owner THEN [Rest("count") EXCEPT !.left = T]
                         ELSE Rest("idle")]
  /\ UNCHANGED <<members, adds, dels>>

CountMembers(t) ==
  /\ At(t, "count")
  /\ task' = [task EXCEPT ![t].pc = "new?", ![t].counted = members]
  /\ UNCHANGED <<members, adds, dels>>

MutantNextTargets(S) == S     \* the order in which the ids were given
\* `targets` is sorted.
NextTargets(S) == {x \in S : \A y \in S : x <= y}

\* One is_member query of the comprehension that builds `new`.
AskMember(t) ==
  /\ At(t, "new?")
  /\ \E x \in NextTargets(task[t].left) :
       task' = [task EXCEPT ![t].left = @ \ {x},
                            ![t].new = IF x \in members THEN @ ELSE @ \union {x}]
  /\ UNCHANGED <<members, adds, dels>>

MutantTooMany(t) == Cardinality(task[t].counted) + Cardinality(task[t].new) > Limit + 1
TooMany(t) == Cardinality(task[t].counted) + Cardinality(task[t].new) > Limit

CheckLimit(t) ==
  /\ At(t, "new?") /\ task[t].left = {}
  /\ IF TooMany(t) THEN Finish(t)
                   ELSE Goto(t, "insert") /\ UNCHANGED <<adds, dels>>
  /\ UNCHANGED members

\* Rows another transaction has touched: whoever touches them waits for it.
Busy(t, x) == \E s \in Tasks \ {t} : x \in adds[s] \union dels[s]

\* The flush of one add_member; uq_room_member refuses a row that exists.
InsertMember(t) ==
  /\ At(t, "insert")
  /\ \E x \in NextTargets(task[t].new \ adds[t]) :
       /\ ~Busy(t, x)
       /\ IF x \in members
          THEN Finish(t)
          ELSE /\ adds' = [adds EXCEPT ![t] = @ \union {x}]
               /\ UNCHANGED <<task, dels>>
  /\ UNCHANGED members

Behind(n) == behind' = IF Cardinality(members') <= Limit THEN 0 ELSE n

MutantCommitAdd(t) ==          \* returns without committing
  /\ At(t, "insert") /\ adds[t] = task[t].new
  /\ Goto(t, "idle")
  /\ UNCHANGED <<members, adds, dels, behind>>
\* Commit; GroupChat says what follows it.
CommitAdd(t) ==
  /\ At(t, "insert") /\ adds[t] = task[t].new
  /\ members' = members \union adds[t]
  /\ Finish(t)
  /\ Behind(Max({behind, Cardinality(members \ task[t].counted)}))

-----------------------------------------------------------------------------
\* GroupService.leave_or_kick

MutantMayRemove(u, x) == u = x \/ u = Owner     \* the owner may leave
\* Anyone but the owner may leave; the owner may remove anyone else.
MayRemove(u, x) == IF u = x THEN u # Owner ELSE u = Owner

\* assert_member, then what owner_id alone decides.
BeginRemove(t) ==
  /\ ~AtWork(t) /\ members # {}
  /\ \E u, x \in Users :
       task' = [task EXCEPT ![t] =
         IF u \in members /\ MayRemove(u, x)
         THEN [Rest(IF u = x THEN "delete" ELSE "target?") EXCEPT !.left = {x}]
         ELSE Rest("idle")]
  /\ UNCHANGED <<members, adds, dels>>

TargetIsMember(t) ==
  /\ At(t, "target?")
  /\ IF task[t].left \subseteq members
     THEN Goto(t, "delete") /\ UNCHANGED <<adds, dels>>
     ELSE Finish(t)
  /\ UNCHANGED members

\* delete_member: deletes what it finds, waits for who deletes it already.
DeleteMember(t) ==
  /\ At(t, "delete")
  /\ \A x \in task[t].left : x \in members => ~Busy(t, x)
  /\ dels' = [dels EXCEPT ![t] = task[t].left \intersect members]
  /\ Goto(t, "commitDelete")
  /\ UNCHANGED <<members, adds>>

\* Commit; GroupChat says what follows it.
CommitDelete(t) ==
  /\ At(t, "commitDelete")
  /\ members' = members \ dels[t]
  /\ Finish(t) /\ Behind(behind)

\* The database refuses a statement: rolled back.
Fails(t) ==
  /\ AtWork(t)
  /\ Finish(t)
  /\ UNCHANGED members

-----------------------------------------------------------------------------
AddMembers(t) == \/ CountMembers(t) \/ AskMember(t) \/ CheckLimit(t) \/ InsertMember(t)
LeaveOrKick(t) == TargetIsMember(t) \/ DeleteMember(t)

Next ==
  \/ \E t \in Adders : CommitAdd(t)
  \/ \E t \in Removers : CommitDelete(t)
  \/ /\ \/ Create
        \/ \E t \in Adders : BeginAdd(t) \/ AddMembers(t)
        \/ \E t \in Removers : BeginRemove(t) \/ LeaveOrKick(t)
        \/ \E t \in Tasks : Fails(t)
     /\ UNCHANGED behind

Spec == Init /\ [][Next]_vars

-----------------------------------------------------------------------------
PCs == {"idle", "count", "new?", "insert", "target?", "delete", "commitDelete"}
TaskStates == [pc : PCs, counted : SUBSET Users, left : SUBSET Users, new : SUBSET Users]

\* Besides types: a request that was answered holds no uncommitted row.
TypeOK ==
  /\ members \in SUBSET Users
  /\ task \in [Tasks -> TaskStates]
  /\ adds \in [Tasks -> SUBSET Users] /\ dels \in [Tasks -> SUBSET Users]
  /\ behind \in Nat
  /\ \A t \in Tasks : ~AtWork(t) => adds[t] = {} /\ dels[t] = {}

\* A group never loses its owner, whoever leaves, is removed or added in
\* whatever order (group_service.py:114, 127).
OwnerIsMember == members # {} => Owner \in members

\* The members are counted before the new rows are asked about and inserted,
\* and nothing locks the room (group_service.py:82-91).  However many requests
\* add, leave, remove or fail at once, what member_limit is exceeded by is no
\* more than the members who joined between the count of one add_members and
\* its commit; when none did, the limit is kept.
LimitRespected == Cardinality(members) <= Limit + behind

WaitsFor(t, s) ==
  /\ At(t, "insert") /\ adds[t] # task[t].new
  /\ \E x \in NextTargets(task[t].new \ adds[t]) : x \in adds[s] \union dels[s]
\* add_members inserts in one order of ids (sorted, group_service.py:78), so
\* two of them never wait for each other's uncommitted rows.
NoDeadlock == \A t, s \in Tasks : t # s => ~(WaitsFor(t, s) /\ WaitsFor(s, t))
=============================================================================
