-------------------------- MODULE GroupChatProofs ---------------------------
(***************************************************************************)
(* Facts about group rooms and what goes on in them, for every set of      *)
(* users, every limit and any number of concurrent requests.               *)
(*                                                                         *)
(* First the members of a room (GroupRoom): the owner stays a member, two  *)
(* requests that add members never wait for each other, and a room exceeds *)
(* its limit by no more than those who joined while a request was adding.  *)
(*                                                                         *)
(* Then the chat (GroupChat), which only adds to GroupRoom, so that what   *)
(* is proved of the members of a room holds there: a record of a removal   *)
(* is true, and what follows a commit is complete when all requests are    *)
(* through.                                                                *)
(***************************************************************************)
EXTENDS GroupChat, FiniteSetTheorems, TLAPS

-----------------------------------------------------------------------------
\* Types.
Typed ==
  /\ members \in SUBSET Users
  /\ task \in [Tasks -> TaskStates]
  /\ adds \in [Tasks -> SUBSET Users] /\ dels \in [Tasks -> SUBSET Users]

\* A row is held only by a request that stands where it inserted or deleted it.
HeldWhere ==
  \A t \in Tasks :
    /\ adds[t] # {} => At(t, "insert")
    /\ dels[t] # {} => At(t, "commitDelete")

\* No request is about to delete the owner's row.
OwnerIsNoTarget ==
  \A t \in Tasks :
    /\ task[t].pc \in {"target?", "delete"} => Owner \notin task[t].left
    /\ Owner \notin dels[t]

\* Nothing happens in a room before it is created.
NoneBeforeCreate == members = {} => \A t \in Tasks : ~AtWork(t)

\* The rows inserted so far are those of the smallest ids.
InOrder ==
  \A t \in Tasks :
    /\ adds[t] \subseteq task[t].new
    /\ \A a \in adds[t], b \in task[t].new \ adds[t] : a < b

IInv ==
  /\ Typed /\ HeldWhere /\ OwnerIsNoTarget /\ NoneBeforeCreate /\ InOrder
  /\ OwnerIsMember

-----------------------------------------------------------------------------
\* The answer to a request is a task of the right type.
LEMMA RestTyped ==
  ASSUME NEW s \in PCs
  PROVE  Rest(s) \in TaskStates
  BY OwnerAssumption DEF Rest, TaskStates

\* The set of the smallest of some numbers has at most one member.
LEMMA NextIsOne ==
  ASSUME NEW S \in SUBSET Nat, NEW x \in NextTargets(S)
  PROVE  x \in S /\ \A y \in S \ {x} : x < y
  BY DEF NextTargets

\* Nothing is at work before the first request.
LEMMA InitIInv == Init => IInv
<1> SUFFICES ASSUME Init
             PROVE  IInv
  OBVIOUS
<1>1. Rest("idle") \in TaskStates
  BY RestTyped DEF PCs, AtWork
<1>2. Typed
  BY <1>1 DEF Init, Typed
<1>3. HeldWhere /\ OwnerIsNoTarget /\ InOrder
  BY DEF Init, HeldWhere, OwnerIsNoTarget, InOrder, Rest
<1>4. NoneBeforeCreate /\ OwnerIsMember
  BY DEF Init, NoneBeforeCreate, OwnerIsMember, Rest, AtWork
<1>5. QED
  BY <1>2, <1>3, <1>4 DEF IInv

\* A request that ends, however it does, holds nothing and asks for nothing:
\* what is left to show is what becomes of the members.
LEMMA FinishKeeps ==
  ASSUME IInv, NEW t \in Tasks, Finish(t),
         members' \in SUBSET Users, Owner \in members'
  PROVE  IInv'
<1>1. Rest("idle") \in TaskStates
  BY RestTyped DEF PCs
<1>2. /\ task'[t] = Rest("idle") /\ adds'[t] = {} /\ dels'[t] = {}
      /\ \A o \in Tasks \ {t} : task'[o] = task[o] /\ adds'[o] = adds[o] /\ dels'[o] = dels[o]
  BY DEF Finish, IInv, Typed
<1>3. Typed'
  BY <1>1 DEF Finish, IInv, Typed
<1>4. HeldWhere'
  BY <1>2 DEF IInv, HeldWhere, At
<1>5. OwnerIsNoTarget'
  BY <1>2 DEF IInv, OwnerIsNoTarget, Rest, AtWork
<1>6. NoneBeforeCreate'
  BY DEF NoneBeforeCreate
<1>7. InOrder'
  BY <1>2 DEF IInv, InOrder, Rest
<1>8. OwnerIsMember'
  BY DEF OwnerIsMember
<1>9. QED
  BY <1>3, <1>4, <1>5, <1>6, <1>7, <1>8 DEF IInv

\* A request at work stands in a room that has its owner.
LEMMA WorkNeedsOwner ==
  ASSUME IInv, NEW t \in Tasks, AtWork(t)
  PROVE  Owner \in members
  BY DEF IInv, NoneBeforeCreate, OwnerIsMember

\* A step that changes only the local variables of one request, which holds
\* no row before or after it.
LEMMA LocalKeeps ==
  ASSUME IInv, NEW t \in Tasks, NEW r \in TaskStates, members # {},
         task' = [task EXCEPT ![t] = r],
         r.pc \in {"target?", "delete"} => Owner \notin r.left,
         adds[t] = {}, dels[t] = {},
         UNCHANGED <<members, adds, dels>>
  PROVE  IInv'
<1>1. /\ task'[t] = r
      /\ \A o \in Tasks \ {t} : task'[o] = task[o]
  BY DEF IInv, Typed
<1>2. Typed'
  BY DEF IInv, Typed
<1>3. HeldWhere'
  BY <1>1 DEF IInv, HeldWhere, At
<1>4. OwnerIsNoTarget'
  BY <1>1 DEF IInv, OwnerIsNoTarget
<1>5. NoneBeforeCreate' /\ OwnerIsMember'
  BY DEF IInv, NoneBeforeCreate, OwnerIsMember
<1>6. InOrder'
  BY <1>1 DEF IInv, InOrder
<1>7. QED
  BY <1>2, <1>3, <1>4, <1>5, <1>6 DEF IInv

\* create_group makes its creator a member.
LEMMA CreateKeeps == ASSUME IInv, Create PROVE IInv'
<1>1. /\ members' \in SUBSET Users /\ Owner \in members'
      /\ UNCHANGED <<task, adds, dels>>
  BY OwnerAssumption DEF Create
<1>2. QED
  BY <1>1 DEF IInv, Typed, HeldWhere, At, OwnerIsNoTarget, NoneBeforeCreate, InOrder,
     OwnerIsMember

\* The steps of add_members.
LEMMA AddKeeps ==
  ASSUME IInv, NEW t \in Adders, BeginAdd(t) \/ AddMembers(t) \/ CommitAdd(t)
  PROVE  IInv'
<1>1. t \in Tasks /\ task[t] \in TaskStates
  BY DEF Tasks, IInv, Typed
<1>2. CASE BeginAdd(t)
  <2>1. PICK u \in Users, T \in SUBSET Users :
          task' = [task EXCEPT ![t] =
            IF u = Owner THEN [Rest("count") EXCEPT !.left = T]
                         ELSE Rest("idle")]
    BY <1>2 DEF BeginAdd
  <2> DEFINE r == IF u = Owner THEN [Rest("count") EXCEPT !.left = T]
                               ELSE Rest("idle")
  <2>2. r \in TaskStates /\ r.pc \in {"count", "idle"}
    BY OwnerAssumption DEF Rest, TaskStates, PCs, AtWork
  <2>3. adds[t] = {} /\ dels[t] = {} /\ members # {}
    BY <1>1, <1>2 DEF BeginAdd, IInv, HeldWhere, At, AtWork
  <2>4. QED
    BY <1>1, <1>2, <2>1, <2>2, <2>3, LocalKeeps DEF BeginAdd
<1>3. CASE CountMembers(t)
  <2>1. members \in SUBSET Users
    BY DEF IInv, Typed
  <2> DEFINE r == [task[t] EXCEPT !.pc = "new?", !.counted = members]
  <2>2. task' = [task EXCEPT ![t] = r] /\ r \in TaskStates /\ r.pc = "new?"
    BY <1>1, <1>3, <2>1 DEF CountMembers, TaskStates, PCs
  <2>3. adds[t] = {} /\ dels[t] = {} /\ members # {}
    BY <1>1, <1>3, WorkNeedsOwner DEF CountMembers, IInv, HeldWhere, At, AtWork
  <2>4. QED
    BY <1>1, <1>3, <2>2, <2>3, LocalKeeps DEF CountMembers
<1>4. CASE AskMember(t)
  <2>1. PICK x \in NextTargets(task[t].left) :
          task' = [task EXCEPT ![t].left = @ \ {x},
                               ![t].new = IF x \in members THEN @ ELSE @ \union {x}]
    BY <1>4 DEF AskMember
  <2>2. x \in Users
    BY <1>1 DEF NextTargets, TaskStates
  <2> DEFINE r == [task[t] EXCEPT !.left = @ \ {x},
                                  !.new = IF x \in members THEN @ ELSE @ \union {x}]
  <2>3. task' = [task EXCEPT ![t] = r] /\ r \in TaskStates /\ r.pc = "new?"
    BY <1>1, <1>4, <2>1, <2>2 DEF AskMember, At, TaskStates
  <2>4. adds[t] = {} /\ dels[t] = {} /\ members # {}
    BY <1>1, <1>4, WorkNeedsOwner DEF AskMember, IInv, HeldWhere, At, AtWork
  <2>5. QED
    BY <1>1, <1>4, <2>3, <2>4, LocalKeeps DEF AskMember
<1>5. CASE CheckLimit(t)
  <2>1. At(t, "new?") /\ Owner \in members /\ members \in SUBSET Users
    BY <1>1, <1>5, WorkNeedsOwner DEF CheckLimit, IInv, Typed, At, AtWork
  <2>2. CASE TooMany(t)
    BY <1>1, <1>5, <2>1, <2>2, FinishKeeps DEF CheckLimit, AtWork
  <2>3. CASE ~TooMany(t)
    <3> DEFINE r == [task[t] EXCEPT !.pc = "insert"]
    <3>1. task' = [task EXCEPT ![t] = r] /\ r \in TaskStates /\ r.pc = "insert"
      BY <1>1, <1>5, <2>3 DEF CheckLimit, Goto, TaskStates, PCs
    <3>2. adds[t] = {} /\ dels[t] = {}
      BY <1>1, <2>1 DEF IInv, HeldWhere, At
    <3>3. QED
      BY <1>1, <1>5, <2>1, <2>3, <3>1, <3>2, LocalKeeps DEF CheckLimit
  <2>4. QED
    BY <2>2, <2>3
<1>6. CASE InsertMember(t)
  <2>1. At(t, "insert") /\ Owner \in members /\ members \in SUBSET Users
    BY <1>1, <1>6, WorkNeedsOwner DEF InsertMember, IInv, Typed, At, AtWork
  <2>2. PICK x \in NextTargets(task[t].new \ adds[t]) :
          IF x \in members THEN Finish(t)
          ELSE /\ adds' = [adds EXCEPT ![t] = @ \union {x}]
               /\ UNCHANGED <<task, dels>>
    BY <1>6 DEF InsertMember
  <2>3. CASE x \in members
    BY <1>1, <1>6, <2>1, <2>2, <2>3, FinishKeeps DEF InsertMember, AtWork
  <2>4. CASE x \notin members
    <3> DEFINE rest == task[t].new \ adds[t]
    <3>1. rest \in SUBSET Users /\ rest \in SUBSET Nat
      BY <1>1, UsersAssumption DEF TaskStates
    <3>2. /\ x \in rest /\ x \in Users
          /\ \A y \in rest \ {x} : x < y
      BY <3>1, NextIsOne
    <3>3. /\ adds'[t] = adds[t] \union {x}
          /\ \A o \in Tasks \ {t} : adds'[o] = adds[o]
          /\ UNCHANGED <<members, task, dels>>
      BY <1>1, <1>6, <2>2, <2>4 DEF InsertMember, IInv, Typed
    <3>4. Typed'
      BY <2>2, <2>4, <3>2, <3>3 DEF IInv, Typed
    <3>5. HeldWhere' /\ OwnerIsNoTarget' /\ NoneBeforeCreate' /\ OwnerIsMember'
      BY <2>1, <3>3 DEF IInv, HeldWhere, At, OwnerIsNoTarget, NoneBeforeCreate, OwnerIsMember
    <3>6. InOrder'
      BY <1>1, <3>2, <3>3 DEF IInv, InOrder
    <3>7. QED
      BY <3>4, <3>5, <3>6 DEF IInv
  <2>5. QED
    BY <2>3, <2>4
<1>7. CASE CommitAdd(t)
  <2>1. Owner \in members /\ members \in SUBSET Users /\ adds[t] \in SUBSET Users
    BY <1>1, <1>7, WorkNeedsOwner DEF CommitAdd, IInv, Typed, At, AtWork
  <2>2. QED
    BY <1>1, <1>7, <2>1, FinishKeeps DEF CommitAdd, AtWork
<1>8. QED
  BY <1>2, <1>3, <1>4, <1>5, <1>6, <1>7 DEF AddMembers

\* The steps of leave_or_kick: assert_member and the test of owner_id leave
\* the owner out of what is deleted.
LEMMA RemoveKeeps ==
  ASSUME IInv, NEW t \in Removers, BeginRemove(t) \/ LeaveOrKick(t) \/ CommitDelete(t)
  PROVE  IInv'
<1>1. t \in Tasks /\ task[t] \in TaskStates
  BY DEF Tasks, IInv, Typed
<1>2. CASE BeginRemove(t)
  <2>1. PICK u, x \in Users :
          task' = [task EXCEPT ![t] =
            IF u \in members /\ MayRemove(u, x)
            THEN [Rest(IF u = x THEN "delete" ELSE "target?") EXCEPT !.left = {x}]
            ELSE Rest("idle")]
    BY <1>2 DEF BeginRemove
  <2> DEFINE r == IF u \in members /\ MayRemove(u, x)
                  THEN [Rest(IF u = x THEN "delete" ELSE "target?") EXCEPT !.left = {x}]
                  ELSE Rest("idle")
  <2>2. /\ r \in TaskStates
        /\ r.pc \in {"target?", "delete"} => Owner \notin r.left
    BY OwnerAssumption DEF MayRemove, Rest, TaskStates, PCs, AtWork
  <2>3. adds[t] = {} /\ dels[t] = {} /\ members # {}
    BY <1>1, <1>2 DEF BeginRemove, IInv, HeldWhere, At, AtWork
  <2>4. QED
    BY <1>1, <1>2, <2>1, <2>2, <2>3, LocalKeeps DEF BeginRemove
<1>3. CASE TargetIsMember(t)
  <2>1. At(t, "target?") /\ Owner \in members /\ members \in SUBSET Users
    BY <1>1, <1>3, WorkNeedsOwner DEF TargetIsMember, IInv, Typed, At, AtWork
  <2>2. CASE task[t].left \subseteq members
    <3> DEFINE r == [task[t] EXCEPT !.pc = "delete"]
    <3>1. task' = [task EXCEPT ![t] = r] /\ r \in TaskStates /\ r.left = task[t].left
      BY <1>1, <1>3, <2>2 DEF TargetIsMember, Goto, TaskStates, PCs
    <3>2. adds[t] = {} /\ dels[t] = {} /\ Owner \notin r.left
      BY <1>1, <2>1, <3>1 DEF IInv, HeldWhere, OwnerIsNoTarget, At
    <3>3. QED
      BY <1>1, <1>3, <2>1, <2>2, <3>1, <3>2, LocalKeeps DEF TargetIsMember
  <2>3. CASE ~(task[t].left \subseteq members)
    BY <1>1, <1>3, <2>1, <2>3, FinishKeeps DEF TargetIsMember, AtWork
  <2>4. QED
    BY <2>2, <2>3
<1>4. CASE DeleteMember(t)
  <2>1. /\ At(t, "delete") /\ Owner \in members
        /\ Owner \notin task[t].left /\ adds[t] = {}
    BY <1>1, <1>4, WorkNeedsOwner DEF DeleteMember, IInv, OwnerIsNoTarget, HeldWhere, At, AtWork
  <2> DEFINE r == [task[t] EXCEPT !.pc = "commitDelete"]
  <2>2. task' = [task EXCEPT ![t] = r] /\ r \in TaskStates
    BY <1>1, <1>4 DEF DeleteMember, Goto, TaskStates, PCs
  <2>3. /\ task'[t] = r /\ r.pc = "commitDelete" /\ r.new = task[t].new
        /\ dels'[t] = task[t].left \intersect members
        /\ \A o \in Tasks \ {t} : task'[o] = task[o] /\ dels'[o] = dels[o]
        /\ UNCHANGED <<members, adds>>
    BY <1>1, <1>4, <2>2 DEF DeleteMember, IInv, Typed, TaskStates
  <2>4. Typed'
    BY <1>4, <2>2, <2>3 DEF DeleteMember, IInv, Typed
  <2>5. HeldWhere' /\ OwnerIsNoTarget'
    BY <2>1, <2>3 DEF IInv, HeldWhere, OwnerIsNoTarget, At
  <2>6. NoneBeforeCreate' /\ OwnerIsMember' /\ InOrder'
    BY <2>1, <2>3 DEF IInv, NoneBeforeCreate, OwnerIsMember, InOrder
  <2>7. QED
    BY <2>4, <2>5, <2>6 DEF IInv
<1>5. CASE CommitDelete(t)
  <2>1. Owner \in members /\ members \in SUBSET Users /\ Owner \notin dels[t]
    BY <1>1, <1>5, WorkNeedsOwner DEF CommitDelete, IInv, Typed, OwnerIsNoTarget, At, AtWork
  <2>2. QED
    BY <1>1, <1>5, <2>1, FinishKeeps DEF CommitDelete, AtWork
<1>6. QED
  BY <1>2, <1>3, <1>4, <1>5 DEF LeaveOrKick

\* A refused statement rolls its request back.
LEMMA FailureKeeps ==
  ASSUME IInv, NEW t \in Tasks, Fails(t)
  PROVE  IInv'
<1>1. Owner \in members /\ members \in SUBSET Users
  BY WorkNeedsOwner DEF Fails, IInv, Typed
<1>2. QED
  BY <1>1, FinishKeeps DEF Fails, AtWork

\* IInv is an invariant of GroupRoom.
THEOREM Invariance == Spec => []IInv
<1>1. ASSUME IInv, [Next]_vars
      PROVE  IInv'
  <2>1. CASE Next
    BY <1>1, <2>1, CreateKeeps, AddKeeps, RemoveKeeps, FailureKeeps DEF Next
  <2>2. CASE UNCHANGED vars
    BY <1>1, <2>2 DEF vars, IInv, Typed, HeldWhere, At, AtWork, OwnerIsNoTarget, NoneBeforeCreate,
       InOrder, OwnerIsMember
  <2>3. QED
    BY <1>1, <2>1, <2>2
<1>2. QED
  BY InitIInv, <1>1, PTL DEF Spec

\* A group that was created always has its owner among its members
\* (group_service.py:114, 127).
THEOREM OwnerStays == Spec => []OwnerIsMember
  BY Invariance, PTL DEF IInv

\* Two requests that add members never wait for each other: each has
\* inserted only ids smaller than the one it waits for (group_service.py:78).
THEOREM AddersNeverDeadlock == Spec => []NoDeadlock
<1>1. ASSUME IInv
      PROVE  NoDeadlock
  <2>1. SUFFICES ASSUME NEW t \in Tasks, NEW s \in Tasks, t # s, WaitsFor(t, s), WaitsFor(s, t)
                 PROVE  FALSE
    BY DEF NoDeadlock
  <2>2. PICK x \in task[t].new \ adds[t] : x \in adds[s] \union dels[s]
    BY <2>1 DEF WaitsFor, NextTargets
  <2>3. PICK y \in task[s].new \ adds[s] : y \in adds[t] \union dels[t]
    BY <2>1 DEF WaitsFor, NextTargets
  <2>4. dels[s] = {} /\ dels[t] = {}
    BY <1>1, <2>1 DEF IInv, HeldWhere, WaitsFor, At
  <2>5. y < x /\ x < y
    BY <1>1, <2>2, <2>3, <2>4 DEF IInv, InOrder
  <2>6. x \in Nat /\ y \in Nat
    BY <1>1, <2>2, <2>3, UsersAssumption DEF IInv, Typed, TaskStates
  <2>7. QED
    BY <2>5, <2>6
<1>2. QED
  BY Invariance, <1>1, PTL

-----------------------------------------------------------------------------
\* The limit.  When an add_members commits, the members are those it counted,
\* those who joined since, and those it adds; it has checked the first and the
\* last.
Checked ==
  \A t \in Adders :
    At(t, "insert") => Cardinality(task[t].counted) + Cardinality(task[t].new) <= Limit

LInv == behind \in Nat /\ LimitRespected /\ Checked

\* Sets of users are finite and the smaller one has the smaller cardinality.
LEMMA SetsOfUsers ==
  ASSUME NEW S \in SUBSET Users, NEW T \in SUBSET S
  PROVE  /\ IsFiniteSet(S) /\ IsFiniteSet(T)
         /\ Cardinality(S) \in Nat /\ Cardinality(T) \in Nat
         /\ Cardinality(T) <= Cardinality(S)
  BY UsersAssumption, FS_Subset, FS_CardinalityType

\* Two sets of users together are no more than the sum of both.
LEMMA UnionOfUsers ==
  ASSUME NEW S \in SUBSET Users, NEW T \in SUBSET Users
  PROVE  Cardinality(S \union T) <= Cardinality(S) + Cardinality(T)
<1>1. IsFiniteSet(S) /\ IsFiniteSet(T) /\ Cardinality(S) \in Nat /\ Cardinality(T) \in Nat
  BY SetsOfUsers
<1>2. /\ Cardinality(S \union T) = Cardinality(S) + Cardinality(T) - Cardinality(S \intersect T)
      /\ Cardinality(S \intersect T) \in Nat
  BY <1>1, FS_Union, FS_Intersection, FS_CardinalityType
<1>3. QED
  BY <1>1, <1>2

\* The greater of two numbers.
LEMMA MaxOfTwo ==
  ASSUME NEW a \in Nat, NEW b \in Nat
  PROVE  Max({a, b}) \in Nat /\ Max({a, b}) >= b
<1>1. \E x \in {a, b} : \A y \in {a, b} : x >= y
  OBVIOUS
<1>2. Max({a, b}) \in {a, b} /\ \A y \in {a, b} : Max({a, b}) >= y
  BY <1>1 DEF Max
<1>3. QED
  BY <1>2

\* What adds no member and lets no request come to its inserts keeps the limit.
LEMMA FewerKeep ==
  ASSUME IInv, LInv, members' \subseteq members, UNCHANGED behind,
         \A t \in Adders : task'[t] = task[t] \/ task'[t].pc # "insert"
  PROVE  LInv'
<1>1. /\ Cardinality(members) \in Nat /\ Cardinality(members') \in Nat
      /\ Cardinality(members') <= Cardinality(members)
  BY SetsOfUsers DEF IInv, Typed
<1>2. LimitRespected'
  BY <1>1, LimitAssumption DEF LInv, LimitRespected
<1>3. Checked'
  BY DEF LInv, Checked, At
<1>4. QED
  BY <1>2, <1>3 DEF LInv

\* create_group checks the limit in one transaction.
LEMMA CreateWithinLimit == ASSUME IInv, LInv, Create, UNCHANGED behind PROVE LInv'
<1>1. PICK invited \in SUBSET (Users \ {Owner}) :
        /\ Cardinality(invited) + 1 <= Limit
        /\ members' = {Owner} \union invited
  BY DEF Create
<1>2. Cardinality(members') = Cardinality(invited) + 1
  <2>1. IsFiniteSet(invited)
    BY UsersAssumption, FS_Subset
  <2>2. members' = invited \union {Owner} /\ Owner \notin invited
    BY <1>1
  <2>3. QED
    BY <2>1, <2>2, FS_AddElement
<1>3. Cardinality(members') \in Nat /\ UNCHANGED task
  BY <1>1, OwnerAssumption, SetsOfUsers DEF Create
<1>4. QED
  BY <1>1, <1>2, <1>3, LimitAssumption DEF LInv, LimitRespected, Checked, At

\* The steps of an add_members before its commit.
LEMMA AddWithinLimit ==
  ASSUME IInv, LInv, NEW t \in Adders, BeginAdd(t) \/ AddMembers(t), UNCHANGED behind
  PROVE  LInv'
<1>1. t \in Tasks /\ task[t] \in TaskStates /\ members' = members
  BY DEF Tasks, IInv, Typed, BeginAdd, AddMembers, CountMembers, AskMember, CheckLimit, InsertMember
<1>2. \A s \in Adders \ {t} : task'[s] = task[s]
  BY <1>1 DEF BeginAdd, AddMembers, CountMembers, AskMember, CheckLimit, InsertMember,
     Goto, Finish, IInv, Typed, Tasks
<1>3. CASE BeginAdd(t)
  <2>1. PICK u \in Users, T \in SUBSET Users :
          task'[t] = IF u = Owner THEN [Rest("count") EXCEPT !.left = T]
                                  ELSE Rest("idle")
    BY <1>1, <1>3 DEF BeginAdd, IInv, Typed
  <2>2. /\ [Rest("count") EXCEPT !.left = T].pc = "count"
        /\ Rest("idle").pc = "idle"
    BY DEF Rest
  <2>3. QED
    BY <1>1, <1>2, <2>1, <2>2, FewerKeep
<1>4. CASE CountMembers(t) \/ AskMember(t)
  <2>1. task'[t].pc = "new?"
    <3>1. CASE CountMembers(t)
      BY <1>1, <3>1 DEF CountMembers, IInv, Typed
    <3>2. CASE AskMember(t)
      BY <1>1, <3>2 DEF AskMember, At, IInv, Typed, TaskStates
    <3>3. QED
      BY <1>4, <3>1, <3>2
  <2>2. QED
    BY <1>1, <1>2, <2>1, FewerKeep
<1>5. CASE CheckLimit(t)
  <2>1. CASE TooMany(t)
    <3>1. task'[t] = Rest("idle")
      BY <1>1, <1>5, <2>1 DEF CheckLimit, Finish, IInv, Typed
    <3>2. QED
      BY <1>1, <1>2, <3>1, FewerKeep DEF Rest
  <2>2. CASE ~TooMany(t)
    <3>1. task'[t].counted = task[t].counted /\ task'[t].new = task[t].new
      BY <1>1, <1>5, <2>2 DEF CheckLimit, Goto, IInv, Typed, TaskStates
    <3>2. Cardinality(task[t].counted) + Cardinality(task[t].new) <= Limit
      <4>1. Cardinality(task[t].counted) \in Nat /\ Cardinality(task[t].new) \in Nat
        BY <1>1, SetsOfUsers DEF TaskStates
      <4>2. QED
        BY <2>2, <4>1, LimitAssumption DEF TooMany
    <3>3. Checked'
      BY <1>2, <3>1, <3>2 DEF LInv, Checked, At
    <3>4. QED
      BY <1>1, <3>3 DEF LInv, LimitRespected
  <2>3. QED
    BY <2>1, <2>2
<1>6. CASE InsertMember(t)
  <2>1. task'[t] = task[t] \/ task'[t] = Rest("idle")
    BY <1>1, <1>6 DEF InsertMember, Finish, IInv, Typed
  <2>2. QED
    BY <1>1, <1>2, <2>1, FewerKeep DEF Rest
<1>7. QED
  BY <1>3, <1>4, <1>5, <1>6 DEF AddMembers

\* The commit: members are those counted, those who joined since, and those
\* that are added.
LEMMA CommitWithinLimit ==
  ASSUME IInv, LInv, NEW t \in Adders, CommitAdd(t)
  PROVE  LInv'
<1> DEFINE counted == task[t].counted
           joined == members \ task[t].counted
           new == task[t].new
<1>1. /\ t \in Tasks /\ At(t, "insert")
      /\ counted \in SUBSET Users /\ joined \in SUBSET Users /\ new \in SUBSET Users
      /\ members' = members \union new /\ members' \in SUBSET Users
      /\ task'[t].pc = "idle"
      /\ \A s \in Adders \ {t} : task'[s] = task[s]
  BY DEF CommitAdd, Finish, Rest, IInv, Typed, TaskStates, Tasks
<1>2. Checked'
  BY <1>1 DEF LInv, Checked, At
<1>3. /\ Cardinality(counted) \in Nat /\ Cardinality(joined) \in Nat /\ Cardinality(new) \in Nat
      /\ Cardinality(members') \in Nat
  BY <1>1, SetsOfUsers
<1>4. Cardinality(members') <= Limit + Cardinality(joined)
  <2>1. /\ Cardinality(counted \union joined) <= Cardinality(counted) + Cardinality(joined)
        /\ Cardinality((counted \union joined) \union new)
              <= Cardinality(counted \union joined) + Cardinality(new)
    <3>1. counted \union joined \in SUBSET Users
      BY <1>1
    <3>2. QED
      BY <1>1, <3>1, UnionOfUsers
  <2>2. /\ Cardinality(counted \union joined) \in Nat
        /\ Cardinality((counted \union joined) \union new) \in Nat
    BY <1>1, SetsOfUsers
  <2>3. Cardinality(members') <= Cardinality((counted \union joined) \union new)
    <3>1. members' \in SUBSET ((counted \union joined) \union new)
      BY <1>1
    <3>2. (counted \union joined) \union new \in SUBSET Users
      BY <1>1
    <3>3. QED
      BY <3>1, <3>2, SetsOfUsers
  <2>4. Cardinality(counted) + Cardinality(new) <= Limit
    BY <1>1 DEF LInv, Checked
  <2>5. QED
    BY <1>3, <2>1, <2>2, <2>3, <2>4, LimitAssumption
<1>5. Max({behind, Cardinality(joined)}) \in Nat /\ Max({behind, Cardinality(joined)}) >= Cardinality(joined)
  BY <1>3, MaxOfTwo DEF LInv
<1>6. behind' = IF Cardinality(members') <= Limit THEN 0 ELSE Max({behind, Cardinality(joined)})
  BY DEF CommitAdd, Behind
<1> HIDE DEF joined
<1>7. behind' \in Nat /\ LimitRespected'
  BY <1>3, <1>4, <1>5, <1>6, LimitAssumption DEF LimitRespected
<1>8. QED
  BY <1>2, <1>7 DEF LInv

\* Everybody else only removes members, or fails.
LEMMA OthersWithinLimit ==
  ASSUME IInv, LInv, NEW t \in Tasks,
         \/ Fails(t) /\ UNCHANGED behind
         \/ t \in Removers /\ (BeginRemove(t) \/ LeaveOrKick(t)) /\ UNCHANGED behind
         \/ t \in Removers /\ CommitDelete(t)
  PROVE  LInv'
<1>1. members' \subseteq members
  BY DEF Fails, BeginRemove, LeaveOrKick, TargetIsMember, DeleteMember, CommitDelete
<1>2. \A a \in Adders \ {t} : task'[a] = task[a]
  BY DEF Fails, BeginRemove, LeaveOrKick, TargetIsMember, DeleteMember, CommitDelete,
     Finish, Goto, IInv, Typed, Tasks
<1>3. t \in Adders => task'[t].pc = "idle"
  <2>1. CASE Fails(t)
    BY <2>1 DEF Fails, Finish, Rest, IInv, Typed
  <2>2. CASE ~Fails(t)
    BY <2>2, TasksAssumption
  <2>3. QED
    BY <2>1, <2>2
<1>4. CASE UNCHANGED behind
  BY <1>1, <1>2, <1>3, <1>4, FewerKeep
<1>5. CASE CommitDelete(t)
  <2>1. behind' = IF Cardinality(members') <= Limit THEN 0 ELSE behind
    BY <1>5 DEF CommitDelete, Behind
  <2>2. CASE Cardinality(members') <= Limit
    <3>1. Checked'
      BY <1>2, <1>3 DEF LInv, Checked, At
    <3>2. QED
      BY <2>1, <2>2, <3>1, LimitAssumption DEF LInv, LimitRespected
  <2>3. QED
    BY <1>4, <2>1, <2>2
<1>6. QED
  BY <1>4, <1>5

\* The limit and the history that it is measured by.
THEOREM LimitInvariance == Spec => []LInv
<1>1. Init => LInv
  BY FS_EmptySet, LimitAssumption
     DEF Init, LInv, LimitRespected, Checked, At, Rest, Tasks
<1>2. ASSUME IInv, LInv, [Next]_vars
      PROVE  LInv'
  <2>1. CASE UNCHANGED vars
    BY <1>2, <2>1 DEF vars, LInv, LimitRespected, Checked, At
  <2>2. CASE Next
    BY <1>2, <2>2, CreateWithinLimit, AddWithinLimit, CommitWithinLimit, OthersWithinLimit
       DEF Next, Tasks
  <2>3. QED
    BY <1>2, <2>1, <2>2
<1>3. QED
  BY Invariance, <1>1, <1>2, PTL DEF Spec

\* A room exceeds member_limit by no more than the members who joined between
\* the count of one add_members and its commit (group_service.py:82-91).
THEOREM LimitKept == Spec => []LimitRespected
<1>1. LInv => LimitRespected
  BY DEF LInv
<1>2. QED
  BY <1>1, LimitInvariance, PTL

\* Variables have their types, and a request that is not at work holds no row.
THEOREM TypeCorrect == Spec => []TypeOK
<1>1. IInv /\ LInv => TypeOK
  BY DEF LInv, IInv, Typed, HeldWhere, AtWork, At, TypeOK
<1>2. QED
  BY Invariance, LimitInvariance, <1>1, PTL

-----------------------------------------------------------------------------
\* The chat.

\* Every step of the chat is one of the room or leaves it alone.
LEMMA StepOfRoom == [ChatNext]_allVars => [Next]_vars
<1> SUFFICES ASSUME [ChatNext]_allVars
             PROVE  [Next]_vars
  OBVIOUS
<1>1. ASSUME NEW t \in Tasks, Statement(t)
      PROVE  Next
  BY <1>1 DEF Statement, Next, AddMembers, LeaveOrKick
<1>2. ASSUME NEW t \in Tasks, Begin(t)
      PROVE  Next
  BY <1>2 DEF Begin, Next
<1>3. ASSUME NEW t \in Adders, CommitAdded(t)
      PROVE  Next
  BY <1>3 DEF CommitAdded, Next
<1>4. ASSUME NEW t \in Removers, CommitDeleted(t)
      PROVE  Next
  BY <1>4 DEF CommitDeleted, Next
<1>5. ASSUME NEW t \in Tasks,
             AuditRecord(t) \/ ReadAudience(t) \/ Emit(t) \/ Forget(t)
      PROVE  UNCHANGED vars
  BY <1>5 DEF AuditRecord, ReadAudience, Emit, Forget
<1>6. ASSUME Create, UNCHANGED behind
      PROVE  Next
  BY <1>6 DEF Next
<1>7. QED
  BY <1>1, <1>2, <1>3, <1>4, <1>5, <1>6 DEF ChatNext, allVars

\* The chat is a room: GroupChat implements GroupRoom.
THEOREM ChatIsRoom == ChatSpec => Spec
<1>1. ChatInit => Init
  BY DEF ChatInit
<1>2. QED
  BY <1>1, StepOfRoom, PTL DEF ChatSpec, Spec

-----------------------------------------------------------------------------
\* Types.
ChatTyped ==
  /\ gone \in [Tasks -> BOOLEAN]
  /\ post \in [Tasks -> [step : Steps, user : Users \union {0}, audience : SUBSET Users]]
  /\ untraced \in SUBSET Users /\ stale \in SUBSET members /\ failed \in BOOLEAN

\* A task serves one request at a time.
OneAtATime ==
  \A t \in Tasks : AtWork(t) => post[t] = Nothing

\* Whom a request removes was found to be a member, and is one until somebody
\* removes him.
RemovalIsTrue ==
  \A t \in Removers :
    /\ At(t, "delete") => task[t].left \subseteq members \/ gone[t]
    /\ At(t, "commitDelete") => task[t].left \subseteq dels[t] \/ gone[t]
    /\ post[t].step = "audit" => gone[t]

\* A request removes one user.
RemovesOne ==
  \A t \in Removers : /\ AtWork(t) => \E x \in Users : task[t].left = {x}
                      /\ dels[t] \subseteq task[t].left

\* What is missing after a commit some request still has to do.
Owed ==
  /\ failed => untraced = {} /\ stale = {}
  /\ \A x \in untraced : \E t \in Tasks : post[t].step = "audit" /\ post[t].user = x
  /\ \A x \in stale : \E t \in Tasks :
       \/ post[t].step \in {"audit", "audience"}
       \/ post[t].step = "emit" /\ x \in post[t].audience

CInv == ChatTyped /\ OneAtATime /\ RemovesOne /\ RemovalIsTrue /\ Owed

-----------------------------------------------------------------------------
\* Nobody does anything before the room is there.
LEMMA InitCInv == ChatInit => CInv
<1> SUFFICES ASSUME ChatInit
             PROVE  CInv
  OBVIOUS
<1>1. ChatTyped
  BY DEF ChatInit, Init, ChatTyped, Nothing, Steps
<1>2. \A t \in Tasks : post[t] = Nothing /\ ~AtWork(t) /\ task[t].left = {} /\ dels[t] = {}
  BY DEF ChatInit, Init, AtWork, Rest
<1>3. OneAtATime /\ RemovesOne
  BY <1>2 DEF OneAtATime, RemovesOne, Tasks
<1>4. RemovalIsTrue
  BY <1>2 DEF RemovalIsTrue, Nothing, AtWork, At, Tasks
<1>5. Owed
  BY DEF ChatInit, Owed
<1>6. QED
  BY <1>1, <1>3, <1>4, <1>5 DEF CInv

\* The room is created when nobody is in it.
LEMMA CreateKeepsChat ==
  ASSUME IInv, CInv, Create, Unaffected
  PROVE  CInv'
<1>1. /\ UNCHANGED <<task, adds, dels, post, gone, untraced, stale, failed>>
      /\ members \subseteq members'
  BY DEF Create, Unaffected, chatVars
<1>2. ChatTyped' /\ OneAtATime' /\ RemovesOne' /\ Owed'
  BY <1>1 DEF CInv, ChatTyped, OneAtATime, RemovesOne, Owed, AtWork, At
<1>3. RemovalIsTrue'
  BY <1>1 DEF CInv, RemovalIsTrue, At
<1>4. QED
  BY <1>2, <1>3 DEF CInv

\* A request that adds or removes arrives.
LEMMA BeginKeepsChat ==
  ASSUME IInv, CInv, NEW t \in Tasks, Begin(t)
  PROVE  CInv'
<1>1. /\ UNCHANGED <<members, adds, dels, post, untraced, stale, failed>>
      /\ gone' = [gone EXCEPT ![t] = FALSE]
      /\ \A s \in Tasks \ {t} : task'[s] = task[s]
  BY DEF Begin, BeginAdd, BeginRemove, IInv, Typed
<1>2. Free(t)
  BY DEF Begin
<1>3. ASSUME t \in Removers
      PROVE  \/ task'[t].pc = "idle"
             \/ /\ task'[t].pc \in {"delete", "target?"}
                /\ \E x \in Users : task'[t].left = {x}
                /\ task'[t].pc = "delete" => task'[t].left \subseteq members
  <2>1. BeginRemove(t)
    BY <1>3, TasksAssumption DEF Begin
  <2>2. PICK u \in Users, x \in Users :
          task'[t] = IF u \in members /\ MayRemove(u, x)
                     THEN [Rest(IF u = x THEN "delete" ELSE "target?") EXCEPT !.left = {x}]
                     ELSE Rest("idle")
    BY <2>1 DEF BeginRemove, IInv, Typed
  <2>3. QED
    BY <2>2 DEF Rest
<1>4. dels[t] = {}
  BY <1>2 DEF Free, AtWork, IInv, HeldWhere, At
<1>5. ChatTyped'
  BY <1>1 DEF CInv, ChatTyped
<1>6. OneAtATime'
  BY <1>1, <1>2 DEF CInv, OneAtATime, Free, AtWork, At
<1>7. RemovesOne'
  BY <1>1, <1>3, <1>4 DEF CInv, RemovesOne, AtWork, At, Tasks
<1>8. RemovalIsTrue'
  BY <1>1, <1>2, <1>3 DEF CInv, ChatTyped, RemovalIsTrue, At, Free, Nothing, Tasks
<1>9. Owed'
  BY <1>1, <1>2 DEF CInv, Owed, Free
<1>10. QED
  BY <1>5, <1>6, <1>7, <1>8, <1>9 DEF CInv

\* What becomes of a task that adds is nobody's removal.
LEMMA StatementKeepsChat ==
  ASSUME IInv, CInv, NEW t \in Tasks, Statement(t)
  PROVE  CInv'
<1>1. UNCHANGED <<members, post, gone, untraced, stale, failed>>
  BY DEF Statement, Unaffected, chatVars, CountMembers, AskMember, CheckLimit, InsertMember,
         TargetIsMember, DeleteMember, Fails
<1>2. /\ AtWork(t)
      /\ \A s \in Tasks \ {t} : task'[s] = task[s] /\ dels'[s] = dels[s]
  BY DEF Statement, CountMembers, AskMember, CheckLimit, InsertMember, TargetIsMember,
         DeleteMember, Fails, AtWork, At, Goto, Finish, IInv, Typed
<1>3. ASSUME t \in Removers
      PROVE  \/ /\ task'[t].pc = "idle" /\ dels'[t] = {}
             \/ /\ At(t, "target?") /\ task[t].left \subseteq members
                /\ task'[t].pc = "delete" /\ task'[t].left = task[t].left /\ dels'[t] = dels[t]
             \/ /\ At(t, "delete") /\ task'[t].pc = "commitDelete"
                /\ task'[t].left = task[t].left /\ dels'[t] = task[t].left \intersect members
  <2>1. TargetIsMember(t) \/ DeleteMember(t) \/ Fails(t)
    BY <1>3, TasksAssumption DEF Statement
  <2>2. QED
    BY <2>1 DEF TargetIsMember, DeleteMember, Fails, Finish, Goto, Rest, IInv, Typed, TaskStates
<1>4. ChatTyped'
  BY <1>1 DEF CInv, ChatTyped
<1>5. OneAtATime' /\ Owed'
  BY <1>1, <1>2 DEF CInv, OneAtATime, Owed, AtWork, At
<1>6. RemovesOne'
  BY <1>2, <1>3 DEF CInv, RemovesOne, AtWork, At, Tasks
<1>7. RemovalIsTrue'
  BY <1>1, <1>2, <1>3 DEF CInv, RemovalIsTrue, At, Tasks
<1>8. QED
  BY <1>4, <1>5, <1>6, <1>7 DEF CInv

\* Who is removed was in the room: others who are to remove him are told apart,
\* and the removal is owed its record.
LEMMA CommitDeletedKeeps ==
  ASSUME IInv, CInv, NEW t \in Removers, CommitDeleted(t)
  PROVE  CInv'
<1>. t \in Tasks
  BY DEF Tasks
<1>1. /\ At(t, "commitDelete") /\ AtWork(t)
      /\ members' = members \ dels[t]
      /\ task'[t] = Rest("idle") /\ dels'[t] = {}
      /\ \A s \in Tasks \ {t} : task'[s] = task[s] /\ dels'[s] = dels[s]
  BY DEF CommitDeleted, CommitDelete, Finish, At, AtWork, IInv, Typed
<1>2. PICK x \in Users : task[t].left = {x}
  BY <1>1 DEF CInv, RemovesOne
<1>3. /\ post' = [post EXCEPT ![t].step = "audit", ![t].user = x]
      /\ gone' = [s \in Tasks |-> gone[s] \/ Target(s) \intersect dels[t] # {}]
      /\ untraced' = Followed(untraced \union dels[t]) /\ stale' = Followed(members')
      /\ UNCHANGED failed
  BY <1>2 DEF CommitDeleted
<1>4. dels[t] \subseteq {x} /\ post[t] = Nothing
  BY <1>1, <1>2 DEF CInv, RemovesOne, OneAtATime
<1>5. /\ post'[t] = [post[t] EXCEPT !.step = "audit", !.user = x]
      /\ post'[t].step = "audit" /\ post'[t].user = x
      /\ \A s \in Tasks \ {t} : post'[s] = post[s]
  BY <1>3 DEF CInv, ChatTyped
<1>6. ChatTyped'
  <2>1. /\ gone' \in [Tasks -> BOOLEAN]
        /\ untraced' \in SUBSET Users /\ stale' \in SUBSET members' /\ failed' \in BOOLEAN
    BY <1>3 DEF CInv, ChatTyped, Followed, IInv, Typed
  <2>2. post' \in [Tasks -> [step : Steps, user : Users \union {0}, audience : SUBSET Users]]
    BY <1>3 DEF CInv, ChatTyped, Steps
  <2>3. QED
    BY <2>1, <2>2 DEF ChatTyped
<1>7. OneAtATime'
  <2>1. task'[t].pc = "idle"
    BY <1>1 DEF Rest
  <2>2. QED
    BY <1>1, <1>5, <2>1 DEF CInv, OneAtATime, AtWork
<1>8. RemovesOne'
  BY <1>1 DEF CInv, RemovesOne, AtWork, At, Rest, Tasks
<1>9. ASSUME NEW s \in Tasks
      PROVE  gone'[s] <=> (gone[s] \/ Target(s) \intersect dels[t] # {})
  BY <1>3 DEF CInv, ChatTyped
<1>10. RemovalIsTrue'
  <2>1. gone'[t]
    BY <1>1, <1>2, <1>4, <1>9 DEF CInv, RemovalIsTrue, Target
  <2>2. ASSUME NEW s \in Removers \ {t}
        PROVE  /\ At(s, "delete")' => task'[s].left \subseteq members' \/ gone'[s]
               /\ At(s, "commitDelete")' => task'[s].left \subseteq dels'[s] \/ gone'[s]
               /\ post'[s].step = "audit" => gone'[s]
    BY <1>1, <1>5, <1>9 DEF CInv, RemovalIsTrue, Target, At, Tasks
  <2>3. QED
    BY <1>1, <2>1, <2>2 DEF RemovalIsTrue, At, Rest
<1>11. Owed'
  <2>1. failed' => untraced' = {} /\ stale' = {}
    BY <1>3 DEF Followed
  <2>2. ASSUME NEW y \in untraced'
        PROVE  \E s \in Tasks : post'[s].step = "audit" /\ post'[s].user = y
    <3>1. y \in untraced \/ y = x
      BY <1>3, <1>4 DEF Followed
    <3>2. CASE y = x
      BY <3>2, <1>5
    <3>3. CASE y \in untraced
      BY <3>3, <1>4, <1>5 DEF CInv, Owed, Nothing
    <3>4. QED
      BY <3>1, <3>2, <3>3
  <2>3. QED
    BY <2>1, <2>2, <1>5 DEF Owed
<1>12. QED
  BY <1>6, <1>7, <1>8, <1>10, <1>11 DEF CInv

\* Who is added disturbs nobody, and everybody is to be told of him.
LEMMA CommitAddedKeeps ==
  ASSUME IInv, CInv, NEW t \in Adders, CommitAdded(t)
  PROVE  CInv'
<1>. t \in Tasks /\ t \notin Removers
  BY TasksAssumption DEF Tasks
<1>1. /\ AtWork(t)
      /\ members \subseteq members' /\ members' \subseteq Users
      /\ task'[t] = Rest("idle")
      /\ \A s \in Tasks \ {t} : task'[s] = task[s] /\ dels'[s] = dels[s]
  BY DEF CommitAdded, CommitAdd, Finish, At, AtWork, IInv, Typed
<1>2. /\ post' = [post EXCEPT ![t].step = "audience"]
      /\ stale' = Followed(members')
      /\ UNCHANGED <<gone, untraced, failed>>
  BY DEF CommitAdded
<1>3. post[t] = Nothing
  BY <1>1 DEF CInv, OneAtATime
<1>4. /\ post'[t].step = "audience"
      /\ \A s \in Tasks \ {t} : post'[s] = post[s]
  BY <1>2 DEF CInv, ChatTyped
<1>5. ChatTyped'
  <2>1. post' \in [Tasks -> [step : Steps, user : Users \union {0}, audience : SUBSET Users]]
    BY <1>2 DEF CInv, ChatTyped, Steps
  <2>2. QED
    BY <2>1, <1>1, <1>2 DEF CInv, ChatTyped, Followed
<1>6. OneAtATime'
  BY <1>1, <1>2, <1>4 DEF CInv, OneAtATime, AtWork, At, Rest
<1>7. RemovesOne' /\ RemovalIsTrue'
  BY <1>1, <1>2, <1>4 DEF CInv, RemovesOne, RemovalIsTrue, AtWork, At, Tasks
<1>8. Owed'
  <2>1. \A y \in untraced' : \E s \in Tasks : post'[s].step = "audit" /\ post'[s].user = y
    BY <1>2, <1>3, <1>4 DEF CInv, Owed, Nothing
  <2>2. failed' => untraced' = {} /\ stale' = {}
    BY <1>2 DEF CInv, Owed, Followed
  <2>3. QED
    BY <2>1, <2>2, <1>4 DEF Owed
<1>9. QED
  BY <1>5, <1>6, <1>7, <1>8 DEF CInv

\* What a request does after its commit.
LEMMA AfterKeeps ==
  ASSUME IInv, CInv, NEW t \in Tasks,
         AuditRecord(t) \/ ReadAudience(t) \/ Emit(t) \/ Forget(t)
  PROVE  CInv'
<1>1. UNCHANGED <<members, task, adds, dels>>
  BY DEF AuditRecord, ReadAudience, Emit, Forget, vars
<1>2. ~AtWork(t)
  <2>1. post[t] # Nothing
    BY DEF AuditRecord, ReadAudience, Emit, Forget, Nothing
  <2>2. QED
    BY <2>1 DEF CInv, OneAtATime
<1>3. PICK p \in [step : Steps \ {"audit"}, user : Users \union {0}, audience : SUBSET Users] :
        post' = [post EXCEPT ![t] = p]
  <2>1. CASE AuditRecord(t)
    BY <2>1 DEF AuditRecord, CInv, ChatTyped, Steps
  <2>2. CASE ReadAudience(t)
    BY <2>2 DEF ReadAudience, CInv, ChatTyped, Steps, Nothing, Followed, IInv, Typed
  <2>3. CASE Emit(t) \/ Forget(t)
    BY <2>3 DEF Emit, Forget, CInv, ChatTyped, Steps, Nothing
  <2>4. QED
    BY <2>1, <2>2, <2>3
<1>4. /\ gone' \in [Tasks -> BOOLEAN]
      /\ \A s \in Tasks \ {t} : gone'[s] = gone[s]
  BY DEF AuditRecord, ReadAudience, Emit, Forget, CInv, ChatTyped
<1>5. /\ untraced' \subseteq untraced /\ stale' \subseteq stale /\ failed' \in BOOLEAN
      /\ failed' => untraced' = {} /\ stale' = {}
  <2>1. CASE Fail
    BY <2>1 DEF Fail
  <2>2. CASE UNCHANGED failed /\ untraced' \subseteq untraced /\ stale' \subseteq stale
    BY <2>2 DEF CInv, ChatTyped, Owed
  <2>3. Fail \/ (UNCHANGED failed /\ untraced' \subseteq untraced /\ stale' \subseteq stale)
    BY DEF AuditRecord, ReadAudience, Emit, Forget
  <2>4. QED
    BY <2>1, <2>2, <2>3
<1>6. ChatTyped'
  BY <1>1, <1>3, <1>4, <1>5 DEF CInv, ChatTyped
<1>7. /\ post'[t] = p
      /\ \A s \in Tasks \ {t} : post'[s] = post[s]
  BY <1>3 DEF CInv, ChatTyped
<1>8. OneAtATime' /\ RemovesOne'
  BY <1>1, <1>2, <1>7 DEF CInv, OneAtATime, RemovesOne, AtWork, At
<1>9. RemovalIsTrue'
  BY <1>1, <1>2, <1>4, <1>7 DEF CInv, RemovalIsTrue, At, AtWork, Tasks
<1>10. ASSUME NEW x \in untraced'
       PROVE  \E s \in Tasks : post'[s].step = "audit" /\ post'[s].user = x
  <2>1. PICK s \in Tasks : post[s].step = "audit" /\ post[s].user = x
    BY <1>5, <1>10 DEF CInv, Owed
  <2>2. s # t
    BY <2>1, <1>10 DEF AuditRecord, ReadAudience, Emit, Forget, Fail
  <2>3. QED
    BY <2>1, <2>2, <1>7
<1>11. ASSUME NEW x \in stale'
       PROVE  \E s \in Tasks : \/ post'[s].step \in {"audit", "audience"}
                               \/ post'[s].step = "emit" /\ x \in post'[s].audience
  <2>1. PICK s \in Tasks : \/ post[s].step \in {"audit", "audience"}
                           \/ post[s].step = "emit" /\ x \in post[s].audience
    BY <1>5, <1>11 DEF CInv, Owed
  <2>2. CASE s # t
    BY <2>1, <2>2, <1>7
  <2>3. CASE s = t
    <3>1. CASE AuditRecord(t)
      BY <3>1 DEF AuditRecord, CInv, ChatTyped
    <3>2. CASE ReadAudience(t)
      <4>1. x \in stale /\ ~failed
        BY <3>2, <1>5, <1>11 DEF CInv, Owed
      <4>2. post'[t] = [Nothing EXCEPT !.step = "emit", !.audience = members]
        BY <3>2, <4>1 DEF ReadAudience, Followed, CInv, ChatTyped
      <4>3. QED
        BY <4>1, <4>2 DEF CInv, ChatTyped, Nothing
    <3>3. CASE Emit(t)
      BY <2>1, <2>3, <3>3, <1>11 DEF Emit
    <3>4. CASE Forget(t)
      BY <3>4, <1>11 DEF Forget, Fail
    <3>5. QED
      BY <3>1, <3>2, <3>3, <3>4
  <2>4. QED
    BY <2>2, <2>3
<1>12. Owed'
  BY <1>5, <1>10, <1>11 DEF Owed
<1>13. QED
  BY <1>6, <1>8, <1>9, <1>12 DEF CInv

-----------------------------------------------------------------------------
\* GroupChat's inductive invariant, next to that of GroupRoom: a removal under
\* way is of a member or of somebody who has just been removed, and what is
\* missing after a commit is owed by some request.
THEOREM ChatInvariance == ChatSpec => []CInv
<1>1. IInv /\ CInv /\ [ChatNext]_allVars => CInv'
  <2> SUFFICES ASSUME IInv, CInv, [ChatNext]_allVars
               PROVE  CInv'
    OBVIOUS
  <2>1. CASE UNCHANGED allVars
    BY <2>1 DEF allVars, vars, chatVars, CInv, ChatTyped, OneAtATime, RemovesOne, RemovalIsTrue,
                Owed, AtWork, At
  <2>2. CASE ChatNext
    BY <2>2, CreateKeepsChat, BeginKeepsChat, StatementKeepsChat, CommitAddedKeeps,
       CommitDeletedKeeps, AfterKeeps DEF ChatNext
  <2>3. QED
    BY <2>1, <2>2
<1>2. ChatSpec => []IInv
  BY ChatIsRoom, Invariance, PTL
<1>3. QED
  BY <1>1, <1>2, InitCInv, PTL DEF ChatSpec

\* No record of a removal is untrue; when every request is through and nothing
\* failed, every removal has its record and every member was told.
THEOREM AllIsFollowedUp == ChatSpec => []FollowedUp
<1>1. CInv => FollowedUp
  BY DEF CInv, RemovalIsTrue, Owed, FollowedUp, Nothing
<1>2. QED
  BY <1>1, ChatInvariance, PTL

\* Types of the chat and of its room.
THEOREM ChatTypeCorrect == ChatSpec => []ChatTypeOK
<1>1. CInv /\ IInv /\ TypeOK => ChatTypeOK
  BY DEF CInv, ChatTyped, OneAtATime, ChatTypeOK, IInv, Typed
<1>2. QED
  BY <1>1, ChatInvariance, ChatIsRoom, Invariance, TypeCorrect, PTL
=============================================================================
