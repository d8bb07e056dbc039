----------------------------- MODULE UsersProofs -----------------------------
(***************************************************************************)
(* Facts about users: their accounts (Accounts), for any number of         *)
(* registrations and patches, and their friendships, blocks and rooms      *)
(* (Friendship), for any number of requests served at once.  The two       *)
(* modules share no state.                                                 *)
(***************************************************************************)
EXTENDS Accounts, Friendship, FiniteSetTheorems, TLAPS

-----------------------------------------------------------------------------
\* Accounts.

\* The unique constraint lets a row be inserted only under a free name.
FreeUntilCommit == \A t \in inserting : owner[NameOf[t]] = Nobody

\* Registrations and patches go their own ways.
StepsApart ==
  /\ \A t \in Registrations : step[t] \notin {"update", "patched"}
  /\ \A t \in Patches : step[t] \notin {"insert", "commit", "created", "taken"}

\* Values that answered patches have given to f.
Given(f) == {PatchOf[t][f] : t \in {p \in Patches : step[p] = "patched" /\ f \in DOMAIN PatchOf[p]}}

\* Before a field is given a value everybody who has read it has its old one.
OldUntilGiven ==
  \A f \in Fields : Given(f) = {} =>
    /\ profile[f] = Old
    /\ \A t \in Patches : read[t][f] = Old

AccountsInv ==
  /\ AccountsTypeOK /\ FreeUntilCommit /\ StepsApart /\ OldUntilGiven
  /\ AnswersAreTrue /\ PatchesAreKept

\* What the part about patches says of one field.
Kept(f) ==
  /\ Given(f) # {} => profile[f] \in Given(f)
  /\ Given(f) = {} => profile[f] = Old /\ \A t \in Patches : read[t][f] = Old

\* That part field by field.
LEMMA FieldByField == (OldUntilGiven /\ PatchesAreKept) <=> \A f \in Fields : Kept(f)
  BY DEF OldUntilGiven, PatchesAreKept, Kept, Given

\* Nobody has asked for anything at the start.
LEMMA InitAccountsInv == AccountsInit => AccountsInv
<1> SUFFICES ASSUME AccountsInit
             PROVE  AccountsInv
  OBVIOUS
<1>1. \A t \in UserTasks : step[t] = "idle"
  BY DEF AccountsInit
<1>2. \A t \in Patches : read[t] = [f \in Fields |-> Old]
  BY DEF AccountsInit
<1>3. AccountsTypeOK
  BY <1>1, <1>2 DEF AccountsInit, AccountsTypeOK, UserTasks
<1>4. FreeUntilCommit /\ StepsApart /\ AnswersAreTrue
  BY <1>1 DEF AccountsInit, FreeUntilCommit, StepsApart, AnswersAreTrue, UserTasks
<1>5. \A f \in Fields : Kept(f)
  BY <1>1, <1>2 DEF AccountsInit, Kept, Given, UserTasks
<1>6. QED
  BY <1>3, <1>4, <1>5, FieldByField DEF AccountsInv

\* A step that leaves profiles alone and is no answer to a patch keeps what
\* AccountsInv says of patches.
LEMMA PatchesApart ==
  ASSUME AccountsInv, NEW t \in UserTasks, NEW s, StepTo(t, s), step[t] # "patched", s # "patched",
         UNCHANGED profile,
         \A p \in Patches : read'[p] = read[p] \/ read'[p] = profile
  PROVE  OldUntilGiven' /\ PatchesAreKept'
<1>1. \A p \in Patches : step'[p] = "patched" <=> step[p] = "patched"
  BY DEF StepTo, AccountsInv, AccountsTypeOK, UserTasks
<1>2. \A f \in Fields : Given(f)' = Given(f)
  BY <1>1 DEF Given
<1>3. \A f \in Fields : Kept(f)
  BY FieldByField DEF AccountsInv
<1>4. \A f \in Fields : Kept(f)'
  BY <1>2, <1>3 DEF Kept
<1>5. QED
  BY <1>4 DEF Kept, Given, OldUntilGiven, PatchesAreKept

\* Each step of a registration.
LEMMA RegisterKeeps ==
  ASSUME AccountsInv, NEW t \in UserTasks, Register(t)
  PROVE  AccountsInv'
<1>1. t \in Registrations /\ t # Nobody
  BY NobodyAssumption, TasksAssumption DEF Register, LookUp, InsertUser, CommitUser, AccountsInv,
     StepsApart, UserTasks
<1>2. NameOf[t] \in Names
  BY <1>1 DEF Names
<1> USE <1>1, <1>2, TasksAssumption, NobodyAssumption
<1>3. CASE LookUp(t)
  <2>1. OldUntilGiven' /\ PatchesAreKept'
    BY <1>3, PatchesApart DEF LookUp
  <2>2. AccountsTypeOK' /\ FreeUntilCommit' /\ StepsApart' /\ AnswersAreTrue'
    BY <1>3 DEF LookUp, StepTo, AccountsInv, AccountsTypeOK, FreeUntilCommit, StepsApart, AnswersAreTrue,
       UserTasks, Answers
  <2>3. QED
    BY <2>1, <2>2 DEF AccountsInv
<1>4. CASE InsertUser(t)
  <2>1. OldUntilGiven' /\ PatchesAreKept'
    BY <1>4, PatchesApart DEF InsertUser
  <2>2. AccountsTypeOK' /\ FreeUntilCommit' /\ StepsApart' /\ AnswersAreTrue'
    BY <1>4 DEF InsertUser, StepTo, AccountsInv, AccountsTypeOK, FreeUntilCommit, StepsApart, AnswersAreTrue,
       UserTasks, Answers
  <2>3. QED
    BY <2>1, <2>2 DEF AccountsInv
<1>5. CASE CommitUser(t)
  <2>1. OldUntilGiven' /\ PatchesAreKept'
    BY <1>5, PatchesApart DEF CommitUser
  <2>2. AccountsTypeOK' /\ FreeUntilCommit' /\ StepsApart' /\ AnswersAreTrue'
    BY <1>5 DEF CommitUser, StepTo, AccountsInv, AccountsTypeOK, FreeUntilCommit, StepsApart, AnswersAreTrue,
       UserTasks, Answers
  <2>3. QED
    BY <2>1, <2>2 DEF AccountsInv
<1>6. QED
  BY <1>3, <1>4, <1>5 DEF Register

\* Each step of a patch.
LEMMA UpdateKeeps ==
  ASSUME AccountsInv, NEW t \in UserTasks, UpdateMe(t)
  PROVE  AccountsInv'
<1>1. t \in Patches
  BY TasksAssumption DEF UpdateMe, ReadUser, UpdateUser, AccountsInv, StepsApart, UserTasks
<1> USE <1>1, TasksAssumption
<1>2. CASE ReadUser(t)
  <2>1. OldUntilGiven' /\ PatchesAreKept'
    BY <1>2, PatchesApart DEF ReadUser, AccountsInv, AccountsTypeOK
  <2>2. AccountsTypeOK' /\ FreeUntilCommit' /\ StepsApart' /\ AnswersAreTrue'
    BY <1>2 DEF ReadUser, StepTo, AccountsInv, AccountsTypeOK, FreeUntilCommit, StepsApart, AnswersAreTrue,
       UserTasks, Answers
  <2>3. QED
    BY <2>1, <2>2 DEF AccountsInv
<1>3. CASE UpdateUser(t)
  <2>1. AccountsTypeOK' /\ FreeUntilCommit' /\ StepsApart' /\ AnswersAreTrue'
    BY <1>3 DEF UpdateUser, StepTo, AccountsInv, AccountsTypeOK, FreeUntilCommit, StepsApart, AnswersAreTrue,
       UserTasks, Answers
  <2>2. ASSUME NEW f \in Fields
        PROVE  Kept(f)'
    <3>1. Kept(f) /\ read' = read
      BY <1>3, FieldByField DEF AccountsInv, UpdateUser
    <3>2. /\ step'[t] = "patched"
          /\ \A p \in Patches \ {t} : step'[p] = step[p]
          /\ step[t] = "update"
      BY <1>3 DEF UpdateUser, StepTo, AccountsInv, AccountsTypeOK, UserTasks
    <3>3. profile'[f] = IF Written(t, f) THEN PatchOf[t][f] ELSE profile[f]
      BY <1>3 DEF UpdateUser
    <3>4. CASE f \in DOMAIN PatchOf[t]
      <4>1. Given(f)' = Given(f) \union {PatchOf[t][f]}
        BY <3>2, <3>4 DEF Given
      <4>2. QED
        BY <3>1, <3>3, <3>4, <4>1 DEF Kept, Written
    <3>5. CASE f \notin DOMAIN PatchOf[t]
      <4>1. Given(f)' = Given(f)
        BY <3>2, <3>5 DEF Given
      <4>2. QED
        BY <3>1, <3>3, <3>5, <4>1 DEF Kept, Written
    <3>6. QED
      BY <3>4, <3>5
  <2>3. OldUntilGiven' /\ PatchesAreKept'
    BY <2>2 DEF Kept, Given, OldUntilGiven, PatchesAreKept
  <2>4. QED
    BY <2>1, <2>3 DEF AccountsInv
<1>4. QED
  BY <1>2, <1>3 DEF UpdateMe

\* A request that fails is rolled back.
LEMMA FailureKeeps ==
  ASSUME AccountsInv, NEW t \in UserTasks, TaskFails(t)
  PROVE  AccountsInv'
<1>1. OldUntilGiven' /\ PatchesAreKept'
  BY PatchesApart DEF TaskFails, Answers
<1>2. AccountsTypeOK' /\ FreeUntilCommit' /\ StepsApart' /\ AnswersAreTrue'
  BY DEF TaskFails, StepTo, AccountsInv, AccountsTypeOK, FreeUntilCommit, StepsApart, AnswersAreTrue, UserTasks, Answers
<1>3. QED
  BY <1>1, <1>2 DEF AccountsInv

\* AccountsInv is an invariant of Accounts.
THEOREM AccountsInvariance == AccountsSpec => []AccountsInv
<1>1. ASSUME AccountsInv, [AccountsNext]_accountsVars
      PROVE  AccountsInv'
  <2>1. CASE AccountsNext
    BY <1>1, <2>1, RegisterKeeps, UpdateKeeps, FailureKeeps DEF AccountsNext
  <2>2. CASE UNCHANGED accountsVars
    BY <1>1, <2>2 DEF accountsVars, AccountsInv, AccountsTypeOK, FreeUntilCommit, StepsApart, OldUntilGiven, Given,
       AnswersAreTrue, PatchesAreKept
  <2>3. QED
    BY <1>1, <2>1, <2>2
<1>2. QED
  BY InitAccountsInv, <1>1, PTL DEF AccountsSpec

\* Types, and of several registrations of a name one at most is ahead of its
\* commit (username is unique, models/user.py:14; user_service.py:22-36).
THEOREM AccountsTypes == AccountsSpec => []AccountsTypeOK
  BY AccountsInvariance, PTL DEF AccountsInv

\* Of simultaneous registrations of a name the one told that it was created
\* has it, and the others are not told that a free name is taken
\* (user_service.py:25-36).
THEOREM RegistrationAnswers == AccountsSpec => []AnswersAreTrue
  BY AccountsInvariance, PTL DEF AccountsInv

\* No answered patch of a field is undone by a patch of another field
\* (user_service.py:92-102).
THEOREM PatchesSurvive == AccountsSpec => []PatchesAreKept
  BY AccountsInvariance, PTL DEF AccountsInv

-----------------------------------------------------------------------------
\* Friendship.
Requests == [from : Users, status : RequestStatus, pastBlock : BOOLEAN]
TaskStates == [pc : PCs, user : Users, req : 0..MaxRequests, new : BOOLEAN]

\* Types of the tables and of the tasks.
TablesTyped ==
  /\ friends \in SUBSET Both /\ blocks \in SUBSET Both
  /\ requests \in Seq(Requests)
  /\ rooms \in Nat
TasksTyped ==
  /\ task \in [Tasks -> TaskStates]
  /\ adds \in [Tasks -> SUBSET Both] /\ dels \in [Tasks -> SUBSET Both]
  /\ overlapped \in BOOLEAN

\* Uncommitted rows are those of the inserts of an accept, or of a first DELETE.
Flushed == {"findRoom", "commit"}
Holding == {"addSecond", "deleteOther"} \union Flushed
OwnRow(t) == <<task[t].user, Other(task[t].user)>>
OtherRow(t) == <<Other(task[t].user), task[t].user>>
HeldBy(t) ==
  /\ At(t, "addSecond") => adds[t] = {OtherRow(t)}
  /\ task[t].pc \in Flushed => adds[t] = Both
  /\ task[t].pc \notin Flushed \union {"addSecond"} => adds[t] = {}
  /\ dels[t] \subseteq IF At(t, "deleteOther") THEN {OwnRow(t)} ELSE {}

\* Who handles a request handles one that exists, and was sent to him.
Found == {"accept", "reject", "addFirst", "addSecond"} \union Flushed
HandlesRequest(t) ==
  /\ task[t].pc \in Found \union {"accept?", "reject?"} => task[t].req \in DOMAIN requests
  /\ task[t].pc \in Found => requests[task[t].req].from = Other(task[t].user)

\* Those who are about to create a room.
Creating == {t \in Tasks : task[t].pc = "createRoom" \/ (task[t].pc = "commit" /\ task[t].new)}

\* Who is about to insert a request or a room has a place left for it.
WithinBounds ==
  /\ Len(requests) + Cardinality(Applying) <= MaxRequests
  /\ rooms + Cardinality(Creating) <= Cardinality(Tasks)

Serves(t) == task[t].pc \notin Resting
OneServed == \A s, t \in Tasks : Serves(s) /\ Serves(t) => s = t

\* What a request has found stays true until it acts on it.
Knows(t) ==
  /\ task[t].pc \in {"pending?", "insert"} => blocks = {}
  /\ task[t].pc = "insert" => ~PendingBetween(task[t].user)
  /\ task[t].pc \in Found => requests[task[t].req].status = "pending"
  /\ t \in Creating => rooms = 0
  /\ task[t].pc = "deleteOther" =>
       dels[t] = {<<task[t].user, Other(task[t].user)>>} \intersect friends

\* What ConsistentOneByOne promises of the tables.
Consistent ==
  /\ SymmetricFriendship /\ FriendsWereAccepted /\ SinglePending
  /\ OneSingleRoom /\ BlockRespected

FriendsInv ==
  /\ TablesTyped /\ TasksTyped
  /\ \A t \in Tasks : HeldBy(t) /\ HandlesRequest(t)
  /\ WithinBounds
  /\ ~overlapped => OneServed /\ Consistent /\ \A t \in Tasks : Knows(t)

-----------------------------------------------------------------------------
\* The two rows of a friendship, seen from either side.
LEMMA TwoRows ==
  ASSUME NEW u \in Users
  PROVE  /\ Other(u) \in Users /\ Other(u) # u /\ Other(Other(u)) = u
         /\ {<<u, Other(u)>>, <<Other(u), u>>} = Both
  BY UsersAssumption DEF Users, Other, Both

\* Requests are neither deleted nor given another sender.
SendersKept == \A r \in DOMAIN requests : r \in DOMAIN requests' /\ requests'[r].from = requests[r].from

\* A row of friend_requests with another status.
LEMMA SetStatus ==
  ASSUME requests \in Seq(Requests), NEW r \in DOMAIN requests, NEW st \in RequestStatus,
         requests' = [requests EXCEPT ![r].status = st]
  PROVE  /\ requests' \in Seq(Requests)
         /\ Len(requests') = Len(requests) /\ DOMAIN requests' = DOMAIN requests
         /\ requests'[r] = [from |-> requests[r].from, status |-> st,
                            pastBlock |-> requests[r].pastBlock]
         /\ \A q \in DOMAIN requests : q # r => requests'[q] = requests[q]
<1> DEFINE row == [from |-> requests[r].from, status |-> st, pastBlock |-> requests[r].pastBlock]
<1>1. /\ requests[r] \in Requests
      /\ DOMAIN requests = 1..Len(requests) /\ Len(requests) \in Nat
  OBVIOUS
<1>2. [requests[r] EXCEPT !.status = st] = row
  BY <1>1 DEF Requests
<1>3. requests' = [requests EXCEPT ![r] = row]
  BY <1>2
<1>4. row \in Requests
  BY <1>1 DEF Requests
<1> HIDE DEF row
<1>5. requests' \in Seq(Requests) /\ Len(requests') = Len(requests)
  BY <1>1, <1>3, <1>4
<1>6. QED
  BY <1>1, <1>3, <1>5 DEF row

\* What becomes of a task that goes on, and of one that answers.
LEMMA GotoIs ==
  ASSUME TasksTyped, NEW t \in Tasks, NEW s \in PCs, Goto(t, s)
  PROVE  /\ task' \in [Tasks -> TaskStates]
         /\ task'[t] = [pc |-> s, user |-> task[t].user, req |-> task[t].req, new |-> task[t].new]
         /\ \A q \in Tasks \ {t} : task'[q] = task[q]
<1> DEFINE r == [pc |-> s, user |-> task[t].user, req |-> task[t].req, new |-> task[t].new]
<1>1. task[t] \in TaskStates
  BY DEF TasksTyped
<1>2. [task[t] EXCEPT !.pc = s] = r
  BY <1>1 DEF TaskStates
<1>3. task' = [task EXCEPT ![t] = r]
  BY <1>2 DEF Goto
<1>4. r \in TaskStates
  BY <1>1 DEF TaskStates
<1> HIDE DEF r
<1>5. /\ task' \in [Tasks -> TaskStates] /\ task'[t] = r
      /\ \A q \in Tasks \ {t} : task'[q] = task[q]
  BY <1>3, <1>4 DEF TasksTyped
<1>6. QED
  BY <1>5 DEF r

LEMMA FinishIs ==
  ASSUME TasksTyped, NEW t \in Tasks, NEW s \in PCs, Finish(t, s)
  PROVE  /\ task' \in [Tasks -> TaskStates]
         /\ adds' \in [Tasks -> SUBSET Both] /\ dels' \in [Tasks -> SUBSET Both]
         /\ task'[t] = [pc |-> s, user |-> A, req |-> 0, new |-> FALSE]
         /\ adds'[t] = {} /\ dels'[t] = {}
         /\ \A q \in Tasks \ {t} : task'[q] = task[q] /\ adds'[q] = adds[q] /\ dels'[q] = dels[q]
<1> DEFINE r == [pc |-> s, user |-> A, req |-> 0, new |-> FALSE]
<1>1. task' = [task EXCEPT ![t] = r]
  BY DEF Finish
<1>2. r \in TaskStates
  BY MaxAssumption DEF TaskStates, Users
<1> HIDE DEF r
<1>3. /\ task' \in [Tasks -> TaskStates] /\ task'[t] = r
      /\ \A q \in Tasks \ {t} : task'[q] = task[q]
  BY <1>1, <1>2 DEF TasksTyped
<1>4. /\ adds' \in [Tasks -> SUBSET Both] /\ dels' \in [Tasks -> SUBSET Both]
      /\ adds'[t] = {} /\ dels'[t] = {}
      /\ \A q \in Tasks \ {t} : adds'[q] = adds[q] /\ dels'[q] = dels[q]
  BY DEF Finish, TasksTyped
<1>5. QED
  BY <1>3, <1>4 DEF r

\* Numbers of tasks.
LEMMA Counting ==
  /\ Cardinality(Tasks) \in Nat
  /\ \A S \in SUBSET Tasks : IsFiniteSet(S) /\ Cardinality(S) \in Nat
  /\ \A S, R \in SUBSET Tasks : S \subseteq R => Cardinality(S) <= Cardinality(R)
  /\ \A S \in SUBSET Tasks, t \in Tasks :
       /\ Cardinality(S \union {t}) <= Cardinality(S) + 1
       /\ t \in S => Cardinality(S \ {t}) = Cardinality(S) - 1
<1>1. \A S \in SUBSET Tasks : IsFiniteSet(S)
  BY FiniteAssumption, FS_Subset
<1>2. \A S \in SUBSET Tasks : Cardinality(S) \in Nat
  BY <1>1, FS_CardinalityType
<1>3. Cardinality(Tasks) \in Nat
  BY <1>2
<1>4. \A S, R \in SUBSET Tasks : S \subseteq R => Cardinality(S) <= Cardinality(R)
  BY <1>1, FS_Subset
<1>5. ASSUME NEW S \in SUBSET Tasks, NEW t \in Tasks
      PROVE  /\ Cardinality(S \union {t}) <= Cardinality(S) + 1
             /\ t \in S => Cardinality(S \ {t}) = Cardinality(S) - 1
  <2>1. IsFiniteSet(S) /\ Cardinality(S) \in Nat
    BY <1>1, <1>2
  <2>2. Cardinality(S \union {t}) = IF t \in S THEN Cardinality(S) ELSE Cardinality(S) + 1
    BY <2>1, FS_AddElement
  <2>3. Cardinality(S \ {t}) = IF t \in S THEN Cardinality(S) - 1 ELSE Cardinality(S)
    BY <2>1, FS_RemoveElement
  <2>4. QED
    BY <2>1, <2>2, <2>3
<1>6. QED
  BY <1>1, <1>2, <1>3, <1>4, <1>5

\* The step of a request, of which there was one at most unless some
\* overlapped, changes what it knows and nothing others hold: FriendsInv is
\* kept if the tables are and the request fits them.
LEMMA ServedStep ==
  ASSUME FriendsInv, NEW t \in Tasks, Serves(t), UNCHANGED overlapped,
         task' \in [Tasks -> TaskStates],
         adds' \in [Tasks -> SUBSET Both], dels' \in [Tasks -> SUBSET Both],
         \A q \in Tasks \ {t} : task'[q] = task[q] /\ adds'[q] = adds[q] /\ dels'[q] = dels[q],
         TablesTyped', SendersKept,
         HeldBy(t)', HandlesRequest(t)', WithinBounds',
         ~overlapped => Consistent' /\ Knows(t)'
  PROVE  FriendsInv'
<1>1. TasksTyped'
  BY DEF FriendsInv, TasksTyped
<1>2. \A q \in Tasks : HeldBy(q)' /\ HandlesRequest(q)'
  <2>1. ASSUME NEW q \in Tasks, q # t
        PROVE  HeldBy(q)' /\ HandlesRequest(q)'
    <3>1. /\ task'[q] = task[q] /\ adds'[q] = adds[q] /\ dels'[q] = dels[q]
          /\ HeldBy(q) /\ HandlesRequest(q)
      BY <2>1 DEF FriendsInv
    <3>2. HeldBy(q)'
      BY <3>1 DEF HeldBy, OwnRow, OtherRow, At
    <3>3. HandlesRequest(q)'
      BY <3>1 DEF HandlesRequest, SendersKept, Found
    <3>4. QED
      BY <3>2, <3>3
  <2>2. QED
    BY <2>1
<1>3. ASSUME ~overlapped
      PROVE  OneServed' /\ \A q \in Tasks : Knows(q)'
  <2>1. \A q \in Tasks \ {t} : task[q].pc \in Resting
    BY <1>3 DEF FriendsInv, OneServed, Serves
  <2>2. \A q \in Tasks \ {t} : task'[q].pc \in Resting
    BY <2>1
  <2>3. OneServed'
    BY <2>2 DEF OneServed, Serves
  <2>4. \A q \in Tasks \ {t} : Knows(q)'
    BY <2>2 DEF Knows, Resting, Found, Flushed, Creating
  <2>5. QED
    BY <1>3, <2>3, <2>4
<1>4. QED
  BY <1>1, <1>2, <1>3 DEF FriendsInv

\* A step that creates no row keeps the bounds if nobody new is about to
\* create one; with no room there is a place for every task.
LEMMA BoundsKept ==
  ASSUME FriendsInv, NEW t \in Tasks, Len(requests') = Len(requests), UNCHANGED rooms,
         \A q \in Tasks \ {t} : task'[q] = task[q],
         t \in Applying' => t \in Applying,
         t \in Creating' => t \in Creating \/ rooms = 0
  PROVE  WithinBounds'
<1> DEFINE ap == Applying
           cr == Creating
           ap2 == Applying'
           cr2 == Creating'
<1>1. ap \in SUBSET Tasks /\ cr \in SUBSET Tasks /\ ap2 \in SUBSET Tasks /\ cr2 \in SUBSET Tasks
  BY DEF Applying, Creating
<1>2. ap2 \subseteq ap
  BY DEF Applying
<1>3. t \in cr2 => t \in cr \/ rooms = 0
  OBVIOUS
<1>4. cr2 \subseteq cr \union {t}
  BY DEF Creating
<1>5. Len(requests) + Cardinality(ap) <= MaxRequests /\ rooms + Cardinality(cr) <= Cardinality(Tasks)
  BY DEF FriendsInv, WithinBounds
<1>6. rooms \in Nat /\ Len(requests) \in Nat /\ MaxRequests \in Nat
  BY MaxAssumption DEF FriendsInv, TablesTyped
<1> HIDE DEF ap, cr, ap2, cr2
<1>7. Cardinality(ap2) <= Cardinality(ap)
  BY <1>1, <1>2, Counting
<1>8. rooms + Cardinality(cr2) <= Cardinality(Tasks)
  <2>1. CASE cr2 \subseteq cr
    BY <2>1, <1>1, <1>5, <1>6, Counting
  <2>2. CASE rooms = 0
    BY <2>2, <1>1, <1>6, Counting
  <2>3. QED
    BY <1>3, <1>4, <2>1, <2>2
<1>9. Len(requests) + Cardinality(ap2) <= MaxRequests
  BY <1>1, <1>5, <1>6, <1>7, Counting
<1>10. QED
  BY <1>8, <1>9 DEF ap2, cr2, WithinBounds

\* Who creates a room gives up the place he had for it.
LEMMA RoomCreated ==
  ASSUME FriendsInv, NEW t \in Tasks, t \in Creating, Len(requests') = Len(requests),
         rooms' = rooms + 1,
         \A q \in Tasks \ {t} : task'[q] = task[q],
         t \notin Applying', t \notin Creating'
  PROVE  WithinBounds'
<1> DEFINE ap == Applying
           cr == Creating
           ap2 == Applying'
           cr2 == Creating'
<1>1. ap \in SUBSET Tasks /\ cr \in SUBSET Tasks /\ ap2 \in SUBSET Tasks
  BY DEF Applying, Creating
<1>2. ap2 \subseteq ap /\ cr2 = cr \ {t} /\ t \in cr
  BY DEF Applying, Creating
<1>3. /\ Len(requests) + Cardinality(ap) <= MaxRequests
      /\ rooms + Cardinality(cr) <= Cardinality(Tasks)
      /\ rooms \in Nat /\ Len(requests) \in Nat /\ MaxRequests \in Nat
  BY MaxAssumption DEF FriendsInv, WithinBounds, TablesTyped
<1> HIDE DEF ap, cr, ap2, cr2
<1>4. Cardinality(ap2) <= Cardinality(ap) /\ Cardinality(cr \ {t}) = Cardinality(cr) - 1
  BY <1>1, <1>2, Counting
<1>5. /\ Cardinality(ap) \in Nat /\ Cardinality(ap2) \in Nat /\ Cardinality(cr) \in Nat
      /\ Cardinality(Tasks) \in Nat
  BY <1>1, Counting
<1>6. Len(requests) + Cardinality(ap2) <= MaxRequests
  BY <1>3, <1>4, <1>5
<1>7. rooms + 1 + Cardinality(cr2) <= Cardinality(Tasks)
  BY <1>2, <1>3, <1>4, <1>5
<1>8. QED
  BY <1>6, <1>7 DEF ap2, cr2, WithinBounds

\* A request that is answered holds nothing and is about nothing.
LEMMA AnsweredWith ==
  ASSUME FriendsInv, NEW t \in Tasks, Serves(t), UNCHANGED overlapped,
         NEW s \in Resting, Finish(t, s),
         TablesTyped', SendersKept, WithinBounds',
         ~overlapped => Consistent'
  PROVE  FriendsInv'
<1>1. TasksTyped /\ s \in PCs
  BY DEF FriendsInv, PCs
<1>2. /\ task'[t] = [pc |-> s, user |-> A, req |-> 0, new |-> FALSE]
      /\ adds'[t] = {} /\ dels'[t] = {}
  BY <1>1, FinishIs
<1>3. s \notin Flushed /\ s \notin Found
  BY DEF Resting, Flushed, Found
<1>4. HeldBy(t)' /\ HandlesRequest(t)'
  BY <1>2, <1>3 DEF HeldBy, HandlesRequest, Resting, At
<1>5. Knows(t)'
  BY <1>2, <1>3 DEF Knows, Resting, Creating
<1>6. /\ task' \in [Tasks -> TaskStates]
      /\ adds' \in [Tasks -> SUBSET Both] /\ dels' \in [Tasks -> SUBSET Both]
      /\ \A q \in Tasks \ {t} : task'[q] = task[q] /\ adds'[q] = adds[q] /\ dels'[q] = dels[q]
  BY <1>1, FinishIs
<1>7. QED
  BY <1>4, <1>5, <1>6, ServedStep

\* An answer that leaves no trace.
LEMMA Answered ==
  ASSUME FriendsInv, NEW t \in Tasks, Serves(t), UNCHANGED overlapped,
         NEW s \in Resting, Finish(t, s), UNCHANGED tables
  PROVE  FriendsInv'
<1>1. UNCHANGED <<friends, blocks, requests, rooms>>
  BY DEF tables
<1>2. TasksTyped /\ s \in PCs
  BY DEF FriendsInv, PCs
<1>3. /\ task'[t] = [pc |-> s, user |-> A, req |-> 0, new |-> FALSE]
      /\ \A q \in Tasks \ {t} : task'[q] = task[q]
  BY <1>2, FinishIs
<1>4. t \notin Applying' /\ t \notin Creating'
  BY <1>3 DEF Applying, Creating, Resting
<1>5. WithinBounds'
  BY <1>1, <1>3, <1>4, BoundsKept
<1>6. TablesTyped'
  BY <1>1 DEF FriendsInv, TablesTyped
<1>7. ~overlapped => Consistent'
  BY <1>1 DEF FriendsInv, Consistent, SymmetricFriendship, FriendsWereAccepted, SinglePending,
     OneSingleRoom, BlockRespected
<1>8. SendersKept
  BY <1>1 DEF SendersKept
<1>9. QED
  BY <1>5, <1>6, <1>7, <1>8, AnsweredWith

\* Where a query leads to.
QueryLeadsTo == {"blocked?", "pending?", "insert", "accept", "reject", "deleteOwn", "block", "createRoom"}

\* A query, whose answer is what the request knows from now on.
LEMMA WentOn ==
  ASSUME FriendsInv, NEW t \in Tasks, Serves(t), UNCHANGED overlapped,
         NEW s \in QueryLeadsTo, Goto(t, s), UNCHANGED <<adds, dels>>, UNCHANGED tables,
         task[t].pc \notin Holding,
         s \in {"blocked?", "pending?", "insert"} => t \in Applying,
         s \in Found => task[t].pc \in {"accept?", "reject?"} /\ MayHandle(t),
         s = "createRoom" => rooms = 0,
         ~overlapped /\ s \in {"pending?", "insert"} => blocks = {},
         s = "insert" => ~PendingBetween(task[t].user)
  PROVE  FriendsInv'
<1>1. UNCHANGED <<friends, blocks, requests, rooms>>
  BY DEF tables
<1>2. TasksTyped /\ s \in PCs
  BY DEF FriendsInv, PCs, QueryLeadsTo
<1>3. /\ task' \in [Tasks -> TaskStates]
      /\ task'[t] = [pc |-> s, user |-> task[t].user, req |-> task[t].req, new |-> task[t].new]
      /\ \A q \in Tasks \ {t} : task'[q] = task[q]
  BY <1>2, GotoIs
<1>4. WithinBounds'
  <2>1. t \in Applying' => t \in Applying
    BY <1>3 DEF Applying, QueryLeadsTo
  <2>2. t \in Creating' => rooms = 0
    BY <1>3 DEF Creating, QueryLeadsTo
  <2>3. QED
    BY <1>1, <1>3, <2>1, <2>2, BoundsKept
<1>5. HeldBy(t)'
  BY <1>3 DEF FriendsInv, HeldBy, QueryLeadsTo, Flushed, Holding, At
<1>6. HandlesRequest(t)'
  <2>1. CASE s \in Found
    <3>1. task[t].req \in DOMAIN requests /\ Other(requests[task[t].req].from) = task[t].user
      BY <2>1 DEF FriendsInv, HandlesRequest, MayHandle, ToUid
    <3>2. requests[task[t].req].from \in Users
      <4>1. requests \in Seq(Requests)
        BY DEF FriendsInv, TablesTyped
      <4>2. requests[task[t].req] \in Requests
        BY <3>1, <4>1
      <4>3. QED
        BY <4>2 DEF Requests
    <3>3. requests[task[t].req].from = Other(task[t].user)
      BY <3>1, <3>2, TwoRows
    <3>4. QED
      BY <1>1, <1>3, <3>1, <3>3 DEF HandlesRequest
  <2>2. CASE s \notin Found
    BY <1>3, <2>2 DEF HandlesRequest, QueryLeadsTo
  <2>3. QED
    BY <2>1, <2>2
<1>7. ~overlapped => Knows(t)'
  BY <1>1, <1>3 DEF Knows, MayHandle, QueryLeadsTo, PendingBetween, Creating, Found, Flushed
<1>8. TablesTyped'
  BY <1>1 DEF FriendsInv, TablesTyped
<1>9. ~overlapped => Consistent'
  BY <1>1 DEF FriendsInv, Consistent, SymmetricFriendship, FriendsWereAccepted, SinglePending,
     OneSingleRoom, BlockRespected
<1>10. /\ adds' \in [Tasks -> SUBSET Both] /\ dels' \in [Tasks -> SUBSET Both]
       /\ \A q \in Tasks \ {t} : adds'[q] = adds[q] /\ dels'[q] = dels[q]
  BY <1>2 DEF TasksTyped
<1>11. SendersKept
  BY <1>1 DEF SendersKept
<1>12. QED
  BY <1>3, <1>4, <1>5, <1>6, <1>7, <1>8, <1>9, <1>10, <1>11, ServedStep

-----------------------------------------------------------------------------
\* FriendService.apply
LEMMA ApplyKeeps ==
  ASSUME FriendsInv, NEW t \in Tasks, Apply(t), UNCHANGED overlapped
  PROVE  FriendsInv'
<1>1. Serves(t) /\ t \in Applying
  BY DEF Apply, ApplyIsFriend, ApplyIsBlocked, ApplyIsPending, ApplyInsert, At, Serves, Resting,
     Applying
<1>2. /\ "idle" \in Resting /\ "refused" \in Resting /\ "crashed" \in Resting
      /\ {"blocked?", "pending?", "insert"} \subseteq QueryLeadsTo
      /\ {"blocked?", "pending?", "insert"} \intersect Found = {}
      /\ {"friend?", "blocked?", "pending?"} \intersect Holding = {}
  BY DEF Resting, QueryLeadsTo, Found, Flushed, Holding
<1>3. CASE ApplyIsFriend(t)
  <2>1. CASE Finish(t, "idle") /\ UNCHANGED tables
    BY <1>1, <1>2, <2>1, Answered
  <2>2. CASE Goto(t, "blocked?") /\ UNCHANGED <<adds, dels>> /\ UNCHANGED tables
    BY <1>1, <1>2, <1>3, <2>2, WentOn DEF ApplyIsFriend, At
  <2>3. QED
    BY <1>3, <2>1, <2>2 DEF ApplyIsFriend
<1>4. CASE ApplyIsBlocked(t)
  <2>1. CASE Cardinality(blocks) = 0 /\ Goto(t, "pending?") /\ UNCHANGED <<adds, dels>> /\ UNCHANGED tables
    <3>1. blocks = {}
      <4>1. IsFiniteSet(Both)
        <5>1. IsFiniteSet({<<A, B>>})
          BY FS_Singleton
        <5>2. Both = {<<A, B>>} \union {<<B, A>>}
          BY DEF Both
        <5>3. QED
          BY <5>1, <5>2, FS_AddElement
      <4>2. IsFiniteSet(blocks)
        BY <4>1, FS_Subset DEF FriendsInv, TablesTyped
      <4>3. QED
        BY <2>1, <4>2, FS_EmptySet
    <3>2. task[t].pc = "blocked?"
      BY <1>4 DEF ApplyIsBlocked, At
    <3>3. QED
      BY <1>1, <1>2, <2>1, <3>1, <3>2, WentOn
  <2>2. CASE Finish(t, "refused") /\ UNCHANGED tables
    BY <1>1, <1>2, <2>2, Answered
  <2>3. CASE Finish(t, "crashed") /\ UNCHANGED tables
    BY <1>1, <1>2, <2>3, Answered
  <2>4. QED
    BY <1>4, <2>1, <2>2, <2>3 DEF ApplyIsBlocked
<1>5. CASE ApplyIsPending(t)
  <2>1. CASE Finish(t, "idle") /\ UNCHANGED tables
    BY <1>1, <1>2, <2>1, Answered
  <2>2. CASE ~PendingBetween(task[t].user) /\ Goto(t, "insert") /\ UNCHANGED <<adds, dels>> /\ UNCHANGED tables
    <3>1. ~overlapped => blocks = {}
      BY <1>5 DEF FriendsInv, Knows, ApplyIsPending, At
    <3>2. QED
      BY <1>1, <1>2, <1>5, <2>2, <3>1, WentOn DEF ApplyIsPending, At
  <2>3. QED
    BY <1>5, <2>1, <2>2 DEF ApplyIsPending
<1>6. CASE ApplyInsert(t)
  <2>1. PICK s \in Resting : Finish(t, s)
    BY <1>2, <1>6 DEF ApplyInsert
  <2>2. (blocks # {}) \in BOOLEAN
    OBVIOUS
  <2>3. PICK b \in BOOLEAN : b = (blocks # {})
    BY <2>2
  <2> DEFINE row == [from |-> task[t].user, status |-> "pending", pastBlock |-> b]
  <2>4. requests' = Append(requests, row) /\ UNCHANGED <<friends, blocks, rooms>>
    BY <1>6, <2>3 DEF ApplyInsert
  <2>5. row \in Requests
    BY DEF FriendsInv, TasksTyped, TaskStates, Requests, RequestStatus
  <2>6. requests \in Seq(Requests)
    BY DEF FriendsInv, TablesTyped
  <2>7. row.status = "pending" /\ row.pastBlock = b
    OBVIOUS
  <2> HIDE DEF row
  <2>8. /\ requests' \in Seq(Requests)
        /\ Len(requests) \in Nat /\ Len(requests') = Len(requests) + 1
        /\ DOMAIN requests = 1..Len(requests) /\ DOMAIN requests' = 1..(Len(requests) + 1)
        /\ requests'[Len(requests) + 1] = row
        /\ \A r \in DOMAIN requests : requests'[r] = requests[r]
    BY <2>4, <2>5, <2>6
  <2>9. TablesTyped'
    BY <2>4, <2>8 DEF FriendsInv, TablesTyped
  <2>10. /\ task'[t] = [pc |-> s, user |-> A, req |-> 0, new |-> FALSE]
         /\ \A q \in Tasks \ {t} : task'[q] = task[q]
    BY <2>1, FinishIs DEF FriendsInv, PCs
  <2>11. Applying' = Applying \ {t} /\ Creating' \subseteq Creating
    BY <1>1, <2>10 DEF Applying, Creating, Resting
  <2>12. WithinBounds'
    <3> DEFINE ap == Applying
               cr == Creating
               cr2 == Creating'
    <3>1. ap \in SUBSET Tasks /\ cr \in SUBSET Tasks /\ cr2 \in SUBSET Tasks
      BY DEF Applying, Creating
    <3>2. /\ Len(requests) + Cardinality(ap) <= MaxRequests
          /\ rooms + Cardinality(cr) <= Cardinality(Tasks) /\ rooms \in Nat
      BY DEF FriendsInv, WithinBounds, TablesTyped
    <3>3. Cardinality(cr2) <= Cardinality(cr) /\ Cardinality(ap \ {t}) = Cardinality(ap) - 1
      BY <1>1, <2>11, <3>1, Counting
    <3>4. /\ Cardinality(cr2) \in Nat /\ Cardinality(cr) \in Nat /\ Cardinality(ap) \in Nat
          /\ Cardinality(Tasks) \in Nat /\ MaxRequests \in Nat
      BY <3>1, Counting, MaxAssumption
    <3> HIDE DEF ap, cr, cr2
    <3>5. Len(requests) + 1 + Cardinality(ap \ {t}) <= MaxRequests
      BY <2>8, <3>2, <3>3, <3>4
    <3>6. rooms + Cardinality(cr2) <= Cardinality(Tasks)
      BY <3>2, <3>3, <3>4
    <3>7. QED
      BY <2>4, <2>8, <2>11, <3>5, <3>6 DEF ap, cr2, WithinBounds
  <2>13. ASSUME ~overlapped
         PROVE  Consistent'
    <3>1. Consistent /\ blocks = {} /\ \A r \in DOMAIN requests : requests[r].status # "pending"
      BY <1>6, <2>13 DEF FriendsInv, Knows, PendingBetween, ApplyInsert, At
    <3>2. b = FALSE
      BY <2>3, <3>1
    <3>3. SymmetricFriendship' /\ OneSingleRoom' /\ FriendsWereAccepted'
      BY <2>4, <2>8, <3>1 DEF Consistent, SymmetricFriendship, OneSingleRoom, FriendsWereAccepted
    <3>4. SinglePending'
      BY <2>8, <3>1 DEF SinglePending
    <3>5. BlockRespected'
      BY <2>7, <2>8, <3>1, <3>2 DEF Consistent, BlockRespected
    <3>6. QED
      BY <3>3, <3>4, <3>5 DEF Consistent
  <2>14. SendersKept
    BY <2>8 DEF SendersKept
  <2>15. QED
    BY <1>1, <2>1, <2>9, <2>12, <2>13, <2>14, AnsweredWith
<1>7. QED
  BY <1>3, <1>4, <1>5, <1>6 DEF Apply

-----------------------------------------------------------------------------
\* FriendService.handle_request

\* A request that has been found and its new status: nothing is lost of the
\* accepted ones while requests are served one by one.
LEMMA Decided ==
  ASSUME TablesTyped, NEW r \in DOMAIN requests, NEW st \in {"accepted", "rejected"},
         requests' = [requests EXCEPT ![r].status = st]
  PROVE  /\ requests' \in Seq(Requests)
         /\ Len(requests') = Len(requests) /\ DOMAIN requests' = DOMAIN requests
         /\ requests'[r].status = st
         /\ \A q \in DOMAIN requests : q # r => requests'[q].status = requests[q].status
         /\ SendersKept
         /\ SinglePending => SinglePending'
         /\ BlockRespected => BlockRespected'
<1>1. st \in RequestStatus /\ st # "pending" /\ requests \in Seq(Requests)
  BY DEF RequestStatus, TablesTyped
<1>2. /\ requests' \in Seq(Requests)
      /\ Len(requests') = Len(requests) /\ DOMAIN requests' = DOMAIN requests
      /\ requests'[r] = [from |-> requests[r].from, status |-> st,
                         pastBlock |-> requests[r].pastBlock]
      /\ \A q \in DOMAIN requests : q # r => requests'[q] = requests[q]
  BY <1>1, SetStatus
<1>3. /\ requests'[r].status = st /\ requests'[r].pastBlock = requests[r].pastBlock
      /\ \A q \in DOMAIN requests : q # r => requests'[q].status = requests[q].status
  BY <1>2
<1>4. SinglePending => SinglePending'
  BY <1>1, <1>2, <1>3 DEF SinglePending
<1>5. BlockRespected => BlockRespected'
  BY <1>2, <1>3 DEF BlockRespected
<1>6. SendersKept
  BY <1>2 DEF SendersKept
<1>7. QED
  BY <1>2, <1>3, <1>4, <1>5, <1>6

LEMMA HandleKeeps ==
  ASSUME FriendsInv, NEW t \in Tasks, HandleRequest(t), UNCHANGED overlapped
  PROVE  FriendsInv'
<1>1. Serves(t)
  BY DEF HandleRequest, HandleGet, AcceptUpdate, AddFirst, AddSecond, AcceptConflict,
     AcceptFindRoom, AcceptCommit, Reject, At, Serves, Resting
<1>2. "idle" \in Resting /\ "crashed" \in Resting /\ TasksTyped /\ TablesTyped
  BY DEF Resting, FriendsInv
<1>3. CASE HandleGet(t)
  <2>1. CASE Finish(t, "idle") /\ UNCHANGED tables
    BY <1>1, <1>2, <2>1, Answered
  <2>2. CASE /\ MayHandle(t) /\ Goto(t, IF At(t, "accept?") THEN "accept" ELSE "reject")
             /\ UNCHANGED <<adds, dels>> /\ UNCHANGED tables
    <3>1. PICK s \in {"accept", "reject"} : Goto(t, s)
      BY <2>2
    <3>2. task[t].pc \in {"accept?", "reject?"}
      BY <1>3 DEF HandleGet
    <3>3. s \in QueryLeadsTo /\ s \notin {"blocked?", "pending?", "insert", "createRoom"}
      BY DEF QueryLeadsTo
    <3>4. task[t].pc \notin Holding
      BY <3>2 DEF Flushed, Holding
    <3>5. QED
      BY <1>1, <2>2, <3>1, <3>2, <3>3, <3>4, WentOn
  <2>3. QED
    BY <1>3, <2>1, <2>2 DEF HandleGet
<1>4. ASSUME NEW s \in {"addFirst", "addSecond", "findRoom"}, Goto(t, s),
             task[t].pc \in {"accept", "addFirst", "addSecond"},
             UNCHANGED dels, UNCHANGED tables, adds' \in [Tasks -> SUBSET Both],
             \A q \in Tasks \ {t} : adds'[q] = adds[q],
             /\ s = "addFirst" => adds'[t] = {}
             /\ s = "addSecond" => adds'[t] = {OtherRow(t)}
             /\ s = "findRoom" => adds'[t] = Both
      PROVE  FriendsInv'
  <2>1. UNCHANGED <<friends, blocks, requests, rooms>>
    BY <1>4 DEF tables
  <2>2. /\ task' \in [Tasks -> TaskStates]
        /\ task'[t] = [pc |-> s, user |-> task[t].user, req |-> task[t].req, new |-> task[t].new]
        /\ \A q \in Tasks \ {t} : task'[q] = task[q]
    BY <1>2, <1>4, GotoIs DEF PCs
  <2>3. /\ dels' \in [Tasks -> SUBSET Both] /\ dels'[t] = {}
        /\ \A q \in Tasks \ {t} : dels'[q] = dels[q]
    BY <1>2, <1>4 DEF FriendsInv, TasksTyped, HeldBy, At
  <2>4. HeldBy(t)'
    BY <1>4, <2>2, <2>3 DEF HeldBy, OtherRow, Flushed, At
  <2>5. HandlesRequest(t)'
    BY <1>4, <2>1, <2>2 DEF FriendsInv, HandlesRequest, Found, Flushed
  <2>6. t \notin Applying' /\ t \notin Creating'
    BY <2>2 DEF Applying, Creating
  <2>7. WithinBounds'
    BY <2>1, <2>2, <2>6, BoundsKept
  <2>8. TablesTyped' /\ SendersKept
    BY <1>2, <2>1 DEF TablesTyped, SendersKept
  <2>9. ~overlapped => Knows(t)'
    BY <1>4, <2>1, <2>2, <2>6 DEF FriendsInv, Knows, Found, Flushed
  <2>10. ~overlapped => Consistent'
    BY <2>1 DEF FriendsInv, Consistent, SymmetricFriendship, FriendsWereAccepted, SinglePending,
       OneSingleRoom, BlockRespected
  <2>11. QED
    BY <1>1, <1>4, <2>2, <2>3, <2>4, <2>5, <2>7, <2>8, <2>9, <2>10, ServedStep
<1>10. CASE AcceptUpdate(t)
  <2>1. adds[t] = {} /\ task[t].pc = "accept"
    BY <1>10 DEF FriendsInv, HeldBy, AcceptUpdate, Flushed, At
  <2>2. QED
    BY <1>2, <1>4, <1>10, <2>1 DEF AcceptUpdate, TasksTyped
<1>11. CASE AddFirst(t)
  <2>1. task[t].pc = "addFirst" /\ Goto(t, "addSecond") /\ UNCHANGED <<tables, dels>>
    BY <1>11 DEF AddFirst, AddRow, At
  <2>2. adds[t] = {} /\ task[t].user \in Users /\ requests[task[t].req].from = Other(task[t].user)
    BY <1>2, <2>1 DEF FriendsInv, HeldBy, HandlesRequest, Found, Flushed, At, TasksTyped, TaskStates
  <2>3. First(t) = OtherRow(t) /\ OtherRow(t) \in Both
    BY <2>2, TwoRows DEF First, ToUid, OtherRow
  <2>4. adds' = [adds EXCEPT ![t] = {OtherRow(t)}]
    BY <1>11, <2>2, <2>3 DEF AddFirst, AddRow
  <2>5. /\ adds' \in [Tasks -> SUBSET Both] /\ adds'[t] = {OtherRow(t)}
        /\ \A q \in Tasks \ {t} : adds'[q] = adds[q]
    BY <1>2, <2>3, <2>4 DEF TasksTyped
  <2>6. QED
    BY <1>4, <2>1, <2>5
<1>12. CASE AddSecond(t)
  <2>1. task[t].pc = "addSecond" /\ Goto(t, "findRoom") /\ UNCHANGED <<tables, dels>>
    BY <1>12 DEF AddSecond, AddRow, At
  <2>2. PICK row \in Both \ adds[t] : adds' = [adds EXCEPT ![t] = @ \union {row}]
    BY <1>12 DEF AddSecond, AddRow
  <2>3. adds[t] = {OtherRow(t)} /\ task[t].user \in Users
    BY <1>2, <2>1 DEF FriendsInv, HeldBy, At, TasksTyped, TaskStates
  <2>4. Both = {OwnRow(t), OtherRow(t)}
    BY <2>3, TwoRows DEF OwnRow, OtherRow
  <2>5. adds[t] \union {row} = Both
    BY <2>2, <2>3, <2>4
  <2>6. adds' = [adds EXCEPT ![t] = Both]
    BY <2>2, <2>5
  <2>7. /\ adds' \in [Tasks -> SUBSET Both] /\ adds'[t] = Both
        /\ \A q \in Tasks \ {t} : adds'[q] = adds[q]
    BY <1>2, <2>6 DEF TasksTyped
  <2>8. QED
    BY <1>4, <2>1, <2>7
<1>5. CASE AcceptConflict(t)
  BY <1>1, <1>2, <1>5, Answered DEF AcceptConflict
<1>6. CASE AcceptFindRoom(t)
  <2>1. (rooms = 0) \in BOOLEAN
    OBVIOUS
  <2>2. PICK b \in BOOLEAN : b = (rooms = 0)
    BY <2>1
  <2> DEFINE r == [pc |-> "commit", user |-> task[t].user, req |-> task[t].req, new |-> b]
  <2>3. task[t] \in TaskStates
    BY <1>2 DEF TasksTyped
  <2>4. task' = [task EXCEPT ![t].pc = "commit", ![t].new = b]
    BY <1>6, <2>2 DEF AcceptFindRoom
  <2>5. [task[t] EXCEPT !.pc = "commit", !.new = b] = r
    <3> DEFINE x == [task[t] EXCEPT !.pc = "commit"]
    <3>1. x = [pc |-> "commit", user |-> task[t].user, req |-> task[t].req, new |-> task[t].new]
      BY <2>3 DEF TaskStates
    <3> HIDE DEF x
    <3>2. [x EXCEPT !.new = b] = r
      BY <3>1
    <3>3. QED
      BY <3>2 DEF x
  <2>6. task' = [task EXCEPT ![t] = r]
    <3>1. DOMAIN task = Tasks
      BY <1>2 DEF TasksTyped
    <3>2. task' = [task EXCEPT ![t] = [task[t] EXCEPT !.pc = "commit", !.new = b]]
      BY <2>4, <3>1
    <3>3. QED
      BY <2>5, <3>2
  <2>7. r \in TaskStates
    BY <2>3 DEF TaskStates, PCs
  <2>8. r.pc = "commit" /\ r.req = task[t].req /\ r.new = b /\ r.user = task[t].user
    OBVIOUS
  <2> HIDE DEF r
  <2>9. /\ task' \in [Tasks -> TaskStates] /\ task'[t] = r
        /\ \A q \in Tasks \ {t} : task'[q] = task[q]
    BY <1>2, <2>6, <2>7 DEF TasksTyped
  <2>10. UNCHANGED <<friends, blocks, requests, rooms, adds, dels>> /\ task[t].pc = "findRoom"
    BY <1>6 DEF AcceptFindRoom, tables, At
  <2>11. HeldBy(t)' /\ HandlesRequest(t)'
    BY <2>8, <2>9, <2>10 DEF FriendsInv, HeldBy, HandlesRequest, Found, Flushed, At
  <2>12. t \notin Applying' /\ (t \in Creating' => rooms = 0)
    BY <2>2, <2>8, <2>9 DEF Applying, Creating
  <2>13. WithinBounds'
    BY <2>9, <2>10, <2>12, BoundsKept
  <2>14. TablesTyped'
    BY <1>2, <2>10 DEF TablesTyped
  <2>15. ~overlapped => Consistent' /\ Knows(t)'
    BY <2>8, <2>9, <2>10, <2>12 DEF FriendsInv, Knows, Found, Flushed, Consistent,
       SymmetricFriendship, FriendsWereAccepted, SinglePending, OneSingleRoom, BlockRespected
  <2>16. /\ adds' \in [Tasks -> SUBSET Both] /\ dels' \in [Tasks -> SUBSET Both]
         /\ \A q \in Tasks \ {t} : adds'[q] = adds[q] /\ dels'[q] = dels[q]
    BY <1>2, <2>10 DEF TasksTyped
  <2>17. SendersKept
    BY <2>10 DEF SendersKept
  <2>18. QED
    BY <1>1, <2>9, <2>11, <2>13, <2>14, <2>15, <2>16, <2>17, ServedStep
<1>7. CASE AcceptCommit(t)
  <2>1. PICK s \in Resting : Finish(t, s)
    BY <1>2, <1>7 DEF AcceptCommit
  <2>2. task[t].pc = "commit" /\ UNCHANGED blocks
    BY <1>7 DEF AcceptCommit, At
  <2>3. task[t].req \in DOMAIN requests /\ adds[t] = Both
    BY <2>2 DEF FriendsInv, HandlesRequest, HeldBy, Found, Flushed
  <2> DEFINE r == task[t].req
  <2>4. requests' = [requests EXCEPT ![r].status = "accepted"]
    BY <1>7 DEF AcceptCommit
  <2> HIDE DEF r
  <2>5. r \in DOMAIN requests
    BY <2>3 DEF r
  <2>6. /\ requests' \in Seq(Requests)
        /\ Len(requests') = Len(requests) /\ DOMAIN requests' = DOMAIN requests
        /\ requests'[r].status = "accepted"
        /\ \A q \in DOMAIN requests : q # r => requests'[q].status = requests[q].status
        /\ SendersKept
        /\ SinglePending => SinglePending'
        /\ BlockRespected => BlockRespected'
    BY <1>2, <2>4, <2>5, Decided
  <2>7. friends' = Both /\ rooms' = IF task[t].new THEN rooms + 1 ELSE rooms
    BY <1>2, <1>7, <2>3 DEF AcceptCommit, TablesTyped
  <2>8. rooms' \in Nat
    BY <1>2, <2>7 DEF TablesTyped
  <2>9. TablesTyped'
    BY <1>2, <2>2, <2>6, <2>7, <2>8 DEF TablesTyped
  <2>10. /\ task'[t] = [pc |-> s, user |-> A, req |-> 0, new |-> FALSE]
         /\ \A q \in Tasks \ {t} : task'[q] = task[q]
    BY <1>2, <2>1, FinishIs DEF PCs
  <2>11. t \notin Applying' /\ t \notin Creating'
    BY <2>10 DEF Applying, Creating, Resting
  <2>12. WithinBounds'
    <3>1. CASE ~task[t].new
      BY <2>6, <2>7, <2>10, <2>11, <3>1, BoundsKept
    <3>2. CASE task[t].new
      BY <1>2, <2>2, <2>6, <2>7, <2>10, <2>11, <3>2, RoomCreated DEF Creating
    <3>3. QED
      BY <3>1, <3>2
  <2>13. ASSUME ~overlapped
         PROVE  Consistent'
    <3>1. Consistent /\ (t \in Creating => rooms = 0)
      BY <2>13 DEF FriendsInv, Knows
    <3>2. rooms' <= 1
      BY <1>2, <2>2, <2>7, <3>1 DEF Creating, Consistent, OneSingleRoom, TablesTyped
    <3>3. FriendsWereAccepted'
      BY <2>5, <2>6 DEF FriendsWereAccepted
    <3>4. QED
      BY <2>6, <2>7, <3>1, <3>2, <3>3 DEF Consistent, SymmetricFriendship, OneSingleRoom
  <2>14. QED
    BY <1>1, <2>1, <2>6, <2>9, <2>12, <2>13, AnsweredWith
<1>8. CASE Reject(t)
  <2>1. Finish(t, "idle") /\ task[t].pc = "reject" /\ UNCHANGED <<friends, blocks, rooms>>
    BY <1>8 DEF Reject, At
  <2>2. task[t].req \in DOMAIN requests
    BY <2>1 DEF FriendsInv, HandlesRequest, Found, Flushed
  <2> DEFINE r == task[t].req
  <2>3. requests' = [requests EXCEPT ![r].status = "rejected"]
    BY <1>8 DEF Reject
  <2> HIDE DEF r
  <2>4. r \in DOMAIN requests
    BY <2>2 DEF r
  <2>5. /\ requests' \in Seq(Requests)
        /\ Len(requests') = Len(requests) /\ DOMAIN requests' = DOMAIN requests
        /\ requests'[r].status = "rejected"
        /\ \A q \in DOMAIN requests : q # r => requests'[q].status = requests[q].status
        /\ SendersKept
        /\ SinglePending => SinglePending'
        /\ BlockRespected => BlockRespected'
    BY <1>2, <2>3, <2>4, Decided
  <2>6. TablesTyped'
    BY <1>2, <2>1, <2>5 DEF TablesTyped
  <2>7. /\ task'[t] = [pc |-> "idle", user |-> A, req |-> 0, new |-> FALSE]
        /\ \A q \in Tasks \ {t} : task'[q] = task[q]
    BY <1>2, <2>1, FinishIs DEF PCs, Resting
  <2>8. t \notin Applying' /\ t \notin Creating'
    BY <2>7 DEF Applying, Creating
  <2>9. WithinBounds'
    BY <2>1, <2>5, <2>7, <2>8, BoundsKept
  <2>10. ASSUME ~overlapped
         PROVE  Consistent'
    <3>1. Consistent /\ requests[r].status = "pending"
      BY <2>1, <2>10 DEF FriendsInv, Knows, Found, Flushed, r
    <3>2. FriendsWereAccepted'
      BY <2>1, <2>4, <2>5, <3>1 DEF Consistent, FriendsWereAccepted
    <3>3. QED
      BY <2>1, <2>5, <3>1, <3>2 DEF Consistent, SymmetricFriendship, OneSingleRoom
  <2>11. QED
    BY <1>1, <1>2, <2>1, <2>5, <2>6, <2>9, <2>10, AnsweredWith
<1>13. QED
  BY <1>3, <1>5, <1>6, <1>7, <1>8, <1>10, <1>11, <1>12 DEF HandleRequest

-----------------------------------------------------------------------------
\* FriendService.delete_friend
LEMMA DeleteKeeps ==
  ASSUME FriendsInv, NEW t \in Tasks, DeleteFriend(t), UNCHANGED overlapped
  PROVE  FriendsInv'
<1>1. Serves(t)
  BY DEF DeleteFriend, DeleteIsFriend, DeleteOwn, DeleteOther, At, Serves, Resting
<1>2. "idle" \in Resting /\ "crashed" \in Resting /\ TasksTyped /\ TablesTyped
  BY DEF Resting, FriendsInv
<1>3. CASE DeleteIsFriend(t)
  <2>1. CASE Finish(t, "idle") /\ UNCHANGED tables
    BY <1>1, <1>2, <2>1, Answered
  <2>2. CASE Goto(t, "deleteOwn") /\ UNCHANGED <<adds, dels>> /\ UNCHANGED tables
    <3>1. task[t].pc = "delete?" /\ "deleteOwn" \in QueryLeadsTo /\ "deleteOwn" \notin Found
      BY <1>3 DEF DeleteIsFriend, At, QueryLeadsTo, Found, Flushed
    <3>2. task[t].pc \notin Holding
      BY <3>1 DEF Flushed, Holding
    <3>3. QED
      BY <1>1, <2>2, <3>1, <3>2, WentOn
  <2>3. QED
    BY <1>3, <2>1, <2>2 DEF DeleteIsFriend
<1>4. CASE DeleteOwn(t)
  <2> DEFINE own == {<<task[t].user, Other(task[t].user)>>} \intersect friends
  <2>1. /\ Goto(t, "deleteOther") /\ UNCHANGED adds /\ UNCHANGED <<friends, blocks, requests, rooms>>
        /\ task[t].pc = "deleteOwn" /\ dels' = [dels EXCEPT ![t] = own]
    BY <1>4 DEF DeleteOwn, tables, At
  <2>2. own \in SUBSET Both
    BY <1>2 DEF TablesTyped
  <2> HIDE DEF own
  <2>3. /\ task' \in [Tasks -> TaskStates]
        /\ task'[t] = [pc |-> "deleteOther", user |-> task[t].user, req |-> task[t].req, new |-> task[t].new]
        /\ \A q \in Tasks \ {t} : task'[q] = task[q]
    BY <1>2, <2>1, GotoIs DEF PCs
  <2>4. /\ adds' \in [Tasks -> SUBSET Both] /\ dels' \in [Tasks -> SUBSET Both]
        /\ dels'[t] = own /\ \A q \in Tasks \ {t} : adds'[q] = adds[q] /\ dels'[q] = dels[q]
    BY <1>2, <2>1, <2>2 DEF TasksTyped
  <2>5. HeldBy(t)' /\ HandlesRequest(t)'
    <3>1. task'[t].pc = "deleteOther" /\ task'[t].user = task[t].user
      BY <2>3
    <3>2. own \subseteq {<<task[t].user, Other(task[t].user)>>}
      BY DEF own
    <3>3. QED
      BY <2>1, <2>3, <2>4, <3>1, <3>2
      DEF FriendsInv, HeldBy, OwnRow, OtherRow, HandlesRequest, Found, Flushed, At
  <2>6. t \notin Applying' /\ t \notin Creating'
    BY <2>3 DEF Applying, Creating
  <2>7. WithinBounds'
    BY <2>1, <2>3, <2>6, BoundsKept
  <2>8. TablesTyped'
    BY <1>2, <2>1 DEF TablesTyped
  <2>9. Knows(t)'
    <3>1. task'[t].user = task[t].user /\ task'[t].pc = "deleteOther"
      BY <2>3
    <3>2. QED
      BY <2>1, <2>4, <2>6, <3>1 DEF Knows, Found, Flushed, own
  <2>10. ~overlapped => Consistent'
    BY <2>1 DEF FriendsInv, Consistent, SymmetricFriendship,
       FriendsWereAccepted, SinglePending, OneSingleRoom, BlockRespected
  <2>11. SendersKept
    BY <2>1 DEF SendersKept
  <2>12. QED
    BY <1>1, <2>3, <2>4, <2>5, <2>7, <2>8, <2>9, <2>10, <2>11, ServedStep
<1>5. CASE DeleteOther(t)
  <2> DEFINE own == <<task[t].user, Other(task[t].user)>>
             row == <<Other(task[t].user), task[t].user>>
  <2>1. /\ Finish(t, "idle") /\ UNCHANGED <<blocks, requests, rooms>>
        /\ task[t].pc = "deleteOther" /\ friends' = friends \ (dels[t] \union {row})
    BY <1>5 DEF DeleteOther, At
  <2>2. {own, row} = Both
    BY <1>2, TwoRows DEF TasksTyped, TaskStates
  <2>3. TablesTyped'
    BY <1>2, <2>1 DEF TablesTyped
  <2>4. /\ task'[t] = [pc |-> "idle", user |-> A, req |-> 0, new |-> FALSE]
        /\ \A q \in Tasks \ {t} : task'[q] = task[q]
    BY <1>2, <2>1, FinishIs DEF PCs, Resting
  <2>5. t \notin Applying' /\ t \notin Creating'
    BY <2>4 DEF Applying, Creating
  <2>6. WithinBounds'
    BY <2>1, <2>4, <2>5, BoundsKept
  <2>7. ASSUME ~overlapped
        PROVE  Consistent'
    <3>1. dels[t] = {own} \intersect friends /\ Consistent
      BY <2>1, <2>7 DEF FriendsInv, Knows
    <3>2. friends \subseteq {own, row}
      BY <1>2, <2>2 DEF TablesTyped
    <3> HIDE DEF own, row
    <3>3. friends' = {}
      BY <2>1, <3>1, <3>2
    <3>4. QED
      BY <2>1, <3>1, <3>3 DEF Consistent, SymmetricFriendship,
         FriendsWereAccepted, SinglePending, OneSingleRoom, BlockRespected
  <2>8. SendersKept
    BY <2>1 DEF SendersKept
  <2>9. QED
    BY <1>1, <1>2, <2>1, <2>3, <2>6, <2>7, <2>8, AnsweredWith
<1>6. QED
  BY <1>3, <1>4, <1>5 DEF DeleteFriend

-----------------------------------------------------------------------------
\* FriendService.block and unblock
LEMMA BlockKeeps ==
  ASSUME FriendsInv, NEW t \in Tasks, BlockOrNot(t), UNCHANGED overlapped
  PROVE  FriendsInv'
<1>1. Serves(t)
  BY DEF BlockOrNot, BlockCheck, BlockInsert, Unblock, At, Serves, Resting
<1>2. "idle" \in Resting /\ "crashed" \in Resting /\ TasksTyped /\ TablesTyped
  BY DEF Resting, FriendsInv
<1>3. ASSUME NEW s \in Resting, Finish(t, s), blocks' \in SUBSET Both,
             UNCHANGED <<friends, requests, rooms>>
      PROVE  FriendsInv'
  <2>1. TablesTyped'
    BY <1>2, <1>3 DEF TablesTyped
  <2>2. /\ task'[t] = [pc |-> s, user |-> A, req |-> 0, new |-> FALSE]
        /\ \A q \in Tasks \ {t} : task'[q] = task[q]
    BY <1>2, <1>3, FinishIs DEF PCs
  <2>3. t \notin Applying' /\ t \notin Creating'
    BY <2>2 DEF Applying, Creating, Resting
  <2>4. WithinBounds'
    BY <1>3, <2>2, <2>3, BoundsKept
  <2>5. ~overlapped => Consistent'
    BY <1>3 DEF FriendsInv, Consistent, SymmetricFriendship,
       FriendsWereAccepted, SinglePending, OneSingleRoom, BlockRespected
  <2>6. SendersKept
    BY <1>3 DEF SendersKept
  <2>7. QED
    BY <1>1, <1>3, <2>1, <2>4, <2>5, <2>6, AnsweredWith
<1>4. <<task[t].user, Other(task[t].user)>> \in Both
  BY <1>2, TwoRows DEF TasksTyped, TaskStates
<1>5. CASE BlockCheck(t)
  <2>1. CASE Finish(t, "idle") /\ UNCHANGED tables
    BY <1>1, <1>2, <2>1, Answered
  <2>2. CASE Goto(t, "block") /\ UNCHANGED <<adds, dels>> /\ UNCHANGED tables
    <3>1. task[t].pc = "block?" /\ "block" \in QueryLeadsTo /\ "block" \notin Found
      BY <1>5 DEF BlockCheck, At, QueryLeadsTo, Found, Flushed
    <3>2. task[t].pc \notin Holding
      BY <3>1 DEF Flushed, Holding
    <3>3. QED
      BY <1>1, <2>2, <3>1, <3>2, WentOn
  <2>3. QED
    BY <1>5, <2>1, <2>2 DEF BlockCheck
<1>6. CASE BlockInsert(t)
  <2>1. PICK s \in Resting : Finish(t, s)
    BY <1>2, <1>6 DEF BlockInsert
  <2>2. blocks' \in SUBSET Both /\ UNCHANGED <<friends, requests, rooms>>
    BY <1>2, <1>4, <1>6 DEF BlockInsert, TablesTyped
  <2>3. QED
    BY <1>3, <2>1, <2>2
<1>7. CASE Unblock(t)
  <2>1. /\ Finish(t, "idle") /\ blocks' \in SUBSET Both
        /\ UNCHANGED <<friends, requests, rooms>>
    BY <1>2, <1>7 DEF Unblock, TablesTyped
  <2>2. QED
    BY <1>2, <1>3, <2>1
<1>8. QED
  BY <1>5, <1>6, <1>7 DEF BlockOrNot

\* RoomService.get_or_create_single
LEMMA GetOrCreateKeeps ==
  ASSUME FriendsInv, NEW t \in Tasks, GetOrCreateSingle(t), UNCHANGED overlapped
  PROVE  FriendsInv'
<1>1. Serves(t)
  BY DEF GetOrCreateSingle, FindRoom, CreateRoom, At, Serves, Resting
<1>2. "idle" \in Resting /\ TasksTyped /\ TablesTyped
  BY DEF Resting, FriendsInv
<1>3. CASE FindRoom(t)
  <2>1. CASE Finish(t, "idle") /\ UNCHANGED tables
    BY <1>1, <1>2, <2>1, Answered
  <2>2. CASE ~(rooms > 0) /\ Goto(t, "createRoom") /\ UNCHANGED <<adds, dels>> /\ UNCHANGED tables
    <3>1. task[t].pc = "room?" /\ "createRoom" \in QueryLeadsTo /\ "createRoom" \notin Found
      BY <1>3 DEF FindRoom, At, QueryLeadsTo, Found, Flushed
    <3>2. task[t].pc \notin Holding /\ rooms = 0
      BY <1>2, <2>2, <3>1 DEF Flushed, Holding, TablesTyped
    <3>3. QED
      BY <1>1, <2>2, <3>1, <3>2, WentOn
  <2>3. QED
    BY <1>3, <2>1, <2>2 DEF FindRoom
<1>4. CASE CreateRoom(t)
  <2>1. /\ Finish(t, "idle") /\ task[t].pc = "createRoom"
        /\ rooms' = rooms + 1 /\ UNCHANGED <<friends, blocks, requests>>
    BY <1>4 DEF CreateRoom, At
  <2>2. TablesTyped'
    BY <1>2, <2>1 DEF TablesTyped
  <2>3. /\ task'[t] = [pc |-> "idle", user |-> A, req |-> 0, new |-> FALSE]
        /\ \A q \in Tasks \ {t} : task'[q] = task[q]
    BY <1>2, <2>1, FinishIs DEF PCs, Resting
  <2>4. t \in Creating /\ t \notin Applying' /\ t \notin Creating'
    BY <2>1, <2>3 DEF Applying, Creating
  <2>5. WithinBounds'
    BY <2>1, <2>3, <2>4, RoomCreated
  <2>6. ASSUME ~overlapped
        PROVE  Consistent'
    <3>1. Consistent /\ rooms = 0
      BY <2>4, <2>6 DEF FriendsInv, Knows
    <3>2. QED
      BY <2>1, <3>1 DEF Consistent, SymmetricFriendship,
         FriendsWereAccepted, SinglePending, OneSingleRoom, BlockRespected
  <2>7. SendersKept
    BY <2>1 DEF SendersKept
  <2>8. QED
    BY <1>1, <1>2, <2>1, <2>2, <2>5, <2>6, <2>7, AnsweredWith
<1>5. QED
  BY <1>3, <1>4 DEF GetOrCreateSingle

\* GroupService.leave_or_kick on a single room: nobody is about to create
\* one when requests are served one by one and there is one.
LEMMA LeaveKeeps ==
  ASSUME FriendsInv, LeaveRoom, UNCHANGED overlapped
  PROVE  FriendsInv'
<1>1. /\ rooms > 0 /\ rooms' = rooms - 1 /\ TablesTyped /\ TasksTyped
      /\ UNCHANGED <<friends, blocks, requests, task, adds, dels, overlapped>>
  BY DEF LeaveRoom, FriendsInv
<1>2. rooms' \in Nat /\ rooms' <= rooms
  BY <1>1 DEF TablesTyped
<1>3. TablesTyped' /\ TasksTyped'
  BY <1>1, <1>2 DEF TablesTyped, TasksTyped
<1>4. \A t \in Tasks : HeldBy(t)' /\ HandlesRequest(t)'
  BY <1>1 DEF FriendsInv, HeldBy, OwnRow, OtherRow, HandlesRequest, At
<1>5. WithinBounds'
  <2>1. Applying' = Applying /\ Creating' = Creating
    BY <1>1 DEF Applying, Creating
  <2>2. Creating \in SUBSET Tasks
    BY DEF Creating
  <2>3. Cardinality(Creating) \in Nat /\ Cardinality(Tasks) \in Nat
    BY <2>2, Counting
  <2>4. Len(requests) + Cardinality(Applying) <= MaxRequests /\ rooms + Cardinality(Creating) <= Cardinality(Tasks)
    BY DEF FriendsInv, WithinBounds
  <2> DEFINE c == Cardinality(Creating)
             n == Cardinality(Tasks)
  <2>5. c \in Nat /\ n \in Nat /\ rooms + c <= n /\ rooms \in Nat
    BY <1>1, <2>3, <2>4 DEF TablesTyped
  <2> HIDE DEF c, n
  <2>6. rooms' + c <= n
    BY <1>1, <2>5
  <2>7. QED
    BY <1>1, <2>1, <2>4, <2>6 DEF c, n, WithinBounds
<1>6. ASSUME ~overlapped
      PROVE  OneServed' /\ Consistent' /\ \A t \in Tasks : Knows(t)'
  <2>1. OneServed /\ Consistent /\ \A t \in Tasks : Knows(t)
    BY <1>6 DEF FriendsInv
  <2>2. OneServed'
    BY <1>1, <2>1 DEF OneServed, Serves
  <2>3. Consistent'
    BY <1>1, <1>2, <2>1 DEF Consistent, SymmetricFriendship,
       FriendsWereAccepted, SinglePending, OneSingleRoom, BlockRespected, TablesTyped
  <2>4. \A t \in Tasks : t \notin Creating
    BY <1>1, <2>1 DEF Knows, TablesTyped
  <2>5. \A t \in Tasks : Knows(t)'
    BY <1>1, <2>1, <2>4 DEF Knows, Creating, PendingBetween
  <2>6. QED
    BY <2>2, <2>3, <2>5
<1>7. QED
  BY <1>1, <1>3, <1>4, <1>5, <1>6 DEF FriendsInv

\* A request arrives; who applies has a place for the row he may insert.
LEMMA BeginKeeps ==
  ASSUME FriendsInv, NEW t \in Tasks, Begin(t)
  PROVE  FriendsInv'
<1>1. /\ task[t].pc \in Resting /\ TablesTyped /\ TasksTyped
      /\ UNCHANGED <<friends, blocks, requests, rooms, adds, dels>>
      /\ overlapped' = (overlapped \/ \E s \in Tasks \ {t} : task[s].pc \notin Resting)
  BY DEF Begin, tables, FriendsInv
<1>2. PICK u \in Users :
       \/ /\ Len(requests) + Cardinality(Applying) < MaxRequests
          /\ task' = [task EXCEPT ![t] = [pc |-> "friend?", user |-> u, req |-> 0, new |-> FALSE]]
       \/ \E s \in {"delete?", "block?", "unblock", "room?"} :
            task' = [task EXCEPT ![t] = [pc |-> s, user |-> u, req |-> 0, new |-> FALSE]]
       \/ \E s \in {"accept?", "reject?"}, r \in DOMAIN requests :
            task' = [task EXCEPT ![t] = [pc |-> s, user |-> u, req |-> r, new |-> FALSE]]
  BY DEF Begin
<1>3. PICK s \in {"friend?", "delete?", "block?", "unblock", "room?", "accept?", "reject?"},
           r \in {0} \union DOMAIN requests :
        /\ task' = [task EXCEPT ![t] = [pc |-> s, user |-> u, req |-> r, new |-> FALSE]]
        /\ s = "friend?" => Len(requests) + Cardinality(Applying) < MaxRequests
        /\ s \in {"accept?", "reject?"} => r \in DOMAIN requests
  BY <1>2
<1>4. /\ Len(requests) \in Nat /\ DOMAIN requests = 1..Len(requests)
      /\ Applying \in SUBSET Tasks /\ Creating \in SUBSET Tasks
  BY <1>1 DEF TablesTyped, Applying, Creating
<1>5. /\ Cardinality(Applying) \in Nat /\ Cardinality(Creating) \in Nat /\ MaxRequests \in Nat
      /\ Len(requests) + Cardinality(Applying) <= MaxRequests
      /\ rooms + Cardinality(Creating) <= Cardinality(Tasks)
  BY <1>4, Counting, MaxAssumption DEF FriendsInv, WithinBounds
<1>6. r \in 0..MaxRequests
  BY <1>4, <1>5
<1> DEFINE row == [pc |-> s, user |-> u, req |-> r, new |-> FALSE]
<1>7. row \in TaskStates /\ row.pc = s /\ row.req = r /\ row.new = FALSE
  BY <1>6 DEF TaskStates, PCs
<1>8. task' = [task EXCEPT ![t] = row]
  BY <1>3
<1> HIDE DEF row
<1>9. /\ task' \in [Tasks -> TaskStates] /\ task'[t] = row
      /\ \A q \in Tasks \ {t} : task'[q] = task[q]
  BY <1>1, <1>7, <1>8 DEF TasksTyped
<1>10. TablesTyped' /\ TasksTyped'
  BY <1>1, <1>9 DEF TablesTyped, TasksTyped
<1>11. \A q \in Tasks : HeldBy(q)' /\ HandlesRequest(q)'
  <2>1. HeldBy(t)' /\ HandlesRequest(t)'
    BY <1>1, <1>3, <1>7, <1>9 DEF FriendsInv, HeldBy, HandlesRequest, Found, Flushed, At, Resting
  <2>2. \A q \in Tasks \ {t} : HeldBy(q)' /\ HandlesRequest(q)'
    BY <1>1, <1>9 DEF FriendsInv, HeldBy, OwnRow, OtherRow, HandlesRequest, At
  <2>3. QED
    BY <2>1, <2>2
<1>12. WithinBounds'
  <2> DEFINE ap == Applying
             cr == Creating
             ap2 == Applying'
             cr2 == Creating'
  <2>1. cr2 \subseteq cr
    BY <1>7, <1>9 DEF Creating
  <2>2. ap2 \subseteq ap \union {t} /\ (s # "friend?" => ap2 \subseteq ap)
    BY <1>7, <1>9 DEF Applying
  <2>3. /\ ap \in SUBSET Tasks /\ cr \in SUBSET Tasks /\ ap2 \in SUBSET Tasks /\ cr2 \in SUBSET Tasks
        /\ ap \union {t} \in SUBSET Tasks
    BY DEF Applying, Creating
  <2>4. /\ Cardinality(ap) \in Nat /\ Cardinality(cr) \in Nat /\ MaxRequests \in Nat
        /\ Len(requests) + Cardinality(ap) <= MaxRequests
        /\ rooms + Cardinality(cr) <= Cardinality(Tasks)
        /\ s = "friend?" => Len(requests) + Cardinality(ap) < MaxRequests
    BY <1>3, <1>5
  <2> HIDE DEF ap, cr, ap2, cr2
  <2>5. /\ Cardinality(ap2) \in Nat /\ Cardinality(cr2) \in Nat /\ Cardinality(Tasks) \in Nat
        /\ Cardinality(cr2) <= Cardinality(cr)
        /\ Cardinality(ap \union {t}) \in Nat
        /\ Cardinality(ap \union {t}) <= Cardinality(ap) + 1
        /\ Cardinality(ap2) <= Cardinality(ap \union {t})
        /\ s # "friend?" => Cardinality(ap2) <= Cardinality(ap)
    BY <2>1, <2>2, <2>3, Counting
  <2>6. Len(requests) + Cardinality(ap2) <= MaxRequests
    BY <1>4, <2>4, <2>5
  <2>7. rooms + Cardinality(cr2) <= Cardinality(Tasks)
    BY <1>1, <2>4, <2>5 DEF TablesTyped
  <2>8. QED
    BY <1>1, <2>6, <2>7 DEF ap2, cr2, WithinBounds
<1>13. ASSUME ~overlapped'
       PROVE  OneServed' /\ Consistent' /\ \A q \in Tasks : Knows(q)'
  <2>1. ~overlapped /\ \A q \in Tasks \ {t} : task[q].pc \in Resting
    BY <1>1, <1>13
  <2>2. \A q \in Tasks \ {t} : task'[q].pc \in Resting
    BY <1>9, <2>1
  <2>3. OneServed'
    BY <2>2 DEF OneServed, Serves
  <2>4. Consistent'
    BY <1>1, <2>1 DEF FriendsInv, Consistent, SymmetricFriendship,
       FriendsWereAccepted, SinglePending, OneSingleRoom, BlockRespected
  <2>5. \A q \in Tasks \ {t} : Knows(q)'
    BY <2>2 DEF Knows, Resting, Found, Flushed, Creating
  <2>6. Knows(t)'
    BY <1>3, <1>7, <1>9 DEF Knows, Found, Flushed, Creating
  <2>7. QED
    BY <2>3, <2>4, <2>5, <2>6
<1>14. QED
  BY <1>10, <1>11, <1>12, <1>13 DEF FriendsInv

-----------------------------------------------------------------------------
\* Nobody knows anybody and no request is served at the start.
LEMMA InitFriendsInv == Init => FriendsInv
<1> SUFFICES ASSUME Init
             PROVE  FriendsInv
  OBVIOUS
<1> DEFINE row == [pc |-> "idle", user |-> A, req |-> 0, new |-> FALSE]
<1>1. /\ friends = {} /\ blocks = {} /\ requests = <<>> /\ rooms = 0
      /\ task = [t \in Tasks |-> row]
      /\ adds = [t \in Tasks |-> {}] /\ dels = [t \in Tasks |-> {}]
      /\ overlapped = FALSE
  BY DEF Init
<1>2. row \in TaskStates /\ row.pc = "idle"
  BY MaxAssumption DEF TaskStates, PCs, Resting, Users
<1> HIDE DEF row
<1>3. \A t \in Tasks : task[t].pc = "idle"
  BY <1>1, <1>2
<1>4. TablesTyped /\ TasksTyped
  <2>1. <<>> \in Seq(Requests)
    OBVIOUS
  <2>2. TablesTyped
    BY <1>1, <2>1 DEF TablesTyped
  <2>3. task \in [Tasks -> TaskStates]
    BY <1>1, <1>2
  <2>4. [t \in Tasks |-> {}] \in [Tasks -> SUBSET Both]
    OBVIOUS
  <2>5. QED
    BY <1>1, <2>2, <2>3, <2>4 DEF TasksTyped
<1>5. \A t \in Tasks : HeldBy(t) /\ HandlesRequest(t)
  BY <1>1, <1>3 DEF HeldBy, HandlesRequest, Found, Flushed, At
<1>6. WithinBounds
  <2>1. Applying = {} /\ Creating = {}
    BY <1>3 DEF Applying, Creating
  <2>2. Cardinality(Applying) = 0 /\ Cardinality(Creating) = 0 /\ Len(requests) = 0
    BY <1>1, <2>1, FS_EmptySet
  <2>3. QED
    BY <1>1, <2>2, Counting, MaxAssumption DEF WithinBounds
<1>7. OneServed /\ Consistent /\ \A t \in Tasks : Knows(t)
  BY <1>1, <1>3 DEF OneServed, Serves, Resting, Consistent, SymmetricFriendship,
     FriendsWereAccepted, SinglePending, OneSingleRoom, BlockRespected, Knows, Found, Flushed,
     Creating
<1>8. QED
  BY <1>4, <1>5, <1>6, <1>7 DEF FriendsInv

\* FriendsInv is an invariant of Friendship.
THEOREM FriendshipInvariance == Spec => []FriendsInv
<1>1. ASSUME FriendsInv, [Next]_vars
      PROVE  FriendsInv'
  <2>1. CASE \E t \in Tasks : Begin(t)
    BY <1>1, <2>1, BeginKeeps
  <2>2. CASE (\E t \in Tasks : Step(t)) /\ UNCHANGED overlapped
    <3>1. PICK t \in Tasks : Step(t)
      BY <2>2
    <3>2. CASE DeadlockAbort(t)
      <4>1. Finish(t, "crashed") /\ UNCHANGED tables /\ "crashed" \in Resting
        BY <3>2 DEF DeadlockAbort, Resting
      <4>2. Serves(t)
        BY <3>2 DEF DeadlockAbort, WaitsFor, Wanted, Serves, Resting, At
      <4>3. QED
        BY <1>1, <2>2, <4>1, <4>2, Answered
    <3>3. QED
      BY <1>1, <2>2, <3>1, <3>2, ApplyKeeps, HandleKeeps, DeleteKeeps, BlockKeeps, GetOrCreateKeeps
      DEF Step
  <2>3. CASE (\E t \in Tasks : Fails(t)) /\ UNCHANGED overlapped
    <3>1. PICK t \in Tasks : Fails(t)
      BY <2>3
    <3>2. Serves(t) /\ Finish(t, "idle") /\ UNCHANGED tables /\ "idle" \in Resting
      BY <3>1 DEF Fails, Serves, Resting
    <3>3. QED
      BY <1>1, <2>3, <3>2, Answered
  <2>4. CASE LeaveRoom /\ UNCHANGED overlapped
    BY <1>1, <2>4, LeaveKeeps
  <2>5. CASE UNCHANGED vars
    <3>1. UNCHANGED <<friends, blocks, requests, rooms, task, adds, dels, overlapped>>
      BY <2>5 DEF vars
    <3>2. Applying' = Applying /\ Creating' = Creating
      BY <3>1 DEF Applying, Creating
    <3>3. \A t \in Tasks : HeldBy(t)' /\ HandlesRequest(t)' /\ (Knows(t) => Knows(t)')
      BY <1>1, <3>1, <3>2 DEF FriendsInv, HeldBy, OwnRow, OtherRow, HandlesRequest, Knows,
         PendingBetween, At
    <3>4. TablesTyped' /\ TasksTyped' /\ WithinBounds'
      BY <1>1, <3>1, <3>2 DEF FriendsInv, TablesTyped, TasksTyped, WithinBounds
    <3>5. ~overlapped' => OneServed' /\ Consistent'
      BY <1>1, <3>1 DEF FriendsInv, OneServed, Serves, Consistent, SymmetricFriendship,
         FriendsWereAccepted, SinglePending, OneSingleRoom, BlockRespected
    <3>6. QED
      BY <1>1, <3>1, <3>3, <3>4, <3>5 DEF FriendsInv
  <2>6. QED
    BY <1>1, <2>1, <2>2, <2>3, <2>4, <2>5 DEF Next
<1>2. QED
  BY InitFriendsInv, <1>1, PTL DEF Spec

\* Types; as many single rooms at most as requests are served at once, and
\* uncommitted rows only inside a transaction.
THEOREM FriendshipTypes == Spec => []TypeOK
<1>1. FriendsInv => TypeOK
  <2> SUFFICES ASSUME FriendsInv
               PROVE  TypeOK
    OBVIOUS
  <2>1. Len(requests) <= MaxRequests /\ rooms \in 0..Cardinality(Tasks)
    <3>1. /\ Cardinality(Applying) \in Nat /\ Cardinality(Creating) \in Nat
          /\ Cardinality(Tasks) \in Nat /\ MaxRequests \in Nat
      BY Counting, MaxAssumption DEF Applying, Creating
    <3>2. Len(requests) \in Nat /\ rooms \in Nat
      BY DEF FriendsInv, TablesTyped
    <3>3. QED
      BY <3>1, <3>2 DEF FriendsInv, WithinBounds
  <2>2. \A r \in DOMAIN requests : requests[r] \in Requests
    BY DEF FriendsInv, TablesTyped
  <2>3. \A t \in Tasks : /\ adds[t] \subseteq Both /\ dels[t] \subseteq Both
                         /\ task[t].pc \in Resting => adds[t] = {} /\ dels[t] = {}
    BY DEF FriendsInv, TasksTyped, HeldBy, Resting, Flushed, At
  <2>4. QED
    BY <2>1, <2>2, <2>3 DEF FriendsInv, TypeOK, TablesTyped, TasksTyped, Requests, TaskStates
<1>2. QED
  BY <1>1, FriendshipInvariance, PTL

\* The tables agree with each other as long as no two requests were served at
\* the same time (friend_service.py:25-130, room_service.py:28-45).
THEOREM OneByOneIsConsistent == Spec => []ConsistentOneByOne
<1>1. FriendsInv => ConsistentOneByOne
  BY DEF FriendsInv, Consistent, ConsistentOneByOne
<1>2. QED
  BY <1>1, FriendshipInvariance, PTL

-----------------------------------------------------------------------------
\* What one has that another can wait for: the row of a request, friendships
\* inserted or friendships deleted, all of them uncommitted.
LEMMA WaitedFor ==
  ASSUME FriendsInv, NEW s \in Tasks, NEW t \in Tasks, WaitsFor(s, t)
  PROVE  /\ task[s].pc \in {"accept", "reject", "addFirst", "addSecond", "deleteOwn", "deleteOther"}
         /\ task[t].pc \in {"addFirst", "addSecond", "findRoom", "commit", "deleteOther"}
         /\ Serves(s) /\ Serves(t)
         /\ task[t].pc \in {"addFirst", "findRoom", "commit"} =>
              task[s].pc \in {"accept", "reject", "addFirst", "addSecond"}
         /\ task[t].pc = "addFirst" => task[s].pc \in {"accept", "reject"}
<1>1. HeldBy(t)
  BY DEF FriendsInv
<1>2. /\ dels[t] # {} => task[t].pc = "deleteOther"
      /\ adds[t] # {} => task[t].pc \in {"addSecond", "findRoom", "commit"}
  BY <1>1 DEF HeldBy, Flushed, At
<1>3. Wanted(s) # {} => task[s].pc \in {"addFirst", "addSecond", "deleteOwn", "deleteOther"}
  BY DEF Wanted, At
<1>4. \/ task[s].pc \in {"accept", "reject"} /\ Updated(t)
      \/ Wanted(s) # {} /\ dels[t] # {}
      \/ task[s].pc \in {"addFirst", "addSecond"} /\ adds[t] # {}
  BY DEF WaitsFor
<1>5. QED
  BY <1>2, <1>3, <1>4 DEF Updated, Serves, Resting

\* Who deletes the second row waits for somebody who deletes it as his first.
LEMMA DeletionWaits ==
  ASSUME FriendsInv, NEW s \in Tasks, NEW t \in Tasks, At(s, "deleteOther")
  PROVE  WaitsFor(s, t) <=> s # t /\ At(t, "deleteOther") /\ OtherRow(s) \in dels[t]
<1>1. Wanted(s) = {OtherRow(s)}
  <2>1. Wanted(s) = Both \ {OwnRow(s)}
    BY DEF Wanted, OwnRow, At
  <2>2. task[s].user \in Users
    BY DEF FriendsInv, TasksTyped, TaskStates
  <2>3. Both = {OwnRow(s), OtherRow(s)} /\ OwnRow(s) # OtherRow(s)
    BY <2>2, TwoRows DEF OwnRow, OtherRow
  <2>4. QED
    BY <2>1, <2>3
<1>2. dels[t] # {} => At(t, "deleteOther")
  BY DEF FriendsInv, HeldBy
<1>3. QED
  BY <1>1, <1>2 DEF WaitsFor, At

\* Two who delete wait for each other, if one waits for a third who waits too.
LEMMA DeletionsInACircle ==
  ASSUME FriendsInv, NEW s \in Tasks, At(s, "deleteOther"),
         \A t \in Tasks : Serves(t) => \E r \in Tasks : WaitsFor(t, r)
  PROVE  \E t, r \in Tasks : WaitsFor(t, r) /\ WaitsFor(r, t)
<1>1. \A t \in Tasks : At(t, "deleteOther") =>
        \E r \in Tasks : At(r, "deleteOther") /\ r # t /\ OtherRow(t) = OwnRow(r) /\ OwnRow(r) \in dels[r]
  <2> SUFFICES ASSUME NEW t \in Tasks, At(t, "deleteOther")
               PROVE  \E r \in Tasks : /\ At(r, "deleteOther") /\ r # t
                                       /\ OtherRow(t) = OwnRow(r) /\ OwnRow(r) \in dels[r]
    OBVIOUS
  <2>1. Serves(t)
    BY DEF Serves, Resting, At
  <2>2. PICK r \in Tasks : WaitsFor(t, r)
    BY <2>1
  <2>3. t # r /\ At(r, "deleteOther") /\ OtherRow(t) \in dels[r]
    BY <2>2, DeletionWaits
  <2>4. dels[r] \subseteq {OwnRow(r)}
    BY <2>3 DEF FriendsInv, HeldBy
  <2>5. QED
    BY <2>3, <2>4
<1>2. PICK t \in Tasks : At(t, "deleteOther") /\ OwnRow(t) \in dels[t]
  BY <1>1
<1>3. PICK r \in Tasks : At(r, "deleteOther") /\ r # t /\ OtherRow(t) = OwnRow(r) /\ OwnRow(r) \in dels[r]
  BY <1>1, <1>2
<1>4. OtherRow(r) = OwnRow(t)
  BY <1>3 DEF OwnRow, OtherRow
<1>5. WaitsFor(t, r) /\ WaitsFor(r, t)
  BY <1>2, <1>3, <1>4, DeletionWaits
<1>6. QED
  BY <1>5

\* Who inserts the second row waits for somebody who deletes, or for one that
\* has inserted it.
LEMMA InsertWaits ==
  ASSUME FriendsInv, NEW s \in Tasks, NEW t \in Tasks, At(s, "addSecond"), At(t, "addSecond")
  PROVE  WaitsFor(s, t) <=> s # t /\ task[s].user # task[t].user
<1>1. /\ task[s].user \in Users /\ task[t].user \in Users
      /\ adds[s] = {OtherRow(s)} /\ adds[t] = {OtherRow(t)} /\ dels[t] = {}
  BY DEF FriendsInv, TasksTyped, TaskStates, HeldBy, At
<1>2. Wanted(s) = Both \ {OtherRow(s)}
  BY <1>1 DEF Wanted, At
<1>3. OtherRow(t) \in Both
  BY <1>1, TwoRows DEF OtherRow
<1>4. OtherRow(s) = OtherRow(t) <=> task[s].user = task[t].user
  BY <1>1, TwoRows DEF OtherRow
<1>5. WaitsFor(s, t) <=> s # t /\ OtherRow(t) \in Wanted(s)
  BY <1>1 DEF WaitsFor, At
<1>6. QED
  BY <1>2, <1>3, <1>4, <1>5

\* Accepts and deletions, any number of them at once, wait for each other in a
\* circle only when two users accept each other's request or delete their
\* friendship, and have both written one row of it (friend_repo.py:24-36).
THEOREM DeadlocksAreOpposite == Spec => []OnlyOppositesDeadlock
<1>1. ASSUME FriendsInv, NEW s \in Tasks, NEW t \in Tasks, WaitsFor(s, t), WaitsFor(t, s)
      PROVE  Opposites(s, t)
  <2>1. /\ task[s].pc \in {"addSecond", "deleteOther"}
        /\ task[t].pc \in {"addSecond", "deleteOther"}
    BY <1>1, WaitedFor
  <2>2. CASE At(s, "deleteOther")
    <3>1. At(t, "deleteOther") /\ OtherRow(s) \in dels[t]
      BY <1>1, <2>2, DeletionWaits
    <3>2. OtherRow(s) = OwnRow(t)
      BY <1>1, <3>1 DEF FriendsInv, HeldBy
    <3>3. task[s].user \in Users
      BY <1>1 DEF FriendsInv, TasksTyped, TaskStates
    <3>4. task[s].user # task[t].user
      BY <3>2, <3>3, TwoRows DEF OwnRow, OtherRow
    <3>5. QED
      BY <2>2, <3>1, <3>4 DEF Opposites, At
  <2>3. CASE At(t, "deleteOther")
    <3>1. At(s, "deleteOther")
      BY <1>1, <2>3, DeletionWaits
    <3>2. QED
      BY <2>2, <3>1
  <2>4. CASE At(s, "addSecond") /\ At(t, "addSecond")
    BY <1>1, <2>4, InsertWaits DEF Opposites, At
  <2>5. QED
    BY <2>1, <2>2, <2>3, <2>4 DEF At
<1>2. ASSUME FriendsInv, NEW t \in Tasks, Serves(t),
             \A s \in Tasks : Serves(s) => \E r \in Tasks : WaitsFor(s, r)
      PROVE  \E r, s \in Tasks : WaitsFor(r, s) /\ WaitsFor(s, r)
  <2>1. \A s \in Tasks : task[s].pc \notin {"findRoom", "commit"}
    BY <1>2, WaitedFor DEF Serves, Resting
  <2>2. CASE \E s \in Tasks : At(s, "deleteOther")
    BY <1>2, <2>2, DeletionsInACircle
  <2>3. CASE \A s \in Tasks : ~At(s, "deleteOther")
    <3>1. \A r, s \in Tasks : WaitsFor(r, s) => task[s].pc \in {"addFirst", "addSecond"}
      BY <1>2, <2>1, <2>3, WaitedFor DEF At
    <3>2. PICK s \in Tasks : task[s].pc \in {"addFirst", "addSecond"}
      BY <1>2, <3>1
    <3>3. \A r \in Tasks : task[r].pc \in {"addFirst", "addSecond"} =>
            \E q \in Tasks : WaitsFor(r, q) /\ At(q, "addSecond")
      BY <1>2, <3>1, WaitedFor DEF Serves, Resting, At
    <3>4. PICK r \in Tasks : At(r, "addSecond")
      BY <3>2, <3>3
    <3>5. PICK q \in Tasks : WaitsFor(r, q) /\ At(q, "addSecond")
      BY <3>3, <3>4 DEF At
    <3>6. WaitsFor(q, r)
      BY <1>2, <3>4, <3>5, InsertWaits
    <3>7. QED
      BY <3>5, <3>6
  <2>4. QED
    BY <2>2, <2>3
<1>3. FriendsInv => OnlyOppositesDeadlock
  BY <1>1, <1>2 DEF OnlyOppositesDeadlock, Serves
<1>4. QED
  BY <1>3, FriendshipInvariance, PTL
=============================================================================
