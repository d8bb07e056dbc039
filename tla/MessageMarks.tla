---------------------------- MODULE MessageMarks ----------------------------
(***************************************************************************)
(* Marks of one type on one message: MessageService.mark over              *)
(* MessageRepo.mark_toggle, a SELECT, then a DELETE or an INSERT, then a   *)
(* COUNT, in one transaction at READ COMMITTED.  A mark is a row with an   *)
(* id; uq_msg_mark lets a user have one.  The checks before (the message   *)
(* exists, its room has the user as a member) change nothing and are left  *)
(* out.                                                                    *)
(***************************************************************************)
EXTENDS Naturals, FiniteSets

CONSTANTS Users,
          Tasks,        \* requests served concurrently
          UserOf,       \* UserOf[t]: the user whose requests t serves
          MaxRows       \* bound: ids drawn for marks

ASSUME UsersAssumption == IsFiniteSet(Users)
ASSUME UserOfAssumption == UserOf \in [Tasks -> Users]
ASSUME MaxAssumption == MaxRows \in Nat

VARIABLES
  mark,      \* mark[u]: id of the committed row of u, 0 when there is none
  nextId,    \* the next id
  task,      \* task[t]: step, the id the SELECT found, the count returned
  add,       \* add[t]: id of the row inserted and not committed, or 0
  del,       \* del[t]: id of the row deleted and not committed, or 0
  toggles    \* toggles[u]: requests of u that were answered

vars == <<mark, nextId, task, add, del, toggles>>

Rest(s) == [pc |-> s, found |-> 0, count |-> 0]
At(t, s) == task[t].pc = s
Resting == {"idle", "crashed"}
Finish(t, s) ==
  /\ task' = [task EXCEPT ![t] = Rest(s)]
  /\ add' = [add EXCEPT ![t] = 0]
  /\ del' = [del EXCEPT ![t] = 0]

Init ==
  /\ mark = [u \in Users |-> 0] /\ nextId = 1
  /\ task = [t \in Tasks |-> Rest("idle")]
  /\ add = [t \in Tasks |-> 0] /\ del = [t \in Tasks |-> 0]
  /\ toggles = [u \in Users |-> 0]

\* The SELECT of mark_toggle, which locks nothing.
Select(t) ==
  /\ task[t].pc \in Resting
  /\ task' = [task EXCEPT ![t] = [Rest("toggle") EXCEPT !.found = mark[UserOf[t]]]]
  /\ UNCHANGED <<mark, nextId, add, del, toggles>>

\* Transactions of the same user's other requests that hold a row of his.
Others(t) == {s \in Tasks \ {t} : UserOf[s] = UserOf[t]}
Inserting(t) == \E s \in Others(t) : add[s] # 0
Deleting(t, id) == \E s \in Others(t) : del[s] = id

MutantInsert(t) ==             \* no unique constraint
  /\ At(t, "toggle") /\ task[t].found = 0 /\ nextId <= MaxRows
  /\ add' = [add EXCEPT ![t] = nextId]
  /\ nextId' = nextId + 1
  /\ task' = [task EXCEPT ![t].pc = "count"]
  /\ UNCHANGED <<mark, del, toggles>>
\* The flush of an INSERT: it waits for an uncommitted row of the same key.
Insert(t) ==
  /\ At(t, "toggle") /\ task[t].found = 0
  /\ mark[UserOf[t]] = 0 /\ ~Inserting(t) /\ nextId <= MaxRows
  /\ add' = [add EXCEPT ![t] = nextId]
  /\ nextId' = nextId + 1
  /\ task' = [task EXCEPT ![t].pc = "count"]
  /\ UNCHANGED <<mark, del, toggles>>

\* uq_msg_mark: the user has a mark by now, and nobody is deleting it.
InsertConflict(t) ==
  /\ At(t, "toggle") /\ task[t].found = 0
  /\ mark[UserOf[t]] # 0 /\ ~Deleting(t, mark[UserOf[t]])
  /\ Finish(t, "crashed")
  /\ UNCHANGED <<mark, nextId, toggles>>

\* The flush of a DELETE by id: a row that is gone is no error.
Delete(t) ==
  /\ At(t, "toggle") /\ task[t].found # 0
  /\ ~Deleting(t, task[t].found)
  /\ del' = [del EXCEPT ![t] = IF mark[UserOf[t]] = task[t].found THEN task[t].found ELSE 0]
  /\ task' = [task EXCEPT ![t].pc = "count"]
  /\ UNCHANGED <<mark, nextId, add, toggles>>

\* Users whose marks the transaction sees: the committed ones, and its own.
Visible(t) ==
  {u \in Users : IF u = UserOf[t] /\ (add[t] # 0 \/ del[t] # 0) THEN add[t] # 0
                 ELSE mark[u] # 0}

Count(t) ==
  /\ At(t, "count")
  /\ task' = [task EXCEPT ![t].pc = "commit", ![t].count = Cardinality(Visible(t))]
  /\ UNCHANGED <<mark, nextId, add, del, toggles>>

MutantCommit(t) ==             \* the deleted row stays
  /\ At(t, "commit")
  /\ mark' = [mark EXCEPT ![UserOf[t]] = IF add[t] # 0 THEN add[t] ELSE @]
  /\ toggles' = [toggles EXCEPT ![UserOf[t]] = @ + 1]
  /\ Finish(t, "idle")
  /\ UNCHANGED nextId
Commit(t) ==
  /\ At(t, "commit")
  /\ mark' = [mark EXCEPT ![UserOf[t]] =
                IF add[t] # 0 THEN add[t] ELSE IF del[t] # 0 THEN 0 ELSE @]
  /\ toggles' = [toggles EXCEPT ![UserOf[t]] = @ + 1]
  /\ Finish(t, "idle")
  /\ UNCHANGED nextId

\* The database refuses a statement: rolled back.
Fails(t) ==
  /\ task[t].pc \notin Resting
  /\ Finish(t, "crashed")
  /\ UNCHANGED <<mark, nextId, toggles>>

Toggle(t) ==
  Insert(t) \/ InsertConflict(t) \/ Delete(t) \/ Count(t) \/ Commit(t)

Next == \E t \in Tasks : Select(t) \/ Toggle(t) \/ Fails(t)

Spec == Init /\ [][Next]_vars

-----------------------------------------------------------------------------
\* Besides types: two transactions never hold the same row or key, and the count
\* to be returned has the request's own effect in it, whatever others committed.
TypeOK ==
  /\ mark \in [Users -> 0..MaxRows] /\ nextId \in 1..(MaxRows + 1)
  /\ task \in [Tasks -> [pc : Resting \union {"toggle", "count", "commit"},
                         found : 0..MaxRows, count : 0..Cardinality(Users)]]
  /\ \A t \in Tasks : \A s \in Others(t) :
       /\ add[t] # 0 => add[s] = 0 /\ mark[UserOf[t]] = 0
       /\ del[t] # 0 => del[s] # del[t] /\ mark[UserOf[t]] = del[t]
  /\ \A t \in Tasks : At(t, "commit") =>
       /\ add[t] # 0 => task[t].count >= 1
       /\ del[t] # 0 => task[t].count < Cardinality(Users)

\* Submitting the same mark again cancels it (message_service.py:127): a user
\* whose requests are served one at a time has the mark, when none is at work,
\* if he submitted it an odd number of times, whatever other users do and
\* however often his requests fail.
TogglesCancel ==
  \A t \in Tasks :
    Others(t) = {} /\ task[t].pc \in Resting
      => (mark[UserOf[t]] # 0 <=> toggles[UserOf[t]] % 2 = 1)
=============================================================================
