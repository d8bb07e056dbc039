----------------------------- MODULE GroupChat ------------------------------
(***************************************************************************)
(* What follows a change of the members of GroupRoom.                      *)
(*                                                                         *)
(* After its commit a request that changed the members has more to do:     *)
(* leave_or_kick writes an audit record in a transaction of its own, and   *)
(* both read the members anew and emit an event to them.  Clients that get *)
(* the event ask for their rooms again.                                    *)
(*                                                                         *)
(* create_group tells everybody it invited; that is part of Create here.   *)
(***************************************************************************)
EXTENDS GroupRoom

CONSTANT MaxTargets    \* bound: users to be added by one request
ASSUME TargetsAssumption == MaxTargets \in Nat

Nothing == [step |-> "none", user |-> 0, audience |-> {}]

VARIABLES
  post,     \* post[t]: what t has to do after its commit, whom it removed
  gone,     \* history: whom the request is to remove, somebody removed since it
            \* was found to be a member
  untraced, \* users deleted without an audit record so far
  stale,    \* members who were not told since the members last changed
  failed    \* history: something after a commit failed, what is left of it
            \* is not followed

chatVars == <<post, gone, untraced, stale, failed>>
allVars == <<vars, chatVars>>

ChatInit ==
  /\ Init
  /\ post = [t \in Tasks |-> Nothing]
  /\ gone = [t \in Tasks |-> FALSE]
  /\ untraced = {} /\ stale = {} /\ failed = FALSE

-----------------------------------------------------------------------------
\* What GroupRoom says, and what is left to do after the commits.

Unaffected == UNCHANGED chatVars

\* The request is the only one that its task serves.
Free(t) == ~AtWork(t) /\ post[t] = Nothing

Begin(t) ==
  /\ Free(t)
  /\ \/ t \in Adders /\ BeginAdd(t) /\ Cardinality(task'[t].left) <= MaxTargets
     \/ t \in Removers /\ BeginRemove(t)
  /\ UNCHANGED behind
  /\ gone' = [gone EXCEPT ![t] = FALSE]
  /\ UNCHANGED <<post, untraced, stale, failed>>

Statement(t) ==
  /\ \/ t \in Adders /\ (CountMembers(t) \/ AskMember(t) \/ CheckLimit(t) \/ InsertMember(t))
     \/ t \in Removers /\ (TargetIsMember(t) \/ DeleteMember(t))
     \/ Fails(t)
  /\ Unaffected /\ UNCHANGED behind

Followed(S) == IF failed THEN {} ELSE S

MutantCommitAdded(t) ==       \* the audience is read before the commit
  /\ CommitAdd(t)
  /\ post' = [post EXCEPT ![t].step = "emit", ![t].audience = Followed(members)]
  /\ stale' = Followed(members')
  /\ UNCHANGED <<gone, untraced, failed>>
CommitAdded(t) ==
  /\ CommitAdd(t)
  /\ post' = [post EXCEPT ![t].step = "audience"]
  /\ stale' = Followed(members')
  /\ UNCHANGED <<gone, untraced, failed>>

\* Who is to be removed.
Target(t) == IF t \in Removers THEN task[t].left ELSE {}

\* What was asked for is audited, whatever the DELETE found.
CommitDeleted(t) ==
  /\ CommitDelete(t)
  /\ \E x \in task[t].left : post' = [post EXCEPT ![t].step = "audit", ![t].user = x]
  /\ gone' = [s \in Tasks |-> gone[s] \/ Target(s) \intersect dels[t] # {}]
  /\ untraced' = Followed(untraced \union dels[t])
  /\ stale' = Followed(members')
  /\ UNCHANGED failed

-----------------------------------------------------------------------------
\* After the commit.

Fail == failed' = TRUE /\ untraced' = {} /\ stale' = {}

\* audit.record; a failure is logged.
AuditRecord(t) ==
  /\ post[t].step = "audit"
  /\ post' = [post EXCEPT ![t].step = "audience"] /\ gone' = [gone EXCEPT ![t] = FALSE]
  /\ \/ untraced' = untraced \ {post[t].user} /\ UNCHANGED <<stale, failed>>
     \/ Fail
  /\ UNCHANGED vars

\* list_members, with the session of the request.
ReadAudience(t) ==
  /\ post[t].step = "audience"
  /\ post' = [post EXCEPT ![t] = [Nothing EXCEPT !.step = "emit", !.audience = Followed(members)]]
  /\ UNCHANGED <<vars, gone, untraced, stale, failed>>

\* emit_event; those who get it ask for their rooms again.
Emit(t) ==
  /\ post[t].step = "emit"
  /\ post' = [post EXCEPT ![t] = Nothing]
  /\ stale' = stale \ post[t].audience
  /\ UNCHANGED <<vars, gone, untraced, failed>>

\* The query, Redis or the process fails: what is left is never done.
Forget(t) ==
  /\ post[t] # Nothing
  /\ post' = [post EXCEPT ![t] = Nothing]
  /\ Fail
  /\ UNCHANGED <<vars, gone>>

-----------------------------------------------------------------------------
ChatNext ==
  \/ Create /\ Unaffected /\ UNCHANGED behind
  \/ \E t \in Tasks : Begin(t) \/ Statement(t) \/ AuditRecord(t) \/ ReadAudience(t) \/ Emit(t) \/ Forget(t)
  \/ \E t \in Adders : CommitAdded(t)
  \/ \E t \in Removers : CommitDeleted(t)

ChatSpec == ChatInit /\ [][ChatNext]_allVars

-----------------------------------------------------------------------------
Steps == {"none", "audit", "audience", "emit"}

\* Besides types: a task that has something left to do begins nothing else.
ChatTypeOK ==
  /\ TypeOK
  /\ gone \in [Tasks -> BOOLEAN]
  /\ post \in [Tasks -> [step : Steps, user : Users \union {0}, audience : SUBSET Users]]
  /\ \A t \in Tasks : AtWork(t) => post[t] = Nothing
  /\ untraced \subseteq Users /\ stale \subseteq Users /\ failed \in BOOLEAN

\* Leaving and being removed cannot be undone and must leave a trail
\* (group_service.py:134).  The record is written also for a request whose
\* DELETE found nothing, but never about a user who was not removed: somebody
\* removed him while the request was served.  When all requests are through and
\* nothing failed after a commit, every removal has its record and every member
\* was told after the members last changed, in whatever order concurrent
\* requests committed, read the members and told them.
FollowedUp ==
  /\ \A t \in Removers : post[t].step = "audit" => gone[t]
  /\ (\A t \in Tasks : post[t] = Nothing) => untraced = {} /\ stale = {}
=============================================================================
