------------------------------ MODULE Accounts ------------------------------
(***************************************************************************)
(* What changes the table users: UserService.register, with its check, its *)
(* unique constraint and the translation of IntegrityError, and update_me, *)
(* which reads the user's row, sets what the patch names and lets          *)
(* SQLAlchemy write the columns whose value differs from the one it read.  *)
(* Nothing deletes or disables a user.  Each request is a task of its own. *)
(***************************************************************************)
EXTENDS Naturals, FiniteSets

CONSTANTS Registrations, NameOf,   \* NameOf[t]: the user name t asks for
          Patches,                 \* requests of one registered user
          Fields, PatchOf          \* PatchOf[t]: new values of some Fields

ASSUME TasksAssumption == Registrations \intersect Patches = {}
ASSUME PatchAssumption == \A t \in Patches : DOMAIN PatchOf[t] \subseteq Fields

Names == {NameOf[t] : t \in Registrations}
Nobody == "nobody"
ASSUME NobodyAssumption == Nobody \notin Registrations
Old == "old"                       \* the value of every field at the start

VARIABLES
  owner,     \* owner[n]: the request whose row has the name n, or Nobody
  inserting, \* registrations that inserted their row and have not committed
  profile,   \* the committed row of the user that is patched
  read,      \* read[t]: that row as patch t has read it
  step       \* step[t]: where the request stands

accountsVars == <<owner, inserting, profile, read, step>>

UserTasks == Registrations \union Patches
Answers == {"created", "taken", "patched", "failed"}
StepTo(t, s) == step' = [step EXCEPT ![t] = s]

AccountsInit ==
  /\ owner = [n \in Names |-> Nobody]
  /\ inserting = {}
  /\ profile = [f \in Fields |-> Old]
  /\ read = [t \in Patches |-> profile]
  /\ step = [t \in UserTasks |-> "idle"]

-----------------------------------------------------------------------------
\* UserService.register

\* get_by_username; the password is hashed before the next statement.
LookUp(t) ==
  /\ t \in Registrations /\ step[t] = "idle"
  /\ StepTo(t, IF owner[NameOf[t]] = Nobody THEN "insert" ELSE "taken")
  /\ UNCHANGED <<owner, inserting, profile, read>>

MutantInsertUser(t) ==         \* without uq_users_username
  /\ step[t] = "insert"
  /\ inserting' = inserting \union {t} /\ StepTo(t, "commit")
  /\ UNCHANGED <<owner, profile, read>>
\* The flush: it waits for an uncommitted row of the same name, and an
\* IntegrityError is answered like a name that was found.
InsertUser(t) ==
  /\ step[t] = "insert"
  /\ \A s \in inserting : NameOf[s] # NameOf[t]
  /\ IF owner[NameOf[t]] = Nobody
     THEN inserting' = inserting \union {t} /\ StepTo(t, "commit")
     ELSE StepTo(t, "taken") /\ UNCHANGED inserting
  /\ UNCHANGED <<owner, profile, read>>

CommitUser(t) ==
  /\ step[t] = "commit"
  /\ owner' = [owner EXCEPT ![NameOf[t]] = t]
  /\ inserting' = inserting \ {t}
  /\ StepTo(t, "created")
  /\ UNCHANGED <<profile, read>>

-----------------------------------------------------------------------------
\* UserService.update_me

ReadUser(t) ==
  /\ t \in Patches /\ step[t] = "idle"
  /\ read' = [read EXCEPT ![t] = profile]
  /\ StepTo(t, "update")
  /\ UNCHANGED <<owner, inserting, profile>>

\* Columns of the UPDATE: named by the patch, and not what was read.
Written(t, f) == f \in DOMAIN PatchOf[t] /\ PatchOf[t][f] # read[t][f]

MutantUpdateUser(t) ==         \* every column is written back
  /\ step[t] = "update"
  /\ profile' = [f \in Fields |-> IF Written(t, f) THEN PatchOf[t][f] ELSE read[t][f]]
  /\ StepTo(t, "patched")
  /\ UNCHANGED <<owner, inserting, read>>
\* UPDATE and commit.
UpdateUser(t) ==
  /\ step[t] = "update"
  /\ profile' = [f \in Fields |-> IF Written(t, f) THEN PatchOf[t][f] ELSE profile[f]]
  /\ StepTo(t, "patched")
  /\ UNCHANGED <<owner, inserting, read>>

\* The database refuses a statement or the process dies: rolled back.
TaskFails(t) ==
  /\ step[t] \notin Answers \union {"idle"}
  /\ inserting' = inserting \ {t}
  /\ StepTo(t, "failed")
  /\ UNCHANGED <<owner, profile, read>>

-----------------------------------------------------------------------------
Register(t) == LookUp(t) \/ InsertUser(t) \/ CommitUser(t)
UpdateMe(t) == ReadUser(t) \/ UpdateUser(t)

AccountsNext == \E t \in UserTasks : Register(t) \/ UpdateMe(t) \/ TaskFails(t)
AccountsSpec == AccountsInit /\ [][AccountsNext]_accountsVars

-----------------------------------------------------------------------------
\* Besides types: of several registrations of a name one at most is ahead of
\* its commit.
AccountsTypeOK ==
  /\ owner \in [Names -> Registrations \union {Nobody}]
  /\ inserting = {t \in Registrations : step[t] = "commit"}
  /\ \A s, t \in inserting : NameOf[s] = NameOf[t] => s = t
  /\ DOMAIN profile = Fields /\ \A t \in Patches : DOMAIN read[t] = Fields
  /\ step \in [UserTasks -> Answers \union {"idle", "insert", "commit", "update"}]

\* Of those who register the same name at the same time one is told that he
\* has it, and has it; the others are told that it is taken only when it is
\* (user_service.py:25-36).
AnswersAreTrue ==
  \A t \in Registrations :
    /\ step[t] = "created" => owner[NameOf[t]] = t
    /\ step[t] = "taken" => owner[NameOf[t]] # Nobody

\* Patches of different fields do not undo each other although each works on
\* a copy of the row read earlier: a field has a value that an answered patch
\* gave it, once one did.
PatchesAreKept ==
  \A f \in Fields :
    LET values == {PatchOf[t][f] : t \in {p \in Patches : step[p] = "patched" /\ f \in DOMAIN PatchOf[p]}}
    IN  values # {} => profile[f] \in values
=============================================================================
