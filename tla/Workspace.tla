------------------------------- MODULE Workspace -------------------------------
(***************************************************************************)
(* Projects and tasks of the resource-service, with the user mirror that   *)
(* their owners refer to.  Every request first provisions its caller's     *)
(* mirror row, in a transaction of its own whose INSERT and commit are two *)
(* steps, and then runs one use case in a second one: the SELECTs that     *)
(* establish ownership, each on what is committed by then, and the write   *)
(* that is flushed at the commit, which may meet a table that has changed  *)
(* since.                                                                  *)
(*                                                                         *)
(* A project or task carries one text for all its mutable columns: every   *)
(* PUT replaces all of them.                                               *)
(***************************************************************************)
CONSTANTS
  Proc,       \* request threads
  User,       \* subjects of verified access tokens
  Claim,      \* the e-mail claims a token may carry
  Pid, Tid,   \* ids of projects and tasks that may be minted; bound the creations
  Text,       \* contents
  Null,       \* no id, no user, no text, no mirror row
  NoRow       \* a row that is not stored

ASSUME MarkersAssumption ==
  /\ Null \notin Pid \cup Tid \cup User \cup Claim \cup Text
  /\ NoRow \notin [owner : User, text : Text] \cup [project : Pid, text : Text]
  /\ Pid \cap Tid = {}

VARIABLES
  mirror,     \* mirror[u]: the claim stored for u in table users
  projects,   \* the committed rows of table projects
  tasks,      \* the committed rows of table tasks
  deleted,    \* history: the ids of rows that were deleted
  tx          \* tx[p]: the request on p and its use case's transaction

tables == <<mirror, projects, tasks, deleted>>
vars == <<mirror, projects, tasks, deleted, tx>>

ProjectRow == [owner : User, text : Text]
TaskRow == [project : Pid, text : Text]

ProjectOps == {"getProject", "updateProject", "deleteProject"}
NestedOps == {"createTask", "listTasks"}
TaskOps == {"getTask", "updateTask", "deleteTask"}
Ops == {"createProject", "listProjects"} \cup ProjectOps \cup NestedOps \cup TaskOps

\* What a request of each kind carries in its path and its body.
PathPids(op) == IF op \in ProjectOps \cup NestedOps THEN Pid ELSE {Null}
PathTids(op) == IF op \in TaskOps THEN Tid ELSE {Null}
Bodies(op) == IF op \in {"createProject", "updateProject", "createTask", "updateTask"}
                THEN Text ELSE {Null}

Tx == [pc     : {"idle", "arrived", "inserting", "mirrored",
                 "serving", "taskLoaded", "granted"},
       user   : User \cup {Null},
       claim  : Claim \cup {Null},   \* until the mirror is provisioned
       op     : Ops \cup {"none"},
       pid    : Pid \cup {Null},     \* from the path, or of the task that was loaded
       tid    : Tid \cup {Null},
       text   : Text \cup {Null},
       answer : {"none", "ok", "notFound", "error"}]

Idle == [pc |-> "idle", user |-> Null, claim |-> Null, op |-> "none", pid |-> Null,
         tid |-> Null, text |-> Null, answer |-> "none"]

\* existsByIdAndOwnerId, findByIdAndOwnerId
IsOwnedBy(u, x) == projects[x] # NoRow /\ projects[x].owner = u

TasksOf(x) == {t \in Tid : tasks[t] # NoRow /\ tasks[t].project = x}

FreshPids == {x \in Pid : projects[x] = NoRow} \ deleted
FreshTids == {t \in Tid : tasks[t] = NoRow} \ deleted

\* The request of p is answered and its transaction over.
Answer(p, a) == tx' = [tx EXCEPT ![p] = [Idle EXCEPT !.answer = a]]

Serves(p, pc, ops) == tx[p].pc = pc /\ tx[p].op \in ops

-------------------------------------------------------------------------------
Init ==
  /\ mirror = [u \in User |-> Null]
  /\ projects = [x \in Pid |-> NoRow]
  /\ tasks = [t \in Tid |-> NoRow]
  /\ deleted = {}
  /\ tx = [p \in Proc |-> Idle]

\* A request with a verified token arrives.
Arrive(p, u, claim) ==
  /\ tx[p].pc = "idle"
  /\ tx' = [tx EXCEPT ![p] = [Idle EXCEPT !.pc = "arrived", !.user = u, !.claim = claim]]
  /\ UNCHANGED tables

(* preHandle: INSERT ... ON CONFLICT (id) DO NOTHING, and its commit. *)

\* The entries of u in the primary key that are not committed yet.
Pending(u) == {q \in Proc : tx[q].pc = "inserting" /\ tx[q].user = u}

\* The row is there: nothing is inserted.
SkipMirror(p) ==
  /\ tx[p].pc = "arrived"
  /\ mirror[tx[p].user] # Null
  /\ tx' = [tx EXCEPT ![p].pc = "mirrored", ![p].claim = Null]
  /\ UNCHANGED tables

\* Mutant: an entry that is not committed stops nobody.
InsertMirrorNoWait(p) ==
  /\ tx[p].pc = "arrived"
  /\ mirror[tx[p].user] = Null
  /\ tx' = [tx EXCEPT ![p].pc = "inserting"]
  /\ UNCHANGED tables

\* The row is not there.  While another transaction's entry for the same id is
\* pending the statement waits: that commit makes it a SkipMirror, a rollback
\* leaves it this INSERT.
InsertMirror(p) ==
  /\ tx[p].pc = "arrived"
  /\ mirror[tx[p].user] = Null
  /\ Pending(tx[p].user) = {}
  /\ tx' = [tx EXCEPT ![p].pc = "inserting"]
  /\ UNCHANGED tables

CommitMirror(p) ==
  /\ tx[p].pc = "inserting"
  /\ mirror' = [mirror EXCEPT ![tx[p].user] = tx[p].claim]
  /\ tx' = [tx EXCEPT ![p].pc = "mirrored", ![p].claim = Null]
  /\ UNCHANGED <<projects, tasks, deleted>>

\* Mutant: the use case does not wait for the commit of the mirror.
DispatchEarly(p) ==
  /\ tx[p].pc \in {"inserting", "mirrored"}
  /\ \E op \in Ops :
       \E x \in PathPids(op), t \in PathTids(op), txt \in Bodies(op) :
         tx' = [tx EXCEPT ![p] = [Idle EXCEPT !.pc = "serving", !.user = tx[p].user, !.op = op,
                                              !.pid = x, !.tid = t, !.text = txt]]
  /\ UNCHANGED tables

\* preHandle returns and the use case named by the route begins.
Dispatch(p) ==
  /\ tx[p].pc = "mirrored"
  /\ \E op \in Ops :
       \E x \in PathPids(op), t \in PathTids(op), txt \in Bodies(op) :
         tx' = [tx EXCEPT ![p] = [Idle EXCEPT !.pc = "serving", !.user = tx[p].user, !.op = op,
                                              !.pid = x, !.tid = t, !.text = txt]]
  /\ UNCHANGED tables

(* The ownership checks. *)

\* Mutant: findById, without the owner.
FindAnyProject(p) ==
  /\ Serves(p, "serving", ProjectOps \cup NestedOps)
  /\ projects[tx[p].pid] # NoRow
  /\ tx' = [tx EXCEPT ![p].pc = "granted"]
  /\ UNCHANGED tables

\* findByIdAndOwnerId loads the project; requireOwnedProject lets the request pass.
FindProject(p) ==
  /\ Serves(p, "serving", ProjectOps \cup NestedOps)
  /\ IsOwnedBy(tx[p].user, tx[p].pid)
  /\ tx' = [tx EXCEPT ![p].pc = "granted"]
  /\ UNCHANGED tables

ProjectNotFound(p) ==
  /\ Serves(p, "serving", ProjectOps \cup NestedOps)
  /\ ~IsOwnedBy(tx[p].user, tx[p].pid)
  /\ Answer(p, "notFound")
  /\ UNCHANGED tables

\* TaskService.get: first the task, then whether its project is the caller's.
FindTask(p) ==
  /\ Serves(p, "serving", TaskOps)
  /\ tasks[tx[p].tid] # NoRow
  /\ tx' = [tx EXCEPT ![p].pc = "taskLoaded", ![p].pid = tasks[tx[p].tid].project]
  /\ UNCHANGED tables

CheckTask(p) ==
  /\ Serves(p, "taskLoaded", TaskOps)
  /\ IsOwnedBy(tx[p].user, tx[p].pid)
  /\ tx' = [tx EXCEPT ![p].pc = "granted"]
  /\ UNCHANGED tables

\* Mutant: the ownership test is the wrong way round.
TaskNotFoundIfOwned(p) ==
  /\ \/ Serves(p, "serving", TaskOps) /\ tasks[tx[p].tid] = NoRow
     \/ Serves(p, "taskLoaded", TaskOps) /\ IsOwnedBy(tx[p].user, tx[p].pid)
  /\ Answer(p, "notFound")
  /\ UNCHANGED tables

TaskNotFound(p) ==
  /\ \/ Serves(p, "serving", TaskOps) /\ tasks[tx[p].tid] = NoRow
     \/ Serves(p, "taskLoaded", TaskOps) /\ ~IsOwnedBy(tx[p].user, tx[p].pid)
  /\ Answer(p, "notFound")
  /\ UNCHANGED tables

(* What follows the checks. *)

\* The foreign keys of the rows that p would insert.
OwnerKeyHolds(p) == mirror[tx[p].user] # Null
ProjectKeyHolds(p) == projects[tx[p].pid] # NoRow

\* Mutant: the project is created without its owner.
CreateProjectNoOwner(p) ==
  /\ Serves(p, "serving", {"createProject"})
  /\ OwnerKeyHolds(p)
  /\ \E x \in FreshPids : projects' = [projects EXCEPT ![x] = [owner |-> Null, text |-> tx[p].text]]
  /\ Answer(p, "ok")
  /\ UNCHANGED <<mirror, tasks, deleted>>

\* (With no id left to mint, only Fail
\* can end the request; so it is for tasks.)
CreateProject(p) ==
  /\ Serves(p, "serving", {"createProject"})
  /\ OwnerKeyHolds(p)
  /\ \E x \in FreshPids :
       projects' = [projects EXCEPT ![x] = [owner |-> tx[p].user, text |-> tx[p].text]]
  /\ Answer(p, "ok")
  /\ UNCHANGED <<mirror, tasks, deleted>>

\* What the checks loaded, or a second query for the tasks, is the answer.  The
\* list of projects needs no check: its query asks for the caller's own.
Read(p) ==
  /\ \/ Serves(p, "serving", {"listProjects"})
     \/ Serves(p, "granted", {"getProject", "listTasks", "getTask"})
  /\ Answer(p, "ok")
  /\ UNCHANGED tables

\* Mutant: save() of the edited copy, which inserts the row if it is missing.
UpdateProjectMerges(p) ==
  /\ Serves(p, "granted", {"updateProject"})
  /\ projects' = [projects EXCEPT ![tx[p].pid] = [owner |-> tx[p].user, text |-> tx[p].text]]
  /\ Answer(p, "ok")
  /\ UNCHANGED <<mirror, tasks, deleted>>

\* The dirty entity is flushed: owner_id is not updatable.
UpdateProject(p) ==
  /\ Serves(p, "granted", {"updateProject"})
  /\ projects[tx[p].pid] # NoRow
  /\ projects' = [projects EXCEPT ![tx[p].pid].text = tx[p].text]
  /\ Answer(p, "ok")
  /\ UNCHANGED <<mirror, tasks, deleted>>

\* ON DELETE CASCADE takes the project's tasks with it, the ones committed
\* after the project was loaded included.
DeleteProject(p) ==
  /\ Serves(p, "granted", {"deleteProject"})
  /\ projects[tx[p].pid] # NoRow
  /\ projects' = [projects EXCEPT ![tx[p].pid] = NoRow]
  /\ tasks' = [t \in Tid |-> IF t \in TasksOf(tx[p].pid) THEN NoRow ELSE tasks[t]]
  /\ deleted' = deleted \cup {tx[p].pid} \cup TasksOf(tx[p].pid)
  /\ Answer(p, "ok")
  /\ UNCHANGED mirror

\* Mutant: tasks.project_id without a foreign key.
CreateTaskNoForeignKey(p) ==
  /\ Serves(p, "granted", {"createTask"})
  /\ \E t \in FreshTids :
       tasks' = [tasks EXCEPT ![t] = [project |-> tx[p].pid, text |-> tx[p].text]]
  /\ Answer(p, "ok")
  /\ UNCHANGED <<mirror, projects, deleted>>

CreateTask(p) ==
  /\ Serves(p, "granted", {"createTask"})
  /\ ProjectKeyHolds(p)
  /\ \E t \in FreshTids :
       tasks' = [tasks EXCEPT ![t] = [project |-> tx[p].pid, text |-> tx[p].text]]
  /\ Answer(p, "ok")
  /\ UNCHANGED <<mirror, projects, deleted>>

UpdateTask(p) ==
  /\ Serves(p, "granted", {"updateTask"})
  /\ tasks[tx[p].tid] # NoRow
  /\ tasks' = [tasks EXCEPT ![tx[p].tid].text = tx[p].text]
  /\ Answer(p, "ok")
  /\ UNCHANGED <<mirror, projects, deleted>>

\* Mutant: tasks are deleted by their project's id.
DeleteTaskByProject(p) ==
  /\ Serves(p, "granted", {"deleteTask"})
  /\ tasks[tx[p].tid] # NoRow
  /\ tasks' = [t \in Tid |-> IF t \in TasksOf(tx[p].pid) THEN NoRow ELSE tasks[t]]
  /\ deleted' = deleted \cup TasksOf(tx[p].pid)
  /\ Answer(p, "ok")
  /\ UNCHANGED <<mirror, projects>>

DeleteTask(p) ==
  /\ Serves(p, "granted", {"deleteTask"})
  /\ tasks[tx[p].tid] # NoRow
  /\ tasks' = [tasks EXCEPT ![tx[p].tid] = NoRow]
  /\ deleted' = deleted \cup {tx[p].tid}
  /\ Answer(p, "ok")
  /\ UNCHANGED <<mirror, projects>>

\* The row was deleted since it was found: the foreign key of a new task
\* refuses the INSERT, an UPDATE or DELETE of an entity matches no row.  No
\* handler knows these exceptions: roll back, 500.
RowGone(p) ==
  /\ \/ Serves(p, "granted", {"createTask", "updateProject", "deleteProject"})
        /\ projects[tx[p].pid] = NoRow
     \/ Serves(p, "granted", {"updateTask", "deleteTask"})
        /\ tasks[tx[p].tid] = NoRow
  /\ Answer(p, "error")
  /\ UNCHANGED tables

\* A crash or a lost connection: rolled back, and nobody hears an answer.
Fail(p) ==
  /\ tx[p].pc # "idle"
  /\ Answer(p, "none")
  /\ UNCHANGED tables

-------------------------------------------------------------------------------
Next ==
  \E p \in Proc :
    \/ \E u \in User, claim \in Claim : Arrive(p, u, claim)
    \/ SkipMirror(p) \/ InsertMirror(p) \/ CommitMirror(p) \/ Dispatch(p)
    \/ FindProject(p) \/ ProjectNotFound(p)
    \/ FindTask(p) \/ CheckTask(p) \/ TaskNotFound(p)
    \/ CreateProject(p) \/ UpdateProject(p) \/ DeleteProject(p)
    \/ CreateTask(p) \/ UpdateTask(p) \/ DeleteTask(p)
    \/ Read(p) \/ RowGone(p) \/ Fail(p)

Spec == Init /\ [][Next]_vars

-------------------------------------------------------------------------------
\* Every variable has its type.
TypeOK ==
  /\ mirror \in [User -> Claim \cup {Null}]
  /\ projects \in [Pid -> ProjectRow \cup {NoRow}]
  /\ tasks \in [Tid -> TaskRow \cup {NoRow}]
  /\ deleted \subseteq Pid \cup Tid
  /\ tx \in [Proc -> Tx]

\* Referential integrity across the races of creations and deletions: a task's
\* project is stored, a project's owner is mirrored.
NoOrphans ==
  /\ \A t \in Tid : tasks[t] # NoRow => projects[tasks[t].project] # NoRow
  /\ \A x \in Pid : projects[x] # NoRow => mirror[projects[x].owner] # Null

\* "the row is present by the time a POST /projects tries to satisfy the
\* owner_id foreign key" (MirrorSyncInterceptor), also for a request that
\* inserted nothing because another one's insert was under way: that key
\* never fails.
CallerIsMirrored ==
  \A p \in Proc :
    tx[p].pc \notin {"idle", "arrived", "inserting"} => mirror[tx[p].user] # Null

\* A step that inserts, edits or deletes a row ends a request of the row's
\* owner, whatever happened between its ownership check and its write; for a
\* task the owner is its project's (SDD-002 invariants 1 and 2).
EndsRequestOf(u) == \E p \in Proc : tx[p].user = u /\ tx[p].pc # "idle" /\ tx'[p].pc = "idle"

OwnersProject(x) ==
  /\ projects[x] # NoRow => EndsRequestOf(projects[x].owner)
  /\ projects'[x] # NoRow => EndsRequestOf(projects'[x].owner)

OwnersTask(t) ==
  /\ tasks[t] # NoRow => EndsRequestOf(projects[tasks[t].project].owner)
  /\ tasks'[t] # NoRow => EndsRequestOf(projects'[tasks'[t].project].owner)

OnlyOwnersWrite ==
  [][ /\ \A x \in Pid : projects'[x] # projects[x] => OwnersProject(x)
      /\ \A t \in Tid : tasks'[t] # tasks[t] => OwnersTask(t) ]_vars

\* A deleted project or task never comes back, although requests that found
\* it before may write after.
DeletedIsFinal ==
  /\ \A x \in Pid : x \in deleted => projects[x] = NoRow
  /\ \A t \in Tid : t \in deleted => tasks[t] = NoRow

\* The mirror is create-only (ADR-0006): of several first requests of a user that
\* all found no row, with different claims, one writes it; the others, like every
\* later token, leave it as it is.
FirstSightStays == [][\A u \in User : mirror[u] # Null => mirror'[u] = mirror[u]]_vars

\* A 404 is never the answer for something the caller owns at that moment,
\* with the task found before its project was checked.
Visible(p) ==
  IF tx[p].op \in TaskOps
    THEN tasks[tx[p].tid] # NoRow /\ IsOwnedBy(tx[p].user, tasks[tx[p].tid].project)
    ELSE IsOwnedBy(tx[p].user, tx[p].pid)

NotFoundIsTrue ==
  [][\A p \in Proc : tx[p].pc # "idle" /\ tx'[p].answer = "notFound" => ~Visible(p)]_vars

-------------------------------------------------------------------------------
(* Refinement. *)

StoredTasks == {t \in Tid : tasks[t] # NoRow}
StoredProjects == {x \in Pid : projects[x] # NoRow}

ItemsOf(x) == [t \in Tid |-> IF t \in TasksOf(x) THEN tasks[t].text ELSE Null]

Shelved(x) ==
  IF projects[x] = NoRow
    THEN [owner |-> Null, text |-> Null, items |-> [t \in Tid |-> Null]]
    ELSE [owner |-> projects[x].owner, text |-> projects[x].text, items |-> ItemsOf(x)]

Shelf == [x \in Pid |-> Shelved(x)]

OS == INSTANCE OwnedStore
        WITH shelf <- Shelf, spent <- deleted \cup StoredProjects \cup StoredTasks

\* The two tables, written some time after the ownership checks and with the
\* tasks' rows apart from their projects', implement OwnedStore: every write takes
\* effect in one step, as an operation of whoever owns the project at that step
\* (SDD-002 invariants 1 and 2).
ImplementsOwnedStore == OS!Spec

-------------------------------------------------------------------------------
(* What the documents say and the code does not do. *)

\* What ProjectService and TaskService say of a project that does not exist
\* and of a task under one: the answer is a 404 ("reported identically"), so
\* that no well-formed request is answered with a 500.
GoneIsNotFound == \A p \in Proc : tx[p].answer # "error"
===============================================================================
