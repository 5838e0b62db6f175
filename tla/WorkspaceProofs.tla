---------------------------- MODULE WorkspaceProofs ----------------------------
(***************************************************************************)
(* Safety of module Workspace, for any number of requests, users, projects *)
(* and tasks.                                                              *)
(***************************************************************************)
EXTENDS Workspace, TLAPS

Tables == /\ mirror \in [User -> Claim \cup {Null}]
          /\ projects \in [Pid -> ProjectRow \cup {NoRow}]
          /\ tasks \in [Tid -> TaskRow \cup {NoRow}]
          /\ deleted \subseteq Pid \cup Tid
          /\ NoOrphans
          /\ DeletedIsFinal

\* What a request in flight carries, and what its checks established: its
\* caller is mirrored once it is past preHandle, the task it found is still in
\* that project or was deleted, the project it was granted is still the
\* caller's or was deleted.
Provisioning == {"arrived", "inserting"}
Working == {"serving", "taskLoaded", "granted"}

Request(p) ==
  tx[p].pc # "idle" =>
    /\ tx[p].answer = "none"
    /\ tx[p].user \in User
    /\ tx[p].pc \in Provisioning => tx[p].claim \in Claim
    /\ tx[p].pc = "inserting" => mirror[tx[p].user] = Null
    /\ tx[p].pc \notin Provisioning => mirror[tx[p].user] # Null
    /\ tx[p].pc \in Working =>
         /\ tx[p].op \in Ops
         /\ tx[p].op \in ProjectOps \cup NestedOps => tx[p].pid \in Pid
         /\ tx[p].op \in TaskOps => tx[p].tid \in Tid
         /\ Bodies(tx[p].op) = Text => tx[p].text \in Text
    /\ tx[p].pc = "taskLoaded" => tx[p].op \in TaskOps
    /\ tx[p].pc \in {"taskLoaded", "granted"} /\ tx[p].op \in TaskOps =>
         /\ tx[p].pid \in Pid
         /\ tx[p].tid \in deleted
            \/ (tasks[tx[p].tid] # NoRow /\ tasks[tx[p].tid].project = tx[p].pid)
    /\ tx[p].pc = "granted" =>
         /\ tx[p].pid \in Pid
         /\ tx[p].pid \in deleted \/ IsOwnedBy(tx[p].user, tx[p].pid)

\* The primary key has one pending entry for a user.
OnePending ==
  \A p, q \in Proc :
    tx[p].pc = "inserting" /\ tx[q].pc = "inserting" /\ tx[p].user = tx[q].user => p = q

WInv == Tables /\ tx \in [Proc -> Tx] /\ OnePending /\ \A p \in Proc : Request(p)

\* How the tables may change under a request in flight.
Evolves ==
  /\ mirror' = mirror
  /\ deleted \subseteq deleted'
  /\ \A x \in Pid : projects[x] # NoRow =>
       x \in deleted' \/ (projects'[x] # NoRow /\ projects'[x].owner = projects[x].owner)
  /\ \A t \in Tid : tasks[t] # NoRow =>
       t \in deleted' \/ (tasks'[t] # NoRow /\ tasks'[t].project = tasks[t].project)

LEMMA RowFacts == NoRow \notin ProjectRow /\ NoRow \notin TaskRow
  BY MarkersAssumption DEF ProjectRow, TaskRow

LEMMA RequestFrame ==
  ASSUME WInv, Evolves, NEW q \in Proc, tx'[q] = tx[q]
  PROVE  Request(q)'
  BY DEF WInv, Evolves, Request, IsOwnedBy, Provisioning, Working

\* A step of p that leaves p not inserting adds no pending entry.
LEMMA PendingFrame ==
  ASSUME WInv, NEW p \in Proc, \A q \in Proc \ {p} : tx'[q] = tx[q], tx'[p].pc # "inserting"
  PROVE  OnePending'
  BY DEF WInv, OnePending

LEMMA AnswerEffect ==
  ASSUME tx \in [Proc -> Tx], NEW p \in Proc, NEW a \in {"none", "ok", "notFound", "error"},
         Answer(p, a)
  PROVE  /\ tx' \in [Proc -> Tx]
         /\ \A q \in Proc \ {p} : tx'[q] = tx[q]
         /\ tx'[p].pc = "idle" /\ tx'[p].answer = a
<1> DEFINE t == [Idle EXCEPT !.answer = a]
<1>1. t \in Tx /\ t.pc = "idle" /\ t.answer = a
  BY DEF Idle, Tx
<1>2. tx' = [tx EXCEPT ![p] = t]
  BY DEF Answer
<1> HIDE DEF t
<1> QED
  BY <1>1, <1>2

\* A request that ends keeps the invariant if the tables keep theirs.
LEMMA EndHolds ==
  ASSUME WInv, NEW p \in Proc, NEW a \in {"none", "ok", "notFound", "error"}, Answer(p, a),
         Evolves, Tables'
  PROVE  WInv'
<1>1. /\ tx' \in [Proc -> Tx]
      /\ \A q \in Proc \ {p} : tx'[q] = tx[q]
      /\ tx'[p].pc = "idle"
  BY AnswerEffect DEF WInv
<1>2. \A q \in Proc : Request(q)'
  BY <1>1, RequestFrame DEF Request
<1> QED
  BY <1>1, <1>2, PendingFrame DEF WInv

LEMMA Unchanged ==
  ASSUME WInv, UNCHANGED tables
  PROVE  Evolves /\ Tables'
  BY DEF WInv, Evolves, Tables, tables, NoOrphans, DeletedIsFinal

-------------------------------------------------------------------------------
(* The steps of a request before its answer. *)

LEMMA ArriveHolds ==
  ASSUME WInv, NEW p \in Proc, NEW u \in User, NEW claim \in Claim, Arrive(p, u, claim)
  PROVE  WInv'
<1> DEFINE r == [Idle EXCEPT !.pc = "arrived", !.user = u, !.claim = claim]
<1>1. /\ r \in Tx
      /\ r.answer = "none" /\ r.pc = "arrived" /\ r.user = u /\ r.claim = claim
  BY DEF Idle, Tx
<1>2. tx' = [tx EXCEPT ![p] = r] /\ UNCHANGED tables
  BY DEF Arrive
<1> HIDE DEF r
<1>3. /\ tx' \in [Proc -> Tx] /\ tx'[p] = r
      /\ \A q \in Proc \ {p} : tx'[q] = tx[q]
  BY <1>1, <1>2 DEF WInv
<1>4. Evolves /\ Tables'
  BY <1>2, Unchanged
<1>5. Request(p)'
  BY <1>1, <1>3 DEF Request, Provisioning, Working
<1> QED
  BY <1>1, <1>3, <1>4, <1>5, RequestFrame, PendingFrame DEF WInv

LEMMA MirroredEffect ==
  ASSUME tx \in [Proc -> Tx], NEW p \in Proc,
         tx' = [tx EXCEPT ![p].pc = "mirrored", ![p].claim = Null]
  PROVE  /\ tx' \in [Proc -> Tx]
         /\ \A q \in Proc \ {p} : tx'[q] = tx[q]
         /\ tx'[p].pc = "mirrored" /\ tx'[p].user = tx[p].user /\ tx'[p].answer = tx[p].answer
<1> DEFINE r == [tx[p] EXCEPT !.pc = "mirrored", !.claim = Null]
<1>1. /\ r \in Tx
      /\ r.pc = "mirrored" /\ r.user = tx[p].user /\ r.answer = tx[p].answer
  <2>1. tx[p] \in Tx
    OBVIOUS
  <2> QED
    BY <2>1 DEF Tx
<1>2. tx' = [tx EXCEPT ![p] = r]
  OBVIOUS
<1> HIDE DEF r
<1> QED
  BY <1>1, <1>2

LEMMA SkipMirrorHolds ==
  ASSUME WInv, NEW p \in Proc, SkipMirror(p)
  PROVE  WInv'
<1>1. Evolves /\ Tables' /\ UNCHANGED tables
  BY Unchanged DEF SkipMirror
<1>2. /\ tx' \in [Proc -> Tx]
      /\ \A q \in Proc \ {p} : tx'[q] = tx[q]
      /\ tx'[p].pc = "mirrored" /\ tx'[p].user = tx[p].user /\ tx'[p].answer = tx[p].answer
  BY MirroredEffect DEF SkipMirror, WInv
<1>3. Request(p)'
  BY <1>1, <1>2 DEF SkipMirror, WInv, Request, tables, Provisioning, Working
<1> QED
  BY <1>1, <1>2, <1>3, RequestFrame, PendingFrame DEF WInv

LEMMA InsertMirrorHolds ==
  ASSUME WInv, NEW p \in Proc, InsertMirror(p)
  PROVE  WInv'
<1>1. Evolves /\ Tables' /\ UNCHANGED tables
  BY Unchanged DEF InsertMirror
<1>2. /\ tx' \in [Proc -> Tx]
      /\ \A q \in Proc \ {p} : tx'[q] = tx[q]
      /\ tx'[p].pc = "inserting" /\ tx'[p].user = tx[p].user /\ tx'[p].answer = tx[p].answer
      /\ tx'[p].claim = tx[p].claim
  BY DEF InsertMirror, WInv, Tx
<1>3. Request(p)'
  BY <1>1, <1>2 DEF InsertMirror, WInv, Request, tables, Provisioning, Working
<1>4. OnePending'
  BY <1>2 DEF InsertMirror, Pending, WInv, OnePending
<1> QED
  BY <1>1, <1>2, <1>3, <1>4, RequestFrame DEF WInv

\* The entry that is committed was the only one of its user, and no row was there.
LEMMA CommitMirrorHolds ==
  ASSUME WInv, NEW p \in Proc, CommitMirror(p)
  PROVE  /\ WInv'
         /\ \A u \in User : mirror[u] # Null => mirror'[u] = mirror[u]
<1> DEFINE u == tx[p].user
<1>1. /\ u \in User /\ tx[p].claim \in Claim /\ mirror[u] = Null
      /\ tx[p].pc = "inserting" /\ tx[p].answer = "none"
  BY DEF CommitMirror, WInv, Request, Working, Provisioning
<1>2. /\ mirror' = [mirror EXCEPT ![u] = tx[p].claim]
      /\ UNCHANGED <<projects, tasks, deleted>>
  BY DEF CommitMirror
<1>3. /\ tx' \in [Proc -> Tx]
      /\ \A q \in Proc \ {p} : tx'[q] = tx[q]
      /\ tx'[p].pc = "mirrored" /\ tx'[p].user = u /\ tx'[p].answer = "none"
  BY <1>1, MirroredEffect DEF CommitMirror, WInv
<1> HIDE DEF u
<1>4. /\ mirror' \in [User -> Claim \cup {Null}]
      /\ mirror'[u] # Null
      /\ \A v \in User \ {u} : mirror'[v] = mirror[v]
  BY <1>1, <1>2, MarkersAssumption DEF WInv, Tables
<1>5. Tables'
  BY <1>2, <1>4 DEF WInv, Tables, NoOrphans, DeletedIsFinal, ProjectRow
<1>6. ASSUME NEW q \in Proc \ {p} PROVE Request(q)'
  <2>1. tx'[q] = tx[q] /\ Request(q) /\ (tx[q].pc = "inserting" => tx[q].user # u)
    BY <1>1, <1>3 DEF WInv, OnePending, u
  <2> QED
    BY <1>1, <1>2, <1>4, <2>1 DEF Request, IsOwnedBy
<1>7. Request(p)'
  BY <1>1, <1>3, <1>4 DEF Request, Provisioning, Working
<1> QED
  BY <1>1, <1>3, <1>4, <1>5, <1>6, <1>7, PendingFrame DEF WInv

LEMMA DispatchHolds ==
  ASSUME WInv, NEW p \in Proc, Dispatch(p)
  PROVE  WInv' /\ tx'[p].pc = "serving" /\ tx'[p].answer = "none"
<1>1. PICK op \in Ops : \E x \in PathPids(op), t \in PathTids(op), txt \in Bodies(op) :
        tx' = [tx EXCEPT ![p] = [Idle EXCEPT !.pc = "serving", !.user = tx[p].user, !.op = op,
                                             !.pid = x, !.tid = t, !.text = txt]]
  BY DEF Dispatch
<1>2. PICK x \in PathPids(op), t \in PathTids(op), txt \in Bodies(op) :
        tx' = [tx EXCEPT ![p] = [Idle EXCEPT !.pc = "serving", !.user = tx[p].user, !.op = op,
                                             !.pid = x, !.tid = t, !.text = txt]]
  BY <1>1
<1>3. /\ x \in Pid \cup {Null} /\ t \in Tid \cup {Null} /\ txt \in Text \cup {Null}
      /\ op \in ProjectOps \cup NestedOps => x \in Pid
      /\ op \in TaskOps => t \in Tid
      /\ Bodies(op) = Text => txt \in Text
  BY DEF PathPids, PathTids, Bodies
<1>4. tx[p].user \in User /\ mirror[tx[p].user] # Null
  BY DEF Dispatch, WInv, Request, Working, Provisioning
<1> DEFINE u == tx[p].user
           r == [Idle EXCEPT !.pc = "serving", !.user = u, !.op = op,
                             !.pid = x, !.tid = t, !.text = txt]
<1>5. u \in User /\ mirror[u] # Null
  BY <1>4
<1>6. tx' = [tx EXCEPT ![p] = r] /\ UNCHANGED tables
  BY <1>2 DEF Dispatch
<1> HIDE DEF u
<1>7. /\ r \in Tx
      /\ r.answer = "none"
      /\ r.pc = "serving" /\ r.user = u /\ r.op = op /\ r.pid = x /\ r.tid = t /\ r.text = txt
  BY <1>3, <1>5 DEF Idle, Tx
<1> HIDE DEF r
<1>8. /\ tx' \in [Proc -> Tx] /\ tx'[p] = r
      /\ \A q \in Proc \ {p} : tx'[q] = tx[q]
  BY <1>6, <1>7 DEF WInv
<1>9. Evolves /\ Tables' /\ mirror' = mirror
  BY <1>6, Unchanged DEF tables
<1>10. Request(p)'
  BY <1>3, <1>5, <1>7, <1>8, <1>9 DEF Request, Provisioning, Working
<1> QED
  BY <1>7, <1>8, <1>9, <1>10, RequestFrame, PendingFrame DEF WInv

LEMMA CheckHolds ==
  ASSUME WInv, NEW p \in Proc, FindProject(p) \/ FindTask(p) \/ CheckTask(p)
  PROVE  WInv'
<1>1. Evolves /\ Tables' /\ UNCHANGED tables
  BY Unchanged DEF FindProject, FindTask, CheckTask
<1>2. CASE FindProject(p) \/ CheckTask(p)
  <2>1. tx' = [tx EXCEPT ![p].pc = "granted"]
    BY <1>2 DEF FindProject, CheckTask
  <2>2. /\ tx' \in [Proc -> Tx]
        /\ \A q \in Proc \ {p} : tx'[q] = tx[q]
        /\ tx'[p].answer = tx[p].answer
        /\ tx'[p].pc = "granted" /\ tx'[p].user = tx[p].user /\ tx'[p].op = tx[p].op
        /\ tx'[p].pid = tx[p].pid /\ tx'[p].tid = tx[p].tid /\ tx'[p].text = tx[p].text
    BY <2>1 DEF WInv, Tx
  <2>3. /\ tx[p].pc # "idle" /\ tx[p].op \in ProjectOps \cup NestedOps \cup TaskOps
        /\ tx[p].pc = "serving" => tx[p].op \notin TaskOps
        /\ tx[p].pc \in {"serving", "taskLoaded"}
        /\ IsOwnedBy(tx[p].user, tx[p].pid)
    BY <1>2 DEF FindProject, CheckTask, Serves, ProjectOps, NestedOps, TaskOps
  <2>4. tx[p].pid \in Pid
    BY <2>3 DEF WInv, Request, Working
  <2>5. Request(p)'
    BY <1>1, <2>2, <2>3, <2>4 DEF WInv, Request, Working, Provisioning, tables, IsOwnedBy
  <2> QED
    BY <1>1, <2>2, <2>5, RequestFrame, PendingFrame DEF WInv
<1>3. CASE FindTask(p)
  <2> DEFINE x == tasks[tx[p].tid].project
  <2>1. /\ tx[p].tid \in Tid /\ tasks[tx[p].tid] \in TaskRow /\ x \in Pid
        /\ tx[p].pc = "serving" /\ tx[p].op \in TaskOps
    BY <1>3 DEF FindTask, Serves, WInv, Tables, Request, Working, TaskRow
  <2>2. tx' = [tx EXCEPT ![p].pc = "taskLoaded", ![p].pid = x]
    BY <1>3 DEF FindTask
  <2> HIDE DEF x
  <2>3. /\ tx' \in [Proc -> Tx]
        /\ \A q \in Proc \ {p} : tx'[q] = tx[q]
        /\ tx'[p].answer = tx[p].answer
        /\ tx'[p].pc = "taskLoaded" /\ tx'[p].user = tx[p].user /\ tx'[p].op = tx[p].op
        /\ tx'[p].pid = x /\ tx'[p].tid = tx[p].tid /\ tx'[p].text = tx[p].text
    BY <2>1, <2>2 DEF WInv, Tx
  <2>4. Request(p)'
    BY <1>1, <1>3, <2>1, <2>3 DEF FindTask, WInv, Request, Working, Provisioning, tables, ProjectOps, NestedOps, TaskOps, x
  <2> QED
    BY <1>1, <2>3, <2>4, RequestFrame, PendingFrame DEF WInv
<1> QED
  BY <1>2, <1>3

-------------------------------------------------------------------------------
(* The writes: the tables keep their invariant and evolve. *)

LEMMA CreateProjectEffect ==
  ASSUME WInv, NEW p \in Proc, CreateProject(p)
  PROVE  Evolves /\ Tables'
<1>1. tx[p].user \in User /\ tx[p].text \in Text /\ mirror[tx[p].user] # Null
  BY DEF CreateProject, OwnerKeyHolds, Serves, WInv, Request, Working, Bodies
<1> DEFINE row == [owner |-> tx[p].user, text |-> tx[p].text]
<1>2. row \in ProjectRow /\ row # NoRow /\ row.owner = tx[p].user
  BY <1>1, RowFacts DEF ProjectRow
<1>3. PICK x \in FreshPids : projects' = [projects EXCEPT ![x] = row]
  BY DEF CreateProject
<1>4. x \in Pid /\ projects[x] = NoRow /\ x \notin deleted
  BY <1>3 DEF FreshPids
<1>5. UNCHANGED <<mirror, tasks, deleted>>
  BY DEF CreateProject
<1> HIDE DEF row
<1>6. Evolves
  BY <1>3, <1>4, <1>5 DEF Evolves, WInv, Tables
<1>7. Tables'
  BY <1>1, <1>2, <1>3, <1>4, <1>5 DEF WInv, Tables, NoOrphans, DeletedIsFinal, TaskRow
<1> QED
  BY <1>6, <1>7

LEMMA UpdateProjectEffect ==
  ASSUME WInv, NEW p \in Proc, UpdateProject(p)
  PROVE  /\ Evolves /\ Tables'
         /\ tx[p].pid \in Pid /\ projects[tx[p].pid] # NoRow
         /\ projects[tx[p].pid].owner = tx[p].user /\ projects'[tx[p].pid].owner = tx[p].user
<1> DEFINE x == tx[p].pid
           row == [projects[x] EXCEPT !.text = tx[p].text]
<1>1. tx[p].text \in Text /\ x \in Pid /\ projects[x] # NoRow /\ IsOwnedBy(tx[p].user, x)
  BY DEF UpdateProject, Serves, WInv, Request, Working, Bodies, Tables, DeletedIsFinal
<1>2. projects[x] \in ProjectRow
  BY <1>1 DEF WInv, Tables
<1>3. row \in ProjectRow /\ row # NoRow /\ row.owner = projects[x].owner
  BY <1>1, <1>2, RowFacts DEF ProjectRow
<1>4. projects' = [projects EXCEPT ![x] = row] /\ UNCHANGED <<mirror, tasks, deleted>>
  BY DEF UpdateProject
<1> HIDE DEF x, row
<1>5. Evolves
  BY <1>1, <1>3, <1>4 DEF Evolves, WInv, Tables
<1>6. Tables'
  BY <1>1, <1>2, <1>3, <1>4 DEF WInv, Tables, NoOrphans, DeletedIsFinal, TaskRow
<1>7. projects'[x] = row
  BY <1>1, <1>4 DEF WInv, Tables
<1> QED
  BY <1>1, <1>3, <1>5, <1>6, <1>7 DEF IsOwnedBy, x

LEMMA DeleteProjectEffect ==
  ASSUME WInv, NEW p \in Proc, DeleteProject(p)
  PROVE  /\ Evolves /\ Tables'
         /\ tx[p].pid \in Pid /\ projects[tx[p].pid] # NoRow
         /\ projects[tx[p].pid].owner = tx[p].user
<1> DEFINE x == tx[p].pid
<1>1. x \in Pid /\ projects[x] # NoRow /\ projects[x].owner = tx[p].user
  BY DEF DeleteProject, Serves, WInv, Request, Working, Tables, DeletedIsFinal, IsOwnedBy
<1>2. /\ projects' = [projects EXCEPT ![x] = NoRow]
      /\ tasks' = [t \in Tid |-> IF t \in TasksOf(x) THEN NoRow ELSE tasks[t]]
      /\ deleted' = deleted \cup {x} \cup TasksOf(x)
      /\ UNCHANGED mirror
  BY DEF DeleteProject
<1>3. TasksOf(x) = {t \in Tid : tasks[t] # NoRow /\ tasks[t].project = x}
  BY DEF TasksOf
<1> HIDE DEF x
<1>4. Evolves
  BY <1>1, <1>2, <1>3 DEF Evolves, WInv, Tables
<1>5. Tables'
  <2>1. /\ projects' \in [Pid -> ProjectRow \cup {NoRow}]
        /\ tasks' \in [Tid -> TaskRow \cup {NoRow}]
        /\ deleted' \subseteq Pid \cup Tid
    BY <1>1, <1>2, <1>3 DEF WInv, Tables
  <2>2. NoOrphans'
    BY <1>1, <1>2, <1>3 DEF WInv, Tables, NoOrphans, TaskRow
  <2>3. DeletedIsFinal'
    BY <1>1, <1>2, <1>3, MarkersAssumption DEF WInv, Tables, DeletedIsFinal
  <2> QED
    BY <1>2, <2>1, <2>2, <2>3 DEF WInv, Tables
<1> QED
  BY <1>1, <1>4, <1>5 DEF x

LEMMA CreateTaskEffect ==
  ASSUME WInv, NEW p \in Proc, CreateTask(p)
  PROVE  /\ Evolves /\ Tables'
         /\ projects[tx[p].pid].owner = tx[p].user
         /\ \A t \in Tid : tasks'[t] # tasks[t] =>
               tasks[t] = NoRow /\ tasks'[t].project = tx[p].pid
<1> DEFINE x == tx[p].pid
           row == [project |-> x, text |-> tx[p].text]
<1>1. /\ tx[p].text \in Text /\ x \in Pid /\ projects[x] # NoRow
      /\ projects[x].owner = tx[p].user
  BY DEF CreateTask, ProjectKeyHolds, Serves, WInv, Request, Working, Bodies, Tables, DeletedIsFinal, IsOwnedBy
<1>2. row \in TaskRow /\ row # NoRow /\ row.project = x
  BY <1>1, RowFacts DEF TaskRow
<1>3. PICK n \in FreshTids : tasks' = [tasks EXCEPT ![n] = row]
  BY DEF CreateTask
<1>4. n \in Tid /\ tasks[n] = NoRow /\ n \notin deleted
  BY <1>3 DEF FreshTids
<1>5. UNCHANGED <<mirror, projects, deleted>>
  BY DEF CreateTask
<1> HIDE DEF x, row
<1>6. Evolves
  BY <1>3, <1>4, <1>5 DEF Evolves, WInv, Tables
<1>7. Tables'
  BY <1>1, <1>2, <1>3, <1>4, <1>5 DEF WInv, Tables, NoOrphans, DeletedIsFinal
<1>8. \A t \in Tid : tasks'[t] # tasks[t] => tasks[t] = NoRow /\ tasks'[t].project = x
  BY <1>2, <1>3, <1>4 DEF WInv, Tables
<1> QED
  BY <1>1, <1>6, <1>7, <1>8 DEF x

\* A request about to write a task it found and was granted: if the task is
\* still there, so is its project, and it is the caller's.
LEMMA GrantedTask ==
  ASSUME WInv, NEW p \in Proc, Serves(p, "granted", {"updateTask", "deleteTask"}),
         tasks[tx[p].tid] # NoRow
  PROVE  /\ tx[p].tid \in Tid /\ tasks[tx[p].tid] \in TaskRow
         /\ tasks[tx[p].tid].project = tx[p].pid
         /\ tx[p].pid \in Pid /\ projects[tx[p].pid] # NoRow
         /\ projects[tx[p].pid].owner = tx[p].user
<1>1. tx[p].op \in TaskOps /\ tx[p].pc = "granted"
  BY DEF Serves, TaskOps
<1>2. tx[p].tid \in Tid /\ tx[p].tid \notin deleted /\ tx[p].pid \in Pid
  BY <1>1 DEF WInv, Request, Working, Tables, DeletedIsFinal
<1>3. tasks[tx[p].tid] \in TaskRow /\ tasks[tx[p].tid].project = tx[p].pid
  BY <1>1, <1>2 DEF WInv, Request, Working, Tables
<1>4. projects[tx[p].pid] # NoRow
  BY <1>2, <1>3 DEF WInv, Tables, NoOrphans
<1>5. projects[tx[p].pid].owner = tx[p].user
  BY <1>1, <1>2, <1>4 DEF WInv, Request, Working, Tables, DeletedIsFinal, IsOwnedBy
<1> QED
  BY <1>2, <1>3, <1>4, <1>5

LEMMA UpdateTaskEffect ==
  ASSUME WInv, NEW p \in Proc, UpdateTask(p)
  PROVE  /\ Evolves /\ Tables'
         /\ tasks'[tx[p].tid].project = tx[p].pid
<1> DEFINE n == tx[p].tid
           row == [tasks[n] EXCEPT !.text = tx[p].text]
<1>1. /\ n \in Tid /\ tasks[n] \in TaskRow /\ tasks[n] # NoRow /\ tasks[n].project = tx[p].pid
      /\ tx[p].pid \in Pid /\ projects[tx[p].pid] # NoRow
  BY GrantedTask DEF UpdateTask, Serves
<1>2. tx[p].text \in Text
  BY DEF UpdateTask, Serves, WInv, Request, Working, Bodies
<1>3. row \in TaskRow /\ row # NoRow /\ row.project = tasks[n].project
  BY <1>1, <1>2, RowFacts DEF TaskRow
<1>4. tasks' = [tasks EXCEPT ![n] = row] /\ UNCHANGED <<mirror, projects, deleted>>
  BY DEF UpdateTask
<1> HIDE DEF n, row
<1>5. Evolves
  BY <1>1, <1>3, <1>4 DEF Evolves, WInv, Tables
<1>6. Tables'
  BY <1>1, <1>3, <1>4 DEF WInv, Tables, NoOrphans, DeletedIsFinal
<1>7. tasks'[n].project = tx[p].pid
  BY <1>1, <1>3, <1>4 DEF WInv, Tables
<1> QED
  BY <1>5, <1>6, <1>7 DEF n

LEMMA DeleteTaskEffect ==
  ASSUME WInv, NEW p \in Proc, DeleteTask(p)
  PROVE  Evolves /\ Tables'
<1>1. tx[p].tid \in Tid
  BY GrantedTask DEF DeleteTask, Serves
<1>2. /\ tasks' = [tasks EXCEPT ![tx[p].tid] = NoRow]
      /\ deleted' = deleted \cup {tx[p].tid}
      /\ UNCHANGED <<mirror, projects>>
  BY DEF DeleteTask
<1>3. Evolves
  BY <1>1, <1>2 DEF Evolves, WInv, Tables
<1>4. Tables'
  BY <1>1, <1>2, MarkersAssumption DEF WInv, Tables, NoOrphans, DeletedIsFinal
<1> QED
  BY <1>3, <1>4

-------------------------------------------------------------------------------
(* Invariance. *)

LEMMA InitHolds == Init => WInv
<1> SUFFICES ASSUME Init PROVE WInv
  OBVIOUS
<1>1. Tables
  BY DEF Init, Tables, NoOrphans, DeletedIsFinal
<1>2. Idle \in Tx /\ Idle.pc = "idle"
  BY DEF Idle, Tx
<1>3. tx \in [Proc -> Tx] /\ \A p \in Proc : tx[p].pc = "idle"
  BY <1>2 DEF Init
<1> QED
  BY <1>1, <1>3 DEF WInv, Request, OnePending

LEMMA StepHolds == WInv /\ [Next]_vars => WInv'
<1> SUFFICES ASSUME WInv, [Next]_vars PROVE WInv'
  OBVIOUS
<1>1. CASE UNCHANGED vars
  <2>1. UNCHANGED tables /\ UNCHANGED tx
    BY <1>1 DEF vars, tables
  <2>2. Evolves /\ Tables'
    BY <2>1, Unchanged
  <2> QED
    BY <2>1, <2>2, RequestFrame DEF WInv, OnePending
<1>2. ASSUME NEW p \in Proc, NEW u \in User, NEW claim \in Claim, Arrive(p, u, claim)
      PROVE  WInv'
  BY <1>2, ArriveHolds
<1>3. ASSUME NEW p \in Proc,
             \/ SkipMirror(p) \/ InsertMirror(p) \/ CommitMirror(p) \/ Dispatch(p)
             \/ FindProject(p) \/ FindTask(p) \/ CheckTask(p)
      PROVE  WInv'
  BY <1>3, SkipMirrorHolds, InsertMirrorHolds, CommitMirrorHolds, DispatchHolds, CheckHolds
<1>4. ASSUME NEW p \in Proc,
             ProjectNotFound(p) \/ TaskNotFound(p) \/ Read(p) \/ RowGone(p) \/ Fail(p)
      PROVE  WInv'
  BY <1>4, Unchanged, EndHolds DEF ProjectNotFound, TaskNotFound, Read, RowGone, Fail
<1>5. ASSUME NEW p \in Proc, CreateProject(p) PROVE WInv'
  BY <1>5, CreateProjectEffect, EndHolds DEF CreateProject
<1>6. ASSUME NEW p \in Proc, UpdateProject(p) PROVE WInv'
  BY <1>6, UpdateProjectEffect, EndHolds DEF UpdateProject
<1>7. ASSUME NEW p \in Proc, DeleteProject(p) PROVE WInv'
  BY <1>7, DeleteProjectEffect, EndHolds DEF DeleteProject
<1>8. ASSUME NEW p \in Proc, CreateTask(p) PROVE WInv'
  BY <1>8, CreateTaskEffect, EndHolds DEF CreateTask
<1>9. ASSUME NEW p \in Proc, UpdateTask(p) PROVE WInv'
  BY <1>9, UpdateTaskEffect, EndHolds DEF UpdateTask
<1>10. ASSUME NEW p \in Proc, DeleteTask(p) PROVE WInv'
  BY <1>10, DeleteTaskEffect, EndHolds DEF DeleteTask
<1> QED
  BY <1>1, <1>2, <1>3, <1>4, <1>5, <1>6, <1>7, <1>8, <1>9, <1>10 DEF Next

\* The inductive invariant of the workspace holds always.
THEOREM WorkspaceInvariant == Spec => []WInv
  BY InitHolds, StepHolds, PTL DEF Spec

\* Every variable has its type (Workspace!TypeOK).
THEOREM WorkspaceTyped == Spec => []TypeOK
<1>1. WInv => TypeOK
  BY DEF WInv, Tables, TypeOK
<1> QED
  BY <1>1, WorkspaceInvariant, PTL

\* No creation that races a deletion leaves an orphan (the foreign keys of
\* V3__projects.sql and V4__tasks.sql behind ProjectService and TaskService).
THEOREM Integrity == Spec => []NoOrphans
<1>1. WInv => NoOrphans
  BY DEF WInv, Tables
<1> QED
  BY <1>1, WorkspaceInvariant, PTL

\* The owner's foreign key never fails (MirrorSyncInterceptor.preHandle).
THEOREM CallersMirrored == Spec => []CallerIsMirrored
<1>1. WInv => CallerIsMirrored
  BY DEF WInv, Request, Working, CallerIsMirrored, Provisioning
<1> QED
  BY <1>1, WorkspaceInvariant, PTL

\* No write of a managed entity brings a deleted row back.
THEOREM DeletionFinal == Spec => []DeletedIsFinal
<1>1. WInv => DeletedIsFinal
  BY DEF WInv, Tables
<1> QED
  BY <1>1, WorkspaceInvariant, PTL

-------------------------------------------------------------------------------
(* The action properties. *)

LEMMA Ends ==
  ASSUME WInv, NEW p \in Proc, NEW a \in {"none", "ok", "notFound", "error"}, Answer(p, a),
         tx[p].pc # "idle"
  PROVE  EndsRequestOf(tx[p].user)
  BY AnswerEffect DEF WInv, EndsRequestOf

OwnersOnly ==
  /\ \A x \in Pid : projects'[x] # projects[x] => OwnersProject(x)
  /\ \A t \in Tid : tasks'[t] # tasks[t] => OwnersTask(t)

LEMMA OwnersOnlyStep == WInv /\ [Next]_vars => OwnersOnly
<1> SUFFICES ASSUME WInv, [Next]_vars PROVE OwnersOnly
  OBVIOUS
<1>1. ASSUME UNCHANGED <<projects, tasks>> PROVE OwnersOnly
  BY <1>1 DEF OwnersOnly
<1>2. CASE UNCHANGED vars
  BY <1>1, <1>2 DEF vars
<1>3. ASSUME NEW p \in Proc, NEW u \in User, NEW claim \in Claim, Arrive(p, u, claim)
      PROVE  OwnersOnly
  BY <1>1, <1>3 DEF Arrive, tables
<1>4. ASSUME NEW p \in Proc,
             \/ SkipMirror(p) \/ InsertMirror(p) \/ CommitMirror(p) \/ Dispatch(p)
             \/ FindProject(p) \/ FindTask(p) \/ CheckTask(p)
             \/ ProjectNotFound(p) \/ TaskNotFound(p) \/ Read(p) \/ RowGone(p) \/ Fail(p)
      PROVE  OwnersOnly
  BY <1>1, <1>4 DEF SkipMirror, InsertMirror, CommitMirror, Dispatch, FindProject, FindTask,
     CheckTask, ProjectNotFound, TaskNotFound, Read, RowGone, Fail, tables
<1>5. ASSUME NEW p \in Proc, CreateProject(p) PROVE OwnersOnly
  <2> DEFINE row == [owner |-> tx[p].user, text |-> tx[p].text]
  <2>1. PICK x \in FreshPids : projects' = [projects EXCEPT ![x] = row]
    BY <1>5 DEF CreateProject
  <2>2. x \in Pid /\ projects[x] = NoRow /\ tasks' = tasks /\ row.owner = tx[p].user
    BY <1>5, <2>1 DEF FreshPids, CreateProject
  <2>3. EndsRequestOf(tx[p].user)
    BY <1>5, Ends DEF CreateProject, Serves
  <2> HIDE DEF row
  <2>4. \A y \in Pid : projects'[y] # projects[y] => projects[y] = NoRow /\ projects'[y].owner = tx[p].user
    BY <2>1, <2>2 DEF WInv, Tables
  <2> QED
    BY <2>2, <2>3, <2>4 DEF OwnersOnly, OwnersProject
<1>6. ASSUME NEW p \in Proc, UpdateProject(p) PROVE OwnersOnly
  <2>1. /\ projects[tx[p].pid].owner = tx[p].user /\ projects'[tx[p].pid].owner = tx[p].user
        /\ tx[p].pid \in Pid
    BY <1>6, UpdateProjectEffect
  <2>2. EndsRequestOf(tx[p].user)
    BY <1>6, Ends DEF UpdateProject, Serves
  <2>3. \A y \in Pid : projects'[y] # projects[y] => y = tx[p].pid
    BY <1>6 DEF UpdateProject, WInv, Tables
  <2>4. tasks' = tasks
    BY <1>6 DEF UpdateProject
  <2> QED
    BY <2>1, <2>2, <2>3, <2>4 DEF OwnersOnly, OwnersProject
<1>7. ASSUME NEW p \in Proc, DeleteProject(p) PROVE OwnersOnly
  <2>1. tx[p].pid \in Pid /\ projects[tx[p].pid].owner = tx[p].user
    BY <1>7, DeleteProjectEffect
  <2>2. EndsRequestOf(tx[p].user)
    BY <1>7, Ends DEF DeleteProject, Serves
  <2>3. \A y \in Pid : projects'[y] # projects[y] => y = tx[p].pid /\ projects'[y] = NoRow
    BY <1>7 DEF DeleteProject, WInv, Tables
  <2>4. \A t \in Tid : tasks'[t] # tasks[t] => tasks[t].project = tx[p].pid /\ tasks'[t] = NoRow
    BY <1>7 DEF DeleteProject, TasksOf
  <2> QED
    BY <2>1, <2>2, <2>3, <2>4 DEF OwnersOnly, OwnersProject, OwnersTask
<1>8. ASSUME NEW p \in Proc, CreateTask(p) PROVE OwnersOnly
  <2>1. /\ projects[tx[p].pid].owner = tx[p].user
        /\ \A t \in Tid : tasks'[t] # tasks[t] =>
              tasks[t] = NoRow /\ tasks'[t].project = tx[p].pid
    BY <1>8, CreateTaskEffect
  <2>2. EndsRequestOf(tx[p].user)
    BY <1>8, Ends DEF CreateTask, Serves
  <2>3. projects' = projects
    BY <1>8 DEF CreateTask
  <2> QED
    BY <2>1, <2>2, <2>3 DEF OwnersOnly, OwnersTask
<1>9. ASSUME NEW p \in Proc, UpdateTask(p) \/ DeleteTask(p) PROVE OwnersOnly
  <2>1. Serves(p, "granted", {"updateTask", "deleteTask"}) /\ tasks[tx[p].tid] # NoRow
    BY <1>9 DEF UpdateTask, DeleteTask, Serves
  <2>2. /\ tx[p].tid \in Tid /\ tasks[tx[p].tid].project = tx[p].pid
        /\ projects[tx[p].pid].owner = tx[p].user
    BY <2>1, GrantedTask
  <2>3. EndsRequestOf(tx[p].user)
    BY <1>9, Ends DEF UpdateTask, DeleteTask, Serves
  <2>4. \A t \in Tid : tasks'[t] # tasks[t] => t = tx[p].tid
    BY <1>9 DEF UpdateTask, DeleteTask, WInv, Tables
  <2>5. tasks'[tx[p].tid] # NoRow => tasks'[tx[p].tid].project = tx[p].pid
    BY <1>9, <2>2, UpdateTaskEffect DEF DeleteTask, WInv, Tables
  <2>6. projects' = projects
    BY <1>9 DEF UpdateTask, DeleteTask
  <2> QED
    BY <2>2, <2>3, <2>4, <2>5, <2>6 DEF OwnersOnly, OwnersTask
<1> QED
  BY <1>2, <1>3, <1>4, <1>5, <1>6, <1>7, <1>8, <1>9 DEF Next

\* Only requests of its owner write a project or a task, however long ago
\* ProjectService and TaskService checked that it is theirs.
THEOREM OwnersWrite == Spec => OnlyOwnersWrite
<1>1. OwnersOnly <=> /\ \A x \in Pid : projects'[x] # projects[x] => OwnersProject(x)
                     /\ \A t \in Tid : tasks'[t] # tasks[t] => OwnersTask(t)
  BY DEF OwnersOnly
<1> QED
  BY <1>1, OwnersOnlyStep, WorkspaceInvariant, PTL DEF Spec, OnlyOwnersWrite

LEMMA MirrorStep ==
  WInv /\ [Next]_vars => \A u \in User : mirror[u] # Null => mirror'[u] = mirror[u]
<1> SUFFICES ASSUME WInv, [Next]_vars
             PROVE  \A u \in User : mirror[u] # Null => mirror'[u] = mirror[u]
  OBVIOUS
<1>1. ASSUME NEW p \in Proc, CommitMirror(p)
      PROVE  \A v \in User : mirror[v] # Null => mirror'[v] = mirror[v]
  BY <1>1, CommitMirrorHolds
<1> QED
  BY <1>1 DEF Next, vars, tables, Arrive, SkipMirror, InsertMirror, Dispatch, FindProject, FindTask, CheckTask, ProjectNotFound, TaskNotFound,
     Read, RowGone, Fail, CreateProject, UpdateProject, DeleteProject, CreateTask, UpdateTask,
     DeleteTask

\* The mirror is create-only (AppUserRepository.provisionIfAbsent): it is the
\* primary key's wait, OnePending, that keeps a second first request from
\* writing over the row of the one before it.
THEOREM MirrorIsCreateOnly == Spec => FirstSightStays
  BY MirrorStep, WorkspaceInvariant, PTL DEF Spec, FirstSightStays

LEMMA NotFoundStep ==
  WInv /\ [Next]_vars =>
    \A p \in Proc : tx[p].pc # "idle" /\ tx'[p].answer = "notFound" => ~Visible(p)
<1> SUFFICES ASSUME WInv, [Next]_vars, NEW p \in Proc, tx[p].pc # "idle", tx'[p].answer = "notFound"
             PROVE  ~Visible(p)
  OBVIOUS
<1>1. tx[p].answer = "none" /\ tx[p] \in Tx /\ tx'[p] # tx[p]
  BY DEF WInv, Request, Working
<1>2. ASSUME NEW q \in Proc, NEW a \in {"none", "ok", "error"}, Answer(q, a)
      PROVE  FALSE
  <2>1. tx'[q].answer = a /\ (p # q => tx'[p] = tx[p])
    BY <1>2, AnswerEffect DEF WInv
  <2> QED
    BY <1>1, <2>1
<1>3. ASSUME NEW q \in Proc, Answer(q, "notFound")
      PROVE  q = p
  BY <1>1, <1>3, AnswerEffect DEF WInv
<1>4. ASSUME NEW q \in Proc, FindProject(q) \/ FindTask(q) \/ CheckTask(q)
      PROVE  FALSE
  <2>1. CASE q # p
    BY <1>1, <1>4, <2>1 DEF FindProject, FindTask, CheckTask, WInv
  <2>2. CASE q = p
    BY <1>1, <1>4, <2>2 DEF FindProject, FindTask, CheckTask, WInv, Tx
  <2> QED
    BY <2>1, <2>2
<1>5. ASSUME NEW q \in Proc, NEW u \in User, NEW claim \in Claim, Arrive(q, u, claim)
      PROVE  FALSE
  <2>1. q # p
    BY <1>5 DEF Arrive
  <2> QED
    BY <1>1, <1>5, <2>1 DEF Arrive, WInv
<1>10. ASSUME NEW q \in Proc, SkipMirror(q) \/ InsertMirror(q) \/ CommitMirror(q)
      PROVE  FALSE
  <2>1. tx'[q].answer = tx[q].answer /\ (q # p => tx'[p] = tx[p])
    BY <1>10, MirroredEffect DEF SkipMirror, InsertMirror, CommitMirror, WInv, Tx
  <2> QED
    BY <1>1, <2>1
<1>11. ASSUME NEW q \in Proc, Dispatch(q)
      PROVE  FALSE
  <2>1. tx'[q].answer = "none" /\ (q # p => tx'[p] = tx[p])
    BY <1>11, DispatchHolds DEF Dispatch, WInv
  <2> QED
    BY <1>1, <2>1
<1>6. ASSUME NEW q \in Proc, ProjectNotFound(q)
      PROVE  ~Visible(p)
  <2>1. q = p
    BY <1>3, <1>6 DEF ProjectNotFound
  <2> QED
    BY <1>6, <2>1 DEF ProjectNotFound, Serves, Visible, ProjectOps, NestedOps, TaskOps
<1>7. ASSUME NEW q \in Proc, TaskNotFound(q)
      PROVE  ~Visible(p)
  <2>1. q = p
    BY <1>3, <1>7 DEF TaskNotFound
  <2>2. CASE tasks[tx[p].tid] = NoRow
    BY <1>7, <2>1, <2>2 DEF TaskNotFound, Serves, Visible
  <2>3. CASE tasks[tx[p].tid] # NoRow
    <3>1. Serves(p, "taskLoaded", TaskOps) /\ ~IsOwnedBy(tx[p].user, tx[p].pid)
      BY <1>7, <2>1, <2>3 DEF TaskNotFound
    <3>2. tasks[tx[p].tid].project = tx[p].pid
      BY <2>3, <3>1 DEF WInv, Request, Working, Serves, Tables, DeletedIsFinal
    <3> QED
      BY <3>1, <3>2 DEF Visible, Serves
  <2> QED
    BY <2>2, <2>3
<1>8. ASSUME NEW q \in Proc,
             \/ CreateProject(q) \/ UpdateProject(q) \/ DeleteProject(q)
             \/ CreateTask(q) \/ UpdateTask(q) \/ DeleteTask(q)
             \/ Read(q) \/ RowGone(q) \/ Fail(q)
      PROVE  FALSE
  BY <1>2, <1>8 DEF CreateProject, UpdateProject, DeleteProject, CreateTask, UpdateTask, DeleteTask,
     Read, RowGone, Fail
<1>9. ~UNCHANGED vars
  BY <1>1 DEF vars
<1> QED
  BY <1>4, <1>5, <1>10, <1>11, <1>6, <1>7, <1>8, <1>9 DEF Next

\* A 404 hides nothing the caller owns: the two queries of TaskService.get
\* decide as if they were one.
THEOREM NotFoundHonest == Spec => NotFoundIsTrue
  BY NotFoundStep, WorkspaceInvariant, PTL DEF Spec, NotFoundIsTrue

-------------------------------------------------------------------------------
(* What a 500 means. *)

\* A request is answered 500 only because a row it had found was deleted by
\* another one meanwhile: never for an id that names nothing or is not the
\* caller's, as ProjectService and TaskService promise.
THEOREM ErrorsAreDeletions ==
  Spec => [][\A p \in Proc : RowGone(p) => tx[p].pid \in deleted \/ tx[p].tid \in deleted]_vars
<1>1. ASSUME WInv, NEW p \in Proc, RowGone(p)
      PROVE  tx[p].pid \in deleted \/ tx[p].tid \in deleted
  <2>1. CASE Serves(p, "granted", {"updateTask", "deleteTask"}) /\ tasks[tx[p].tid] = NoRow
    <3>1. tx[p].pc = "granted" /\ tx[p].op \in TaskOps
      BY <2>1 DEF Serves, TaskOps
    <3>2. Request(p)
      BY <1>1 DEF WInv
    <3> QED
      BY <2>1, <3>1, <3>2 DEF Request
  <2>2. CASE /\ Serves(p, "granted", {"createTask", "updateProject", "deleteProject"})
             /\ projects[tx[p].pid] = NoRow
    <3>1. tx[p].pc = "granted" /\ Request(p)
      BY <1>1, <2>2 DEF Serves, WInv
    <3> QED
      BY <2>2, <3>1 DEF Request, IsOwnedBy
  <2> QED
    BY <1>1, <2>1, <2>2 DEF RowGone
<1>2. WInv => [\A p \in Proc : RowGone(p) => tx[p].pid \in deleted \/ tx[p].tid \in deleted]_vars
  BY <1>1
<1> QED
  BY <1>2, WorkspaceInvariant, PTL

\* With one request at a time, what a request has found is still there.
StillThere ==
  \A p \in Proc :
    /\ tx[p].answer # "error"
    /\ tx[p].pc = "granted" => projects[tx[p].pid] # NoRow
    /\ tx[p].pc \in {"taskLoaded", "granted"} /\ tx[p].op \in TaskOps => tasks[tx[p].tid] # NoRow

LEMMA StillThereInit == Init => StillThere
<1> SUFFICES ASSUME Init, NEW p \in Proc
             PROVE  /\ tx[p].answer # "error"
                    /\ tx[p].pc \notin {"taskLoaded", "granted"}
  BY DEF StillThere
<1>1. tx[p] = Idle
  BY DEF Init
<1> QED
  BY <1>1 DEF Idle

LEMMA StillThereStep ==
  ASSUME \A p, q \in Proc : p = q, WInv, StillThere, [Next]_vars
  PROVE  StillThere'
<1>1. CASE UNCHANGED vars
  BY <1>1 DEF vars, StillThere
<1>2. ASSUME NEW p \in Proc, NEW u \in User, NEW claim \in Claim, Arrive(p, u, claim)
      PROVE  StillThere'
  <2>1. tx'[p].pc = "arrived" /\ tx'[p].answer = "none"
    BY <1>2 DEF Arrive, WInv, Idle
  <2> QED
    BY <2>1 DEF StillThere
<1>7. ASSUME NEW p \in Proc, SkipMirror(p) \/ InsertMirror(p) \/ CommitMirror(p) \/ Dispatch(p)
      PROVE  StillThere'
  <2>1. CASE Dispatch(p)
    BY <2>1, DispatchHolds DEF StillThere
  <2>2. CASE SkipMirror(p) \/ InsertMirror(p) \/ CommitMirror(p)
    <3>1. tx'[p].pc \in {"inserting", "mirrored"} /\ tx'[p].answer = tx[p].answer
      BY <2>2, MirroredEffect DEF SkipMirror, InsertMirror, CommitMirror, WInv, Tx
    <3> QED
      BY <3>1 DEF StillThere
  <2> QED
    BY <1>7, <2>1, <2>2
<1>3. ASSUME NEW p \in Proc, NEW a \in {"none", "ok", "notFound"}, Answer(p, a)
      PROVE  StillThere'
  <2>1. tx'[p].pc = "idle" /\ tx'[p].answer = a
    BY <1>3, AnswerEffect DEF WInv
  <2> QED
    BY <2>1 DEF StillThere
<1>4. ASSUME NEW p \in Proc, FindProject(p) \/ CheckTask(p)
      PROVE  StillThere'
  <2>1. /\ tx' = [tx EXCEPT ![p].pc = "granted"] /\ projects' = projects /\ tasks' = tasks
        /\ projects[tx[p].pid] # NoRow
        /\ tx[p].op \in TaskOps => tx[p].pc = "taskLoaded"
    BY <1>4 DEF FindProject, CheckTask, IsOwnedBy, Serves, tables, ProjectOps, NestedOps, TaskOps
  <2>2. /\ tx'[p].pc = "granted" /\ tx'[p].pid = tx[p].pid /\ tx'[p].tid = tx[p].tid
        /\ tx'[p].op = tx[p].op /\ tx'[p].answer = tx[p].answer
    BY <2>1 DEF WInv, Tx
  <2> QED
    BY <2>1, <2>2 DEF StillThere
<1>5. ASSUME NEW p \in Proc, FindTask(p)
      PROVE  StillThere'
  <2>1. /\ tx'[p].pc = "taskLoaded" /\ tx'[p].tid = tx[p].tid /\ tx'[p].answer = tx[p].answer
        /\ tasks' = tasks /\ tasks[tx[p].tid] # NoRow
    BY <1>5 DEF FindTask, WInv, Tx, tables
  <2> QED
    BY <2>1 DEF StillThere
<1>6. \A p \in Proc : ~RowGone(p)
  BY DEF RowGone, Serves, StillThere, TaskOps
<1> QED
  BY <1>1, <1>2, <1>7, <1>3, <1>4, <1>5, <1>6
  DEF Next, ProjectNotFound, TaskNotFound, CreateProject, UpdateProject, DeleteProject,
      CreateTask, UpdateTask, DeleteTask, Read, Fail

\* Requests that do not overlap get the answers of Workspace!GoneIsNotFound.
THEOREM OnlyOverlapsFail == ASSUME \A p, q \in Proc : p = q PROVE Spec => []GoneIsNotFound
<1>1. WInv /\ StillThere /\ [Next]_vars => StillThere'
  BY StillThereStep
<1>2. StillThere => GoneIsNotFound
  BY DEF StillThere, GoneIsNotFound
<1> QED
  BY <1>1, <1>2, StillThereInit, WorkspaceInvariant, PTL DEF Spec
===============================================================================
