--------------------------- MODULE WorkspaceRefines ---------------------------
(***************************************************************************)
(* The tables of projects and tasks implement OwnedStore: proof that       *)
(* Workspace's initial states map to initial states, and every step to a   *)
(* step or a stutter.                                                      *)
(***************************************************************************)
EXTENDS WorkspaceProofs

Spent == deleted \cup StoredProjects \cup StoredTasks

\* The shelf of one project, row by row.
LEMMA ShelfRows ==
  /\ Shelf = [x \in Pid |-> Shelved(x)]
  /\ Shelf' = [x \in Pid |-> Shelved(x)']
BY DEF Shelf

\* A project whose row and tasks stay keeps its place on the shelf.
LEMMA SameShelved ==
  ASSUME NEW x \in Pid, projects'[x] = projects[x],
         \A t \in Tid : \/ tasks'[t] = tasks[t]
                        \/ t \notin TasksOf(x) /\ t \notin TasksOf(x)'
  PROVE  Shelved(x)' = Shelved(x)
<1>1. \A t \in Tid : t \in TasksOf(x)' <=> t \in TasksOf(x)
  BY DEF TasksOf
<1>2. \A t \in Tid : t \in TasksOf(x) => tasks'[t] = tasks[t]
  OBVIOUS
<1>3. ItemsOf(x)' = ItemsOf(x)
  BY <1>1, <1>2 DEF ItemsOf
<1> QED
  BY <1>3 DEF Shelved

\* The shelf changes in one place.
LEMMA OneShelved ==
  ASSUME NEW x \in Pid, NEW r, Shelved(x)' = r,
         \A y \in Pid \ {x} : Shelved(y)' = Shelved(y)
  PROVE  Shelf' = [Shelf EXCEPT ![x] = r]
BY ShelfRows

\* One task of a project changes, or comes or goes.
LEMMA OneItem ==
  ASSUME NEW x \in Pid, NEW t \in Tid, NEW v,
         projects[x] # NoRow, projects' = projects,
         \A s \in Tid \ {t} : tasks'[s] = tasks[s],
         tasks[t] = NoRow \/ tasks[t].project = x,
         tasks'[t] = NoRow => v = Null,
         tasks'[t] # NoRow => tasks'[t].project = x /\ tasks'[t].text = v
  PROVE  Shelf' = [Shelf EXCEPT ![x].items[t] = v]
<1>1. ASSUME NEW y \in Pid \ {x} PROVE Shelved(y)' = Shelved(y)
  <2>1. t \notin TasksOf(y) /\ t \notin TasksOf(y)'
    BY DEF TasksOf
  <2> QED
    BY <2>1, SameShelved
<1>2. /\ Shelved(x) = [owner |-> projects[x].owner, text |-> projects[x].text, items |-> ItemsOf(x)]
      /\ Shelved(x)' = [owner |-> projects[x].owner, text |-> projects[x].text, items |-> ItemsOf(x)']
  BY DEF Shelved
<1>3. ItemsOf(x)' = [ItemsOf(x) EXCEPT ![t] = v]
  <2>1. \A s \in Tid \ {t} : s \in TasksOf(x)' <=> s \in TasksOf(x)
    BY DEF TasksOf
  <2>2. \A s \in Tid \ {t} : ItemsOf(x)'[s] = ItemsOf(x)[s]
    BY <2>1 DEF ItemsOf
  <2>3. ItemsOf(x)'[t] = v
    BY DEF ItemsOf, TasksOf
  <2>4. ItemsOf(x) = [s \in Tid |-> ItemsOf(x)[s]] /\ ItemsOf(x)' = [s \in Tid |-> ItemsOf(x)'[s]]
    BY DEF ItemsOf
  <2> QED
    BY <2>2, <2>3, <2>4
<1>4. Shelved(x)' = [Shelved(x) EXCEPT !.items = [ItemsOf(x) EXCEPT ![t] = v]]
  BY <1>2, <1>3
<1>5. Shelf[x] = Shelved(x) /\ Shelf[x].items = ItemsOf(x)
  BY <1>2, ShelfRows
<1>6. Shelf' = [Shelf EXCEPT ![x] = [Shelved(x) EXCEPT !.items = [ItemsOf(x) EXCEPT ![t] = v]]]
  BY <1>1, <1>4, OneShelved
<1> QED
  BY <1>5, <1>6

-------------------------------------------------------------------------------
LEMMA InitRefines == Init => OS!Init
<1> SUFFICES ASSUME Init PROVE OS!Init
  OBVIOUS
<1>1. StoredProjects = {} /\ StoredTasks = {} /\ deleted = {}
  BY DEF Init, StoredProjects, StoredTasks
<1>2. \A x \in Pid : Shelved(x) = OS!Absent
  BY DEF Init, Shelved, OS!Absent, OS!NoItems
<1> QED
  BY <1>1, <1>2 DEF OS!Init, Shelf

LEMMA CreateProjectRefines ==
  ASSUME WInv, NEW p \in Proc, CreateProject(p)
  PROVE  OS!Next
<1> DEFINE u == tx[p].user
           row == [owner |-> u, text |-> tx[p].text]
<1>1. PICK x \in FreshPids : projects' = [projects EXCEPT ![x] = row]
  BY DEF CreateProject
<1>2. /\ u \in User /\ tx[p].text \in Text /\ tasks' = tasks /\ deleted' = deleted
      /\ x \in Pid /\ projects[x] = NoRow /\ x \notin deleted
  BY <1>1 DEF CreateProject, Serves, WInv, Request, Working, Bodies, FreshPids
<1>3. row # NoRow
  BY <1>2, RowFacts DEF ProjectRow
<1>4. projects'[x] = row /\ \A y \in Pid \ {x} : projects'[y] = projects[y]
  BY <1>1, <1>2 DEF WInv, Tables
<1>5. TasksOf(x)' = {}
  BY <1>2 DEF TasksOf, WInv, Tables, NoOrphans
<1>6. Shelved(x)' = [owner |-> u, text |-> tx[p].text, items |-> OS!NoItems]
  BY <1>3, <1>4, <1>5 DEF Shelved, ItemsOf, OS!NoItems
<1>7. \A y \in Pid \ {x} : Shelved(y)' = Shelved(y)
  BY <1>2, <1>4, SameShelved
<1> HIDE DEF row
<1>8. Spent' = Spent \cup {x}
  BY <1>2, <1>3, <1>4 DEF Spent, StoredProjects, StoredTasks
<1>9. x \notin Spent
  BY <1>2, MarkersAssumption DEF Spent, StoredProjects, StoredTasks
<1>10. OS!Create(u, x, tx[p].text)
  BY <1>2, <1>6, <1>7, <1>8, <1>9, OneShelved DEF OS!Create, Spent
<1> QED
  BY <1>2, <1>10 DEF OS!Next

LEMMA UpdateProjectRefines ==
  ASSUME WInv, NEW p \in Proc, UpdateProject(p)
  PROVE  OS!Next
<1>0. /\ tx[p].pid \in Pid /\ projects[tx[p].pid] # NoRow
      /\ projects[tx[p].pid].owner = tx[p].user
      /\ tx[p].user \in User /\ tx[p].text \in Text
  BY UpdateProjectEffect DEF UpdateProject, Serves, WInv, Request, Working, Bodies
<1> PICK x \in Pid : x = tx[p].pid
  BY <1>0
<1> DEFINE row == [projects[x] EXCEPT !.text = tx[p].text]
<1>1. /\ projects[x] # NoRow /\ projects[x].owner = tx[p].user
      /\ tx[p].user \in User /\ tx[p].text \in Text
  BY <1>0
<1>2. projects' = [projects EXCEPT ![x] = row] /\ tasks' = tasks /\ deleted' = deleted
  BY DEF UpdateProject
<1>3. row \in ProjectRow /\ row.owner = projects[x].owner /\ row.text = tx[p].text
  BY <1>1 DEF WInv, Tables, ProjectRow
<1> HIDE DEF row
<1>4. projects'[x] = row /\ row # NoRow /\ \A y \in Pid \ {x} : projects'[y] = projects[y]
  BY <1>1, <1>2, <1>3, RowFacts DEF WInv, Tables
<1>5. ItemsOf(x)' = ItemsOf(x)
  BY <1>2 DEF ItemsOf, TasksOf
<1>6. Shelved(x) = [owner |-> projects[x].owner, text |-> projects[x].text, items |-> ItemsOf(x)]
  BY <1>1 DEF Shelved
<1>7. Shelved(x)' = [owner |-> row.owner, text |-> row.text, items |-> ItemsOf(x)]
  BY <1>4, <1>5 DEF Shelved
<1>8. Shelved(x)' = [Shelved(x) EXCEPT !.text = tx[p].text]
  BY <1>3, <1>6, <1>7
<1>9. \A y \in Pid \ {x} : Shelved(y)' = Shelved(y)
  BY <1>2, <1>4, SameShelved
<1>10. Shelf' = [Shelf EXCEPT ![x].text = tx[p].text]
  BY <1>1, <1>8, <1>9, OneShelved, ShelfRows
<1>11. Spent' = Spent
  BY <1>1, <1>2, <1>4 DEF Spent, StoredProjects, StoredTasks
<1>12. Shelf[x].owner = tx[p].user
  BY <1>1, <1>6, ShelfRows
<1>13. OS!Edit(tx[p].user, x, tx[p].text)
  BY <1>10, <1>11, <1>12 DEF OS!Edit, Spent
<1> QED
  BY <1>1, <1>13 DEF OS!Next

LEMMA DeleteProjectRefines ==
  ASSUME WInv, NEW p \in Proc, DeleteProject(p)
  PROVE  OS!Next
<1>0. /\ tx[p].pid \in Pid /\ projects[tx[p].pid] # NoRow
      /\ projects[tx[p].pid].owner = tx[p].user
      /\ tx[p].user \in User
  BY DeleteProjectEffect DEF DeleteProject, Serves, WInv, Request, Working
<1> PICK x \in Pid : x = tx[p].pid
  BY <1>0
<1>1. projects[x] # NoRow /\ projects[x].owner = tx[p].user /\ tx[p].user \in User
  BY <1>0
<1>2. /\ projects' = [projects EXCEPT ![x] = NoRow]
      /\ tasks' = [t \in Tid |-> IF t \in TasksOf(x) THEN NoRow ELSE tasks[t]]
      /\ deleted' = deleted \cup {x} \cup TasksOf(x)
  BY DEF DeleteProject
<1>3. projects'[x] = NoRow /\ \A y \in Pid \ {x} : projects'[y] = projects[y]
  BY <1>1, <1>2 DEF WInv, Tables
<1>4. Shelved(x)' = OS!Absent
  BY <1>3 DEF Shelved, OS!Absent, OS!NoItems
<1>5. ASSUME NEW y \in Pid \ {x} PROVE Shelved(y)' = Shelved(y)
  <2>1. \A t \in Tid : \/ tasks'[t] = tasks[t]
                       \/ t \notin TasksOf(y) /\ t \notin TasksOf(y)'
    BY <1>2 DEF TasksOf
  <2> QED
    BY <1>3, <2>1, SameShelved
<1>6. Spent' = Spent
  <2>1. StoredProjects' = StoredProjects \ {x} /\ x \in StoredProjects
    BY <1>1, <1>3 DEF StoredProjects
  <2>2. StoredTasks' = StoredTasks \ TasksOf(x) /\ TasksOf(x) \subseteq StoredTasks
    BY <1>2 DEF StoredTasks, TasksOf
  <2> QED
    BY <1>2, <2>1, <2>2 DEF Spent
<1>7. Shelf[x].owner = tx[p].user
  BY <1>1, ShelfRows DEF Shelved
<1>8. OS!Delete(tx[p].user, x)
  BY <1>1, <1>4, <1>5, <1>6, <1>7, OneShelved DEF OS!Delete, Spent
<1> QED
  BY <1>1, <1>8 DEF OS!Next

LEMMA CreateTaskRefines ==
  ASSUME WInv, NEW p \in Proc, CreateTask(p)
  PROVE  OS!Next
<1> DEFINE x == tx[p].pid
           row == [project |-> x, text |-> tx[p].text]
<1>1. PICK t \in FreshTids : tasks' = [tasks EXCEPT ![t] = row]
  BY DEF CreateTask
<1>2. /\ tx[p].user \in User /\ tx[p].text \in Text /\ projects' = projects /\ deleted' = deleted
      /\ x \in Pid /\ projects[x] # NoRow /\ projects[x].owner = tx[p].user
  BY CreateTaskEffect DEF CreateTask, ProjectKeyHolds, Serves, WInv, Request, Working, Bodies
<1>3. t \in Tid /\ tasks[t] = NoRow /\ t \notin deleted
  BY <1>1 DEF FreshTids
<1>4. row # NoRow /\ row.project = x /\ row.text = tx[p].text
  BY <1>2, RowFacts DEF TaskRow
<1> HIDE DEF x, row
<1>5. tasks'[t] = row /\ \A s \in Tid \ {t} : tasks'[s] = tasks[s]
  BY <1>1, <1>3 DEF WInv, Tables
<1>6. Shelf' = [Shelf EXCEPT ![x].items[t] = tx[p].text]
  BY <1>2, <1>3, <1>4, <1>5, OneItem
<1>7. Spent' = Spent \cup {t}
  BY <1>2, <1>3, <1>4, <1>5 DEF Spent, StoredProjects, StoredTasks
<1>8. t \notin Spent
  BY <1>3, MarkersAssumption DEF Spent, StoredProjects, StoredTasks
<1>9. Shelf[x].owner = tx[p].user
  BY <1>2, ShelfRows DEF Shelved
<1>10. OS!AddItem(tx[p].user, x, t, tx[p].text)
  BY <1>6, <1>7, <1>8, <1>9 DEF OS!AddItem, Spent
<1> QED
  BY <1>2, <1>3, <1>10 DEF OS!Next

\* A stored task that its request may write is on the shelf, under its owner.
LEMMA ItemPresent ==
  ASSUME WInv, NEW p \in Proc, Serves(p, "granted", {"updateTask", "deleteTask"}),
         tasks[tx[p].tid] # NoRow
  PROVE  /\ tx[p].user \in User /\ tx[p].tid \in Tid /\ tx[p].pid \in Pid
         /\ projects[tx[p].pid] # NoRow
         /\ Shelf[tx[p].pid].owner = tx[p].user
         /\ Shelf[tx[p].pid].items[tx[p].tid] # Null
<1> DEFINE x == tx[p].pid
           t == tx[p].tid
<1>1. /\ t \in Tid /\ tasks[t] \in TaskRow /\ tasks[t].project = x
      /\ x \in Pid /\ projects[x] # NoRow /\ projects[x].owner = tx[p].user
      /\ tx[p].user \in User
  BY GrantedTask DEF Serves, WInv, Request, Working
<1>2. tasks[t].text # Null
  BY <1>1, MarkersAssumption DEF TaskRow
<1>3. t \in TasksOf(x)
  BY <1>1 DEF TasksOf
<1> HIDE DEF x, t
<1>4. Shelf[x] = [owner |-> projects[x].owner, text |-> projects[x].text, items |-> ItemsOf(x)]
  BY <1>1, ShelfRows DEF Shelved
<1>5. ItemsOf(x)[t] = tasks[t].text
  BY <1>1, <1>3 DEF ItemsOf
<1> QED
  BY <1>1, <1>2, <1>4, <1>5 DEF x, t

LEMMA UpdateTaskRefines ==
  ASSUME WInv, NEW p \in Proc, UpdateTask(p)
  PROVE  OS!Next
<1> DEFINE x == tx[p].pid
           t == tx[p].tid
           row == [tasks[t] EXCEPT !.text = tx[p].text]
<1>1. /\ t \in Tid /\ tasks[t] \in TaskRow /\ tasks[t] # NoRow /\ tasks[t].project = x
      /\ tx[p].text \in Text
  BY GrantedTask DEF UpdateTask, Serves, WInv, Request, Working, Bodies
<1>2. /\ tx[p].user \in User /\ x \in Pid /\ projects[x] # NoRow
      /\ Shelf[x].owner = tx[p].user /\ Shelf[x].items[t] # Null
  BY ItemPresent DEF UpdateTask, Serves
<1>3. tasks' = [tasks EXCEPT ![t] = row] /\ projects' = projects /\ deleted' = deleted
  BY DEF UpdateTask
<1>4. row # NoRow /\ row.project = x /\ row.text = tx[p].text
  <2>1. row \in TaskRow
    BY <1>1 DEF TaskRow
  <2> QED
    BY <1>1, <2>1, RowFacts DEF TaskRow
<1> HIDE DEF x, t, row
<1>5. tasks'[t] = row /\ \A s \in Tid \ {t} : tasks'[s] = tasks[s]
  BY <1>1, <1>3 DEF WInv, Tables
<1>6. Shelf' = [Shelf EXCEPT ![x].items[t] = tx[p].text]
  BY <1>1, <1>2, <1>3, <1>4, <1>5, OneItem
<1>7. Spent' = Spent
  BY <1>1, <1>3, <1>4, <1>5 DEF Spent, StoredProjects, StoredTasks
<1>8. OS!EditItem(tx[p].user, x, t, tx[p].text)
  BY <1>2, <1>6, <1>7 DEF OS!EditItem, Spent
<1> QED
  BY <1>1, <1>2, <1>8 DEF OS!Next

LEMMA DeleteTaskRefines ==
  ASSUME WInv, NEW p \in Proc, DeleteTask(p)
  PROVE  OS!Next
<1> DEFINE x == tx[p].pid
           t == tx[p].tid
<1>1. /\ t \in Tid /\ tasks[t] # NoRow /\ tasks[t].project = x
  BY GrantedTask DEF DeleteTask, Serves
<1>2. /\ tx[p].user \in User /\ x \in Pid /\ projects[x] # NoRow
      /\ Shelf[x].owner = tx[p].user /\ Shelf[x].items[t] # Null
  BY ItemPresent DEF DeleteTask, Serves
<1>3. /\ tasks' = [tasks EXCEPT ![t] = NoRow] /\ projects' = projects
      /\ deleted' = deleted \cup {t}
  BY DEF DeleteTask
<1> HIDE DEF x, t
<1>4. tasks'[t] = NoRow /\ \A s \in Tid \ {t} : tasks'[s] = tasks[s]
  BY <1>1, <1>3 DEF WInv, Tables
<1>5. Shelf' = [Shelf EXCEPT ![x].items[t] = Null]
  BY <1>1, <1>2, <1>3, <1>4, OneItem
<1>6. Spent' = Spent
  <2>1. StoredTasks' = StoredTasks \ {t} /\ t \in StoredTasks
    BY <1>1, <1>4 DEF StoredTasks
  <2>2. StoredProjects' = StoredProjects
    BY <1>3 DEF StoredProjects
  <2> QED
    BY <1>3, <2>1, <2>2 DEF Spent
<1>7. OS!DropItem(tx[p].user, x, t)
  BY <1>2, <1>5, <1>6 DEF OS!DropItem, Spent
<1> QED
  BY <1>1, <1>2, <1>7 DEF OS!Next

\* A step that writes neither table is none of the store's.
LEMMA QuietRefines ==
  ASSUME UNCHANGED <<projects, tasks, deleted>>
  PROVE  UNCHANGED OS!vars
<1>1. \A x \in Pid : Shelved(x)' = Shelved(x)
  BY SameShelved
<1>2. Shelf' = Shelf
  BY <1>1, ShelfRows
<1>3. StoredProjects' = StoredProjects /\ StoredTasks' = StoredTasks
  BY DEF StoredProjects, StoredTasks
<1> QED
  BY <1>2, <1>3 DEF OS!vars

LEMMA StepRefines == WInv /\ [Next]_vars => [OS!Next]_(OS!vars)
<1> SUFFICES ASSUME WInv, [Next]_vars PROVE OS!Next \/ UNCHANGED OS!vars
  OBVIOUS
<1>1. CASE UNCHANGED vars
  BY <1>1, QuietRefines DEF vars
<1>2. ASSUME NEW p \in Proc, NEW u \in User, NEW claim \in Claim, Arrive(p, u, claim)
      PROVE  UNCHANGED OS!vars
  BY <1>2, QuietRefines DEF Arrive, tables
<1>3. ASSUME NEW p \in Proc,
             \/ SkipMirror(p) \/ InsertMirror(p) \/ CommitMirror(p) \/ Dispatch(p)
             \/ FindProject(p) \/ FindTask(p) \/ CheckTask(p)
             \/ ProjectNotFound(p) \/ TaskNotFound(p) \/ Read(p) \/ RowGone(p) \/ Fail(p)
      PROVE  UNCHANGED OS!vars
  BY <1>3, QuietRefines DEF SkipMirror, InsertMirror, CommitMirror, Dispatch, FindProject, FindTask,
     CheckTask, ProjectNotFound, TaskNotFound, Read, RowGone, Fail, tables
<1>4. ASSUME NEW p \in Proc,
             \/ CreateProject(p) \/ UpdateProject(p) \/ DeleteProject(p)
             \/ CreateTask(p) \/ UpdateTask(p) \/ DeleteTask(p)
      PROVE  OS!Next
  BY <1>4, CreateProjectRefines, UpdateProjectRefines, DeleteProjectRefines, CreateTaskRefines,
     UpdateTaskRefines, DeleteTaskRefines
<1> QED
  BY <1>1, <1>2, <1>3, <1>4 DEF Next

\* The requests of the resource-service, which check ownership in one statement
\* and write in another, behave as a store of projects that only their owners
\* change, in atomic steps.
THEOREM StoreRefinement == Spec => ImplementsOwnedStore
  BY InitRefines, StepRefines, WorkspaceInvariant, PTL DEF Spec, ImplementsOwnedStore, OS!Spec
===============================================================================
