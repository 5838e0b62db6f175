------------------------------ MODULE OwnedStore ------------------------------
(***************************************************************************)
(* What a user may rely on for the projects and tasks kept in the          *)
(* resource-service, without any request, transaction or foreign key.  A   *)
(* project holds its tasks: they come into being, are edited and vanish    *)
(* inside it, and go with it.  Every operation is one step, and it is the  *)
(* owner, at that step, whose operation it is.  An id is used once.        *)
(*                                                                         *)
(* Module Workspace implements this specification: see Workspace!OS.       *)
(***************************************************************************)
CONSTANTS
  User,       \* owners
  Pid, Tid,   \* ids of projects and tasks
  Text,       \* contents
  Null        \* no owner, no content

VARIABLES
  shelf,      \* shelf[x]: the project x, with its tasks
  spent       \* every id ever given to a project or task

vars == <<shelf, spent>>

Project == [owner : User \cup {Null}, text : Text \cup {Null}, items : [Tid -> Text \cup {Null}]]

NoItems == [t \in Tid |-> Null]

\* A project that does not exist, or no longer.
Absent == [owner |-> Null, text |-> Null, items |-> NoItems]

TypeOK ==
  /\ shelf \in [Pid -> Project]
  /\ spent \subseteq Pid \cup Tid

Init ==
  /\ shelf = [x \in Pid |-> Absent]
  /\ spent = {}

Create(u, x, text) ==
  /\ x \notin spent
  /\ spent' = spent \cup {x}
  /\ shelf' = [shelf EXCEPT ![x] = [owner |-> u, text |-> text, items |-> NoItems]]

Edit(u, x, text) ==
  /\ shelf[x].owner = u
  /\ shelf' = [shelf EXCEPT ![x].text = text]
  /\ UNCHANGED spent

Delete(u, x) ==
  /\ shelf[x].owner = u
  /\ shelf' = [shelf EXCEPT ![x] = Absent]
  /\ UNCHANGED spent

AddItem(u, x, t, text) ==
  /\ shelf[x].owner = u
  /\ t \notin spent
  /\ spent' = spent \cup {t}
  /\ shelf' = [shelf EXCEPT ![x].items[t] = text]

EditItem(u, x, t, text) ==
  /\ shelf[x].owner = u
  /\ shelf[x].items[t] # Null
  /\ shelf' = [shelf EXCEPT ![x].items[t] = text]
  /\ UNCHANGED spent

DropItem(u, x, t) ==
  /\ shelf[x].owner = u
  /\ shelf[x].items[t] # Null
  /\ shelf' = [shelf EXCEPT ![x].items[t] = Null]
  /\ UNCHANGED spent

Next ==
  \E u \in User, x \in Pid :
    \/ Delete(u, x)
    \/ \E text \in Text : Create(u, x, text) \/ Edit(u, x, text)
    \/ \E t \in Tid :
         \/ DropItem(u, x, t)
         \/ \E text \in Text : AddItem(u, x, t, text) \/ EditItem(u, x, t, text)

Spec == Init /\ [][Next]_vars
===============================================================================
