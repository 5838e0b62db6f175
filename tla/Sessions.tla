------------------------------- MODULE Sessions -------------------------------
(***************************************************************************)
(* Refresh sessions of the auth-service: sign-in opens a root session,     *)
(* rotation chains a child onto the presented one, a replayed token        *)
(* revokes the family, sign-out revokes one session.  The module models    *)
(* the three use cases as the database transactions they are: a            *)
(* SELECT ... FOR UPDATE that waits for a row lock and reads the row once  *)
(* it has it, writes that become visible at the commit, a bulk UPDATE      *)
(* that works through the rows of its own snapshot, rollbacks, and the     *)
(* store's deadlock detector.                                              *)
(*                                                                         *)
(* A refresh token and the session it belongs to have one name (the store  *)
(* finds a session by the token's hash, which is unique); a family is      *)
(* named by its root session.                                              *)
(***************************************************************************)
EXTENDS Naturals, FiniteSets

CONSTANTS
  Proc,         \* request threads, each with a transaction of its own
  Sid,          \* sessions that may be created; bounds the number of sign-ins and rotations
  Null,         \* a NULL column, a free lock, no awaited lock
  NoRow,        \* a session that is not stored; an entity that is not loaded
  RefreshTTL,   \* lifetime of a root session, in clock ticks
  MaxTime       \* bound on the clock

ASSUME NullAssumption == Null \notin Nat /\ Null \notin Sid /\ Null \notin Proc
ASSUME TimeAssumption == RefreshTTL \in Nat \ {0} /\ MaxTime \in Nat

\* A row of table sessions (user, hash, audit columns and updated_at left out).
Row == [family : Sid, parent : Sid \cup {Null}, created : Nat, expires : Nat,
        rotated : Nat \cup {Null}, revoked : Nat \cup {Null}]

ASSUME NoRowAssumption == NoRow \notin Row

VARIABLES
  clock,        \* what Instant.now() reads
  sessions,     \* the committed rows
  lock,         \* lock[s]: the transaction that holds the row lock of s
  tx            \* tx[p]: the request p is serving and its transaction

vars == <<clock, sessions, lock, tx>>

Tx == [pc    : {"idle", "signIn", "lookup", "locked", "revoke"},
       op    : {"none", "signIn", "rotate", "signOut"},
       tok   : Sid \cup {Null},    \* the presented token
       now   : Nat,                \* the use case's reading of the clock
       copy  : Row \cup {NoRow},   \* the managed entity: the row as it was read
       snap  : SUBSET Sid,         \* rows the bulk UPDATE saw when it started
       todo  : SUBSET Sid,         \* of these, the ones it has not reached
       hits  : SUBSET Sid,         \* rows it has updated, not yet committed
       waits : Sid \cup {Null}]    \* the row whose lock the transaction waits for

Idle == [pc |-> "idle", op |-> "none", tok |-> Null, now |-> 0, copy |-> NoRow,
         snap |-> {}, todo |-> {}, hits |-> {}, waits |-> Null]

-------------------------------------------------------------------------------
(* The Session aggregate. *)

Stored == {s \in Sid : sessions[s] # NoRow}
Fresh  == Sid \ Stored
Live(s) == s \in Stored /\ sessions[s].rotated = Null /\ sessions[s].revoked = Null
SameFamily(r, s) == sessions[r].family = sessions[s].family

IsExpired(row, t) == row.expires <= t

\* Mutant: revoked_at is not looked at.
IsActiveEvenRevoked(row, t) == ~IsExpired(row, t) /\ row.rotated = Null

IsActive(row, t) == ~IsExpired(row, t) /\ row.rotated = Null /\ row.revoked = Null

\* Mutant: family_id is left for the store to default, and it has no default.
OpenRootNoFamily(s, created, expires) ==
  [family |-> Null, parent |-> Null, created |-> created, expires |-> expires,
   rotated |-> Null, revoked |-> Null]

OpenRootRow(s, created, expires) ==
  [family |-> s, parent |-> Null, created |-> created, expires |-> expires,
   rotated |-> Null, revoked |-> Null]

\* Mutant: the child keeps the deadline of its parent instead of a window of its own.
RotateChildSameDeadline(s, parent, t) ==
  [family |-> parent.family, parent |-> s, created |-> t, expires |-> parent.expires,
   rotated |-> Null, revoked |-> Null]

RotateChild(s, parent, t) ==
  [family |-> parent.family, parent |-> s, created |-> t,
   expires |-> t + (parent.expires - parent.created),
   rotated |-> Null, revoked |-> Null]

-------------------------------------------------------------------------------
Init ==
  /\ clock = 0
  /\ sessions = [s \in Sid |-> NoRow]
  /\ lock = [s \in Sid |-> Null]
  /\ tx = [p \in Proc |-> Idle]

Tick ==
  /\ clock < MaxTime
  /\ clock' = clock + 1
  /\ UNCHANGED <<sessions, lock, tx>>

\* Mutant: the locks of a finished transaction are kept.
FinishKeepsLocks(p) ==
  /\ tx' = [tx EXCEPT ![p] = Idle]
  /\ UNCHANGED <<clock, lock>>

\* The transaction of p ends, committed or rolled back: its locks are
\* released and the request is answered.
Finish(p) ==
  /\ tx' = [tx EXCEPT ![p] = Idle]
  /\ lock' = [s \in Sid |-> IF lock[s] = p THEN Null ELSE lock[s]]
  /\ UNCHANGED clock

(* Sign-in. *)

\* The password matched; the use case reads the clock for the deadline.
SignIn(p) ==
  /\ tx[p].pc = "idle"
  /\ tx' = [tx EXCEPT ![p] = [Idle EXCEPT !.pc = "signIn", !.op = "signIn", !.now = clock]]
  /\ UNCHANGED <<clock, sessions, lock>>

\* Session.openRoot reads the clock again for createdAt; the row is stored
\* by the commit, which comes later still.  In between the access token is
\* minted: a mint that rotates the signing key may wait for a jwks row, which
\* is SigningKeys!CanFlush and here part of the time between the two steps.
OpenRoot(p) ==
  /\ tx[p].pc = "signIn"
  /\ \E s \in Fresh, created \in tx[p].now .. clock :
       sessions' = [sessions EXCEPT ![s] = OpenRootRow(s, created, tx[p].now + RefreshTTL)]
  /\ Finish(p)

(* The locked lookup, which rotation and sign-out begin with. *)

\* A token no row matches is refused with INVALID_REFRESH: nothing is locked or
\* changed, so there is no step for it.
Present(p, op, t) ==
  /\ tx[p].pc = "idle"
  /\ t \in Stored
  /\ tx' = [tx EXCEPT ![p] = [Idle EXCEPT !.pc = "lookup", !.op = op, !.tok = t, !.waits = t]]
  /\ UNCHANGED <<clock, sessions, lock>>

\* Mutant: a plain SELECT, which does not wait for the row lock.
AcquireNoLock(p) ==
  /\ tx[p].pc = "lookup"
  /\ tx' = [tx EXCEPT ![p] = [@ EXCEPT !.pc = "locked", !.waits = Null, !.now = clock,
                                       !.copy = sessions[tx[p].tok]]]
  /\ UNCHANGED <<clock, sessions, lock>>

\* The row lock is free: take it, read the row as last committed, read the clock.
Acquire(p) ==
  LET t == tx[p].tok IN
  /\ tx[p].pc = "lookup"
  /\ lock[t] = Null
  /\ lock' = [lock EXCEPT ![t] = p]
  /\ tx' = [tx EXCEPT ![p] = [@ EXCEPT !.pc = "locked", !.waits = Null, !.now = clock,
                                       !.copy = sessions[t]]]
  /\ UNCHANGED <<clock, sessions>>

(* Rotation. *)

\* Mutant: the presented session is not stamped (its save is forgotten).
RotateWithoutStamp(p) ==
  /\ tx[p].pc = "locked" /\ tx[p].op = "rotate"
  /\ IsActive(tx[p].copy, tx[p].now)
  /\ \E c \in Fresh :
       sessions' = [sessions EXCEPT ![c] = RotateChild(tx[p].tok, tx[p].copy, tx[p].now)]
  /\ Finish(p)

\* The happy path up to its commit: the child is inserted and the presented
\* row is written back, every column of it, with rotated_at stamped.  The mint
\* comes last; what it may wait for is a jwks row (SigningKeys!CanFlush), whose
\* holder is past its last wait, so Acquire and Rotate have it between them.
Rotate(p) ==
  LET t == tx[p].tok
      parent == tx[p].copy
  IN
  /\ tx[p].pc = "locked" /\ tx[p].op = "rotate"
  /\ IsActive(parent, tx[p].now)
  /\ \E c \in Fresh :
       sessions' = [sessions EXCEPT ![c] = RotateChild(t, parent, tx[p].now),
                                    ![t] = [parent EXCEPT !.rotated = tx[p].now]]
  /\ Finish(p)

\* Mutant: the revoked check comes before the rotated one.
RejectRevokedFirst(p) ==
  /\ tx[p].pc = "locked" /\ tx[p].op = "rotate"
  /\ tx[p].copy.revoked # Null
  /\ Finish(p)
  /\ UNCHANGED sessions

\* SESSION_REVOKED: an un-rotated session that was revoked; roll back.
RejectRevoked(p) ==
  /\ tx[p].pc = "locked" /\ tx[p].op = "rotate"
  /\ tx[p].copy.rotated = Null
  /\ tx[p].copy.revoked # Null
  /\ Finish(p)
  /\ UNCHANGED sessions

\* SESSION_EXPIRED: neither rotated nor revoked, but past its window; roll back.
RejectExpired(p) ==
  /\ tx[p].pc = "locked" /\ tx[p].op = "rotate"
  /\ tx[p].copy.rotated = Null
  /\ tx[p].copy.revoked = Null
  /\ IsExpired(tx[p].copy, tx[p].now)
  /\ Finish(p)
  /\ UNCHANGED sessions

\* Mutant: the bulk UPDATE forgets its family_id condition.
ReuseDetectedAllFamilies(p) ==
  LET active == {s \in Stored : sessions[s].revoked = Null} IN
  /\ tx[p].pc = "locked" /\ tx[p].op = "rotate"
  /\ tx[p].copy.rotated # Null
  /\ tx' = [tx EXCEPT ![p] = [@ EXCEPT !.pc = "revoke", !.snap = active, !.todo = active]]
  /\ UNCHANGED <<clock, sessions, lock>>

\* A spent token: revokeFamily starts on the rows its snapshot matches.
ReuseDetected(p) ==
  LET active == {s \in Stored : /\ sessions[s].family = tx[p].copy.family
                                /\ sessions[s].revoked = Null}
  IN
  /\ tx[p].pc = "locked" /\ tx[p].op = "rotate"
  /\ tx[p].copy.rotated # Null
  /\ tx' = [tx EXCEPT ![p] = [@ EXCEPT !.pc = "revoke", !.snap = active, !.todo = active]]
  /\ UNCHANGED <<clock, sessions, lock>>

\* The UPDATE reaches row s, in no particular order: it locks the row and
\* tests revoked_at again, on the version committed last.
RevokeRow(p, s) ==
  /\ tx[p].pc = "revoke"
  /\ s \in tx[p].todo
  /\ tx[p].waits \in {Null, s}
  /\ lock[s] \in {Null, p}
  /\ lock' = [lock EXCEPT ![s] = p]
  /\ tx' = [tx EXCEPT ![p] = [@ EXCEPT !.todo = tx[p].todo \ {s}, !.waits = Null,
                  !.hits = IF sessions[s].revoked = Null THEN tx[p].hits \cup {s}
                                                         ELSE tx[p].hits]]
  /\ UNCHANGED <<clock, sessions>>

\* The UPDATE reaches a row that another transaction has locked, and waits.
AwaitRow(p, s) ==
  /\ tx[p].pc = "revoke"
  /\ tx[p].waits = Null
  /\ s \in tx[p].todo
  /\ lock[s] \notin {Null, p}
  /\ tx' = [tx EXCEPT ![p] = [@ EXCEPT !.waits = s]]
  /\ UNCHANGED <<clock, sessions, lock>>

\* Mutant: the revocation rolls back with the exception that reports it.
CommitRevokeRollsBack(p) ==
  /\ tx[p].pc = "revoke"
  /\ tx[p].todo = {}
  /\ Finish(p)
  /\ UNCHANGED sessions

\* REFRESH_REUSE_DETECTED: the exception answers the request and, because of
\* noRollbackFor, the revocation commits.
CommitRevoke(p) ==
  /\ tx[p].pc = "revoke"
  /\ tx[p].todo = {}
  /\ sessions' = [s \in Sid |-> IF s \in tx[p].hits
                                  THEN [sessions[s] EXCEPT !.revoked = tx[p].now]
                                  ELSE sessions[s]]
  /\ Finish(p)

(* Sign-out, up to its commit. Only a dirty entity is written back, whole. *)

\* Mutant: a second sign-out overwrites the time of the first.
SignOutAgain(p) ==
  /\ tx[p].pc = "locked" /\ tx[p].op = "signOut"
  /\ sessions' = [sessions EXCEPT ![tx[p].tok] = [tx[p].copy EXCEPT !.revoked = tx[p].now]]
  /\ Finish(p)

\* Mutant: the revoked entity is not saved.
SignOutNoSave(p) ==
  /\ tx[p].pc = "locked" /\ tx[p].op = "signOut"
  /\ Finish(p)
  /\ UNCHANGED sessions

SignOut(p) ==
  /\ tx[p].pc = "locked" /\ tx[p].op = "signOut"
  /\ sessions' = IF tx[p].copy.revoked = Null
                   THEN [sessions EXCEPT ![tx[p].tok] = [tx[p].copy EXCEPT !.revoked = tx[p].now]]
                   ELSE sessions
  /\ Finish(p)

(* Failures: everything the transaction wrote is dropped. *)

\* Mutant: each save commits on its own; a rotation that fails after its first
\* one leaves the presented session stamped.
FailAfterSave(p) ==
  LET t == tx[p].tok IN
  /\ tx[p].pc # "idle"
  /\ Finish(p)
  /\ sessions' = IF tx[p].pc = "locked" /\ tx[p].op = "rotate" /\ IsActive(tx[p].copy, tx[p].now)
                   THEN [sessions EXCEPT ![t].rotated = tx[p].now]
                   ELSE sessions

\* A crash, a lost connection, a statement timeout, a failed JWT mint.
Fail(p) ==
  /\ tx[p].pc # "idle"
  /\ Finish(p)
  /\ UNCHANGED sessions

\* p is on a cycle of transactions that each wait for the next one's lock.
OnWaitCycle(p) ==
  \E Q \in SUBSET Proc :
    /\ p \in Q
    /\ \A q \in Q : tx[q].waits # Null
    /\ {lock[tx[q].waits] : q \in Q} = Q

\* The store aborts one of the transactions that wait in a cycle.
DeadlockVictim(p) == OnWaitCycle(p) /\ Fail(p)

\* Bound: with no id left, a request that must create a session fails.
OutOfIds(p) ==
  /\ Fresh = {}
  /\ \/ tx[p].pc = "signIn"
     \/ tx[p].pc = "locked" /\ tx[p].op = "rotate" /\ IsActive(tx[p].copy, tx[p].now)
  /\ Fail(p)

-------------------------------------------------------------------------------
\* The steps of a running transaction that wait for nobody.
Work(p) ==
  \/ OpenRoot(p) \/ OutOfIds(p)
  \/ Rotate(p) \/ RejectRevoked(p) \/ RejectExpired(p) \/ ReuseDetected(p) \/ SignOut(p)
  \/ \E s \in Sid : AwaitRow(p, s)
  \/ CommitRevoke(p)

Next ==
  \/ Tick
  \/ \E p \in Proc :
       \/ SignIn(p)
       \/ \E op \in {"rotate", "signOut"}, t \in Sid : Present(p, op, t)
       \/ Acquire(p)
       \/ Work(p)
       \/ \E s \in Sid : RevokeRow(p, s)
       \/ Fail(p) \/ DeadlockVictim(p)

Spec == Init /\ [][Next]_vars

-------------------------------------------------------------------------------
(* Invariants. *)

\* Every variable has its type.
TypeOK ==
  /\ clock \in Nat
  /\ sessions \in [Sid -> Row \cup {NoRow}]
  /\ lock \in [Sid -> Proc \cup {Null}]
  /\ tx \in [Proc -> Tx]

\* The entity a use case works on is the committed row until its own commit,
\* and the transaction holds that row's lock: what makes it safe to decide on
\* the entity and to write all its columns back (findByTokenHashForUpdate,
\* "that serialization is the whole concurrency defense").
LockedCopyIsCurrent ==
  \A p \in Proc : tx[p].pc \in {"locked", "revoke"} =>
    /\ lock[tx[p].tok] = p
    /\ sessions[tx[p].tok] = tx[p].copy

\* A family never has two sessions that were not rotated: two rotations of
\* one token cannot both succeed, nor can a rotation fork a chain that a
\* family kill or a sign-out is working on (SDD-001 invariant 3).
OneLeaf ==
  \A r, s \in Stored :
    /\ SameFamily(r, s)
    /\ sessions[r].rotated = Null
    /\ sessions[s].rotated = Null
    => r = s

\* Rotation chains: a session has a child exactly when it was rotated, one
\* child only, of its family, created at that instant, before the parent
\* expired, and with the parent's window measured from its own creation
\* (Session.rotateChild; SDD-001 invariants 1 and 4).
IsChild(c, r) == c \in Stored /\ sessions[c].parent = r

ChainLinks ==
  \A r \in Stored :
    /\ sessions[r].rotated # Null => \E c \in Stored : IsChild(c, r)
    /\ \A c, d \in Stored : IsChild(c, r) /\ IsChild(d, r) => c = d
    /\ \A c \in Stored : IsChild(c, r) =>
         /\ SameFamily(c, r)
         /\ sessions[c].created = sessions[r].rotated
         /\ sessions[c].created < sessions[r].expires
         /\ sessions[c].expires - sessions[c].created
              = sessions[r].expires - sessions[r].created

\* A request that waits for the lock of a session row waits for a request that
\* presents a token of the same family: the rows of another sign-in are never
\* in its way ("one lock, no contention", as far as it goes).  Of the lock on a
\* jwks row, which the mint of any sign-in or rotation may need, it says nothing.
RowWaitsStayInFamily ==
  \A p, q \in Proc : tx[p].waits # Null /\ lock[tx[p].waits] = q =>
    SameFamily(tx[p].tok, tx[q].tok)

\* A deadlock over session rows is one between family kills of a single family:
\* its victim is a reuse detection, and another one of the same family is under
\* way.  A lookup may wait for long, but it holds nothing and is never the victim.
DeadlocksAreAmongKills ==
  \A p \in Proc : OnWaitCycle(p) =>
    /\ tx[p].pc = "revoke"
    /\ \E q \in Proc \ {p} : tx[q].pc = "revoke" /\ SameFamily(tx[p].tok, tx[q].tok)

-------------------------------------------------------------------------------
(* Action properties. *)

\* A session that was rotated or revoked keeps the stamp it got: no write
\* of a whole row takes back what another transaction committed.
KeepsStamps ==
  \A s \in Stored :
    /\ sessions[s].rotated # Null => sessions'[s].rotated = sessions[s].rotated
    /\ sessions[s].revoked # Null => sessions'[s].revoked = sessions[s].revoked

StampsStick == [][KeepsStamps]_vars

\* A family without a live session never gets one again, whatever is in
\* flight: sign-out of the leaf and a complete family kill are final.
Dead(r) == \A s \in Stored : SameFamily(r, s) => ~Live(s)

DeadStaysDead == [][\A r \in Stored : Dead(r) => Dead(r)']_vars

\* When REFRESH_REUSE_DETECTED is answered, the presented session and every
\* session of the family that was stored when the bulk UPDATE began are
\* revoked, the ones other transactions held included.
RevokesSnapshot(p) ==
  CommitRevoke(p) => \A s \in tx[p].snap \cup {tx[p].tok} : sessions'[s].revoked # Null

SnapshotRevoked == [][\A p \in Proc : RevokesSnapshot(p)]_vars

\* SESSION_REVOKED kills no family, and need not: when it is the answer the
\* family has no live session left.
RevokedAnswerMeansDeadFamily == [][\A p \in Proc : RejectRevoked(p) => Dead(tx[p].tok)]_vars

(* Liveness. *)

\* Every request is answered: no transaction waits for a lock for ever.
EveryRequestAnswered == \A p \in Proc : tx[p].pc # "idle" ~> tx[p].pc = "idle"

(* Refinement. *)

\* The committed table implements TokenChain: the live token of a family is
\* exchanged, voided and never duplicated, in atomic steps.
LiveHead ==
  [f \in Sid |-> LET live == {s \in Stored : sessions[s].family = f /\ Live(s)}
                 IN  IF live = {} THEN Null ELSE CHOOSE s \in live : TRUE]

TC == INSTANCE TokenChain WITH Token <- Sid, issued <- Stored, head <- LiveHead

ImplementsTokenChain == TC!Spec

-------------------------------------------------------------------------------
(* What the documents say and the code does not do. *)

\* "revokes every still-active session sharing a familyId": when the reuse is
\* answered, no session of the family is left un-revoked.
ReuseKillsFamily ==
  [][\A p \in Proc : CommitRevoke(p) =>
       \A s \in Stored : SameFamily(s, tx[p].tok) => sessions'[s].revoked # Null]_vars

\* "one lock, no contention": reuse detections do not deadlock.
NoWaitCycle == \A p \in Proc : ~OnWaitCycle(p)
===============================================================================
