---------------------------- MODULE SessionsProofs ----------------------------
(***************************************************************************)
(* Proofs about Sessions, for any number of requests and sessions, any     *)
(* lifetime and any bound on the clock.                                    *)
(***************************************************************************)
EXTENDS Sessions, TLAPS

\* A family is named by a session that exists, so a new root joins no family,
\* and no row was created in the future.
RowsOK ==
  \A s \in Stored :
    /\ sessions[s].family \in Stored
    /\ sessions[s].parent # Null => sessions[s].parent \in Stored
    /\ sessions[s].created <= clock

\* What is true of the transaction of p at each of its steps.
TxOK(p) ==
  /\ tx[p].now <= clock
  /\ tx[p].pc \in {"lookup", "locked", "revoke"} => tx[p].tok \in Stored
  /\ tx[p].pc \in {"locked", "revoke"} =>
       /\ lock[tx[p].tok] = p
       /\ sessions[tx[p].tok] = tx[p].copy
       /\ tx[p].copy.created <= tx[p].now
  /\ tx[p].pc # "revoke" => tx[p].hits = {}
  /\ tx[p].pc = "revoke" =>
       /\ tx[p].todo \subseteq tx[p].snap
       /\ tx[p].snap \subseteq Stored
       /\ \A s \in tx[p].hits :
            s \in tx[p].snap /\ lock[s] = p /\ sessions[s].revoked = Null
       /\ \A s \in tx[p].snap \ tx[p].todo :
            s \in tx[p].hits \/ sessions[s].revoked # Null
       /\ tx[p].tok \in tx[p].snap \/ sessions[tx[p].tok].revoked # Null
       /\ \A s \in tx[p].snap : SameFamily(s, tx[p].tok)

TableInv == RowsOK /\ OneLeaf /\ ChainLinks

\* The inductive invariant.
IInv == TypeOK /\ TableInv /\ \A p \in Proc : TxOK(p)

USE NullAssumption, TimeAssumption, NoRowAssumption

LEMMA StoredRows == TypeOK => \A s \in Stored : s \in Sid /\ sessions[s] \in Row
BY DEF TypeOK, Stored

LEMMA InitInv == Init => IInv
<1> SUFFICES ASSUME Init PROVE IInv
    OBVIOUS
<1>1. Stored = {}
    BY DEF Init, Stored
<1>2. TypeOK
    BY DEF Init, TypeOK, Idle, Tx
<1>3. TableInv
    BY <1>1 DEF TableInv, RowsOK, OneLeaf, ChainLinks
<1>4. \A p \in Proc : TxOK(p)
    BY DEF Init, TxOK, Idle
<1> QED BY <1>2, <1>3, <1>4 DEF IInv

\* The table keeps its shape in a step that does not write it.
LEMMA TableFrame ==
  ASSUME TypeOK, TableInv, clock' \in Nat, clock <= clock', sessions' = sessions
  PROVE  TableInv'
<1>1. Stored' = Stored
    BY DEF Stored
<1>2. RowsOK'
    BY <1>1, StoredRows DEF TableInv, RowsOK, TypeOK, Row
<1>3. OneLeaf'
    BY <1>1 DEF TableInv, OneLeaf, SameFamily
<1>4. ChainLinks'
    BY <1>1 DEF TableInv, ChainLinks, SameFamily, IsChild
<1> QED BY <1>2, <1>3, <1>4 DEF TableInv

\* A transaction is not disturbed by a step of another one that leaves the
\* rows it has locked alone and takes back no revocation.
LEMMA TxFrame ==
  ASSUME NEW q \in Proc, TypeOK, TxOK(q), tx'[q] = tx[q],
         clock' \in Nat, clock <= clock',
         Stored \subseteq Stored',
         \A s \in Stored : lock[s] = q => lock'[s] = q /\ sessions'[s] = sessions[s],
         \A s \in Stored : sessions[s].revoked # Null => sessions'[s].revoked # Null,
         \A s \in Stored : sessions'[s].family = sessions[s].family
  PROVE  TxOK(q)'
<1>1. tx[q] \in Tx
    BY DEF TypeOK
<1>2. tx[q].now <= clock'
    BY <1>1 DEF TxOK, TypeOK, Tx
<1>3. CASE tx[q].pc \notin {"locked", "revoke"}
    BY <1>2, <1>3 DEF TxOK
<1>4. CASE tx[q].pc = "locked"
    BY <1>2, <1>4 DEF TxOK
<1>5. CASE tx[q].pc = "revoke"
  <2>1. \A s \in tx[q].hits : s \in tx[q].snap /\ lock'[s] = q /\ sessions'[s].revoked = Null
      BY <1>5 DEF TxOK
  <2>2. \A s \in tx[q].snap \ tx[q].todo : s \in tx[q].hits \/ sessions'[s].revoked # Null
      BY <1>5 DEF TxOK
  <2>3. tx[q].tok \in tx[q].snap \/ sessions'[tx[q].tok].revoked # Null
      BY <1>5 DEF TxOK
  <2>4. \A s \in tx[q].snap : SameFamily(s, tx[q].tok)'
      BY <1>5 DEF TxOK, SameFamily
  <2> QED BY <1>2, <1>5, <2>1, <2>2, <2>3, <2>4 DEF TxOK
<1> QED BY <1>3, <1>4, <1>5

\* Finish drops the locks of p and of nobody else.
LEMMA FinishFacts ==
  ASSUME NEW p \in Proc, TypeOK, Finish(p)
  PROVE  /\ tx' \in [Proc -> Tx] /\ lock' \in [Sid -> Proc \cup {Null}]
         /\ clock' = clock
         /\ tx'[p] = Idle
         /\ \A q \in Proc : q # p => /\ tx'[q] = tx[q]
                                     /\ \A s \in Sid : lock[s] = q => lock'[s] = q
<1>1. Idle \in Tx
    BY DEF Idle, Tx
<1> QED BY <1>1 DEF Finish, TypeOK

\* Ending a transaction is harmless when the rows that change are stored
\* for the first time or are locked by that transaction.
LEMMA FinishTx ==
  ASSUME NEW p \in Proc, TypeOK, \A q \in Proc : TxOK(q), Finish(p),
         Stored \subseteq Stored',
         \A s \in Stored : sessions'[s] = sessions[s] \/ lock[s] = p,
         \A s \in Stored : sessions[s].revoked # Null => sessions'[s].revoked # Null,
         \A s \in Stored : sessions'[s].family = sessions[s].family
  PROVE  \A q \in Proc : TxOK(q)'
<1> SUFFICES ASSUME NEW q \in Proc PROVE TxOK(q)'
    OBVIOUS
<1>1. CASE q = p
    BY <1>1, FinishFacts DEF TxOK, Idle, TypeOK
<1>2. CASE q # p
  <2>1. \A s \in Stored : lock[s] = q => lock'[s] = q /\ sessions'[s] = sessions[s]
      BY <1>2, FinishFacts, StoredRows
  <2> QED BY <1>2, <2>1, FinishFacts, TxFrame DEF TypeOK
<1> QED BY <1>1, <1>2

-------------------------------------------------------------------------------
(* Steps that do not write the table. *)

LEMMA TickInv == IInv /\ Tick => IInv'
<1> SUFFICES ASSUME IInv, Tick PROVE IInv'
    OBVIOUS
<1>1. TypeOK'
    BY DEF IInv, TypeOK, Tick
<1>2. clock' \in Nat /\ clock <= clock' /\ Stored' = Stored
    BY DEF IInv, TypeOK, Tick, Stored
<1>3. TableInv'
    BY <1>2, TableFrame DEF IInv, Tick
<1>4. \A q \in Proc : TxOK(q)'
    BY <1>2, TxFrame DEF IInv, Tick
<1> QED BY <1>1, <1>3, <1>4 DEF IInv

\* A request that begins holds nothing yet; the others are not concerned.
LEMMA BeginInv ==
  ASSUME IInv, NEW p \in Proc, NEW t \in Tx, TxOK(p)',
         tx' = [tx EXCEPT ![p] = t], UNCHANGED <<clock, sessions, lock>>
  PROVE  IInv'
<1>1. TypeOK'
    BY DEF IInv, TypeOK
<1>2. Stored' = Stored /\ clock \in Nat
    BY DEF Stored, IInv, TypeOK
<1>3. TableInv'
    BY <1>2, TableFrame DEF IInv
<1>4. \A q \in Proc : q # p => TxOK(q)'
    BY <1>2, TxFrame DEF IInv, TypeOK
<1> QED BY <1>1, <1>3, <1>4 DEF IInv

LEMMA SignInInv ==
  ASSUME IInv, NEW p \in Proc, SignIn(p)
  PROVE  IInv'
<1> DEFINE t == [Idle EXCEPT !.pc = "signIn", !.op = "signIn", !.now = clock]
<1>1. t \in Tx /\ tx'[p] = t /\ clock \in Nat
    BY DEF SignIn, IInv, TypeOK, Tx, Idle
<1>2. TxOK(p)'
  <2>1. t.pc = "signIn" /\ t.now = clock /\ t.hits = {}
      BY DEF Idle
  <2>2. clock' = clock
      BY DEF SignIn
  <2> HIDE DEF t
  <2> QED BY <1>1, <2>1, <2>2 DEF TxOK
<1>3. tx' = [tx EXCEPT ![p] = t] /\ UNCHANGED <<clock, sessions, lock>>
    BY DEF SignIn
<1> HIDE DEF t
<1> QED BY <1>1, <1>2, <1>3, BeginInv

LEMMA PresentInv ==
  ASSUME IInv, NEW p \in Proc, NEW op \in {"rotate", "signOut"}, NEW s \in Sid,
         Present(p, op, s)
  PROVE  IInv'
<1> DEFINE t == [Idle EXCEPT !.pc = "lookup", !.op = op, !.tok = s, !.waits = s]
<1>1. t \in Tx /\ tx'[p] = t /\ clock \in Nat
    BY DEF Present, IInv, TypeOK, Tx, Idle
<1>2. TxOK(p)'
  <2>1. t.pc = "lookup" /\ t.now = 0 /\ t.tok = s /\ t.hits = {}
      BY DEF Idle
  <2>2. clock' = clock /\ s \in Stored'
      BY DEF Present, Stored
  <2> HIDE DEF t
  <2> QED BY <1>1, <2>1, <2>2 DEF TxOK
<1>3. tx' = [tx EXCEPT ![p] = t] /\ UNCHANGED <<clock, sessions, lock>>
    BY DEF Present
<1> HIDE DEF t
<1> QED BY <1>1, <1>2, <1>3, BeginInv

LEMMA AcquireInv ==
  ASSUME IInv, NEW p \in Proc, Acquire(p)
  PROVE  IInv'
<1> DEFINE t == tx[p].tok
<1>1. tx[p] \in Tx /\ t \in Stored /\ sessions[t] \in Row /\ clock \in Nat
    BY StoredRows DEF Acquire, IInv, TypeOK, TxOK
<1>2. TypeOK'
    BY <1>1 DEF Acquire, IInv, TypeOK, Tx, Stored
<1>3. Stored' = Stored
    BY DEF Acquire, Stored
<1>4. TableInv'
    BY <1>1, TableFrame DEF Acquire, IInv
<1>5. \A q \in Proc : q # p => TxOK(q)'
    BY <1>1, <1>3, TxFrame DEF Acquire, IInv, TypeOK, Stored
<1>6. TxOK(p)'
  <2>1. sessions[t].created <= clock
      BY <1>1 DEF IInv, TableInv, RowsOK
  <2>2. tx'[p] = [tx[p] EXCEPT !.pc = "locked", !.waits = Null, !.now = clock,
                               !.copy = sessions[t]]
      BY DEF Acquire, IInv, TypeOK
  <2>3. lock'[t] = p
      BY <1>1 DEF Acquire, IInv, TypeOK, Stored
  <2>4. tx[p].hits = {}
      BY DEF Acquire, IInv, TxOK
  <2>5. sessions' = sessions /\ clock' = clock
      BY DEF Acquire
  <2>6. /\ tx'[p].pc = "locked" /\ tx'[p].tok = t /\ tx'[p].now = clock
        /\ tx'[p].copy = sessions[t] /\ tx'[p].hits = {}
      BY <1>1, <2>2, <2>4 DEF Tx
  <2> QED BY <1>1, <1>3, <2>1, <2>3, <2>5, <2>6 DEF TxOK
<1> QED BY <1>2, <1>4, <1>5, <1>6 DEF IInv

LEMMA ReuseDetectedInv ==
  ASSUME IInv, NEW p \in Proc, ReuseDetected(p)
  PROVE  IInv'
<1> DEFINE active == {s \in Stored : /\ sessions[s].family = tx[p].copy.family
                                     /\ sessions[s].revoked = Null}
           t == [tx[p] EXCEPT !.pc = "revoke", !.snap = active, !.todo = active]
<1>1. tx[p] \in Tx /\ active \subseteq Stored /\ active \subseteq Sid
    BY DEF IInv, TypeOK, Stored
<1>2. t \in Tx
    BY <1>1 DEF Tx
<1>3. /\ tx' = [tx EXCEPT ![p] = t] /\ tx'[p] = t
      /\ UNCHANGED <<clock, sessions, lock>>
    BY DEF ReuseDetected, IInv, TypeOK
<1>4. /\ t.pc = "revoke" /\ t.snap = active /\ t.todo = active
      /\ t.tok = tx[p].tok /\ t.now = tx[p].now /\ t.copy = tx[p].copy
      /\ t.hits = {}
    BY <1>1 DEF ReuseDetected, IInv, TxOK, Tx
<1>5. Stored' = Stored
    BY <1>3 DEF Stored
<1>6. TxOK(p)'
  <2>1. /\ tx[p].now <= clock /\ tx[p].tok \in Stored
        /\ lock[tx[p].tok] = p /\ sessions[tx[p].tok] = tx[p].copy
        /\ tx[p].copy.created <= tx[p].now
      BY DEF ReuseDetected, IInv, TxOK
  <2>2. tx[p].tok \in active \/ sessions[tx[p].tok].revoked # Null
      BY <2>1
  <2>3. \A s \in active : sessions'[s].family = sessions'[t.tok].family
      BY <1>3, <1>4, <2>1
  <2> HIDE DEF active, t
  <2> QED BY <1>1, <1>3, <1>4, <1>5, <2>1, <2>2, <2>3 DEF TxOK, SameFamily
<1> HIDE DEF t, active
<1> QED BY <1>2, <1>3, <1>6, BeginInv

LEMMA RevokeRowInv ==
  ASSUME IInv, NEW p \in Proc, NEW s \in Sid, RevokeRow(p, s)
  PROVE  IInv'
<1> DEFINE hits == IF sessions[s].revoked = Null THEN tx[p].hits \cup {s} ELSE tx[p].hits
           t == [tx[p] EXCEPT !.todo = tx[p].todo \ {s}, !.waits = Null, !.hits = hits]
<1>1. tx[p] \in Tx /\ clock \in Nat /\ s \in Stored
    BY DEF RevokeRow, IInv, TypeOK, TxOK
<1>2. t \in Tx /\ hits \subseteq Sid
    BY <1>1 DEF Tx
<1>3. tx' = [tx EXCEPT ![p] = t] /\ tx'[p] = t
    BY DEF RevokeRow, IInv, TypeOK
<1>4. TypeOK'
    BY <1>2, <1>3 DEF RevokeRow, IInv, TypeOK
<1>5. Stored' = Stored /\ sessions' = sessions /\ clock' = clock
    BY DEF RevokeRow, Stored
<1>6. TableInv'
    BY <1>1, <1>5, TableFrame DEF IInv
<1>7. \A r \in Sid : lock[r] \in Proc => lock'[r] = lock[r]
    BY DEF RevokeRow, IInv, TypeOK
<1>8. \A q \in Proc : q # p => TxOK(q)'
    BY <1>1, <1>3, <1>5, <1>7, StoredRows, TxFrame DEF IInv, TypeOK
<1>9. TxOK(p)'
  <2>1. /\ t.pc = "revoke" /\ t.snap = tx[p].snap /\ t.todo = tx[p].todo \ {s}
        /\ t.tok = tx[p].tok /\ t.now = tx[p].now /\ t.copy = tx[p].copy
        /\ t.hits = hits
      BY <1>1 DEF RevokeRow, Tx
  <2>2. /\ tx[p].now <= clock /\ tx[p].tok \in Stored
        /\ lock[tx[p].tok] = p /\ sessions[tx[p].tok] = tx[p].copy
        /\ tx[p].copy.created <= tx[p].now
      BY DEF RevokeRow, IInv, TxOK
  <2>3. \A r \in hits : r \in tx[p].snap /\ lock'[r] = p /\ sessions[r].revoked = Null
    <3>1. lock'[s] = p
        BY DEF RevokeRow, IInv, TypeOK
    <3>2. \A r \in tx[p].hits : r \in tx[p].snap /\ lock[r] = p /\ sessions[r].revoked = Null
        BY DEF RevokeRow, IInv, TxOK
    <3>3. s \in tx[p].snap /\ tx[p].snap \subseteq Sid
        BY <1>1 DEF RevokeRow, IInv, TxOK, Stored
    <3> QED BY <1>1, <1>7, <3>1, <3>2, <3>3
  <2>4. \A r \in tx[p].snap \ (tx[p].todo \ {s}) : r \in hits \/ sessions[r].revoked # Null
      BY DEF RevokeRow, IInv, TxOK
  <2>5. /\ tx[p].todo \subseteq tx[p].snap /\ tx[p].snap \subseteq Stored
        /\ tx[p].tok \in tx[p].snap \/ sessions[tx[p].tok].revoked # Null
      BY DEF RevokeRow, IInv, TxOK
  <2>6. lock'[tx[p].tok] = p
      BY <1>7, <2>2 DEF Stored
  <2>7. \A r \in t.snap : sessions'[r].family = sessions'[t.tok].family
      BY <1>5, <2>1 DEF RevokeRow, IInv, TxOK, SameFamily
  <2> HIDE DEF hits, t
  <2> QED BY <1>3, <1>5, <2>1, <2>2, <2>3, <2>4, <2>5, <2>6, <2>7 DEF TxOK, SameFamily
<1> QED BY <1>4, <1>6, <1>8, <1>9 DEF IInv

LEMMA AwaitRowInv ==
  ASSUME IInv, NEW p \in Proc, NEW s \in Sid, AwaitRow(p, s)
  PROVE  IInv'
<1> DEFINE t == [tx[p] EXCEPT !.waits = s]
<1>1. tx[p] \in Tx /\ TxOK(p)
    BY DEF IInv, TypeOK
<1>2. /\ t \in Tx /\ t.pc = tx[p].pc /\ t.snap = tx[p].snap /\ t.todo = tx[p].todo
      /\ t.tok = tx[p].tok /\ t.now = tx[p].now /\ t.copy = tx[p].copy
      /\ t.hits = tx[p].hits
    BY <1>1 DEF Tx
<1>3. /\ tx' = [tx EXCEPT ![p] = t] /\ tx'[p] = t
      /\ UNCHANGED <<clock, sessions, lock>>
    BY DEF AwaitRow, IInv, TypeOK
<1>4. Stored' = Stored
    BY <1>3 DEF Stored
<1> HIDE DEF t
<1>5. TxOK(p)'
    BY <1>1, <1>2, <1>3, <1>4 DEF TxOK, SameFamily
<1> QED BY <1>2, <1>3, <1>5, BeginInv

\* A rollback, or a refusal.
LEMMA EndInv ==
  ASSUME IInv, NEW p \in Proc, Finish(p), UNCHANGED sessions
  PROVE  IInv'
<1>1. Stored' = Stored /\ clock' = clock /\ clock \in Nat
    BY DEF Stored, Finish, IInv, TypeOK
<1>2. TypeOK'
    BY <1>1, FinishFacts DEF IInv, TypeOK
<1>3. TableInv'
    BY <1>1, TableFrame DEF IInv
<1>4. \A q \in Proc : TxOK(q)'
    BY <1>1, FinishTx DEF IInv
<1> QED BY <1>2, <1>3, <1>4 DEF IInv

-------------------------------------------------------------------------------
(* Steps that write the table. *)

\* Nothing in the table's shape depends on revoked_at.
LEMMA ShapeFrame ==
  ASSUME TableInv, Stored' = Stored, clock' = clock,
         \A s \in Stored :
           /\ sessions'[s].family = sessions[s].family
           /\ sessions'[s].parent = sessions[s].parent
           /\ sessions'[s].created = sessions[s].created
           /\ sessions'[s].expires = sessions[s].expires
           /\ sessions'[s].rotated = sessions[s].rotated
  PROVE  TableInv'
<1>1. RowsOK'
    BY DEF TableInv, RowsOK
<1>2. OneLeaf'
    BY DEF TableInv, OneLeaf, SameFamily
<1>3. ChainLinks'
    BY DEF TableInv, ChainLinks, SameFamily, IsChild
<1> QED BY <1>1, <1>2, <1>3 DEF TableInv

\* A transaction that revokes rows it has locked, whole rows or the one column.
LEMMA RevokeInv ==
  ASSUME IInv, NEW p \in Proc, Finish(p),
         NEW S \in SUBSET Stored,
         \A s \in S : lock[s] = p,
         sessions' = [s \in Sid |-> IF s \in S
                                      THEN [sessions[s] EXCEPT !.revoked = tx[p].now]
                                      ELSE sessions[s]]
  PROVE  IInv'
<1>1. tx[p].now \in Nat /\ clock' = clock /\ TypeOK
    BY DEF IInv, TypeOK, Tx, Finish
<1>2. \A s \in S : [sessions[s] EXCEPT !.revoked = tx[p].now] \in Row
    BY <1>1, StoredRows DEF Row
<1>3. sessions' \in [Sid -> Row \cup {NoRow}]
    BY <1>1, <1>2 DEF TypeOK
<1>4. Stored' = Stored
    BY <1>1, <1>2 DEF Stored, TypeOK
<1>5. \A s \in Stored :
        /\ sessions'[s].family = sessions[s].family
        /\ sessions'[s].parent = sessions[s].parent
        /\ sessions'[s].created = sessions[s].created
        /\ sessions'[s].expires = sessions[s].expires
        /\ sessions'[s].rotated = sessions[s].rotated
        /\ sessions[s].revoked # Null => sessions'[s].revoked # Null
        /\ sessions'[s] = sessions[s] \/ lock[s] = p
    BY <1>1, StoredRows DEF Row
<1>6. TypeOK'
    BY <1>1, <1>3, FinishFacts DEF TypeOK
<1>7. TableInv'
    BY <1>1, <1>4, <1>5, ShapeFrame DEF IInv
<1>8. \A q \in Proc : TxOK(q)'
    BY <1>4, <1>5, FinishTx DEF IInv
<1> QED BY <1>6, <1>7, <1>8 DEF IInv

LEMMA CommitRevokeInv ==
  ASSUME IInv, NEW p \in Proc, CommitRevoke(p)
  PROVE  IInv'
<1>1. tx[p].hits \in SUBSET Stored /\ \A s \in tx[p].hits : lock[s] = p
    BY DEF CommitRevoke, IInv, TxOK
<1> QED BY <1>1, RevokeInv DEF CommitRevoke

LEMMA SignOutInv ==
  ASSUME IInv, NEW p \in Proc, SignOut(p)
  PROVE  IInv'
<1> DEFINE t == tx[p].tok
<1>1. Finish(p) /\ t \in Stored /\ t \in Sid /\ lock[t] = p /\ sessions[t] = tx[p].copy
    BY DEF SignOut, IInv, TxOK, Stored
<1>2. CASE tx[p].copy.revoked = Null
  <2>1. sessions' = [s \in Sid |-> IF s \in {t} THEN [sessions[s] EXCEPT !.revoked = tx[p].now]
                                                ELSE sessions[s]]
      BY <1>1, <1>2 DEF SignOut, IInv, TypeOK
  <2> HIDE DEF t
  <2>2. {t} \in SUBSET Stored /\ \A s \in {t} : lock[s] = p
      BY <1>1
  <2> QED BY <1>1, <2>1, <2>2, RevokeInv
<1>3. CASE tx[p].copy.revoked # Null
    BY <1>1, <1>3, EndInv DEF SignOut
<1> QED BY <1>2, <1>3

LEMMA OpenRootInv ==
  ASSUME IInv, NEW p \in Proc, OpenRoot(p)
  PROVE  IInv'
<1>1. PICK s \in Fresh, created \in tx[p].now .. clock :
        sessions' = [sessions EXCEPT ![s] = OpenRootRow(s, created, tx[p].now + RefreshTTL)]
    BY DEF OpenRoot
<1> DEFINE row == OpenRootRow(s, created, tx[p].now + RefreshTTL)
<1>2. TypeOK /\ Finish(p) /\ tx[p].now \in Nat /\ created \in Nat /\ created <= clock
    BY DEF OpenRoot, IInv, TypeOK, Tx
<1>3. clock' = clock
    BY <1>2 DEF Finish
<1>4. s \in Sid /\ s \notin Stored
    BY DEF Fresh
<1>5. row \in Row /\ row.family = s /\ row.parent = Null /\ row.created = created
    BY <1>2, <1>4 DEF OpenRootRow, Row
<1>6. sessions'[s] = row /\ \A r \in Stored : sessions'[r] = sessions[r]
    BY <1>1, <1>2, <1>4 DEF TypeOK, Stored
<1>7. Stored' = Stored \cup {s}
    BY <1>1, <1>2, <1>4, <1>5 DEF Stored, TypeOK
<1> HIDE DEF row
<1>8. TypeOK'
    BY <1>1, <1>2, <1>5, FinishFacts DEF TypeOK, row
<1>9. TableInv'
  <2>1. RowsOK'
      BY <1>2, <1>3, <1>5, <1>6, <1>7 DEF IInv, TableInv, RowsOK
  <2>2. OneLeaf'
      BY <1>4, <1>5, <1>6, <1>7 DEF IInv, TableInv, RowsOK, OneLeaf, SameFamily
  <2>3. ChainLinks'
    <3>1. \A r \in Stored : ~IsChild(s, r)'
        BY <1>4, <1>5, <1>6, <1>7 DEF IsChild, Stored
    <3>2. \A c \in Stored' : ~IsChild(c, s)'
        BY <1>4, <1>5, <1>6, <1>7 DEF IInv, TableInv, RowsOK, IsChild, Stored
    <3>3. row.rotated = Null
        BY DEF row, OpenRootRow
    <3>4. \A c, r \in Stored : IsChild(c, r)' <=> IsChild(c, r)
        BY <1>6, <1>7 DEF IsChild
    <3> QED BY <1>6, <1>7, <3>1, <3>2, <3>3, <3>4 DEF IInv, TableInv, ChainLinks, SameFamily
  <2> QED BY <2>1, <2>2, <2>3 DEF TableInv
<1>10. \A q \in Proc : TxOK(q)'
    BY <1>2, <1>6, <1>7, FinishTx DEF IInv
<1> QED BY <1>8, <1>9, <1>10 DEF IInv

\* What a rotation writes: row t, which p has locked, and a fresh row c.
LEMMA RotateFacts ==
  ASSUME IInv, NEW p \in Proc, Rotate(p)
  PROVE  \E t \in Stored, c \in Fresh :
           /\ t = tx[p].tok /\ lock[t] = p
           /\ IsActive(sessions[t], tx[p].now)
           /\ Stored' = Stored \cup {c}
           /\ sessions' = [sessions EXCEPT
                 ![c] = RotateChild(t, sessions[t], tx[p].now),
                 ![t] = [sessions[t] EXCEPT !.rotated = tx[p].now]]
           /\ sessions' \in [Sid -> Row \cup {NoRow}]
           /\ sessions'[c] = RotateChild(t, sessions[t], tx[p].now)
           /\ sessions'[t] = [sessions[t] EXCEPT !.rotated = tx[p].now]
           /\ \A r \in Stored \ {t} : sessions'[r] = sessions[r]
           /\ tx[p].now \in Nat /\ tx[p].now <= clock
<1> DEFINE t == tx[p].tok
           now == tx[p].now
<1>1. /\ t \in Stored /\ lock[t] = p /\ sessions[t] = tx[p].copy
      /\ IsActive(sessions[t], now) /\ sessions[t].created <= now
      /\ now \in Nat /\ now <= clock
    BY DEF Rotate, IInv, TxOK, TypeOK, Tx
<1>2. PICK c \in Fresh :
        sessions' = [sessions EXCEPT
                       ![c] = RotateChild(t, sessions[t], now),
                       ![t] = [sessions[t] EXCEPT !.rotated = now]]
    BY <1>1 DEF Rotate
<1> HIDE DEF t, now
<1>3. t \in Sid /\ sessions[t] \in Row /\ c \in Sid /\ c \notin Stored /\ c # t
    BY <1>1, StoredRows DEF Fresh, IInv
<1>4. RotateChild(t, sessions[t], now) \in Row
    BY <1>1, <1>3 DEF RotateChild, Row, IsActive, IsExpired
<1>5. [sessions[t] EXCEPT !.rotated = now] \in Row
    BY <1>1, <1>3 DEF Row
<1>6. /\ sessions' \in [Sid -> Row \cup {NoRow}]
      /\ sessions'[c] = RotateChild(t, sessions[t], now)
      /\ sessions'[t] = [sessions[t] EXCEPT !.rotated = now]
      /\ \A r \in Sid \ {c, t} : sessions'[r] = sessions[r]
    BY <1>2, <1>3, <1>4, <1>5 DEF IInv, TypeOK
<1>7. Stored' = Stored \cup {c}
    BY <1>1, <1>3, <1>4, <1>5, <1>6 DEF Stored
<1>8. \A r \in Stored \ {t} : sessions'[r] = sessions[r]
    BY <1>3, <1>6 DEF Stored
<1> QED BY <1>1, <1>2, <1>6, <1>7, <1>8 DEF t, now

LEMMA RotateInv ==
  ASSUME IInv, NEW p \in Proc, Rotate(p)
  PROVE  IInv'
<1> DEFINE now == tx[p].now
<1>1. PICK t \in Stored, c \in Fresh :
           /\ t = tx[p].tok /\ lock[t] = p
           /\ IsActive(sessions[t], now)
           /\ Stored' = Stored \cup {c}
           /\ sessions' \in [Sid -> Row \cup {NoRow}]
           /\ sessions'[c] = RotateChild(t, sessions[t], now)
           /\ sessions'[t] = [sessions[t] EXCEPT !.rotated = now]
           /\ \A r \in Stored \ {t} : sessions'[r] = sessions[r]
           /\ now \in Nat /\ now <= clock
    BY RotateFacts
<1> HIDE DEF now
<1>2. TypeOK /\ Finish(p) /\ clock' = clock
    BY DEF Rotate, Finish, IInv
<1>3. c \in Sid /\ c \notin Stored /\ c # t /\ sessions[t] \in Row
    BY <1>1, <1>2, StoredRows DEF Fresh
<1>4. \* the child
      /\ sessions'[c].family = sessions[t].family /\ sessions'[c].parent = t
      /\ sessions'[c].created = now /\ sessions'[c].rotated = Null
      /\ sessions'[c].expires = now + (sessions[t].expires - sessions[t].created)
    BY <1>1 DEF RotateChild
<1>5. \* the presented session
      /\ sessions'[t].family = sessions[t].family /\ sessions'[t].parent = sessions[t].parent
      /\ sessions'[t].created = sessions[t].created /\ sessions'[t].rotated = now
      /\ sessions'[t].expires = sessions[t].expires /\ sessions'[t].revoked = sessions[t].revoked
    BY <1>1, <1>3 DEF Row
<1>6. sessions[t].rotated = Null /\ now < sessions[t].expires
    BY <1>1, <1>3 DEF IsActive, IsExpired, Row
<1>7. TypeOK'
    BY <1>1, <1>2, FinishFacts DEF TypeOK
<1>8. RowsOK'
    BY <1>1, <1>2, <1>4, <1>5 DEF IInv, TableInv, RowsOK
<1>9. OneLeaf'
  <2>1. \A r \in Stored : SameFamily(r, t) /\ sessions[r].rotated = Null => r = t
      BY <1>1, <1>6 DEF IInv, TableInv, OneLeaf
  <2>2. sessions'[t].rotated # Null
      BY <1>1, <1>5
  <2>3. \A r \in Stored' : sessions'[r].family = sessions[t].family /\ sessions'[r].rotated = Null
                             => r = c
      BY <1>1, <2>1, <2>2 DEF SameFamily
  <2>4. \A r \in Stored : sessions'[r].family = sessions[r].family
      BY <1>1, <1>5
  <2>5. \A r \in Stored : sessions'[r].rotated = Null => sessions[r].rotated = Null
      BY <1>1, <2>2
  <2> SUFFICES ASSUME NEW r \in Stored', NEW s \in Stored', SameFamily(r, s)',
                      sessions'[r].rotated = Null, sessions'[s].rotated = Null
               PROVE  r = s
      BY DEF OneLeaf
  <2>6. CASE r \in Stored /\ s \in Stored
      BY <2>4, <2>5, <2>6 DEF IInv, TableInv, OneLeaf, SameFamily
  <2>7. CASE r = c \/ s = c
      BY <1>4, <2>3, <2>7 DEF SameFamily
  <2> QED BY <1>1, <2>6, <2>7
<1>10. ChainLinks'
  <2>1. \A d \in Stored : ~IsChild(d, t)
      BY <1>1, <1>2, <1>6, StoredRows DEF IInv, TableInv, ChainLinks, Row
  <2>2. \A d \in Stored, r \in Sid : IsChild(d, r)' <=> IsChild(d, r)
      BY <1>1, <1>5 DEF IsChild
  <2>3. \A r \in Sid : IsChild(c, r)' <=> r = t
      BY <1>1, <1>4 DEF IsChild
  <2>4. \A d \in Stored' : ~IsChild(d, c)'
      BY <1>1, <1>3, <1>4, <1>5, <2>2, <2>3 DEF IInv, TableInv, RowsOK, IsChild, Stored
  <2> SUFFICES ASSUME NEW r \in Stored'
               PROVE  (/\ sessions[r].rotated # Null => \E d \in Stored : IsChild(d, r)
                       /\ \A d, e \in Stored : IsChild(d, r) /\ IsChild(e, r) => d = e
                       /\ \A d \in Stored : IsChild(d, r) =>
                            /\ SameFamily(d, r)
                            /\ sessions[d].created = sessions[r].rotated
                            /\ sessions[d].created < sessions[r].expires
                            /\ sessions[d].expires - sessions[d].created
                                 = sessions[r].expires - sessions[r].created)'
      BY DEF ChainLinks
  <2>5. CASE r = c
      BY <1>4, <2>4, <2>5
  <2>6. CASE r = t
    <3>1. \A d \in Stored' : IsChild(d, r)' <=> d = c
        BY <1>1, <1>3, <2>1, <2>2, <2>3, <2>6 DEF Stored
    <3>2. sessions'[c].expires - sessions'[c].created = sessions'[r].expires - sessions'[r].created
        BY <1>1, <1>3, <1>4, <1>5, <2>6 DEF Row
    <3> QED BY <1>1, <1>4, <1>5, <1>6, <2>6, <3>1, <3>2 DEF SameFamily
  <2>7. CASE r \in Stored /\ r # t
    <3>1. \A d \in Stored' : IsChild(d, r)' <=> d \in Stored /\ IsChild(d, r)
        BY <1>1, <2>2, <2>3, <2>7 DEF Stored
    <3>2. \A d \in Stored : IsChild(d, r) =>
             /\ sessions'[d].family = sessions[d].family
             /\ sessions'[d].created = sessions[d].created
             /\ sessions'[d].expires = sessions[d].expires
        BY <1>1, <1>5
    <3>3. sessions'[r] = sessions[r]
        BY <1>1, <2>7
    <3> QED BY <1>1, <2>7, <3>1, <3>2, <3>3 DEF IInv, TableInv, ChainLinks, SameFamily
  <2> QED BY <1>1, <2>5, <2>6, <2>7
<1>11. \A q \in Proc : TxOK(q)'
  <2>1. \A s \in Stored : sessions'[s] = sessions[s] \/ lock[s] = p
      BY <1>1
  <2>2. \A s \in Stored : sessions[s].revoked # Null => sessions'[s].revoked # Null
      BY <1>1, <1>5
  <2>3. Stored \subseteq Stored' /\ \A s \in Stored : sessions'[s].family = sessions[s].family
      BY <1>1, <1>5
  <2> QED BY <1>2, <2>1, <2>2, <2>3, FinishTx DEF IInv
<1> QED BY <1>7, <1>8, <1>9, <1>10, <1>11 DEF IInv, TableInv

-------------------------------------------------------------------------------
(* The invariant, and what it implies. *)

LEMMA StepInv == IInv /\ [Next]_vars => IInv'
<1> SUFFICES ASSUME IInv, [Next]_vars PROVE IInv'
    OBVIOUS
<1>1. CASE UNCHANGED vars
  <2>1. Stored' = Stored /\ clock' = clock /\ clock \in Nat
      BY <1>1 DEF vars, Stored, IInv, TypeOK
  <2>2. TypeOK'
      BY <1>1 DEF vars, IInv, TypeOK
  <2>3. TableInv'
      BY <1>1, <2>1, TableFrame DEF vars, IInv
  <2>4. \A q \in Proc : TxOK(q)'
      BY <1>1, <2>1, TxFrame DEF vars, IInv
  <2> QED BY <2>2, <2>3, <2>4 DEF IInv
<1>2. CASE Tick
    BY <1>2, TickInv
<1>3. ASSUME NEW p \in Proc, SignIn(p) PROVE IInv'
    BY <1>3, SignInInv
<1>4. ASSUME NEW p \in Proc, NEW op \in {"rotate", "signOut"}, NEW t \in Sid, Present(p, op, t)
      PROVE  IInv'
    BY <1>4, PresentInv
<1>5. ASSUME NEW p \in Proc, Acquire(p) PROVE IInv'
    BY <1>5, AcquireInv
<1>6. ASSUME NEW p \in Proc, Work(p) PROVE IInv'
  <2>1. CASE OpenRoot(p)
      BY <2>1, OpenRootInv
  <2>2. CASE OutOfIds(p)
      BY <2>2, EndInv DEF OutOfIds, Fail
  <2>3. CASE Rotate(p)
      BY <2>3, RotateInv
  <2>4. CASE RejectRevoked(p) \/ RejectExpired(p)
      BY <2>4, EndInv DEF RejectRevoked, RejectExpired
  <2>5. CASE ReuseDetected(p)
      BY <2>5, ReuseDetectedInv
  <2>6. CASE SignOut(p)
      BY <2>6, SignOutInv
  <2>7. ASSUME NEW s \in Sid, AwaitRow(p, s) PROVE IInv'
      BY <2>7, AwaitRowInv
  <2>8. CASE CommitRevoke(p)
      BY <2>8, CommitRevokeInv
  <2> QED BY <1>6, <2>1, <2>2, <2>3, <2>4, <2>5, <2>6, <2>7, <2>8 DEF Work
<1>7. ASSUME NEW p \in Proc, NEW s \in Sid, RevokeRow(p, s) PROVE IInv'
    BY <1>7, RevokeRowInv
<1>8. ASSUME NEW p \in Proc, Fail(p) \/ DeadlockVictim(p) PROVE IInv'
    BY <1>8, EndInv DEF Fail, DeadlockVictim
<1> QED BY <1>1, <1>2, <1>3, <1>4, <1>5, <1>6, <1>7, <1>8 DEF Next

\* Every reachable state satisfies the inductive invariant.
THEOREM Invariant == Spec => []IInv
<1> QED BY InitInv, StepInv, PTL DEF Spec

\* The types hold; that a deadline is a natural number rests on a rotation
\* happening after its parent was created and before it expired.
THEOREM TypeCorrect == Spec => []TypeOK
<1>1. IInv => TypeOK
    BY DEF IInv
<1> QED BY <1>1, Invariant, PTL

\* The row lock of the lookup keeps the loaded entity current until the
\* commit, whatever the other requests do.
THEOREM LockedCopy == Spec => []LockedCopyIsCurrent
<1>1. IInv => LockedCopyIsCurrent
    BY DEF IInv, TxOK, LockedCopyIsCurrent
<1> QED BY <1>1, Invariant, PTL

\* No two un-rotated sessions in a family: concurrent rotations of a token
\* have one winner, and a chain never forks.
THEOREM NoFork == Spec => []OneLeaf
<1>1. IInv => OneLeaf
    BY DEF IInv, TableInv
<1> QED BY <1>1, Invariant, PTL

\* A rotated session has exactly one child, which inherits its family and
\* the length of its window.
THEOREM Chains == Spec => []ChainLinks
<1>1. IInv => ChainLinks
    BY DEF IInv, TableInv
<1> QED BY <1>1, Invariant, PTL

-------------------------------------------------------------------------------
(* Action properties. *)

\* The steps that write the table; every other step leaves it as it is.
LEMMA TableWriters ==
  ASSUME [Next]_vars
  PROVE  \/ sessions' = sessions
         \/ \E p \in Proc : OpenRoot(p) \/ Rotate(p) \/ CommitRevoke(p) \/ SignOut(p)
BY DEF Next, vars, Tick, SignIn, Present, Acquire, Work, OutOfIds, RejectRevoked,
       RejectExpired, ReuseDetected, AwaitRow, RevokeRow, Fail, DeadlockVictim

\* A revoking step writes one column, of un-revoked rows of one family.
LEMMA RevokingStep ==
  ASSUME IInv, NEW p \in Proc, CommitRevoke(p) \/ SignOut(p)
  PROVE  \E S \in SUBSET Stored :
           /\ \A s \in S : sessions[s].revoked = Null /\ SameFamily(s, tx[p].tok)
           /\ \A s \in Stored \ S : sessions'[s] = sessions[s]
           /\ \A s \in S : /\ sessions'[s].family = sessions[s].family
                          /\ sessions'[s].rotated = sessions[s].rotated
                          /\ sessions'[s].revoked # Null
           /\ Stored' = Stored /\ tx[p].tok \in Stored
<1>1. tx[p].now \in Nat /\ tx[p].tok \in Stored
    BY DEF CommitRevoke, SignOut, IInv, TypeOK, Tx, TxOK
<1>2. \A s \in Stored :
        LET row == [sessions[s] EXCEPT !.revoked = tx[p].now]
        IN  /\ s \in Sid /\ row # NoRow /\ row.family = sessions[s].family
            /\ row.rotated = sessions[s].rotated /\ row.revoked # Null
    BY <1>1, StoredRows DEF IInv, Row
<1>3. CASE CommitRevoke(p)
  <2> DEFINE S == tx[p].hits
  <2>1. \A s \in S : s \in tx[p].snap
      BY <1>3 DEF CommitRevoke, IInv, TxOK
  <2>2. S \subseteq Stored /\ \A s \in S : sessions[s].revoked = Null /\ SameFamily(s, tx[p].tok)
      BY <1>3, <2>1 DEF CommitRevoke, IInv, TxOK
  <2>3. \A s \in Sid : sessions'[s] = IF s \in S THEN [sessions[s] EXCEPT !.revoked = tx[p].now]
                                                ELSE sessions[s]
      BY <1>3 DEF CommitRevoke
  <2> HIDE DEF S
  <2>4. Stored' = Stored
    <3>1. \A s \in Sid : s \in S => s \in Stored /\ sessions'[s] # NoRow
        BY <1>2, <2>2, <2>3
    <3>2. \A s \in Sid : s \notin S => sessions'[s] = sessions[s]
        BY <2>3
    <3> QED BY <3>1, <3>2 DEF Stored
  <2> QED BY <1>1, <1>2, <2>2, <2>3, <2>4
<1>4. CASE SignOut(p)
  <2> DEFINE S == {s \in {tx[p].tok} : sessions[s].revoked = Null}
  <2>1. sessions[tx[p].tok] = tx[p].copy
      BY <1>4 DEF SignOut, IInv, TxOK
  <2>2. S \subseteq Stored /\ \A s \in S : sessions[s].revoked = Null /\ SameFamily(s, tx[p].tok)
      BY <1>1 DEF SameFamily
  <2>3. \A s \in Sid : sessions'[s] = IF s \in S THEN [sessions[s] EXCEPT !.revoked = tx[p].now]
                                                ELSE sessions[s]
      BY <1>1, <1>2, <1>4, <2>1 DEF SignOut, IInv, TypeOK
  <2> HIDE DEF S
  <2>4. Stored' = Stored
    <3>1. \A s \in Sid : s \in S => s \in Stored /\ sessions'[s] # NoRow
        BY <1>2, <2>2, <2>3
    <3>2. \A s \in Sid : s \notin S => sessions'[s] = sessions[s]
        BY <2>3
    <3> QED BY <3>1, <3>2 DEF Stored
  <2> QED BY <1>1, <1>2, <2>2, <2>3, <2>4
<1> QED BY <1>3, <1>4

\* An opening step adds one row, of a family of its own.
LEMMA OpeningStep ==
  ASSUME IInv, NEW p \in Proc, OpenRoot(p)
  PROVE  \E s \in Fresh :
           /\ Stored' = Stored \cup {s}
           /\ \A r \in Stored : sessions'[r] = sessions[r] /\ sessions[r].family # s
           /\ sessions'[s].family = s /\ sessions'[s].rotated = Null
           /\ sessions'[s].revoked = Null
<1>1. PICK s \in Fresh, created \in tx[p].now .. clock :
        sessions' = [sessions EXCEPT ![s] = OpenRootRow(s, created, tx[p].now + RefreshTTL)]
    BY DEF OpenRoot
<1> DEFINE row == OpenRootRow(s, created, tx[p].now + RefreshTTL)
<1>2. s \in Sid /\ s \notin Stored /\ TypeOK /\ tx[p].now \in Nat /\ created \in Nat
    BY DEF Fresh, IInv, TypeOK, Tx
<1>3. row \in Row /\ row.family = s /\ row.rotated = Null /\ row.revoked = Null
    BY <1>2 DEF OpenRootRow, Row
<1> HIDE DEF row
<1>4. sessions'[s] = row /\ \A r \in Stored : sessions'[r] = sessions[r]
    BY <1>1, <1>2 DEF TypeOK, Stored, row
<1>5. Stored' = Stored \cup {s}
    BY <1>1, <1>2, <1>3, <1>4 DEF Stored, TypeOK, row
<1>6. \A r \in Stored : sessions[r].family # s
    BY <1>2 DEF IInv, TableInv, RowsOK
<1> QED BY <1>3, <1>4, <1>5, <1>6

\* A rotating step spends the presented session and adds its child, live.
LEMMA RotatingStep ==
  ASSUME IInv, NEW p \in Proc, Rotate(p)
  PROVE  \E t \in Stored, c \in Fresh :
           /\ Live(t) /\ c # t
           /\ Stored' = Stored \cup {c}
           /\ \A r \in Stored \ {t} : sessions'[r] = sessions[r]
           /\ sessions'[c].family = sessions[t].family /\ sessions'[c].rotated = Null
           /\ sessions'[c].revoked = Null
           /\ sessions'[t].family = sessions[t].family /\ sessions'[t].rotated # Null
           /\ sessions'[t].revoked = sessions[t].revoked
<1>1. PICK t \in Stored, c \in Fresh :
        /\ IsActive(sessions[t], tx[p].now)
        /\ Stored' = Stored \cup {c}
        /\ sessions'[c] = RotateChild(t, sessions[t], tx[p].now)
        /\ sessions'[t] = [sessions[t] EXCEPT !.rotated = tx[p].now]
        /\ \A r \in Stored \ {t} : sessions'[r] = sessions[r]
        /\ tx[p].now \in Nat
    BY RotateFacts
<1>2. sessions[t] \in Row /\ c # t
    BY StoredRows DEF IInv, Fresh
<1>3. Live(t)
    BY <1>1 DEF IsActive, Live
<1>4. /\ sessions'[c].family = sessions[t].family /\ sessions'[c].rotated = Null
      /\ sessions'[c].revoked = Null
    BY <1>1 DEF RotateChild
<1>5. /\ sessions'[t].family = sessions[t].family /\ sessions'[t].rotated # Null
      /\ sessions'[t].revoked = sessions[t].revoked
    BY <1>1, <1>2 DEF Row
<1> QED BY <1>1, <1>2, <1>3, <1>4, <1>5

LEMMA KeepsStampsStep == IInv /\ [Next]_vars => KeepsStamps
<1> SUFFICES ASSUME IInv, [Next]_vars PROVE KeepsStamps
    OBVIOUS
<1>1. CASE sessions' = sessions
    BY <1>1 DEF KeepsStamps
<1>2. ASSUME NEW p \in Proc, OpenRoot(p) PROVE KeepsStamps
    BY <1>2, OpeningStep DEF KeepsStamps
<1>3. ASSUME NEW p \in Proc, Rotate(p) PROVE KeepsStamps
    BY <1>3, RotatingStep DEF KeepsStamps, Live
<1>4. ASSUME NEW p \in Proc, CommitRevoke(p) \/ SignOut(p) PROVE KeepsStamps
  <2>1. PICK S \in SUBSET Stored :
           /\ \A s \in S : sessions[s].revoked = Null
           /\ \A s \in Stored \ S : sessions'[s] = sessions[s]
           /\ \A s \in S : sessions'[s].rotated = sessions[s].rotated
      BY <1>4, RevokingStep
  <2> QED BY <2>1 DEF KeepsStamps
<1> QED BY <1>1, <1>2, <1>3, <1>4, TableWriters

\* No stamp is ever taken back or moved.
THEOREM StampsAreFinal == Spec => StampsStick
<1>1. IInv /\ [Next]_vars => [KeepsStamps]_vars
    BY KeepsStampsStep
<1> QED BY <1>1, Invariant, PTL DEF Spec, StampsStick

LEMMA DeadStep ==
  ASSUME IInv, [Next]_vars, NEW r \in Stored, Dead(r)
  PROVE  Dead(r)'
<1>1. CASE sessions' = sessions
    BY <1>1 DEF Dead, Stored, SameFamily, Live
<1>2. ASSUME NEW p \in Proc, OpenRoot(p) PROVE Dead(r)'
    BY <1>2, OpeningStep DEF Dead, SameFamily, Live
<1>3. ASSUME NEW p \in Proc, Rotate(p) PROVE Dead(r)'
  <2>1. PICK t \in Stored, c \in Fresh :
           /\ Live(t) /\ c # t
           /\ Stored' = Stored \cup {c}
           /\ \A s \in Stored \ {t} : sessions'[s] = sessions[s]
           /\ sessions'[c].family = sessions[t].family
           /\ sessions'[t].family = sessions[t].family /\ sessions'[t].rotated # Null
      BY <1>3, RotatingStep
  <2>2. sessions[r].family # sessions[t].family
      BY <2>1 DEF Dead, SameFamily
  <2> QED BY <2>1, <2>2 DEF Dead, SameFamily, Live
<1>4. ASSUME NEW p \in Proc, CommitRevoke(p) \/ SignOut(p) PROVE Dead(r)'
  <2>1. PICK S \in SUBSET Stored :
           /\ \A s \in Stored \ S : sessions'[s] = sessions[s]
           /\ \A s \in S : /\ sessions'[s].family = sessions[s].family
                          /\ sessions'[s].revoked # Null
           /\ Stored' = Stored
      BY <1>4, RevokingStep
  <2> QED BY <2>1 DEF Dead, SameFamily, Live
<1> QED BY <1>1, <1>2, <1>3, <1>4, TableWriters

\* A family that is dead is dead for good: no rotation in flight can bring a
\* live session back to it.
THEOREM DeathIsFinal == Spec => DeadStaysDead
<1>1. IInv /\ [Next]_vars => [\A r \in Stored : Dead(r) => Dead(r)']_vars
    BY DeadStep
<1> QED BY <1>1, Invariant, PTL DEF Spec, DeadStaysDead

LEMMA RevokesSnapshotStep == IInv /\ [Next]_vars => \A p \in Proc : RevokesSnapshot(p)
<1> SUFFICES ASSUME IInv, NEW p \in Proc, CommitRevoke(p),
                    NEW s \in tx[p].snap \cup {tx[p].tok}
             PROVE  sessions'[s].revoked # Null
    BY DEF RevokesSnapshot
<1>1. /\ s \in Stored /\ tx[p].now \in Nat
      /\ s \in tx[p].hits \/ sessions[s].revoked # Null
    BY DEF CommitRevoke, IInv, TypeOK, Tx, TxOK
<1>2. s \in Sid /\ sessions[s] \in Row
    BY <1>1, StoredRows DEF IInv
<1>3. sessions'[s] = IF s \in tx[p].hits THEN [sessions[s] EXCEPT !.revoked = tx[p].now]
                                         ELSE sessions[s]
    BY <1>2 DEF CommitRevoke
<1> QED BY <1>1, <1>2, <1>3 DEF Row

\* A reuse detection revokes every row its UPDATE saw, and the presented one.
THEOREM ReuseRevokes == Spec => SnapshotRevoked
<1>1. IInv /\ [Next]_vars => [\A p \in Proc : RevokesSnapshot(p)]_vars
    BY RevokesSnapshotStep
<1> QED BY <1>1, Invariant, PTL DEF Spec, SnapshotRevoked

\* A SESSION_REVOKED answer leaves no live session of the family behind.
THEOREM RevokedAnswerIsSafe == Spec => RevokedAnswerMeansDeadFamily
<1>1. ASSUME IInv, NEW p \in Proc, RejectRevoked(p) PROVE Dead(tx[p].tok)
  <2>1. /\ tx[p].tok \in Stored /\ sessions[tx[p].tok].rotated = Null
        /\ sessions[tx[p].tok].revoked # Null
      BY <1>1 DEF RejectRevoked, IInv, TxOK
  <2> SUFFICES ASSUME NEW s \in Stored, SameFamily(tx[p].tok, s), Live(s) PROVE FALSE
      BY DEF Dead
  <2>2. s = tx[p].tok
      BY <1>1, <2>1 DEF IInv, TableInv, OneLeaf, Live
  <2> QED BY <2>1, <2>2 DEF Live
<1>2. IInv /\ [Next]_vars => [\A p \in Proc : RejectRevoked(p) => Dead(tx[p].tok)]_vars
    BY <1>1
<1> QED BY <1>2, Invariant, PTL DEF Spec, RevokedAnswerMeansDeadFamily
-------------------------------------------------------------------------------
(* Who waits for whom. *)

\* A transaction that holds a lock is past its lookup and holds rows of one
\* family; the row it waits for is of that family too, and not one it holds.
LockOK(p) ==
  /\ \A s \in Sid : lock[s] = p =>
       /\ tx[p].pc \in {"locked", "revoke"}
       /\ s \in Stored /\ SameFamily(s, tx[p].tok)
  /\ tx[p].waits # Null =>
       /\ tx[p].pc \in {"lookup", "revoke"}
       /\ tx[p].waits \in Stored /\ SameFamily(tx[p].waits, tx[p].tok)
       /\ lock[tx[p].waits] # p

LockInv == \A p \in Proc : LockOK(p)

\* A stored session stays stored and in its family.
LEMMA FamilyStays ==
  ASSUME IInv, [Next]_vars
  PROVE  \A s \in Stored : s \in Stored' /\ sessions'[s].family = sessions[s].family
<1>1. CASE sessions' = sessions
    BY <1>1 DEF Stored
<1>2. ASSUME NEW p \in Proc, OpenRoot(p)
      PROVE  \A s \in Stored : s \in Stored' /\ sessions'[s].family = sessions[s].family
    BY <1>2, OpeningStep
<1>3. ASSUME NEW p \in Proc, Rotate(p)
      PROVE  \A s \in Stored : s \in Stored' /\ sessions'[s].family = sessions[s].family
    BY <1>3, RotatingStep
<1>4. ASSUME NEW p \in Proc, CommitRevoke(p) \/ SignOut(p)
      PROVE  \A s \in Stored : s \in Stored' /\ sessions'[s].family = sessions[s].family
  <2>1. PICK S \in SUBSET Stored :
           /\ \A s \in Stored \ S : sessions'[s] = sessions[s]
           /\ \A s \in S : sessions'[s].family = sessions[s].family
           /\ Stored' = Stored
      BY <1>4, RevokingStep
  <2> QED BY <2>1
<1> QED BY <1>1, <1>2, <1>3, <1>4, TableWriters

\* The locks of a transaction that stays as it is, when others may at most
\* drop locks of their own or take free ones.
LEMMA LockFrame ==
  ASSUME IInv, NEW q \in Proc, LockOK(q), tx'[q] = tx[q],
         \A s \in Stored : s \in Stored' /\ sessions'[s].family = sessions[s].family,
         \A s \in Sid : lock'[s] = q => lock[s] = q
  PROVE  LockOK(q)'
<1>1. tx[q].pc \in {"locked", "revoke"} => tx[q].tok \in Stored
    BY DEF IInv, TxOK
<1>2. tx[q].pc \in {"lookup", "revoke"} => tx[q].tok \in Stored
    BY DEF IInv, TxOK
<1>3. \A s \in Stored : s \in Sid
    BY DEF Stored
<1> QED BY <1>1, <1>2, <1>3 DEF LockOK, SameFamily

\* A step of p that leaves no lock to p and ends its request.
LEMMA FinishLocks ==
  ASSUME IInv, LockInv, NEW p \in Proc, Finish(p),
         \A s \in Stored : s \in Stored' /\ sessions'[s].family = sessions[s].family
  PROVE  LockInv'
<1>1. tx'[p] = Idle /\ \A q \in Proc : q # p => tx'[q] = tx[q]
    BY FinishFacts DEF IInv
<1>2. \A q \in Proc, s \in Sid : lock'[s] = q => lock[s] = q /\ q # p
    BY DEF Finish
<1>3. LockOK(p)'
    BY <1>1, <1>2 DEF LockOK, Idle
<1>4. \A q \in Proc \ {p} : LockOK(q)'
    BY <1>1, <1>2, LockFrame DEF LockInv
<1> QED BY <1>3, <1>4 DEF LockInv

LEMMA LockInit == Init => LockInv
BY DEF Init, LockInv, LockOK, Idle

LEMMA LockStep == IInv /\ LockInv /\ [Next]_vars => LockInv'
<1> SUFFICES ASSUME IInv, LockInv, [Next]_vars PROVE LockInv'
    OBVIOUS
<1>1. \A s \in Stored : s \in Stored' /\ sessions'[s].family = sessions[s].family
    BY FamilyStays
<1>2. tx \in [Proc -> Tx] /\ lock \in [Sid -> Proc \cup {Null}]
    BY DEF IInv, TypeOK
<1>3. CASE UNCHANGED vars \/ Tick
  <2>1. tx' = tx /\ lock' = lock
      BY <1>3 DEF vars, Tick
  <2> QED BY <1>1, <2>1, LockFrame DEF LockInv
<1>4. ASSUME NEW p \in Proc, Finish(p) PROVE LockInv'
    BY <1>1, <1>4, FinishLocks
<1>5. ASSUME NEW p \in Proc,
             tx[p].pc = "idle", lock' = lock, sessions' = sessions, NEW t \in Tx,
             tx' = [tx EXCEPT ![p] = t],
             t.waits # Null => t.pc = "lookup" /\ t.waits \in Stored /\ t.tok = t.waits
      PROVE  LockInv'
  <2>1. tx'[p] = t /\ \A q \in Proc : q # p => tx'[q] = tx[q]
      BY <1>2, <1>5
  <2>2. \A s \in Sid : lock[s] # p
      BY <1>5 DEF LockInv, LockOK
  <2>3. LockOK(p)'
      BY <1>1, <1>5, <2>1, <2>2 DEF LockOK, SameFamily, Stored
  <2> QED BY <1>1, <1>5, <2>1, <2>3, LockFrame DEF LockInv
<1>6. ASSUME NEW p \in Proc, SignIn(p) PROVE LockInv'
  <2> DEFINE t == [Idle EXCEPT !.pc = "signIn", !.op = "signIn", !.now = clock]
  <2>1. t \in Tx /\ t.waits = Null
      BY DEF Idle, Tx, IInv, TypeOK
  <2>2. /\ tx[p].pc = "idle" /\ lock' = lock /\ sessions' = sessions
        /\ tx' = [tx EXCEPT ![p] = t]
      BY <1>6 DEF SignIn
  <2> HIDE DEF t
  <2> QED BY <1>5, <2>1, <2>2
<1>7. ASSUME NEW p \in Proc, NEW op \in {"rotate", "signOut"}, NEW s \in Sid, Present(p, op, s)
      PROVE  LockInv'
  <2> DEFINE t == [Idle EXCEPT !.pc = "lookup", !.op = op, !.tok = s, !.waits = s]
  <2>1. t \in Tx /\ t.pc = "lookup" /\ t.tok = s /\ t.waits = s
      BY DEF Idle, Tx
  <2>2. /\ tx[p].pc = "idle" /\ lock' = lock /\ sessions' = sessions
        /\ tx' = [tx EXCEPT ![p] = t] /\ s \in Stored
      BY <1>7 DEF Present
  <2> HIDE DEF t
  <2> QED BY <1>5, <2>1, <2>2
<1>8. ASSUME NEW p \in Proc, Acquire(p) PROVE LockInv'
  <2> DEFINE t == [tx[p] EXCEPT !.pc = "locked", !.waits = Null, !.now = clock,
                                !.copy = sessions[tx[p].tok]]
  <2>1. tx[p] \in Tx /\ tx[p].pc = "lookup" /\ tx[p].tok \in Stored /\ tx[p].tok \in Sid
      BY <1>2, <1>8 DEF Acquire, IInv, TxOK, Stored
  <2>2. t.pc = "locked" /\ t.waits = Null /\ t.tok = tx[p].tok
      BY <2>1 DEF Tx
  <2>3. /\ tx' = [tx EXCEPT ![p] = t] /\ lock' = [lock EXCEPT ![tx[p].tok] = p]
        /\ sessions' = sessions
      BY <1>8 DEF Acquire
  <2> HIDE DEF t
  <2>4. tx'[p] = t /\ \A q \in Proc : q # p => tx'[q] = tx[q]
      BY <1>2, <2>3
  <2>5. \A s \in Sid : lock'[s] = IF s = tx[p].tok THEN p ELSE lock[s]
      BY <1>2, <2>1, <2>3
  <2>6. \A s \in Sid : lock[s] # p
      BY <2>1 DEF LockInv, LockOK
  <2>7. LockOK(p)'
      BY <1>1, <2>1, <2>2, <2>4, <2>5, <2>6 DEF LockOK, SameFamily
  <2>8. \A q \in Proc \ {p} : LockOK(q)'
      BY <1>1, <2>4, <2>5, LockFrame DEF LockInv
  <2> QED BY <2>7, <2>8 DEF LockInv
<1>9. ASSUME NEW p \in Proc, ReuseDetected(p) PROVE LockInv'
  <2>1. /\ tx'[p].pc = "revoke" /\ tx'[p].waits = tx[p].waits /\ tx'[p].tok = tx[p].tok
        /\ \A q \in Proc : q # p => tx'[q] = tx[q]
        /\ lock' = lock /\ sessions' = sessions /\ tx[p].pc = "locked"
      BY <1>2, <1>9 DEF ReuseDetected, Tx
  <2>2. tx[p].waits = Null
      BY <2>1 DEF LockInv, LockOK
  <2>3. LockOK(p)'
      BY <2>1, <2>2 DEF LockInv, LockOK, SameFamily, Stored
  <2>4. \A q \in Proc \ {p} : LockOK(q)'
      BY <1>1, <2>1, LockFrame DEF LockInv
  <2> QED BY <2>3, <2>4 DEF LockInv
<1>10. ASSUME NEW p \in Proc, NEW s \in Sid, RevokeRow(p, s) PROVE LockInv'
  <2>1. tx[p] \in Tx /\ tx[p].pc = "revoke" /\ s \in Stored /\ SameFamily(s, tx[p].tok)
      BY <1>2, <1>10 DEF RevokeRow, IInv, TxOK
  <2>2. /\ tx'[p].pc = "revoke" /\ tx'[p].waits = Null /\ tx'[p].tok = tx[p].tok
        /\ \A q \in Proc : q # p => tx'[q] = tx[q]
      BY <1>2, <1>10, <2>1 DEF RevokeRow, Tx
  <2>3. /\ \A r \in Sid : lock'[r] = IF r = s THEN p ELSE lock[r]
        /\ sessions' = sessions
      BY <1>2, <1>10 DEF RevokeRow
  <2>4. LockOK(p)'
      BY <2>1, <2>2, <2>3 DEF LockInv, LockOK, SameFamily, Stored
  <2>5. \A q \in Proc \ {p} : LockOK(q)'
      BY <1>1, <2>2, <2>3, LockFrame DEF LockInv
  <2> QED BY <2>4, <2>5 DEF LockInv
<1>11. ASSUME NEW p \in Proc, NEW s \in Sid, AwaitRow(p, s) PROVE LockInv'
  <2>1. /\ tx[p] \in Tx /\ tx[p].pc = "revoke" /\ s \in Stored /\ SameFamily(s, tx[p].tok)
        /\ lock[s] # p
      BY <1>2, <1>11 DEF AwaitRow, IInv, TxOK
  <2>2. /\ tx'[p].pc = "revoke" /\ tx'[p].waits = s /\ tx'[p].tok = tx[p].tok
        /\ \A q \in Proc : q # p => tx'[q] = tx[q]
        /\ lock' = lock /\ sessions' = sessions
      BY <1>2, <1>11, <2>1 DEF AwaitRow, Tx
  <2>3. LockOK(p)'
      BY <2>1, <2>2 DEF LockInv, LockOK, SameFamily, Stored
  <2>4. \A q \in Proc \ {p} : LockOK(q)'
      BY <1>1, <2>2, LockFrame DEF LockInv
  <2> QED BY <2>3, <2>4 DEF LockInv
<1> QED BY <1>3, <1>4, <1>6, <1>7, <1>8, <1>9, <1>10, <1>11
        DEF Next, Work, OpenRoot, OutOfIds, Rotate, RejectRevoked, RejectExpired, SignOut,
            CommitRevoke, Fail, DeadlockVictim

\* Which locks a transaction can hold, and which it can wait for.
THEOREM LockDiscipline == Spec => []LockInv
<1> QED BY LockInit, LockStep, Invariant, PTL DEF Spec

\* Where a session row is what a request waits for, it waits for a request of
\* its own family.
THEOREM RowWaitsWithinFamily == Spec => []RowWaitsStayInFamily
<1>1. IInv /\ LockInv => RowWaitsStayInFamily
  <2> SUFFICES ASSUME IInv, LockInv, NEW p \in Proc, NEW q \in Proc,
                      tx[p].waits # Null, lock[tx[p].waits] = q
               PROVE  SameFamily(tx[p].tok, tx[q].tok)
      BY DEF RowWaitsStayInFamily
  <2>1. tx[p].waits \in Sid /\ SameFamily(tx[p].waits, tx[p].tok)
      BY DEF LockInv, LockOK, Stored
  <2>2. SameFamily(tx[p].waits, tx[q].tok)
      BY <2>1 DEF LockInv, LockOK
  <2> QED BY <2>1, <2>2 DEF SameFamily
<1> QED BY <1>1, Invariant, LockDiscipline, PTL

\* Only reuse detections deadlock, and only with one of the same family: when
\* the store aborts one, another transaction at that moment goes on killing it.
THEOREM OnlyKillsDeadlock == Spec => []DeadlocksAreAmongKills
<1>1. IInv /\ LockInv => DeadlocksAreAmongKills
  <2> SUFFICES ASSUME IInv, LockInv, NEW p \in Proc, NEW Q \in SUBSET Proc, p \in Q,
                      \A q \in Q : tx[q].waits # Null,
                      {lock[tx[q].waits] : q \in Q} = Q
               PROVE  /\ tx[p].pc = "revoke"
                      /\ \E q \in Proc \ {p} : /\ tx[q].pc = "revoke"
                                                /\ SameFamily(tx[p].tok, tx[q].tok)
      BY DEF DeadlocksAreAmongKills, OnWaitCycle
  <2>1. \A q \in Q : tx[q].pc = "revoke"
    <3> SUFFICES ASSUME NEW q \in Q PROVE tx[q].pc = "revoke"
        OBVIOUS
    <3>1. PICK r \in Q : q = lock[tx[r].waits]
        OBVIOUS
    <3>2. tx[r].waits \in Sid
        BY DEF LockInv, LockOK, Stored
    <3> QED BY <3>1, <3>2 DEF LockInv, LockOK
  <2> DEFINE q == lock[tx[p].waits]
  <2>2. q \in Q /\ q # p
      BY DEF LockInv, LockOK
  <2>3. tx[p].waits \in Sid /\ SameFamily(tx[p].waits, tx[p].tok)
      BY DEF LockInv, LockOK, Stored
  <2>4. SameFamily(tx[p].waits, tx[q].tok)
      BY <2>2, <2>3 DEF LockInv, LockOK
  <2> QED BY <2>1, <2>2, <2>3, <2>4 DEF SameFamily
<1> QED BY <1>1, Invariant, LockDiscipline, PTL

-------------------------------------------------------------------------------
(* Transactions that do not overlap. *)

\* The snapshot of a family kill has every session of the family, or finds it
\* revoked.
KillsAreComplete ==
  \A p \in Proc : tx[p].pc = "revoke" =>
    \A s \in Stored : SameFamily(s, tx[p].tok) => s \in tx[p].snap \/ sessions[s].revoked # Null

LEMMA KillsInit == Init => KillsAreComplete
<1> SUFFICES ASSUME Init, NEW p \in Proc PROVE tx[p].pc # "revoke"
    BY DEF KillsAreComplete
<1> QED BY DEF Init, Idle

LEMMA KillsStep ==
  ASSUME \A p, q \in Proc : p = q, IInv, KillsAreComplete, [Next]_vars
  PROVE  KillsAreComplete'
<1>1. tx \in [Proc -> Tx]
    BY DEF IInv, TypeOK
<1>2. CASE sessions' = sessions /\ tx' = tx
  <2>1. Stored' = Stored
      BY <1>2 DEF Stored
  <2> QED BY <1>2, <2>1 DEF KillsAreComplete, SameFamily
<1>3. ASSUME NEW p \in Proc, tx'[p].pc # "revoke" PROVE KillsAreComplete'
    BY <1>3 DEF KillsAreComplete
<1>4. ASSUME NEW p \in Proc, Finish(p) PROVE KillsAreComplete'
  <2>1. tx'[p].pc = "idle"
      BY <1>1, <1>4 DEF Finish, Idle
  <2> QED BY <1>3, <2>1
<1>5. ASSUME NEW p \in Proc, SignIn(p) PROVE KillsAreComplete'
  <2>1. tx'[p].pc = "signIn"
      BY <1>1, <1>5 DEF SignIn, Idle
  <2> QED BY <1>3, <2>1
<1>6. ASSUME NEW p \in Proc, NEW op \in {"rotate", "signOut"}, NEW t \in Sid, Present(p, op, t)
      PROVE  KillsAreComplete'
  <2>1. tx'[p].pc = "lookup"
      BY <1>1, <1>6 DEF Present, Idle
  <2> QED BY <1>3, <2>1
<1>7. ASSUME NEW p \in Proc, Acquire(p) PROVE KillsAreComplete'
  <2>1. tx'[p].pc = "locked"
      BY <1>1, <1>7 DEF Acquire, Tx
  <2> QED BY <1>3, <2>1
<1>8. ASSUME NEW p \in Proc, NEW s \in Sid, AwaitRow(p, s) \/ RevokeRow(p, s)
      PROVE  KillsAreComplete'
  <2>1. sessions' = sessions /\ Stored' = Stored /\ tx[p].pc = "revoke"
      BY <1>8 DEF AwaitRow, RevokeRow, Stored
  <2>2. tx'[p].tok = tx[p].tok /\ tx'[p].snap = tx[p].snap
    <3> DEFINE hits == IF sessions[s].revoked = Null THEN tx[p].hits \cup {s} ELSE tx[p].hits
               todo == tx[p].todo \ {s}
    <3>1. \/ tx' = [tx EXCEPT ![p] = [@ EXCEPT !.waits = s]]
          \/ tx' = [tx EXCEPT ![p] = [@ EXCEPT !.todo = todo, !.waits = Null, !.hits = hits]]
        BY <1>8 DEF AwaitRow, RevokeRow
    <3> HIDE DEF hits, todo
    <3>2. tx[p] \in Tx
        BY <1>1
    <3>3. CASE tx' = [tx EXCEPT ![p] = [@ EXCEPT !.waits = s]]
        BY <1>1, <3>2, <3>3 DEF Tx
    <3>4. CASE tx' = [tx EXCEPT ![p] = [@ EXCEPT !.todo = todo, !.waits = Null, !.hits = hits]]
      <4> DEFINE t == [tx[p] EXCEPT !.todo = todo, !.waits = Null, !.hits = hits]
      <4>1. t.tok = tx[p].tok /\ t.snap = tx[p].snap
          BY <3>2 DEF Tx
      <4>2. tx' = [tx EXCEPT ![p] = t]
          BY <3>4
      <4> HIDE DEF t
      <4> QED BY <1>1, <4>1, <4>2
    <3> QED BY <3>1, <3>3, <3>4
  <2> QED BY <2>1, <2>2 DEF KillsAreComplete, SameFamily
<1>9. ASSUME NEW p \in Proc, ReuseDetected(p) PROVE KillsAreComplete'
  <2> DEFINE active == {s \in Stored : /\ sessions[s].family = tx[p].copy.family
                                       /\ sessions[s].revoked = Null}
  <2>1. /\ sessions' = sessions /\ Stored' = Stored
        /\ tx' = [tx EXCEPT ![p] = [@ EXCEPT !.pc = "revoke", !.snap = active, !.todo = active]]
        /\ sessions[tx[p].tok] = tx[p].copy
      BY <1>9 DEF ReuseDetected, Stored, IInv, TxOK
  <2> HIDE DEF active
  <2>2. tx'[p].tok = tx[p].tok /\ tx'[p].snap = active
      BY <1>1, <2>1 DEF Tx
  <2>3. \A s \in Stored : SameFamily(s, tx[p].tok) => s \in active \/ sessions[s].revoked # Null
      BY <2>1 DEF SameFamily, active
  <2> QED BY <2>1, <2>2, <2>3 DEF KillsAreComplete, SameFamily
<1> QED BY <1>2, <1>4, <1>5, <1>6, <1>7, <1>8, <1>9
        DEF Next, vars, Tick, Work, OpenRoot, OutOfIds, Rotate, RejectRevoked, RejectExpired,
            SignOut, CommitRevoke, Fail, DeadlockVictim

\* Overlap is the only way out of a family kill: with one transaction at a time
\* reuse detection revokes every session of the family, as SessionRepository says.
THEOREM OnlyOverlapsSurvive == ASSUME \A p, q \in Proc : p = q PROVE Spec => ReuseKillsFamily
<1>1. ASSUME IInv, KillsAreComplete, NEW p \in Proc, CommitRevoke(p),
             NEW s \in Stored, SameFamily(s, tx[p].tok)
      PROVE  sessions'[s].revoked # Null
  <2>1. s \in tx[p].snap \/ sessions[s].revoked # Null
      BY <1>1 DEF KillsAreComplete, CommitRevoke
  <2>2. CASE s \in tx[p].snap
    <3>1. [Next]_vars
        BY <1>1 DEF Next, Work
    <3> QED BY <1>1, <2>2, <3>1, RevokesSnapshotStep DEF RevokesSnapshot
  <2>3. CASE sessions[s].revoked # Null
    <3>1. PICK S \in SUBSET Stored :
             /\ \A r \in S : sessions[r].revoked = Null
             /\ \A r \in Stored \ S : sessions'[r] = sessions[r]
        BY <1>1, RevokingStep
    <3> QED BY <2>3, <3>1
  <2> QED BY <2>1, <2>2, <2>3
<1>2. IInv /\ KillsAreComplete =>
        [\A p \in Proc : CommitRevoke(p) =>
           \A s \in Stored : SameFamily(s, tx[p].tok) => sessions'[s].revoked # Null]_vars
    BY <1>1
<1>3. IInv /\ KillsAreComplete /\ [Next]_vars => KillsAreComplete'
    BY KillsStep
<1> QED BY <1>2, <1>3, KillsInit, Invariant, PTL DEF Spec, ReuseKillsFamily
===============================================================================
