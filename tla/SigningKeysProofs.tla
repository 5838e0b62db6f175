-------------------------- MODULE SigningKeysProofs --------------------------
(***************************************************************************)
(* Proofs about SigningKeys, for any number of requests and keys and any   *)
(* periods that satisfy GraceAssumption.                                   *)
(***************************************************************************)
EXTENDS SigningKeys, TLAPS

\* No token outlives its key, and none is valid for longer than AccessTTL from now.
TokensOK ==
  \A k \in Kid :
    /\ signed[k] <= clock + AccessTTL
    /\ signed[k] > 0 => k \in Stored
    /\ k \in Stored /\ keys[k].expires # Null => signed[k] <= keys[k].expires

\* A transaction retires a key that exists, not long ago, and only with a
\* successor, which nobody else can see or generate.
WritesOK(p) ==
  /\ tx[p].retires # Null => /\ tx[p].retires \in Stored
                             /\ tx[p].made # Null
                             /\ clock <= tx[p].now + MaxTxTime
  /\ tx[p].made # Null => /\ keys[tx[p].made] = NoKey
                          /\ tx[p].kid = tx[p].made
                          /\ tx[p].pc \in {"keyed", "signed"}
                          /\ \A q \in Proc : tx[q].made = tx[p].made => q = p

\* The key that signs is a key of this transaction's own or a stored one, young
\* enough, and it will be served for as long as the token is valid.
SignerOK(p) ==
  LET k == tx[p].kid IN
  tx[p].pc = "signed" =>
    /\ tx[p].signer = k
    /\ k \in Kid
    /\ tx[p].iat < CreatedFor(p, k) + ActivePeriod
    /\ k # tx[p].made => /\ k \in Stored
                         /\ keys[k].expires # Null => tx[p].iat + AccessTTL <= keys[k].expires

TxOK(p) ==
  /\ tx[p].iat <= clock /\ tx[p].now <= clock /\ tx[p].iat <= tx[p].now
  /\ WritesOK(p) /\ SignerOK(p)

\* The inductive invariant.
KeyInv == TypeOK /\ TokensOK /\ AlwaysASigner /\ \A p \in Proc : TxOK(p)

USE KeyNullAssumption, PeriodAssumption, GraceAssumption, NoKeyAssumption

LEMMA IdleTx == Idle \in Tx
BY DEF Idle, Tx

LEMMA InitInv == Init => KeyInv
<1> SUFFICES ASSUME Init PROVE KeyInv
    OBVIOUS
<1>1. Stored = {}
    BY DEF Init, Stored
<1>2. TypeOK
    BY IdleTx DEF Init, TypeOK
<1>3. TokensOK /\ AlwaysASigner
    BY <1>1 DEF Init, TokensOK, AlwaysASigner
<1>4. ASSUME NEW p \in Proc PROVE TxOK(p)
  <2>1. /\ tx[p].pc = "idle" /\ tx[p].iat = 0 /\ tx[p].now = 0
        /\ tx[p].made = Null /\ tx[p].retires = Null /\ clock = 0
      BY DEF Init, Idle
  <2> QED BY <2>1 DEF TxOK, WritesOK, SignerOK
<1> QED BY <1>2, <1>3, <1>4 DEF KeyInv

LEMMA TickInv == KeyInv /\ Tick => KeyInv'
<1> SUFFICES ASSUME KeyInv, Tick PROVE KeyInv'
    OBVIOUS
<1>1. TypeOK' /\ Stored' = Stored /\ Active' = Active
    BY DEF KeyInv, TypeOK, Tick, Stored, Active
<1>2. clock' = clock + 1 /\ clock \in Nat
    BY DEF KeyInv, TypeOK, Tick
<1>3. TokensOK'
    BY <1>1, <1>2 DEF KeyInv, TypeOK, Tick, TokensOK
<1>4. AlwaysASigner'
    BY <1>1 DEF KeyInv, AlwaysASigner
<1>5. ASSUME NEW p \in Proc PROVE TxOK(p)'
  <2>1. tx' = tx /\ keys' = keys /\ tx[p] \in Tx
      BY DEF Tick, KeyInv, TypeOK
  <2>2. tx[p].iat \in Nat /\ tx[p].now \in Nat
      BY <2>1 DEF Tx
  <2>3. tx[p].iat <= clock' /\ tx[p].now <= clock' /\ tx[p].iat <= tx[p].now
      BY <1>2, <2>2 DEF KeyInv, TxOK
  <2>4. tx[p].retires # Null => clock' <= tx[p].now + MaxTxTime
      BY <1>2, <2>2 DEF Tick
  <2>5. WritesOK(p)'
      BY <1>1, <2>1, <2>4 DEF KeyInv, TxOK, WritesOK
  <2>6. SignerOK(p)'
      BY <1>1, <2>1 DEF KeyInv, TxOK, SignerOK, CreatedFor
  <2> QED BY <2>1, <2>3, <2>5, <2>6 DEF TxOK
<1> QED BY <1>1, <1>3, <1>4, <1>5 DEF KeyInv

\* A step of p that writes nothing to the tables and, if it generates a key,
\* takes a new one.
LEMMA QuietStep ==
  ASSUME KeyInv, NEW p \in Proc,
         secret' = secret, clock' = clock, keys' = keys, signed' = signed,
         lock' \in [Kid -> Proc \cup {Null}],
         tx' \in [Proc -> Tx], \A q \in Proc \ {p} : tx'[q] = tx[q],
         TxOK(p)'
  PROVE  KeyInv'
<1>1. TypeOK' /\ Stored' = Stored /\ Active' = Active
    BY DEF KeyInv, TypeOK, Stored, Active
<1>2. TokensOK' /\ AlwaysASigner'
    BY <1>1 DEF KeyInv, TokensOK, AlwaysASigner
<1>3. ASSUME NEW q \in Proc \ {p} PROVE TxOK(q)'
  <2>1. tx'[q].made # Null => \A r \in Proc : tx'[r].made = tx'[q].made => r = q
      BY DEF KeyInv, TxOK, WritesOK
  <2>2. WritesOK(q)'
      BY <1>1, <2>1 DEF KeyInv, TxOK, WritesOK
  <2>3. SignerOK(q)'
      BY <1>1 DEF KeyInv, TxOK, SignerOK, CreatedFor
  <2> QED BY <2>2, <2>3 DEF KeyInv, TxOK
<1> QED BY <1>1, <1>2, <1>3 DEF KeyInv

\* A transaction that has no writes and has not chosen its signer yet.
LEMMA PlainTx ==
  ASSUME NEW p \in Proc, tx'[p].iat <= clock', tx'[p].now <= clock', tx'[p].iat <= tx'[p].now,
         tx'[p].made = Null, tx'[p].retires = Null, tx'[p].pc # "signed"
  PROVE  TxOK(p)'
BY DEF TxOK, WritesOK, SignerOK

\* A reading of the clock is one of an instant that has passed.
LEMMA ReadingFacts ==
  ASSUME KeyInv, NEW p \in Proc, NEW now \in Readings(p)
  PROVE  now \in Nat /\ tx[p].now <= now /\ now <= clock
BY DEF Readings, KeyInv, TypeOK, Tx

\* The transaction of p ends without having written anything.
LEMMA RollbackInv ==
  ASSUME KeyInv, NEW p \in Proc, Finish(p), UNCHANGED <<keys, signed>>
  PROVE  KeyInv'
<1>1. /\ tx' \in [Proc -> Tx] /\ tx'[p] = Idle
      /\ lock' \in [Kid -> Proc \cup {Null}]
      /\ secret' = secret /\ clock' = clock /\ \A q \in Proc \ {p} : tx'[q] = tx[q]
    BY IdleTx DEF KeyInv, TypeOK, Finish
<1>2. TxOK(p)'
    BY <1>1, PlainTx DEF Idle, KeyInv, TypeOK
<1> QED BY <1>1, <1>2, QuietStep

-------------------------------------------------------------------------------
(* Steps that write nothing to the tables. *)

LEMMA BeginInv ==
  ASSUME KeyInv, NEW p \in Proc, BeginMint(p) \/ BeginRotate(p)
  PROVE  KeyInv'
<1>1. /\ secret' = secret /\ clock' = clock /\ keys' = keys /\ signed' = signed
      /\ lock' \in [Kid -> Proc \cup {Null}]
    BY DEF BeginMint, BeginRotate, KeyInv, TypeOK
<1>2. /\ tx' \in [Proc -> Tx]
      /\ tx'[p].pc \in {"mint", "rotate"} /\ tx'[p].iat <= clock /\ tx'[p].now <= clock
      /\ tx'[p].iat <= tx'[p].now
      /\ tx'[p].made = Null /\ tx'[p].retires = Null
      /\ \A q \in Proc \ {p} : tx'[q] = tx[q]
  <2>1. CASE BeginMint(p)
    <3> DEFINE t == [Idle EXCEPT !.pc = "mint", !.op = "mint", !.iat = clock, !.now = clock]
    <3>1. clock \in Nat /\ t \in Tx
        BY DEF KeyInv, TypeOK, Tx, Idle
    <3>2. t.pc = "mint" /\ t.iat = clock /\ t.now = clock /\ t.made = Null /\ t.retires = Null
        BY DEF Idle
    <3>3. tx' = [tx EXCEPT ![p] = t]
        BY <2>1 DEF BeginMint
    <3> HIDE DEF t
    <3> QED BY <3>1, <3>2, <3>3 DEF KeyInv, TypeOK
  <2>2. CASE BeginRotate(p)
    <3> DEFINE t == [Idle EXCEPT !.pc = "rotate", !.op = "rotate", !.now = clock]
    <3>1. clock \in Nat /\ t \in Tx
        BY DEF KeyInv, TypeOK, Tx, Idle
    <3>2. t.pc = "rotate" /\ t.iat = 0 /\ t.now = clock /\ t.made = Null /\ t.retires = Null
        BY DEF Idle
    <3>3. tx' = [tx EXCEPT ![p] = t]
        BY <2>2 DEF BeginRotate
    <3> HIDE DEF t
    <3> QED BY <3>1, <3>2, <3>3 DEF KeyInv, TypeOK
  <2> QED BY <2>1, <2>2
<1>3. TxOK(p)'
    BY <1>1, <1>2, PlainTx
<1> QED BY <1>1, <1>2, <1>3, QuietStep

\* Reading the key set: a stored key is chosen, or none yet.
LEMMA ReadInv ==
  ASSUME KeyInv, NEW p \in Proc, ReadActive(p) \/ FindOverdue(p)
  PROVE  KeyInv'
<1>1. /\ secret' = secret /\ clock' = clock /\ keys' = keys /\ signed' = signed
      /\ lock' \in [Kid -> Proc \cup {Null}]
      /\ tx[p] \in Tx /\ tx[p].pc = "mint"
    BY DEF ReadActive, FindOverdue, KeyInv, TypeOK
<1>2. tx[p].made = Null /\ tx[p].retires = Null
    BY <1>1 DEF KeyInv, TxOK, WritesOK
<1>3. /\ tx' \in [Proc -> Tx]
      /\ tx'[p].pc \in {"keyed", "rotate"}
      /\ tx'[p].iat = tx[p].iat /\ tx'[p].now <= clock /\ tx'[p].iat <= tx'[p].now
      /\ tx'[p].made = tx[p].made /\ tx'[p].retires = tx[p].retires
      /\ \A q \in Proc \ {p} : tx'[q] = tx[q]
  <2>1. CASE ReadActive(p)
    <3>1. PICK k \in Active, now \in Readings(p) :
            tx' = [tx EXCEPT ![p] = [@ EXCEPT !.pc = "keyed", !.now = now, !.kid = k]]
        BY <2>1 DEF ReadActive
    <3>2. k \in Kid /\ now \in Nat /\ now <= clock /\ tx[p].iat <= now
        BY <1>1, <3>1, ReadingFacts DEF Active, Stored, KeyInv, TxOK, Tx
    <3> QED BY <1>1, <3>1, <3>2 DEF KeyInv, TypeOK, Tx
  <2>2. CASE FindOverdue(p)
    <3> DEFINE t == [tx[p] EXCEPT !.pc = "rotate", !.now = clock]
    <3>1. clock \in Nat /\ tx[p].iat <= clock
        BY DEF KeyInv, TypeOK, TxOK
    <3>2. /\ t \in Tx /\ t.pc = "rotate" /\ t.iat = tx[p].iat /\ t.now = clock
          /\ t.made = tx[p].made /\ t.retires = tx[p].retires
        BY <1>1, <3>1 DEF Tx
    <3>3. tx' = [tx EXCEPT ![p] = t]
        BY <2>2 DEF FindOverdue
    <3> HIDE DEF t
    <3> QED BY <3>1, <3>2, <3>3 DEF KeyInv, TypeOK
  <2> QED BY <2>1, <2>2
<1>4. TxOK(p)'
  <2>1. tx[p].iat <= clock
      BY DEF KeyInv, TxOK
  <2> QED BY <2>1, <1>1, <1>2, <1>3, PlainTx
<1> QED BY <1>1, <1>3, <1>4, QuietStep

\* Generating a key: the first one, or the successor of the one that is retired.
LEMMA GenerateInv ==
  ASSUME KeyInv, NEW p \in Proc, Bootstrap(p) \/ Rotate(p)
  PROVE  KeyInv'
<1>1. /\ secret' = secret /\ clock' = clock /\ keys' = keys /\ signed' = signed
      /\ lock' \in [Kid -> Proc \cup {Null}]
      /\ tx[p] \in Tx /\ tx[p].pc \in {"mint", "rotate"}
    BY DEF Bootstrap, Rotate, KeyInv, TypeOK
<1>2. tx[p].made = Null /\ tx[p].retires = Null
    BY <1>1 DEF KeyInv, TxOK, WritesOK
<1>3. PICK new \in Fresh, old \in Stored \cup {Null}, now \in Readings(p) :
        /\ old # Null => clock <= now + MaxTxTime
        /\ tx' = [tx EXCEPT ![p] = [@ EXCEPT !.pc = "keyed", !.now = now, !.kid = new,
                                             !.made = new, !.retires = old]]
  <2>1. CASE Bootstrap(p)
    <3>1. PICK k \in Fresh, now \in Readings(p) :
            tx' = [tx EXCEPT ![p] = [@ EXCEPT !.pc = "keyed", !.now = now,
                                              !.kid = k, !.made = k]]
        BY <2>1 DEF Bootstrap
    <3>2. [tx[p] EXCEPT !.pc = "keyed", !.now = now, !.kid = k, !.made = k]
            = [tx[p] EXCEPT !.pc = "keyed", !.now = now, !.kid = k, !.made = k,
                            !.retires = Null]
        BY <1>1, <1>2 DEF Tx
    <3> QED BY <3>1, <3>2
  <2>2. CASE Rotate(p)
      BY <2>2 DEF Rotate, Active
  <2> QED BY <2>1, <2>2
<1>4. new \in Kid /\ keys[new] = NoKey /\ \A q \in Proc : tx[q].made # new
    BY DEF Fresh
<1>r. now \in Nat /\ now <= clock /\ tx[p].iat <= now
    BY <1>1, ReadingFacts DEF KeyInv, TxOK, Tx
<1>5. /\ tx' \in [Proc -> Tx]
      /\ tx'[p].pc = "keyed" /\ tx'[p].iat = tx[p].iat /\ tx'[p].now = now
      /\ tx'[p].kid = new /\ tx'[p].made = new /\ tx'[p].retires = old
      /\ \A q \in Proc \ {p} : tx'[q] = tx[q]
    BY <1>1, <1>3, <1>4, <1>r DEF KeyInv, TypeOK, Tx, Stored
<1>6. TxOK(p)'
  <2>1. /\ tx'[p].iat <= clock' /\ tx'[p].now <= clock' /\ tx'[p].iat <= tx'[p].now
        /\ old # Null => clock' <= tx'[p].now + MaxTxTime
      BY <1>1, <1>3, <1>5, <1>r DEF KeyInv, TxOK
  <2>2. WritesOK(p)'
      BY <2>1, <1>1, <1>4, <1>5 DEF WritesOK, Stored
  <2>3. SignerOK(p)'
      BY <1>5 DEF SignerOK
  <2> QED BY <2>1, <2>2, <2>3 DEF TxOK
<1> QED BY <1>1, <1>5, <1>6, QuietStep

\* The encoder finds the key of the header: if it is a stored one it is active,
\* so no deadline limits the token yet.
LEMMA SelectInv ==
  ASSUME KeyInv, NEW p \in Proc, SelectKey(p)
  PROVE  KeyInv'
<1>k. PICK k \in ActiveFor(p), now \in Readings(p) :
        /\ k = tx[p].kid
        /\ ~Overdue(CreatedFor(p, k), now)
        /\ tx' = [tx EXCEPT ![p] = [@ EXCEPT !.pc = "signed", !.signer = k]]
    BY DEF SelectKey
<1>1. /\ secret' = secret /\ clock' = clock /\ keys' = keys /\ signed' = signed
      /\ tx[p] \in Tx /\ tx[p].pc = "keyed" /\ clock \in Nat
    BY DEF SelectKey, KeyInv, TypeOK
<1>2. k \in Kid
    BY <1>1 DEF ActiveFor, Active, Stored, Tx
<1>3. /\ tx' \in [Proc -> Tx]
      /\ tx'[p].pc = "signed" /\ tx'[p].iat = tx[p].iat /\ tx'[p].now = tx[p].now
      /\ tx'[p].kid = k /\ tx'[p].signer = k /\ tx'[p].made = tx[p].made
      /\ tx'[p].retires = tx[p].retires
      /\ \A q \in Proc \ {p} : tx'[q] = tx[q]
    BY <1>k, <1>1, <1>2 DEF KeyInv, TypeOK, Tx
<1>4. lock' \in [Kid -> Proc \cup {Null}]
    BY DEF SelectKey, KeyInv, TypeOK
<1>5. WritesOK(p)'
    BY <1>k, <1>1, <1>3 DEF KeyInv, TxOK, WritesOK, Stored
<1>6. SignerOK(p)'
  <2>1. k # tx[p].made => k \in Stored /\ keys[k].expires = Null
      BY DEF ActiveFor, Active
  <2>2. CreatedFor(p, k) \in Nat
      BY <1>1, <1>2, <2>1 DEF CreatedFor, KeyInv, TypeOK, Stored, Key, Tx
  <2>3. tx[p].iat <= now
      BY <1>1, ReadingFacts DEF KeyInv, TxOK, Tx
  <2>4. tx[p].iat < CreatedFor(p, k) + ActivePeriod
      BY <1>k, <1>1, <2>2, <2>3, ReadingFacts DEF Overdue, Tx
  <2> QED BY <1>1, <1>2, <1>3, <2>1, <2>4 DEF SignerOK, CreatedFor, Stored
<1>7. TxOK(p)'
    BY <1>1, <1>3, <1>5, <1>6 DEF KeyInv, TxOK
<1> QED BY <1>1, <1>3, <1>4, <1>7, QuietStep

-------------------------------------------------------------------------------
(* Commits. *)

\* What the commit of p does to the table: the generated key appears, active,
\* and the retired one gets a deadline that no token reaches.
CommitEffect(p) ==
  LET new == tx[p].made
      old == tx[p].retires
  IN
  /\ keys' \in [Kid -> Key \cup {NoKey}]
  /\ Stored' = Stored \cup ({new} \ {Null})
  /\ new # Null => /\ new \in Kid
                   /\ keys'[new] = [created |-> tx[p].now, expires |-> Null, seal |-> secret]
  /\ new = Null => keys' = keys
  /\ \A k \in Stored \ {old} : keys'[k] = keys[k]
  /\ old # Null => /\ keys'[old].created = keys[old].created
                   /\ keys'[old].expires \in Nat
                   /\ keys'[old].expires = tx[p].now + Grace
                   /\ clock + AccessTTL <= keys'[old].expires

LEMMA CommitTable ==
  ASSUME KeyInv, NEW p \in Proc, keys' = Written(p)
  PROVE  CommitEffect(p)
<1>1. /\ secret \in Secret /\ tx[p].now \in Nat /\ tx[p].made \in Kid \cup {Null}
      /\ tx[p].retires \in Stored \cup {Null}
      /\ keys \in [Kid -> Key \cup {NoKey}] /\ clock \in Nat
    BY DEF KeyInv, TypeOK, Tx, TxOK, WritesOK
<1>2. tx[p].made # Null => keys[tx[p].made] = NoKey /\ tx[p].made # tx[p].retires
    BY <1>1 DEF KeyInv, TxOK, WritesOK, Stored
<1>3. tx[p].retires # Null => /\ tx[p].made # Null
                              /\ clock <= tx[p].now + MaxTxTime
    BY DEF KeyInv, TxOK, WritesOK
<1>4. DEFINE n == [created |-> tx[p].now, expires |-> Null, seal |-> secret]
             o == [keys[tx[p].retires] EXCEPT !.expires = tx[p].now + Grace]
<1>5. n \in Key
    BY <1>1 DEF Key
<1>6. tx[p].retires # Null => /\ o \in Key /\ o.expires = tx[p].now + Grace
                              /\ o.created = keys[tx[p].retires].created
    BY <1>1 DEF Key, Stored
<1>7. keys' = [k \in Kid |-> IF k = tx[p].made THEN n
                        ELSE IF k = tx[p].retires THEN o ELSE keys[k]]
    BY DEF Written
<1> HIDE DEF n, o
<1>8. keys' \in [Kid -> Key \cup {NoKey}]
    BY <1>1, <1>5, <1>6, <1>7
<1>9. Stored' = Stored \cup ({tx[p].made} \ {Null})
    BY <1>1, <1>2, <1>5, <1>6, <1>7 DEF Stored
<1>10. tx[p].made = Null => keys' = keys
    BY <1>1, <1>3, <1>7
<1>11. tx[p].retires # Null => keys'[tx[p].retires] = o
    BY <1>1, <1>2, <1>7 DEF Stored
<1>12. tx[p].made # Null => keys'[tx[p].made] = n
    BY <1>1, <1>7
<1>13. \A k \in Stored \ {tx[p].retires} : keys'[k] = keys[k]
    BY <1>2, <1>7 DEF Stored
<1>14. tx[p].retires # Null => clock + AccessTTL <= tx[p].now + Grace
    BY <1>1, <1>3
<1> QED BY <1>1, <1>6, <1>8, <1>9, <1>10, <1>11, <1>12, <1>13, <1>14 DEF n, CommitEffect

\* The commit of p, with the token of a mint or without one.
LEMMA CommitInv ==
  ASSUME KeyInv, NEW p \in Proc, keys' = Written(p), Finish(p),
         signed' \in [Kid -> Nat],
         \A k \in Kid : \/ signed'[k] = signed[k]
                        \/ /\ tx[p].pc = "signed" /\ k = tx[p].kid
                           /\ signed'[k] = tx[p].iat + AccessTTL
  PROVE  KeyInv'
<1>e. CommitEffect(p)
    BY CommitTable
<1>1. /\ tx' \in [Proc -> Tx] /\ tx'[p] = Idle
      /\ lock' \in [Kid -> Proc \cup {Null}]
      /\ secret' \in Secret /\ clock' = clock /\ clock \in Nat
      /\ \A q \in Proc \ {p} : tx'[q] = tx[q]
      /\ \A q \in Proc : tx[q] \in Tx
    BY IdleTx DEF KeyInv, TypeOK, Finish
<1>2. TypeOK'
    BY <1>1, <1>e DEF TypeOK, CommitEffect
<1>3. TokensOK'
  <2> SUFFICES ASSUME NEW k \in Kid
               PROVE  /\ signed'[k] <= clock + AccessTTL
                      /\ signed'[k] > 0 => k \in Stored'
                      /\ k \in Stored' /\ keys'[k].expires # Null
                           => signed'[k] <= keys'[k].expires
      BY <1>1 DEF TokensOK
  <2>1. signed[k] \in Nat /\ tx[p].iat \in Nat /\ tx[p].iat <= clock
      BY <1>1 DEF KeyInv, TypeOK, Tx, TxOK
  <2>2. signed'[k] \in Nat /\ signed'[k] <= clock + AccessTTL
      BY <1>1, <2>1 DEF KeyInv, TokensOK
  <2>3. signed'[k] > 0 => k \in Stored'
    <3>1. CASE signed'[k] = signed[k]
        BY <3>1, <1>e DEF KeyInv, TokensOK, CommitEffect
    <3>2. CASE tx[p].pc = "signed" /\ k = tx[p].kid
        BY <3>2, <1>e DEF KeyInv, TxOK, SignerOK, CommitEffect
    <3> QED BY <3>1, <3>2
  <2>4. ASSUME k \in Stored', keys'[k].expires # Null
        PROVE  signed'[k] <= keys'[k].expires
    <3>1. k # tx[p].made
        BY <2>4, <1>e DEF CommitEffect
    <3>2. k \in Stored
        BY <2>4, <3>1, <1>e DEF CommitEffect
    <3>3. CASE k = tx[p].retires
        BY <1>1, <2>2, <3>2, <3>3, <1>e DEF KeyInv, TypeOK, Stored, CommitEffect
    <3>4. CASE k # tx[p].retires
      <4>1. keys'[k] = keys[k]
          BY <3>2, <3>4, <1>e DEF CommitEffect
      <4>2. signed[k] <= keys[k].expires
          BY <2>4, <3>2, <4>1 DEF KeyInv, TokensOK
      <4>3. tx[p].pc = "signed" /\ k = tx[p].kid => tx[p].iat + AccessTTL <= keys[k].expires
          BY <2>4, <3>1, <4>1 DEF KeyInv, TxOK, SignerOK
      <4> QED BY <4>1, <4>2, <4>3
    <3> QED BY <3>3, <3>4
  <2> QED BY <2>2, <2>3, <2>4
<1>4. AlwaysASigner'
  <2>1. CASE tx[p].made = Null
    <3>1. keys' = keys
        BY <2>1, <1>e DEF CommitEffect
    <3> QED BY <3>1 DEF KeyInv, AlwaysASigner, Active, Stored
  <2>2. CASE tx[p].made # Null
    <3>1. tx[p].made \in Stored' /\ keys'[tx[p].made].expires = Null
        BY <2>2, <1>e DEF CommitEffect
    <3> QED BY <3>1 DEF AlwaysASigner, Active
  <2> QED BY <2>1, <2>2
<1>5. TxOK(p)'
    BY <1>1, PlainTx DEF Idle
<1>6. ASSUME NEW q \in Proc \ {p} PROVE TxOK(q)'
  <2>1. tx'[q] = tx[q] /\ tx[q] \in Tx /\ tx[q].iat <= clock /\ tx[q].now <= clock /\ tx[q].iat <= tx[q].now
      BY <1>1 DEF KeyInv, TxOK
  <2>2. tx[q].made # Null => tx[q].made # tx[p].made /\ keys'[tx[q].made] = NoKey
    <3>1. tx[q].made # Null => /\ tx[q].made \in Kid /\ tx[q].made \notin Stored
                               /\ tx[q].made # tx[p].made
        BY <2>1 DEF KeyInv, TxOK, WritesOK, Stored, Tx
    <3>2. tx[q].made # Null => tx[q].made \notin Stored'
        BY <3>1, <1>e DEF CommitEffect
    <3> QED BY <3>1, <3>2 DEF Stored
  <2>3. \A r \in Proc : tx[q].made # Null /\ tx'[r].made = tx'[q].made => r = q
      BY <1>1, <2>1 DEF KeyInv, TxOK, WritesOK, Idle
  <2>4. WritesOK(q)'
      BY <1>1, <2>1, <2>2, <2>3, <1>e DEF KeyInv, TxOK, WritesOK, CommitEffect
  <2>5. SignerOK(q)'
    <3> SUFFICES ASSUME tx[q].pc = "signed" PROVE SignerOK(q)'
        BY <2>1 DEF SignerOK
    <3>1. /\ tx[q].signer = tx[q].kid /\ tx[q].kid \in Kid
          /\ tx[q].iat < CreatedFor(q, tx[q].kid) + ActivePeriod
          /\ tx[q].kid # tx[q].made =>
               /\ tx[q].kid \in Stored
               /\ keys[tx[q].kid].expires # Null
                    => tx[q].iat + AccessTTL <= keys[tx[q].kid].expires
        BY DEF KeyInv, TxOK, SignerOK
    <3>2. CASE tx[q].kid = tx[q].made
        BY <2>1, <3>1, <3>2 DEF SignerOK, CreatedFor
    <3>3. CASE tx[q].kid # tx[q].made
      <4>1. tx[q].kid \in Stored' /\ keys'[tx[q].kid].created = keys[tx[q].kid].created
          BY <3>1, <3>3, <1>e DEF CommitEffect
      <4>2. keys'[tx[q].kid].expires # Null
              => tx[q].iat + AccessTTL <= keys'[tx[q].kid].expires
        <5>1. CASE tx[q].kid = tx[p].retires
          <6>1. tx[q].iat \in Nat /\ tx[q].iat + AccessTTL <= clock + AccessTTL
              BY <1>1, <2>1 DEF Tx
          <6>2. tx[p].retires # Null
              BY <5>1, <3>1
          <6> QED BY <1>1, <5>1, <6>1, <6>2, <1>e DEF CommitEffect
        <5>2. CASE tx[q].kid # tx[p].retires
            BY <3>1, <3>3, <5>2, <1>e DEF CommitEffect
        <5> QED BY <5>1, <5>2
      <4> QED BY <2>1, <3>1, <3>3, <4>1, <4>2 DEF SignerOK, CreatedFor
    <3> QED BY <3>2, <3>3
  <2> QED BY <1>1, <2>1, <2>4, <2>5 DEF TxOK
<1> QED BY <1>2, <1>3, <1>4, <1>5, <1>6 DEF KeyInv

LEMMA CommitMintInv ==
  ASSUME KeyInv, NEW p \in Proc, CommitMint(p)
  PROVE  KeyInv'
<1>1. tx[p].kid \in Kid /\ tx[p].iat + AccessTTL \in Nat /\ signed \in [Kid -> Nat]
    BY DEF CommitMint, KeyInv, TypeOK, Tx, TxOK, SignerOK
<1>2. \A k \in Kid : \/ signed'[k] = signed[k]
                     \/ k = tx[p].kid /\ signed'[k] = tx[p].iat + AccessTTL
    BY <1>1 DEF CommitMint
<1>3. signed' \in [Kid -> Nat]
    BY <1>1 DEF CommitMint
<1>4. tx[p].pc = "signed" /\ keys' = Written(p) /\ Finish(p)
    BY DEF CommitMint
<1> QED BY <1>2, <1>3, <1>4, CommitInv

LEMMA CommitRotateInv ==
  ASSUME KeyInv, NEW p \in Proc, CommitRotate(p)
  PROVE  KeyInv'
<1>1. keys' = Written(p) /\ Finish(p) /\ signed' = signed
    BY DEF CommitRotate
<1>2. signed' \in [Kid -> Nat]
    BY <1>1 DEF KeyInv, TypeOK
<1> QED BY <1>1, <1>2, CommitInv

\* A restart takes every transaction away and leaves the tables.
LEMMA ProcessRestartInv ==
  ASSUME KeyInv, NEW s \in Secret, Restart(s)
  PROVE  KeyInv'
<1>1. /\ secret' = s /\ clock' = clock /\ keys' = keys /\ signed' = signed
      /\ tx' = [p \in Proc |-> Idle] /\ lock' = [k \in Kid |-> Null]
    BY DEF Restart
<1>2. TypeOK' /\ Stored' = Stored /\ Active' = Active
    BY <1>1, IdleTx DEF KeyInv, TypeOK, Stored, Active
<1>3. TokensOK' /\ AlwaysASigner'
    BY <1>1, <1>2 DEF KeyInv, TokensOK, AlwaysASigner
<1>4. ASSUME NEW p \in Proc PROVE TxOK(p)'
  <2>1. tx'[p] = Idle /\ clock \in Nat
      BY <1>1 DEF KeyInv, TypeOK
  <2> QED BY <1>1, <2>1, PlainTx DEF Idle
<1> QED BY <1>2, <1>3, <1>4 DEF KeyInv

-------------------------------------------------------------------------------
LEMMA NextInv == KeyInv /\ [Next]_keyVars => KeyInv'
<1> SUFFICES ASSUME KeyInv, [Next]_keyVars PROVE KeyInv'
    OBVIOUS
<1>1. CASE UNCHANGED keyVars
    BY <1>1 DEF keyVars, KeyInv, TypeOK, TokensOK, AlwaysASigner, Active, Stored, TxOK,
                WritesOK, SignerOK, CreatedFor
<1>2. CASE Tick
    BY <1>2, TickInv
<1>3. ASSUME NEW p \in Proc, BeginMint(p) \/ BeginRotate(p) PROVE KeyInv'
    BY <1>3, BeginInv
<1>4. ASSUME NEW p \in Proc, ReadActive(p) \/ FindOverdue(p) PROVE KeyInv'
    BY <1>4, ReadInv
<1>5. ASSUME NEW p \in Proc, Bootstrap(p) \/ Rotate(p) PROVE KeyInv'
    BY <1>5, GenerateInv
<1>6. ASSUME NEW p \in Proc, SelectKey(p) PROVE KeyInv'
    BY <1>6, SelectInv
<1>7. ASSUME NEW p \in Proc, CannotOpen(p) \/ KeyMismatch(p) \/ Fail(p) PROVE KeyInv'
    BY <1>7, RollbackInv DEF CannotOpen, KeyMismatch, Fail
<1>8. ASSUME NEW p \in Proc, CommitMint(p) \/ CommitRotate(p) PROVE KeyInv'
    BY <1>8, CommitMintInv, CommitRotateInv
<1>9. ASSUME NEW s \in Secret, Restart(s) PROVE KeyInv'
    BY <1>9, ProcessRestartInv
<1> QED BY <1>1, <1>2, <1>3, <1>4, <1>5, <1>6, <1>7, <1>8, <1>9 DEF Next

\* KeyInv holds in every reachable state.
THEOREM KeyInvariant == Spec => []KeyInv
<1> QED BY InitInv, NextInv, PTL DEF Spec

\* Type correctness.
THEOREM KeysTyped == Spec => []TypeOK
<1>1. KeyInv => TypeOK
    BY DEF KeyInv
<1> QED BY <1>1, KeyInvariant, PTL

LEMMA KeysVerify == KeyInv => TokensVerify
<1> SUFFICES ASSUME KeyInv, NEW k \in Kid, clock < signed[k] PROVE Servable(k)
    BY DEF TokensVerify
<1>1. clock \in Nat /\ signed[k] \in Nat
    BY DEF KeyInv, TypeOK
<1>2. k \in Stored /\ (keys[k].expires # Null => signed[k] <= keys[k].expires)
    BY <1>1 DEF KeyInv, TokensOK
<1>3. keys[k].expires # Null => keys[k].expires \in Nat
    BY <1>2 DEF KeyInv, TypeOK, Stored, Key
<1> QED BY <1>1, <1>2, <1>3 DEF Servable

\* The key of a valid token is published, whatever rotations overlap the mint.
THEOREM NoTokenCutOff == Spec => []TokensVerify
<1> QED BY KeysVerify, KeyInvariant, PTL

\* A key set that was ever used always has a signer.
THEOREM SignerExists == Spec => []AlwaysASigner
<1>1. KeyInv => AlwaysASigner
    BY DEF KeyInv
<1> QED BY <1>1, KeyInvariant, PTL

\* Tokens are signed by keys within their active period.
THEOREM SignersAreFresh == Spec => []FreshSigner
<1>1. KeyInv => FreshSigner
    BY DEF KeyInv, TxOK, SignerOK, FreshSigner
<1> QED BY <1>1, KeyInvariant, PTL

\* A commit retires a key only with a successor, sealed under the secret at hand.
LEMMA CommitOpenable ==
  ASSUME KeyInv, NEW p \in Proc, keys' = Written(p), secret' = secret, Openable # {}
  PROVE  Openable' # {}
<1>1. CommitEffect(p)
    BY CommitTable
<1>2. CASE tx[p].made = Null
    BY <1>1, <1>2 DEF CommitEffect, Openable, Active, Stored
<1>3. CASE tx[p].made # Null
  <2>1. tx[p].made \in Stored' /\ keys'[tx[p].made].expires = Null
        /\ keys'[tx[p].made].seal = secret
      BY <1>1, <1>3 DEF CommitEffect
  <2> QED BY <2>1 DEF Openable, Active
<1> QED BY <1>2, <1>3

LEMMA StepOpenable ==
  ASSUME KeyInv, [Next]_keyVars, secret' = secret, Openable # {}
  PROVE  Openable' # {}
<1>1. CASE \E p \in Proc : CommitMint(p) \/ CommitRotate(p)
  <2>1. PICK p \in Proc : keys' = Written(p)
      BY <1>1 DEF CommitMint, CommitRotate
  <2> QED BY <2>1, CommitOpenable
<1>2. CASE ~\E p \in Proc : CommitMint(p) \/ CommitRotate(p)
  <2>1. keys' = keys
      BY <1>2 DEF Next, keyVars, Tick, Restart, BeginMint, Bootstrap, ReadActive, CannotOpen,
                  FindOverdue, SelectKey, KeyMismatch, BeginRotate, Rotate, Fail
  <2> QED BY <2>1 DEF Openable, Active, Stored
<1> QED BY <1>1, <1>2

\* A process that can sign goes on being able to, until it is restarted with
\* another secret.
THEOREM SignerCanBeOpened == Spec => SignerStaysOpenable
<1>1. KeyInv /\ [Next]_keyVars => (secret' = secret /\ Openable # {} => Openable' # {})
    BY StepOpenable
<1> QED BY <1>1, KeyInvariant, PTL DEF Spec, SignerStaysOpenable

-------------------------------------------------------------------------------
(* How far a deadline can move. *)

\* A transaction whose entity is stale, the key it retires having been retired
\* by another one, read it within a transaction's length of that retirement.
StaleOK(p) ==
  LET k == tx[p].retires IN
  k # Null /\ keys[k].expires # Null =>
    /\ keys[k].expires <= tx[p].now + Grace + MaxTxTime
    /\ tx[p].now + Grace <= keys[k].expires + MaxTxTime

StaleInv == \A p \in Proc : StaleOK(p)

\* A lookup of the active key touches no write that is pending.
LEMMA LookupFrame ==
  ASSUME KeyInv, NEW q \in Proc, ReadActive(q) \/ FindOverdue(q) \/ SelectKey(q), NEW p \in Proc
  PROVE  /\ tx'[p].made = tx[p].made /\ tx'[p].retires = tx[p].retires
         /\ tx'[p].now = tx[p].now \/ tx'[p].retires = Null
<1>1. tx \in [Proc -> Tx]
    BY DEF KeyInv, TypeOK
<1>2. CASE ReadActive(q)
  <2>1. PICK k \in Active, now \in Readings(q) :
          tx' = [tx EXCEPT ![q] = [@ EXCEPT !.pc = "keyed", !.now = now, !.kid = k]]
      BY <1>2 DEF ReadActive
  <2>2. tx[q].retires = Null
      BY <1>2 DEF ReadActive, KeyInv, TxOK, WritesOK
  <2> QED BY <1>1, <2>1, <2>2 DEF Tx
<1>3. CASE FindOverdue(q)
  <2>1. tx' = [tx EXCEPT ![q] = [@ EXCEPT !.pc = "rotate", !.now = clock]]
      BY <1>3 DEF FindOverdue
  <2>2. tx[q].retires = Null
      BY <1>3 DEF FindOverdue, KeyInv, TxOK, WritesOK
  <2> QED BY <1>1, <2>1, <2>2 DEF Tx
<1>4. CASE SelectKey(q)
  <2>1. PICK k \in ActiveFor(q) :
          tx' = [tx EXCEPT ![q] = [@ EXCEPT !.pc = "signed", !.signer = k]]
      BY <1>4 DEF SelectKey
  <2> QED BY <1>1, <2>1 DEF Tx
<1> QED BY <1>2, <1>3, <1>4

\* What a step may do to the retirement a transaction has pending: nothing, drop
\* it, or begin one of a key that is active at that moment.
LEMMA PendingRetirement ==
  ASSUME KeyInv, [Next]_keyVars, NEW p \in Proc
  PROVE  \/ tx'[p].retires = tx[p].retires /\ tx'[p].now = tx[p].now
         \/ tx'[p].retires = Null
         \/ tx'[p].retires \in Active /\ keys' = keys
<1> DEFINE Goal == \/ tx'[p].retires = tx[p].retires /\ tx'[p].now = tx[p].now
                   \/ tx'[p].retires = Null
                   \/ tx'[p].retires \in Active /\ keys' = keys
<1>1. tx \in [Proc -> Tx]
    BY DEF KeyInv, TypeOK
<1>2. CASE tx'[p] = tx[p]
    BY <1>2
<1>3. CASE tx'[p] = Idle
    BY <1>3 DEF Idle
<1>4. ASSUME NEW q \in Proc, Finish(q) PROVE Goal
    BY <1>1, <1>2, <1>3, <1>4 DEF Finish
<1>5. CASE UNCHANGED keyVars \/ Tick
    BY <1>2, <1>5 DEF keyVars, Tick
<1>6. ASSUME NEW s \in Secret, Restart(s) PROVE Goal
    BY <1>3, <1>6 DEF Restart
<1>7. ASSUME NEW q \in Proc, BeginMint(q) \/ BeginRotate(q) PROVE Goal
  <2>1. q # p => tx'[p] = tx[p]
      BY <1>1, <1>7 DEF BeginMint, BeginRotate
  <2>2. q = p => tx'[p].retires = Null
      BY <1>1, <1>7 DEF BeginMint, BeginRotate, Idle
  <2> QED BY <2>1, <2>2
<1>8. ASSUME NEW q \in Proc, ReadActive(q) \/ FindOverdue(q) \/ SelectKey(q) PROVE Goal
    BY <1>8, LookupFrame
<1>9. ASSUME NEW q \in Proc, Bootstrap(q) PROVE Goal
  <2>1. q # p => tx'[p] = tx[p]
      BY <1>1, <1>9 DEF Bootstrap
  <2>2. tx[q].retires = Null
      BY <1>9 DEF Bootstrap, KeyInv, TxOK, WritesOK
  <2>3. q = p => tx'[p].retires = tx[p].retires
      BY <1>1, <1>9 DEF Bootstrap, Tx
  <2> QED BY <2>1, <2>2, <2>3
<1>10. ASSUME NEW q \in Proc, Rotate(q) PROVE Goal
  <2>1. q # p => tx'[p] = tx[p]
      BY <1>1, <1>10 DEF Rotate
  <2>2. q = p => tx'[p].retires \in Active \cup {Null} /\ keys' = keys
      BY <1>1, <1>10 DEF Rotate, Tx
  <2> QED BY <2>1, <2>2
<1> QED BY <1>4, <1>5, <1>6, <1>7, <1>8, <1>9, <1>10
        DEF Next, CannotOpen, KeyMismatch, CommitMint, CommitRotate, Fail

\* The table changes only when a transaction commits.
LEMMA KeyWriters ==
  ASSUME [Next]_keyVars
  PROVE  \/ keys' = keys
         \/ \E p \in Proc : keys' = Written(p) /\ Finish(p)
BY DEF Next, keyVars, Tick, Restart, BeginMint, Bootstrap, ReadActive, CannotOpen, FindOverdue,
       SelectKey, KeyMismatch, BeginRotate, Rotate, Fail, CommitMint, CommitRotate

LEMMA StaleInit == Init => StaleInv
BY DEF Init, StaleInv, StaleOK, Idle

LEMMA StaleStep == KeyInv /\ KeyInv' /\ StaleInv /\ [Next]_keyVars => StaleInv'
<1> SUFFICES ASSUME KeyInv, KeyInv', StaleInv, [Next]_keyVars, NEW p \in Proc
             PROVE  StaleOK(p)'
    BY DEF StaleInv
<1>1. CASE tx'[p].retires = Null
    BY <1>1 DEF StaleOK
<1>2. CASE tx'[p].retires \in Active /\ keys' = keys
    BY <1>2 DEF StaleOK, Active
<1>3. CASE tx'[p].retires = tx[p].retires /\ tx'[p].now = tx[p].now /\ tx'[p].retires # Null
  <2>1. CASE keys' = keys
      BY <1>3, <2>1 DEF StaleInv, StaleOK
  <2>2. ASSUME NEW q \in Proc, keys' = Written(q), Finish(q) PROVE StaleOK(p)'
    <3>1. CommitEffect(q)
        BY <2>2, CommitTable
    <3>2. tx[p].retires \in Stored
        BY <1>3 DEF KeyInv, TxOK, WritesOK
    <3>3. CASE tx[p].retires # tx[q].retires
      <4>1. keys'[tx[p].retires] = keys[tx[p].retires]
          BY <3>1, <3>2, <3>3 DEF CommitEffect
      <4> QED BY <1>3, <4>1 DEF StaleInv, StaleOK
    <3>4. CASE tx[p].retires = tx[q].retires
      <4>1. keys'[tx[p].retires].expires = tx[q].now + Grace
          BY <1>3, <3>1, <3>4 DEF CommitEffect
      <4>2. /\ tx[p].now <= clock /\ clock <= tx[p].now + MaxTxTime
            /\ tx[q].now <= clock /\ clock <= tx[q].now + MaxTxTime
            /\ tx[p].now \in Nat /\ tx[q].now \in Nat /\ clock \in Nat
          BY <1>3, <3>4 DEF KeyInv, TypeOK, Tx, TxOK, WritesOK
      <4> QED BY <1>3, <4>1, <4>2 DEF StaleOK
    <3> QED BY <3>3, <3>4
  <2> QED BY <2>1, <2>2, KeyWriters
<1> QED BY <1>1, <1>2, <1>3, PendingRetirement

LEMMA DriftStep ==
  ASSUME KeyInv, StaleInv, [Next]_keyVars, NEW k \in Stored, keys[k].expires # Null
  PROVE  keys'[k].expires # Null /\ DriftBound(k)
<1>1. keys[k].expires \in Nat
    BY DEF KeyInv, TypeOK, Stored, Key
<1>2. CASE keys'[k] = keys[k]
    BY <1>1, <1>2 DEF DriftBound
<1>3. ASSUME NEW p \in Proc, keys' = Written(p), k = tx[p].retires
      PROVE  keys'[k].expires # Null /\ DriftBound(k)
  <2>1. k # Null /\ tx[p].now \in Nat
      BY DEF KeyInv, TypeOK, Stored, Tx
  <2>2. keys'[k].expires = tx[p].now + Grace
      BY <1>3, <2>1, CommitTable DEF CommitEffect
  <2>3. /\ keys[k].expires <= tx[p].now + Grace + MaxTxTime
        /\ tx[p].now + Grace <= keys[k].expires + MaxTxTime
      BY <1>3, <2>1 DEF StaleInv, StaleOK
  <2> QED BY <1>1, <2>1, <2>2, <2>3 DEF DriftBound
<1>4. ASSUME NEW p \in Proc, keys' = Written(p), k # tx[p].retires
      PROVE  keys'[k] = keys[k]
    BY <1>4, CommitTable DEF CommitEffect
<1> QED BY <1>2, <1>3, <1>4, KeyWriters

\* A pending retirement never lags the first one by more than a transaction.
THEOREM StaleRetirements == Spec => []StaleInv
<1> QED BY StaleInit, StaleStep, KeyInvariant, PTL DEF Spec

\* Overlapping rotations move a grace deadline by at most MaxTxTime (the guard of
\* SigningKey.retire, on an entity that may be stale).
THEOREM DeadlineDrift == Spec => DeadlineDriftIsBounded
<1>1. KeyInv /\ StaleInv /\ [Next]_keyVars =>
        \A k \in Stored : keys[k].expires # Null => keys'[k].expires # Null /\ DriftBound(k)
    BY DriftStep
<1> QED BY <1>1, KeyInvariant, StaleRetirements, PTL DEF Spec, DeadlineDriftIsBounded

-------------------------------------------------------------------------------
(* Transactions that do not overlap. *)

\* What a transaction has pending is right when nobody wrote since it read: the
\* key it retires is active, and its own key will be the only one.
AloneOK(p) ==
  /\ tx[p].retires # Null => tx[p].retires \in Active
  /\ tx[p].made # Null => Active \subseteq {tx[p].retires}

AloneInv == SingleActiveKey /\ \A p \in Proc : AloneOK(p)

\* What a step may do to the writes a transaction has pending.
LEMMA PendingWrites ==
  ASSUME KeyInv, [Next]_keyVars, NEW p \in Proc
  PROVE  \/ tx'[p].made = tx[p].made /\ tx'[p].retires = tx[p].retires
         \/ tx'[p].made = Null /\ tx'[p].retires = Null
         \/ keys' = keys /\ tx'[p].retires \in Active
         \/ keys' = keys /\ tx'[p].retires = Null /\ Active = {}
<1> DEFINE Goal == \/ tx'[p].made = tx[p].made /\ tx'[p].retires = tx[p].retires
                   \/ tx'[p].made = Null /\ tx'[p].retires = Null
                   \/ keys' = keys /\ tx'[p].retires \in Active
                   \/ keys' = keys /\ tx'[p].retires = Null /\ Active = {}
<1>1. tx \in [Proc -> Tx]
    BY DEF KeyInv, TypeOK
<1>2. CASE tx'[p] = tx[p]
    BY <1>2
<1>3. CASE tx'[p] = Idle
    BY <1>3 DEF Idle
<1>4. ASSUME NEW q \in Proc, Finish(q) PROVE Goal
    BY <1>1, <1>2, <1>3, <1>4 DEF Finish
<1>5. CASE UNCHANGED keyVars \/ Tick
    BY <1>2, <1>5 DEF keyVars, Tick
<1>6. ASSUME NEW s \in Secret, Restart(s) PROVE Goal
    BY <1>3, <1>6 DEF Restart
<1>7. ASSUME NEW q \in Proc, BeginMint(q) \/ BeginRotate(q) PROVE Goal
  <2>1. q # p => tx'[p] = tx[p]
      BY <1>1, <1>7 DEF BeginMint, BeginRotate
  <2>2. q = p => tx'[p].retires = Null /\ tx'[p].made = Null
      BY <1>1, <1>7 DEF BeginMint, BeginRotate, Idle
  <2> QED BY <2>1, <2>2
<1>8. ASSUME NEW q \in Proc, ReadActive(q) \/ FindOverdue(q) \/ SelectKey(q) PROVE Goal
    BY <1>8, LookupFrame
<1>9. ASSUME NEW q \in Proc, Bootstrap(q) PROVE Goal
  <2>1. q # p => tx'[p] = tx[p]
      BY <1>1, <1>9 DEF Bootstrap
  <2>2. tx[q].retires = Null /\ keys' = keys /\ Active = {}
      BY <1>9 DEF Bootstrap, KeyInv, TxOK, WritesOK
  <2>3. q = p => tx'[p].retires = tx[p].retires
      BY <1>1, <1>9 DEF Bootstrap, Tx
  <2> QED BY <2>1, <2>2, <2>3
<1>10. ASSUME NEW q \in Proc, Rotate(q) PROVE Goal
  <2>1. q # p => tx'[p] = tx[p]
      BY <1>1, <1>10 DEF Rotate
  <2>2. q = p => /\ keys' = keys
                 /\ \/ tx'[p].retires \in Active
                    \/ tx'[p].retires = Null /\ Active = {}
      BY <1>1, <1>10 DEF Rotate, Tx
  <2> QED BY <2>1, <2>2
<1> QED BY <1>4, <1>5, <1>6, <1>7, <1>8, <1>9, <1>10
        DEF Next, CannotOpen, KeyMismatch, CommitMint, CommitRotate, Fail

LEMMA AloneInit == Init => AloneInv
<1> SUFFICES ASSUME Init PROVE AloneInv
    OBVIOUS
<1>1. Active = {}
    BY DEF Init, Active, Stored
<1> QED BY <1>1 DEF Init, AloneInv, AloneOK, SingleActiveKey, Idle

\* The commit of a transaction that was alone retires the one active key.
LEMMA AloneCommit ==
  ASSUME KeyInv, AloneInv, NEW p \in Proc, keys' = Written(p)
  PROVE  SingleActiveKey' /\ \A k \in Stored : keys[k].expires # Null => keys'[k] = keys[k]
<1>1. CommitEffect(p) /\ AloneOK(p) /\ (tx[p].retires # Null => tx[p].made # Null)
    BY CommitTable DEF AloneInv, KeyInv, TxOK, WritesOK
<1>2. CASE tx[p].made = Null
    BY <1>1, <1>2 DEF CommitEffect, AloneInv, SingleActiveKey, Active, Stored
<1>3. CASE tx[p].made # Null
  <2>1. \A k \in Active' : k = tx[p].made
    <3> SUFFICES ASSUME NEW k \in Active', k # tx[p].made PROVE FALSE
        OBVIOUS
    <3>1. k \in Stored /\ keys'[k].expires = Null
        BY <1>1 DEF Active, CommitEffect
    <3>2. CASE k = tx[p].retires
        BY <1>1, <3>1, <3>2 DEF CommitEffect, Stored
    <3>3. CASE k # tx[p].retires
      <4>1. keys'[k] = keys[k]
          BY <1>1, <3>1, <3>3 DEF CommitEffect
      <4> QED BY <1>1, <1>3, <3>1, <3>3, <4>1 DEF AloneOK, Active
    <3> QED BY <3>2, <3>3
  <2>2. \A k \in Stored : keys[k].expires # Null => k # tx[p].retires
      BY <1>1 DEF AloneOK, Active, Stored
  <2> QED BY <1>1, <2>1, <2>2 DEF SingleActiveKey, CommitEffect
<1> QED BY <1>2, <1>3

LEMMA AloneStep ==
  ASSUME \A p, q \in Proc : p = q, KeyInv, AloneInv, [Next]_keyVars
  PROVE  AloneInv' /\ \A k \in Stored : keys[k].expires # Null => keys'[k].expires = keys[k].expires
<1>1. CASE keys' = keys
  <2>1. Active' = Active
      BY <1>1 DEF Active, Stored
  <2>2. ASSUME NEW p \in Proc PROVE AloneOK(p)'
    <3>1. AloneOK(p)
        BY DEF AloneInv
    <3>2. tx'[p].retires \in Active => Active \subseteq {tx'[p].retires}
        BY DEF AloneInv, SingleActiveKey
    <3> QED BY <2>1, <3>1, <3>2, PendingWrites DEF AloneOK
  <2> QED BY <1>1, <2>1, <2>2 DEF AloneInv, SingleActiveKey
<1>2. ASSUME NEW p \in Proc, keys' = Written(p), Finish(p)
      PROVE  AloneInv' /\ \A k \in Stored : keys[k].expires # Null => keys'[k].expires = keys[k].expires
  <2>1. SingleActiveKey' /\ \A k \in Stored : keys[k].expires # Null => keys'[k] = keys[k]
      BY <1>2, AloneCommit
  <2>2. tx'[p] = Idle
      BY <1>2 DEF Finish, KeyInv, TypeOK
  <2>3. \A q \in Proc : AloneOK(q)'
      BY <2>2 DEF AloneOK, Idle
  <2> QED BY <2>1, <2>3 DEF AloneInv
<1> QED BY <1>1, <1>2, KeyWriters

\* Overlap is the only way to the two defects of the key table: with one
\* transaction at a time there is a single active key, as SigningKey says, and
\* the guard of retire keeps every deadline.
THEOREM OneAtATimeIsSound ==
  ASSUME \A p, q \in Proc : p = q
  PROVE  Spec => []SingleActiveKey /\ GraceDeadlineStays
<1>1. KeyInv /\ AloneInv /\ [Next]_keyVars =>
        AloneInv' /\ \A k \in Stored : keys[k].expires # Null => keys'[k].expires = keys[k].expires
    BY AloneStep
<1>2. AloneInv => SingleActiveKey
    BY DEF AloneInv
<1> QED BY <1>1, <1>2, AloneInit, KeyInvariant, PTL DEF Spec, GraceDeadlineStays

-------------------------------------------------------------------------------
(* The table of keys implements KeyRing. *)

LEMMA PublishedCovers == KeyInv => KR!Covered
BY KeysVerify DEF TokensVerify, KR!Covered, Published

LEMMA StillCovers == KeyInv' => KR!Covered'
<1>1. KeyInv => KR!Covered
    BY PublishedCovers
<1> QED BY <1>1, PTL

LEMMA InitRing == Init => KR!Init
<1> SUFFICES ASSUME Init PROVE KR!Init
    OBVIOUS
<1>1. Published = {}
    BY DEF Init, Published, Servable, Stored
<1> QED BY <1>1 DEF Init, KR!Init

\* Time only takes keys out.
LEMMA TickRing ==
  ASSUME KeyInv, KeyInv', Tick
  PROVE  KR!Tick
<1>1. clock' = clock + 1 /\ clock \in Nat /\ keys' = keys /\ signed' = signed
    BY DEF Tick, KeyInv, TypeOK
<1>2. Published' \subseteq Published
  <2> SUFFICES ASSUME NEW k \in Kid, Servable(k)' PROVE Servable(k)
      BY DEF Published
  <2>1. k \in Stored /\ (keys[k].expires # Null => keys[k].expires > clock + 1)
      BY <1>1 DEF Servable, Stored
  <2>2. keys[k].expires # Null => keys[k].expires \in Nat
      BY <2>1 DEF KeyInv, TypeOK, Stored, Key
  <2> QED BY <1>1, <2>1, <2>2 DEF Servable
<1>3. KR!Covered'
    BY StillCovers
<1> QED BY <1>1, <1>2, <1>3 DEF KR!Tick

\* A commit takes none out: a key it retires, for the first time or again, gets
\* a deadline that lies ahead.
LEMMA CommitGrows ==
  ASSUME KeyInv, NEW p \in Proc, keys' = Written(p), clock' = clock
  PROVE  Published \subseteq Published' /\ Published' \subseteq Kid
<1>1. CommitEffect(p) /\ clock \in Nat
    BY CommitTable DEF KeyInv, TypeOK
<1> SUFFICES ASSUME NEW k \in Kid, Servable(k) PROVE Servable(k)'
    BY DEF Published
<1>2. k \in Stored /\ k \in Stored'
    BY <1>1 DEF Servable, CommitEffect
<1>3. CASE k = tx[p].retires
  <2>1. tx[p].retires # Null
      BY <1>3
  <2>2. keys'[k].expires \in Nat /\ clock + AccessTTL <= keys'[k].expires
      BY <1>1, <1>3, <2>1 DEF CommitEffect
  <2>3. keys'[k].expires > clock'
      BY <1>1, <2>2
  <2> QED BY <1>2, <2>3 DEF Servable
<1>4. CASE k # tx[p].retires
  <2>1. keys'[k] = keys[k]
      BY <1>1, <1>2, <1>4 DEF CommitEffect
  <2> QED BY <1>2, <2>1 DEF Servable
<1> QED BY <1>3, <1>4

LEMMA CommitMintRing ==
  ASSUME KeyInv, KeyInv', NEW p \in Proc, CommitMint(p)
  PROVE  [KR!Next]_(KR!vars)
<1> DEFINE k == tx[p].kid
           exp == tx[p].iat + AccessTTL
<1>1. /\ k \in Kid /\ tx[p].iat \in Nat /\ tx[p].iat <= clock
      /\ clock \in Nat /\ signed \in [Kid -> Nat]
    BY DEF CommitMint, KeyInv, TypeOK, Tx, TxOK, SignerOK
<1>2. clock' = clock /\ signed' = [signed EXCEPT ![k] = IF @ < exp THEN exp ELSE @]
    BY DEF CommitMint, Finish
<1>3. Published \subseteq Published' /\ Published' \subseteq Kid
    BY <1>2, CommitGrows DEF CommitMint
<1>4. KR!Covered'
    BY StillCovers
<1>5. CASE signed[k] < exp
  <2>1. signed' = [signed EXCEPT ![k] = exp]
      BY <1>1, <1>2, <1>5
  <2>2. exp \in (signed[k] + 1) .. (clock + AccessTTL)
      BY <1>1, <1>5
  <2>3. KR!Mint(k)
      BY <1>2, <1>3, <1>4, <2>1, <2>2 DEF KR!Mint
  <2> QED BY <1>1, <2>3 DEF KR!Next
<1>6. CASE ~(signed[k] < exp)
  <2>1. signed' = signed
      BY <1>1, <1>2, <1>6
  <2> QED BY <1>2, <1>3, <2>1 DEF KR!Next, KR!Grow
<1> QED BY <1>5, <1>6

LEMMA CommitRotateRing ==
  ASSUME KeyInv, NEW p \in Proc, CommitRotate(p)
  PROVE  KR!Grow
<1>1. clock' = clock /\ signed' = signed /\ keys' = Written(p)
    BY DEF CommitRotate, Finish
<1> QED BY <1>1, CommitGrows DEF KR!Grow

LEMMA StepRing ==
  ASSUME KeyInv, KeyInv', [Next]_keyVars
  PROVE  [KR!Next]_(KR!vars)
<1>1. CASE Tick
    BY <1>1, TickRing DEF KR!Next
<1>2. ASSUME NEW p \in Proc, CommitMint(p) PROVE [KR!Next]_(KR!vars)
    BY <1>2, CommitMintRing
<1>3. ASSUME NEW p \in Proc, CommitRotate(p) PROVE [KR!Next]_(KR!vars)
    BY <1>3, CommitRotateRing DEF KR!Next
<1>4. CASE ~Tick /\ ~\E p \in Proc : CommitMint(p) \/ CommitRotate(p)
  <2>1. clock' = clock /\ keys' = keys /\ signed' = signed
      BY <1>4 DEF Next, keyVars, Restart, BeginMint, Bootstrap, ReadActive, CannotOpen,
                  FindOverdue, SelectKey, KeyMismatch, BeginRotate, Rotate, Fail, Finish
  <2>2. Published' = Published
      BY <2>1 DEF Published, Servable, Stored
  <2> QED BY <2>1, <2>2 DEF KR!vars
<1> QED BY <1>1, <1>2, <1>3, <1>4

\* The transactions over the key table behave, for those who verify tokens, as a
\* ring of keys that only time takes keys out of.
THEOREM RingRefinement == Spec => ImplementsKeyRing
<1>1. KeyInv /\ KeyInv' /\ [Next]_keyVars => [KR!Next]_(KR!vars)
    BY StepRing
<1> QED BY <1>1, InitRing, KeyInvariant, PTL DEF Spec, ImplementsKeyRing, KR!Spec
===============================================================================
