------------------------------ MODULE SigningKeys ------------------------------
(***************************************************************************)
(* The signing keys of the auth-service: bootstrap of the first key, lazy  *)
(* rotation when a mint finds the active key overdue, the rotation         *)
(* operation, and the published set.  A mint runs inside the transaction   *)
(* of a sign-in or of a token rotation and looks the active key up twice,  *)
(* for the token's kid and, in the encoder, for the key that signs.        *)
(* Nothing is locked before a key is written, so a second transaction      *)
(* may read the key set between any two statements of the first.  A call   *)
(* reads the clock before its query: the instant it works with is any that *)
(* has passed since the call before it.                                    *)
(* Private keys are stored sealed under a secret the process gets from its *)
(* environment; a restart may come with another one.                       *)
(***************************************************************************)
EXTENDS Naturals

CONSTANTS
  Proc,          \* request threads, each with a transaction of its own
  Kid,           \* keys that may be generated; bounds the number of rotations
  Secret,        \* values of AUTH_JWKS_ENC_KEY
  Null,          \* expires_at of an active key, a free lock, no key
  NoKey,         \* a key that is not stored
  ActivePeriod,  \* ACTIVE_PERIOD, in clock ticks
  Grace,         \* GRACE
  AccessTTL,     \* AccessTokens.ACCESS_TTL
  MaxTxTime,     \* the longest a transaction that retires a key stays open
  MaxTime        \* bound on the clock

ASSUME KeyNullAssumption == Null \notin Nat /\ Null \notin Kid /\ Null \notin Proc
ASSUME PeriodAssumption ==
  /\ ActivePeriod \in Nat /\ Grace \in Nat /\ AccessTTL \in Nat \ {0}
  /\ MaxTxTime \in Nat /\ MaxTime \in Nat

\* 15 minutes and the longest transaction fit into 30 days.
ASSUME GraceAssumption == AccessTTL + MaxTxTime <= Grace

\* A row of table jwks; its id is the kid.  Of the key material only the secret
\* that seals private_key is kept.
Key == [created : Nat, expires : Nat \cup {Null}, seal : Secret]

ASSUME NoKeyAssumption == NoKey \notin Key

VARIABLES
  secret,        \* the secret the running process was started with
  clock,         \* what Instant.now() reads
  keys,          \* the committed rows
  lock,          \* lock[k]: the transaction that holds the row lock of k
  signed,        \* signed[k]: when the last token signed with k expires, 0 if none was
  tx             \* tx[p]: the request p is serving and its transaction

keyVars == <<secret, clock, keys, lock, signed, tx>>

Tx == [pc      : {"idle", "mint", "rotate", "keyed", "signed"},
       op      : {"none", "mint", "rotate"},
       iat     : Nat,                \* AccessTokens.mint's reading of the clock
       now     : Nat,                \* the last reading; it stamps the pending writes
       kid     : Kid \cup {Null},    \* the kid for the JWS header
       signer  : Kid \cup {Null},    \* the key that signed
       made    : Kid \cup {Null},    \* a generated key, not yet committed
       retires : Kid \cup {Null}]    \* a key retired by this transaction, not yet committed

Idle == [pc |-> "idle", op |-> "none", iat |-> 0, now |-> 0,
         kid |-> Null, signer |-> Null, made |-> Null, retires |-> Null]

-------------------------------------------------------------------------------
Stored == {k \in Kid : keys[k] # NoKey}
Fresh  == {k \in Kid : keys[k] = NoKey /\ \A q \in Proc : tx[q].made # k}
Active == {k \in Stored : keys[k].expires = Null}

\* The active keys the running process can sign with.
Openable == {k \in Active : keys[k].seal = secret}

\* Mutant: the boundary instant still counts as active.
OverdueTooLate(created, t) == created + ActivePeriod < t

Overdue(created, t) == created + ActivePeriod <= t

\* Mutant: the published set is the issuer's JWKSource, which has no retired key.
ServableIssuer(k) == k \in Stored /\ keys[k].expires = Null

\* Mutant: the published set is derived from the opened private keys.
ServableOpened(k) ==
  /\ k \in Stored /\ keys[k].seal = secret
  /\ (keys[k].expires = Null \/ keys[k].expires > clock)

\* What publicJwkSet serves: the active keys and the ones in their grace window,
\* from their public halves, which are not sealed.
Servable(k) == k \in Stored /\ (keys[k].expires = Null \/ keys[k].expires > clock)

Published == {k \in Kid : Servable(k)}

\* What Instant.now() may have read at the start of a call of p that queries now.
Readings(p) == tx[p].now .. clock

\* The active keys a query of p returns: the committed ones, with its own writes.
ActiveFor(p) == (Active \ {tx[p].retires}) \cup ({tx[p].made} \ {Null})
CreatedFor(p, k) == IF k = tx[p].made THEN tx[p].now ELSE keys[k].created

\* Mutant: a retired key is dropped at once.
WrittenNoGrace(p) ==
  [k \in Kid |-> IF k = tx[p].made THEN [created |-> tx[p].now, expires |-> Null, seal |-> secret]
            ELSE IF k = tx[p].retires THEN [keys[k] EXCEPT !.expires = tx[p].now]
            ELSE keys[k]]

\* Mutant: created_at is not set and the row is inserted with NULL.
WrittenNoCreated(p) ==
  [k \in Kid |-> IF k = tx[p].made THEN [created |-> Null, expires |-> Null, seal |-> secret]
            ELSE IF k = tx[p].retires THEN [keys[k] EXCEPT !.expires = tx[p].now + Grace]
            ELSE keys[k]]

\* Mutant: a commit deletes the keys retired before.
WrittenPurges(p) ==
  [k \in Kid |-> IF k = tx[p].made THEN [created |-> tx[p].now, expires |-> Null, seal |-> secret]
            ELSE IF k = tx[p].retires THEN [keys[k] EXCEPT !.expires = tx[p].now + Grace]
            ELSE IF k \in Stored \ Active /\ tx[p].made # Null THEN NoKey
            ELSE keys[k]]

\* The table with the writes of p: the generated key and the retired one.
Written(p) ==
  [k \in Kid |-> IF k = tx[p].made THEN [created |-> tx[p].now, expires |-> Null, seal |-> secret]
            ELSE IF k = tx[p].retires THEN [keys[k] EXCEPT !.expires = tx[p].now + Grace]
            ELSE keys[k]]

-------------------------------------------------------------------------------
Init ==
  /\ secret \in Secret
  /\ clock = 0
  /\ keys = [k \in Kid |-> NoKey]
  /\ lock = [k \in Kid |-> Null]
  /\ signed = [k \in Kid |-> 0]
  /\ tx = [p \in Proc |-> Idle]

\* A transaction that is about to retire a key ends within MaxTxTime.
Tick ==
  /\ clock < MaxTime
  /\ \A p \in Proc : tx[p].retires # Null => clock < tx[p].now + MaxTxTime
  /\ clock' = clock + 1
  /\ UNCHANGED <<secret, keys, lock, signed, tx>>

\* The transaction of p ends, committed or rolled back.
Finish(p) ==
  /\ tx' = [tx EXCEPT ![p] = Idle]
  /\ lock' = [k \in Kid |-> IF lock[k] = p THEN Null ELSE lock[k]]
  /\ UNCHANGED <<secret, clock>>

(* The mint: AccessTokens.mint. *)

BeginMint(p) ==
  /\ tx[p].pc = "idle"
  /\ tx' = [tx EXCEPT ![p] = [Idle EXCEPT !.pc = "mint", !.op = "mint",
                                         !.iat = clock, !.now = clock]]
  /\ UNCHANGED <<secret, clock, keys, lock, signed>>

\* First activeSigningKey, no active key yet: generate one, stored by the commit.
Bootstrap(p) ==
  /\ tx[p].pc = "mint"
  /\ Active = {}
  /\ \E k \in Fresh, now \in Readings(p) :
       tx' = [tx EXCEPT ![p] = [@ EXCEPT !.pc = "keyed", !.now = now, !.kid = k, !.made = k]]
  /\ UNCHANGED <<secret, clock, keys, lock, signed>>

\* First activeSigningKey, some active key is in its active period: it is opened
\* and its kid goes into the header.
ReadActive(p) ==
  /\ tx[p].pc = "mint"
  /\ \E k \in Active, now \in Readings(p) :
       /\ ~Overdue(keys[k].created, now)
       /\ keys[k].seal = secret
       /\ tx' = [tx EXCEPT ![p] = [@ EXCEPT !.pc = "keyed", !.now = now, !.kid = k]]
  /\ UNCHANGED <<secret, clock, keys, lock, signed>>

\* First activeSigningKey, the key it found was sealed under another secret: the
\* GCM tag does not verify, decrypt throws and everything is rolled back.
CannotOpen(p) ==
  /\ tx[p].pc = "mint"
  /\ \E k \in Active, now \in Readings(p) :
       ~Overdue(keys[k].created, now) /\ keys[k].seal # secret
  /\ Finish(p)
  /\ UNCHANGED <<keys, signed>>

\* First activeSigningKey, the key it found is past its active period: rotate()
\* is called, which reads the clock again.
FindOverdue(p) ==
  /\ tx[p].pc = "mint"
  /\ \E k \in Active, now \in Readings(p) : Overdue(keys[k].created, now)
  /\ tx' = [tx EXCEPT ![p] = [@ EXCEPT !.pc = "rotate", !.now = clock]]
  /\ UNCHANGED <<secret, clock, keys, lock, signed>>

\* The rotation operation, on its own.
BeginRotate(p) ==
  /\ tx[p].pc = "idle"
  /\ tx' = [tx EXCEPT ![p] = [Idle EXCEPT !.pc = "rotate", !.op = "rotate", !.now = clock]]
  /\ UNCHANGED <<secret, clock, keys, lock, signed>>

\* Mutant: the successor of the retired key is not generated.
RotateNoSuccessor(p) ==
  /\ tx[p].pc = "rotate"
  /\ \E old \in Active, now \in Readings(p) :
       /\ clock <= now + MaxTxTime
       /\ tx' = [tx EXCEPT ![p] = [@ EXCEPT !.pc = "keyed", !.now = now,
                                            !.kid = old, !.retires = old]]
  /\ UNCHANGED <<secret, clock, keys, lock, signed>>

\* Mutant: of several active keys one is retired without a successor.
RotateSurplus(p) ==
  /\ tx[p].pc = "rotate"
  /\ \E new \in Fresh, old \in IF Active = {} THEN {Null} ELSE Active, now \in Readings(p) :
       LET made == IF Active \ {old} = {} THEN new ELSE Null IN
       /\ clock <= now + MaxTxTime
       /\ tx' = [tx EXCEPT ![p] = [@ EXCEPT !.pc = "keyed", !.now = now, !.kid = made,
                                            !.made = made, !.retires = old]]
  /\ UNCHANGED <<secret, clock, keys, lock, signed>>

\* Mutant: retire without its guard, on any stored key: one retired long ago too.
RotateRetired(p) ==
  /\ tx[p].pc = "rotate"
  /\ \E new \in Fresh, old \in IF Stored = {} THEN {Null} ELSE Stored, now \in Readings(p) :
       /\ clock <= now + MaxTxTime
       /\ tx' = [tx EXCEPT ![p] = [@ EXCEPT !.pc = "keyed", !.now = now, !.kid = new,
                                            !.made = new, !.retires = old]]
  /\ UNCHANGED <<secret, clock, keys, lock, signed>>

\* rotate(): reads the clock, looks the active key up again, which need not be
\* the one that was overdue, retires it and generates its successor.  Nothing is
\* written yet.
Rotate(p) ==
  /\ tx[p].pc = "rotate"
  /\ \E new \in Fresh, old \in IF Active = {} THEN {Null} ELSE Active, now \in Readings(p) :
       /\ clock <= now + MaxTxTime
       /\ tx' = [tx EXCEPT ![p] = [@ EXCEPT !.pc = "keyed", !.now = now, !.kid = new,
                                            !.made = new, !.retires = old]]
  /\ UNCHANGED <<secret, clock, keys, lock, signed>>

\* The pending writes are flushed: the UPDATE of the retired key needs its row
\* lock, and does not look at what another transaction has made of the row.
CanFlush(p) == tx[p].retires # Null => lock[tx[p].retires] = Null

\* Mutant: the source hands over the key it finds, whatever the selector asks for.
SelectKeyAnyKid(p) ==
  /\ tx[p].pc = "keyed" /\ tx[p].op = "mint"
  /\ CanFlush(p)
  /\ \E k \in ActiveFor(p), now \in Readings(p) :
       /\ ~Overdue(CreatedFor(p, k), now)
       /\ tx' = [tx EXCEPT ![p] = [@ EXCEPT !.pc = "signed", !.signer = k]]
  /\ lock' = IF tx[p].retires = Null THEN lock ELSE [lock EXCEPT ![tx[p].retires] = p]
  /\ UNCHANGED <<secret, clock, keys, signed>>

\* Second activeSigningKey, in the encoder's key source: the query flushes, and
\* the key it finds is the one the selector asks for, named in the header.
SelectKey(p) ==
  /\ tx[p].pc = "keyed" /\ tx[p].op = "mint"
  /\ CanFlush(p)
  /\ \E k \in ActiveFor(p), now \in Readings(p) :
       /\ k = tx[p].kid
       /\ ~Overdue(CreatedFor(p, k), now)
       /\ tx' = [tx EXCEPT ![p] = [@ EXCEPT !.pc = "signed", !.signer = k]]
  /\ lock' = IF tx[p].retires = Null THEN lock ELSE [lock EXCEPT ![tx[p].retires] = p]
  /\ UNCHANGED <<secret, clock, keys, signed>>

\* Second activeSigningKey returns another key, found or just generated: no
\* key matches the header, or the key cannot be opened; the encoder throws and
\* everything is rolled back.
KeyMismatch(p) ==
  /\ tx[p].pc = "keyed" /\ tx[p].op = "mint"
  /\ CanFlush(p)
  /\ \E k \in ActiveFor(p), now \in Readings(p) :
       k # tx[p].kid \/ Overdue(CreatedFor(p, k), now)
  /\ Finish(p)
  /\ UNCHANGED <<keys, signed>>

\* The sign-in or token rotation commits and answers with the token.
CommitMint(p) ==
  LET exp == tx[p].iat + AccessTTL IN
  /\ tx[p].pc = "signed"
  /\ keys' = Written(p)
  /\ signed' = [signed EXCEPT ![tx[p].kid] = IF @ < exp THEN exp ELSE @]
  /\ Finish(p)

\* The rotation operation commits.
CommitRotate(p) ==
  /\ tx[p].pc = "keyed" /\ tx[p].op = "rotate"
  /\ CanFlush(p)
  /\ keys' = Written(p)
  /\ Finish(p)
  /\ UNCHANGED signed

\* A crash, a lost connection or a failure of the rest of the use case.
Fail(p) ==
  /\ tx[p].pc # "idle"
  /\ Finish(p)
  /\ UNCHANGED <<keys, signed>>

\* The process is restarted, with the same secret or another one; PostgreSQL rolls
\* its transactions back.
Restart(s) ==
  /\ secret' = s
  /\ tx' = [p \in Proc |-> Idle]
  /\ lock' = [k \in Kid |-> Null]
  /\ UNCHANGED <<clock, keys, signed>>

Next ==
  \/ Tick
  \/ \E s \in Secret : Restart(s)
  \/ \E p \in Proc :
       \/ BeginMint(p) \/ Bootstrap(p)
       \/ ReadActive(p) \/ CannotOpen(p) \/ FindOverdue(p)
       \/ SelectKey(p) \/ KeyMismatch(p) \/ CommitMint(p)
       \/ BeginRotate(p) \/ Rotate(p) \/ CommitRotate(p)
       \/ Fail(p)

Spec == Init /\ [][Next]_keyVars

-------------------------------------------------------------------------------
(* Invariants. *)

\* Every variable has its type.
TypeOK ==
  /\ secret \in Secret
  /\ clock \in Nat
  /\ keys \in [Kid -> Key \cup {NoKey}]
  /\ lock \in [Kid -> Proc \cup {Null}]
  /\ signed \in [Kid -> Nat]
  /\ tx \in [Proc -> Tx]

\* As long as a token is valid the published set holds its key: rotations,
\* concurrent ones included, and restarts, with another secret included, never
\* cut a token off (SDD-001 invariant 8;
\* SigningKeys: "access tokens signed just before the cut keep verifying").
TokensVerify == \A k \in Kid : clock < signed[k] => Servable(k)

\* Once there is a key there is an active one: no rotation retires the last
\* signer without leaving a successor.
AlwaysASigner == Stored # {} => Active # {}

\* A token is signed by the key its header names, although the mint looks the
\* active key up once for the header and once to sign, and keys rotate in between;
\* and at the instant it claims as iat that key was within its active period,
\* however long ago it was looked up.
FreshSigner ==
  \A p \in Proc :
    tx[p].pc = "signed" => /\ tx[p].signer = tx[p].kid
                           /\ tx[p].iat < CreatedFor(p, tx[p].signer) + ActivePeriod

\* As long as the secret stays, a process that has a key to sign with keeps one:
\* no mint or rotation, whatever it read before others committed, leaves only
\* active keys the process cannot open (activeSigningKey: "never returns a key
\* whose private half cannot be recovered").
SignerStaysOpenable ==
  [][secret' = secret /\ Openable # {} => Openable' # {}]_keyVars

\* The deadline of a retired key moves when rotations overlap, but never by more
\* than the longest a transaction stays open: the guard of retire is stale for
\* no longer than that ("retiring an already-retired key would silently move its
\* grace deadline").
DriftBound(k) ==
  /\ keys'[k].expires <= keys[k].expires + MaxTxTime
  /\ keys[k].expires <= keys'[k].expires + MaxTxTime

DeadlineDriftIsBounded ==
  [][\A k \in Stored : keys[k].expires # Null => keys'[k].expires # Null /\ DriftBound(k)]_keyVars

-------------------------------------------------------------------------------
(* Refinement. *)

KR == INSTANCE KeyRing WITH ring <- Published, until <- signed

\* The table of keys, with its overlapping transactions, stale entities, moved
\* deadlines and restarts, implements KeyRing: no commit takes a key out of the
\* published set, and time does only when its tokens have expired (SDD-001
\* invariant 8).
ImplementsKeyRing == KR!Spec

-------------------------------------------------------------------------------
(* What the documents say and the code does not do. *)

\* "the single active key": two transactions that both find no active key, or
\* the same overdue one, both generate a key.
SingleActiveKey == \A j, k \in Active : j = k

\* "retiring an already-retired key would silently move its grace deadline": the
\* guard of retire is to prevent that, and looks at an entity that may be stale.
GraceDeadlineStays ==
  [][\A k \in Stored : keys[k].expires # Null => keys'[k].expires = keys[k].expires]_keyVars
===============================================================================
