---------------------------- MODULE RefreshClients ----------------------------
(***************************************************************************)
(* Refresh sessions with the clients that hold the tokens.  A client keeps *)
(* the refresh token it was answered last, has one call under way at a     *)
(* time, and may give up on it (a timeout, a broken connection): the       *)
(* request goes on, and nobody hears its answer.  It may then present the  *)
(* same token again while the abandoned request still runs.               *)
(*                                                                         *)
(* No token is held by two clients: what happens to one that is, module    *)
(* Sessions shows, where any stored token may be presented at any time.    *)
(* Here the service meets clients that are only unlucky.  Each of its      *)
(* steps is taken as it stands there.                                      *)
(***************************************************************************)
EXTENDS Sessions

CONSTANT Client

VARIABLE client   \* client[c]: what c holds and what it waits for

clientVars == <<clock, sessions, lock, tx, client>>

Holder == [tok    : Sid \cup {Null},    \* the token it would present
           on     : Proc \cup {Null},   \* the request whose answer it waits for
           gaveUp : BOOLEAN]            \* it missed an answer since it signed in

SignedOut == [tok |-> Null, on |-> Null, gaveUp |-> FALSE]

ClientInit ==
  /\ Init
  /\ client = [c \in Client |-> SignedOut]

\* The answer of p reaches the client that waits for it, if one still does, and
\* leaves it with token t.
Hear(p, t) ==
  client' = [c \in Client |->
               IF client[c].on # p THEN client[c]
               ELSE [client[c] EXCEPT !.on = Null, !.tok = t,
                                      !.gaveUp = @ /\ t # Null]]

\* Mutant: nobody is told of a failed request.
HearNoError(p) == UNCHANGED client

\* An error answer: the client keeps what it has.
HearError(p) ==
  client' = [c \in Client |->
               IF client[c].on = p THEN [client[c] EXCEPT !.on = Null] ELSE client[c]]

\* POST /auth/sign-in by a client that holds nothing, POST /auth/token and POST
\* /auth/sign-out with the token it holds.
Ask(c, p) ==
  /\ client[c].on = Null
  /\ IF client[c].tok = Null
       THEN SignIn(p)
       ELSE \E op \in {"rotate", "signOut"} : Present(p, op, client[c].tok)
  /\ client' = [client EXCEPT ![c].on = p]

\* 200 with a new refresh token.
Issue(p) ==
  /\ OpenRoot(p) \/ Rotate(p)
  /\ \E s \in Stored' \ Stored : Hear(p, s)

\* 401: SESSION_REVOKED, SESSION_EXPIRED or REFRESH_REUSE_DETECTED.
Refuse(p) ==
  /\ RejectRevoked(p) \/ RejectExpired(p) \/ CommitRevoke(p)
  /\ Hear(p, Null)

\* 204.
Release(p) ==
  /\ SignOut(p)
  /\ Hear(p, Null)

\* 500: the transaction was rolled back.  (When the commit itself is in doubt
\* the client knows no more than one that gave up.)
Error(p) ==
  /\ Fail(p) \/ DeadlockVictim(p) \/ OutOfIds(p)
  /\ HearError(p)

\* A step inside the transaction.
Proceed(p) ==
  /\ ReuseDetected(p) \/ \E s \in Sid : AwaitRow(p, s)
  /\ UNCHANGED client

TakeLock(p) == Acquire(p) /\ UNCHANGED client
RevokeNext(p) == (\E s \in Sid : RevokeRow(p, s)) /\ UNCHANGED client

\* The client stops waiting; the request does not notice.
GiveUp(c) ==
  /\ client[c].on # Null
  /\ client' = [client EXCEPT ![c].on = Null, ![c].gaveUp = client[c].tok # Null]
  /\ UNCHANGED vars

\* What a running request does next without waiting for another one.
Serve(p) ==
  \/ Issue(p) \/ Refuse(p) \/ Release(p) \/ Proceed(p)
  \/ OutOfIds(p) /\ Error(p)

ClientNext ==
  \/ Tick /\ UNCHANGED client
  \/ \E c \in Client :
       \/ GiveUp(c)
       \/ \E p \in Proc : Ask(c, p)
  \/ \E p \in Proc : Serve(p) \/ TakeLock(p) \/ RevokeNext(p) \/ Error(p)

ClientSpec == ClientInit /\ [][ClientNext]_clientVars

\* A transaction that can go on does; a row lock is granted in the order of
\* the queue for it, so nobody is passed over for ever; the deadlock detector
\* runs.  Nothing makes the clock advance, a client ask or a client give up.
ClientFairness ==
  /\ \A p \in Proc :
       /\ WF_clientVars(Serve(p))
       /\ SF_clientVars(TakeLock(p))
       /\ SF_clientVars(RevokeNext(p))
  /\ WF_clientVars(\E p \in Proc : DeadlockVictim(p) /\ Error(p))

FairClientSpec == ClientSpec /\ ClientFairness

-------------------------------------------------------------------------------
\* No session of the family of t can be rotated any more.
Ended(t) == \A s \in Stored : SameFamily(t, s) => ~IsActive(sessions[s], clock)

\* Every client has its type; the token it holds is stored, and the request it
\* waits for is running, presents that token and is nobody else's.
ClientTypeOK ==
  /\ client \in [Client -> Holder]
  /\ \A c \in Client :
       /\ client[c].tok # Null => client[c].tok \in Stored
       /\ client[c].on # Null => tx[client[c].on].pc # "idle" /\ tx[client[c].on].tok = client[c].tok
       /\ \A d \in Client : client[c].on # Null /\ client[c].on = client[d].on => c = d

\* A client that hears all its answers is never signed out behind its back:
\* what it holds is the live head of its family, whatever failed, was rolled
\* back and tried again.  Reuse detection does not punish it.
PatientClientStaysSignedIn ==
  \A c \in Client : client[c].tok # Null /\ ~client[c].gaveUp => Live(client[c].tok)

\* A 401 is final: no session of the family can be used any more, the successor
\* that was issued to a call the client gave up on included.  Nobody is left
\* with a live session that its owner was told is gone.
RefusalIsFinal ==
  [][\A p \in Proc, c \in Client, t \in Sid :
       Refuse(p) /\ client[c].on = p /\ client[c].tok = t => Ended(t)']_clientVars

\* Some client holds s, or a request that is still under way presents it.
InReach(s) ==
  \/ \E c \in Client : client[c].tok = s
  \/ \E p \in Proc : tx[p].pc \in {"lookup", "locked", "revoke"} /\ tx[p].tok = s

\* A 204 is final.  The only sessions of the family that may outlive it are the
\* successors of a spent token whose rotation was answered into the void, and
\* nobody holds or presents one of those: whatever the client gave up on, and
\* whichever of its abandoned calls still run, no session of the family is
\* rotated again.
ReleaseIsFinal ==
  [][\A p \in Proc, c \in Client, t \in Sid :
       Release(p) /\ client[c].on = p /\ client[c].tok = t =>
         /\ sessions[t].rotated = Null => Ended(t)'
         /\ \A s \in Stored : SameFamily(t, s) /\ IsActive(sessions[s], clock)'
                             => ~InReach(s)']_clientVars
===============================================================================
