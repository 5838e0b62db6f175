------------------------- MODULE RefreshClientsProofs -------------------------
(***************************************************************************)
(* Proofs about RefreshClients, for any number of clients, requests and    *)
(* sessions, any lifetime and any bound on the clock.                      *)
(***************************************************************************)
EXTENDS RefreshClients, SessionsRefines

\* p serves a request that presents a token.
Presents(p) == tx[p].pc \in {"lookup", "locked", "revoke"}

\* p presents a token of the family that c holds one of.
Kin(p, c) ==
  Presents(p) /\ client[c].tok # Null /\ SameFamily(tx[p].tok, client[c].tok)

\* What is true of each client: while it missed nothing, it holds the live head
\* and the only request about its family is its own call; at all times what
\* other requests of the family present was spent; and the family kill it waits
\* for has every session of the family in its snapshot, or finds it revoked.
ClientOK(c) ==
  /\ client[c].tok # Null => client[c].tok \in Stored
  /\ client[c].on # Null => tx[client[c].on].pc # "idle" /\ tx[client[c].on].tok = client[c].tok
  /\ client[c].tok # Null /\ ~client[c].gaveUp =>
       Live(client[c].tok) /\ \A p \in Proc : Kin(p, c) => client[c].on = p
  /\ \A p \in Proc : Kin(p, c) => \/ tx[p].tok = client[c].tok
                                  \/ sessions[tx[p].tok].rotated # Null
  /\ client[c].on # Null /\ tx[client[c].on].pc = "revoke" =>
       \A s \in Stored : SameFamily(s, client[c].tok) =>
          s \in tx[client[c].on].snap \/ sessions[s].revoked # Null

\* Clients share neither a family nor a request.
Apart ==
  \A c, d \in Client :
    \/ /\ client[c].tok # Null /\ client[d].tok # Null
       /\ SameFamily(client[c].tok, client[d].tok)
    \/ client[c].on # Null /\ client[c].on = client[d].on
    => c = d

\* The inductive invariant.
CInv ==
  /\ IInv
  /\ client \in [Client -> Holder]
  /\ Apart
  /\ \A c \in Client : ClientOK(c)

USE NullAssumption, TimeAssumption, NoRowAssumption

-------------------------------------------------------------------------------
(* The service steps as in Sessions. *)

LEMMA ServiceInit == ClientInit => Init
BY DEF ClientInit

LEMMA ServiceStep == [ClientNext]_clientVars => [Next]_vars
<1>1. ASSUME NEW c \in Client, NEW p \in Proc, Ask(c, p) PROVE Next
  <2>1. ASSUME NEW op \in {"rotate", "signOut"}, client[c].tok # Null,
               Present(p, op, client[c].tok)
        PROVE  Next
      BY <2>1 DEF Next, Present, Stored
  <2> QED BY <1>1, <2>1 DEF Ask, Next
<1>2. ASSUME NEW p \in Proc, Serve(p) \/ TakeLock(p) \/ RevokeNext(p) \/ Error(p) PROVE Next
    BY <1>2 DEF Serve, Issue, Refuse, Release, Proceed, TakeLock, RevokeNext, Error, Next, Work
<1>3. ASSUME NEW c \in Client, GiveUp(c) PROVE UNCHANGED vars
    BY <1>3 DEF GiveUp
<1> QED BY <1>1, <1>2, <1>3 DEF ClientNext, clientVars, vars, Next

\* Whatever the clients do, the service keeps its own invariant.
LEMMA ServiceInv == IInv /\ [ClientNext]_clientVars => IInv'
BY ServiceStep, StepInv

LEMMA ClientInitInv == ClientInit => CInv
<1> SUFFICES ASSUME ClientInit PROVE CInv
    OBVIOUS
<1>1. IInv
    BY ServiceInit, InitInv
<1>2. \A c \in Client : client[c] = SignedOut
    BY DEF ClientInit
<1>3. client \in [Client -> Holder]
    BY DEF ClientInit, SignedOut, Holder
<1>4. Apart
    BY <1>2 DEF Apart, SignedOut
<1>5. \A c \in Client : ClientOK(c)
    BY <1>2 DEF ClientOK, SignedOut, Kin
<1> QED BY <1>1, <1>3, <1>4, <1>5 DEF CInv

\* Steps inside the requests: nobody is answered, no row is written.
LEMMA QuietInv ==
  ASSUME CInv, IInv', client' = client, sessions' = sessions,
         \A p \in Proc :
           /\ tx'[p].tok = tx[p].tok
           /\ (tx'[p].pc = "idle") = (tx[p].pc = "idle")
           /\ Presents(p)' = Presents(p)
           /\ tx'[p].pc = "revoke" =>
                \/ tx[p].pc = "revoke" /\ tx'[p].snap = tx[p].snap
                \/ \A s \in Stored : SameFamily(s, tx[p].tok) =>
                      s \in tx'[p].snap \/ sessions[s].revoked # Null
  PROVE  CInv'
<1>1. Stored' = Stored
    BY DEF Stored
<1>2. Apart'
    BY DEF CInv, Apart, SameFamily
<1>3. ASSUME NEW c \in Client PROVE ClientOK(c)'
  <2>1. client[c] \in Holder /\ ClientOK(c) /\ (client[c].on # Null => client[c].on \in Proc)
      BY DEF CInv, Holder
  <2>2. \A p \in Proc : Kin(p, c)' = Kin(p, c)
      BY DEF Kin, SameFamily
  <2>3. Live(client[c].tok)' = Live(client[c].tok)
      BY <1>1 DEF Live
  <2>4. client[c].on # Null /\ tx'[client[c].on].pc = "revoke" =>
          \A s \in Stored : SameFamily(s, client[c].tok) =>
             s \in tx'[client[c].on].snap \/ sessions[s].revoked # Null
      BY <2>1 DEF ClientOK
  <2> QED BY <1>1, <2>1, <2>2, <2>3, <2>4 DEF ClientOK, SameFamily
<1> QED BY <1>2, <1>3 DEF CInv

\* Ask: the request is the client's own call from the start.
LEMMA AskInv ==
  ASSUME CInv, IInv', NEW c \in Client, NEW p \in Proc, Ask(c, p)
  PROVE  CInv'
<1>1. /\ tx[p].pc = "idle" /\ client[c].on = Null /\ sessions' = sessions
      /\ client' = [client EXCEPT ![c].on = p]
      /\ \A q \in Proc : q # p => tx'[q] = tx[q]
      /\ tx'[p].tok = client[c].tok
      /\ tx'[p].pc = IF client[c].tok = Null THEN "signIn" ELSE "lookup"
  <2>0. tx \in [Proc -> Tx]
      BY DEF CInv, IInv, TypeOK
  <2>1. CASE client[c].tok = Null
      BY <2>0, <2>1 DEF Ask, SignIn, Idle
  <2>2. ASSUME client[c].tok # Null, NEW op \in {"rotate", "signOut"},
               Present(p, op, client[c].tok)
        PROVE  /\ tx[p].pc = "idle" /\ sessions' = sessions
               /\ \A q \in Proc : q # p => tx'[q] = tx[q]
               /\ tx'[p].tok = client[c].tok /\ tx'[p].pc = "lookup"
      BY <2>0, <2>2 DEF Present, Idle
  <2> QED BY <2>1, <2>2 DEF Ask
<1>2. Stored' = Stored
    BY <1>1 DEF Stored
<1>3. /\ client' \in [Client -> Holder]
      /\ client'[c].on = p /\ client'[c].tok = client[c].tok
      /\ client'[c].gaveUp = client[c].gaveUp
      /\ \A d \in Client : d # c => client'[d] = client[d]
  <2>1. client \in [Client -> Holder] /\ client[c] \in Holder
      BY DEF CInv
  <2>2. [client[c] EXCEPT !.on = p] \in Holder
      BY <2>1 DEF Holder
  <2>3. client'[c] = [client[c] EXCEPT !.on = p]
      BY <1>1, <2>1
  <2> QED BY <1>1, <2>1, <2>2, <2>3 DEF Holder
<1>4. \A d \in Client : client[d].on # p
    BY <1>1 DEF CInv, ClientOK
<1>5. Apart'
    BY <1>1, <1>3, <1>4 DEF CInv, Apart, SameFamily
<1>6. ASSUME NEW d \in Client PROVE ClientOK(d)'
  <2>1. client[d] \in Holder /\ ClientOK(d) /\ (client[d].on # Null => client[d].on \in Proc)
      BY DEF CInv, Holder
  <2>2. \A q \in Proc : Kin(q, d)' <=>
          \/ Kin(q, d)
          \/ /\ q = p /\ client[c].tok # Null /\ client[d].tok # Null
             /\ SameFamily(client[c].tok, client[d].tok)
      BY <1>1, <1>3 DEF Kin, Presents, SameFamily
  <2>3. Live(client[d].tok)' = Live(client[d].tok)
      BY <1>1, <1>2 DEF Live
  <2>4. CASE d = c
    <3>1. \A q \in Proc : Kin(q, c)' => q = p \/ Kin(q, c)
        BY <2>2, <2>4
    <3>2. client[c].tok # Null /\ ~client[c].gaveUp => \A q \in Proc : ~Kin(q, c)
        BY <1>1, <2>1, <2>4 DEF ClientOK
    <3> QED BY <1>1, <1>2, <1>3, <2>1, <2>3, <2>4, <3>1, <3>2 DEF ClientOK
  <2>5. CASE d # c
    <3>1. \A q \in Proc : Kin(q, d)' <=> Kin(q, d)
        BY <2>2, <2>5 DEF CInv, Apart
    <3>2. \A q \in Proc : Kin(q, d) => q # p
        BY <1>1 DEF Kin, Presents
    <3> QED BY <1>1, <1>2, <1>3, <1>4, <2>1, <2>3, <2>5, <3>1, <3>2 DEF ClientOK, SameFamily
  <2> QED BY <2>4, <2>5
<1> QED BY <1>3, <1>5, <1>6 DEF CInv

\* GiveUp: from here on the client is not a patient one.
LEMMA GiveUpInv ==
  ASSUME CInv, IInv', NEW c \in Client, GiveUp(c)
  PROVE  CInv'
<1>1. /\ client' \in [Client -> Holder]
      /\ client'[c].on = Null /\ client'[c].tok = client[c].tok
      /\ client'[c].gaveUp = (client[c].tok # Null)
      /\ \A d \in Client : d # c => client'[d] = client[d]
  <2>1. client \in [Client -> Holder] /\ client[c] \in Holder
      BY DEF CInv
  <2>2. client'[c] = [client[c] EXCEPT !.on = Null, !.gaveUp = client[c].tok # Null]
      BY <2>1 DEF GiveUp
  <2>3. [client[c] EXCEPT !.on = Null, !.gaveUp = client[c].tok # Null] \in Holder
      BY <2>1 DEF Holder
  <2> QED BY <2>1, <2>2, <2>3 DEF GiveUp, Holder
<1>2. sessions' = sessions /\ tx' = tx /\ Stored' = Stored
    BY DEF GiveUp, vars, Stored
<1>3. Apart'
    BY <1>1, <1>2 DEF CInv, Apart, SameFamily
<1>4. ASSUME NEW d \in Client PROVE ClientOK(d)'
  <2>1. ClientOK(d)
      BY DEF CInv
  <2>2. \A q \in Proc : Kin(q, d)' = Kin(q, d)
      BY <1>1, <1>2 DEF Kin, Presents, SameFamily
  <2>3. Live(client[d].tok)' = Live(client[d].tok)
      BY <1>1, <1>2 DEF Live
  <2> QED BY <1>1, <1>2, <2>1, <2>2, <2>3 DEF ClientOK, SameFamily
<1> QED BY <1>1, <1>3, <1>4 DEF CInv

-------------------------------------------------------------------------------
(* Steps that answer a request. *)

\* A client that does not wait for p is not disturbed when p ends.
LEMMA BystanderOK ==
  ASSUME CInv, NEW p \in Proc, Finish(p), Stored \subseteq Stored',
         \A s \in Stored :
           /\ sessions'[s].family = sessions[s].family
           /\ sessions[s].rotated # Null => sessions'[s].rotated # Null
           /\ sessions[s].revoked # Null => sessions'[s].revoked # Null
           /\ sessions'[s] = sessions[s] \/ (Presents(p) /\ SameFamily(tx[p].tok, s)),
         NEW c \in Client, client[c].on # p, client'[c] = client[c],
         client[c].on # Null /\ tx[client[c].on].pc = "revoke" =>
           \A s \in Stored' \ Stored : sessions'[s].family # sessions[client[c].tok].family
  PROVE  ClientOK(c)'
<1>1. client[c] \in Holder /\ ClientOK(c) /\ (client[c].on # Null => client[c].on \in Proc)
    BY DEF CInv, Holder
<1>2. tx'[p].pc = "idle" /\ \A q \in Proc : q # p => tx'[q] = tx[q]
    BY FinishFacts DEF CInv, IInv, Idle
<1>3. client[c].tok # Null => client[c].tok \in Stored
    BY <1>1 DEF ClientOK
<1>4. \A q \in Proc : Presents(q) => tx[q].tok \in Stored
    BY DEF Presents, CInv, IInv, TxOK
<1>5. \A q \in Proc : Kin(q, c)' => q # p /\ Kin(q, c)
    BY <1>2, <1>3, <1>4 DEF Kin, Presents, SameFamily
<1>6. client[c].tok # Null /\ ~client[c].gaveUp => Live(client[c].tok)'
  <2> HAVE client[c].tok # Null /\ ~client[c].gaveUp
  <2>1. ~Kin(p, c) /\ Live(client[c].tok)
      BY <1>1 DEF ClientOK
  <2>2. sessions'[client[c].tok] = sessions[client[c].tok]
      BY <1>3, <2>1 DEF Kin
  <2> QED BY <1>3, <2>1, <2>2 DEF Live
<1>7. \A q \in Proc : Kin(q, c)' => \/ tx'[q].tok = client[c].tok
                                    \/ sessions'[tx'[q].tok].rotated # Null
    BY <1>1, <1>2, <1>4, <1>5 DEF ClientOK, Kin
<1>8. client[c].on # Null /\ tx'[client[c].on].pc = "revoke" =>
        \A s \in Stored' : SameFamily(s, client[c].tok)' =>
           s \in tx'[client[c].on].snap \/ sessions'[s].revoked # Null
  <2> HAVE client[c].on # Null /\ tx'[client[c].on].pc = "revoke"
  <2>1. tx'[client[c].on] = tx[client[c].on]
      BY <1>1, <1>2
  <2>2. tx[client[c].on].tok = client[c].tok /\ Presents(client[c].on)
      BY <1>1, <2>1 DEF ClientOK, Presents
  <2>3. client[c].tok \in Stored
      BY <1>1, <1>4, <2>2
  <2>4. \A s \in Stored : SameFamily(s, client[c].tok)' => SameFamily(s, client[c].tok)
      BY <2>3 DEF SameFamily
  <2>5. \A s \in Stored' \ Stored : ~SameFamily(s, client[c].tok)'
      BY <2>1, <2>3 DEF SameFamily
  <2> QED BY <1>1, <2>1, <2>4, <2>5 DEF ClientOK
<1>9. client[c].on # Null => tx'[client[c].on] = tx[client[c].on]
    BY <1>1, <1>2
<1> QED BY <1>1, <1>3, <1>5, <1>6, <1>7, <1>8, <1>9 DEF ClientOK

\* What the client that waits for p makes of its answer.
LEMMA HearFacts ==
  ASSUME CInv, NEW p \in Proc, NEW t \in Sid \cup {Null}, Hear(p, t)
  PROVE  /\ client' \in [Client -> Holder]
         /\ \A c \in Client : client[c].on # p => client'[c] = client[c]
         /\ \A c \in Client : client[c].on = p =>
              /\ client'[c].on = Null /\ client'[c].tok = t
              /\ t # Null => client'[c].gaveUp = client[c].gaveUp
<1>1. \A c \in Client :
        LET h == [client[c] EXCEPT !.on = Null, !.tok = t, !.gaveUp = client[c].gaveUp /\ t # Null]
        IN  /\ h \in Holder /\ h.on = Null /\ h.tok = t
            /\ t # Null => h.gaveUp = client[c].gaveUp
    BY DEF CInv, Holder
<1>2. \A c \in Client : client[c].on # p => client[c] \in Holder
    BY DEF CInv
<1> QED BY <1>1, <1>2 DEF Hear

\* A 500: the client that waited for p has its token still.
LEMMA ErrorInv ==
  ASSUME CInv, IInv', NEW p \in Proc, Error(p)
  PROVE  CInv'
<1>1. Finish(p) /\ sessions' = sessions /\ Stored' = Stored
    BY DEF Error, Fail, DeadlockVictim, OutOfIds, Stored
<1>2. /\ client' \in [Client -> Holder]
      /\ \A c \in Client : client[c].on # p => client'[c] = client[c]
      /\ \A c \in Client : client[c].on = p =>
           /\ client'[c].on = Null /\ client'[c].tok = client[c].tok
           /\ client'[c].gaveUp = client[c].gaveUp
  <2>1. \A c \in Client :
          LET h == [client[c] EXCEPT !.on = Null]
          IN  /\ h \in Holder /\ h.on = Null /\ h.tok = client[c].tok
              /\ h.gaveUp = client[c].gaveUp
      BY DEF CInv, Holder
  <2>2. \A c \in Client : client[c] \in Holder
      BY DEF CInv
  <2> QED BY <2>1, <2>2 DEF Error, HearError
<1>3. Apart'
    BY <1>1, <1>2 DEF CInv, Apart, SameFamily
<1>4. ASSUME NEW c \in Client PROVE ClientOK(c)'
  <2>1. CASE client[c].on # p
    <3>1. \A s \in Stored :
             /\ sessions'[s].family = sessions[s].family
             /\ sessions[s].rotated # Null => sessions'[s].rotated # Null
             /\ sessions[s].revoked # Null => sessions'[s].revoked # Null
             /\ sessions'[s] = sessions[s] \/ (Presents(p) /\ SameFamily(tx[p].tok, s))
        BY <1>1
    <3>2. Stored \subseteq Stored' /\ \A s \in Stored' \ Stored : FALSE
        BY <1>1
    <3> QED BY <1>1, <1>2, <2>1, <3>1, <3>2, BystanderOK
  <2>2. CASE client[c].on = p
    <3>1. ClientOK(c) /\ tx'[p].pc = "idle" /\ \A q \in Proc : q # p => tx'[q] = tx[q]
        BY <1>1, FinishFacts DEF CInv, IInv, Idle
    <3>2. \A q \in Proc : Kin(q, c)' => q # p /\ Kin(q, c)
        BY <1>1, <1>2, <2>2, <3>1 DEF Kin, Presents, SameFamily
    <3>3. Live(client[c].tok) = Live(client[c].tok)'
        BY <1>1, <1>2, <2>2 DEF Live
    <3> QED BY <1>1, <1>2, <2>2, <3>1, <3>2, <3>3 DEF ClientOK
  <2> QED BY <2>1, <2>2
<1> QED BY <1>2, <1>3, <1>4 DEF CInv

\* A 401 or a 204: the client that waited for p holds nothing any more.
LEMMA DismissInv ==
  ASSUME CInv, IInv', NEW p \in Proc, Refuse(p) \/ Release(p)
  PROVE  CInv'
<1>1. Finish(p) /\ Hear(p, Null) /\ Presents(p) /\ Stored' = Stored
      /\ \A s \in Stored :
           /\ sessions'[s].family = sessions[s].family
           /\ sessions[s].rotated # Null => sessions'[s].rotated # Null
           /\ sessions[s].revoked # Null => sessions'[s].revoked # Null
           /\ sessions'[s] = sessions[s] \/ SameFamily(tx[p].tok, s)
  <2>1. Finish(p) /\ Hear(p, Null) /\ Presents(p)
      BY DEF Refuse, Release, RejectRevoked, RejectExpired, CommitRevoke, SignOut, Presents
  <2>2. CASE RejectRevoked(p) \/ RejectExpired(p)
      BY <2>1, <2>2 DEF RejectRevoked, RejectExpired, Stored
  <2>3. CASE CommitRevoke(p) \/ SignOut(p)
    <3>1. PICK S \in SUBSET Stored :
             /\ \A s \in S : sessions[s].revoked = Null /\ SameFamily(s, tx[p].tok)
             /\ \A s \in Stored \ S : sessions'[s] = sessions[s]
             /\ \A s \in S : /\ sessions'[s].family = sessions[s].family
                            /\ sessions'[s].rotated = sessions[s].rotated
                            /\ sessions'[s].revoked # Null
             /\ Stored' = Stored
        BY <2>3, RevokingStep DEF CInv
    <3> QED BY <2>1, <3>1 DEF SameFamily
  <2> QED BY <2>1, <2>2, <2>3 DEF Refuse, Release
<1>2. /\ client' \in [Client -> Holder]
      /\ \A c \in Client : client[c].on # p => client'[c] = client[c]
      /\ \A c \in Client : client[c].on = p => client'[c].on = Null /\ client'[c].tok = Null
    BY <1>1, HearFacts
<1>3. Apart'
  <2>1. \A c \in Client : client'[c].tok # Null => client'[c] = client[c] /\ client[c].tok \in Stored
      BY <1>2 DEF CInv, ClientOK
  <2>2. \A c \in Client : client'[c].on # Null => client'[c] = client[c]
      BY <1>2
  <2> QED BY <1>1, <2>1, <2>2 DEF CInv, Apart, SameFamily
<1>4. ASSUME NEW c \in Client PROVE ClientOK(c)'
  <2>1. CASE client[c].on # p
    <3>1. \A s \in Stored :
             /\ sessions'[s].family = sessions[s].family
             /\ sessions[s].rotated # Null => sessions'[s].rotated # Null
             /\ sessions[s].revoked # Null => sessions'[s].revoked # Null
             /\ sessions'[s] = sessions[s] \/ (Presents(p) /\ SameFamily(tx[p].tok, s))
        BY <1>1
    <3>2. Stored \subseteq Stored' /\ \A s \in Stored' \ Stored : FALSE
        BY <1>1
    <3> QED BY <1>1, <1>2, <2>1, <3>1, <3>2, BystanderOK
  <2>2. CASE client[c].on = p
      BY <1>2, <2>2 DEF ClientOK, Kin
  <2> QED BY <2>1, <2>2
<1> QED BY <1>2, <1>3, <1>4 DEF CInv

\* 200 for a sign-in: a family of its own for the client that waited for it.
LEMMA IssueRootInv ==
  ASSUME CInv, IInv', NEW p \in Proc, Issue(p), OpenRoot(p)
  PROVE  CInv'
<1>1. PICK s \in Fresh :
        /\ Stored' = Stored \cup {s}
        /\ \A r \in Stored : sessions'[r] = sessions[r] /\ sessions[r].family # s
        /\ sessions'[s].family = s /\ sessions'[s].rotated = Null
        /\ sessions'[s].revoked = Null
    BY OpeningStep DEF CInv
<1>2. s \in Sid /\ s \notin Stored /\ s # Null
    BY DEF Fresh
<1>3. Hear(p, s) /\ Finish(p)
    BY <1>1 DEF Issue, OpenRoot
<1>4. /\ client' \in [Client -> Holder]
      /\ \A c \in Client : client[c].on # p => client'[c] = client[c]
      /\ \A c \in Client : client[c].on = p => client'[c].on = Null /\ client'[c].tok = s
    BY <1>2, <1>3, HearFacts
<1>5. \A c \in Client : client[c].tok # Null => client[c].tok \in Stored
    BY DEF CInv, ClientOK
<1>6. Apart'
  <2> SUFFICES ASSUME NEW c \in Client, NEW d \in Client,
                      \/ /\ client'[c].tok # Null /\ client'[d].tok # Null
                         /\ sessions'[client'[c].tok].family = sessions'[client'[d].tok].family
                      \/ client'[c].on # Null /\ client'[c].on = client'[d].on
               PROVE  c = d
      BY DEF Apart, SameFamily
  <2>1. CASE client[c].on = p /\ client[d].on = p
      BY <2>1 DEF CInv, Apart
  <2>2. CASE client[c].on # p /\ client[d].on # p
      BY <1>1, <1>4, <1>5, <2>2 DEF CInv, Apart, SameFamily
  <2>3. CASE client[c].on # p /\ client[d].on = p
      BY <1>1, <1>4, <1>5, <2>3 DEF SameFamily
  <2>4. CASE client[c].on = p /\ client[d].on # p
      BY <1>1, <1>4, <1>5, <2>4 DEF SameFamily
  <2> QED BY <2>1, <2>2, <2>3, <2>4
<1>7. ASSUME NEW c \in Client PROVE ClientOK(c)'
  <2>1. CASE client[c].on # p
    <3>1. \A r \in Stored :
             /\ sessions'[r].family = sessions[r].family
             /\ sessions[r].rotated # Null => sessions'[r].rotated # Null
             /\ sessions[r].revoked # Null => sessions'[r].revoked # Null
             /\ sessions'[r] = sessions[r] \/ (Presents(p) /\ SameFamily(tx[p].tok, r))
        BY <1>1
    <3>2. client[c].on # Null /\ tx[client[c].on].pc = "revoke" =>
            \A r \in Stored' \ Stored : sessions'[r].family # sessions[client[c].tok].family
      <4> HAVE client[c].on # Null /\ tx[client[c].on].pc = "revoke"
      <4>1. client[c].tok \in Stored
          BY DEF CInv, ClientOK, Holder, IInv, TxOK
      <4> QED BY <1>1, <4>1
    <3>3. Stored \subseteq Stored'
        BY <1>1
    <3> QED BY <1>3, <1>4, <2>1, <3>1, <3>2, <3>3, BystanderOK
  <2>2. CASE client[c].on = p
    <3>1. tx'[p].pc = "idle" /\ \A q \in Proc : q # p => tx'[q] = tx[q]
        BY <1>3, FinishFacts DEF CInv, IInv, Idle
    <3>2. \A q \in Proc : Presents(q) => tx[q].tok \in Stored
        BY DEF Presents, CInv, IInv, TxOK
    <3>3. \A q \in Proc : ~Kin(q, c)'
        BY <1>1, <1>4, <2>2, <3>1, <3>2 DEF Kin, Presents, SameFamily
    <3>4. Live(s)' /\ s \in Stored'
        BY <1>1 DEF Live
    <3> QED BY <1>4, <2>2, <3>3, <3>4 DEF ClientOK
  <2> QED BY <2>1, <2>2
<1> QED BY <1>4, <1>6, <1>7 DEF CInv

\* 200 for a rotation: the child takes the place of the presented token.
LEMMA IssueChildInv ==
  ASSUME CInv, IInv', NEW p \in Proc, Issue(p), Rotate(p)
  PROVE  CInv'
<1>1. PICK t \in Stored, s \in Fresh :
        /\ t = tx[p].tok /\ lock[t] = p
        /\ IsActive(sessions[t], tx[p].now)
        /\ Stored' = Stored \cup {s}
        /\ sessions'[s] = RotateChild(t, sessions[t], tx[p].now)
        /\ sessions'[t] = [sessions[t] EXCEPT !.rotated = tx[p].now]
        /\ \A r \in Stored \ {t} : sessions'[r] = sessions[r]
        /\ tx[p].now \in Nat
    BY RotateFacts DEF CInv
<1>2. /\ s \in Sid /\ s \notin Stored /\ s # Null /\ t # Null
      /\ sessions[t] \in Row /\ sessions[t].rotated = Null
    BY <1>1, StoredRows DEF Fresh, Stored, CInv, IInv, IsActive
<1>3. Finish(p) /\ Hear(p, s) /\ Presents(p)
    BY <1>1 DEF Issue, Rotate, Presents
<1>4. /\ client' \in [Client -> Holder]
      /\ \A c \in Client : client[c].on # p => client'[c] = client[c]
      /\ \A c \in Client : client[c].on = p => /\ client'[c].on = Null /\ client'[c].tok = s
                                               /\ client'[c].gaveUp = client[c].gaveUp
                                               /\ client[c].tok = t
  <2>1. \A c \in Client : client[c].on = p => client[c].tok = t
      BY <1>1 DEF CInv, ClientOK
  <2> QED BY <1>2, <1>3, <2>1, HearFacts
<1>5. /\ sessions'[s].family = sessions[t].family /\ sessions'[s].rotated = Null
      /\ sessions'[s].revoked = Null
      /\ sessions'[t].family = sessions[t].family /\ sessions'[t].rotated # Null
      /\ sessions'[t].revoked = sessions[t].revoked
    BY <1>1, <1>2 DEF RotateChild, Row
<1>6. \A r \in Stored : sessions'[r].family = sessions[r].family
    BY <1>1, <1>5
<1>7. \A c \in Client : client[c].tok # Null => client[c].tok \in Stored
    BY DEF CInv, ClientOK
<1>8. Apart'
  <2>1. \A c \in Client : client'[c].on # Null => client'[c].on = client[c].on
      BY <1>4
  <2>2. \A c \in Client : client'[c].tok # Null =>
          client[c].tok \in Stored /\ sessions'[client'[c].tok].family = sessions[client[c].tok].family
      BY <1>2, <1>4, <1>5, <1>6, <1>7
  <2>3. \A r \in Stored : r # Null
      BY DEF Stored
  <2> QED BY <2>1, <2>2, <2>3 DEF CInv, Apart, SameFamily
<1>9. ASSUME NEW c \in Client PROVE ClientOK(c)'
  <2>1. CASE client[c].on # p
    <3>1. \A r \in Stored :
             /\ sessions'[r].family = sessions[r].family
             /\ sessions[r].rotated # Null => sessions'[r].rotated # Null
             /\ sessions[r].revoked # Null => sessions'[r].revoked # Null
             /\ sessions'[r] = sessions[r] \/ (Presents(p) /\ SameFamily(tx[p].tok, r))
        BY <1>1, <1>3, <1>5 DEF SameFamily
    <3>2. client[c].on # Null /\ tx[client[c].on].pc = "revoke" =>
            \A r \in Stored' \ Stored : sessions'[r].family # sessions[client[c].tok].family
      <4> HAVE client[c].on # Null /\ tx[client[c].on].pc = "revoke"
      <4> DEFINE q == client[c].on
      <4>1. q \in Proc /\ q # p /\ tx[q].tok = client[c].tok /\ client[c].tok \in Stored
            /\ lock[client[c].tok] = q
          BY <2>1 DEF CInv, ClientOK, Holder, IInv, TxOK
      <4>2. client[c].tok # t /\ client[c].tok # Null
          BY <1>1, <4>1 DEF Stored
      <4>3. ~Kin(p, c)
          BY <1>1, <1>2, <4>2 DEF CInv, ClientOK
      <4> QED BY <1>1, <1>3, <1>5, <4>2, <4>3 DEF Kin, SameFamily
    <3>3. Stored \subseteq Stored'
        BY <1>1
    <3> QED BY <1>3, <1>4, <2>1, <3>1, <3>2, <3>3, BystanderOK
  <2>2. CASE client[c].on = p
    <3>1. tx'[p].pc = "idle" /\ \A q \in Proc : q # p => tx'[q] = tx[q]
        BY <1>3, FinishFacts DEF CInv, IInv, Idle
    <3>2. \A q \in Proc : Presents(q) => tx[q].tok \in Stored
        BY DEF Presents, CInv, IInv, TxOK
    <3>3. \A q \in Proc : Kin(q, c)' => q # p /\ Kin(q, c)
        BY <1>2, <1>4, <1>5, <1>6, <2>2, <3>1, <3>2 DEF Kin, Presents, SameFamily
    <3>4. \A q \in Proc : Kin(q, c)' => sessions'[tx'[q].tok].rotated # Null
      <4> SUFFICES ASSUME NEW q \in Proc, Kin(q, c)' PROVE sessions'[tx'[q].tok].rotated # Null
          OBVIOUS
      <4>1. tx'[q].tok = tx[q].tok /\ tx[q].tok \in Stored /\ Kin(q, c)
          BY <3>1, <3>2, <3>3 DEF Kin
      <4>2. tx[q].tok = t \/ sessions[tx[q].tok].rotated # Null
          BY <1>4, <2>2, <4>1 DEF CInv, ClientOK
      <4>3. \A r \in Stored : r = t \/ sessions[r].rotated # Null => sessions'[r].rotated # Null
          BY <1>1, <1>5
      <4> QED BY <4>1, <4>2, <4>3
    <3>5. Live(s)' /\ s \in Stored'
        BY <1>1, <1>5 DEF Live
    <3>6. ~client[c].gaveUp => \A q \in Proc : ~Kin(q, c)'
        BY <1>2, <1>4, <2>2, <3>3 DEF CInv, ClientOK
    <3> QED BY <1>4, <2>2, <3>4, <3>5, <3>6 DEF ClientOK
  <2> QED BY <2>1, <2>2
<1> QED BY <1>4, <1>8, <1>9 DEF CInv

-------------------------------------------------------------------------------
(* The invariant, and what it implies. *)

LEMMA ProceedInv ==
  ASSUME CInv, IInv', NEW p \in Proc, Proceed(p) \/ TakeLock(p) \/ RevokeNext(p)
  PROVE  CInv'
<1>1. client' = client /\ sessions' = sessions
    BY DEF Proceed, TakeLock, RevokeNext, ReuseDetected, AwaitRow, Acquire, RevokeRow
<1>2. tx[p] \in Tx /\ tx \in [Proc -> Tx] /\ TxOK(p)
    BY DEF CInv, IInv, TypeOK
<1>3. /\ \A q \in Proc : q # p => tx'[q] = tx[q]
      /\ tx'[p].tok = tx[p].tok /\ tx[p].pc # "idle" /\ tx'[p].pc # "idle"
      /\ Presents(p) /\ Presents(p)'
      /\ tx'[p].pc = "revoke" =>
           \/ tx[p].pc = "revoke" /\ tx'[p].snap = tx[p].snap
           \/ \A s \in Stored : SameFamily(s, tx[p].tok) =>
                 s \in tx'[p].snap \/ sessions[s].revoked # Null
  <2>1. CASE Acquire(p)
      BY <1>2, <2>1 DEF Acquire, Presents, Tx
  <2>2. ASSUME NEW s \in Sid, RevokeRow(p, s) \/ AwaitRow(p, s)
        PROVE  /\ \A q \in Proc : q # p => tx'[q] = tx[q]
               /\ tx'[p].tok = tx[p].tok /\ tx[p].pc = "revoke" /\ tx'[p].pc = "revoke"
               /\ tx'[p].snap = tx[p].snap
    <3>1. CASE RevokeRow(p, s)
        BY <1>2, <3>1 DEF RevokeRow, Tx
    <3>2. CASE AwaitRow(p, s)
        BY <1>2, <3>2 DEF AwaitRow, Tx
    <3> QED BY <2>2, <3>1, <3>2
  <2>3. CASE ReuseDetected(p)
    <3> DEFINE active == {s \in Stored : /\ sessions[s].family = tx[p].copy.family
                                         /\ sessions[s].revoked = Null}
    <3>1. /\ \A q \in Proc : q # p => tx'[q] = tx[q]
          /\ tx'[p].tok = tx[p].tok /\ tx[p].pc = "locked" /\ tx'[p].pc = "revoke"
          /\ tx'[p].snap = active
        BY <1>2, <2>3 DEF ReuseDetected, Tx
    <3>2. sessions[tx[p].tok] = tx[p].copy
        BY <1>2, <3>1 DEF TxOK
    <3> QED BY <3>1, <3>2 DEF Presents, SameFamily
  <2> QED BY <2>1, <2>2, <2>3 DEF Proceed, TakeLock, RevokeNext, Presents
<1>4. \A q \in Proc :
        /\ tx'[q].tok = tx[q].tok
        /\ (tx'[q].pc = "idle") = (tx[q].pc = "idle")
        /\ Presents(q)' = Presents(q)
        /\ tx'[q].pc = "revoke" =>
             \/ tx[q].pc = "revoke" /\ tx'[q].snap = tx[q].snap
             \/ \A s \in Stored : SameFamily(s, tx[q].tok) =>
                   s \in tx'[q].snap \/ sessions[s].revoked # Null
  <2> TAKE q \in Proc
  <2>1. CASE q = p
      BY <1>3, <2>1 DEF Presents
  <2>2. CASE q # p
      BY <1>3, <2>2 DEF Presents
  <2> QED BY <2>1, <2>2
<1> QED BY <1>1, <1>4, QuietInv

LEMMA ClientStepInv == CInv /\ [ClientNext]_clientVars => CInv'
<1> SUFFICES ASSUME CInv, [ClientNext]_clientVars PROVE CInv'
    OBVIOUS
<1>1. IInv'
    BY ServiceInv DEF CInv
<1>2. CASE UNCHANGED clientVars \/ (Tick /\ UNCHANGED client)
    BY <1>1, <1>2, QuietInv DEF clientVars, Tick, Presents
<1>3. ASSUME NEW c \in Client, GiveUp(c) PROVE CInv'
    BY <1>1, <1>3, GiveUpInv
<1>4. ASSUME NEW c \in Client, NEW p \in Proc, Ask(c, p) PROVE CInv'
    BY <1>1, <1>4, AskInv
<1>5. ASSUME NEW p \in Proc, Serve(p) \/ TakeLock(p) \/ RevokeNext(p) \/ Error(p) PROVE CInv'
  <2>1. CASE Issue(p)
      BY <1>1, <2>1, IssueRootInv, IssueChildInv DEF Issue
  <2>2. CASE Refuse(p) \/ Release(p)
      BY <1>1, <2>2, DismissInv
  <2>3. CASE Proceed(p) \/ TakeLock(p) \/ RevokeNext(p)
      BY <1>1, <2>3, ProceedInv
  <2>4. CASE Error(p)
      BY <1>1, <2>4, ErrorInv
  <2> QED BY <1>5, <2>1, <2>2, <2>3, <2>4 DEF Serve
<1> QED BY <1>2, <1>3, <1>4, <1>5 DEF ClientNext

\* The clients drive the service only through its own steps: what is proved of
\* Spec holds with them.
THEOREM ServiceKept == ClientSpec => Spec
<1> QED BY ServiceInit, ServiceStep, PTL DEF ClientSpec, Spec

\* With any number of clients that call, give up and retry, the session table
\* behaves as a set of one-shot token chains.
THEOREM ChainsKept == ClientSpec => ImplementsTokenChain
<1> QED BY ServiceKept, Refinement

\* Every reachable state satisfies the inductive invariant.
THEOREM ClientInvariant == ClientSpec => []CInv
<1> QED BY ClientInitInv, ClientStepInv, PTL DEF ClientSpec

\* The types hold; a client's token is stored and its request is its own.
THEOREM ClientsTyped == ClientSpec => []ClientTypeOK
<1>1. CInv => ClientTypeOK
    BY DEF CInv, ClientOK, Apart, ClientTypeOK
<1> QED BY <1>1, ClientInvariant, PTL

\* A client that hears all its answers always holds the live head of its family.
THEOREM PatienceIsSafe == ClientSpec => []PatientClientStaysSignedIn
<1>1. CInv => PatientClientStaysSignedIn
    BY DEF CInv, ClientOK, PatientClientStaysSignedIn
<1> QED BY <1>1, ClientInvariant, PTL

\* The only session of a family that can be rotated is the un-rotated one.
LEMMA EndedByLeaf ==
  ASSUME NEW t \in Stored, Stored' = Stored,
         \A s \in Stored : sessions'[s].family = sessions[s].family,
         \A s \in Stored : SameFamily(t, s) =>
           \/ sessions'[s].rotated # Null
           \/ sessions'[s].revoked # Null
           \/ IsExpired(sessions'[s], clock')
  PROVE  Ended(t)'
BY DEF Ended, IsActive, SameFamily

\* A 401 leaves no session of the family usable, to a client that gave up on
\* earlier calls as well: whichever of them the service ran, their successors
\* are in the snapshot of the family kill, or the family had none.
THEOREM RefusalsAreFinal == ClientSpec => RefusalIsFinal
<1>1. ASSUME CInv, CInv', NEW p \in Proc, NEW c \in Client, NEW t \in Sid,
             Refuse(p), client[c].on = p, client[c].tok = t
      PROVE  Ended(t)'
  <2>1. /\ tx[p].tok = t /\ TxOK(p) /\ ClientOK(c) /\ IInv
        /\ clock' = clock /\ clock \in Nat /\ tx[p] \in Tx
      BY <1>1 DEF CInv, IInv, TypeOK, ClientOK, Refuse, RejectRevoked, RejectExpired,
                  CommitRevoke, Finish
  <2>2. CASE RejectRevoked(p) \/ RejectExpired(p)
    <3>1. /\ t \in Stored /\ sessions[t].rotated = Null /\ sessions' = sessions
          /\ sessions[t].revoked # Null \/ IsExpired(sessions[t], tx[p].now)
          /\ tx[p].now <= clock
        BY <2>1, <2>2 DEF RejectRevoked, RejectExpired, TxOK
    <3>2. sessions[t] \in Row
        BY <2>1, <3>1, StoredRows DEF IInv
    <3>3. sessions[t].revoked # Null \/ IsExpired(sessions[t], clock')
        BY <2>1, <3>1, <3>2 DEF IsExpired, Row, Tx
    <3>4. \A s \in Stored : SameFamily(t, s) => s = t \/ sessions[s].rotated # Null
        BY <2>1, <3>1 DEF IInv, TableInv, OneLeaf
    <3>5. Stored' = Stored
        BY <3>1 DEF Stored
    <3> QED BY <1>1, <3>1, <3>3, <3>4, <3>5, EndedByLeaf
  <2>3. CASE CommitRevoke(p)
    <3>1. t \in Stored /\ tx[p].pc = "revoke"
        BY <2>1, <2>3 DEF CommitRevoke, TxOK
    <3>2. \A s \in Stored : SameFamily(s, t) => s \in tx[p].snap \/ sessions[s].revoked # Null
        BY <1>1, <2>1, <3>1 DEF ClientOK
    <3>3. \A s \in tx[p].snap : sessions'[s].revoked # Null
      <4>1. CommitRevoke(p) => [Next]_vars
          BY DEF Next, Work
      <4> QED BY <2>1, <2>3, <4>1, RevokesSnapshotStep DEF RevokesSnapshot
    <3>4. PICK S \in SUBSET Stored :
             /\ \A s \in Stored \ S : sessions'[s] = sessions[s]
             /\ \A s \in S : sessions'[s].family = sessions[s].family /\ sessions'[s].revoked # Null
             /\ Stored' = Stored
        BY <2>1, <2>3, RevokingStep
    <3>5. \A s \in Stored : SameFamily(t, s) => sessions'[s].revoked # Null
        BY <3>2, <3>3, <3>4 DEF SameFamily
    <3> QED BY <1>1, <3>1, <3>4, <3>5, EndedByLeaf
  <2> QED BY <1>1, <2>2, <2>3 DEF Refuse
<1>2. CInv /\ CInv' => [\A p \in Proc, c \in Client, t \in Sid :
        Refuse(p) /\ client[c].on = p /\ client[c].tok = t => Ended(t)']_clientVars
    BY <1>1
<1> QED BY <1>2, ClientInvariant, PTL DEF RefusalIsFinal

\* A 204 leaves nothing of the family in anybody's reach.  A client that
\* presented the leaf ended the family with it; one that presented a spent
\* token may leave a successor, but shares the family with no other client, and
\* what its abandoned calls present is spent like its own token.
THEOREM ReleasesAreFinal == ClientSpec => ReleaseIsFinal
<1>1. ASSUME CInv, NEW p \in Proc, NEW c \in Client, NEW t \in Sid,
             Release(p), client[c].on = p, client[c].tok = t
      PROVE  /\ sessions[t].rotated = Null => Ended(t)'
             /\ \A s \in Stored : SameFamily(t, s) /\ IsActive(sessions[s], clock)'
                                 => ~InReach(s)'
  <2>1. tx[p].tok = t /\ TxOK(p) /\ ClientOK(c) /\ IInv /\ SignOut(p) /\ t \in Stored /\ t # Null
      BY <1>1 DEF CInv, IInv, ClientOK, Release
  <2>2. sessions[t] = tx[p].copy
      BY <2>1 DEF SignOut, TxOK
  <2>3. PICK S \in SUBSET Stored :
           /\ \A s \in Stored \ S : sessions'[s] = sessions[s]
           /\ \A s \in S : /\ sessions'[s].family = sessions[s].family
                          /\ sessions'[s].rotated = sessions[s].rotated
                          /\ sessions'[s].revoked # Null
           /\ Stored' = Stored
      BY <2>1, RevokingStep
  <2>4. sessions'[t].revoked # Null
    <3>1. sessions' = IF sessions[t].revoked = Null
                        THEN [sessions EXCEPT ![t] = [tx[p].copy EXCEPT !.revoked = tx[p].now]]
                        ELSE sessions
        BY <2>1, <2>2 DEF SignOut
    <3>2. tx[p].copy \in Row /\ tx[p].now \in Nat /\ sessions \in [Sid -> Row \cup {NoRow}]
        BY <2>1, <2>2, StoredRows DEF IInv, TypeOK, Tx
    <3> QED BY <3>1, <3>2 DEF Row
  <2>5. CASE sessions[t].rotated = Null
    <3>1. \A s \in Stored : SameFamily(t, s) => s = t \/ sessions[s].rotated # Null
        BY <2>1, <2>5 DEF IInv, TableInv, OneLeaf
    <3>2. \A s \in Stored : SameFamily(t, s) =>
            sessions'[s].rotated # Null \/ sessions'[s].revoked # Null
        BY <2>3, <2>4, <3>1
    <3>3. Ended(t)'
        BY <2>1, <2>3, <3>2, EndedByLeaf
    <3>4. \A s \in Stored : SameFamily(t, s) => ~IsActive(sessions[s], clock)'
        BY <2>3, <3>2 DEF IsActive
    <3> QED BY <3>3, <3>4
  <2>6. CASE sessions[t].rotated # Null
    <3> SUFFICES ASSUME NEW s \in Stored, SameFamily(t, s), IsActive(sessions[s], clock)',
                        InReach(s)'
                 PROVE  FALSE
        BY <2>6
    <3>1. sessions[s].rotated = Null /\ s # t /\ s # Null
        BY <2>1, <2>3, <2>6 DEF IsActive, Stored
    <3>2. /\ \A d \in Client : client[d].on # p => client'[d] = client[d]
          /\ \A d \in Client : client[d].on = p => client'[d].tok = Null
        BY <1>1, HearFacts DEF Release
    <3>3. ~\E d \in Client : client'[d].tok = s
        BY <1>1, <2>1, <3>1, <3>2 DEF CInv, Apart, SameFamily
    <3>4. tx'[p].tok = Null /\ \A q \in Proc : q # p => tx'[q] = tx[q]
        BY <2>1, FinishFacts DEF SignOut, IInv, Idle
    <3>5. PICK q \in Proc : Presents(q) /\ tx[q].tok = s
        BY <3>1, <3>3, <3>4 DEF InReach, Presents
    <3>6. Kin(q, c)
        BY <1>1, <2>1, <3>5 DEF Kin, SameFamily
    <3> QED BY <1>1, <2>1, <2>6, <3>1, <3>5, <3>6 DEF ClientOK
  <2> QED BY <2>5, <2>6
<1>2. CInv => [\A p \in Proc, c \in Client, t \in Sid :
        Release(p) /\ client[c].on = p /\ client[c].tok = t =>
          /\ sessions[t].rotated = Null => Ended(t)'
          /\ \A s \in Stored : SameFamily(t, s) /\ IsActive(sessions[s], clock)'
                              => ~InReach(s)']_clientVars
    BY <1>1
<1> QED BY <1>2, ClientInvariant, PTL DEF ReleaseIsFinal
===============================================================================
