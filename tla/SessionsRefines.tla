---------------------------- MODULE SessionsRefines ----------------------------
(***************************************************************************)
(* The session table implements TokenChain: proof that Sessions' initial   *)
(* states map to initial states, and every step to a step or a stutter.    *)
(***************************************************************************)
EXTENDS SessionsProofs

\* Whether s is the live session of family f.
IsHead(s, f) == s \in Stored /\ Live(s) /\ sessions[s].family = f

\* The mapping names the live session of a family, and there is only one.
LEMMA HeadIs ==
  ASSUME OneLeaf, NEW f \in Sid, NEW s, IsHead(s, f)
  PROVE  LiveHead[f] = s
<1> DEFINE live == {r \in Stored : sessions[r].family = f /\ Live(r)}
<1>1. \A r \in live : r = s
    BY DEF IsHead, OneLeaf, SameFamily, Live
<1>2. s \in live
    BY DEF IsHead
<1>3. LiveHead[f] = CHOOSE r \in live : TRUE
    BY <1>2 DEF LiveHead
<1> HIDE DEF live
<1> QED BY <1>1, <1>2, <1>3

LEMMA NoHead ==
  ASSUME NEW f \in Sid, \A s \in Stored : ~IsHead(s, f)
  PROVE  LiveHead[f] = Null
<1>1. {r \in Stored : sessions[r].family = f /\ Live(r)} = {}
    BY DEF IsHead
<1> QED BY <1>1 DEF LiveHead

\* The same two facts about the state after a step.
LEMMA NextHeadIs ==
  ASSUME OneLeaf', NEW f \in Sid, NEW s, IsHead(s, f)'
  PROVE  LiveHead'[f] = s
<1> DEFINE live == {r \in Stored' : sessions'[r].family = f /\ Live(r)'}
<1>1. \A r \in live : r = s
    BY DEF IsHead, OneLeaf, SameFamily, Live
<1>2. s \in live
    BY DEF IsHead
<1>3. LiveHead'[f] = CHOOSE r \in live : TRUE
    BY <1>2 DEF LiveHead
<1> HIDE DEF live
<1> QED BY <1>1, <1>2, <1>3

LEMMA NextNoHead ==
  ASSUME NEW f \in Sid, \A s \in Stored' : ~IsHead(s, f)'
  PROVE  LiveHead'[f] = Null
<1>1. {r \in Stored' : sessions'[r].family = f /\ Live(r)'} = {}
    BY DEF IsHead
<1> QED BY <1>1 DEF LiveHead

\* A family whose live session is the same before and after a step keeps its head.
LEMMA SameHead ==
  ASSUME OneLeaf, OneLeaf', NEW f \in Sid,
         \A s \in Sid : IsHead(s, f)' <=> IsHead(s, f)
  PROVE  LiveHead'[f] = LiveHead[f]
<1>1. CASE \E s \in Stored : IsHead(s, f)
  <2>1. PICK s \in Sid : IsHead(s, f)
      BY <1>1 DEF Stored
  <2>2. LiveHead[f] = s
      BY <2>1, HeadIs
  <2>3. IsHead(s, f)'
      BY <2>1
  <2> QED BY <2>2, <2>3, NextHeadIs
<1>2. CASE \A s \in Stored : ~IsHead(s, f)
  <2>1. LiveHead[f] = Null
      BY <1>2, NoHead
  <2>2. \A s \in Stored' : ~IsHead(s, f)'
      BY <1>2 DEF IsHead, Stored
  <2> QED BY <2>1, <2>2, NextNoHead
<1> QED BY <1>1, <1>2

\* How the map of heads changes, given how one family's head does.
LEMMA OneHeadChanges ==
  ASSUME NEW f \in Sid, NEW h, LiveHead'[f] = h,
         \A g \in Sid \ {f} : LiveHead'[g] = LiveHead[g]
  PROVE  LiveHead' = [LiveHead EXCEPT ![f] = h]
<1>1. LiveHead = [g \in Sid |-> LiveHead[g]] /\ LiveHead' = [g \in Sid |-> LiveHead'[g]]
    BY DEF LiveHead
<1> QED BY <1>1

LEMMA NoHeadChanges ==
  ASSUME \A g \in Sid : LiveHead'[g] = LiveHead[g]
  PROVE  LiveHead' = LiveHead
<1>1. LiveHead = [g \in Sid |-> LiveHead[g]] /\ LiveHead' = [g \in Sid |-> LiveHead'[g]]
    BY DEF LiveHead
<1> QED BY <1>1

-------------------------------------------------------------------------------
LEMMA InitRefines == Init => TC!Init
<1> SUFFICES ASSUME Init PROVE TC!Init
    OBVIOUS
<1>1. Stored = {}
    BY DEF Init, Stored
<1>2. \A f \in Sid : LiveHead[f] = Null
    BY <1>1 DEF LiveHead
<1>3. LiveHead = [f \in Sid |-> LiveHead[f]]
    BY DEF LiveHead
<1> QED BY <1>1, <1>2, <1>3 DEF TC!Init

\* A sign-in opens a chain.
LEMMA OpenRefines ==
  ASSUME IInv, IInv', NEW p \in Proc, OpenRoot(p)
  PROVE  \E f \in Sid : TC!Open(f)
<1>1. PICK s \in Fresh :
           /\ Stored' = Stored \cup {s}
           /\ \A r \in Stored : sessions'[r] = sessions[r] /\ sessions[r].family # s
           /\ sessions'[s].family = s /\ sessions'[s].rotated = Null
           /\ sessions'[s].revoked = Null
    BY OpeningStep
<1>2. s \in Sid /\ s \notin Stored /\ OneLeaf /\ OneLeaf'
    BY DEF Fresh, IInv, TableInv
<1>3. IsHead(s, s)'
    BY <1>1 DEF IsHead, Live
<1>4. \A g \in Sid \ {s}, r \in Sid : IsHead(r, g)' <=> IsHead(r, g)
    BY <1>1, <1>2 DEF IsHead, Live
<1>5. LiveHead' = [LiveHead EXCEPT ![s] = s]
    BY <1>2, <1>3, <1>4, NextHeadIs, SameHead, OneHeadChanges
<1> QED BY <1>1, <1>2, <1>5 DEF TC!Open

\* A rotation exchanges the head of the presented session's family.
LEMMA RotateRefines ==
  ASSUME IInv, IInv', NEW p \in Proc, Rotate(p)
  PROVE  \E f, c \in Sid : TC!Exchange(f, c)
<1>1. PICK t \in Stored, c \in Fresh :
           /\ Live(t) /\ c # t
           /\ Stored' = Stored \cup {c}
           /\ \A r \in Stored \ {t} : sessions'[r] = sessions[r]
           /\ sessions'[c].family = sessions[t].family /\ sessions'[c].rotated = Null
           /\ sessions'[c].revoked = Null
           /\ sessions'[t].family = sessions[t].family /\ sessions'[t].rotated # Null
    BY RotatingStep
<1>2. c \in Sid /\ c \notin Stored /\ OneLeaf /\ OneLeaf' /\ t \in Sid
    BY StoredRows DEF Fresh, IInv, TableInv
<1> PICK f \in Sid : f = sessions[t].family
    BY StoredRows DEF IInv, Row
<1>3. IsHead(t, f) /\ IsHead(c, f)'
    BY <1>1 DEF IsHead, Live
<1>4. \A g \in Sid \ {f}, r \in Sid : IsHead(r, g)' <=> IsHead(r, g)
    BY <1>1, <1>2 DEF IsHead, Live
<1>5. LiveHead[f] # Null
    BY <1>2, <1>3, HeadIs, NullAssumption
<1>6. LiveHead' = [LiveHead EXCEPT ![f] = c]
    BY <1>2, <1>3, <1>4, NextHeadIs, SameHead, OneHeadChanges
<1> QED BY <1>1, <1>2, <1>5, <1>6 DEF TC!Exchange

\* A family kill or a sign-out voids the chain, or finds it has no head to void.
LEMMA RevokeRefines ==
  ASSUME IInv, IInv', NEW p \in Proc, CommitRevoke(p) \/ SignOut(p)
  PROVE  (\E f \in Sid : TC!Void(f)) \/ UNCHANGED TC!vars
<1>1. PICK S \in SUBSET Stored :
           /\ \A s \in S : sessions[s].revoked = Null /\ SameFamily(s, tx[p].tok)
           /\ \A s \in Stored \ S : sessions'[s] = sessions[s]
           /\ \A s \in S : /\ sessions'[s].family = sessions[s].family
                          /\ sessions'[s].rotated = sessions[s].rotated
                          /\ sessions'[s].revoked # Null
           /\ Stored' = Stored /\ tx[p].tok \in Stored
    BY RevokingStep
<1>2. OneLeaf /\ OneLeaf'
    BY DEF IInv, TableInv
<1> PICK f \in Sid : f = sessions[tx[p].tok].family
    BY <1>1, StoredRows DEF IInv, Row
<1>3. \A g \in Sid \ {f}, r \in Sid : IsHead(r, g)' <=> IsHead(r, g)
    BY <1>1 DEF IsHead, Live, SameFamily
<1>4. \A r \in Sid : IsHead(r, f)' <=> IsHead(r, f) /\ r \notin S
    BY <1>1 DEF IsHead, Live
<1>5. \A g \in Sid \ {f} : LiveHead'[g] = LiveHead[g]
    BY <1>2, <1>3, SameHead
<1>6. CASE \E s \in S : IsHead(s, f)
  <2>1. PICK s \in S : IsHead(s, f)
      BY <1>6
  <2>2. s \in Sid /\ LiveHead[f] = s /\ s # Null
      BY <1>2, <2>1, HeadIs, NullAssumption DEF Stored
  <2>3. \A r \in Stored : IsHead(r, f) => r = s
      BY <1>2, <2>1 DEF IsHead, OneLeaf, SameFamily, Live
  <2>4. \A r \in Stored' : ~IsHead(r, f)'
      BY <1>1, <1>4, <2>3 DEF Stored
  <2>5. LiveHead' = [LiveHead EXCEPT ![f] = Null]
      BY <1>2, <1>5, <2>4, NextNoHead, OneHeadChanges
  <2> QED BY <1>1, <1>2, <2>2, <2>5 DEF TC!Void
<1>7. CASE \A s \in S : ~IsHead(s, f)
  <2>1. LiveHead'[f] = LiveHead[f]
      BY <1>2, <1>4, <1>7, SameHead
  <2>2. LiveHead' = LiveHead
      BY <1>5, <2>1, NoHeadChanges
  <2> QED BY <1>1, <2>2 DEF TC!vars
<1> QED BY <1>6, <1>7

LEMMA StepRefines ==
  ASSUME IInv, IInv', [Next]_vars
  PROVE  [TC!Next]_(TC!vars)
<1>1. CASE sessions' = sessions
  <2>1. Stored' = Stored
      BY <1>1 DEF Stored
  <2>2. \A g \in Sid : LiveHead'[g] = LiveHead[g]
    <3> SUFFICES ASSUME NEW g \in Sid PROVE LiveHead'[g] = LiveHead[g]
        OBVIOUS
    <3>1. \A s \in Sid : IsHead(s, g)' <=> IsHead(s, g)
        BY <1>1, <2>1 DEF IsHead, Live
    <3> QED BY <3>1, SameHead DEF IInv, TableInv
  <2> QED BY <2>1, <2>2, NoHeadChanges DEF TC!vars
<1>2. ASSUME NEW p \in Proc, OpenRoot(p) PROVE TC!Next
    BY <1>2, OpenRefines DEF TC!Next
<1>3. ASSUME NEW p \in Proc, Rotate(p) PROVE TC!Next
    BY <1>3, RotateRefines DEF TC!Next
<1>4. ASSUME NEW p \in Proc, CommitRevoke(p) \/ SignOut(p) PROVE TC!Next \/ UNCHANGED TC!vars
    BY <1>4, RevokeRefines DEF TC!Next
<1> QED BY <1>1, <1>2, <1>3, <1>4, TableWriters

\* The transactions over the session table, with their locks, snapshots and
\* deferred writes, behave as a set of one-shot token chains.
THEOREM Refinement == Spec => ImplementsTokenChain
<1>1. IInv /\ IInv' /\ [Next]_vars => [TC!Next]_(TC!vars)
    BY StepRefines
<1> QED BY <1>1, InitRefines, Invariant, PTL DEF Spec, ImplementsTokenChain, TC!Spec
===============================================================================
