------------------------------ MODULE TokenChain ------------------------------
(***************************************************************************)
(* What a client may rely on when it holds a refresh token, without any    *)
(* transaction, lock or timestamp.  Every sign-in opens a chain, named by  *)
(* its first token.  A chain has at most one live token, its head; an      *)
(* exchange spends the head and issues its successor in one step, and a    *)
(* chain whose head was voided never has a live token again.               *)
(*                                                                         *)
(* Module Sessions implements this specification: see Sessions!TC.         *)
(***************************************************************************)
EXTENDS Naturals

CONSTANTS
  Token,      \* refresh tokens; a chain is named by the token that opened it
  Null        \* "no live token"; not a token

VARIABLES
  issued,     \* every token ever handed out
  head        \* head[f]: the live token of chain f, Null before and after

vars == <<issued, head>>

TypeOK ==
  /\ issued \subseteq Token
  /\ head \in [Token -> issued \cup {Null}]

Init ==
  /\ issued = {}
  /\ head = [f \in Token |-> Null]

\* A sign-in: f becomes the first and the live token of a new chain.
Open(f) ==
  /\ f \notin issued
  /\ issued' = issued \cup {f}
  /\ head' = [head EXCEPT ![f] = f]

\* A refresh: the head of chain f is exchanged for a token never issued before.
Exchange(f, t) ==
  /\ t \notin issued
  /\ issued' = issued \cup {t}
  /\ head[f] # Null
  /\ head' = [head EXCEPT ![f] = t]

\* A sign-out or a reuse detection: chain f ends.
Void(f) ==
  /\ head[f] # Null
  /\ head' = [head EXCEPT ![f] = Null]
  /\ UNCHANGED issued

Next ==
  \/ \E f \in Token : Open(f) \/ Void(f)
  \/ \E f, t \in Token : Exchange(f, t)

Spec == Init /\ [][Next]_vars
===============================================================================
