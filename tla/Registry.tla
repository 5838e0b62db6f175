------------------------------- MODULE Registry -------------------------------
(***************************************************************************)
(* What sign-up promises, without any pre-check, queued write or index: an *)
(* address is given away once, for good, and every sign-up is decided in   *)
(* one step, by whether its address is free at that step.                  *)
(*                                                                         *)
(* Module SignUp implements this specification: see SignUp!RG.             *)
(***************************************************************************)
CONSTANTS
  Caller,     \* those who sign up
  Address,    \* e-mail addresses
  Id,         \* accounts
  Null        \* no account, no address

VARIABLES
  holder,     \* holder[a]: the account that has address a
  wanted,     \* wanted[c]: the address c is signing up with
  reply       \* reply[c]: what c was told last

vars == <<holder, wanted, reply>>

TypeOK ==
  /\ holder \in [Address -> Id \cup {Null}]
  /\ wanted \in [Caller -> Address \cup {Null}]
  /\ reply \in [Caller -> {"none", "created", "refused"}]

Init ==
  /\ holder = [a \in Address |-> Null]
  /\ wanted = [c \in Caller |-> Null]
  /\ reply = [c \in Caller |-> "none"]

Ask(c, a) ==
  /\ wanted[c] = Null
  /\ wanted' = [wanted EXCEPT ![c] = a]
  /\ reply' = [reply EXCEPT ![c] = "none"]
  /\ UNCHANGED holder

\* The sign-up of c for address a is over, with the answer r.
Decide(c, a, r) ==
  /\ wanted[c] = a
  /\ wanted' = [wanted EXCEPT ![c] = Null]
  /\ reply' = [reply EXCEPT ![c] = r]

\* The address is free, and becomes that of an account which had none.
Grant(c, a, i) ==
  /\ Decide(c, a, "created")
  /\ holder[a] = Null
  /\ \A b \in Address : holder[b] # i
  /\ holder' = [holder EXCEPT ![a] = i]

Refuse(c, a) ==
  /\ Decide(c, a, "refused")
  /\ holder[a] # Null
  /\ UNCHANGED holder

\* Nothing happened, and nobody was told.
Drop(c, a) ==
  /\ Decide(c, a, "none")
  /\ UNCHANGED holder

Next ==
  \E c \in Caller, a \in Address :
    \/ Ask(c, a) \/ Refuse(c, a) \/ Drop(c, a)
    \/ \E i \in Id : Grant(c, a, i)

Spec == Init /\ [][Next]_vars
===============================================================================
