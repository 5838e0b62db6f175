-------------------------------- MODULE KeyRing --------------------------------
(***************************************************************************)
(* What those who verify access tokens may rely on, without transactions,  *)
(* locks, active periods or secrets: a set of published keys, and for each *)
(* key the time until which some token it signed is valid.  Keys join the  *)
(* set when they are put to use and leave it by the passing of time only,  *)
(* never before the last of their tokens has expired.                      *)
(*                                                                         *)
(* Module SigningKeys implements this specification: see SigningKeys!KR.   *)
(***************************************************************************)
EXTENDS Naturals

CONSTANTS
  Kid,          \* keys
  AccessTTL     \* the lifetime of a token

VARIABLES
  clock,
  ring,         \* the published keys
  until         \* until[k]: when the last token signed with k expires, 0 if none was

vars == <<clock, ring, until>>

\* The published keys cover every valid token.
Covered == \A k \in Kid : clock < until[k] => k \in ring

Init ==
  /\ clock = 0
  /\ ring = {}
  /\ until = [k \in Kid |-> 0]

\* Time passes; keys that no valid token needs may go.
Tick ==
  /\ clock' = clock + 1
  /\ ring' \subseteq ring
  /\ Covered'
  /\ UNCHANGED until

\* A key is published, or one that had left is needed again.
Grow ==
  /\ ring \subseteq ring' /\ ring' \subseteq Kid
  /\ UNCHANGED <<clock, until>>

\* A token is issued with key k, and k published if it was not.
Mint(k) ==
  /\ \E exp \in (until[k] + 1) .. (clock + AccessTTL) : until' = [until EXCEPT ![k] = exp]
  /\ ring \subseteq ring' /\ ring' \subseteq Kid
  /\ Covered'
  /\ UNCHANGED clock

Next == Tick \/ Grow \/ \E k \in Kid : Mint(k)

Spec == Init /\ [][Next]_vars
===============================================================================
