--------------------------- MODULE HybridAuthProofs ---------------------------
(***************************************************************************)
(* The composition: what SigningKeys guarantees about the published set is *)
(* what the verifier's retry relies on.                                    *)
(***************************************************************************)
EXTENDS HybridAuth, SigningKeysProofs

\* A token in the resource-service was issued, and when the retry is at hand and
\* its key set lacks the token's key, the token has expired.
RetryOK(r) ==
  req[r].pc # "idle" =>
    /\ req[r].kid \in Kid
    /\ req[r].exp <= signed[req[r].kid]
    /\ req[r].pc \in {"try", "load"} /\ req[r].again /\ req[r].kid \notin req[r].keys
         => clock >= req[r].exp

\* The inductive invariant of the composition.
HybridInv == KeyInv /\ VerifierTypeOK /\ \A r \in Req : RetryOK(r)

USE KeyNullAssumption, PeriodAssumption, GraceAssumption, NoKeyAssumption, SkewAssumption

LEMMA HybridInit1 == HybridInit => HybridInv
<1> SUFFICES ASSUME HybridInit PROVE HybridInv
    OBVIOUS
<1>1. KeyInv
    BY InitInv DEF HybridInit
<1>2. ASSUME NEW r \in Req PROVE req[r] = V!Resting
    BY DEF HybridInit, V!Init
<1>3. V!Resting \in V!Decode /\ V!Resting.pc = "idle"
    BY DEF V!Resting, V!Decode
<1>4. VerifierTypeOK
    BY <1>3 DEF HybridInit, V!Init, VerifierTypeOK, V!TypeOK
<1>5. \A r \in Req : RetryOK(r)
    BY <1>2, <1>3 DEF RetryOK
<1> QED BY <1>1, <1>4, <1>5 DEF HybridInv

\* The issuer never takes a token's validity back, nor the time.
LEMMA IssuerMonotone ==
  ASSUME KeyInv, [Next]_keyVars
  PROVE  clock <= clock' /\ \A k \in Kid : signed[k] <= signed'[k]
<1>1. clock \in Nat /\ signed \in [Kid -> Nat]
    BY DEF KeyInv, TypeOK
<1>2. CASE \E p \in Proc : CommitMint(p)
  <2>1. PICK p \in Proc : CommitMint(p)
      BY <1>2
  <2>2. tx[p].iat + AccessTTL \in Nat
      BY DEF KeyInv, TypeOK, Tx
  <2>3. \A k \in Kid : signed[k] <= signed'[k]
      BY <1>1, <2>1, <2>2 DEF CommitMint
  <2> QED BY <1>1, <2>1, <2>3 DEF CommitMint, Finish
<1>3. CASE ~\E p \in Proc : CommitMint(p)
  <2>1. signed' = signed /\ clock' \in {clock, clock + 1}
      BY <1>3 DEF Next, keyVars, Tick, Restart, BeginMint, Bootstrap, ReadActive, CannotOpen,
                  FindOverdue, SelectKey, KeyMismatch, BeginRotate, Rotate, CommitRotate, Fail, Finish
  <2> QED BY <1>1, <2>1
<1> QED BY <1>2, <1>3

LEMMA IssueInv ==
  ASSUME HybridInv, [Next]_keyVars, UNCHANGED <<cache, req>>
  PROVE  HybridInv'
<1>1. KeyInv'
    BY NextInv DEF HybridInv
<1>2. VerifierTypeOK'
    BY DEF HybridInv, VerifierTypeOK, V!TypeOK
<1>3. ASSUME NEW r \in Req PROVE RetryOK(r)'
  <2> SUFFICES ASSUME req[r].pc # "idle" PROVE RetryOK(r)'
      BY DEF RetryOK
  <2>1. /\ req[r].kid \in Kid /\ req[r].exp \in Nat
        /\ req[r].exp <= signed[req[r].kid]
        /\ clock \in Nat /\ clock' \in Nat
        /\ signed[req[r].kid] \in Nat /\ signed'[req[r].kid] \in Nat
      BY <1>1 DEF HybridInv, RetryOK, VerifierTypeOK, V!TypeOK, V!Decode, KeyInv, TypeOK
  <2>2. clock <= clock' /\ signed[req[r].kid] <= signed'[req[r].kid]
      BY <2>1, IssuerMonotone DEF HybridInv
  <2> QED BY <2>1, <2>2 DEF HybridInv, RetryOK
<1> QED BY <1>1, <1>2, <1>3 DEF HybridInv

\* A step of thread r, with what it leaves of the decode in progress.
LEMMA ThreadInv ==
  ASSUME HybridInv, NEW r \in Req, UNCHANGED keyVars,
         cache' \in (SUBSET Kid) \cup {NoSet},
         NEW d \in V!Decode, req' = [req EXCEPT ![r] = d], RetryOK(r)'
  PROVE  HybridInv'
<1>1. KeyInv'
    BY NextInv DEF HybridInv
<1>2. req \in [Req -> V!Decode]
    BY DEF HybridInv, VerifierTypeOK, V!TypeOK
<1>3. VerifierTypeOK'
    BY <1>2 DEF VerifierTypeOK, V!TypeOK
<1>4. ASSUME NEW q \in Req \ {r} PROVE RetryOK(q)'
  <2>1. req'[q] = req[q] /\ clock' = clock /\ signed' = signed
      BY <1>2 DEF keyVars
  <2> QED BY <2>1 DEF HybridInv, RetryOK
<1> QED BY <1>1, <1>3, <1>4 DEF HybridInv

LEMMA RestingThread == V!Resting \in V!Decode /\ V!Resting.pc = "idle"
BY DEF V!Resting, V!Decode

\* The decode of r is answered.
LEMMA AnswerInv ==
  ASSUME HybridInv, NEW r \in Req, V!Answer(r), UNCHANGED <<cache>>, UNCHANGED keyVars
  PROVE  HybridInv'
<1>1. cache' \in (SUBSET Kid) \cup {NoSet} /\ req \in [Req -> V!Decode]
    BY DEF HybridInv, VerifierTypeOK, V!TypeOK
<1>2. req' = [req EXCEPT ![r] = V!Resting]
    BY DEF V!Answer
<1>3. RetryOK(r)'
    BY <1>1, <1>2, RestingThread DEF RetryOK
<1> QED BY <1>1, <1>2, <1>3, RestingThread, ThreadInv

\* A request comes in with a token that was issued.
LEMMA PresentInv ==
  ASSUME HybridInv, NEW r \in Req, NEW k \in Kid, V!Present(r, k), UNCHANGED keyVars
  PROVE  HybridInv'
<1> DEFINE d == [pc |-> IF cache = NoSet THEN "fetch" ELSE "try",
                 kid |-> k, exp |-> signed[k], keys |-> cache, again |-> FALSE]
<1>1. /\ cache' \in (SUBSET Kid) \cup {NoSet} /\ cache' = cache
      /\ req \in [Req -> V!Decode] /\ signed[k] \in Nat /\ signed' = signed
    BY DEF V!Present, HybridInv, VerifierTypeOK, V!TypeOK, KeyInv, TypeOK, keyVars
<1>2. d \in V!Decode /\ d.kid = k /\ d.exp = signed[k] /\ ~d.again
    BY <1>1 DEF V!Decode
<1>3. req' = [req EXCEPT ![r] = d]
    BY DEF V!Present
<1> HIDE DEF d
<1>4. RetryOK(r)'
    BY <1>1, <1>2, <1>3 DEF RetryOK
<1> QED BY <1>1, <1>2, <1>3, <1>4, ThreadInv

\* The first miss.
LEMMA MissInv ==
  ASSUME HybridInv, NEW r \in Req, V!Miss(r), UNCHANGED keyVars
  PROVE  HybridInv'
<1> DEFINE d == [req[r] EXCEPT !.pc = "fetch", !.again = TRUE]
<1>1. /\ cache' \in (SUBSET Kid) \cup {NoSet} /\ signed' = signed
      /\ req \in [Req -> V!Decode] /\ req[r].pc = "try"
    BY DEF V!Miss, HybridInv, VerifierTypeOK, V!TypeOK, keyVars
<1>2. d \in V!Decode /\ d.pc = "fetch" /\ d.kid = req[r].kid /\ d.exp = req[r].exp
    BY <1>1 DEF V!Decode
<1>3. req' = [req EXCEPT ![r] = d]
    BY <1>1 DEF V!Miss, V!Decode
<1> HIDE DEF d
<1>4. RetryOK(r)'
    BY <1>1, <1>2, <1>3 DEF HybridInv, RetryOK
<1> QED BY <1>1, <1>2, <1>3, <1>4, ThreadInv

\* The issuer publishes the key of every token that is still valid.
LEMMA ServeInv ==
  ASSUME HybridInv, NEW r \in Req, V!Serve(r), UNCHANGED keyVars
  PROVE  HybridInv'
<1> DEFINE d == [req[r] EXCEPT !.pc = "load", !.keys = Published]
<1>1. /\ cache' \in (SUBSET Kid) \cup {NoSet} /\ signed' = signed /\ clock' = clock
      /\ req \in [Req -> V!Decode] /\ req[r].pc = "fetch"
      /\ clock \in Nat /\ signed \in [Kid -> Nat]
    BY DEF V!Serve, HybridInv, VerifierTypeOK, V!TypeOK, KeyInv, TypeOK, keyVars
<1>2. /\ d \in V!Decode /\ d.pc = "load" /\ d.keys = Published
      /\ d.kid = req[r].kid /\ d.exp = req[r].exp
    BY <1>1 DEF V!Decode, Published
<1>3. req' = [req EXCEPT ![r] = d]
    BY <1>1 DEF V!Serve, V!Decode
<1> HIDE DEF d
<1>4. /\ req[r].kid \in Kid /\ req[r].exp \in Nat
      /\ req[r].exp <= signed[req[r].kid]
    BY <1>1 DEF HybridInv, RetryOK, V!Decode
<1>5. req[r].kid \notin Published => clock >= signed[req[r].kid]
    BY <1>1, <1>4, KeysVerify DEF HybridInv, TokensVerify, Published
<1>6. req[r].kid \notin Published => clock >= req[r].exp
    BY <1>1, <1>4, <1>5
<1>7. RetryOK(r)'
    BY <1>1, <1>2, <1>3, <1>4, <1>6 DEF RetryOK
<1> QED BY <1>1, <1>2, <1>3, <1>7, ThreadInv

LEMMA LoadInv ==
  ASSUME HybridInv, NEW r \in Req, V!Load(r), UNCHANGED keyVars
  PROVE  HybridInv'
<1> DEFINE d == [req[r] EXCEPT !.pc = "try"]
<1>1. /\ signed' = signed /\ clock' = clock
      /\ req \in [Req -> V!Decode] /\ req[r].pc = "load"
    BY DEF V!Load, HybridInv, VerifierTypeOK, V!TypeOK, keyVars
<1>2. cache' \in (SUBSET Kid) \cup {NoSet}
    BY <1>1 DEF V!Load, V!Decode
<1>3. /\ d \in V!Decode /\ d.pc = "try" /\ d.keys = req[r].keys /\ d.again = req[r].again
      /\ d.kid = req[r].kid /\ d.exp = req[r].exp
    BY <1>1 DEF V!Decode
<1>4. req' = [req EXCEPT ![r] = d]
    BY DEF V!Load
<1> HIDE DEF d
<1>5. RetryOK(r)'
    BY <1>1, <1>3, <1>4 DEF HybridInv, RetryOK
<1> QED BY <1>2, <1>3, <1>4, <1>5, ThreadInv

LEMMA RestartInv ==
  ASSUME HybridInv, V!Restart, UNCHANGED keyVars
  PROVE  HybridInv'
<1>1. KeyInv'
    BY NextInv DEF HybridInv
<1>2. \A r \in Req : req'[r] = V!Resting
    BY DEF V!Restart
<1>3. VerifierTypeOK'
    BY RestingThread DEF V!Restart, VerifierTypeOK, V!TypeOK
<1>4. \A r \in Req : RetryOK(r)'
    BY <1>2, RestingThread DEF RetryOK
<1> QED BY <1>1, <1>3, <1>4 DEF HybridInv

LEMMA HybridNextInv == HybridInv /\ [HybridNext]_hybridVars => HybridInv'
<1> SUFFICES ASSUME HybridInv, [HybridNext]_hybridVars PROVE HybridInv'
    OBVIOUS
<1>1. CASE Issue \/ UNCHANGED hybridVars
    BY <1>1, IssueInv DEF Issue, hybridVars, keyVars
<1>2. CASE Verify
  <2>1. ASSUME NEW r \in Req, NEW k \in Kid, V!Present(r, k) PROVE HybridInv'
      BY <1>2, <2>1, PresentInv DEF Verify
  <2>2. ASSUME NEW r \in Req, V!Accept(r) \/ V!Reject(r) \/ V!Unreachable(r) PROVE HybridInv'
      BY <1>2, <2>2, AnswerInv DEF Verify, V!Accept, V!Reject, V!Unreachable
  <2>3. ASSUME NEW r \in Req, V!Miss(r) PROVE HybridInv'
      BY <1>2, <2>3, MissInv DEF Verify
  <2>4. ASSUME NEW r \in Req, V!Serve(r) PROVE HybridInv'
      BY <1>2, <2>4, ServeInv DEF Verify
  <2>5. ASSUME NEW r \in Req, V!Load(r) PROVE HybridInv'
      BY <1>2, <2>5, LoadInv DEF Verify
  <2>6. CASE V!Restart
      BY <1>2, <2>6, RestartInv DEF Verify
  <2> QED BY <1>2, <2>1, <2>2, <2>3, <2>4, <2>5, <2>6 DEF Verify, V!Next, V!Steps
<1> QED BY <1>1, <1>2 DEF HybridNext

\* HybridInv holds in every reachable state.
THEOREM HybridInvariant == HybridSpec => []HybridInv
<1> QED BY HybridInit1, HybridNextInv, PTL DEF HybridSpec

\* The verifier's state has its type.
THEOREM VerifierTyped == HybridSpec => []VerifierTypeOK
<1>1. HybridInv => VerifierTypeOK
    BY DEF HybridInv
<1> QED BY <1>1, HybridInvariant, PTL

LEMMA RejectStep ==
  ASSUME HybridInv, NEW r \in Req, V!Reject(r)
  PROVE  clock >= req[r].exp
<1>1. /\ req[r].exp \in Nat /\ clock \in Nat /\ req[r].pc = "try" /\ req[r].again
      /\ ~V!Verifies(r)
    BY DEF V!Reject, HybridInv, VerifierTypeOK, V!TypeOK, V!Decode, KeyInv, TypeOK
<1>2. CASE req[r].kid \notin req[r].keys
    BY <1>1, <1>2 DEF HybridInv, RetryOK
<1>3. CASE clock >= req[r].exp + Skew
    BY <1>1, <1>3
<1> QED BY <1>1, <1>2, <1>3 DEF V!Verifies

\* The resource-service refuses no valid token, however its refetches overlap
\* with each other and with rotations.
THEOREM ValidTokensPass == HybridSpec => NoFalseReject
<1>1. HybridInv /\ [HybridNext]_hybridVars
        => [\A r \in Req : V!Reject(r) => clock >= req[r].exp]_hybridVars
    BY RejectStep
<1> QED BY <1>1, HybridInvariant, PTL DEF HybridSpec, NoFalseReject
===============================================================================
