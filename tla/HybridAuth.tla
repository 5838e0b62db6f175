------------------------------ MODULE HybridAuth ------------------------------
(***************************************************************************)
(* The hybrid scheme: the auth-service rotates its signing keys and mints  *)
(* access tokens, the resource-service verifies them with the key set it   *)
(* fetched last.  The JWKS endpoint is the only thing the two share.       *)
(***************************************************************************)
EXTENDS SigningKeys

CONSTANTS Req, NoSet, NoKid, Skew

ASSUME SkewAssumption == Skew \in Nat

VARIABLES cache, req

V == INSTANCE JwksVerifier WITH published <- Published, expiry <- signed

hybridVars == <<secret, clock, keys, lock, signed, tx, cache, req>>

HybridInit == Init /\ V!Init

\* Each service takes its steps on its own.
Issue  == Next /\ UNCHANGED <<cache, req>>
Verify == V!Next /\ UNCHANGED keyVars

HybridNext == Issue \/ Verify

HybridSpec == HybridInit /\ [][HybridNext]_hybridVars

\* A thread of the resource-service goes on; the HTTP client has timeouts, so a
\* fetch ends one way or another.
HybridFairness == \A r \in Req : WF_hybridVars(V!Steps(r) /\ UNCHANGED keyVars)

FairHybridSpec == HybridSpec /\ HybridFairness

-------------------------------------------------------------------------------
VerifierTypeOK == V!TypeOK

\* A token is refused by the resource-service only when it has expired (or the
\* issuer could not be reached): not by a rotation between its mint and its use,
\* not by a stale cache, not by another thread that puts an older key set back
\* (JwksTokenVerifier: "a freshly rotated key is picked up automatically on the
\* next request").
NoFalseReject == [][\A r \in Req : V!Reject(r) => clock >= req[r].exp]_hybridVars

\* Every decode ends: a miss is followed by one refetch, not by one after another
\* ("refetches exactly once").
EveryDecodeAnswered == \A r \in Req : req[r].pc # "idle" ~> req[r].pc = "idle"
===============================================================================
