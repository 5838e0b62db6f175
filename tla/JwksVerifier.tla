----------------------------- MODULE JwksVerifier -----------------------------
(***************************************************************************)
(* The access-token verifier of the resource-service: one key set in       *)
(* memory, shared by all request threads without a lock, verification      *)
(* against it, and one refetch on a miss.  A refetch is an HTTP call: the  *)
(* issuer takes the published set at one instant, and the answer replaces  *)
(* the cache at a later one, whatever other threads have fetched meanwhile.*)
(*                                                                         *)
(* The issuer is a parameter: module HybridAuth puts SigningKeys there.    *)
(* Nothing is assumed to cache HTTP answers between the services, though   *)
(* the endpoint would let one: it sends public, max-age=600.               *)
(***************************************************************************)
EXTENDS Naturals

CONSTANTS
  Req,          \* request threads of the resource-service
  Kid,          \* signing keys
  NoSet,        \* the cache before the first fetch
  NoKid,        \* no token in hand
  Skew          \* clock skew the default validators allow, in ticks

VARIABLES
  clock,        \* what Instant.now() reads
  published,    \* the kids the JWKS endpoint would serve now
  expiry,       \* expiry[k]: when the last token signed with k expires, 0 if none was
  cache,        \* the cached key set
  req           \* req[r]: the decode in progress

verifierVars == <<cache, req>>

Decode == [pc    : {"idle", "try", "fetch", "load"},
           kid   : Kid \cup {NoKid},
           exp   : Nat,
           keys  : (SUBSET Kid) \cup {NoSet},   \* the decoder in hand: a fixed key set
           again : BOOLEAN]                   \* this is the retry

Resting == [pc |-> "idle", kid |-> NoKid, exp |-> 0, keys |-> NoSet, again |-> FALSE]

TypeOK ==
  /\ cache \in (SUBSET Kid) \cup {NoSet}
  /\ req \in [Req -> Decode]

\* The decode of r returns or throws.
Answer(r) == req' = [req EXCEPT ![r] = Resting]

\* Mutant: the retry asks the cache again, not the decoder that was just built.
VerifiesByCache(r) == req[r].kid \in cache /\ clock < req[r].exp + Skew

\* NimbusJwtDecoder.decode: the kid resolves in its key set and the token has
\* not expired, give or take the skew.
Verifies(r) == req[r].kid \in req[r].keys /\ clock < req[r].exp + Skew

Init ==
  /\ cache = NoSet
  /\ req = [r \in Req |-> Resting]

\* Mutant: the exp claim of the token is not read.
PresentNoExp(r, k) ==
  /\ req[r].pc = "idle"
  /\ expiry[k] > 0
  /\ req' = [req EXCEPT ![r] = [pc |-> IF cache = NoSet THEN "fetch" ELSE "try",
                                kid |-> k, exp |-> NoKid, keys |-> cache, again |-> FALSE]]
  /\ UNCHANGED cache

\* A request with a token comes in; current() takes the cached decoder, or has
\* it loaded for the first time.
Present(r, k) ==
  /\ req[r].pc = "idle"
  /\ expiry[k] > 0
  /\ req' = [req EXCEPT ![r] = [pc |-> IF cache = NoSet THEN "fetch" ELSE "try",
                                kid |-> k, exp |-> expiry[k], keys |-> cache, again |-> FALSE]]
  /\ UNCHANGED cache

Accept(r) ==
  /\ req[r].pc = "try"
  /\ Verifies(r)
  /\ Answer(r)
  /\ UNCHANGED cache

\* Mutant: a miss is always followed by another refetch.
MissForEver(r) ==
  /\ req[r].pc = "try"
  /\ ~Verifies(r)
  /\ req' = [req EXCEPT ![r].pc = "fetch"]
  /\ UNCHANGED cache

\* The first miss: refetch and retry.
Miss(r) ==
  /\ req[r].pc = "try"
  /\ ~Verifies(r)
  /\ ~req[r].again
  /\ req' = [req EXCEPT ![r].pc = "fetch", ![r].again = TRUE]
  /\ UNCHANGED cache

\* The second miss: 401.
Reject(r) ==
  /\ req[r].pc = "try"
  /\ ~Verifies(r)
  /\ req[r].again
  /\ Answer(r)
  /\ UNCHANGED cache

\* The issuer answers the fetch with the set it publishes now: no HTTP cache
\* stands between, which could answer with a set up to ten minutes old.
Serve(r) ==
  /\ req[r].pc = "fetch"
  /\ req' = [req EXCEPT ![r].pc = "load", ![r].keys = published]
  /\ UNCHANGED cache

\* The answer arrives: a decoder over it goes into the cache and is used.
Load(r) ==
  /\ req[r].pc = "load"
  /\ cache' = req[r].keys
  /\ req' = [req EXCEPT ![r].pc = "try"]

\* The issuer is down, too slow or serves garbage: 401, the cache stays.
Unreachable(r) ==
  /\ req[r].pc \in {"fetch", "load"}
  /\ Answer(r)
  /\ UNCHANGED cache

\* The service restarts: the cache and the requests are gone.
Restart ==
  /\ cache' = NoSet
  /\ req' = [r \in Req |-> Resting]

Steps(r) == Accept(r) \/ Miss(r) \/ Reject(r) \/ Serve(r) \/ Load(r)

Next ==
  \/ \E r \in Req :
       \/ \E k \in Kid : Present(r, k)
       \/ Steps(r)
       \/ Unreachable(r)
  \/ Restart
===============================================================================
