----------------------------- MODULE JwksCache -----------------------------
(***************************************************************************)
(* og-auth: the verification of bearer tokens against sesame-idam's JWKS,  *)
(* whose Ed25519 keys are cached for cache_ttl and fetched again on a miss. *)
(* Nothing limits the fetches to one at a time: each request that misses    *)
(* fetches for itself and replaces the cache with what it got, which may be *)
(* older than what is there.                                               *)
(*                                                                         *)
(* A token is its kid, its exp (0 if it has none) and the first of its      *)
(* defects: its shape (it is missing or its header does not decode), its    *)
(* alg, its encoding (the signature or the payload does not decode), its    *)
(* signature (it does not verify under the key that kid names) or its       *)
(* issuer.  Time passes in units of which cache_ttl has TTL.  The JWKS URL  *)
(* is set: without it nothing is verified.                                  *)
(***************************************************************************)
EXTENDS Naturals, FiniteSets

CONSTANTS
  Requests,   \* requests that carry a bearer token
  EdKeys,     \* kids of keys with kty OKP and crv Ed25519
  OtherKeys,  \* kids of keys of another type with an x (EC), which the JWKS lists as well
  Tokens,     \* the tokens that requests carry
  None,
  TTL,        \* AuthConfig.cache_ttl
  MaxDelay,   \* bound on the time from sesame-idam's answer to its use
  MaxTime     \* bound on the clock

Keys == EdKeys \cup OtherKeys
Defect == {"none", "shape", "alg", "encoding", "signature", "issuer"}
Token == [kid : Keys, defect : Defect, exp : Nat]
CachedKeys == [keys : SUBSET EdKeys, fetched_at : 0..MaxTime]

ASSUME JwksAssumption ==
  /\ Tokens \subseteq Token
  /\ EdKeys \cap OtherKeys = {}
  /\ None \notin Keys \cup 0..MaxTime \cup CachedKeys
  /\ TTL \in Nat /\ MaxDelay \in Nat /\ MaxTime \in Nat
  /\ MaxDelay <= TTL

VARIABLES
  now,      \* the clock
  jwks,     \* the keys that sesame-idam publishes
  retired,  \* when each key was withdrawn, or None
  cache,    \* the cached keys and when they were stored, or None
  request   \* the calls of verify

vars == <<now, jwks, retired, cache, request>>

\* answer, at: what sesame-idam sent, and when; raced: another call stored its
\* answer between this call's storing and reading.  All three are forgotten with the
\* reply.
Call ==
  [token : Tokens, pc : {"idle", "fetch", "store", "reread", "done"},
   answer : SUBSET Keys, at : 0..MaxTime, raced : BOOLEAN,
   reply : {"none", "accepted", "Malformed", "BadSignature", "Expired",
            "IssuerMismatch", "UnknownKey", "JwksUnavailable"}]

TypeOK ==
  /\ now \in 0..MaxTime
  /\ jwks \subseteq Keys
  /\ retired \in [EdKeys -> 0..MaxTime \cup {None}]
  /\ cache \in CachedKeys \cup {None}
  /\ request \in [Requests -> Call]

Init ==
  /\ now = 0
  /\ jwks \in { OtherKeys \cup ed : ed \in SUBSET EdKeys }
  /\ retired = [k \in EdKeys |-> None]
  /\ cache = None
  /\ request \in [Requests -> { [token |-> t, pc |-> "idle", answer |-> {}, at |-> 0,
                                 raced |-> FALSE, reply |-> "none"] : t \in Tokens }]

-----------------------------------------------------------------------------
Kid(r) == request[r].token.kid
Defective(r) == request[r].token.defect

\* parse_jwks skips the keys of another type.
\* Mutant: it takes every key.
ParseJwksAll(set) == set
ParseJwks(set) == set \cap EdKeys

\* cached: the key, if the cache is not older than its time to live and has it.
\* Mutant: a key that was cached stays.
CachedForEver(k) == cache # None /\ k \in cache.keys
Cached(k) == cache # None /\ now - cache.fetched_at <= TTL /\ k \in cache.keys

Expired(r) == request[r].token.exp # 0 /\ request[r].token.exp < now

\* What verify replies once it has the key.  The expiry is judged then, after the
\* fetch.
Verdict(r) ==
  CASE Defective(r) = "encoding" -> "Malformed"
    [] Defective(r) = "signature" -> "BadSignature"
    [] Defective(r) \notin {"encoding", "signature"} /\ Expired(r) -> "Expired"
    [] Defective(r) = "issuer" /\ ~Expired(r) -> "IssuerMismatch"
    [] Defective(r) = "none" /\ ~Expired(r) -> "accepted"

Reply(r, reply) ==
  request' = [request EXCEPT ![r] =
                [token |-> @.token, pc |-> "done", answer |-> {}, at |-> 0,
                 raced |-> FALSE, reply |-> reply]]

\* verify and key_for: a token that is no EdDSA token costs no key, and a key that
\* is cached no fetch.
Lookup(r) ==
  /\ request[r].pc = "idle"
  /\ \/ Defective(r) = "shape" /\ Reply(r, "Malformed")
     \/ Defective(r) = "alg" /\ Reply(r, "BadSignature")
     \/ /\ Defective(r) \notin {"shape", "alg"}
        /\ \/ Cached(Kid(r)) /\ Reply(r, Verdict(r))
           \/ ~Cached(Kid(r)) /\ request' = [request EXCEPT ![r].pc = "fetch"]
  /\ UNCHANGED <<now, jwks, retired, cache>>

\* refresh: sesame-idam answers the GET; the answer is on its way.
Fetch(r) ==
  /\ request[r].pc = "fetch"
  /\ request' = [request EXCEPT ![r] =
                   [@ EXCEPT !.pc = "store", !.answer = jwks, !.at = now]]
  /\ UNCHANGED <<now, jwks, retired, cache>>

\* refresh: no answer, or none that decodes: a set that lists one key without an x, an
\* RSA key say, does not, whatever else it lists.  The cache stays as it is.
FetchFails(r) ==
  /\ request[r].pc \in {"fetch", "store"}
  /\ Reply(r, "JwksUnavailable")
  /\ UNCHANGED <<now, jwks, retired, cache>>

\* refresh: the answer replaces the cache, and is as new as the time it is stored.
\* Mutant: a cache that is there is kept.
StoreOnce(r) ==
  /\ request[r].pc = "store"
  /\ cache' = IF cache = None
              THEN [keys |-> ParseJwks(request[r].answer), fetched_at |-> now]
              ELSE cache
  /\ request' = [q \in Requests |->
                   IF q = r THEN [request[q] EXCEPT !.pc = "reread"]
                   ELSE [request[q] EXCEPT !.raced = @ \/ request[q].pc = "reread"]]
  /\ UNCHANGED <<now, jwks, retired>>
Store(r) ==
  /\ request[r].pc = "store"
  /\ cache' = [keys |-> ParseJwks(request[r].answer), fetched_at |-> now]
  /\ request' = [q \in Requests |->
                   IF q = r THEN [request[q] EXCEPT !.pc = "reread"]
                   ELSE [request[q] EXCEPT !.raced = @ \/ request[q].pc = "reread"]]
  /\ UNCHANGED <<now, jwks, retired>>

\* key_for: the second look into the cache is the last.
\* Mutant: it fetches until it has the key.
RereadRetries(r) ==
  /\ request[r].pc = "reread"
  /\ \/ Cached(Kid(r)) /\ Reply(r, Verdict(r))
     \/ ~Cached(Kid(r)) /\ request' = [request EXCEPT ![r].pc = "fetch"]
  /\ UNCHANGED <<now, jwks, retired, cache>>
Reread(r) ==
  /\ request[r].pc = "reread"
  /\ Reply(r, IF Cached(Kid(r)) THEN Verdict(r) ELSE "UnknownKey")
  /\ UNCHANGED <<now, jwks, retired, cache>>

-----------------------------------------------------------------------------
(* The environment. *)

\* sesame-idam publishes a new Ed25519 key, or withdraws one for good.
Rotate(k) ==
  /\ \/ /\ k \notin jwks /\ retired[k] = None
        /\ jwks' = jwks \cup {k}
        /\ UNCHANGED retired
     \/ /\ k \in jwks
        /\ jwks' = jwks \ {k}
        /\ retired' = [retired EXCEPT ![k] = now]
  /\ UNCHANGED <<now, cache, request>>

\* An answer is stored and used within MaxDelay.  The code does not see to that
\* (reqwest::Client::new() has no timeout): the network does.
Tick ==
  /\ now < MaxTime
  /\ \A r \in Requests :
       request[r].pc \in {"store", "reread"} => now - request[r].at < MaxDelay
  /\ now' = now + 1
  /\ UNCHANGED <<jwks, retired, cache, request>>

Next ==
  \/ \E r \in Requests :
       \/ Lookup(r)
       \/ Fetch(r)
       \/ FetchFails(r)
       \/ Store(r)
       \/ Reread(r)
  \/ \E k \in EdKeys : Rotate(k)
  \/ Tick

Spec == Init /\ [][Next]_vars

\* The runtime runs every task that waits for nothing; a GET may hang for ever.
FairSpec ==
  /\ Spec
  /\ \A r \in Requests : WF_vars(Lookup(r) \/ Reread(r))

-----------------------------------------------------------------------------
\* A token is accepted only if it has no defect, has not expired when its key has
\* been fetched, and is signed by an Ed25519 key that sesame-idam publishes or withdrew
\* at most cache_ttl, and the delay of one answer, ago: however many refreshes
\* overlap and in whatever order their answers are stored.
AcceptedKeyIsRecent ==
  [][\A r \in Requests :
       request[r].reply = "none" /\ request'[r].reply = "accepted" =>
         /\ Defective(r) = "none"
         /\ request[r].token.exp = 0 \/ now <= request[r].token.exp
         /\ Kid(r) \in EdKeys
         /\ \/ Kid(r) \in jwks
            \/ retired[Kid(r)] # None /\ now <= retired[Kid(r)] + TTL + MaxDelay]_vars

\* A call that fetched the key it needs, after a rotation say, also finds it, unless
\* another call stored its own answer between this call's storing and reading: the
\* only case in which key_for reports a key as unknown that it was sent.
FetchedKeyIsFound ==
  [][\A r \in Requests :
       /\ request[r].pc = "reread" /\ request'[r].reply = "UnknownKey"
       /\ Kid(r) \in ParseJwks(request[r].answer)
       => request[r].raced]_vars

\* A request is answered, or waits for ever for the answer to its own GET, as
\* reqwest::Client::new() lets it: key_for does not fetch again and again for a kid that
\* nobody publishes, or that another call's answer took from the cache.
WaitsOnlyForSesame ==
  \A r \in Requests : <>[](request[r].pc \in {"done", "fetch", "store"})
=============================================================================
